-------------------------------- MODULE Sums --------------------------------
(***************************************************************************)
(* Sums of money over a finite set, as the code forms them with reduce and *)
(* with aggregates of the database: the order is of no matter.             *)
(***************************************************************************)
EXTENDS Integers, FiniteSetsExt

(* The sum of the values of function e on the elements of S.                *)
Total(e, S) == MapThenSumSet(LAMBDA x : e[x], S)
=============================================================================
