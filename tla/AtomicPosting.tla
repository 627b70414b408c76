--------------------------- MODULE AtomicPosting ---------------------------
(***************************************************************************)
(* What a client of the ledger is promised: a posting changes the balances *)
(* of all its wallets in one step, or none of them, and once at most.      *)
(***************************************************************************)
EXTENDS Integers

CONSTANTS
  Posters,   \* postings asked for
  Wallets,   \* wallets
  Change     \* Change[p][w]: what the posting p adds to the balance of w

VARIABLES
  balanceOf,  \* what a reader of the wallets sees
  fate        \* of each posting

vars == <<balanceOf, fate>>

Init == balanceOf \in [Wallets -> Int] /\ fate = [p \in Posters |-> "pending"]

Commit(p) ==
  /\ fate[p] = "pending"
  /\ fate' = [fate EXCEPT ![p] = "committed"]
  /\ balanceOf' = [w \in Wallets |-> balanceOf[w] + Change[p][w]]

(* A crash abandons several at once. *)
Abandon(P) ==
  /\ \A p \in P : fate[p] = "pending"
  /\ fate' = [p \in Posters |-> IF p \in P THEN "abandoned" ELSE fate[p]]
  /\ UNCHANGED balanceOf

Next == (\E p \in Posters : Commit(p)) \/ (\E P \in SUBSET Posters : Abandon(P))

Spec == Init /\ [][Next]_vars
=============================================================================
