------------------------------ MODULE Posting ------------------------------
(***************************************************************************)
(* How a posting reaches the database (prismaFactory.ts, the $transaction  *)
(* calls of the services, applyBalanceDeltas): a connection of the bounded *)
(* pool, one increment after the other, each of which locks its wallet     *)
(* row until the end of the transaction, then the commit.                  *)
(***************************************************************************)
EXTENDS BalanceEffect, Sums, Sequences

CONSTANTS
  Posters,        \* the transactions that post to the ledger
  RowOf,          \* what each does to its row, one of RowChanges (module BalanceEffect)
  PoolSizes,      \* values of DB_POOL_MAX
  StartBalances   \* the balances there may be at the start

ASSUME PoolAssumption == PoolSizes \subseteq Nat \ {0}

(* A transfer may go to its own source: payInstallment compares the wallets *)
(* no more than updateWallet asks whether a wallet has bills.               *)
ASSUME RowsAssumption ==
  RowOf \in [Posters -> RowChanges] /\ StartBalances \subseteq [Wallets -> Int]

VARIABLES
  stored,   \* wallets.balance: the committed version of each row
  tx,       \* the database transaction of each poster
  pool      \* databaseConfig.pool.max, read once

postingVars == <<stored, tx, pool>>

(* at counts the increments done; draft holds the uncommitted version of    *)
(* the rows they changed, which no one else sees.                           *)
TxStates == {"none", "waiting", "open", "committed", "aborted"}
NewTx == [st |-> "none", at |-> 0, draft |-> [w \in Wallets |-> 0]]

(* balanceDeltas: the source, then the destination. *)
DeltaList(e) ==
  LET source      == [wallet |-> e.wallet, amount |-> SourceDelta(e)]
      destination == [wallet |-> e.to, amount |-> e.amount]
  IN IF e = NoEffect THEN <<>>
     ELSE IF HasDestination(e) THEN <<source, destination>> ELSE <<source>>

(* reverseBalanceEffect *)
Negated(deltas) == [i \in DOMAIN deltas |-> [deltas[i] EXCEPT !.amount = -@]]

(* All that each transaction adds to balances, in order: an update takes    *)
(* back the old effect before it applies the new one, often on the same     *)
(* wallets.  The write of the row itself, between the two, moves no balance. *)
Increments ==
  [p \in Posters |-> Negated(DeltaList(RowOf[p].before)) \o DeltaList(RowOf[p].after)]

(* Rows that p has changed and not yet committed: it holds their locks.     *)
(* Zero amounts are skipped.                                                *)
Touched(p, at) ==
  {w \in Wallets : \E i \in 1..at : Increments[p][i].wallet = w /\ Increments[p][i].amount # 0}
Holds(p, w) == tx[p].st = "open" /\ w \in Touched(p, tx[p].at)

(* The row as p reads it: its own version, or the committed one. *)
VersionFor(p, w) == IF Holds(p, w) THEN tx[p].draft[w] ELSE stored[w]

Enlisted(p) == tx[p].st = "none" /\ tx' = [tx EXCEPT ![p].st = "waiting"] /\ UNCHANGED <<stored, pool>>

Connected == {p \in Posters : tx[p].st = "open"}

Acquire(p) ==
  /\ tx[p].st = "waiting"
  /\ Cardinality(Connected) < pool
  /\ tx' = [tx EXCEPT ![p].st = "open"]
  /\ UNCHANGED <<stored, pool>>

(* connectionTimeoutMillis, or a pool that is closing. *)
GiveUp(p) ==
  /\ tx[p].st = "waiting"
  /\ tx' = [tx EXCEPT ![p].st = "aborted"]
  /\ UNCHANGED <<stored, pool>>

(* UPDATE waits for whoever holds the row. *)
RowFree(p, w) == \A q \in Posters \ {p} : ~Holds(q, w)

(* Mutant: an increment is sent past the transaction. *)
IncrementOutside(p) ==
  LET t == tx[p]
      d == Increments[p][t.at + 1]
  IN /\ t.st = "open" /\ t.at < Len(Increments[p]) /\ RowFree(p, d.wallet)
     /\ stored' = [stored EXCEPT ![d.wallet] = @ + d.amount]
     /\ tx' = [tx EXCEPT ![p].at = t.at + 1, ![p].draft[d.wallet] = stored'[d.wallet]]
     /\ UNCHANGED pool

(* One turn of the loop of applyBalanceDeltas: an increment in place, of    *)
(* the newest version of the row.                                           *)
Increment(p) ==
  LET t == tx[p]
      d == Increments[p][t.at + 1]
  IN /\ t.st = "open" /\ t.at < Len(Increments[p])
     /\ \/ d.amount = 0 /\ tx' = [tx EXCEPT ![p].at = t.at + 1]
        \/ /\ d.amount # 0 /\ RowFree(p, d.wallet)
           /\ tx' = [tx EXCEPT ![p].at = t.at + 1,
                               ![p].draft[d.wallet] = VersionFor(p, d.wallet) + d.amount]
     /\ UNCHANGED <<stored, pool>>

CommitPosting(p) ==
  /\ tx[p].st = "open" /\ tx[p].at = Len(Increments[p])
  /\ stored' = [w \in Wallets |-> VersionFor(p, w)]
  /\ tx' = [tx EXCEPT ![p].st = "committed"]
  /\ UNCHANGED pool

(* A statement fails, the transaction takes too long, the connection breaks *)
(* or the database ends it: nothing it wrote remains.                       *)
RollbackPosting(p) ==
  /\ tx[p].st = "open"
  /\ tx' = [tx EXCEPT ![p].st = "aborted"]
  /\ UNCHANGED <<stored, pool>>

(* Everything unfinished ends with the process. *)
Unfinished == {p \in Posters : tx[p].st \in {"waiting", "open"}}
AbortAll ==
  /\ tx' = [p \in Posters |-> IF p \in Unfinished THEN [tx[p] EXCEPT !.st = "aborted"] ELSE tx[p]]
  /\ UNCHANGED <<stored, pool>>
-----------------------------------------------------------------------------
(* Mutant: no one notices. *)
DeadlockUnseen(p) == FALSE

WaitsFor(p, q) ==
  /\ tx[p].st = "open" /\ tx[p].at < Len(Increments[p])
  /\ LET d == Increments[p][tx[p].at + 1] IN q # p /\ d.amount # 0 /\ Holds(q, d.wallet)

(* p is in a cycle of transactions that wait for each other's rows: the     *)
(* database picks a victim.                                                 *)
Deadlocked(p) ==
  \E S \in SUBSET Posters : p \in S /\ \A q \in S : \E r \in S : WaitsFor(q, r)

Victim(p) == Deadlocked(p) /\ RollbackPosting(p)

PostingInit == stored \in StartBalances /\ pool \in PoolSizes /\ tx = [p \in Posters |-> NewTx]

(* A step of one transaction, and the end of all of them. *)
PostingStep(p) ==
  Acquire(p) \/ GiveUp(p) \/ Increment(p) \/ CommitPosting(p) \/ RollbackPosting(p)

PostingNext == (\E p \in Posters : Enlisted(p) \/ PostingStep(p)) \/ AbortAll

PostingSpec == PostingInit /\ [][PostingNext]_postingVars
-----------------------------------------------------------------------------
PostingTypeOK ==
  /\ stored \in [Wallets -> Int] /\ pool \in PoolSizes
  /\ tx \in [Posters -> [st : TxStates, at : 0..4, draft : [Wallets -> Int]]]

(* What each increment of p adds to wallet w, and the first n of them. *)
ShareOf(p, w) ==
  [i \in 1..4 |-> IF i \in DOMAIN Increments[p] /\ Increments[p][i].wallet = w
                  THEN Increments[p][i].amount ELSE 0]
Done(p, w, n) == Total(ShareOf(p, w), 1..n)

(* What the locks are for: a row is held by one transaction, whose draft is *)
(* the committed version plus what it has added so far.                     *)
DraftsCurrent ==
  \A p \in Posters, w \in Wallets : Holds(p, w) =>
    /\ tx[p].draft[w] = stored[w] + Done(p, w, tx[p].at)
    /\ \A q \in Posters \ {p} : ~Holds(q, w)

FateOf(p) ==
  CASE tx[p].st = "committed" -> "committed"
    [] tx[p].st = "aborted"   -> "abandoned"
    [] OTHER                  -> "pending"

Atomic == INSTANCE AtomicPosting WITH
  Change <- [p \in Posters |-> [w \in Wallets |-> ChangeOn(RowOf[p], w)]],
  balanceOf <- stored,
  fate <- [p \in Posters |-> FateOf(p)]

(* The implementation of the abstract specification: however increments,    *)
(* waits, rollbacks and crashes interleave, a reader of the wallets sees    *)
(* whole postings only ("all wallet writes commit or roll back together").  *)
PostsAtomically == Atomic!Spec
=============================================================================
