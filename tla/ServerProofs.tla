---------------------------- MODULE ServerProofs ----------------------------
(***************************************************************************)
(* A $transaction of increments with row locks implements the atomic       *)
(* posting of module AtomicPosting, for any rows, wallets, balances and    *)
(* pool, with rollbacks and crashes at any moment; so does the process     *)
(* that serves requests with it, with its shutdowns and lost answers; and  *)
(* what a status says about the ledger and a shutdown leaves behind.       *)
(***************************************************************************)
EXTENDS Server, SumProofs, SequenceTheorems

-----------------------------------------------------------------------------
(* The deltas of a row: two at most, on wallets, and together its effect.    *)
WalletDeltas == [wallet : Wallets, amount : Int]
DeltaAt(deltas, w, i) ==
  IF i \in DOMAIN deltas /\ deltas[i].wallet = w THEN deltas[i].amount ELSE 0

LEMMA DeltasOfRow ==
  ASSUME NEW e \in EffectInputs \cup {NoEffect}
  PROVE  /\ DeltaList(e) \in Seq(WalletDeltas) /\ Len(DeltaList(e)) \in 0..2
         /\ \A w \in Wallets :
              EffectOn(e, w) = DeltaAt(DeltaList(e), w, 1) + DeltaAt(DeltaList(e), w, 2)
<1>1. CASE e = NoEffect
  <2>1. DeltaList(e) = <<>>
    BY <1>1 DEF DeltaList
  <2>2. \A w \in Wallets : EffectOn(e, w) = 0
    BY <1>1, NoWalletAssumption DEF NoEffect, EffectOn, HasDestination
  <2>3. DOMAIN <<>> = {}
    OBVIOUS
  <2>4. QED
    BY <2>1, <2>2, <2>3 DEF DeltaAt
<1>2. CASE e # NoEffect
  <2> DEFINE a == [wallet |-> e.wallet, amount |-> SourceDelta(e)]
             b == [wallet |-> e.to, amount |-> e.amount]
  <2>1. e \in EffectInputs
    BY <1>2
  <2>2. a \in WalletDeltas /\ a.wallet = e.wallet /\ a.amount = SourceDelta(e)
    BY <2>1 DEF EffectInputs, WalletDeltas, SourceDelta
  <2>3. CASE HasDestination(e)
    <3>1. b \in WalletDeltas /\ b.wallet = e.to /\ b.amount = e.amount
      BY <2>1, <2>3 DEF EffectInputs, WalletDeltas, HasDestination
    <3>3. DeltaList(e) = <<a, b>>
      BY <1>2, <2>3 DEF DeltaList
    <3> HIDE DEF a, b
    <3>4. /\ DeltaList(e) \in Seq(WalletDeltas) /\ Len(DeltaList(e)) = 2
          /\ DOMAIN DeltaList(e) = 1..2 /\ DeltaList(e)[1] = a /\ DeltaList(e)[2] = b
      BY <2>2, <3>1, <3>3
    <3>5. \A w \in Wallets : /\ DeltaAt(DeltaList(e), w, 1) = IF e.wallet = w THEN SourceDelta(e) ELSE 0
                             /\ DeltaAt(DeltaList(e), w, 2) = IF e.to = w THEN e.amount ELSE 0
      BY <2>2, <3>1, <3>4 DEF DeltaAt
    <3>6. QED
      BY <2>3, <3>4, <3>5 DEF EffectOn
  <2>4. CASE ~HasDestination(e)
    <3>2. DeltaList(e) = <<a>>
      BY <1>2, <2>4 DEF DeltaList
    <3> HIDE DEF a, b
    <3>3. /\ DeltaList(e) \in Seq(WalletDeltas) /\ Len(DeltaList(e)) = 1
          /\ DOMAIN DeltaList(e) = 1..1 /\ DeltaList(e)[1] = a
      BY <2>2, <3>2
    <3>4. \A w \in Wallets : /\ DeltaAt(DeltaList(e), w, 1) = IF e.wallet = w THEN SourceDelta(e) ELSE 0
                             /\ DeltaAt(DeltaList(e), w, 2) = 0
      BY <2>2, <3>3 DEF DeltaAt
    <3>5. SourceDelta(e) \in Int
      BY <2>1 DEF EffectInputs, SourceDelta
    <3>6. QED
      BY <2>4, <3>3, <3>4, <3>5 DEF EffectOn
  <2>5. QED
    BY <2>3, <2>4
<1>3. QED
  BY <1>1, <1>2

(* The increments of a transaction: four at most, each on a wallet, those   *)
(* of the row before in reverse.                                            *)
LEMMA IncrementsAre ==
  ASSUME NEW p \in Posters
  PROVE  /\ Len(Increments[p]) = Len(DeltaList(RowOf[p].before)) + Len(DeltaList(RowOf[p].after))
         /\ Len(Increments[p]) \in 0..4 /\ DOMAIN Increments[p] = 1..Len(Increments[p])
         /\ \A i \in 1..Len(Increments[p]) :
              /\ Increments[p][i] \in WalletDeltas
              /\ i <= Len(DeltaList(RowOf[p].before)) =>
                   /\ Increments[p][i].wallet = DeltaList(RowOf[p].before)[i].wallet
                   /\ Increments[p][i].amount = -DeltaList(RowOf[p].before)[i].amount
              /\ i > Len(DeltaList(RowOf[p].before)) =>
                   Increments[p][i] = DeltaList(RowOf[p].after)[i - Len(DeltaList(RowOf[p].before))]
<1> DEFINE old == DeltaList(RowOf[p].before)
           new == DeltaList(RowOf[p].after)
           neg == Negated(old)
<1>1. RowOf[p].before \in EffectInputs \cup {NoEffect} /\ RowOf[p].after \in EffectInputs \cup {NoEffect}
  BY RowsAssumption DEF RowChanges
<1>2. /\ old \in Seq(WalletDeltas) /\ Len(old) \in 0..2
      /\ new \in Seq(WalletDeltas) /\ Len(new) \in 0..2
  BY <1>1, DeltasOfRow
<1>3. Increments[p] = neg \o new
  BY DEF Increments
<1> HIDE DEF old, new
<1>4. \A i \in 1..Len(old) : /\ neg[i] \in WalletDeltas
                             /\ neg[i].wallet = old[i].wallet /\ neg[i].amount = -old[i].amount
  <2> SUFFICES ASSUME NEW i \in 1..Len(old)
               PROVE  /\ neg[i] \in WalletDeltas
                      /\ neg[i].wallet = old[i].wallet /\ neg[i].amount = -old[i].amount
    OBVIOUS
  <2>1. old[i] \in WalletDeltas /\ DOMAIN old = 1..Len(old)
    BY <1>2
  <2>2. neg[i] = [old[i] EXCEPT !.amount = -@]
    BY <2>1 DEF Negated
  <2>3. QED
    BY <2>1, <2>2 DEF WalletDeltas
<1>5. neg \in Seq(WalletDeltas) /\ Len(neg) = Len(old)
  <2>1. DOMAIN old = 1..Len(old) /\ Len(old) \in Nat
    BY <1>2
  <2>3. neg \in [1..Len(old) -> WalletDeltas]
    BY <1>4, <2>1 DEF Negated
  <2> HIDE DEF neg
  <2>2. QED
    BY <2>1, <2>3
<1> HIDE DEF neg
<1>6. /\ Len(neg \o new) = Len(neg) + Len(new) /\ neg \o new \in Seq(WalletDeltas)
      /\ \A i \in 1..(Len(neg) + Len(new)) :
           (neg \o new)[i] = IF i <= Len(neg) THEN neg[i] ELSE new[i - Len(neg)]
  BY <1>2, <1>5, ConcatProperties
<1>7. Len(Increments[p]) = Len(old) + Len(new) /\ Len(Increments[p]) \in 0..4
  <2>1. Len(Increments[p]) = Len(old) + Len(new)
    BY <1>3, <1>5, <1>6
  <2>2. \A j, k \in 0..2 : j + k \in 0..4
    OBVIOUS
  <2>3. QED
    BY <1>2, <2>1, <2>2
<1>8. DOMAIN Increments[p] = 1..Len(Increments[p])
  BY <1>3, <1>6
<1>9. ASSUME NEW i \in 1..Len(Increments[p])
      PROVE  /\ Increments[p][i] \in WalletDeltas
             /\ i <= Len(old) => /\ Increments[p][i].wallet = old[i].wallet
                                 /\ Increments[p][i].amount = -old[i].amount
             /\ i > Len(old) => Increments[p][i] = new[i - Len(old)]
  <2>1. Increments[p][i] = IF i <= Len(old) THEN neg[i] ELSE new[i - Len(old)]
    BY <1>3, <1>5, <1>6, <1>7
  <2>2. CASE i <= Len(old)
    BY <1>2, <1>4, <2>1, <2>2
  <2>3. CASE i > Len(old)
    <3>1. i - Len(old) \in 1..Len(new)
      BY <1>2, <1>7, <2>3
    <3>2. QED
      BY <1>2, <2>1, <2>3, <3>1
  <2>4. QED
    BY <1>2, <2>2, <2>3
<1>10. QED
  BY <1>7, <1>8, <1>9 DEF old, new

LEMMA FourAtMost ==
  ASSUME NEW p \in Posters
  PROVE  /\ Len(Increments[p]) \in 0..4 /\ DOMAIN Increments[p] = 1..Len(Increments[p])
         /\ \A i \in 1..Len(Increments[p]) :
              Increments[p][i].wallet \in Wallets /\ Increments[p][i].amount \in Int
<1>1. /\ Len(Increments[p]) \in 0..4 /\ DOMAIN Increments[p] = 1..Len(Increments[p])
      /\ \A i \in 1..Len(Increments[p]) : Increments[p][i] \in WalletDeltas
  BY IncrementsAre
<1>2. QED
  BY <1>1 DEF WalletDeltas

-----------------------------------------------------------------------------
(* What the increments done so far have added to a wallet. *)
LEMMA ShareTypes ==
  ASSUME NEW p \in Posters, NEW w \in Wallets
  PROVE  \A i \in 1..4 :
           /\ ShareOf(p, w)[i] \in Int
           /\ ShareOf(p, w)[i] = IF i \in 1..Len(Increments[p]) /\ Increments[p][i].wallet = w
                                 THEN Increments[p][i].amount ELSE 0
<1>1. /\ DOMAIN Increments[p] = 1..Len(Increments[p])
      /\ \A i \in 1..Len(Increments[p]) : Increments[p][i].amount \in Int
  BY FourAtMost
<1>2. QED
  BY <1>1 DEF ShareOf

LEMMA DoneFirst ==
  ASSUME NEW p \in Posters, NEW w \in Wallets
  PROVE  Done(p, w, 0) = 0
<1>1. 1..0 = {}
  OBVIOUS
<1>2. QED
  BY <1>1, TotalEmpty DEF Done

LEMMA DoneNext ==
  ASSUME NEW p \in Posters, NEW w \in Wallets, NEW n \in 0..3
  PROVE  /\ Done(p, w, n + 1) = Done(p, w, n) + ShareOf(p, w)[n + 1]
         /\ Done(p, w, n) \in Int /\ ShareOf(p, w)[n + 1] \in Int
<1> DEFINE e == ShareOf(p, w)
<1>1. \A i \in 1..4 : e[i] \in Int
  BY ShareTypes
<1> HIDE DEF e
<1>2. /\ IsFiniteSet(1..(n + 1)) /\ IsFiniteSet(1..n)
      /\ (1..(n + 1)) \ {n + 1} = 1..n /\ n + 1 \in 1..(n + 1) /\ n + 1 \in 1..4
      /\ \A i \in 1..(n + 1) : i \in 1..4
  <2>1. n \in Int /\ n + 1 \in Int /\ 1 \in Int
    OBVIOUS
  <2>2. IsFiniteSet(1..(n + 1)) /\ IsFiniteSet(1..n)
    BY <2>1, FS_Interval
  <2>3. (1..(n + 1)) \ {n + 1} = 1..n
    OBVIOUS
  <2>4. QED
    BY <2>2, <2>3
<1>3. Total(e, 1..(n + 1)) = e[n + 1] + Total(e, 1..n)
  <2>1. PICK S : S = 1..(n + 1)
    OBVIOUS
  <2>2. PICK k : k = n + 1
    OBVIOUS
  <2>3. IsFiniteSet(S) /\ k \in S /\ S \ {k} = 1..n
    BY <1>2, <2>1, <2>2
  <2>4. \A i \in S : e[i] \in Int
    BY <1>1, <1>2, <2>1
  <2>5. Total(e, S) = e[k] + Total(e, S \ {k})
    BY <2>3, <2>4, TotalRemove
  <2>6. QED
    BY <2>1, <2>2, <2>3, <2>5
<1>4. Total(e, 1..n) \in Int
  BY <1>1, <1>2, TotalType
<1>5. QED
  BY <1>1, <1>2, <1>3, <1>4 DEF Done, e

LEMMA DoneUntouched ==
  ASSUME NEW p \in Posters, NEW w \in Wallets, NEW n \in 0..4, n <= Len(Increments[p]),
         w \notin Touched(p, n)
  PROVE  Done(p, w, n) = 0
<1>1. ASSUME NEW i \in 1..n PROVE ShareOf(p, w)[i] = 0
  <2>1. i \in 1..4 /\ ~(Increments[p][i].wallet = w /\ Increments[p][i].amount # 0)
    BY DEF Touched
  <2>2. QED
    BY <2>1, ShareTypes
<1>2. IsFiniteSet(1..n)
  BY FS_Interval
<1>3. QED
  BY <1>1, <1>2, TotalZero DEF Done

(* All of them together are the change of the row's effect. *)
LEMMA DoneAll ==
  ASSUME NEW p \in Posters, NEW w \in Wallets
  PROVE  Done(p, w, Len(Increments[p])) = ChangeOn(RowOf[p], w)
<1> DEFINE old == DeltaList(RowOf[p].before)
           new == DeltaList(RowOf[p].after)
           e   == ShareOf(p, w)
           n   == Len(Increments[p])
<1>1. RowOf[p].before \in EffectInputs \cup {NoEffect} /\ RowOf[p].after \in EffectInputs \cup {NoEffect}
  BY RowsAssumption DEF RowChanges
<1>2. /\ old \in Seq(WalletDeltas) /\ Len(old) \in 0..2
      /\ new \in Seq(WalletDeltas) /\ Len(new) \in 0..2
      /\ EffectOn(RowOf[p].before, w) = DeltaAt(old, w, 1) + DeltaAt(old, w, 2)
      /\ EffectOn(RowOf[p].after, w) = DeltaAt(new, w, 1) + DeltaAt(new, w, 2)
  BY <1>1, DeltasOfRow
<1>3. /\ n = Len(old) + Len(new) /\ n \in 0..4
      /\ \A i \in 1..n :
           /\ i <= Len(old) => /\ Increments[p][i].wallet = old[i].wallet
                               /\ Increments[p][i].amount = -old[i].amount
           /\ i > Len(old) => Increments[p][i] = new[i - Len(old)]
  BY IncrementsAre
<1>4. \A i \in 1..4 : /\ e[i] \in Int
                      /\ e[i] = IF i \in 1..n /\ Increments[p][i].wallet = w
                                THEN Increments[p][i].amount ELSE 0
  BY ShareTypes
<1>5. Done(p, w, 4) = e[1] + e[2] + e[3] + e[4]
  <2>1. Done(p, w, 1) = Done(p, w, 0) + e[1]
    BY DoneNext
  <2>2. Done(p, w, 2) = Done(p, w, 1) + e[2]
    BY DoneNext
  <2>3. Done(p, w, 3) = Done(p, w, 2) + e[3]
    BY DoneNext
  <2>4. Done(p, w, 4) = Done(p, w, 3) + e[4]
    BY DoneNext
  <2> HIDE DEF e
  <2>5. QED
    BY <1>4, <2>1, <2>2, <2>3, <2>4, DoneFirst
<1> HIDE DEF e, n, old, new
<1>6. Done(p, w, n) = Done(p, w, 4)
  <2>0. 1 \in Int /\ 4 \in Int
    OBVIOUS
  <2>4. IsFiniteSet(1..4)
    BY <2>0, FS_Interval
  <2>5. 1..n \in SUBSET (1..4)
    BY <1>3
  <2>1. IsFiniteSet(1..4) /\ 1..n \in SUBSET (1..4)
    BY <2>4, <2>5
  <2>2. \A i \in (1..4) \ (1..n) : e[i] = 0
    BY <1>4
  <2>3. Total(e, 1..n) = Total(e, 1..4)
    BY <1>4, <2>1, <2>2, TotalExtend
  <2>6. QED
    BY <2>3 DEF Done, e
<1>7. DOMAIN old = 1..Len(old) /\ DOMAIN new = 1..Len(new)
  BY <1>2
<1>8. /\ \A i \in 1..2 : DeltaAt(old, w, i) = IF i <= Len(old) /\ old[i].wallet = w THEN old[i].amount ELSE 0
      /\ \A i \in 1..2 : DeltaAt(new, w, i) = IF i <= Len(new) /\ new[i].wallet = w THEN new[i].amount ELSE 0
  BY <1>2, <1>7 DEF DeltaAt
<1>9. \A i \in 1..2 : DeltaAt(old, w, i) \in Int /\ DeltaAt(new, w, i) \in Int
  <2>1. /\ \A i \in 1..Len(old) : old[i].amount \in Int
        /\ \A i \in 1..Len(new) : new[i].amount \in Int
    <3>1. /\ \A i \in 1..Len(old) : old[i] \in WalletDeltas
          /\ \A i \in 1..Len(new) : new[i] \in WalletDeltas
      BY <1>2
    <3>2. \A x \in WalletDeltas : x.amount \in Int
      BY DEF WalletDeltas
    <3>3. QED
      BY <3>1, <3>2
  <2>2. QED
    BY <1>2, <1>8, <2>1
<1>10. /\ \A i \in 1..4 : i <= Len(old) => e[i] = -DeltaAt(old, w, i)
       /\ \A i \in 1..4 : i > Len(old) /\ i <= n => e[i] = DeltaAt(new, w, i - Len(old))
       /\ \A i \in 1..4 : i > n => e[i] = 0
       /\ \A i \in 1..2 : i > Len(old) => DeltaAt(old, w, i) = 0
       /\ \A i \in 1..2 : i > Len(new) => DeltaAt(new, w, i) = 0
  <2>1. ASSUME NEW i \in 1..4, i <= Len(old) PROVE e[i] = -DeltaAt(old, w, i)
    <3>1. i \in 1..n /\ i \in 1..2
      BY <1>2, <1>3, <2>1
    <3>2. QED
      BY <1>3, <1>4, <1>8, <2>1, <3>1
  <2>2. ASSUME NEW i \in 1..4, i > Len(old), i <= n PROVE e[i] = DeltaAt(new, w, i - Len(old))
    <3>1. i \in 1..n /\ i - Len(old) \in 1..2 /\ i - Len(old) <= Len(new)
      BY <1>2, <1>3, <2>2
    <3>2. QED
      BY <1>3, <1>4, <1>8, <2>2, <3>1
  <2>3. ASSUME NEW i \in 1..4, i > n PROVE e[i] = 0
    BY <1>3, <1>4, <2>3
  <2>4. ASSUME NEW i \in 1..2, i > Len(old) PROVE DeltaAt(old, w, i) = 0
    BY <1>2, <1>8, <2>4
  <2>5. ASSUME NEW i \in 1..2, i > Len(new) PROVE DeltaAt(new, w, i) = 0
    BY <1>2, <1>8, <2>5
  <2>6. QED
    BY <2>1, <2>2, <2>3, <2>4, <2>5
<1>11. e[1] + e[2] + e[3] + e[4]
         = -(DeltaAt(old, w, 1) + DeltaAt(old, w, 2)) + (DeltaAt(new, w, 1) + DeltaAt(new, w, 2))
  <2>1. CASE Len(old) = 0
    <3>1. e[1] = DeltaAt(new, w, 1)
      BY <1>2, <1>3, <1>10, <2>1
    <3>2. e[2] = DeltaAt(new, w, 2)
      BY <1>2, <1>3, <1>10, <2>1
    <3>3. e[3] = 0
      BY <1>2, <1>3, <1>10, <2>1
    <3>4. e[4] = 0
      BY <1>2, <1>3, <1>10, <2>1
    <3>5. DeltaAt(old, w, 1) = 0 /\ DeltaAt(old, w, 2) = 0
      BY <1>2, <1>10, <2>1
    <3>6. QED
      BY <1>9, <3>1, <3>2, <3>3, <3>4, <3>5
  <2>2. CASE Len(old) = 1
    <3>1. e[1] = -DeltaAt(old, w, 1)
      BY <1>2, <1>3, <1>10, <2>2
    <3>2. e[2] = DeltaAt(new, w, 1)
      BY <1>2, <1>3, <1>10, <2>2
    <3>3. e[3] = DeltaAt(new, w, 2)
      BY <1>2, <1>3, <1>10, <2>2
    <3>4. e[4] = 0
      BY <1>2, <1>3, <1>10, <2>2
    <3>5. DeltaAt(old, w, 2) = 0
      BY <1>2, <1>10, <2>2
    <3>6. QED
      BY <1>9, <3>1, <3>2, <3>3, <3>4, <3>5
  <2>3. CASE Len(old) = 2
    <3>1. e[1] = -DeltaAt(old, w, 1)
      BY <1>2, <1>3, <1>10, <2>3
    <3>2. e[2] = -DeltaAt(old, w, 2)
      BY <1>2, <1>3, <1>10, <2>3
    <3>3. e[3] = DeltaAt(new, w, 1)
      BY <1>2, <1>3, <1>10, <2>3
    <3>4. e[4] = DeltaAt(new, w, 2)
      BY <1>2, <1>3, <1>10, <2>3
    <3>5. QED
      BY <1>9, <3>1, <3>2, <3>3, <3>4
  <2>4. QED
    BY <1>2, <2>1, <2>2, <2>3
<1>12. QED
  BY <1>2, <1>5, <1>6, <1>11 DEF ChangeOn, ReverseOn, n

LEMMA ChangeType ==
  ASSUME NEW p \in Posters, NEW w \in Wallets
  PROVE  ChangeOn(RowOf[p], w) \in Int
<1>1. ASSUME NEW e \in EffectInputs \cup {NoEffect} PROVE EffectOn(e, w) \in Int
  BY NoWalletAssumption DEF EffectInputs, NoEffect, EffectOn, SourceDelta, HasDestination
<1>2. QED
  BY <1>1, RowsAssumption DEF RowChanges, ChangeOn, ReverseOn

(* One increment more. *)
LEMMA NextTouched ==
  ASSUME NEW p \in Posters, NEW n \in 0..3, n < Len(Increments[p]), NEW w \in Wallets
  PROVE  /\ Increments[p][n + 1].wallet \in Wallets /\ Increments[p][n + 1].amount \in Int
         /\ w \in Touched(p, n + 1) <=>
              \/ w \in Touched(p, n)
              \/ w = Increments[p][n + 1].wallet /\ Increments[p][n + 1].amount # 0
         /\ Done(p, w, n) \in Int
         /\ Done(p, w, n + 1) =
              Done(p, w, n) + (IF Increments[p][n + 1].wallet = w THEN Increments[p][n + 1].amount ELSE 0)
<1>1. /\ n + 1 \in 1..Len(Increments[p]) /\ n + 1 \in 1..4
      /\ Increments[p][n + 1].wallet \in Wallets /\ Increments[p][n + 1].amount \in Int
  BY FourAtMost
<1>2. \A i : i \in 1..(n + 1) <=> i \in 1..n \/ i = n + 1
  OBVIOUS
<1>3. w \in Touched(p, n + 1) <=>
        \/ w \in Touched(p, n)
        \/ w = Increments[p][n + 1].wallet /\ Increments[p][n + 1].amount # 0
  BY <1>2 DEF Touched
<1>4. ShareOf(p, w)[n + 1] = IF Increments[p][n + 1].wallet = w THEN Increments[p][n + 1].amount ELSE 0
  BY <1>1, ShareTypes
<1>5. QED
  BY <1>1, <1>3, <1>4, DoneNext

-----------------------------------------------------------------------------
(* Types and locks: each draft on the committed version of its row, each    *)
(* row with one holder, and nothing done before there is a connection.      *)
NotBegun == \A p \in Posters : tx[p].st \in {"none", "waiting"} => tx[p].at = 0
PostingInv == PostingTypeOK /\ DraftsCurrent /\ NotBegun

TxRecords == [st : TxStates, at : 0..4, draft : [Wallets -> Int]]

LEMMA InitPosting == PostingInit => PostingInv
<1> SUFFICES ASSUME PostingInit PROVE PostingInv
  OBVIOUS
<1>1. NewTx \in TxRecords
  BY DEF NewTx, TxRecords, TxStates
<1>2. PostingTypeOK
  BY <1>1, RowsAssumption DEF PostingInit, PostingTypeOK, TxRecords
<1>3. \A p \in Posters, w \in Wallets : ~Holds(p, w)
  BY DEF PostingInit, Holds, NewTx
<1>4. NotBegun
  BY DEF PostingInit, NotBegun, NewTx
<1>5. QED
  BY <1>2, <1>3, <1>4 DEF PostingInv, DraftsCurrent

(* Nothing is stored and no row is locked: only states change. *)
LEMMA StatesChange ==
  ASSUME PostingInv, UNCHANGED <<stored, pool>>, NEW P \in SUBSET Posters, NEW s \in TxStates,
         \A p \in P : s \in {"waiting", "open"} => tx[p].st \in {"none", "waiting"},
         s # "none",
         tx' = [p \in Posters |-> IF p \in P THEN [tx[p] EXCEPT !.st = s] ELSE tx[p]]
  PROVE  PostingInv'
<1>1. PostingTypeOK'
  BY DEF PostingInv, PostingTypeOK
<1>2. \A q \in Posters, w \in Wallets : Holds(q, w)' => Holds(q, w) /\ tx'[q] = tx[q]
  <2> SUFFICES ASSUME NEW q \in Posters, NEW w \in Wallets, Holds(q, w)'
               PROVE  Holds(q, w) /\ tx'[q] = tx[q]
    OBVIOUS
  <2>1. CASE q \notin P
    BY <2>1 DEF Holds, Touched
  <2>2. CASE q \in P
    <3>1. tx'[q].st = s /\ tx'[q].at = tx[q].at
      BY <2>2 DEF PostingInv, PostingTypeOK
    <3>2. tx[q].at = 0
      BY <2>2, <3>1 DEF Holds, PostingInv, NotBegun
    <3>3. Touched(q, 0) = {}
      BY DEF Touched
    <3>4. QED
      BY <3>1, <3>2, <3>3 DEF Holds
  <2>3. QED
    BY <2>1, <2>2
<1>3. DraftsCurrent'
  BY <1>2 DEF PostingInv, DraftsCurrent
<1>4. NotBegun'
  <2> SUFFICES ASSUME NEW q \in Posters, tx'[q].st \in {"none", "waiting"}
               PROVE  tx'[q].at = 0
    BY DEF NotBegun
  <2>1. CASE q \in P
    <3>1. tx'[q].st = s /\ tx'[q].at = tx[q].at
      BY <2>1 DEF PostingInv, PostingTypeOK
    <3>2. QED
      BY <2>1, <3>1 DEF PostingInv, NotBegun
  <2>2. CASE q \notin P
    BY <2>2 DEF PostingInv, NotBegun
  <2>3. QED
    BY <2>1, <2>2
<1>5. QED
  BY <1>1, <1>3, <1>4 DEF PostingInv

LEMMA StateChanges ==
  ASSUME PostingInv, UNCHANGED <<stored, pool>>, NEW p \in Posters, NEW s \in TxStates \ {"none"},
         s \in {"waiting", "open"} => tx[p].st \in {"none", "waiting"},
         tx' = [tx EXCEPT ![p].st = s]
  PROVE  PostingInv'
<1>1. tx' = [q \in Posters |-> IF q \in {p} THEN [tx[q] EXCEPT !.st = s] ELSE tx[q]]
  BY DEF PostingInv, PostingTypeOK
<1>2. QED
  BY <1>1, StatesChange

(* An increment: of a row that no one else holds, on its newest version.    *)
LEMMA IncrementKeeps ==
  ASSUME PostingInv, NEW p \in Posters, Increment(p)
  PROVE  PostingInv'
<1> DEFINE n == tx[p].at
           w == Increments[p][n + 1].wallet
           d == Increments[p][n + 1].amount
           v1 == VersionFor(p, w) + d
<1>1. /\ tx[p] \in TxRecords /\ tx[p].st = "open" /\ n < Len(Increments[p])
      /\ UNCHANGED <<stored, pool>>
  BY DEF Increment, PostingInv, PostingTypeOK, TxRecords
<1>2. n \in 0..3 /\ n + 1 \in 0..4
  <2>1. n \in 0..4 /\ Len(Increments[p]) \in 0..4
    BY <1>1, FourAtMost DEF TxRecords
  <2>2. n < Len(Increments[p])
    BY <1>1
  <2> HIDE DEF n
  <2>6. ASSUME NEW L \in 0..4, n < L PROVE n \in 0..3
    BY <2>1, <2>6
  <2>3. n \in 0..3
    BY <2>1, <2>2, <2>6
  <2>4. n + 1 \in 0..4
    BY <2>3
  <2>5. QED
    BY <2>3, <2>4
<1>3. /\ w \in Wallets /\ d \in Int
      /\ \A v \in Wallets :
           /\ v \in Touched(p, n + 1) <=> v \in Touched(p, n) \/ (v = w /\ d # 0)
           /\ Done(p, v, n) \in Int
           /\ Done(p, v, n + 1) = Done(p, v, n) + (IF w = v THEN d ELSE 0)
  <2>3. n + 1 \in 1..Len(Increments[p])
    <3>1. n < Len(Increments[p]) /\ Len(Increments[p]) \in 0..4
      BY <1>1, FourAtMost
    <3> HIDE DEF n
    <3>2. QED
      BY <1>2, <3>1
  <2>1. w \in Wallets /\ d \in Int
    BY <2>3, FourAtMost
  <2>2. QED
    BY <1>1, <1>2, <2>1, NextTouched
<1>4. \A v \in Wallets : VersionFor(p, v) = stored[v] + Done(p, v, n) /\ stored[v] \in Int
  <2> SUFFICES ASSUME NEW v \in Wallets
               PROVE  VersionFor(p, v) = stored[v] + Done(p, v, n) /\ stored[v] \in Int
    OBVIOUS
  <2>1. stored[v] \in Int
    BY DEF PostingInv, PostingTypeOK
  <2>2. CASE Holds(p, v)
    BY <2>1, <2>2 DEF VersionFor, PostingInv, DraftsCurrent
  <2>3. CASE ~Holds(p, v)
    <3>1. v \notin Touched(p, n)
      BY <1>1, <2>3 DEF Holds
    <3>2. Done(p, v, n) = 0
      BY <1>1, <1>2, <3>1, DoneUntouched
    <3>3. QED
      BY <2>1, <2>3, <3>2 DEF VersionFor
  <2>4. QED
    BY <2>2, <2>3
<1>5. /\ \/ d = 0 /\ tx' = [tx EXCEPT ![p].at = n + 1]
         \/ d # 0 /\ RowFree(p, w) /\ tx' = [tx EXCEPT ![p].at = n + 1, ![p].draft[w] = v1]
  BY DEF Increment
<1>6. v1 \in Int /\ v1 = stored[w] + Done(p, w, n + 1)
  BY <1>3, <1>4
<1> HIDE DEF n, w, d, v1
<1>7. \A q \in Posters \ {p} : tx'[q] = tx[q]
  BY <1>5 DEF PostingInv, PostingTypeOK
<1>8. /\ tx'[p] \in TxRecords /\ tx'[p].st = "open" /\ tx'[p].at = n + 1
      /\ \A v \in Wallets : tx'[p].draft[v] = IF v = w /\ d # 0 THEN v1 ELSE tx[p].draft[v]
  <2>1. /\ tx[p].st = "open" /\ tx[p].draft \in [Wallets -> Int]
        /\ tx[p] = [st |-> tx[p].st, at |-> tx[p].at, draft |-> tx[p].draft]
    BY <1>1 DEF TxRecords
  <2>2. ASSUME NEW D \in [Wallets -> Int], tx'[p] = [st |-> "open", at |-> n + 1, draft |-> D]
        PROVE  tx'[p] \in TxRecords /\ tx'[p].st = "open" /\ tx'[p].at = n + 1 /\ tx'[p].draft = D
    BY <1>2, <2>2 DEF TxRecords, TxStates
  <2>3. CASE d = 0
    <3>1. tx'[p] = [st |-> "open", at |-> n + 1, draft |-> tx[p].draft]
      BY <1>5, <2>1, <2>3 DEF PostingInv, PostingTypeOK
    <3>2. QED
      BY <2>1, <2>2, <2>3, <3>1
  <2>4. CASE d # 0
    <3> DEFINE D == [tx[p].draft EXCEPT ![w] = v1]
    <3>1. tx'[p] = [st |-> "open", at |-> n + 1, draft |-> D]
      BY <1>5, <2>1, <2>4 DEF PostingInv, PostingTypeOK
    <3>2. D \in [Wallets -> Int] /\ \A v \in Wallets : D[v] = IF v = w THEN v1 ELSE tx[p].draft[v]
      BY <1>3, <1>6, <2>1
    <3> HIDE DEF D
    <3>3. QED
      BY <2>2, <2>4, <3>1, <3>2
  <2>5. QED
    BY <2>3, <2>4
<1>9. PostingTypeOK'
  <2>1. tx' \in [Posters -> TxRecords]
    <3>1. tx' = [q \in Posters |-> tx'[q]]
      BY <1>5 DEF PostingInv, PostingTypeOK
    <3>2. \A q \in Posters : tx'[q] \in TxRecords
      BY <1>7, <1>8 DEF PostingInv, PostingTypeOK, TxRecords
    <3>3. QED
      BY <3>1, <3>2
  <2>2. QED
    BY <1>1, <2>1 DEF PostingInv, PostingTypeOK, TxRecords
<1>10. \A v \in Wallets :
         /\ Holds(p, v)' <=> Holds(p, v) \/ (v = w /\ d # 0)
         /\ Holds(p, v)' => tx'[p].draft[v] = stored[v] + Done(p, v, n + 1)
  <2> SUFFICES ASSUME NEW v \in Wallets
               PROVE  /\ Holds(p, v)' <=> Holds(p, v) \/ (v = w /\ d # 0)
                      /\ Holds(p, v)' => tx'[p].draft[v] = stored[v] + Done(p, v, n + 1)
    OBVIOUS
  <2>1. /\ Holds(p, v)' <=> v \in Touched(p, n + 1)
        /\ Holds(p, v) <=> v \in Touched(p, n)
    BY <1>1, <1>8 DEF Holds, Touched, n
  <2>2. Holds(p, v)' <=> Holds(p, v) \/ (v = w /\ d # 0)
    BY <1>3, <2>1
  <2>3. CASE v = w /\ d # 0
    BY <1>6, <1>8, <2>2, <2>3
  <2>4. CASE ~(v = w /\ d # 0)
    <3>1. Done(p, v, n + 1) = Done(p, v, n)
      BY <1>3, <2>4
    <3>2. Holds(p, v) => tx[p].draft[v] = stored[v] + Done(p, v, n)
      BY DEF PostingInv, DraftsCurrent, n
    <3>3. QED
      BY <1>8, <2>2, <2>4, <3>1, <3>2
  <2>5. QED
    BY <2>2, <2>3, <2>4
<1>11. \A q \in Posters \ {p}, v \in Wallets : Holds(q, v)' <=> Holds(q, v)
  BY <1>7 DEF Holds, Touched
<1>12. DraftsCurrent'
  <2> SUFFICES ASSUME NEW q \in Posters, NEW v \in Wallets, Holds(q, v)'
               PROVE  /\ tx'[q].draft[v] = stored[v] + Done(q, v, tx'[q].at)
                      /\ \A r \in Posters \ {q} : ~Holds(r, v)'
    BY <1>1 DEF DraftsCurrent, Done, ShareOf
  <2>1. CASE q = p
    <3>1. \A r \in Posters \ {p} : ~Holds(r, v)
      BY <1>5, <1>10, <2>1 DEF RowFree, PostingInv, DraftsCurrent
    <3>2. QED
      BY <1>8, <1>10, <1>11, <2>1, <3>1
  <2>2. CASE q # p
    <3>1. Holds(q, v) /\ tx'[q] = tx[q]
      BY <1>7, <1>11, <2>2
    <3>2. ~Holds(p, v) /\ \A r \in Posters \ {q} : ~Holds(r, v)
      BY <2>2, <3>1 DEF PostingInv, DraftsCurrent
    <3>3. ~(v = w /\ d # 0)
      BY <1>5, <2>2, <3>1 DEF RowFree
    <3>4. ~Holds(p, v)'
      BY <1>10, <3>2, <3>3
    <3>5. QED
      BY <1>11, <3>1, <3>2, <3>4 DEF PostingInv, DraftsCurrent
  <2>3. QED
    BY <2>1, <2>2
<1>13. NotBegun'
  BY <1>7, <1>8 DEF PostingInv, NotBegun
<1>14. QED
  BY <1>9, <1>12, <1>13 DEF PostingInv

(* A commit makes its drafts the committed versions: each wallet moves by   *)
(* the whole change.                                                        *)
LEMMA CommitMoves ==
  ASSUME PostingInv, NEW p \in Posters, CommitPosting(p)
  PROVE  stored' = [w \in Wallets |-> stored[w] + ChangeOn(RowOf[p], w)]
<1> SUFFICES ASSUME NEW w \in Wallets
             PROVE  VersionFor(p, w) = stored[w] + ChangeOn(RowOf[p], w)
  BY DEF CommitPosting
<1>1. tx[p].st = "open" /\ tx[p].at = Len(Increments[p]) /\ tx[p].at \in 0..4 /\ stored[w] \in Int
  BY FourAtMost DEF CommitPosting, PostingInv, PostingTypeOK
<1>2. Done(p, w, tx[p].at) = ChangeOn(RowOf[p], w)
  BY <1>1, DoneAll
<1>3. CASE Holds(p, w)
  BY <1>2, <1>3 DEF VersionFor, PostingInv, DraftsCurrent
<1>4. CASE ~Holds(p, w)
  <2>3. w \notin Touched(p, tx[p].at) /\ tx[p].at <= Len(Increments[p])
    BY <1>1, <1>4 DEF Holds
  <2>1. Done(p, w, tx[p].at) = 0
    BY <1>1, <2>3, DoneUntouched
  <2>2. QED
    BY <1>1, <1>2, <1>4, <2>1 DEF VersionFor
<1>5. QED
  BY <1>3, <1>4

LEMMA CommitKeeps ==
  ASSUME PostingInv, NEW p \in Posters, CommitPosting(p)
  PROVE  PostingInv'
<1>1. tx' = [tx EXCEPT ![p].st = "committed"] /\ UNCHANGED pool
  BY DEF CommitPosting
<1>2. stored' = [w \in Wallets |-> IF Holds(p, w) THEN tx[p].draft[w] ELSE stored[w]]
  BY DEF CommitPosting, VersionFor
<1>3. PostingTypeOK'
  <2>1. stored' \in [Wallets -> Int]
    BY <1>2 DEF PostingInv, PostingTypeOK
  <2>2. tx' \in [Posters -> TxRecords]
    BY <1>1 DEF PostingInv, PostingTypeOK, TxRecords, TxStates
  <2>3. QED
    BY <1>1, <2>1, <2>2 DEF PostingInv, PostingTypeOK, TxRecords
<1>4. tx'[p].st = "committed" /\ \A q \in Posters \ {p} : tx'[q] = tx[q]
  BY <1>1 DEF PostingInv, PostingTypeOK
<1>5. \A q \in Posters, w \in Wallets : Holds(q, w)' => q # p /\ Holds(q, w)
  BY <1>4 DEF Holds, Touched
<1>6. DraftsCurrent'
  <2> SUFFICES ASSUME NEW q \in Posters, NEW w \in Wallets, Holds(q, w)'
               PROVE  /\ tx'[q].draft[w] = stored'[w] + Done(q, w, tx'[q].at)
                      /\ \A r \in Posters \ {q} : ~Holds(r, w)'
    BY DEF DraftsCurrent, Done, ShareOf
  <2>1. q # p /\ Holds(q, w) /\ tx'[q] = tx[q]
    BY <1>4, <1>5
  <2>2. /\ tx[q].draft[w] = stored[w] + Done(q, w, tx[q].at)
        /\ \A r \in Posters \ {q} : ~Holds(r, w)
    BY <2>1 DEF PostingInv, DraftsCurrent
  <2>3. stored'[w] = stored[w]
    BY <1>2, <2>1, <2>2
  <2>4. QED
    BY <1>5, <2>1, <2>2, <2>3
<1>7. NotBegun'
  BY <1>4 DEF PostingInv, NotBegun
<1>8. QED
  BY <1>3, <1>6, <1>7 DEF PostingInv

LEMMA StepPosting == PostingInv /\ [PostingNext]_postingVars => PostingInv'
<1> SUFFICES ASSUME PostingInv, [PostingNext]_postingVars
             PROVE  PostingInv'
  OBVIOUS
<1>1. ASSUME NEW p \in Posters, Enlisted(p) PROVE PostingInv'
  BY <1>1, StateChanges DEF Enlisted, TxStates
<1>2. ASSUME NEW p \in Posters, Acquire(p) PROVE PostingInv'
  BY <1>2, StateChanges DEF Acquire, TxStates
<1>3. ASSUME NEW p \in Posters, GiveUp(p) PROVE PostingInv'
  BY <1>3, StateChanges DEF GiveUp, TxStates
<1>4. ASSUME NEW p \in Posters, RollbackPosting(p) PROVE PostingInv'
  BY <1>4, StateChanges DEF RollbackPosting, TxStates
<1>5. ASSUME AbortAll PROVE PostingInv'
  BY <1>5, StatesChange DEF AbortAll, TxStates, Unfinished
<1>6. CASE UNCHANGED postingVars
  <2>1. UNCHANGED stored /\ UNCHANGED tx /\ UNCHANGED pool
    BY <1>6 DEF postingVars
  <2>2. QED
    BY <2>1 DEF PostingInv, PostingTypeOK, DraftsCurrent, NotBegun, Holds, Touched
<1>7. QED
  BY <1>1, <1>2, <1>3, <1>4, <1>5, <1>6, IncrementKeeps, CommitKeeps DEF PostingNext, PostingStep

(* In every reachable state of any instance the locks do their work: a row  *)
(* has one holder, whose draft stands on the committed version.             *)
THEOREM LocksHold == PostingSpec => []PostingInv
<1>1. QED
  BY InitPosting, StepPosting, PTL DEF PostingSpec

-----------------------------------------------------------------------------
(* The refinement. *)
LEMMA InitRefines == PostingInit => Atomic!Init
<1> SUFFICES ASSUME PostingInit PROVE Atomic!Init
  OBVIOUS
<1>1. \A p \in Posters : FateOf(p) = "pending"
  BY DEF PostingInit, FateOf, NewTx
<1>2. QED
  BY <1>1, RowsAssumption DEF PostingInit, Atomic!Init

(* Whatever befalls one transaction before its commit is no step of the     *)
(* abstract posting, or abandons it.                                        *)
LEMMA AbandonRefines ==
  ASSUME PostingInv, NEW P \in SUBSET Posters, UNCHANGED stored,
         \A p \in P : FateOf(p) = "pending" /\ FateOf(p)' = "abandoned",
         \A p \in Posters \ P : FateOf(p)' = FateOf(p)
  PROVE  Atomic!Abandon(P)
BY DEF Atomic!Abandon

LEMMA StepRefines == PostingInv /\ [PostingNext]_postingVars => [Atomic!Next]_Atomic!vars
<1> SUFFICES ASSUME PostingInv, [PostingNext]_postingVars
             PROVE  Atomic!Next \/ UNCHANGED Atomic!vars
  OBVIOUS
<1>1. ASSUME UNCHANGED stored, \A p \in Posters : FateOf(p)' = FateOf(p)
      PROVE  UNCHANGED Atomic!vars
  BY <1>1 DEF Atomic!vars
<1>2. ASSUME NEW p \in Posters, Enlisted(p) \/ Acquire(p) \/ Increment(p)
      PROVE  UNCHANGED Atomic!vars
  <2>1. /\ UNCHANGED stored /\ \A q \in Posters \ {p} : tx'[q] = tx[q]
        /\ tx[p].st \in {"none", "waiting", "open"} /\ tx'[p].st \in {"none", "waiting", "open"}
    BY <1>2 DEF Enlisted, Acquire, Increment, PostingInv, PostingTypeOK
  <2>2. \A q \in Posters : FateOf(q)' = FateOf(q)
    BY <2>1 DEF FateOf
  <2>3. QED
    BY <1>1, <2>1, <2>2
<1>3. ASSUME NEW p \in Posters, GiveUp(p) \/ RollbackPosting(p)
      PROVE  Atomic!Next
  <2>1. /\ UNCHANGED stored /\ \A q \in Posters \ {p} : tx'[q] = tx[q]
        /\ tx[p].st \in {"waiting", "open"} /\ tx'[p].st = "aborted"
    BY <1>3 DEF GiveUp, RollbackPosting, PostingInv, PostingTypeOK
  <2>2. FateOf(p) = "pending" /\ FateOf(p)' = "abandoned" /\ \A q \in Posters \ {p} : FateOf(q)' = FateOf(q)
    BY <2>1 DEF FateOf
  <2>3. Atomic!Abandon({p})
    BY <2>1, <2>2, AbandonRefines
  <2>4. QED
    BY <2>3 DEF Atomic!Next
<1>4. ASSUME AbortAll
      PROVE  Atomic!Next
  <2>1. /\ UNCHANGED stored /\ \A q \in Posters \ Unfinished : tx'[q] = tx[q]
        /\ \A q \in Unfinished : tx[q].st \in {"waiting", "open"} /\ tx'[q].st = "aborted"
    BY <1>4 DEF AbortAll, Unfinished, PostingInv, PostingTypeOK
  <2>2. Unfinished \subseteq Posters
    BY DEF Unfinished
  <2>3. /\ \A q \in Unfinished : FateOf(q) = "pending" /\ FateOf(q)' = "abandoned"
        /\ \A q \in Posters \ Unfinished : FateOf(q)' = FateOf(q)
    BY <2>1, <2>2 DEF FateOf
  <2>4. Atomic!Abandon(Unfinished)
    BY <2>1, <2>2, <2>3, AbandonRefines
  <2>5. QED
    BY <2>2, <2>4 DEF Atomic!Next
<1>5. ASSUME NEW p \in Posters, CommitPosting(p)
      PROVE  Atomic!Next
  <2>1. /\ \A q \in Posters \ {p} : tx'[q] = tx[q]
        /\ tx[p].st = "open" /\ tx'[p].st = "committed"
    BY <1>5 DEF CommitPosting, PostingInv, PostingTypeOK
  <2>2. FateOf(p) = "pending" /\ FateOf(p)' = "committed" /\ \A q \in Posters \ {p} : FateOf(q)' = FateOf(q)
    BY <2>1 DEF FateOf
  <2>3. stored' = [w \in Wallets |-> stored[w] + ChangeOn(RowOf[p], w)]
    BY <1>5, CommitMoves
  <2>4. Atomic!Commit(p)
    BY <2>2, <2>3 DEF Atomic!Commit
  <2>5. QED
    BY <2>4 DEF Atomic!Next
<1>6. CASE UNCHANGED postingVars
  <2>1. UNCHANGED stored /\ UNCHANGED tx
    BY <1>6 DEF postingVars
  <2>2. QED
    BY <1>1, <2>1 DEF FateOf
<1>7. QED
  BY <1>2, <1>3, <1>4, <1>5, <1>6 DEF PostingNext, PostingStep

(* Creations, updates, deletions and payments of any rows, with up to four  *)
(* increments each, several of them on one wallet or not, by any number of  *)
(* transactions, through a pool of any size, with waits, rollbacks and      *)
(* crashes, are atomic postings: no one ever sees half of one.              *)
THEOREM Implementation == PostingSpec => PostsAtomically
<1>1. QED
  BY LocksHold, InitRefines, StepRefines, PTL DEF PostingSpec, PostsAtomically, Atomic!Spec

-----------------------------------------------------------------------------
(* Where a request is and what has become of its transaction. *)
Phases ==
  \A p \in Requests :
    /\ http[p].pc \in {"new", "auth", "handler"} => tx[p].st = "none"
    /\ http[p].pc = "database" => tx[p].st # "none"
    /\ http[p].pc = "reread" => tx[p].st = "committed"
    /\ http[p].code # 0 => http[p].pc = "done"
    /\ http[p].pc = "done" /\ http[p].client = "waiting" => http[p].code # 0

(* When the process is not serving. *)
Quiet ==
  /\ life = "releasing" => \A p \in InFlight : http[p].client = "gone"
  /\ life \in {"off", "starting", "exited"} => InFlight = {} /\ Unfinished = {}

ServerInv ==
  /\ PostingInv /\ life \in Lives /\ http \in [Requests -> HttpRequests]
  /\ Phases /\ AnswersTruthful /\ Quiet

LEMMA InitServer == ServerInit => ServerInv
<1> SUFFICES ASSUME ServerInit PROVE ServerInv
  OBVIOUS
<1>1. PostingInv
  BY InitPosting DEF ServerInit
<1>2. NewHttp \in HttpRequests
  BY DEF NewHttp, HttpRequests, Codes
<1>3. life = "off" /\ http = [p \in Requests |-> NewHttp] /\ tx = [p \in Posters |-> NewTx]
  BY DEF ServerInit, PostingInit
<1>4. life \in Lives /\ http \in [Requests -> HttpRequests]
  BY <1>2, <1>3 DEF Lives
<1>5. InFlight = {} /\ Unfinished = {}
  BY <1>3 DEF InFlight, Unfinished, NewHttp, NewTx
<1>6. Phases /\ AnswersTruthful /\ Quiet
  BY <1>3, <1>5, RequestsAssumption DEF Phases, AnswersTruthful, Quiet, NewHttp, NewTx
<1>7. QED
  BY <1>1, <1>4, <1>6 DEF ServerInv

(* The database's part of a step of the process. *)
LEMMA ServerPosts == [ServerNext]_serverVars => [PostingNext]_postingVars
<1> SUFFICES ASSUME [ServerNext]_serverVars
             PROVE  PostingNext \/ UNCHANGED postingVars
  OBVIOUS
<1>1. ASSUME NEW p \in Requests, Handle(p)
      PROVE  PostingNext \/ UNCHANGED postingVars
  BY <1>1, RequestsAssumption DEF Handle, PostingNext
<1>2. ASSUME NEW p \in Requests, DatabaseStep(p)
      PROVE  PostingNext
  BY <1>2, RequestsAssumption DEF DatabaseStep, PostingNext
<1>3. ASSUME NEW p \in Requests,
             Arrive(p) \/ Authenticate(p) \/ TransactionSettled(p) \/ Reread(p) \/ HangUp(p)
      PROVE  UNCHANGED postingVars
  BY <1>3 DEF Arrive, Authenticate, TransactionSettled, Reread, HangUp
<1>4. ASSUME Boot \/ Probe \/ Closed \/ Signal
      PROVE  UNCHANGED postingVars
  BY <1>4 DEF Boot, Probe, Closed, Signal
<1>5. ASSUME Released \/ Crash
      PROVE  PostingNext
  BY <1>5 DEF Released, Crash, PostingNext
<1>6. CASE UNCHANGED serverVars
  BY <1>6 DEF serverVars
<1>7. QED
  BY <1>1, <1>2, <1>3, <1>4, <1>5, <1>6 DEF ServerNext, RequestStep, LifeGoesOn

-----------------------------------------------------------------------------
(* A step of one request, to h, in a process that serves: it is enough to   *)
(* look at that request.                                                    *)
Turn(p, h) ==
  /\ http' = [http EXCEPT ![p] = h]
  /\ \A q \in Requests \ {p} : tx'[q] = tx[q]
  /\ life' = life /\ life \notin {"off", "starting", "exited"}
  /\ life = "releasing" /\ h.pc \notin {"new", "done"} => h.client = "gone"
  /\ h.pc \in {"new", "auth", "handler"} => tx'[p].st = "none"
  /\ h.pc = "database" => tx'[p].st # "none"
  /\ h.pc = "reread" => tx'[p].st = "committed"
  /\ h.code # 0 => h.pc = "done"
  /\ h.pc = "done" /\ h.client = "waiting" => h.code # 0
  /\ h.code = 200 => tx'[p].st = "committed"
  /\ h.code = 400 => tx'[p].st \in {"none", "aborted"}
  /\ tx'[p].st \in {"waiting", "open"} => h.pc = "database"

LEMMA OneRequest ==
  ASSUME ServerInv, NEW p \in Requests, NEW h \in HttpRequests, Turn(p, h)
  PROVE  /\ life' \in Lives /\ http' \in [Requests -> HttpRequests]
         /\ Phases' /\ AnswersTruthful' /\ Quiet'
<1>1. life' \in Lives /\ http' \in [Requests -> HttpRequests]
  BY DEF ServerInv, Turn
<1>2. http'[p] = h /\ \A q \in Requests \ {p} : http'[q] = http[q]
  BY DEF ServerInv, Turn
<1>3. Phases'
  BY <1>2 DEF ServerInv, Phases, Turn
<1>4. AnswersTruthful'
  BY <1>2 DEF ServerInv, AnswersTruthful, Turn
<1>5. Quiet'
  BY <1>2 DEF ServerInv, Quiet, InFlight, Turn
<1>6. QED
  BY <1>1, <1>3, <1>4, <1>5

(* An answer, whoever is still there to read it. *)
LEMMA AnswerGiven ==
  ASSUME ServerInv, NEW p \in Requests, p \in InFlight \/ life \in {"listening", "closing"},
         NEW code \in Codes \ {0}, Answer(p, code),
         UNCHANGED postingVars,
         tx[p].st \notin {"waiting", "open"},
         code = 200 => tx[p].st = "committed",
         code = 400 => tx[p].st \in {"none", "aborted"}
  PROVE  /\ life' \in Lives /\ http' \in [Requests -> HttpRequests]
         /\ Phases' /\ AnswersTruthful' /\ Quiet'
<1> DEFINE c == IF http[p].client = "gone" THEN 0 ELSE code
           h == [pc |-> "done", code |-> c, client |-> http[p].client]
<1>1. http[p] \in HttpRequests /\ tx' = tx
  BY DEF ServerInv, postingVars
<1>2. h \in HttpRequests
  BY <1>1 DEF HttpRequests, Codes
<1>3. http' = [http EXCEPT ![p] = h] /\ life' = life
  <2>1. http' = [http EXCEPT ![p].pc = "done", ![p].code = c] /\ life' = life
    BY DEF Answer
  <2>2. http \in [Requests -> HttpRequests] /\ http' = [q \in Requests |-> http'[q]]
    BY <2>1 DEF ServerInv
  <2>3. http'[p] = h
    BY <1>1, <2>1, <2>2 DEF HttpRequests
  <2>4. \A q \in Requests \ {p} : http'[q] = http[q]
    BY <2>1, <2>2
  <2> HIDE DEF h, c
  <2>5. QED
    BY <2>1, <2>2, <2>3, <2>4
<1>4. life \notin {"off", "starting", "exited"}
  BY DEF ServerInv, Quiet
<1>5. h.pc = "done" /\ h.code = c /\ h.client = http[p].client
  OBVIOUS
<1>6. c \in {0, code} /\ (h.client = "waiting" => c = code)
  BY <1>5
<1> HIDE DEF h, c
<1>7. /\ \A q \in Requests \ {p} : tx'[q] = tx[q]
      /\ h.pc \notin {"new", "auth", "handler", "database", "reread"}
      /\ h.client = "waiting" => h.code # 0
      /\ h.code = 200 => tx'[p].st = "committed"
      /\ h.code = 400 => tx'[p].st \in {"none", "aborted"}
      /\ tx'[p].st \notin {"waiting", "open"}
  BY <1>1, <1>5, <1>6
<1>8. Turn(p, h)
  BY <1>1, <1>3, <1>4, <1>5, <1>7 DEF Turn
<1>9. QED
  BY <1>2, <1>8, OneRequest

(* A request goes on to its next phase. *)
LEMMA GoesTo ==
  ASSUME ServerInv, NEW p \in Requests, NEW pc \in {"auth", "handler", "database", "reread"},
         HttpTo(p, pc), life \notin {"off", "starting", "exited"}, http[p].pc # "done",
         life = "releasing" => http[p].pc # "new",
         \A q \in Requests \ {p} : tx'[q] = tx[q],
         pc \in {"auth", "handler"} => tx'[p].st = "none",
         pc = "database" => tx'[p].st # "none",
         pc = "reread" => tx'[p].st = "committed",
         tx'[p].st \in {"waiting", "open"} => pc = "database"
  PROVE  /\ life' \in Lives /\ http' \in [Requests -> HttpRequests]
         /\ Phases' /\ AnswersTruthful' /\ Quiet'
<1> DEFINE h == [pc |-> pc, code |-> 0, client |-> http[p].client]
<1>1. http[p] \in HttpRequests /\ http[p].code = 0
  BY DEF ServerInv, Phases
<1>2. h \in HttpRequests
  BY <1>1 DEF HttpRequests, Codes
<1>3. http' = [http EXCEPT ![p] = h] /\ life' = life
  <2>1. http' = [http EXCEPT ![p].pc = pc] /\ life' = life
    BY DEF HttpTo
  <2>2. http[p] = [pc |-> http[p].pc, code |-> 0, client |-> http[p].client]
    BY <1>1 DEF HttpRequests
  <2>3. [http[p] EXCEPT !.pc = pc] = h
    BY <2>2
  <2>4. QED
    BY <2>1, <2>3
<1>4. h.pc = pc /\ h.code = 0 /\ h.client = http[p].client
  OBVIOUS
<1>5. life = "releasing" => h.client = "gone"
  BY <1>4 DEF ServerInv, Quiet, InFlight
<1> HIDE DEF h
<1>6. /\ h.pc \in {"auth", "handler"} => tx'[p].st = "none"
      /\ h.pc = "database" => tx'[p].st # "none"
      /\ h.pc = "reread" => tx'[p].st = "committed"
      /\ tx'[p].st \in {"waiting", "open"} => h.pc = "database"
      /\ h.pc \notin {"new", "done"} /\ h.code = 0 /\ h.code # 200 /\ h.code # 400
      /\ life = "releasing" /\ h.pc \notin {"new", "done"} => h.client = "gone"
  BY <1>4, <1>5
<1>7. Turn(p, h)
  BY <1>3, <1>6 DEF Turn
<1>8. QED
  BY <1>2, <1>7, OneRequest

-----------------------------------------------------------------------------
(* The steps of a request. *)
LEMMA RequestsKeep ==
  ASSUME ServerInv, NEW p \in Requests, Arrive(p) \/ RequestStep(p) \/ HangUp(p)
  PROVE  /\ life' \in Lives /\ http' \in [Requests -> HttpRequests]
         /\ Phases' /\ AnswersTruthful' /\ Quiet'
<1>1. CASE Arrive(p)
  <2>1. /\ life \in {"listening", "closing"} /\ http[p].pc = "new" /\ UNCHANGED postingVars /\ tx' = tx
        /\ tx[p].st = "none"
    BY <1>1 DEF Arrive, postingVars, ServerInv, Phases
  <2>2. CASE HttpTo(p, "auth")
    BY <2>1, <2>2, GoesTo
  <2>3. CASE Answer(p, 400)
    BY <2>1, <2>3, AnswerGiven DEF Codes
  <2>4. QED
    BY <1>1, <2>2, <2>3 DEF Arrive
<1>2. CASE Authenticate(p)
  <2>1. p \in InFlight /\ http[p].pc = "auth" /\ UNCHANGED postingVars /\ tx' = tx /\ tx[p].st = "none"
    BY <1>2 DEF Authenticate, InFlight, postingVars, ServerInv, Phases
  <2>2. life \notin {"off", "starting", "exited"}
    BY <2>1 DEF ServerInv, Quiet
  <2>3. CASE HttpTo(p, "handler")
    BY <2>1, <2>2, <2>3, GoesTo
  <2>4. ASSUME NEW code \in {400, 500}, Answer(p, code)
        PROVE  /\ life' \in Lives /\ http' \in [Requests -> HttpRequests]
               /\ Phases' /\ AnswersTruthful' /\ Quiet'
    BY <2>1, <2>4, AnswerGiven DEF Codes
  <2>5. QED
    BY <1>2, <2>3, <2>4 DEF Authenticate, TokenRefused, UserRefused, WriteLimited
<1>3. CASE Handle(p)
  <2>1. p \in InFlight /\ http[p].pc = "handler" /\ tx[p].st = "none"
    BY <1>3 DEF Handle, InFlight, ServerInv, Phases
  <2>2. life \notin {"off", "starting", "exited"}
    BY <2>1 DEF ServerInv, Quiet
  <2>3. CASE HttpTo(p, "database") /\ Enlisted(p)
    <3>1. tx'[p].st # "none" /\ \A q \in Requests \ {p} : tx'[q] = tx[q]
      BY <2>3, RequestsAssumption DEF Enlisted, ServerInv, PostingInv, PostingTypeOK
    <3>2. QED
      BY <2>1, <2>2, <2>3, <3>1, GoesTo
  <2>4. ASSUME NEW code \in {400, 500}, Answer(p, code), UNCHANGED postingVars
        PROVE  /\ life' \in Lives /\ http' \in [Requests -> HttpRequests]
               /\ Phases' /\ AnswersTruthful' /\ Quiet'
    BY <2>1, <2>4, AnswerGiven DEF Codes
  <2>5. QED
    BY <1>3, <2>3, <2>4 DEF Handle, ErrorAnswered
<1>4. CASE DatabaseStep(p)
  <2>1. tx[p].st \in {"waiting", "open"} /\ UNCHANGED <<life, http>>
    BY <1>4 DEF DatabaseStep, PostingStep, Acquire, GiveUp, Increment, CommitPosting, RollbackPosting
  <2>2. http[p].pc = "database" /\ p \in InFlight
    BY <2>1 DEF ServerInv, AnswersTruthful, InFlight
  <2>3. \A q \in Requests \ {p} : tx'[q] = tx[q]
    BY <1>4, RequestsAssumption
       DEF DatabaseStep, PostingStep, Acquire, GiveUp, Increment, CommitPosting, RollbackPosting,
           ServerInv, PostingInv, PostingTypeOK
  <2>4. life \notin {"off", "starting", "exited"} /\ (life = "releasing" => http[p].client = "gone")
    BY <2>2 DEF ServerInv, Quiet
  <2>5. http[p] \in HttpRequests /\ http' = [http EXCEPT ![p] = http[p]] /\ http[p].code = 0
    BY <2>1, <2>2 DEF ServerInv, Phases
  <2>6. http[p].code # 200 /\ http[p].code # 400 /\ life' = life
    BY <2>1, <2>5
  <2>7. tx'[p].st # "none"
    BY <1>4, <2>1, RequestsAssumption
       DEF DatabaseStep, PostingStep, Acquire, GiveUp, Increment, CommitPosting, RollbackPosting,
           ServerInv, PostingInv, PostingTypeOK
  <2>8. Turn(p, http[p])
    BY <2>2, <2>3, <2>4, <2>5, <2>6, <2>7 DEF Turn
  <2>9. QED
    BY <2>5, <2>8, OneRequest
<1>5. CASE TransactionSettled(p)
  <2>1. p \in InFlight /\ http[p].pc = "database" /\ UNCHANGED postingVars /\ tx' = tx
    BY <1>5 DEF TransactionSettled, InFlight, postingVars
  <2>2. life \notin {"off", "starting", "exited"}
    BY <2>1 DEF ServerInv, Quiet
  <2>3. ASSUME NEW code \in {400, 500}, Answer(p, code), tx[p].st = "aborted"
        PROVE  /\ life' \in Lives /\ http' \in [Requests -> HttpRequests]
               /\ Phases' /\ AnswersTruthful' /\ Quiet'
    BY <2>1, <2>3, AnswerGiven DEF Codes
  <2>4. ASSUME NEW code \in {200, 500}, Answer(p, code), tx[p].st = "committed"
        PROVE  /\ life' \in Lives /\ http' \in [Requests -> HttpRequests]
               /\ Phases' /\ AnswersTruthful' /\ Quiet'
    BY <2>1, <2>4, AnswerGiven DEF Codes
  <2>5. CASE tx[p].st = "committed" /\ HttpTo(p, "reread")
    BY <2>1, <2>2, <2>5, GoesTo
  <2>6. QED
    BY <1>5, <2>3, <2>4, <2>5 DEF TransactionSettled, ErrorAnswered
<1>6. CASE Reread(p)
  <2>1. p \in InFlight /\ tx[p].st = "committed" /\ UNCHANGED postingVars
    BY <1>6 DEF Reread, InFlight, ServerInv, Phases
  <2>2. PICK code \in {200, 500} : Answer(p, code)
    BY <1>6 DEF Reread
  <2>3. QED
    BY <2>1, <2>2, AnswerGiven DEF Codes
<1>7. CASE HangUp(p)
  <2>1. /\ p \in InFlight /\ life' = life /\ tx' = tx
        /\ http' = [http EXCEPT ![p].client = "gone"]
    BY <1>7 DEF HangUp, postingVars
  <2> DEFINE h == [pc |-> http[p].pc, code |-> http[p].code, client |-> "gone"]
  <2>2. http \in [Requests -> HttpRequests] /\ http' = [q \in Requests |-> http'[q]]
    BY <2>1 DEF ServerInv
  <2>3. http'[p] = h /\ h \in HttpRequests
    BY <2>1, <2>2 DEF HttpRequests
  <2>4. \A q \in Requests \ {p} : http'[q] = http[q]
    BY <2>1, <2>2
  <2>5. h.pc = http[p].pc /\ h.code = http[p].code /\ h.client = "gone"
    OBVIOUS
  <2>6. life \notin {"off", "starting", "exited"} /\ h.pc \notin {"new", "done"} /\ h.code = 0
    BY <2>1, <2>5 DEF ServerInv, Quiet, Phases, InFlight
  <2> HIDE DEF h
  <2>7. http' = [http EXCEPT ![p] = h]
    BY <2>2, <2>3, <2>4
  <2>8. /\ h.pc \in {"new", "auth", "handler"} => tx'[p].st = "none"
        /\ h.pc = "database" => tx'[p].st # "none"
        /\ h.pc = "reread" => tx'[p].st = "committed"
        /\ tx'[p].st \in {"waiting", "open"} => h.pc = "database"
        /\ h.code # 200 /\ h.code # 400
    BY <2>1, <2>5, <2>6 DEF ServerInv, Phases, AnswersTruthful
  <2>9. (\A q \in Requests \ {p} : tx'[q] = tx[q]) /\ life' = life /\ h \in HttpRequests
        /\ (life = "releasing" /\ h.pc \notin {"new", "done"} => h.client = "gone")
    BY <2>1, <2>3, <2>5
  <2>10. Turn(p, h)
    BY <2>6, <2>7, <2>8, <2>9 DEF Turn
  <2>11. QED
    BY <2>9, <2>10, OneRequest
<1>8. QED
  BY <1>1, <1>2, <1>3, <1>4, <1>5, <1>6, <1>7 DEF RequestStep

(* The steps of the process that leave its requests alone. *)
LEMMA LifeKeeps ==
  ASSUME ServerInv, UNCHANGED <<postingVars, http>>, life' \in Lives,
         life' = "releasing" => \A p \in InFlight : http[p].client = "gone",
         life' \in {"off", "starting", "exited"} => life \in {"off", "starting", "exited"}
  PROVE  /\ life' \in Lives /\ http' \in [Requests -> HttpRequests]
         /\ Phases' /\ AnswersTruthful' /\ Quiet'
<1>1. tx' = tx /\ http' = http
  BY DEF postingVars
<1>2. http' \in [Requests -> HttpRequests] /\ Phases' /\ AnswersTruthful'
  BY <1>1 DEF ServerInv, Phases, AnswersTruthful
<1>3. InFlight' = InFlight /\ Unfinished' = Unfinished
  BY <1>1 DEF InFlight, Unfinished
<1>4. Quiet'
  BY <1>1, <1>3 DEF ServerInv, Quiet
<1>5. QED
  BY <1>2, <1>4

(* The end of the process: no request is left in it, and nothing unfinished *)
(* in the database.                                                         *)
LEMMA EndKeeps ==
  ASSUME ServerInv, AbortAll, life' \in {"off", "exited"}, NEW f \in [Requests -> HttpRequests], http' = f,
         \A p \in Requests : IF p \in InFlight THEN f[p].pc = "done" /\ f[p].code = 0 /\ f[p].client = "gone"
                                               ELSE f[p] = http[p]
  PROVE  /\ life' \in Lives /\ http' \in [Requests -> HttpRequests]
         /\ Phases' /\ AnswersTruthful' /\ Quiet'
<1>1. life' \in Lives /\ http' \in [Requests -> HttpRequests]
  BY DEF Lives
<1>2. \A p \in Posters : tx'[p].st = IF p \in Unfinished THEN "aborted" ELSE tx[p].st
  BY DEF AbortAll, ServerInv, PostingInv, PostingTypeOK
<1>3. Unfinished' = {}
  BY <1>2 DEF Unfinished
<1>4. InFlight' = {}
  BY DEF InFlight
<1>5. \A p \in Requests : p \notin InFlight => tx'[p].st = tx[p].st
  BY <1>2, RequestsAssumption DEF ServerInv, AnswersTruthful, Unfinished, InFlight
<1>6. \A p \in Requests : http'[p].pc \in {"new", "done"} /\ tx'[p].st \notin {"waiting", "open"}
  BY <1>3, RequestsAssumption DEF InFlight, Unfinished
<1>7. Phases'
  <2> SUFFICES ASSUME NEW p \in Requests
               PROVE  /\ http'[p].pc \in {"new", "auth", "handler"} => tx'[p].st = "none"
                      /\ http'[p].pc = "database" => tx'[p].st # "none"
                      /\ http'[p].pc = "reread" => tx'[p].st = "committed"
                      /\ http'[p].code # 0 => http'[p].pc = "done"
                      /\ http'[p].pc = "done" /\ http'[p].client = "waiting" => http'[p].code # 0
    BY DEF Phases
  <2>1. CASE p \in InFlight
    BY <1>6, <2>1
  <2>2. CASE p \notin InFlight
    BY <1>5, <2>2 DEF ServerInv, Phases
  <2>3. QED
    BY <2>1, <2>2
<1>8. AnswersTruthful'
  <2> SUFFICES ASSUME NEW p \in Requests
               PROVE  /\ http'[p].code = 200 => tx'[p].st = "committed"
                      /\ http'[p].code = 400 => tx'[p].st \in {"none", "aborted"}
    BY <1>6 DEF AnswersTruthful
  <2>1. CASE p \in InFlight
    BY <2>1
  <2>2. CASE p \notin InFlight
    BY <1>5, <2>2 DEF ServerInv, AnswersTruthful
  <2>3. QED
    BY <2>1, <2>2
<1>9. Quiet'
  BY <1>3, <1>4 DEF Quiet
<1>10. QED
  BY <1>1, <1>7, <1>8, <1>9

LEMMA StepServer == ServerInv /\ [ServerNext]_serverVars => ServerInv'
<1> SUFFICES ASSUME ServerInv, [ServerNext]_serverVars
             PROVE  ServerInv'
  OBVIOUS
<1>1. PostingInv'
  BY ServerPosts, StepPosting DEF ServerInv
<1> DEFINE Rest == /\ life' \in Lives /\ http' \in [Requests -> HttpRequests]
                   /\ Phases' /\ AnswersTruthful' /\ Quiet'
<1>2. SUFFICES Rest
  BY <1>1 DEF ServerInv
<1>3. ASSUME NEW p \in Requests, Arrive(p) \/ RequestStep(p) \/ HangUp(p)
      PROVE  Rest
  BY <1>3, RequestsKeep
<1>4. CASE Boot
  BY <1>4, LifeKeeps DEF Boot, Lives
<1>5. CASE Probe
  BY <1>5, LifeKeeps DEF Probe, Lives
<1>6. CASE Signal
  BY <1>6, LifeKeeps DEF Signal, Lives
<1>7. CASE Closed
  BY <1>7, LifeKeeps DEF Closed, Lives
<1>8. ASSUME NEW p \in InFlight, NEW c \in {"waiting", "gone"}
      PROVE  /\ http[p].code = 0
             /\ [pc |-> "done", code |-> 0, client |-> c] \in HttpRequests
  BY DEF InFlight, ServerInv, Phases, HttpRequests, Codes
<1>9. \A p \in InFlight : http[p] = [pc |-> http[p].pc, code |-> 0, client |-> http[p].client]
  BY <1>8 DEF InFlight, ServerInv, HttpRequests
<1>10. CASE Released
  <2> DEFINE f == [p \in Requests |-> IF p \in InFlight THEN [http[p] EXCEPT !.pc = "done"] ELSE http[p]]
  <2>1. life = "releasing" /\ life' = "exited" /\ AbortAll /\ http' = f
    BY <1>10 DEF Released
  <2>2. \A p \in InFlight : f[p] = [pc |-> "done", code |-> 0, client |-> "gone"]
    BY <1>9, <2>1 DEF ServerInv, Quiet, InFlight
  <2>3. \A p \in Requests \ InFlight : f[p] = http[p]
    OBVIOUS
  <2>4. f = [p \in Requests |-> f[p]]
    OBVIOUS
  <2> HIDE DEF f
  <2>5. f \in [Requests -> HttpRequests]
    BY <1>8, <2>2, <2>3, <2>4 DEF ServerInv
  <2>6. QED
    BY <2>1, <2>2, <2>3, <2>5, EndKeeps
<1>11. CASE Crash
  <2> DEFINE f == [p \in Requests |->
                     IF p \in InFlight THEN [http[p] EXCEPT !.pc = "done", !.client = "gone"] ELSE http[p]]
  <2>1. life' = "off" /\ AbortAll /\ http' = f
    BY <1>11 DEF Crash
  <2>2. \A p \in InFlight : f[p] = [pc |-> "done", code |-> 0, client |-> "gone"]
    <3> SUFFICES ASSUME NEW p \in InFlight
                 PROVE  f[p] = [pc |-> "done", code |-> 0, client |-> "gone"]
      OBVIOUS
    <3>1. p \in Requests /\ http[p] \in HttpRequests /\ http[p].code = 0
      BY <1>8 DEF InFlight, ServerInv
    <3>2. f[p] = [http[p] EXCEPT !.pc = "done", !.client = "gone"]
      BY <3>1
    <3>3. ASSUME NEW h \in HttpRequests
          PROVE  [h EXCEPT !.pc = "done", !.client = "gone"] = [pc |-> "done", code |-> h.code, client |-> "gone"]
      <4> DEFINE k == [h EXCEPT !.pc = "done"]
      <4>1. h = [pc |-> h.pc, code |-> h.code, client |-> h.client]
        BY DEF HttpRequests
      <4>2. k = [pc |-> "done", code |-> h.code, client |-> h.client]
        BY <4>1
      <4>3. [h EXCEPT !.pc = "done", !.client = "gone"] = [k EXCEPT !.client = "gone"]
        BY <4>1
      <4> HIDE DEF k
      <4>4. [k EXCEPT !.client = "gone"] = [pc |-> "done", code |-> h.code, client |-> "gone"]
        BY <4>2
      <4>5. QED
        BY <4>3, <4>4
    <3>4. QED
      BY <3>1, <3>2, <3>3
  <2>3. \A p \in Requests \ InFlight : f[p] = http[p]
    OBVIOUS
  <2>4. f = [p \in Requests |-> f[p]]
    OBVIOUS
  <2> HIDE DEF f
  <2>5. f \in [Requests -> HttpRequests]
    BY <1>8, <2>2, <2>3, <2>4 DEF ServerInv
  <2>6. QED
    BY <2>1, <2>2, <2>3, <2>5, EndKeeps
<1>12. CASE UNCHANGED serverVars
  <2>1. UNCHANGED <<postingVars, http>> /\ life' = life
    BY <1>12 DEF serverVars
  <2>2. QED
    BY <2>1, LifeKeeps DEF ServerInv, Quiet
<1> HIDE DEF Rest
<1>13. QED
  BY <1>3, <1>4, <1>5, <1>6, <1>7, <1>10, <1>11, <1>12 DEF ServerNext, LifeGoesOn

LEMMA Serving == ServerSpec => []ServerInv
<1>1. QED
  BY InitServer, StepServer, PTL DEF ServerSpec

LEMMA EndsClean == ServerInv => NobodyDropped
BY DEF ServerInv, NobodyDropped, Quiet, Phases, InFlight

-----------------------------------------------------------------------------
(* The types of the process, its requests and their transactions.           *)
THEOREM ServerTyped == ServerSpec => []ServerTypeOK
<1>1. ServerInv => ServerTypeOK
  BY DEF ServerInv, PostingInv, ServerTypeOK
<1>2. QED
  BY <1>1, Serving, PTL

(* After a 2xx the posting is committed, after a 4xx nothing of it is ever  *)
(* written, and no transaction runs on behind an answer: whatever the       *)
(* number of requests, the pool and the crashes.                            *)
THEOREM Truthful == ServerSpec => []AnswersTruthful
<1>1. ServerInv => AnswersTruthful
  BY DEF ServerInv
<1>2. QED
  BY <1>1, Serving, PTL

(* A shutdown drops no request whose client stayed, and a process that is   *)
(* gone leaves no transaction behind.                                       *)
THEOREM ShutsDownClean == ServerSpec => []NobodyDropped
<1>1. QED
  BY EndsClean, Serving, PTL

(* The process posts atomically: a step of it is a step of the postings or  *)
(* none, so crashes, shutdowns, clients that leave and answers that are     *)
(* lost show no one half of a posting.                                      *)
THEOREM ServerImplementation == ServerSpec => PostsAtomically
<1>1. ServerInit => PostingInit
  BY DEF ServerInit
<1>2. ServerSpec => PostingSpec
  BY <1>1, ServerPosts, PTL DEF ServerSpec, PostingSpec
<1>3. QED
  BY <1>2, Implementation
-----------------------------------------------------------------------------
(* Postings that come through another process keep no connection of this    *)
(* one.                                                                     *)
OthersElsewhere == \A q \in Posters \ Requests : tx[q].st = "none"

LEMMA ElsewhereInit == ServerInit => OthersElsewhere
BY DEF ServerInit, PostingInit, OthersElsewhere, NewTx

LEMMA ElsewhereStep == ServerInv /\ OthersElsewhere /\ [ServerNext]_serverVars => OthersElsewhere'
<1> SUFFICES ASSUME ServerInv, OthersElsewhere, [ServerNext]_serverVars, NEW q \in Posters \ Requests
             PROVE  tx'[q].st = "none"
  BY DEF OthersElsewhere
<1>1. tx \in [Posters -> TxRecords] /\ tx[q].st = "none"
  BY DEF OthersElsewhere, ServerInv, PostingInv, PostingTypeOK, TxRecords
<1>2. ASSUME NEW p \in Requests, Handle(p)
      PROVE  tx'[q] = tx[q]
  BY <1>1, <1>2 DEF Handle, Enlisted, postingVars
<1>3. ASSUME NEW p \in Requests, DatabaseStep(p)
      PROVE  tx'[q] = tx[q]
  BY <1>1, <1>3
     DEF DatabaseStep, PostingStep, Acquire, GiveUp, Increment, CommitPosting, RollbackPosting
<1>4. ASSUME NEW p \in Requests,
             Arrive(p) \/ Authenticate(p) \/ TransactionSettled(p) \/ Reread(p) \/ HangUp(p)
      PROVE  tx' = tx
  BY <1>4 DEF Arrive, Authenticate, TransactionSettled, Reread, HangUp, postingVars
<1>5. CASE Boot \/ Probe \/ Closed \/ Signal
  BY <1>1, <1>5 DEF Boot, Probe, Closed, Signal, postingVars
<1>6. CASE Released \/ Crash
  BY <1>1, <1>6 DEF Released, Crash, AbortAll, Unfinished
<1>7. CASE UNCHANGED serverVars
  BY <1>1, <1>7 DEF serverVars, postingVars
<1>8. QED
  BY <1>1, <1>2, <1>3, <1>4, <1>5, <1>6, <1>7 DEF ServerNext, RequestStep, LifeGoesOn

(* A posting makes no more increments than it has deltas. *)
WithinOrder == \A q \in Posters : tx[q].at <= Len(Increments[q])

LEMMA OrderInit == PostingInit => WithinOrder
BY FourAtMost DEF PostingInit, WithinOrder, NewTx

LEMMA OrderStep == PostingInv /\ WithinOrder /\ [PostingNext]_postingVars => WithinOrder'
<1> SUFFICES ASSUME PostingInv, WithinOrder, [PostingNext]_postingVars, NEW q \in Posters
             PROVE  tx'[q].at <= Len(Increments[q])
  BY DEF WithinOrder
<1>1. tx \in [Posters -> TxRecords] /\ tx[q].at <= Len(Increments[q])
  BY DEF WithinOrder, PostingInv, PostingTypeOK, TxRecords
<1>2. ASSUME NEW p \in Posters, Increment(p)
      PROVE  tx'[q].at <= Len(Increments[q])
  <2>1. /\ tx[p].at < Len(Increments[p])
        /\ tx'[p].at = tx[p].at + 1 /\ \A r \in Posters \ {p} : tx'[r] = tx[r]
    BY <1>1, <1>2 DEF Increment, TxRecords
  <2>2. Len(Increments[p]) \in 0..4 /\ tx[p].at \in 0..4
    <3>1. tx[p] \in TxRecords
      BY <1>1
    <3>2. QED
      BY <3>1, FourAtMost DEF TxRecords
  <2>3. QED
    BY <1>1, <2>1, <2>2
<1>3. ASSUME NEW p \in Posters, Enlisted(p) \/ Acquire(p) \/ GiveUp(p) \/ CommitPosting(p) \/ RollbackPosting(p)
      PROVE  tx'[q].at = tx[q].at
  <2>1. PICK s \in TxStates : tx' = [tx EXCEPT ![p].st = s]
    BY <1>3 DEF Enlisted, Acquire, GiveUp, CommitPosting, RollbackPosting, TxStates
  <2>2. tx[p] \in TxRecords /\ [tx[p] EXCEPT !.st = s].at = tx[p].at
    BY <1>1 DEF TxRecords
  <2>3. tx'[q] = IF q = p THEN [tx[p] EXCEPT !.st = s] ELSE tx[q]
    BY <1>1, <2>1
  <2>4. QED
    BY <2>2, <2>3
<1>4. CASE AbortAll
  BY <1>1, <1>4 DEF AbortAll, TxRecords
<1>5. CASE UNCHANGED postingVars
  BY <1>1, <1>5 DEF postingVars
<1>6. QED
  BY <1>1, <1>2, <1>3, <1>4, <1>5 DEF PostingNext, PostingStep

(* If no transaction with a connection can go on, each of them waits for    *)
(* another: the database sees the cycle.                                    *)
LEMMA WaitingIsSeen ==
  ASSUME ServerInv, WithinOrder, NEW p \in Connected
  PROVE  \E q \in Connected : CanGoOn(q)
<1> SUFFICES ASSUME \A q \in Connected : ~CanGoOn(q)
             PROVE  FALSE
  OBVIOUS
<1>1. ASSUME NEW q \in Connected
      PROVE  \E r \in Connected : WaitsFor(q, r)
  <2> DEFINE d == Increments[q][tx[q].at + 1]
  <2>1. /\ q \in Posters /\ tx[q].st = "open" /\ tx[q].at # Len(Increments[q])
        /\ d.amount # 0 /\ ~RowFree(q, d.wallet)
    BY DEF Connected, CanGoOn
  <2>2. PICK r \in Posters \ {q} : Holds(r, d.wallet)
    BY <2>1 DEF RowFree
  <2>3. r \in Connected
    BY <2>2 DEF Holds, Connected
  <2>4. tx[q].at < Len(Increments[q])
    <3>1. tx[q].at \in 0..4 /\ tx[q].at <= Len(Increments[q])
      BY <2>1 DEF ServerInv, PostingInv, PostingTypeOK, WithinOrder
    <3>2. Len(Increments[q]) \in 0..4
      BY <2>1, FourAtMost
    <3>3. QED
      BY <2>1, <3>1, <3>2
  <2>5. QED
    BY <2>1, <2>2, <2>3, <2>4 DEF WaitsFor
<1>2. Connected \in SUBSET Posters
  BY DEF Connected
<1>3. Deadlocked(p)
  BY <1>1, <1>2 DEF Deadlocked
<1>4. QED
  BY <1>3 DEF CanGoOn, Connected

LEMMA SomeoneGoesOn ==
  ASSUME ServerInv, OthersElsewhere, WithinOrder, NEW p \in InFlight
  PROVE  \E q \in InFlight : CanGoOn(q)
<1>1. Connected \subseteq InFlight
  BY RequestsAssumption DEF Connected, OthersElsewhere, ServerInv, AnswersTruthful, InFlight
<1>2. CASE Connected # {}
  BY <1>1, <1>2, WaitingIsSeen
<1>3. CASE Connected = {}
  <2>1. http[p] \in HttpRequests /\ tx[p] \in TxRecords
    BY RequestsAssumption DEF InFlight, ServerInv, PostingInv, PostingTypeOK, TxRecords
  <2>2. Cardinality(Connected) < pool
    BY <1>3, FS_EmptySet, PoolAssumption DEF ServerInv, PostingInv, PostingTypeOK
  <2>3. tx[p].st # "open"
    BY <1>3, RequestsAssumption DEF Connected, InFlight
  <2>4. http[p].pc = "database" => tx[p].st \in {"waiting", "committed", "aborted"}
    BY <2>1, <2>3 DEF InFlight, ServerInv, Phases, TxRecords, TxStates
  <2>5. http[p].pc \in {"auth", "handler", "database", "reread"}
    BY <2>1 DEF InFlight, HttpRequests
  <2>6. QED
    BY <2>2, <2>4, <2>5 DEF CanGoOn
<1>4. QED
  BY <1>2, <1>3

(* However many requests wait for each other's rows and for connections,    *)
(* some request can always go on, and so a shutdown is never held up for    *)
(* good.                                                                    *)
THEOREM NobodyWaitsForEverybody == ServerSpec => []NeverStuck
<1>1. ServerInv /\ OthersElsewhere /\ WithinOrder => NeverStuck
  <2> SUFFICES ASSUME ServerInv, OthersElsewhere, WithinOrder PROVE NeverStuck
    OBVIOUS
  <2>1. InFlight # {} => \E p \in InFlight : CanGoOn(p)
    BY SomeoneGoesOn
  <2>2. CASE InFlight = {}
    <3>1. Connected = {}
      BY <2>2, RequestsAssumption DEF Connected, OthersElsewhere, ServerInv, AnswersTruthful, InFlight
    <3>2. QED
      BY <2>2, <3>1 DEF NeverStuck, LifeCanGoOn
  <2>3. QED
    BY <2>1, <2>2 DEF NeverStuck
<1>2. ServerSpec => []OthersElsewhere
  BY InitServer, StepServer, ElsewhereInit, ElsewhereStep, PTL DEF ServerSpec
<1>3. ServerSpec => []WithinOrder
  <2>1. ServerInv => PostingInv
    BY DEF ServerInv
  <2>2. ServerInit => WithinOrder
    BY OrderInit DEF ServerInit
  <2>3. ServerInv /\ WithinOrder /\ [ServerNext]_serverVars => WithinOrder'
    BY <2>1, ServerPosts, OrderStep
  <2>4. QED
    BY <2>2, <2>3, InitServer, StepServer, PTL DEF ServerSpec
<1>4. QED
  BY <1>1, <1>2, <1>3, Serving, PTL
-----------------------------------------------------------------------------
(* What is left, by how far a request and its transaction have come.        *)
LEMMA LeftIs ==
  ASSUME NEW pc \in {"new", "auth", "handler", "database", "reread", "done"}, NEW st, NEW at \in 0..4
  PROVE  /\ StepsLeft(pc, st, at) \in 0..12
         /\ pc = "new" => StepsLeft(pc, st, at) = 12
         /\ pc = "auth" => StepsLeft(pc, st, at) = 11
         /\ pc = "handler" => StepsLeft(pc, st, at) = 10
         /\ pc = "reread" => StepsLeft(pc, st, at) = 1
         /\ pc = "done" => StepsLeft(pc, st, at) = 0
         /\ pc = "database" =>
              /\ st = "waiting" => StepsLeft(pc, st, at) = 9
              /\ st = "open" => StepsLeft(pc, st, at) = 8 - at
              /\ st \in {"committed", "aborted"} => StepsLeft(pc, st, at) = 2
BY DEF StepsLeft

LEMMA LeftTypes ==
  ASSUME ServerInv, NEW p \in Requests
  PROVE  /\ p \in Posters /\ http \in [Requests -> HttpRequests] /\ tx \in [Posters -> TxRecords]
         /\ http[p].pc \in {"new", "auth", "handler", "database", "reread", "done"}
         /\ http[p] \in HttpRequests /\ tx[p] \in TxRecords /\ tx[p].at \in 0..4
BY RequestsAssumption DEF ServerInv, PostingInv, PostingTypeOK, TxRecords, HttpRequests

(* An answer, or the next phase, as far as it is counted. *)
LEMMA PhaseIs ==
  ASSUME NEW p \in Requests, http \in [Requests -> HttpRequests]
  PROVE  /\ \A code : Answer(p, code) => http'[p].pc = "done"
         /\ \A pc : HttpTo(p, pc) => http'[p].pc = pc
<1>1. ASSUME NEW code, Answer(p, code)
      PROVE  http'[p].pc = "done"
  <2> DEFINE c == IF http[p].client = "gone" THEN 0 ELSE code
             h == [http EXCEPT ![p].pc = "done"]
  <2>1. h \in [Requests -> HttpRequests] /\ h[p].pc = "done"
    BY DEF HttpRequests
  <2>2. http' = [h EXCEPT ![p].code = c]
    BY <1>1 DEF Answer
  <2> HIDE DEF h, c
  <2>3. QED
    BY <2>1, <2>2 DEF HttpRequests
<1>2. ASSUME NEW pc, HttpTo(p, pc)
      PROVE  http'[p].pc = pc
  BY <1>2 DEF HttpTo, HttpRequests
<1>3. QED
  BY <1>1, <1>2

LEMMA OwnStepCounts ==
  ASSUME ServerInv, ServerInv', NEW p \in Requests, Arrive(p) \/ RequestStep(p)
  PROVE  Left(p)' \in 0..Left(p) /\ Left(p)' # Left(p)
<1> DEFINE pcs == {"new", "auth", "handler", "database", "reread", "done"}
<1>1. /\ p \in Posters /\ http \in [Requests -> HttpRequests] /\ tx \in [Posters -> TxRecords]
      /\ http[p].pc \in pcs /\ tx[p] \in TxRecords /\ tx[p].at \in 0..4
  BY LeftTypes
<1>2. http'[p].pc \in pcs /\ tx'[p].at \in 0..4
  BY RequestsAssumption DEF ServerInv, PostingInv, PostingTypeOK, HttpRequests
<1>3. /\ Left(p) = StepsLeft(http[p].pc, tx[p].st, tx[p].at)
      /\ Left(p)' = StepsLeft(http'[p].pc, tx'[p].st, tx'[p].at)
  BY DEF Left
<1>4. CASE Arrive(p)
  <2>1. http[p].pc = "new" /\ http'[p].pc \in {"done", "auth"}
    BY <1>1, <1>4, PhaseIs DEF Arrive
  <2>2. QED
    BY <1>1, <1>2, <1>3, <2>1, LeftIs
<1>5. CASE Authenticate(p)
  <2>1. http[p].pc = "auth" /\ http'[p].pc \in {"done", "handler"}
    BY <1>1, <1>5, PhaseIs DEF Authenticate, TokenRefused, UserRefused, WriteLimited
  <2>2. QED
    BY <1>1, <1>2, <1>3, <2>1, LeftIs
<1>6. CASE Handle(p)
  <2>1. /\ http[p].pc = "handler"
        /\ http'[p].pc = "done" \/ (http'[p].pc = "database" /\ tx'[p].st = "waiting")
    BY <1>1, <1>6, PhaseIs DEF Handle, ErrorAnswered, Enlisted, TxRecords
  <2>2. QED
    BY <1>1, <1>2, <1>3, <2>1, LeftIs
<1>7. CASE DatabaseStep(p)
  <2>1. /\ tx[p].st \in {"waiting", "open"} /\ http' = http
        /\ \/ tx[p].st = "waiting" /\ tx'[p].st = "open"
           \/ tx'[p].st \in {"committed", "aborted"}
           \/ tx[p].st = "open" /\ tx'[p].st = "open" /\ tx'[p].at = tx[p].at + 1
    BY <1>1, <1>7
       DEF DatabaseStep, PostingStep, Acquire, GiveUp, Increment, CommitPosting, RollbackPosting, TxRecords
  <2>2. http[p].pc = "database"
    BY <2>1 DEF ServerInv, AnswersTruthful
  <2>3. QED
    BY <1>1, <1>2, <1>3, <2>1, <2>2, LeftIs
<1>8. CASE TransactionSettled(p)
  <2>1. /\ http[p].pc = "database" /\ tx[p].st \in {"committed", "aborted"}
        /\ http'[p].pc \in {"done", "reread"}
    BY <1>1, <1>8, PhaseIs DEF TransactionSettled, ErrorAnswered
  <2>2. QED
    BY <1>1, <1>2, <1>3, <2>1, LeftIs
<1>9. CASE Reread(p)
  <2>1. http[p].pc = "reread" /\ http'[p].pc = "done"
    BY <1>1, <1>9, PhaseIs DEF Reread
  <2>2. QED
    BY <1>1, <1>2, <1>3, <2>1, LeftIs
<1>10. QED
  BY <1>4, <1>5, <1>6, <1>7, <1>8, <1>9 DEF RequestStep

(* A step that is not the request's own leaves it as far as it was, or ends *)
(* it with the process.                                                     *)
LEMMA OtherStepCounts ==
  ASSUME ServerInv, ServerInv', NEW p \in Requests, [ServerNext]_serverVars, ~(Arrive(p) \/ RequestStep(p))
  PROVE  Left(p)' \in 0..Left(p)
<1> DEFINE pcs == {"new", "auth", "handler", "database", "reread", "done"}
<1>1. /\ p \in Posters /\ http \in [Requests -> HttpRequests] /\ tx \in [Posters -> TxRecords]
      /\ http[p].pc \in pcs /\ http[p] \in HttpRequests /\ tx[p].at \in 0..4
  BY LeftTypes
<1>2. http'[p].pc \in pcs /\ tx'[p].at \in 0..4
  BY RequestsAssumption DEF ServerInv, PostingInv, PostingTypeOK, HttpRequests
<1>3. /\ Left(p) = StepsLeft(http[p].pc, tx[p].st, tx[p].at)
      /\ Left(p)' = StepsLeft(http'[p].pc, tx'[p].st, tx'[p].at)
  BY DEF Left
<1>4. Left(p) \in 0..12
  BY <1>1, <1>3, LeftIs
<1>5. SUFFICES \/ http'[p].pc = http[p].pc /\ tx'[p] = tx[p]
               \/ http'[p].pc = "done"
               \/ http[p].pc = "new" /\ http'[p].pc = "new"
  BY <1>1, <1>2, <1>3, <1>4, LeftIs
<1>6. ASSUME NEW q \in Requests \ {p}, Arrive(q) \/ RequestStep(q) \/ HangUp(q)
      PROVE  http'[p] = http[p] /\ tx'[p] = tx[p]
  <2>1. q \in Posters /\ q # p
    BY RequestsAssumption
  <2>2. ASSUME NEW code, Answer(q, code)
        PROVE  http'[p] = http[p]
    BY <1>1, <2>1, <2>2 DEF Answer
  <2>3. ASSUME NEW pc, HttpTo(q, pc)
        PROVE  http'[p] = http[p]
    BY <1>1, <2>1, <2>3 DEF HttpTo
  <2>4. CASE Arrive(q) \/ Authenticate(q) \/ TransactionSettled(q) \/ Reread(q)
    BY <2>2, <2>3, <2>4 DEF Arrive, Authenticate, TransactionSettled, Reread, TokenRefused, UserRefused,
       WriteLimited, ErrorAnswered, postingVars
  <2>5. CASE Handle(q)
    <3>1. http'[p] = http[p]
      BY <2>2, <2>3, <2>5 DEF Handle, ErrorAnswered
    <3>2. tx'[p] = tx[p]
      BY <1>1, <2>1, <2>5 DEF Handle, Enlisted, postingVars
    <3>3. QED
      BY <3>1, <3>2
  <2>6. CASE DatabaseStep(q)
    BY <1>1, <2>1, <2>6
       DEF DatabaseStep, PostingStep, Acquire, GiveUp, Increment, CommitPosting, RollbackPosting
  <2>7. CASE HangUp(q)
    BY <1>1, <2>1, <2>7 DEF HangUp, postingVars
  <2>8. QED
    BY <1>6, <2>4, <2>5, <2>6, <2>7 DEF RequestStep
<1>7. CASE HangUp(p)
  BY <1>1, <1>7 DEF HangUp, postingVars, HttpRequests
<1>8. CASE Boot \/ Probe \/ Closed \/ Signal
  BY <1>8 DEF Boot, Probe, Closed, Signal, postingVars
<1>9. CASE Released
  <2>1. http'[p] = IF p \in InFlight THEN [http[p] EXCEPT !.pc = "done"] ELSE http[p]
    BY <1>9 DEF Released
  <2>2. CASE p \in InFlight
    BY <1>1, <2>1, <2>2 DEF HttpRequests
  <2>3. CASE p \notin InFlight
    BY <1>1, <2>1, <2>3 DEF InFlight
  <2>4. QED
    BY <2>2, <2>3
<1>10. CASE Crash
  <2> DEFINE h == [http[p] EXCEPT !.pc = "done"]
  <2>1. h \in HttpRequests /\ h.pc = "done"
    BY <1>1 DEF HttpRequests
  <2>2. CASE p \in InFlight
    <3>1. http'[p] = [http[p] EXCEPT !.pc = "done", !.client = "gone"]
      BY <1>10, <2>2 DEF Crash
    <3>2. [http[p] EXCEPT !.pc = "done", !.client = "gone"] = [h EXCEPT !.client = "gone"]
      OBVIOUS
    <3> HIDE DEF h
    <3>3. [h EXCEPT !.client = "gone"].pc = "done"
      BY <2>1 DEF HttpRequests
    <3>4. QED
      BY <3>1, <3>2, <3>3
  <2>3. CASE p \notin InFlight
    <3>1. http'[p] = http[p]
      BY <1>10, <2>3 DEF Crash
    <3>2. QED
      BY <1>1, <2>3, <3>1 DEF InFlight
  <2>4. QED
    BY <2>2, <2>3
<1>11. CASE UNCHANGED serverVars
  BY <1>11 DEF serverVars, postingVars
<1>12. QED
  BY <1>6, <1>7, <1>8, <1>9, <1>10, <1>11 DEF ServerNext, LifeGoesOn

(* No step sets a request back, and each of its own brings it nearer to its *)
(* end: with NobodyWaitsForEverybody, all that a shutdown needs to end      *)
(* besides the fairness of those who can go on.                             *)
THEOREM NothingRetried == ServerSpec => EveryStepCounts
<1>1. ServerInv /\ ServerInv' /\ [ServerNext]_serverVars =>
        [\A p \in Requests : Left(p)' \in 0..Left(p) /\ (RequestStep(p) => Left(p)' # Left(p))]_serverVars
  BY OwnStepCounts, OtherStepCounts
<1>2. QED
  BY <1>1, Serving, PTL DEF ServerSpec, EveryStepCounts
=============================================================================
