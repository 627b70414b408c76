------------------------------ MODULE MCLedger ------------------------------
(***************************************************************************)
(* Small instances of the ledger for TLC.                                  *)
(***************************************************************************)
EXTENDS LedgerAudit, TLC

CONSTANTS bank, cash, card, r1, r2, r3, r4

ReqSymmetry == Permutations(Reqs)

Asset(b)     == [st |-> "live", kind |-> "ASSET", balance |-> b, initial |-> b, limit |-> 0]
Credit(l)    == [st |-> "live", kind |-> "CREDIT", balance |-> 0, initial |-> 0, limit |-> l]
Unused       == [st |-> "free", kind |-> "ASSET", balance |-> 0, initial |-> 0, limit |-> 0]

TwoAssets    == (bank :> Asset(3)) @@ (cash :> Asset(0))
BankAndCard  == (bank :> Asset(7)) @@ (card :> Credit(4))
CardAndCash  == (card :> Credit(3)) @@ (bank :> Asset(4)) @@ (cash :> Unused)

Body(type, amount, w, to, cat) ==
  [type |-> type, amount |-> amount, wallet |-> w, to |-> to, cat |-> cat,
   months |-> 0, rate |-> 0]
Bill(amount, w, months, rate) ==
  [Body("EXPENSE", amount, w, NoWallet, "EXPENSE") EXCEPT !.months = months, !.rate = rate]

Bills == {Bill(3, card, 2, 0), Bill(2, card, 1, 0), Bill(1, card, 2, 25)}
BillsAndMore ==
  Bills \cup {Body("INCOME", 1, w, NoWallet, "INCOME") : w \in Wallets}
        \cup {Body("TRANSFER", 2, bank, card, "none")}
Moves == {Body("INCOME", 0, NoWallet, NoWallet, "INCOME"), Body("EXPENSE", 0, NoWallet, NoWallet, "EXPENSE"),
          Body("TRANSFER", 0, NoWallet, bank, "none"), Body("absent", 0, card, NoWallet, "none"),
          Body("absent", 1, NoWallet, card, "none")}
KindPatches == {<<"ASSET", 0>>, <<"CREDIT", 2>>, <<"absent", 1>>, <<"LOAN", 0>>}
LimitPatches == {<<"absent", 1>>, <<"absent", 5>>}
NewWallets == {<<"ASSET", 1, 0>>, <<"CREDIT", 1, 2>>, <<"LOAN", 1, 0>>}
(* one purchase, one salary, transfers both ways *)
Creates ==
  {Body("EXPENSE", 1, w, NoWallet, "EXPENSE") : w \in Wallets}
  \cup {Body("INCOME", 2, w, NoWallet, c) : w \in Wallets, c \in {"INCOME", "EXPENSE"}}
  \cup {Body("TRANSFER", 2, w, v, "none") : w, v \in Wallets}
Updates ==
  {Body("absent", a, NoWallet, NoWallet, "none") : a \in {1, 2}}
  \cup {Body(type, 0, NoWallet, w, "none") : type \in TxTypes, w \in Wallets \cup {NoWallet}}
  \cup {Body("absent", 0, w, NoWallet, c) : w \in Wallets, c \in {"none", "EXPENSE"}}
=============================================================================
