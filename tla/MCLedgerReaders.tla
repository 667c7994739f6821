-------------------------- MODULE MCLedgerReaders --------------------------
(***************************************************************************)
(* An instance of LedgerReaders for TLC: a wallet with an opening entry and*)
(* one that is opened meanwhile.                                           *)
(***************************************************************************)
EXTENDS LedgerReaders, TLC

CONSTANTS r1, a1, a2  \* the readers and auditors, as model values

MCWalletInfo ==
  [w \in Wallet |-> [player |-> IF w = "w1" THEN "ana" ELSE "bia",
                     currency |-> "BRL", opening |-> IF w = "w1" THEN 3 ELSE 1]]

Movement(id, wallet, kind, amount, reference) ==
  [key |-> id, ext |-> id, wallet |-> wallet, context |-> "round1", kind |-> kind,
   amount |-> amount, currency |-> "BRL", ref |-> reference, msg |-> None]

MCRequest ==
  [c \in Cmd |->
    CASE c = "bet"    -> Movement("e1", "w1", "BET", 2, None)
      [] c = "bet2"   -> Movement("e2", "w1", "BET", 2, None)
      [] c = "refund" -> Movement("e3", "w1", "REFUND", 2, "e1")
      [] c = "loss"   -> Movement("e4", "w1", "LOSS", 1, None)]

MCExt == {"e1", "e2", "e3", "e4"}
MCEntryId == 1..3
=============================================================================
