--------------------------- MODULE MCOutboxRelay ---------------------------
(***************************************************************************)
(* Instances of OutboxRelay for TLC: two units of work on one wallet, the  *)
(* first with the two events of a movement.                                *)
(***************************************************************************)
EXTENDS OutboxRelay, TLC

CONSTANTS processed1, changed1, changed2, r1, r2

MCStamp == (processed1 :> 1) @@ (changed1 :> 1) @@ (changed2 :> 2)
MCAggregate ==
  (processed1 :> "tx1") @@ (changed1 :> "w1") @@ (changed2 :> "w1")
=============================================================================
