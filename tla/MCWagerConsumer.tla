-------------------------- MODULE MCWagerConsumer --------------------------
(***************************************************************************)
(* An instance of WagerConsumer for TLC: a bet, a message that does not    *)
(* parse and one that is refused for good, sent in this order to one       *)
(* group.                                                                  *)
(***************************************************************************)
EXTENDS WagerConsumer, TLC

CONSTANTS bet, poison, refused, c1, c2

MCGroup == [m \in Message |-> "w1"]
MCRank == (bet :> 1) @@ (poison :> 2) @@ (refused :> 3)
MCClass == (bet :> "good") @@ (poison :> "malformed") @@ (refused :> "permanent")
=============================================================================
