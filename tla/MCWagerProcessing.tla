------------------------ MODULE MCWagerProcessing ------------------------
(***************************************************************************)
(* Instances of WagerProcessing for TLC.  A request is named after what it *)
(* does; each configuration picks the requests whose interleavings its     *)
(* question needs.                                                         *)
(***************************************************************************)
EXTENDS WagerRefinement, TLC

CONSTANTS h1, h2, h3, k1, k2  \* the processes, as model values

\* Two wallets of different players in one currency.
MCWalletInfo ==
  [w \in Wallet |->
    [player |-> CASE w = "w1" -> "ana" [] w = "w1b" -> "ana" [] OTHER -> "bia",
     currency |-> "BRL",
     opening |-> IF w = "w2" THEN 0 ELSE 10]]

MCExt == {"e1", "e2", "e3", "e4", "e5"}
MCKey == {"key1", "key2", "key3", "key4", "key5", "key6"}
MCMessage == {"m1", "m2"}

Req0(key, ext, kind, amount, reference) ==
  [key |-> key, ext |-> ext, wallet |-> "w1", context |-> "ana/round1",
   kind |-> kind, amount |-> amount, currency |-> "BRL",
   ref |-> reference, msg |-> None]

Named ==
     "bet"        :> Req0("key1", "e1", "BET", 8, None)
  @@ "betByQueue" :> [Req0("key1", "e1", "BET", 8, None) EXCEPT !.msg = "m1"]
  @@ "bet2"       :> Req0("key2", "e2", "BET", 4, None)
  @@ "winUnderBetKey" :>
                     [Req0("key1", "e1", "WIN", 5, None) EXCEPT !.msg = "m2"]
  @@ "lossUnderBetKey" :>
                     [Req0("key1", "e1", "LOSS", 5, None) EXCEPT !.msg = "m2"]
  @@ "betOtherKey":> [Req0("key6", "e1", "BET", 8, None) EXCEPT !.msg = "m2"]
  @@ "betReusedMessage" :>
                     [Req0("key1", "e1", "BET", 5, None) EXCEPT !.msg = "m1"]
  @@ "lossDollar" :> [Req0("key3", "e3", "LOSS", 8, None) EXCEPT !.currency = "USD"]
  @@ "betZero"    :> Req0("key5", "e5", "BET", 0, None)
  @@ "refund"     :> Req0("key3", "e3", "REFUND", 8, "e1")
  @@ "refund2"    :> Req0("key4", "e4", "REFUND", 8, "e1")
  @@ "rollbackOfE3" :> Req0("key5", "e5", "ROLLBACK", 8, "e3")
  @@ "betWrongWallet" :>
       [Req0("key6", "e1", "BET", 8, None) EXCEPT !.wallet = "w2", !.currency = "USD"]

MCRequest == [c \in Cmd |-> Named[c]]

Processes == Permutations(Handler) \cup Permutations(Worker)
=============================================================================
