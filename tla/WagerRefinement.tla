-------------------------- MODULE WagerRefinement --------------------------
(***************************************************************************)
(* The units of work of WagerProcessing implement the atomic operations of *)
(* WalletService.  An operation takes effect at the COMMIT of the unit of  *)
(* work that decides it; every other statement, rollback, replay and retry *)
(* is a stutter.  The inbox, the outbox, versions and attempts are not     *)
(* visible to the client.                                                  *)
(***************************************************************************)
EXTENDS WagerInvariants

ServiceBalance ==
  [w \in Wallet |-> IF wallets[w].open THEN wallets[w].balance ELSE NoBalance]

ServiceOutcome ==
  [t \in TxId |-> [status |-> txs[t].status, failure |-> txs[t].failure,
                   reference |-> txs[t].reference, observed |-> txs[t].observed]]

Service == INSTANCE WalletService
             WITH balance <- ServiceBalance, outcome <- ServiceOutcome

\* Whatever the interleaving of handlers, sweepers and crashes, the tables
\* only ever show operations that took effect one after the other, each on
\* the balance its predecessor left and against the references there at that
\* moment.  The one exception, which the service states, is what a request that
\* came before its wallet was told without moving money.
ImplementsService == Service!Spec
=============================================================================
