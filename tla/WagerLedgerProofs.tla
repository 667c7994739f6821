-------------------------- MODULE WagerLedgerProofs --------------------------
(***************************************************************************)
(* Type correctness of WagerProcessing, and that the wallet's ledger       *)
(* accounts for its balance and its version, for any number of processes,  *)
(* wallets, requests and crashes.                                          *)
(*                                                                         *)
(* TypeOK is not inductive: that a balance stays a natural number depends  *)
(* on what a unit of work has checked before the statement that writes it, *)
(* which ControlOK and WalletsOpen record.                                 *)
(*                                                                         *)
(* The invariant LedgerExplainsWallet needs four others.  A unit of work   *)
(* publishes a balance computed from its snapshot, so at COMMIT the        *)
(* snapshot has to be the committed wallet: either it was read under FOR   *)
(* UPDATE, or the compare-and-set of the UPDATE found the version it had   *)
(* read and has kept the row locked since (SnapshotsAge).  Row locks       *)
(* exclude each other (LockExclusion), versions only grow, and a wallet is *)
(* created by one unit of work while it does not exist (CreatedOnce).      *)
(***************************************************************************)
EXTENDS WagerInvariants, TLAPS

-----------------------------------------------------------------------------
(* Types                                                                   *)


\* What a step of the proof needs to know of the constants.
LEMMA RequestFields ==
  ASSUME NEW t \in TxId
  PROVE  /\ Req(t).wallet \in Wallet
         /\ Req(t).kind \in Kinds
         /\ Req(t).amount \in Nat
         /\ Req(t).msg \in Message \cup {None}
         /\ t \in Wallet => Req(t).wallet = t
<1>1. CASE t \in Cmd
  <2>1. Request[t] \in Requests
    BY <1>1, RequestAssumption
  <2>2. Req(t) = Request[t]
    BY <1>1 DEF Req
  <2>3. t \notin Wallet
    BY <1>1, RequestAssumption
  <2> QED BY <2>1, <2>2, <2>3 DEF Requests
<1>2. CASE t \notin Cmd
  <2>1. t \in Wallet
    BY <1>2 DEF TxId
  <2>2. WalletInfo[t].opening \in Nat
    BY <2>1, WalletAssumption
  <2>3. Req(t) = OpeningRequest(t)
    BY <1>2 DEF Req
  <2> QED BY <2>1, <2>2, <2>3 DEF OpeningRequest, Kinds
<1> QED BY <1>1, <1>2

\* The row a job names, and the request behind it.
LEMMA JobFields ==
  ASSUME TypeOK, NEW p \in Proc, job[p] # NoJob
  PROVE  /\ job[p].id \in TxId
         /\ W(p) \in Wallet
         /\ R(p).wallet = W(p)
         /\ R(p).kind \in Kinds
         /\ R(p).amount \in Nat
         /\ R(p).msg \in Message \cup {None}
         /\ job[p].op \in {"process", "reprocess", "create"}
<1>1. job[p] \in Jobs
  BY DEF TypeOK
<1>2. job[p].id \in TxId /\ job[p].op \in {"process", "reprocess", "create"}
  BY <1>1 DEF Jobs, TxId
<1> QED BY <1>2, RequestFields DEF R, W

\* The constant rows have their types.
LEMMA ConstantRows ==
  /\ NoRow \in Rows
  /\ PendingRow \in Rows
  /\ NoWrites \in Buffers
  /\ NoReply \in Replies
  /\ NoJob \in Jobs
  /\ NoWallet \in WalletRows
<1>1. NoRow \in Rows
  BY DEF NoRow, Rows, Statuses, NoFailure, NoBalance, Balances
<1>2. PendingRow \in Rows
  BY <1>1 DEF PendingRow, NoRow, Rows, Statuses
<1>3. NoWrites \in Buffers
  BY <1>1 DEF NoWrites, Buffers
<1>4. NoReply \in Replies
  BY DEF NoReply, Replies, Errors, Statuses, NoFailure, NoBalance, Balances
<1>5. NoJob \in Jobs
  BY DEF Jobs
<1>6. NoWallet \in WalletRows
  BY DEF NoWallet, WalletRows
<1> QED BY <1>1, <1>2, <1>3, <1>4, <1>5, <1>6

\* What CreateWallet writes has its type.
LEMMA OpeningRows ==
  ASSUME NEW w \in Wallet
  PROVE  /\ OpeningRow(w) \in Rows
         /\ OpeningRow(w) # NoRow => OpeningRow(w).status # "ABSENT"
         /\ HasOpeningBalance(w) => OpeningEntry(w) \in Entries
         /\ ~HasOpeningBalance(w) => OpeningEntry(w) = None
         /\ OpeningEvents(w) \in SUBSET EventTypes
         /\ OpenedWallet(w) \in WalletRows
         /\ OpenedWallet(w).open
<1>1. WalletInfo[w].opening \in Nat
  BY WalletAssumption
<1>2. OpenedWallet(w) \in WalletRows /\ OpenedWallet(w).open
  BY <1>1 DEF OpenedWallet, WalletRows
<1>3. OpeningEvents(w) \in SUBSET EventTypes
  BY DEF OpeningEvents, EventTypes
<1>4. OpeningRow(w) \in Rows /\ (OpeningRow(w) # NoRow => OpeningRow(w).status # "ABSENT")
  BY <1>1, ConstantRows
  DEF OpeningRow, ProcessedRow, PendingRow, NoRow, Rows, Statuses, NoFailure, Balances
<1>5. w \in TxId /\ Req(w).amount = WalletInfo[w].opening
  BY RequestAssumption DEF Req, OpeningRequest, TxId
<1>6. /\ HasOpeningBalance(w) => OpeningEntry(w) \in Entries
      /\ ~HasOpeningBalance(w) => OpeningEntry(w) = None
  BY <1>1, <1>5 DEF OpeningEntry, Entry, Entries, SignedAmount
<1> QED BY <1>2, <1>3, <1>4, <1>6

\* A movement that is not refused leaves a natural number.
LEMMA AcceptedMovement ==
  ASSUME NEW t \in TxId, NEW direction \in {"CREDIT", "DEBIT"},
         NEW balance \in Nat, NEW currency,
         MovementFailure(Req(t), direction, balance, currency) = NoFailure
  PROVE  /\ Entry(t, direction, balance) \in Entries
         /\ Entry(t, direction, balance).before = balance
         /\ Entry(t, direction, balance).after =
              balance + SignedAmount(Entry(t, direction, balance).direction,
                                     Entry(t, direction, balance).amount)
<1>1. Req(t).amount \in Nat
  BY RequestFields
<1>2. balance + SignedAmount(direction, Req(t).amount) >= 0
  BY <1>1 DEF MovementFailure, NoFailure, SignedAmount
<1>3. balance + SignedAmount(direction, Req(t).amount) \in Nat
  BY <1>1, <1>2 DEF SignedAmount
<1> QED BY <1>1, <1>3 DEF Entry, Entries

\* The initial database and processes.
LEMMA InitControl == Init => ControlInv
<1> SUFFICES ASSUME Init PROVE ControlInv
  OBVIOUS
<1> USE DEF Init
<1>1. TypeOK
  <2>1. wallets \in [Wallet -> WalletRows]
    BY ConstantRows, OpeningRows
  <2>2. txs \in [TxId -> Rows]
    BY ConstantRows, OpeningRows, WalletAssumption
  <2>3. ledger \in [Wallet -> Seq(Entries)]
    <3>1. \A w \in Wallet : HasOpeningBalance(w) => OpeningEntry(w) \in Entries
      BY OpeningRows
    <3> QED BY <3>1
  <2>4. outbox \in [TxId -> [EventTypes -> Nat]]
    OBVIOUS
  <2>5. inbox \subseteq Message /\ crashes \in 0..MaxCrashes
    BY ProcAssumption
  <2>6. pc \in [Proc -> Labels] /\ lock \in [Proc -> LockModes]
    BY DEF Labels, LockModes
  <2>7. /\ job \in [Proc -> Jobs]
        /\ snap \in [Proc -> WalletRows \cup {None}]
        /\ ref \in [Proc -> TxId \cup {None}]
        /\ buf \in [Proc -> Buffers]
        /\ reply \in [Proc -> Replies]
        /\ due \in [Worker -> SUBSET TxId]
    BY ConstantRows
  <2> QED BY <2>1, <2>2, <2>3, <2>4, <2>5, <2>6, <2>7 DEF TypeOK
<1>2. ControlOK
  BY DEF ControlOK, AtRest, HandlerLabels, MessageLabels, DecidingLabels, WritingLabels, NoWrites
<1>3. WalletsOpen
  <2>1. ASSUME NEW t \in Committed PROVE wallets[Req(t).wallet].open
    <3>1. t \in TxId /\ txs[t].status # "ABSENT"
      BY DEF Committed
    <3>2. t \in OpenAtStart
      BY <3>1 DEF NoRow
    <3>3. t \in Wallet /\ Req(t).wallet = t
      BY <3>1, <3>2, WalletAssumption, RequestFields
    <3> QED BY <3>2, <3>3 DEF OpenedWallet
  <2>2. \A p \in Proc : job[p].op = "none" /\ buf[p] = NoWrites /\ snap[p] = None
    BY DEF NoJob
  <2> QED BY <2>1, <2>2 DEF WalletsOpen, NoWrites
<1> QED BY <1>1, <1>2, <1>3 DEF ControlInv

\* A throw: the job stays, the transaction is gone, the tables are untouched.
LEMMA FailControl ==
  ASSUME ControlInv, NEW p \in Proc, NEW e \in Errors, pc[p] # "idle", Fail(p, e)
  PROVE  ControlInv'
<1> USE DEF ControlInv
<1>1. TypeOK'
  <2>1. [NoReply EXCEPT !.error = e] \in Replies
    BY ConstantRows DEF Replies, NoReply
  <2> QED BY <2>1, ConstantRows
    DEF TypeOK, Fail, EndTransaction, DropList, Goto, Labels, LockModes, db
<1>2. ControlOK'
  BY DEF TypeOK, ControlOK, Fail, EndTransaction, Goto, db, AtRest, HandlerLabels,
         MessageLabels, DecidingLabels, WritingLabels, R, W, Direction, NoWrites
<1>3. WalletsOpen'
  BY DEF TypeOK, WalletsOpen, Fail, EndTransaction, DropList, Goto, db, R, W,
         Committed, NoWrites
<1> QED BY <1>1, <1>2, <1>3

\* A rejection is a row of its type, and adds no write to the wallet.
LEMMA RejectTypes ==
  ASSUME TypeOK, NEW p \in Proc, job[p] # NoJob, snap[p] # None,
         NEW code \in RejectionCodes, Reject(p, code)
  PROVE  /\ buf' \in [Proc -> Buffers]
         /\ reply' \in [Proc -> Replies]
         /\ pc' = [pc EXCEPT ![p] = "commit"]
         /\ \A q \in Proc \ {p} : buf'[q] = buf[q]
         /\ buf'[p].row.status = "REJECTED"
         /\ buf'[p].inbox = buf[p].inbox
         /\ buf'[p].wallet = buf[p].wallet
         /\ buf'[p].entry = buf[p].entry
<1> DEFINE row == [RejectedRow(buf[p].row, code) EXCEPT
                     !.observed = Observed(p, snap[p].balance)]
<1>1. snap[p].balance \in Nat /\ buf[p] \in Buffers /\ buf[p].row \in Rows
  BY DEF TypeOK, WalletRows, Buffers
<1>2. Observed(p, snap[p].balance) \in Balances
  BY <1>1 DEF Observed, Balances
<1>3. row \in Rows /\ row.status = "REJECTED" /\ row.failure = code
  BY <1>1, <1>2 DEF RejectedRow, Rows, Statuses
<1>4. buf' = [buf EXCEPT ![p].row = row, ![p].events = {"WagerTransactionRejected"}]
  BY DEF Reject
<1>5. buf' \in [Proc -> Buffers]
  BY <1>1, <1>3, <1>4 DEF TypeOK, Buffers, EventTypes
<1>6. Persisted(job[p].id, row, snap[p].balance) \in Replies
  <2> HIDE DEF row
  <2> QED BY <1>1, <1>3, JobFields DEF Persisted, Replies, Errors, Rows, Balances
<1>7. reply' \in [Proc -> Replies]
  BY <1>6 DEF Reject, Answer, TypeOK
<1> HIDE DEF row
<1>8. /\ \A q \in Proc \ {p} : buf'[q] = buf[q]
      /\ buf'[p].row = row
      /\ buf'[p].inbox = buf[p].inbox
      /\ buf'[p].wallet = buf[p].wallet
      /\ buf'[p].entry = buf[p].entry
  BY <1>1, <1>4 DEF TypeOK, Buffers
<1> QED BY <1>3, <1>5, <1>7, <1>8 DEF Reject, Goto

\* Steps that read, move on, and at most take a lock.
LEMMA ReadControl ==
  ASSUME ControlInv, NEW p \in Proc,
         \/ CheckWallet(p) \/ FindInbox(p) \/ CheckForeignKey(p)
  PROVE  ControlInv'
<1> USE DEF ControlInv
<1>1. CASE CheckWallet(p)
  <2>1. CASE Fail(p, "WalletAlreadyExists")
    BY <1>1, <2>1, FailControl DEF Errors, CheckWallet
  <2>2. CASE Goto(p, "insertWallet")
              /\ UNCHANGED <<db, job, snap, ref, lock, buf, reply, due, crashes>>
    <3>1. TypeOK'
      BY <2>2 DEF TypeOK, Goto, Labels, db
    <3>2. ControlOK'
      BY <1>1, <2>2 DEF CheckWallet, TypeOK, ControlOK, Goto, AtRest, HandlerLabels, MessageLabels,
             DecidingLabels, WritingLabels, R, W, Direction
    <3>3. WalletsOpen'
      BY <1>1, <2>2 DEF CheckWallet, TypeOK, WalletsOpen, Goto, db, R, W, Committed
    <3> QED BY <3>1, <3>2, <3>3
  <2> QED BY <1>1, <2>1, <2>2 DEF CheckWallet
<1>2. CASE FindInbox(p)
  <2>1. TypeOK'
    BY <1>2 DEF FindInbox, TypeOK, Goto, Labels, db
  <2>2. ControlOK'
    BY <1>2 DEF FindInbox, TypeOK, ControlOK, Goto, AtRest, HandlerLabels,
           MessageLabels, DecidingLabels, WritingLabels, R, W, Direction
  <2>3. WalletsOpen'
    BY <1>2 DEF FindInbox, TypeOK, WalletsOpen, Goto, db, R, W, Committed
  <2> QED BY <2>1, <2>2, <2>3
<1>3. CASE CheckForeignKey(p)
  <2>1. TypeOK'
    BY <1>3 DEF CheckForeignKey, TypeOK, Goto, Labels, LockModes, db
  <2>2. ControlOK'
    BY <1>3 DEF CheckForeignKey, TypeOK, ControlOK, Goto, AtRest, HandlerLabels,
           MessageLabels, DecidingLabels, WritingLabels, R, W, Direction
  <2>3. WalletsOpen'
    BY <1>3 DEF CheckForeignKey, TypeOK, ControlOK, WalletsOpen, Goto, db, R, W,
           Committed, DecidingLabels, WritingLabels
  <2> QED BY <2>1, <2>2, <2>3
<1> QED BY <1>1, <1>2, <1>3

\* A process takes up a request, a sweep or the next row of its list.
LEMMA StartControl ==
  ASSUME ControlInv,
         \/ \E h \in Handler : \/ \E c \in Cmd : Submit(h, c)
                               \/ \E w \in Wallet : CreateWallet(h, w)
         \/ \E k \in Worker : ListDue(k) \/ ReprocessNext(k)
  PROVE  ControlInv'
<1> USE DEF ControlInv
<1>1. ASSUME NEW h \in Handler, NEW c \in Cmd, Submit(h, c) PROVE ControlInv'
  <2>1. h \in Proc /\ [op |-> "process", id |-> c] \in Jobs
    BY DEF Proc, Jobs
  <2>2. TypeOK'
    BY <1>1, <2>1 DEF Submit, TypeOK, Goto, Labels, db
  <2>3. ControlOK'
    BY <1>1, <2>1 DEF Submit, TypeOK, ControlOK, Goto, AtRest, HandlerLabels,
           MessageLabels, DecidingLabels, WritingLabels, R, W, Direction, NoJob, NoWrites
  <2>4. WalletsOpen'
    BY <1>1, <2>1 DEF Submit, TypeOK, ControlOK, AtRest, WalletsOpen, Goto, db, R, W,
           Committed, NoWrites
  <2> QED BY <2>2, <2>3, <2>4
<1>2. ASSUME NEW h \in Handler, NEW w \in Wallet, CreateWallet(h, w) PROVE ControlInv'
  <2>1. h \in Proc /\ [op |-> "create", id |-> w] \in Jobs
    BY DEF Proc, Jobs
  <2>2. TypeOK'
    BY <1>2, <2>1 DEF CreateWallet, TypeOK, Goto, Labels, db
  <2>3. ControlOK'
    BY <1>2, <2>1 DEF CreateWallet, TypeOK, ControlOK, Goto, AtRest, HandlerLabels,
           MessageLabels, DecidingLabels, WritingLabels, R, W, Direction, NoJob, NoWrites
  <2>4. WalletsOpen'
    BY <1>2, <2>1 DEF CreateWallet, TypeOK, ControlOK, AtRest, WalletsOpen, Goto, db, R, W,
           Committed, NoWrites
  <2> QED BY <2>2, <2>3, <2>4
<1>3. ASSUME NEW k \in Worker, ListDue(k) PROVE ControlInv'
  <2>1. TypeOK'
    BY <1>3 DEF ListDue, TypeOK, db
  <2>2. ControlOK'
    BY <1>3 DEF ListDue, ControlOK, R, W, Direction
  <2>3. WalletsOpen'
    BY <1>3 DEF ListDue, TypeOK, WalletsOpen, db, R, W, Committed
  <2> QED BY <2>1, <2>2, <2>3
<1>4. ASSUME NEW k \in Worker, ReprocessNext(k) PROVE ControlInv'
  <2>1. PICK t \in due[k] :
           /\ job' = [job EXCEPT ![k] = [op |-> "reprocess", id |-> t]]
           /\ due' = [due EXCEPT ![k] = @ \ {t}]
    BY <1>4 DEF ReprocessNext
  <2>2. k \in Proc /\ t \in Committed /\ t \in TxId
    BY DEF Proc, WalletsOpen, Committed
  <2>3. [op |-> "reprocess", id |-> t] \in Jobs
    BY <2>2 DEF Jobs
  <2>4. TypeOK'
    BY <1>4, <2>1, <2>2, <2>3 DEF ReprocessNext, TypeOK, Goto, Labels, db
  <2>5. ControlOK'
    BY <1>4, <2>1, <2>2 DEF ReprocessNext, TypeOK, ControlOK, Goto, AtRest, HandlerLabels,
           MessageLabels, DecidingLabels, WritingLabels, R, W, Direction, NoJob, NoWrites
  <2>6. WalletsOpen'
    BY <1>4, <2>1, <2>2 DEF ReprocessNext, TypeOK, ControlOK, AtRest, WalletsOpen, Goto,
           db, R, W, Committed, NoWrites
  <2> QED BY <2>4, <2>5, <2>6
<1> QED BY <1>1, <1>2, <1>3, <1>4

\* The caller gets its answer, or the process dies.
LEMMA EndControl ==
  ASSUME ControlInv, NEW p \in Proc, Return(p) \/ Crash(p)
  PROVE  ControlInv'
<1> USE DEF ControlInv
<1>1. CASE Return(p)
  <2>1. TypeOK'
    BY <1>1, ConstantRows DEF Return, TypeOK, Goto, Labels, db
  <2>2. ControlOK'
    BY <1>1 DEF Return, TypeOK, ControlOK, Goto, AtRest, HandlerLabels,
           MessageLabels, DecidingLabels, WritingLabels, R, W, Direction, NoJob, NoWrites
  <2>3. WalletsOpen'
    BY <1>1 DEF Return, TypeOK, ControlOK, AtRest, WalletsOpen, Goto, db, R, W,
           Committed, NoJob, NoWrites
  <2> QED BY <2>1, <2>2, <2>3
<1>2. CASE Crash(p)
  <2>1. TypeOK'
    BY <1>2, ConstantRows, ProcAssumption
    DEF Crash, EndTransaction, DropList, TypeOK, Goto, Labels, LockModes, db
  <2>2. ControlOK'
    BY <1>2 DEF Crash, EndTransaction, TypeOK, ControlOK, Goto, AtRest, HandlerLabels,
           MessageLabels, DecidingLabels, WritingLabels, R, W, Direction, NoJob, NoWrites
  <2>3. WalletsOpen'
    BY <1>2 DEF Crash, EndTransaction, DropList, TypeOK, WalletsOpen, Goto, db, R, W,
           Committed, NoJob, NoWrites
  <2> QED BY <2>1, <2>2, <2>3
<1> QED BY <1>1, <1>2

\* Only a process inside a unit of work waits for another.
LEMMA DeadlockControl ==
  ASSUME ControlInv, NEW p \in Proc, DeadlockVictim(p)
  PROVE  ControlInv'
<1>1. BlockedBy(p) # {}
  BY DEF DeadlockVictim, Deadlocked, Stuck
<1>2. pc[p] # "idle"
  BY <1>1 DEF BlockedBy
<1>3. Fail(p, "Transient") /\ "Transient" \in Errors
  BY DEF DeadlockVictim, Errors
<1> QED BY <1>2, <1>3, FailControl

\* CreateWallet buffers the wallet with its opening row, entry and events.
LEMMA InsertWalletControl ==
  ASSUME ControlInv, NEW p \in Proc, InsertWallet(p)
  PROVE  ControlInv'
<1> USE DEF ControlInv
<1>1. CASE Fail(p, "WalletAlreadyExists")
  BY <1>1, FailControl DEF Errors, InsertWallet
<1>2. CASE ~Fail(p, "WalletAlreadyExists")
  <2> DEFINE writes == [NoWrites EXCEPT !.row = OpeningRow(W(p)),
                                        !.wallet = OpenedWallet(W(p)),
                                        !.entry = OpeningEntry(W(p)),
                                        !.events = OpeningEvents(W(p))]
  <2>1. /\ buf' = [buf EXCEPT ![p] = writes]
        /\ pc[p] = "insertWallet"
        /\ Goto(p, "commit")
        /\ UNCHANGED <<db, job, snap, ref, lock, reply, due, crashes>>
    BY <1>2 DEF InsertWallet
  <2>2. job[p] # NoJob /\ job[p].op = "create" /\ W(p) \in Wallet
    BY <2>1, JobFields DEF ControlOK
  <2>3. /\ writes \in Buffers
        /\ writes.inbox = FALSE
        /\ writes.wallet = OpenedWallet(W(p))
        /\ writes.wallet # None
        /\ writes.wallet.open
        /\ writes.row # NoRow => writes.row.status # "ABSENT"
    BY <2>2, OpeningRows, NullAssumption, ConstantRows DEF NoWrites, Buffers
  <2> HIDE DEF writes
  <2>4. TypeOK'
    BY <2>1, <2>3 DEF TypeOK, Goto, Labels, db
  <2>5. ControlOK'
    BY <2>1, <2>2, <2>3 DEF TypeOK, ControlOK, Goto, AtRest, HandlerLabels,
       MessageLabels, DecidingLabels, WritingLabels, R, W, Direction
  <2>6. WalletsOpen'
    <3>1. buf'[p] = writes /\ \A q \in Proc \ {p} : buf'[q] = buf[q]
      BY <2>1 DEF TypeOK
    <3> QED BY <2>1, <2>2, <2>3, <3>1 DEF TypeOK, WalletsOpen, Goto, db, R, W, Committed
  <2> QED BY <2>4, <2>5, <2>6
<1> QED BY <1>1, <1>2

\* The locking SELECT remembers the wallet it found.
LEMMA LockWalletControl ==
  ASSUME ControlInv, NEW p \in Proc, LockWallet(p)
  PROVE  ControlInv'
<1> USE DEF ControlInv
<1>0. job[p] # NoJob /\ W(p) \in Wallet /\ job[p].op \in {"process", "reprocess"}
  BY JobFields DEF LockWallet, ControlOK
<1>1. job[p].op = "reprocess" => wallets[W(p)].open
  BY <1>0 DEF WalletsOpen, R, W
<1>2. wallets[W(p)] \in WalletRows
  BY <1>0 DEF TypeOK
<1>3. wallets[W(p)].open => wallets[W(p)] # None
  BY <1>2, NullAssumption
<1>4. TypeOK'
  BY <1>0, <1>2 DEF LockWallet, WalletLockMode, TypeOK, Goto, Labels, LockModes, db
<1>5. ControlOK'
  BY <1>0, <1>1, <1>3 DEF LockWallet, TypeOK, ControlOK, Goto, AtRest, HandlerLabels,
     MessageLabels, DecidingLabels, WritingLabels, R, W, Direction
<1>6. WalletsOpen'
  BY <1>0, <1>1, <1>3 DEF LockWallet, TypeOK, WalletsOpen, Goto, db, R, W, Committed
<1> QED BY <1>4, <1>5, <1>6

\* What a replay answers is read from a stored row.
LEMMA ReplayTypes ==
  ASSUME TypeOK, NEW t \in Committed
  PROVE  Replay(t) \in Replies
<1>1. t \in TxId /\ txs[t] \in Rows
  BY DEF Committed, TypeOK
<1> QED BY <1>1 DEF Replay, Replies, Rows, Errors

\* A replay commits what the transaction holds, at most the inbox row.
LEMMA ReplayControl ==
  ASSUME ControlInv, NEW p \in Proc, NEW t \in Committed,
         pc[p] \in {"replaySeen", "findKey", "findExternalId"},
         Answer(p, Replay(t)),
         Goto(p, "commit"),
         UNCHANGED <<db, job, snap, ref, lock, buf, due, crashes>>
  PROVE  ControlInv'
<1> USE DEF ControlInv
<1>1. TypeOK'
  BY ReplayTypes DEF Answer, TypeOK, Goto, Labels, db
<1>2. ControlOK'
  BY DEF TypeOK, ControlOK, Goto, AtRest, HandlerLabels, MessageLabels,
         DecidingLabels, WritingLabels, R, W, Direction
<1>3. WalletsOpen'
  BY DEF TypeOK, WalletsOpen, Goto, db, R, W, Committed
<1> QED BY <1>1, <1>2, <1>3

\* The inbox and the idempotency checks.
LEMMA DedupControl ==
  ASSUME ControlInv, NEW p \in Proc,
         \/ ReplaySeen(p) \/ InsertInbox(p) \/ FindKey(p) \/ FindExternalId(p)
  PROVE  ControlInv'
<1> USE DEF ControlInv
<1>1. CASE ReplaySeen(p)
  <2>1. CASE Fail(p, "InboxWithoutTransaction")
    BY <1>1, <2>1, FailControl DEF Errors, ReplaySeen
  <2>2. CASE ~Fail(p, "InboxWithoutTransaction")
    BY <1>1, <2>2, ReplayControl DEF ReplaySeen, FindByIdempotencyKey
  <2> QED BY <2>1, <2>2
<1>2. CASE InsertInbox(p)
  <2>1. CASE Fail(p, "UniqueConstraint")
    BY <1>2, <2>1, FailControl DEF Errors, InsertInbox
  <2>2. CASE ~Fail(p, "UniqueConstraint")
    <3>1. /\ buf' = [buf EXCEPT ![p].inbox = TRUE]
          /\ pc[p] = "insertInbox"
          /\ Goto(p, "findKey")
          /\ UNCHANGED <<db, job, snap, ref, lock, reply, due, crashes>>
      BY <1>2, <2>2 DEF InsertInbox
    <3>2. TypeOK'
      BY <3>1 DEF TypeOK, Goto, Labels, db, Buffers
    <3>3. ControlOK'
      BY <3>1 DEF TypeOK, ControlOK, Goto, AtRest, HandlerLabels, MessageLabels,
         DecidingLabels, WritingLabels, R, W, Direction
    <3>4. WalletsOpen'
      BY <3>1 DEF TypeOK, WalletsOpen, Goto, db, R, W, Committed, Buffers
    <3> QED BY <3>2, <3>3, <3>4
  <2> QED BY <2>1, <2>2
<1>3. ASSUME NEW t \in Committed, ReplayOrConflict(p, t),
             pc[p] \in {"findKey", "findExternalId"}
      PROVE  ControlInv'
  <2>1. CASE Fail(p, "IdempotencyConflict")
    BY <1>3, <2>1, FailControl DEF Errors
  <2>2. CASE ~Fail(p, "IdempotencyConflict")
    BY <1>3, <2>2, ReplayControl DEF ReplayOrConflict
  <2> QED BY <2>1, <2>2
<1>4. ASSUME NEW l \in {"findExternalId", "readWallet"},
             pc[p] \in {"findKey", "findExternalId"},
             Goto(p, l),
             UNCHANGED <<db, job, snap, ref, lock, buf, reply, due, crashes>>
      PROVE  ControlInv'
  <2>1. TypeOK'
    BY <1>4 DEF TypeOK, Goto, Labels, db
  <2>2. ControlOK'
    BY <1>4 DEF TypeOK, ControlOK, Goto, AtRest, HandlerLabels, MessageLabels,
       DecidingLabels, WritingLabels, R, W, Direction
  <2>3. WalletsOpen'
    BY <1>4 DEF TypeOK, WalletsOpen, Goto, db, R, W, Committed
  <2> QED BY <2>1, <2>2, <2>3
<1>5. CASE FindKey(p)
  BY <1>3, <1>4, <1>5 DEF FindKey, FindByIdempotencyKey
<1>6. CASE FindExternalId(p)
  BY <1>3, <1>4, <1>6 DEF FindExternalId, FindByProviderAndExternalId
<1> QED BY <1>1, <1>2, <1>5, <1>6

\* The wallet is read, the row inserted, and a waiting row read again.
LEMMA InsertControl ==
  ASSUME ControlInv, NEW p \in Proc,
         \/ ReadWallet(p) \/ InsertTransaction(p) \/ ReadTransaction(p)
  PROVE  ControlInv'
<1> USE DEF ControlInv
<1>0. job[p] # NoJob /\ job[p].id \in TxId /\ W(p) \in Wallet
  BY JobFields DEF ReadWallet, InsertTransaction, ReadTransaction, ControlOK
<1>1. CASE ReadWallet(p)
  <2>1. CASE Fail(p, "WalletNotFound") \/ Fail(p, "Validation")
    BY <1>1, <2>1, FailControl DEF Errors, ReadWallet
  <2>2. CASE ~(Fail(p, "WalletNotFound") \/ Fail(p, "Validation"))
    <3>1. /\ pc[p] = "readWallet"
          /\ wallets[W(p)].open
          /\ snap' = [snap EXCEPT ![p] = IF @ = None THEN wallets[W(p)] ELSE @]
          /\ Goto(p, "insertTransaction")
          /\ UNCHANGED <<db, job, ref, lock, buf, reply, due, crashes>>
      BY <1>1, <2>2 DEF ReadWallet
    <3>2. wallets[W(p)] \in WalletRows /\ wallets[W(p)] # None
      BY <1>0, NullAssumption DEF TypeOK
    <3>3. TypeOK'
      BY <3>1, <3>2 DEF TypeOK, Goto, Labels, db
    <3>4. ControlOK'
      BY <3>1, <3>2 DEF TypeOK, ControlOK, Goto, AtRest, HandlerLabels, MessageLabels,
         DecidingLabels, WritingLabels, R, W, Direction
    <3>5. WalletsOpen'
      BY <3>1, <3>2 DEF TypeOK, WalletsOpen, Goto, db, R, W, Committed
    <3> QED BY <3>3, <3>4, <3>5
  <2> QED BY <2>1, <2>2
<1>2. CASE InsertTransaction(p)
  <2>1. CASE Fail(p, "UniqueConstraint")
    BY <1>2, <2>1, FailControl DEF Errors, InsertTransaction
  <2>2. CASE ~Fail(p, "UniqueConstraint")
    <3>1. /\ pc[p] = "insertTransaction"
          /\ buf' = [buf EXCEPT ![p].row = PendingRow]
          /\ Goto(p, "checkForeignKey")
          /\ UNCHANGED <<db, job, snap, ref, lock, reply, due, crashes>>
      BY <1>2, <2>2 DEF InsertTransaction
    <3>2. PendingRow \in Rows /\ PendingRow.status # "ABSENT"
      BY ConstantRows DEF PendingRow, NoRow
    <3>3. TypeOK'
      BY <3>1, <3>2 DEF TypeOK, Goto, Labels, db, Buffers
    <3>4. ControlOK'
      BY <3>1, <3>2 DEF TypeOK, ControlOK, Goto, AtRest, HandlerLabels, MessageLabels,
         DecidingLabels, WritingLabels, R, W, Direction, Buffers
    <3>5. snap[p] # None /\ job[p].op # "create"
      BY <3>1 DEF ControlOK, DecidingLabels, HandlerLabels
    <3>6. WalletsOpen'
      BY <3>1, <3>2, <3>5 DEF TypeOK, WalletsOpen, Goto, db, R, W, Committed, Buffers
    <3> QED BY <3>3, <3>4, <3>6
  <2> QED BY <2>1, <2>2
<1>3. CASE ReadTransaction(p)
  <2>1. snap[p] # None /\ job[p].op = "reprocess" /\ job[p].id \in Committed
    BY <1>3 DEF ReadTransaction, ControlOK, DecidingLabels, WritingLabels, WalletsOpen
  <2>2. txs[job[p].id] \in Rows /\ txs[job[p].id].status # "ABSENT"
    BY <2>1 DEF Committed, TypeOK
  <2>3. buf[p] \in Buffers
    BY DEF TypeOK
  <2>4. CASE StillWaiting(job[p].id)
    <3> DEFINE b == [buf[p] EXCEPT !.row = txs[job[p].id]]
    <3>1. /\ b \in Buffers /\ b.row.status # "ABSENT"
          /\ b.inbox = buf[p].inbox /\ b.wallet = buf[p].wallet /\ b.entry = buf[p].entry
      BY <2>2, <2>3 DEF Buffers
    <3>2. /\ pc[p] = "readTransaction" /\ Goto(p, "findReference")
          /\ buf' = [buf EXCEPT ![p] = b]
          /\ UNCHANGED <<db, job, snap, ref, lock, reply, due, crashes>>
      BY <1>3, <2>4 DEF ReadTransaction
    <3> HIDE DEF b
    <3>3. TypeOK'
      BY <3>1, <3>2 DEF TypeOK, Goto, Labels, db
    <3>4. ControlOK'
      BY <2>1, <3>1, <3>2 DEF TypeOK, ControlOK, Goto, AtRest, HandlerLabels,
         MessageLabels, DecidingLabels, WritingLabels, R, W, Direction
    <3>5. WalletsOpen'
      BY <2>1, <3>1, <3>2 DEF TypeOK, WalletsOpen, Goto, db, R, W, Committed
    <3> QED BY <3>3, <3>4, <3>5
  <2>5. CASE ~StillWaiting(job[p].id)
    <3>1. /\ pc[p] = "readTransaction" /\ Goto(p, "commit")
          /\ UNCHANGED <<db, job, snap, ref, lock, buf, reply, due, crashes>>
      BY <1>3, <2>5 DEF ReadTransaction
    <3>2. TypeOK'
      BY <3>1 DEF TypeOK, Goto, Labels, db
    <3>3. ControlOK'
      BY <3>1 DEF TypeOK, ControlOK, Goto, AtRest, HandlerLabels,
         MessageLabels, DecidingLabels, WritingLabels, R, W, Direction
    <3>4. WalletsOpen'
      BY <3>1 DEF TypeOK, WalletsOpen, Goto, db, R, W, Committed
    <3> QED BY <3>2, <3>3, <3>4
  <2> QED BY <2>4, <2>5
<1> QED BY <1>1, <1>2, <1>3

\* A step that only rewrites the buffered row and its events and goes to the
\* commit preserves the invariant.
LEMMA RowControl ==
  ASSUME ControlInv, NEW p \in Proc, job[p] # NoJob, snap[p] # None,
         job[p].op # "create",
         buf' \in [Proc -> Buffers],
         reply' \in [Proc -> Replies],
         pc' = [pc EXCEPT ![p] = "commit"],
         \A q \in Proc \ {p} : buf'[q] = buf[q],
         buf'[p].row.status # "ABSENT",
         buf'[p].inbox = buf[p].inbox,
         buf'[p].wallet = buf[p].wallet,
         buf'[p].entry = buf[p].entry,
         pc[p] # "commit",
         UNCHANGED <<db, job, snap, ref, lock, due, crashes>>
  PROVE  ControlInv'
<1> USE DEF ControlInv
<1>1. TypeOK'
  BY DEF TypeOK, Labels, db
<1>2. ControlOK'
  BY DEF TypeOK, ControlOK, AtRest, HandlerLabels, MessageLabels, DecidingLabels, WritingLabels,
         R, W, Direction
<1>3. WalletsOpen'
  BY DEF TypeOK, WalletsOpen, db, R, W, Committed
<1> QED BY <1>1, <1>2, <1>3

\* A reference resolved, parked, retried or given up.
LEMMA FindReferenceControl ==
  ASSUME ControlInv, NEW p \in Proc, FindReference(p)
  PROVE  ControlInv'
<1> USE DEF ControlInv
<1>0. /\ pc[p] = "findReference"
      /\ job[p] # NoJob /\ job[p].id \in TxId /\ snap[p] # None
      /\ job[p].op \in {"process", "reprocess"}
      /\ UNCHANGED <<db, job, snap, lock, due, crashes>>
      /\ buf[p] \in Buffers /\ buf[p].row \in Rows
  BY JobFields DEF FindReference, ControlOK, DecidingLabels, WritingLabels, TypeOK, Buffers
<1>1. CASE ParkReversal(p) /\ Goto(p, "commit") /\ UNCHANGED ref
  <2> DEFINE row == [buf[p].row EXCEPT !.status = "PENDING_REFERENCE"]
  <2>1. row \in Rows /\ row.status = "PENDING_REFERENCE"
    BY <1>0 DEF Rows, Statuses
  <2>2. Persisted(job[p].id, row, NoBalance) \in Replies
    <3> HIDE DEF row
    <3> QED BY <1>0, <2>1 DEF Persisted, Replies, Errors, Rows, Balances
  <2>3. buf' = [buf EXCEPT ![p].row = row,
                           ![p].events = {"WagerTransactionPendingReference"}]
    BY <1>1 DEF ParkReversal
  <2>4. reply' \in [Proc -> Replies]
    BY <1>1, <2>2 DEF ParkReversal, Answer, TypeOK
  <2> HIDE DEF row
  <2>5. /\ buf' \in [Proc -> Buffers]
        /\ \A q \in Proc \ {p} : buf'[q] = buf[q]
        /\ buf'[p].row = row
        /\ buf'[p].inbox = buf[p].inbox
        /\ buf'[p].wallet = buf[p].wallet
        /\ buf'[p].entry = buf[p].entry
    BY <1>0, <2>1, <2>3 DEF TypeOK, Buffers, EventTypes
  <2> QED BY <1>0, <1>1, <2>1, <2>4, <2>5, RowControl DEF Goto
<1>2. CASE RetryReversal(p) /\ Goto(p, "commit") /\ UNCHANGED ref
  <2> DEFINE row == CountAttempt(buf[p].row)
             rejected == RejectedRow(row, "REFERENCE_NOT_FOUND")
  <2>1. buf[p].row.status # "ABSENT"
    BY <1>0 DEF ControlOK, WritingLabels
  <2>2. row \in Rows /\ row.status # "ABSENT"
    BY <1>0, <2>1 DEF CountAttempt, Rows
  <2>3. rejected \in Rows /\ rejected.status # "ABSENT"
    <3> HIDE DEF row
    <3> QED BY <2>2 DEF RejectedRow, Rows, Statuses, RejectionCodes
  <2>4. \/ buf' = [buf EXCEPT ![p].row = rejected,
                              ![p].events = {"WagerTransactionRejected"}]
        \/ buf' = [buf EXCEPT ![p].row = row]
    BY <1>2 DEF RetryReversal
  <2>5. reply' \in [Proc -> Replies]
    BY <1>2 DEF RetryReversal, TypeOK
  <2> HIDE DEF row, rejected
  <2>6. /\ buf' \in [Proc -> Buffers]
        /\ \A q \in Proc \ {p} : buf'[q] = buf[q]
        /\ buf'[p].row \in {row, rejected}
        /\ buf'[p].inbox = buf[p].inbox
        /\ buf'[p].wallet = buf[p].wallet
        /\ buf'[p].entry = buf[p].entry
    <3>1. CASE buf' = [buf EXCEPT ![p].row = row]
      BY <1>0, <2>2, <3>1 DEF TypeOK, Buffers
    <3>2. CASE buf' = [buf EXCEPT ![p].row = rejected,
                                  ![p].events = {"WagerTransactionRejected"}]
      BY <1>0, <2>3, <3>2 DEF TypeOK, Buffers, EventTypes
    <3> QED BY <2>4, <3>1, <3>2
  <2> QED BY <1>0, <1>2, <2>2, <2>3, <2>5, <2>6, RowControl DEF Goto
<1>3. ASSUME NEW t \in UsableReference(p), Reject(p, ReferenceFailure(R(p), Req(t))),
             ReferenceFailure(R(p), Req(t)) # NoFailure, UNCHANGED ref
      PROVE  ControlInv'
  <2>1. ReferenceFailure(R(p), Req(t)) \in RejectionCodes
    BY <1>3 DEF ReferenceFailure, RejectionCodes
  <2> QED BY <1>0, <1>3, <2>1, RejectTypes, RowControl DEF Goto
<1>4. ASSUME NEW t \in UsableReference(p), ref' = [ref EXCEPT ![p] = t],
             Goto(p, "findReversal"), UNCHANGED <<buf, reply>>
      PROVE  ControlInv'
  <2>1. t \in TxId
    BY DEF UsableReference, FindByProviderAndExternalId, Committed
  <2>2. TypeOK'
    BY <1>0, <1>4, <2>1 DEF TypeOK, Goto, Labels, db
  <2>3. ControlOK'
    BY <1>0, <1>4 DEF TypeOK, ControlOK, Goto, AtRest, HandlerLabels,
       MessageLabels, DecidingLabels, WritingLabels, R, W, Direction
  <2>4. WalletsOpen'
    BY <1>0, <1>4 DEF TypeOK, WalletsOpen, Goto, db, R, W, Committed
  <2> QED BY <2>2, <2>3, <2>4
<1> QED BY <1>1, <1>2, <1>3, <1>4 DEF FindReference

\* A reversal that is already settled is rejected.
LEMMA FindReversalControl ==
  ASSUME ControlInv, NEW p \in Proc, FindReversal(p)
  PROVE  ControlInv'
<1> USE DEF ControlInv
<1>1. /\ pc[p] = "findReversal"
      /\ job[p] # NoJob /\ snap[p] # None /\ job[p].op # "create"
      /\ UNCHANGED <<db, job, snap, ref, lock, due, crashes>>
  BY JobFields DEF FindReversal, ControlOK, DecidingLabels
<1>2. CASE Reject(p, "ALREADY_REVERSED")
  BY <1>1, <1>2, RejectTypes, RowControl DEF RejectionCodes
<1>3. CASE Goto(p, "apply") /\ UNCHANGED <<buf, reply>>
  <2>1. TypeOK'
    BY <1>1, <1>3 DEF TypeOK, Goto, Labels, db
  <2>2. ControlOK'
    BY <1>1, <1>3 DEF TypeOK, ControlOK, Goto, AtRest, HandlerLabels,
       MessageLabels, DecidingLabels, WritingLabels, R, W, Direction
  <2>3. WalletsOpen'
    BY <1>1, <1>3 DEF TypeOK, WalletsOpen, Goto, db, R, W, Committed
  <2> QED BY <2>1, <2>2, <2>3
<1> QED BY <1>2, <1>3 DEF FindReversal

\* applyAcceptedTransaction before the wallet is written.
LEMMA ApplyControl ==
  ASSUME ControlInv, NEW p \in Proc, Apply(p)
  PROVE  ControlInv'
<1> USE DEF ControlInv
<1> DEFINE row == ProcessedRow(buf[p].row, ref[p], Observed(p, snap[p].balance))
           failure == MovementFailure(R(p), Direction(p), snap[p].balance,
                                      WalletInfo[W(p)].currency)
<1>1. /\ pc[p] = "apply"
      /\ job[p] # NoJob /\ job[p].id \in TxId /\ snap[p] # None
      /\ job[p].op # "create"
      /\ UNCHANGED <<db, job, snap, ref, lock, due, crashes>>
      /\ buf[p] \in Buffers /\ buf[p].row \in Rows /\ snap[p].balance \in Nat
  BY JobFields DEF Apply, ControlOK, DecidingLabels, TypeOK, Buffers, WalletRows
<1>2. CASE /\ buf' = [buf EXCEPT ![p].row = row,
                                 ![p].events = {"WagerTransactionProcessed"}]
           /\ Answer(p, Persisted(job[p].id, row, snap[p].balance))
           /\ Goto(p, "commit")
  <2>1. Observed(p, snap[p].balance) \in Balances /\ ref[p] \in TxId \cup {None}
    BY <1>1 DEF Observed, Balances, TypeOK
  <2>2. row \in Rows /\ row.status # "ABSENT"
    BY <1>1, <2>1 DEF ProcessedRow, Rows, Statuses, NoFailure
  <2> HIDE DEF row
  <2>3. Persisted(job[p].id, row, snap[p].balance) \in Replies
    BY <1>1, <2>2 DEF Persisted, Replies, Errors, Rows, Balances
  <2>4. reply' \in [Proc -> Replies]
    BY <1>2, <2>3 DEF Answer, TypeOK
  <2>5. /\ buf' \in [Proc -> Buffers]
        /\ \A q \in Proc \ {p} : buf'[q] = buf[q]
        /\ buf'[p].row = row
        /\ buf'[p].inbox = buf[p].inbox
        /\ buf'[p].wallet = buf[p].wallet
        /\ buf'[p].entry = buf[p].entry
    BY <1>1, <1>2, <2>2 DEF TypeOK, Buffers, EventTypes
  <2> QED BY <1>1, <1>2, <2>2, <2>4, <2>5, RowControl DEF Goto
<1>3. CASE failure # NoFailure /\ Reject(p, failure)
  <2>1. failure \in RejectionCodes
    BY <1>3 DEF MovementFailure, RejectionCodes
  <2> QED BY <1>1, <1>3, <2>1, RejectTypes, RowControl
<1>4. CASE failure = NoFailure /\ Goto(p, "saveWallet") /\ UNCHANGED <<buf, reply>>
  <2>1. TypeOK'
    BY <1>1, <1>4 DEF TypeOK, Goto, Labels, db
  <2>2. ControlOK'
    BY <1>1, <1>4 DEF TypeOK, ControlOK, Goto, AtRest, HandlerLabels,
       MessageLabels, DecidingLabels, WritingLabels, R, W, Direction
  <2>3. WalletsOpen'
    BY <1>1, <1>4 DEF TypeOK, WalletsOpen, Goto, db, R, W, Committed
  <2> QED BY <2>1, <2>2, <2>3
<1> QED BY <1>2, <1>3, <1>4 DEF Apply

\* The movement that was accepted is buffered with its ledger entry.
LEMMA SaveWalletControl ==
  ASSUME ControlInv, NEW p \in Proc, SaveWallet(p)
  PROVE  ControlInv'
<1> USE DEF ControlInv
<1> DEFINE entry == Entry(job[p].id, Direction(p), snap[p].balance)
           row == ProcessedRow(buf[p].row, ref[p], entry.after)
           wallet == [open |-> TRUE, balance |-> entry.after,
                      version |-> snap[p].version + 1]
           b == [buf[p] EXCEPT !.row = row, !.wallet = wallet, !.entry = entry,
                   !.events = {"WagerTransactionProcessed", "WalletBalanceChanged"}]
<1>0. pc[p] = "saveWallet"
  BY DEF SaveWallet
<1>1. /\ pc[p] = "saveWallet"
      /\ job[p] # NoJob /\ job[p].id \in TxId /\ snap[p] # None
      /\ job[p].op # "create"
      /\ buf[p] \in Buffers /\ buf[p].row \in Rows
      /\ snap[p].balance \in Nat /\ snap[p].version \in Nat
      /\ ref[p] \in TxId \cup {None}
  BY <1>0, JobFields DEF ControlOK, DecidingLabels, TypeOK, Buffers, WalletRows
<1>2. Direction(p) \in {"CREDIT", "DEBIT"}
  BY DEF Direction, LedgerDirection
<1>3. MovementFailure(R(p), Direction(p), snap[p].balance,
                      WalletInfo[W(p)].currency) = NoFailure
  BY <1>1 DEF ControlOK
<1>4. entry \in Entries
  BY <1>1, <1>2, <1>3, AcceptedMovement DEF R
<1>5. entry.after \in Nat
  BY <1>4 DEF Entries
<1>6. CASE \E e \in Errors : Fail(p, e)
  <2>1. PICK e \in Errors : Fail(p, e)
    BY <1>6
  <2>2. pc[p] # "idle"
    BY <1>1
  <2> QED BY <2>1, <2>2, FailControl
<1>7. CASE ~\E e \in Errors : Fail(p, e)
  <2>1. /\ lock' = [lock EXCEPT ![p] = IF @ = "Update" THEN @ ELSE "NoKeyUpdate"]
        /\ buf' = [buf EXCEPT ![p] = b]
        /\ Answer(p, Persisted(job[p].id, row, entry.after))
        /\ Goto(p, "commit")
        /\ UNCHANGED <<db, job, snap, ref, due, crashes>>
    BY <1>1, <1>7 DEF SaveWallet, TypeOK, Buffers, Errors
  <2> HIDE DEF entry
  <2>2. row \in Rows /\ row.status # "ABSENT"
    BY <1>1, <1>5 DEF ProcessedRow, Rows, Statuses, NoFailure, Balances
  <2>3. wallet \in WalletRows /\ wallet.open /\ wallet # None
    <3>1. wallet \in WalletRows /\ wallet.open
      BY <1>1, <1>5 DEF WalletRows
    <3> HIDE DEF wallet
    <3> QED BY <3>1, NullAssumption
  <2> HIDE DEF row, wallet
  <2>4. /\ b \in Buffers
        /\ b.row = row /\ b.wallet = wallet /\ b.entry = entry
        /\ b.inbox = buf[p].inbox
    BY <1>1, <1>4, <2>2, <2>3 DEF Buffers, EventTypes
  <2>5. Persisted(job[p].id, row, entry.after) \in Replies
    BY <1>1, <1>5, <2>2 DEF Persisted, Replies, Errors, Rows, Balances
  <2> HIDE DEF b
  <2>6. TypeOK'
    BY <2>1, <2>4, <2>5 DEF Answer, TypeOK, Goto, Labels, LockModes, db
  <2>7. ControlOK'
    BY <1>1, <2>1, <2>4 DEF TypeOK, ControlOK, Goto, AtRest, HandlerLabels,
       MessageLabels, DecidingLabels, WritingLabels, R, W, Direction
  <2>8. WalletsOpen'
    BY <1>1, <2>1, <2>2, <2>3, <2>4 DEF TypeOK, WalletsOpen, Goto, db, R, W, Committed
  <2> QED BY <2>6, <2>7, <2>8
<1> QED BY <1>6, <1>7

\* COMMIT publishes what the unit of work wrote: wallets that exist stay,
\* and so do the rows that were visible.
LEMMA CommitControl ==
  ASSUME ControlInv, NEW p \in Proc, Commit(p)
  PROVE  ControlInv'
<1> USE DEF ControlInv
<1> DEFINE t == job[p].id
           b == buf[p]
<1>1. /\ pc[p] = "commit"
      /\ job[p] # NoJob /\ t \in TxId /\ W(p) \in Wallet
      /\ R(p).msg \in Message \cup {None}
      /\ b \in Buffers
  BY JobFields DEF Commit, ControlOK, TypeOK
<1>2. /\ b.row \in Rows /\ b.wallet \in WalletRows \cup {None}
      /\ b.entry \in Entries \cup {None}
      /\ b.inbox => R(p).msg \in Message
  BY <1>1 DEF Buffers, ControlOK
<1>3. TypeOK'
  <2>1. wallets' \in [Wallet -> WalletRows] /\ txs' \in [TxId -> Rows]
    BY <1>1, <1>2 DEF Commit, TypeOK
  <2>2. ledger' \in [Wallet -> Seq(Entries)]
    <3>1. CASE b.entry = None
      BY <3>1 DEF Commit, TypeOK
    <3>2. CASE b.entry # None
      <4>1. Append(ledger[W(p)], b.entry) \in Seq(Entries)
        BY <1>1, <1>2, <3>2 DEF TypeOK
      <4> QED BY <1>1, <3>2, <4>1 DEF Commit, TypeOK
    <3> QED BY <3>1, <3>2
  <2>3. inbox' \subseteq Message
    BY <1>2 DEF Commit, TypeOK
  <2>4. outbox' \in [TxId -> [EventTypes -> Nat]]
    <3>1. [e \in EventTypes |-> outbox[t][e] + IF e \in b.events THEN 1 ELSE 0]
            \in [EventTypes -> Nat]
      BY <1>1 DEF TypeOK
    <3> QED BY <1>1, <3>1 DEF Commit, TypeOK
  <2>5. /\ pc' \in [Proc -> Labels] /\ lock' \in [Proc -> LockModes]
        /\ snap' \in [Proc -> WalletRows \cup {None}]
        /\ ref' \in [Proc -> TxId \cup {None}]
        /\ buf' \in [Proc -> Buffers]
        /\ UNCHANGED <<job, reply, due, crashes>>
    BY ConstantRows DEF Commit, EndTransaction, Goto, TypeOK, Labels, LockModes
  <2> QED BY <2>1, <2>2, <2>3, <2>4, <2>5 DEF TypeOK
<1>4. ControlOK'
  BY <1>1 DEF Commit, EndTransaction, TypeOK, ControlOK, Goto, AtRest, HandlerLabels,
     MessageLabels, DecidingLabels, WritingLabels, R, W, Direction, NoWrites
<1>5. \A w \in Wallet : wallets[w].open => wallets'[w].open
  BY <1>1 DEF Commit, TypeOK, WalletsOpen
<1>6. Committed \subseteq Committed'
  BY <1>1 DEF Commit, TypeOK, WalletsOpen, Committed
<1>7. \A s \in Committed' : wallets'[Req(s).wallet].open
  <2> TAKE s \in Committed'
  <2>1. s \in TxId /\ Req(s).wallet \in Wallet
    BY RequestFields DEF Committed
  <2>2. CASE s \in Committed
    BY <1>5, <2>1, <2>2 DEF WalletsOpen
  <2>3. CASE s \notin Committed
    <3>1. s = t /\ b.row # NoRow
      BY <1>1, <2>1, <2>3 DEF Commit, Committed, TypeOK
    <3>2. Req(s).wallet = W(p)
      BY <3>1 DEF R, W
    <3>3. CASE job[p].op # "create"
      BY <1>1, <1>5, <3>1, <3>2, <3>3 DEF WalletsOpen
    <3>4. CASE job[p].op = "create"
      BY <1>1, <3>1, <3>2, <3>4 DEF WalletsOpen, Commit, TypeOK
    <3> QED BY <3>3, <3>4
  <2> QED BY <2>2, <2>3
<1>8. \A q \in Proc :
        /\ job'[q] = job[q] /\ W(q)' = W(q)
        /\ q # p => /\ snap'[q] = snap[q] /\ lock'[q] = lock[q]
                    /\ buf'[q] = buf[q] /\ pc'[q] = pc[q]
        /\ snap'[p] = None /\ lock'[p] = "none" /\ buf'[p] = NoWrites
  BY DEF Commit, EndTransaction, Goto, TypeOK, R, W
<1>9. \A q \in Proc : job[q] # NoJob => W(q) \in Wallet
  BY JobFields
<1>10. \A q \in Proc : snap[q] # None => job[q] # NoJob
  BY DEF ControlOK, AtRest
<1>11. WalletsOpen'
  <2>1. \A k \in Worker : due'[k] \subseteq Committed'
    BY <1>6 DEF Commit, WalletsOpen
  <2>2. ASSUME NEW q \in Proc
        PROVE  /\ job'[q].op = "reprocess" => job'[q].id \in Committed'
               /\ snap'[q] # None => wallets'[W(q)'].open
    BY <1>5, <1>6, <1>8, <1>9, <1>10 DEF WalletsOpen
  <2>3. ASSUME NEW q \in Proc
        PROVE  /\ lock'[q] # "none" => snap'[q] # None
               /\ buf'[q].row # NoRow /\ job'[q].op # "create" => snap'[q] # None
               /\ buf'[q].row # NoRow /\ job'[q].op = "create" => buf'[q].wallet # None
               /\ buf'[q].row # NoRow => buf'[q].row.status # "ABSENT"
               /\ buf'[q].wallet # None => pc'[q] = "commit" /\ buf'[q].wallet.open
               /\ buf'[q].entry # None => buf'[q].wallet # None
    BY <1>8 DEF WalletsOpen, NoWrites
  <2> QED BY <1>7, <2>1, <2>2, <2>3 DEF WalletsOpen
<1> QED BY <1>3, <1>4, <1>11

\* ControlInv is inductive.
LEMMA ControlStep == ControlInv /\ [Next]_vars => ControlInv'
<1> SUFFICES ASSUME ControlInv, [Next]_vars PROVE ControlInv'
  OBVIOUS
<1>1. CASE UNCHANGED vars
  BY <1>1 DEF vars, ControlInv, TypeOK, ControlOK, WalletsOpen, R, W, Direction, Committed
<1>2. CASE \/ \E h \in Handler : \/ \E c \in Cmd : Submit(h, c)
                                 \/ \E w \in Wallet : CreateWallet(h, w)
           \/ \E k \in Worker : ListDue(k) \/ ReprocessNext(k)
  BY <1>2, StartControl
<1>3. ASSUME NEW p \in Proc, Step(p) PROVE ControlInv'
  BY <1>3, ReadControl, InsertWalletControl, LockWalletControl, DedupControl,
     InsertControl, FindReferenceControl, FindReversalControl, ApplyControl,
     SaveWalletControl, CommitControl, EndControl, DeadlockControl
  DEF Step
<1>4. ASSUME NEW p \in Proc, Crash(p) PROVE ControlInv'
  BY <1>4, EndControl
<1> QED BY <1>1, <1>2, <1>3, <1>4 DEF Next

\* Every reachable state satisfies it.
THEOREM ControlCorrect == Spec => []ControlInv
<1>1. Init => ControlInv
  BY InitControl
<1>2. ControlInv /\ [Next]_vars => ControlInv'
  BY ControlStep
<1> QED BY <1>1, <1>2, PTL DEF Spec

\* Whatever the units of work, the requests and the crashes, the tables and
\* the open transactions keep their types; in particular no committed balance
\* and no ledger entry is ever negative, although Wallet.debit decides on the
\* balance of a snapshot (wallet.ts, wager-processing.ts).
THEOREM TypeCorrect == Spec => []TypeOK
<1>1. ControlInv => TypeOK
  BY DEF ControlInv
<1> QED BY <1>1, ControlCorrect, PTL

-----------------------------------------------------------------------------
(* The wallet and its ledger                                               *)


\* A step of p leaves the open transactions of the other processes alone.
Alone(p) ==
  \A q \in Proc \ {p} : /\ job'[q] = job[q] /\ snap'[q] = snap[q]
                        /\ lock'[q] = lock[q] /\ buf'[q] = buf[q]

\* A process with a snapshot, a lock or a wallet to write has a job, and the
\* wallet of the job is one of the wallets.
LEMMA HasJob ==
  ASSUME ControlInv, NEW q \in Proc,
         snap[q] # None \/ lock[q] # "none" \/ buf[q].wallet # None
  PROVE  job[q] # NoJob /\ W(q) \in Wallet
<1>1. pc[q] # "idle"
  BY DEF ControlInv, ControlOK, AtRest, NoWrites
<1>2. job[q] # NoJob
  BY <1>1 DEF ControlInv, ControlOK
<1> QED BY <1>2, JobFields DEF ControlInv

\* A process that holds nothing cannot break the invariant.
LEMMA RestLedger ==
  ASSUME LedgerInv, NEW p \in Proc, Alone(p), UNCHANGED <<wallets, ledger>>,
         snap'[p] = None, lock'[p] = "none", buf'[p].wallet = None
  PROVE  LedgerCore'
<1> USE DEF LedgerInv, LedgerCore
<1>1. \A q \in Proc \ {p} : W(q)' = W(q)
  BY DEF Alone, W, R
<1>2. LockExclusion'
  BY <1>1 DEF LockExclusion, Alone, Conflict
<1>3. SnapshotsAge'
  BY <1>1 DEF SnapshotsAge, Alone
<1>4. CreatedOnce'
  BY <1>1 DEF CreatedOnce, Alone
<1>5. WritesContinueWallet'
  BY <1>1 DEF WritesContinueWallet, Alone
<1>6. LedgerExplainsWallet'
  BY DEF LedgerExplainsWallet, BalanceAfter
<1> QED BY <1>2, <1>3, <1>4, <1>5, <1>6

\* A step that changes neither what p has read and locked nor the wallet and
\* the entry it is going to write preserves the invariant.
LEMMA QuietLedger ==
  ASSUME LedgerInv, NEW p \in Proc, Alone(p), UNCHANGED <<wallets, ledger>>,
         job'[p] = job[p], snap'[p] = snap[p], lock'[p] = lock[p],
         buf'[p].wallet = buf[p].wallet, buf'[p].entry = buf[p].entry
  PROVE  LedgerCore'
<1> USE DEF LedgerInv, LedgerCore
<1>1. \A q \in Proc : /\ W(q)' = W(q) /\ job'[q] = job[q] /\ snap'[q] = snap[q]
                      /\ lock'[q] = lock[q] /\ buf'[q].wallet = buf[q].wallet
                      /\ buf'[q].entry = buf[q].entry
  BY DEF Alone, W, R
<1> HIDE DEF Alone
<1>2. LockExclusion'
  BY <1>1 DEF LockExclusion, Conflict
<1>3. SnapshotsAge'
  BY <1>1 DEF SnapshotsAge
<1>4. CreatedOnce'
  BY <1>1 DEF CreatedOnce
<1>5. WritesContinueWallet'
  BY <1>1 DEF WritesContinueWallet
<1>6. LedgerExplainsWallet'
  BY DEF LedgerExplainsWallet, BalanceAfter
<1> QED BY <1>2, <1>3, <1>4, <1>5, <1>6

\* A lock that no conflicting holder stops is exclusive.
LEMMA GrantedLock ==
  ASSUME LedgerInv, NEW p \in Proc, Alone(p), job'[p] = job[p],
         lock'[p] = lock[p] \/ LockHolders(p, lock'[p]) = {}
  PROVE  LockExclusion'
<1> USE DEF LedgerInv, LedgerCore
<1>1. \A q \in Proc : W(q)' = W(q)
  BY DEF Alone, W, R
<1>2. CASE lock'[p] = lock[p]
  BY <1>1, <1>2 DEF LockExclusion, Alone, Conflict
<1>3. CASE LockHolders(p, lock'[p]) = {}
  <2>1. \A q \in Proc \ {p} :
          lock[q] # "none" /\ W(q) = W(p) => ~Conflict(lock'[p], lock[q])
    BY <1>3, HasJob DEF LockHolders
  <2> QED BY <1>1, <2>1 DEF LockExclusion, Alone, Conflict
<1> QED BY <1>2, <1>3

\* Statements that read the wallet or take a lock on it.
LEMMA ReadLedger ==
  ASSUME LedgerInv, NEW p \in Proc, Alone(p), UNCHANGED <<wallets, ledger>>,
         job'[p] = job[p], buf'[p] = buf[p], buf[p].wallet = None,
         snap'[p] = snap[p] \/ snap'[p] = wallets[W(p)],
         lock'[p] = lock[p] \/ LockHolders(p, lock'[p]) = {},
         lock'[p] \in {"NoKeyUpdate", "Update"} => snap'[p] = wallets[W(p)],
         W(p) \in Wallet
  PROVE  LedgerCore'
<1> USE DEF LedgerInv, LedgerCore
<1>1. \A q \in Proc : W(q)' = W(q) /\ job'[q] = job[q] /\ buf'[q] = buf[q]
  BY DEF Alone, W, R
<1>2. LockExclusion'
  BY GrantedLock
<1>3. SnapshotsAge'
  <2>1. wallets[W(p)].version \in Nat
    BY DEF ControlInv, TypeOK, WalletRows
  <2> QED BY <1>1, <2>1 DEF SnapshotsAge, Alone
<1>4. CreatedOnce'
  BY <1>1 DEF CreatedOnce
<1>5. WritesContinueWallet'
  BY <1>1 DEF WritesContinueWallet, Alone
<1>6. LedgerExplainsWallet'
  BY DEF LedgerExplainsWallet, BalanceAfter
<1> QED BY <1>2, <1>3, <1>4, <1>5, <1>6

\* A chain of entries grows by an entry that begins where it ends.
LEMMA ChainGrows ==
  ASSUME TypeOK, LedgerExplainsWallet, NEW w \in Wallet, NEW e \in Entries,
         e.before = wallets[w].balance,
         e.after = e.before + SignedAmount(e.direction, e.amount),
         ledger' = [ledger EXCEPT ![w] = Append(@, e)]
  PROVE  /\ Len(ledger'[w]) = Len(ledger[w]) + 1
         /\ \A i \in 1..Len(ledger'[w]) :
              /\ ledger'[w][i].before = BalanceAfter(w, i - 1)'
              /\ ledger'[w][i].after =
                   ledger'[w][i].before
                     + SignedAmount(ledger'[w][i].direction, ledger'[w][i].amount)
         /\ BalanceAfter(w, Len(ledger[w]))' = e.after
<1> DEFINE s == ledger[w]
<1>1. s \in Seq(Entries) /\ Len(s) \in Nat
  BY DEF TypeOK
<1>2. ledger'[w] = Append(s, e)
  BY DEF TypeOK
<1>3. /\ Len(Append(s, e)) = Len(s) + 1
      /\ \A i \in 1..Len(s) : Append(s, e)[i] = s[i]
      /\ Append(s, e)[Len(s) + 1] = e
  BY <1>1
<1>4. \A i \in 0..Len(s) : BalanceAfter(w, i)' = BalanceAfter(w, i)
  BY <1>1, <1>2, <1>3 DEF BalanceAfter
<1>5. /\ \A i \in 1..Len(s) :
           /\ s[i].before = BalanceAfter(w, i - 1)
           /\ s[i].after = s[i].before + SignedAmount(s[i].direction, s[i].amount)
      /\ e.before = BalanceAfter(w, Len(s))
  BY DEF LedgerExplainsWallet
<1>6. ASSUME NEW i \in 1..Len(ledger'[w])
      PROVE  /\ ledger'[w][i].before = BalanceAfter(w, i - 1)'
             /\ ledger'[w][i].after =
                  ledger'[w][i].before
                    + SignedAmount(ledger'[w][i].direction, ledger'[w][i].amount)
  <2>1. CASE i \in 1..Len(s)
    <3>1. ledger'[w][i] = s[i] /\ i - 1 \in 0..Len(s)
      BY <1>1, <1>2, <1>3, <2>1
    <3> QED BY <1>4, <1>5, <2>1, <3>1
  <2>2. CASE i = Len(s) + 1
    <3>1. ledger'[w][i] = e /\ i - 1 = Len(s) /\ i - 1 \in 0..Len(s)
      BY <1>1, <1>2, <1>3, <2>2
    <3> QED BY <1>4, <1>5, <3>1
  <2> QED BY <1>1, <1>2, <1>3, <2>1, <2>2
<1>7. BalanceAfter(w, Len(ledger[w]))' = e.after
  BY <1>1, <1>2, <1>3 DEF BalanceAfter
<1> QED BY <1>2, <1>3, <1>6, <1>7

\* The initial ledger: the opening entry of every wallet that exists.
LEMMA InitLedger == Init => LedgerInv
<1> SUFFICES ASSUME Init PROVE LedgerInv
  OBVIOUS
<1>1. ControlInv
  BY InitControl
<1>2. \A p \in Proc : snap[p] = None /\ lock[p] = "none" /\ buf[p].wallet = None
  BY DEF Init, NoWrites
<1>3. LockExclusion /\ SnapshotsAge /\ CreatedOnce /\ WritesContinueWallet
  BY <1>2 DEF LockExclusion, SnapshotsAge, CreatedOnce, WritesContinueWallet
<1>4. LedgerExplainsWallet
  <2> SUFFICES ASSUME NEW w \in Wallet
               PROVE  /\ \A i \in 1..Len(ledger[w]) :
                           /\ ledger[w][i].before = BalanceAfter(w, i - 1)
                           /\ ledger[w][i].after =
                                ledger[w][i].before
                                  + SignedAmount(ledger[w][i].direction,
                                                 ledger[w][i].amount)
                      /\ wallets[w].balance = BalanceAfter(w, Len(ledger[w]))
                      /\ wallets[w].open =>
                           wallets[w].version =
                             Len(ledger[w]) + (IF HasOpeningBalance(w) THEN 0 ELSE 1)
                      /\ ~wallets[w].open => ledger[w] = <<>>
    BY DEF LedgerExplainsWallet
  <2>1. WalletInfo[w].opening \in Nat
    BY WalletAssumption
  <2>2. w \in Wallet /\ Req(w).amount = WalletInfo[w].opening
    BY RequestAssumption DEF Req, OpeningRequest
  <2>3. CASE w \in OpenAtStart /\ HasOpeningBalance(w)
    <3>1. ledger[w] = <<OpeningEntry(w)>> /\ wallets[w] = OpenedWallet(w)
      BY <2>3 DEF Init
    <3> QED BY <2>1, <2>2, <2>3, <3>1
      DEF OpenedWallet, OpeningEntry, Entry, SignedAmount, BalanceAfter
  <2>4. CASE w \in OpenAtStart /\ ~HasOpeningBalance(w)
    <3>1. ledger[w] = <<>> /\ wallets[w] = OpenedWallet(w)
      BY <2>4 DEF Init
    <3> QED BY <2>1, <2>4, <3>1 DEF OpenedWallet, HasOpeningBalance, BalanceAfter
  <2>5. CASE w \notin OpenAtStart
    <3>1. ledger[w] = <<>> /\ wallets[w] = NoWallet
      BY <2>5 DEF Init
    <3> QED BY <3>1 DEF NoWallet, BalanceAfter
  <2> QED BY <2>3, <2>4, <2>5
<1> QED BY <1>1, <1>3, <1>4 DEF LedgerInv, LedgerCore

\* A throw, at whichever statement.
LEMMA FailLedger ==
  ASSUME LedgerInv, NEW p \in Proc, NEW e, Fail(p, e)
  PROVE  LedgerCore'
BY RestLedger DEF Fail, EndTransaction, db, Alone, LedgerInv, ControlInv, TypeOK, NoWrites

\* The other steps that hold nothing when they are over.
LEMMA ReleaseLedger ==
  ASSUME LedgerInv,
         \/ \E h \in Handler : \/ \E c \in Cmd : Submit(h, c)
                               \/ \E w \in Wallet : CreateWallet(h, w)
         \/ \E k \in Worker : ListDue(k) \/ ReprocessNext(k)
         \/ \E p \in Proc : Return(p) \/ Crash(p)
  PROVE  LedgerCore'
<1> USE DEF LedgerInv, ControlInv
<1>1. \A p \in Proc : pc[p] \in AtRest =>
        snap[p] = None /\ lock[p] = "none" /\ buf[p].wallet = None
  BY DEF ControlOK, NoWrites
<1>2. Handler \subseteq Proc /\ Worker \subseteq Proc
  BY DEF Proc
<1>3. ASSUME NEW h \in Handler,
             (\E c \in Cmd : Submit(h, c)) \/ (\E w \in Wallet : CreateWallet(h, w))
      PROVE  LedgerCore'
  BY <1>1, <1>2, <1>3, RestLedger
  DEF Submit, CreateWallet, Alone, TypeOK, db, AtRest
<1>4. ASSUME NEW k \in Worker, ListDue(k) \/ ReprocessNext(k) PROVE LedgerCore'
  BY <1>1, <1>2, <1>4, RestLedger
  DEF ListDue, ReprocessNext, Alone, TypeOK, db, AtRest
<1>5. ASSUME NEW p \in Proc, Return(p) PROVE LedgerCore'
  BY <1>1, <1>5, RestLedger DEF Return, Alone, TypeOK, db, AtRest
<1>6. ASSUME NEW p \in Proc, Crash(p) PROVE LedgerCore'
  BY <1>6, RestLedger DEF Crash, EndTransaction, Alone, TypeOK, db, NoWrites
<1> QED BY <1>3, <1>4, <1>5, <1>6

\* A rejection does not touch what the unit of work would write to the wallet.
LEMMA RejectLedger ==
  ASSUME LedgerInv, NEW p \in Proc, NEW code, Reject(p, code),
         UNCHANGED <<db, job, snap, lock>>
  PROVE  LedgerCore'
<1>1. buf[p] \in Buffers /\ buf \in [Proc -> Buffers]
  BY DEF LedgerInv, ControlInv, TypeOK
<1>2. /\ buf'[p].wallet = buf[p].wallet /\ buf'[p].entry = buf[p].entry
      /\ \A q \in Proc \ {p} : buf'[q] = buf[q]
  BY <1>1 DEF Reject, Buffers
<1> QED BY <1>2, QuietLedger DEF Alone, db

\* The steps between the wallet's read and its write.
LEMMA BetweenLedger ==
  ASSUME LedgerInv, NEW p \in Proc,
         \/ CheckWallet(p) \/ FindInbox(p) \/ ReplaySeen(p) \/ InsertInbox(p)
         \/ FindKey(p) \/ FindExternalId(p) \/ InsertTransaction(p)
         \/ ReadTransaction(p) \/ FindReference(p) \/ FindReversal(p) \/ Apply(p)
  PROVE  LedgerCore'
<1>1. buf[p] \in Buffers /\ buf \in [Proc -> Buffers]
  BY DEF LedgerInv, ControlInv, TypeOK
<1>2. ASSUME NEW e, Fail(p, e) PROVE LedgerCore'
  BY <1>2, FailLedger
<1>3. ASSUME NEW code, Reject(p, code), UNCHANGED <<db, job, snap, lock>>
      PROVE  LedgerCore'
  BY <1>3, RejectLedger
<1>4. ASSUME UNCHANGED <<db, job, snap, lock, buf>> PROVE LedgerCore'
  BY <1>4, QuietLedger DEF Alone, db
<1>5. ASSUME UNCHANGED <<db, job, snap, lock>>,
             NEW b, buf' = [buf EXCEPT ![p] = b],
             b.wallet = buf[p].wallet, b.entry = buf[p].entry
      PROVE  LedgerCore'
  BY <1>1, <1>5, QuietLedger DEF Alone, db
<1>6. ASSUME UNCHANGED <<db, job, snap, lock>>,
             NEW row, buf' = [buf EXCEPT ![p].row = row]
      PROVE  LedgerCore'
  BY <1>1, <1>5, <1>6 DEF Buffers
<1>7. ASSUME UNCHANGED <<db, job, snap, lock>>, NEW row, NEW events,
             buf' = [buf EXCEPT ![p].row = row, ![p].events = events]
      PROVE  LedgerCore'
  BY <1>1, <1>5, <1>7 DEF Buffers
<1>8. CASE CheckWallet(p) \/ FindInbox(p) \/ ReplaySeen(p)
  BY <1>2, <1>4, <1>8 DEF CheckWallet, FindInbox, ReplaySeen
<1>9. CASE InsertInbox(p)
  BY <1>1, <1>2, <1>5, <1>9 DEF InsertInbox, Buffers
<1>10. CASE FindKey(p) \/ FindExternalId(p)
  BY <1>2, <1>4, <1>10 DEF FindKey, FindExternalId, ReplayOrConflict
<1>11. CASE InsertTransaction(p) \/ ReadTransaction(p)
  BY <1>2, <1>4, <1>6, <1>11 DEF InsertTransaction, ReadTransaction
<1>12. CASE FindReference(p)
  <2>1. UNCHANGED <<db, job, snap, lock>>
    BY <1>12 DEF FindReference
  <2>2. CASE ParkReversal(p) \/ RetryReversal(p)
    BY <1>6, <1>7, <2>1, <2>2 DEF ParkReversal, RetryReversal
  <2>3. CASE ~(ParkReversal(p) \/ RetryReversal(p))
    BY <1>3, <1>4, <1>12, <2>1, <2>3 DEF FindReference
  <2> QED BY <2>2, <2>3
<1>13. CASE FindReversal(p)
  BY <1>3, <1>4, <1>13 DEF FindReversal
<1>14. CASE Apply(p)
  <2>1. UNCHANGED <<db, job, snap, lock>>
    BY <1>14 DEF Apply
  <2>2. CASE AffectsBalance(R(p).kind)
    <3>1. \/ \E code : Reject(p, code)
          \/ UNCHANGED buf
      BY <1>14, <2>2 DEF Apply
    <3> QED BY <1>3, <1>4, <2>1, <3>1
  <2>3. CASE ~AffectsBalance(R(p).kind)
    <3>1. \E row, events : buf' = [buf EXCEPT ![p].row = row, ![p].events = events]
      BY <1>14, <2>3 DEF Apply
    <3> QED BY <1>7, <2>1, <3>1
  <2> QED BY <2>2, <2>3
<1> QED BY <1>8, <1>9, <1>10, <1>11, <1>12, <1>13, <1>14

\* SELECT ... FOR UPDATE, the plain SELECT and the foreign-key check.
LEMMA LockLedger ==
  ASSUME LedgerInv, NEW p \in Proc,
         LockWallet(p) \/ ReadWallet(p) \/ CheckForeignKey(p)
  PROVE  LedgerCore'
<1> USE DEF LedgerInv, ControlInv
<1>1. job[p] # NoJob /\ W(p) \in Wallet
  BY JobFields DEF LockWallet, ReadWallet, CheckForeignKey, ControlOK
<1>2. buf[p].wallet = None
  BY DEF LockWallet, ReadWallet, CheckForeignKey, WalletsOpen
<1>3. lock[p] \in {"NoKeyUpdate", "Update"} => snap[p] = wallets[W(p)]
  BY DEF LedgerCore, SnapshotsAge, WalletsOpen
<1>4. CASE LockWallet(p)
  <2>1. CASE wallets[W(p)].open
    <3>1. LockHolders(p, "Update") = {}
      BY <1>4, <2>1 DEF LockWallet, BlockedBy
    <3>2. lock' = [lock EXCEPT ![p] = "Update"] /\ snap' = [snap EXCEPT ![p] = wallets[W(p)]]
      BY <1>4, <2>1 DEF LockWallet, WalletLockMode
    <3> QED BY <1>1, <1>2, <1>4, <3>1, <3>2, ReadLedger
      DEF LockWallet, Alone, TypeOK, db
  <2>2. CASE ~wallets[W(p)].open
    BY <1>4, <2>2, QuietLedger DEF LockWallet, Alone, db
  <2> QED BY <2>1, <2>2
<1>5. CASE ReadWallet(p)
  <2>1. CASE \E e : Fail(p, e)
    BY <2>1, FailLedger
  <2>2. CASE ~\E e : Fail(p, e)
    <3>1. /\ snap' = [snap EXCEPT ![p] = IF @ = None THEN wallets[W(p)] ELSE @]
          /\ UNCHANGED <<db, job, lock, buf>>
      BY <1>5, <2>2 DEF ReadWallet
    <3>2. snap[p] = None => lock[p] = "none"
      BY DEF WalletsOpen
    <3> QED BY <1>1, <1>2, <1>3, <3>1, <3>2, ReadLedger DEF Alone, TypeOK, db
  <2> QED BY <2>1, <2>2
<1>6. CASE CheckForeignKey(p)
  <2>1. LockHolders(p, "KeyShare") = {}
    BY <1>6 DEF CheckForeignKey, BlockedBy
  <2>2. lock' = [lock EXCEPT ![p] = IF @ = "none" THEN "KeyShare" ELSE @]
    BY <1>6 DEF CheckForeignKey
  <2> QED BY <1>1, <1>2, <1>3, <1>6, <2>1, <2>2, ReadLedger
    DEF CheckForeignKey, Alone, TypeOK, db
<1> QED BY <1>4, <1>5, <1>6

\* CreateWallet is alone in creating its wallet.
LEMMA InsertWalletLedger ==
  ASSUME LedgerInv, NEW p \in Proc, InsertWallet(p)
  PROVE  LedgerCore'
<1> USE DEF LedgerInv, ControlInv
<1>1. CASE Fail(p, "WalletAlreadyExists")
  BY <1>1, FailLedger
<1>2. CASE ~Fail(p, "WalletAlreadyExists")
  <2>1. /\ pc[p] = "insertWallet" /\ BlockedBy(p) = {} /\ ~wallets[W(p)].open
        /\ buf' = [buf EXCEPT ![p] = [NoWrites EXCEPT !.row = OpeningRow(W(p)),
                                        !.wallet = OpenedWallet(W(p)),
                                        !.entry = OpeningEntry(W(p)),
                                        !.events = OpeningEvents(W(p))]]
        /\ UNCHANGED <<db, job, snap, lock>>
    BY <1>2 DEF InsertWallet, WalletKeyViolation
  <2>2. job[p].op = "create" /\ HoldersOfWalletKey(p) = {}
    BY <2>1 DEF BlockedBy, ControlOK
  <2>3. /\ buf'[p].wallet = OpenedWallet(W(p)) /\ buf'[p].entry = OpeningEntry(W(p))
        /\ \A q \in Proc : /\ W(q)' = W(q) /\ job'[q] = job[q] /\ snap'[q] = snap[q]
                           /\ lock'[q] = lock[q] /\ (q # p => buf'[q] = buf[q])
    BY <2>1 DEF NoWrites, TypeOK, W, R
  <2>4. \A q \in Proc \ {p} : buf[q].wallet # None => W(q) # W(p)
    <3> TAKE q \in Proc \ {p}
    <3>1. CASE job[q].op = "create"
      BY <2>2, <3>1 DEF HoldersOfWalletKey, WalletsOpen
    <3>2. CASE job[q].op # "create"
      BY <2>1, <3>2 DEF LedgerCore, WritesContinueWallet, WalletsOpen
    <3> QED BY <3>1, <3>2
  <2>5. LockExclusion'
    BY <2>3 DEF LedgerCore, LockExclusion, Conflict
  <2>6. SnapshotsAge'
    BY <2>1, <2>3 DEF LedgerCore, SnapshotsAge, db
  <2>7. CreatedOnce'
    BY <2>1, <2>3, <2>4 DEF LedgerCore, CreatedOnce, db
  <2>8. WritesContinueWallet'
    BY <2>2, <2>3 DEF LedgerCore, WritesContinueWallet
  <2>9. LedgerExplainsWallet'
    BY <2>1 DEF LedgerCore, LedgerExplainsWallet, BalanceAfter, db
  <2> QED BY <2>5, <2>6, <2>7, <2>8, <2>9 DEF LedgerCore
<1> QED BY <1>1, <1>2

\* The UPDATE that found the version it expected continues the wallet.
LEMMA SaveWalletLedger ==
  ASSUME LedgerInv, NEW p \in Proc, SaveWallet(p)
  PROVE  LedgerCore'
<1> USE DEF LedgerInv, ControlInv
<1> DEFINE entry == Entry(job[p].id, Direction(p), snap[p].balance)
           wallet == [open |-> TRUE, balance |-> entry.after,
                      version |-> snap[p].version + 1]
<1>1. CASE \E e : Fail(p, e)
  BY <1>1, FailLedger
<1>2. CASE ~\E e : Fail(p, e)
  <2>1. /\ pc[p] = "saveWallet" /\ BlockedBy(p) = {} /\ ~VersionMoved(p)
        /\ lock' = [lock EXCEPT ![p] = IF @ = "Update" THEN @ ELSE "NoKeyUpdate"]
        /\ buf' = [buf EXCEPT
             ![p].row = ProcessedRow(buf[p].row, ref[p], entry.after),
             ![p].wallet = wallet, ![p].entry = entry,
             ![p].events = {"WagerTransactionProcessed", "WalletBalanceChanged"}]
        /\ UNCHANGED <<db, job, snap>>
    BY <1>2 DEF SaveWallet
  <2>2. /\ job[p] # NoJob /\ job[p].op # "create" /\ job[p].id \in TxId
        /\ W(p) \in Wallet /\ snap[p] # None /\ snap[p].balance \in Nat
    BY <2>1, JobFields DEF ControlOK, DecidingLabels, TypeOK, WalletRows
  <2>3. snap[p] = wallets[W(p)] /\ wallets[W(p)].open
    BY <2>1, <2>2 DEF VersionMoved, LedgerCore, SnapshotsAge, WalletsOpen
  <2>4. LockHolders(p, "NoKeyUpdate") = {}
    BY <2>1 DEF BlockedBy
  <2>5. /\ entry \in Entries /\ entry.before = snap[p].balance
        /\ entry.after = entry.before + SignedAmount(entry.direction, entry.amount)
    <3>1. Direction(p) \in {"CREDIT", "DEBIT"}
      BY DEF Direction, LedgerDirection
    <3>2. MovementFailure(R(p), Direction(p), snap[p].balance,
                          WalletInfo[W(p)].currency) = NoFailure
      BY <2>1 DEF ControlOK
    <3> QED BY <2>2, <3>1, <3>2, AcceptedMovement DEF R
  <2>6. entry # None
    BY <2>5, NullAssumption
  <2> HIDE DEF entry
  <2>7. /\ buf'[p].wallet = wallet /\ buf'[p].entry = entry
        /\ \A q \in Proc \ {p} : buf'[q] = buf[q]
    BY <2>1 DEF TypeOK, Buffers
  <2>8. /\ lock'[p] \in {"NoKeyUpdate", "Update"}
        /\ lock'[p] = lock[p] \/ lock'[p] = "NoKeyUpdate"
        /\ \A q \in Proc \ {p} : lock'[q] = lock[q]
    BY <2>1 DEF TypeOK
  <2>9. \A q \in Proc : W(q)' = W(q) /\ job'[q] = job[q] /\ snap'[q] = snap[q]
    BY <2>1 DEF W, R
  <2>10. LockExclusion'
    BY <2>4, <2>7, <2>8, <2>9, GrantedLock DEF Alone
  <2>11. SnapshotsAge'
    BY <2>1, <2>3, <2>8, <2>9 DEF LedgerCore, SnapshotsAge, db
  <2>12. CreatedOnce'
    <3> SUFFICES ASSUME NEW r \in Proc, buf'[r].wallet # None, job'[r].op = "create"
                 PROVE  /\ ~wallets'[W(r)'].open
                        /\ \A q \in Proc \ {r} : buf'[q].wallet # None => W(q)' # W(r)'
      BY DEF CreatedOnce
    <3>1. r # p /\ buf[r].wallet # None /\ job[r].op = "create"
      BY <2>2, <2>7, <2>9
    <3>2. /\ ~wallets[W(r)].open
          /\ \A q \in Proc \ {r} : buf[q].wallet # None => W(q) # W(r)
      BY <3>1 DEF LedgerCore, CreatedOnce
    <3>3. W(p) # W(r)
      BY <2>3, <3>2
    <3>4. \A q \in Proc \ {r} : buf'[q].wallet # None => W(q) # W(r)
      BY <2>7, <3>2, <3>3
    <3> QED BY <2>1, <2>9, <3>2, <3>4 DEF db
  <2>13. WritesContinueWallet'
    BY <2>2, <2>5, <2>6, <2>7, <2>8, <2>9 DEF LedgerCore, WritesContinueWallet
  <2>14. LedgerExplainsWallet'
    BY <2>1 DEF LedgerCore, LedgerExplainsWallet, BalanceAfter, db
  <2> QED BY <2>10, <2>11, <2>12, <2>13, <2>14 DEF LedgerCore
<1> QED BY <1>1, <1>2

\* The ledgers of the other wallets do not change; the one of w is a chain
\* that ends at its balance and counts its version.
LEMMA WalletChain ==
  ASSUME LedgerExplainsWallet, NEW w \in Wallet,
         \A v \in Wallet \ {w} : ledger'[v] = ledger[v] /\ wallets'[v] = wallets[v],
         \A i \in 1..Len(ledger'[w]) :
           /\ ledger'[w][i].before = BalanceAfter(w, i - 1)'
           /\ ledger'[w][i].after =
                ledger'[w][i].before
                  + SignedAmount(ledger'[w][i].direction, ledger'[w][i].amount),
         wallets'[w].open,
         wallets'[w].balance = BalanceAfter(w, Len(ledger[w]))',
         wallets'[w].version =
           Len(ledger'[w]) + (IF HasOpeningBalance(w) THEN 0 ELSE 1)
  PROVE  LedgerExplainsWallet'
<1> SUFFICES ASSUME NEW v \in Wallet
             PROVE  /\ \A i \in 1..Len(ledger'[v]) :
                         /\ ledger'[v][i].before = BalanceAfter(v, i - 1)'
                         /\ ledger'[v][i].after =
                              ledger'[v][i].before
                                + SignedAmount(ledger'[v][i].direction,
                                               ledger'[v][i].amount)
                    /\ wallets'[v].balance = BalanceAfter(v, Len(ledger[v]))'
                    /\ wallets'[v].open =>
                         wallets'[v].version =
                           Len(ledger'[v]) + (IF HasOpeningBalance(v) THEN 0 ELSE 1)
                    /\ ~wallets'[v].open => ledger'[v] = <<>>
  BY DEF LedgerExplainsWallet
<1>1. CASE v = w
  BY <1>1
<1>2. CASE v # w
  <2>1. ledger'[v] = ledger[v] /\ wallets'[v] = wallets[v]
    BY <1>2
  <2>2. /\ \A i \in 1..Len(ledger[v]) :
             /\ ledger[v][i].before = BalanceAfter(v, i - 1)
             /\ ledger[v][i].after =
                  ledger[v][i].before
                    + SignedAmount(ledger[v][i].direction, ledger[v][i].amount)
        /\ wallets[v].balance = BalanceAfter(v, Len(ledger[v]))
        /\ wallets[v].open =>
             wallets[v].version =
               Len(ledger[v]) + (IF HasOpeningBalance(v) THEN 0 ELSE 1)
        /\ ~wallets[v].open => ledger[v] = <<>>
    BY DEF LedgerExplainsWallet
  <2>3. \A i : BalanceAfter(v, i)' = BalanceAfter(v, i)
    BY <2>1 DEF BalanceAfter
  <2>4. BalanceAfter(v, Len(ledger[v]))' = BalanceAfter(v, Len(ledger[v]))
    BY <2>1 DEF BalanceAfter
  <2> QED BY <2>1, <2>2, <2>3, <2>4
<1> QED BY <1>1, <1>2

\* COMMIT publishes a wallet and its entry together.  For a movement the
\* writer has held the row since its snapshot was current, so no snapshot of
\* another process is; for a creation nobody has seen the wallet.
LEMMA CommitLedger ==
  ASSUME LedgerInv, NEW p \in Proc, Commit(p)
  PROVE  LedgerCore'
<1> USE DEF LedgerInv, ControlInv
<1> DEFINE b == buf[p]
<1>0. PICK w \in Wallet : w = W(p)
  <2>1. job[p] # NoJob
    BY DEF Commit, ControlOK
  <2> QED BY <2>1, JobFields
<1> USE <1>0
<1>1. /\ Alone(p) /\ UNCHANGED job
      /\ snap'[p] = None /\ lock'[p] = "none" /\ buf'[p].wallet = None
      /\ \A q \in Proc : W(q)' = W(q)
  BY DEF Commit, EndTransaction, Alone, TypeOK, W, R, NoWrites
<1>2. CASE b.wallet = None
  <2>1. UNCHANGED <<wallets, ledger>>
    BY <1>2 DEF Commit, WalletsOpen
  <2> QED BY <1>1, <2>1, RestLedger
<1>3. CASE b.wallet # None
  <2>1. /\ job[p] # NoJob /\ w \in Wallet
        /\ b.wallet \in WalletRows /\ b.entry \in Entries \cup {None}
    BY <1>3, HasJob DEF TypeOK, Buffers
  <2>2. wallets' = [wallets EXCEPT ![w] = b.wallet]
    BY <1>3 DEF Commit
  <2>3. /\ wallets'[w] = b.wallet
        /\ \A v \in Wallet \ {w} : wallets'[v] = wallets[v]
        /\ wallets[w] \in WalletRows
    BY <2>1, <2>2 DEF TypeOK
  <2>4. \A q \in Proc : snap[q] # None => W(q) \in Wallet /\ snap[q] \in WalletRows
    BY HasJob DEF TypeOK
  <2>5. \A q \in Proc : buf[q].wallet # None => W(q) \in Wallet
    BY HasJob
  <2>6. LockExclusion'
    BY <1>1 DEF LedgerCore, LockExclusion, Alone, Conflict
  <2>7. WritesContinueWallet'
    BY <1>1 DEF LedgerCore, WritesContinueWallet, Alone
  <2>8. \A v \in Wallet \ {w} : ledger'[v] = ledger[v]
    BY <2>1 DEF Commit, TypeOK
  <2>10. CASE job[p].op # "create"
    <3>1. /\ lock[p] \in {"NoKeyUpdate", "Update"}
          /\ snap[p] = wallets[w] /\ wallets[w].open
          /\ b.entry # None
          /\ b.entry.before = wallets[w].balance
          /\ b.entry.after =
               b.entry.before + SignedAmount(b.entry.direction, b.entry.amount)
          /\ b.wallet.balance = b.entry.after
          /\ b.wallet.version = wallets[w].version + 1
      BY <1>3, <2>10 DEF LedgerCore, WritesContinueWallet, SnapshotsAge, WalletsOpen
    <3>2. \A q \in Proc \ {p} : W(q) = w => lock[q] \notin {"NoKeyUpdate", "Update"}
      BY <3>1 DEF LedgerCore, LockExclusion, Conflict
    <3>3. SnapshotsAge'
      <4> SUFFICES ASSUME NEW q \in Proc \ {p}, snap[q] # None
                   PROVE  /\ snap[q].version <= wallets'[W(q)].version
                          /\ snap[q].version = wallets'[W(q)].version
                               => snap[q] = wallets'[W(q)]
                          /\ lock[q] \in {"NoKeyUpdate", "Update"}
                               => snap[q] = wallets'[W(q)]
        BY <1>1 DEF SnapshotsAge, Alone
      <4>1. CASE W(q) # w
        BY <2>3, <2>4, <4>1 DEF LedgerCore, SnapshotsAge
      <4>2. CASE W(q) = w
        <5>1. snap[q].version <= wallets[w].version
          BY <4>2 DEF LedgerCore, SnapshotsAge
        <5>2. snap[q].version \in Nat /\ wallets[w].version \in Nat
          BY <2>3, <2>4 DEF WalletRows
        <5>3. snap[q].version < wallets'[w].version
          BY <2>3, <3>1, <5>1, <5>2
        <5> QED BY <2>3, <3>1, <3>2, <4>2, <5>2, <5>3
      <4> QED BY <4>1, <4>2
    <3>4. CreatedOnce'
      BY <1>1, <2>3, <2>5, <3>1 DEF LedgerCore, CreatedOnce, Alone
    <3>5. ledger' = [ledger EXCEPT ![w] = Append(@, b.entry)] /\ b.entry \in Entries
      BY <2>1, <3>1 DEF Commit
    <3>6. /\ Len(ledger'[w]) = Len(ledger[w]) + 1
          /\ \A i \in 1..Len(ledger'[w]) :
               /\ ledger'[w][i].before = BalanceAfter(w, i - 1)'
               /\ ledger'[w][i].after =
                    ledger'[w][i].before
                      + SignedAmount(ledger'[w][i].direction, ledger'[w][i].amount)
          /\ BalanceAfter(w, Len(ledger[w]))' = b.entry.after
      <4> HIDE DEF b
      <4> QED BY <2>1, <3>1, <3>5, ChainGrows DEF LedgerCore
    <3>7. wallets[w].version = Len(ledger[w]) + (IF HasOpeningBalance(w) THEN 0 ELSE 1)
      BY <2>1, <3>1 DEF LedgerCore, LedgerExplainsWallet
    <3>8. Len(ledger[w]) \in Nat
      BY <2>1 DEF TypeOK
    <3>9. /\ LedgerExplainsWallet
          /\ \A v \in Wallet \ {w} : ledger'[v] = ledger[v] /\ wallets'[v] = wallets[v]
          /\ wallets'[w].open
          /\ wallets'[w].balance = BalanceAfter(w, Len(ledger[w]))'
      BY <1>3, <2>3, <2>8, <3>1, <3>6 DEF WalletsOpen, LedgerCore
    <3>10. wallets'[w].version =
             Len(ledger'[w]) + (IF HasOpeningBalance(w) THEN 0 ELSE 1)
      <4>1. wallets'[w].version = wallets[w].version + 1
        BY <2>3, <3>1
      <4>2. CASE HasOpeningBalance(w)
        BY <3>6, <3>7, <3>8, <4>1, <4>2
      <4>3. CASE ~HasOpeningBalance(w)
        BY <3>6, <3>7, <3>8, <4>1, <4>3
      <4> QED BY <4>2, <4>3
    <3>11. LedgerExplainsWallet'
      BY <3>6, <3>9, <3>10, WalletChain
    <3> QED BY <2>6, <2>7, <3>3, <3>4, <3>11 DEF LedgerCore
  <2>11. CASE job[p].op = "create"
    <3>1. /\ ~wallets[w].open
          /\ b.wallet = OpenedWallet(w) /\ b.entry = OpeningEntry(w)
          /\ \A q \in Proc \ {p} : buf[q].wallet # None => W(q) # w
      BY <1>3, <2>11 DEF LedgerCore, WritesContinueWallet, CreatedOnce
    <3>2. \A q \in Proc : snap[q] # None => W(q) # w
      BY <3>1 DEF WalletsOpen
    <3>3. SnapshotsAge'
      BY <1>1, <2>3, <2>4, <3>2 DEF LedgerCore, SnapshotsAge, Alone
    <3>4. CreatedOnce'
      BY <1>1, <2>3, <2>5, <3>1 DEF LedgerCore, CreatedOnce, Alone
    <3>5. ledger[w] = <<>> /\ wallets[w].balance = 0
      BY <2>1, <3>1 DEF LedgerCore, LedgerExplainsWallet, BalanceAfter
    <3>6. /\ WalletInfo[w].opening \in Nat
          /\ w \in Wallet /\ Req(w).amount = WalletInfo[w].opening
      BY <2>1, WalletAssumption, RequestAssumption DEF Req, OpeningRequest
    <3>7. /\ LedgerExplainsWallet
          /\ \A v \in Wallet \ {w} : ledger'[v] = ledger[v] /\ wallets'[v] = wallets[v]
          /\ wallets'[w].open
      BY <1>3, <2>3, <2>8 DEF WalletsOpen, LedgerCore
    <3>8. CASE HasOpeningBalance(w)
      <4>1. b.entry \in Entries /\ b.entry # None
        BY <2>1, <3>1, <3>8, OpeningRows, NullAssumption
      <4>2. ledger'[w] = <<b.entry>>
        BY <2>1, <3>5, <4>1 DEF Commit, TypeOK
      <4>3. /\ b.entry.before = 0 /\ b.entry.after = WalletInfo[w].opening
            /\ b.entry.direction = "CREDIT" /\ b.entry.amount = WalletInfo[w].opening
            /\ b.wallet.balance = WalletInfo[w].opening /\ b.wallet.version = 1
        BY <3>1, <3>6, <3>8 DEF OpeningEntry, Entry, SignedAmount, OpenedWallet
      <4>4. LedgerExplainsWallet'
        <5> HIDE DEF b
        <5>1. Len(ledger'[w]) = 1 /\ ledger'[w][1] = b.entry
          BY <4>2
        <5>2. \A i \in 1..Len(ledger'[w]) : i = 1
          BY <5>1
        <5>3. BalanceAfter(w, 0)' = 0
          BY DEF BalanceAfter
        <5>4. BalanceAfter(w, Len(ledger[w]))' = b.entry.after
          BY <5>1 DEF BalanceAfter
        <5>5. \A i \in 1..Len(ledger'[w]) :
                /\ ledger'[w][i].before = BalanceAfter(w, i - 1)'
                /\ ledger'[w][i].after =
                     ledger'[w][i].before
                       + SignedAmount(ledger'[w][i].direction, ledger'[w][i].amount)
          BY <3>6, <4>3, <5>1, <5>2, <5>3 DEF SignedAmount
        <5>6. /\ wallets'[w].balance = BalanceAfter(w, Len(ledger[w]))'
              /\ wallets'[w].version =
                   Len(ledger'[w]) + (IF HasOpeningBalance(w) THEN 0 ELSE 1)
          BY <2>3, <3>8, <4>3, <5>1, <5>4
        <5> QED BY <3>7, <5>5, <5>6, WalletChain
      <4> QED BY <2>6, <2>7, <3>3, <3>4, <4>4 DEF LedgerCore
    <3>9. CASE ~HasOpeningBalance(w)
      <4>1. ledger'[w] = <<>>
        BY <2>1, <3>1, <3>5, <3>9 DEF Commit, OpeningEntry, TypeOK
      <4>2. b.wallet.balance = 0 /\ b.wallet.version = 1
        BY <3>1, <3>6, <3>9 DEF OpenedWallet, HasOpeningBalance
      <4>3. /\ \A i \in 1..Len(ledger'[w]) :
                 /\ ledger'[w][i].before = BalanceAfter(w, i - 1)'
                 /\ ledger'[w][i].after =
                      ledger'[w][i].before
                        + SignedAmount(ledger'[w][i].direction, ledger'[w][i].amount)
            /\ wallets'[w].balance = BalanceAfter(w, Len(ledger[w]))'
            /\ wallets'[w].version =
                 Len(ledger'[w]) + (IF HasOpeningBalance(w) THEN 0 ELSE 1)
        BY <2>3, <3>9, <4>1, <4>2 DEF BalanceAfter
      <4>4. LedgerExplainsWallet'
        BY <3>7, <4>3, WalletChain
      <4> QED BY <2>6, <2>7, <3>3, <3>4, <4>4 DEF LedgerCore
    <3> QED BY <3>8, <3>9
  <2> QED BY <2>10, <2>11
<1> QED BY <1>2, <1>3

\* LedgerInv is inductive.
LEMMA LedgerStep == LedgerInv /\ [Next]_vars => LedgerInv'
<1> SUFFICES ASSUME LedgerInv, [Next]_vars PROVE LedgerInv'
  OBVIOUS
<1>1. ControlInv'
  BY ControlStep DEF LedgerInv
<1>2. CASE UNCHANGED vars
  BY <1>1, <1>2
  DEF vars, LedgerInv, LedgerCore, LockExclusion, SnapshotsAge, CreatedOnce,
      WritesContinueWallet, LedgerExplainsWallet, BalanceAfter, W, R
<1>3. CASE \/ \E h \in Handler : \/ \E c \in Cmd : Submit(h, c)
                                 \/ \E w \in Wallet : CreateWallet(h, w)
           \/ \E k \in Worker : ListDue(k) \/ ReprocessNext(k)
  BY <1>1, <1>3, ReleaseLedger DEF LedgerInv
<1>4. ASSUME NEW p \in Proc, Crash(p) PROVE LedgerInv'
  BY <1>1, <1>4, ReleaseLedger DEF LedgerInv
<1>5. ASSUME NEW p \in Proc, Step(p) PROVE LedgerInv'
  <2>1. CASE Return(p) \/ DeadlockVictim(p)
    BY <1>1, <2>1, ReleaseLedger, FailLedger DEF LedgerInv, DeadlockVictim
  <2>2. CASE ~(Return(p) \/ DeadlockVictim(p))
    BY <1>1, <1>5, <2>2, BetweenLedger, LockLedger, InsertWalletLedger,
       SaveWalletLedger, CommitLedger
    DEF Step, LedgerInv
  <2> QED BY <2>1, <2>2
<1> QED BY <1>2, <1>3, <1>4, <1>5 DEF Next

\* The ledger of a wallet always explains its balance and its version, so no
\* movement is lost, applied twice or applied to a stale balance, whether or
\* not the wallet existed when its FOR UPDATE ran (mikro-unit-of-work.ts,
\* repositories.ts save, create-wallet.use-case.ts).
THEOREM LedgerCorrect == Spec => []LedgerExplainsWallet
<1>1. Init => LedgerInv
  BY InitLedger
<1>2. LedgerInv /\ [Next]_vars => LedgerInv'
  BY LedgerStep
<1>3. LedgerInv => LedgerExplainsWallet
  BY DEF LedgerInv, LedgerCore
<1> QED BY <1>1, <1>2, <1>3, PTL DEF Spec

\* A version identifies a balance: a unit of work whose UPDATE finds the
\* version it has read decided on the balance that is there (repositories.ts,
\* save).
THEOREM SnapshotsCorrect == Spec => []SnapshotsAge
<1>1. Init => LedgerInv
  BY InitLedger
<1>2. LedgerInv /\ [Next]_vars => LedgerInv'
  BY LedgerStep
<1>3. LedgerInv => SnapshotsAge
  BY DEF LedgerInv, LedgerCore
<1> QED BY <1>1, <1>2, <1>3, PTL DEF Spec
=============================================================================
