------------------------ MODULE WagerMovementProofs ------------------------
(***************************************************************************)
(* Rows, ledger entries, events, recorded messages and answers agree, for  *)
(* any number of processes, wallets, requests and crashes.                 *)
(*                                                                         *)
(* A unit of work prepares all of them under its row (MovementFits,        *)
(* MessageFits, AnswerFits) and COMMIT publishes them together.  Nothing   *)
(* is published twice, because the row was absent or waiting until then    *)
(* (OldRow), and nothing published is taken back, because a settled row    *)
(* never changes.                                                          *)
(***************************************************************************)
EXTENDS WagerRowProofs, FiniteSetTheorems

\* The initial tables hold the OPENING rows, entries and events.
LEMMA InitMovements == Init => MovementInv
<1> SUFFICES ASSUME Init PROVE MovementInv
  OBVIOUS
<1>1. RowInv
  BY InitRows
<1>2. \A w \in Wallet : /\ w \in TxId /\ w \notin Cmd /\ WalletInfo[w].opening \in Nat
                        /\ Req(w) = OpeningRequest(w)
  BY WalletAssumption, RequestAssumption DEF TxId, Req
<1>3. \A t \in TxId : txs[t] = IF t \in OpenAtStart THEN OpeningRow(t) ELSE NoRow
  BY DEF Init
<1>4. ASSUME NEW w \in Wallet, NEW i \in 1..Len(ledger[w])
      PROVE  /\ w \in OpenAtStart /\ HasOpeningBalance(w) /\ i = 1
             /\ ledger[w][i] = Entry(w, "CREDIT", 0)
  BY <1>4 DEF Init, OpeningEntry
<1>5. \A w \in Wallet : HasOpeningBalance(w) =>
        /\ OpeningRow(w).status = "PROCESSED" /\ OpeningRow(w).reference = None
        /\ OpeningRow(w).observed = WalletInfo[w].opening
        /\ Moves(w, OpeningRow(w)) /\ EntryOf(Entry(w, "CREDIT", 0), w, OpeningRow(w))
        /\ Entry(w, "CREDIT", 0).tx = w
  <2> TAKE w \in Wallet
  <2> HAVE HasOpeningBalance(w)
  <2>1. /\ OpeningRow(w).status = "PROCESSED" /\ OpeningRow(w).reference = None
        /\ OpeningRow(w).observed = WalletInfo[w].opening
    BY DEF OpeningRow, ProcessedRow, PendingRow, NoRow
  <2>2. Req(w).kind = "OPENING" /\ Req(w).amount = WalletInfo[w].opening
    BY <1>2 DEF OpeningRequest
  <2>3. EntryOf(Entry(w, "CREDIT", 0), w, OpeningRow(w))
    BY <1>2, <2>1, <2>2 DEF EntryOf, Entry, SignedAmount, LedgerDirection
  <2> QED BY <2>1, <2>2, <2>3 DEF Moves, AffectsBalance, Entry
<1>6. \A w \in Wallet : ~HasOpeningBalance(w) => OpeningRow(w) = NoRow
  BY DEF OpeningRow
<1>7. EntriesFit
  <2> SUFFICES ASSUME NEW w \in Wallet, NEW i \in 1..Len(ledger[w])
               PROVE  LET t == ledger[w][i].tx IN
                        /\ Moves(t, txs[t]) /\ Req(t).wallet = w
                        /\ EntryOf(ledger[w][i], t, txs[t])
    BY DEF EntriesFit
  <2> QED BY <1>2, <1>3, <1>4, <1>5 DEF OpeningRequest
<1>8. EntriesDiffer
  BY <1>4 DEF EntriesDiffer
<1>9. MovementsEntered
  <2> SUFFICES ASSUME NEW t \in TxId, Moves(t, txs[t])
               PROVE  \E i \in 1..Len(ledger[Req(t).wallet]) : ledger[Req(t).wallet][i].tx = t
    BY DEF MovementsEntered
  <2>1. t \in OpenAtStart /\ t \in Wallet
    BY <1>3, WalletAssumption DEF Moves, NoRow
  <2>2. HasOpeningBalance(t)
    BY <1>3, <1>6, <2>1 DEF Moves, NoRow
  <2>3. ledger[t] = <<Entry(t, "CREDIT", 0)>> /\ Req(t).wallet = t
    BY <1>2, <2>1, <2>2 DEF Init, OpeningEntry, OpeningRequest
  <2>4. 1 \in 1..Len(ledger[t]) /\ ledger[t][1].tx = t
    BY <1>5, <2>1, <2>2, <2>3
  <2> QED BY <2>3, <2>4
<1>10. ReversalCompensates
  <2> SUFFICES ASSUME NEW w \in Wallet, NEW i \in 1..Len(ledger[w])
               PROVE  ~RequiresReference(Req(ledger[w][i].tx).kind)
    BY DEF ReversalCompensates
  <2>1. ledger[w][i].tx = w
    BY <1>4, <1>5
  <2> QED BY <1>2, <2>1 DEF OpeningRequest, RequiresReference, ReversalKinds
<1>11. EventsSent
  <2> SUFFICES ASSUME NEW t \in TxId, NEW e \in EventTypes
               PROVE  IF e = "WagerTransactionPendingReference"
                         /\ txs[t].status \notin {"ABSENT", "PENDING_REFERENCE"}
                      THEN outbox[t][e] \in {0, 1}
                      ELSE outbox[t][e] = IF e \in EventsOf(t, txs[t].status) THEN 1 ELSE 0
    BY DEF EventsSent
  <2>1. outbox[t][e] = IF t \in OpenAtStart /\ e \in OpeningEvents(t) THEN 1 ELSE 0
    BY DEF Init
  <2>2. CASE t \in OpenAtStart /\ HasOpeningBalance(t)
    <3>1. t \in Wallet /\ Req(t).kind = "OPENING" /\ txs[t].status = "PROCESSED"
      BY <1>2, <1>3, <1>5, <2>2, WalletAssumption DEF OpeningRequest
    <3> QED BY <2>1, <2>2, <3>1 DEF OpeningEvents, EventsOf, AffectsBalance
  <2>3. CASE ~(t \in OpenAtStart /\ HasOpeningBalance(t))
    <3>1. txs[t].status = "ABSENT"
      BY <1>3, <1>6, <2>3, WalletAssumption DEF NoRow
    <3>2. ~(t \in OpenAtStart /\ e \in OpeningEvents(t))
      BY <2>3 DEF OpeningEvents
    <3> QED BY <2>1, <3>1, <3>2 DEF EventsOf
  <2> QED BY <2>2, <2>3
<1>12. WaitsForReference
  BY <1>3, <1>5, <1>6, WalletAssumption DEF WaitsForReference, NoRow
<1>13. InboxRecordsOutcome
  BY DEF Init, InboxRecordsOutcome
<1>14. \A p \in Proc : MovementWorkOK(p)
  BY DEF Init, MovementWorkOK, MovementFits, MessageFits, AnswerFits, MessageLabels,
         NoWrites, NoReply
<1> QED BY <1>1, <1>7, <1>8, <1>9, <1>10, <1>11, <1>12, <1>13, <1>14
        DEF MovementInv, MovementTablesOK

-----------------------------------------------------------------------------
(* Steps that commit nothing                                               *)

\* It is enough to look at the process that steps.
LEMMA QuietMovements ==
  ASSUME MovementInv, RowInv', NEW p \in Proc, Beside(p), UNCHANGED db,
         MovementWorkOK(p)'
  PROVE  MovementInv'
<1>1. MovementTablesOK'
  BY DEF db, MovementInv, MovementTablesOK, EntriesFit, EntriesDiffer, MovementsEntered,
         ReversalCompensates, EventsSent, WaitsForReference, InboxRecordsOutcome, Committed
<1>2. ASSUME NEW q \in Proc \ {p} PROVE MovementWorkOK(q)'
  <2>1. /\ job'[q] = job[q] /\ buf'[q] = buf[q] /\ ref'[q] = ref[q] /\ pc'[q] = pc[q]
        /\ reply'[q] = reply[q] /\ R(q)' = R(q)
    BY DEF Beside, R
  <2>2. MovementWorkOK(q)
    BY DEF MovementInv
  <2>3. MovementFits(q)'
    BY <2>1, <2>2 DEF MovementWorkOK, MovementFits
  <2>4. MessageFits(q)' /\ AnswerFits(q)'
    BY <2>1, <2>2 DEF db, MovementWorkOK, MessageFits, AnswerFits, Tells, Committed
  <2> QED BY <2>3, <2>4 DEF MovementWorkOK
<1> QED BY <1>1, <1>2 DEF MovementInv

\* A process without an open transaction, and an answer that tells nothing.
LEMMA RestMovements ==
  ASSUME MovementInv, RowInv', NEW p \in Proc, Beside(p), UNCHANGED db,
         buf'[p] = NoWrites, reply'[p].status = "ABSENT",
         pc'[p] \in {"idle", "failed", "lockWallet", "checkWallet", "insertWallet"}
  PROVE  MovementInv'
<1>1. MovementWorkOK(p)'
  BY DEF MovementWorkOK, MovementFits, MessageFits, AnswerFits, MessageLabels, NoWrites,
         TerminalStatuses
<1> QED BY <1>1, QuietMovements

\* The throw of any statement.
LEMMA FailMovements ==
  ASSUME MovementInv, RowInv', NEW p \in Proc, NEW e, Fail(p, e)
  PROVE  MovementInv'
<1>1. /\ Beside(p) /\ UNCHANGED db
      /\ buf'[p] = NoWrites /\ pc'[p] = "failed" /\ reply'[p].status = "ABSENT"
  BY DEF Fail, EndTransaction, Goto, Beside, MovementInv, RowInv, LedgerInv, ControlInv,
         TypeOK, NoReply
<1> QED BY <1>1, RestMovements

\* What is true of p before a row is written.
LEMMA EarlyState ==
  ASSUME MovementInv, NEW p \in Proc,
         pc[p] \in {"checkWallet", "insertWallet", "lockWallet", "findInbox", "replaySeen",
                    "insertInbox", "findKey", "findExternalId", "readWallet",
                    "insertTransaction", "readTransaction"}
  PROVE  /\ buf[p].row = NoRow /\ buf[p].entry = None /\ buf[p].events = {}
         /\ ref[p] = None /\ reply[p].status = "ABSENT"
         /\ buf[p].inbox => job[p].op = "process"
         /\ buf[p] \in Buffers /\ buf[p].wallet = None
<1>1. MovementWorkOK(p) /\ RowWorkOK(p)
  BY DEF MovementInv, RowInv
<1>2. buf[p].row = NoRow /\ ref[p] = None
  BY <1>1 DEF RowWorkOK, MovesForward, WritingLabels
<1>3. buf[p].entry = None /\ buf[p].events = {}
  BY <1>1, <1>2 DEF MovementWorkOK, MovementFits
<1>4. reply[p].status = "ABSENT" /\ (buf[p].inbox => job[p].op = "process")
  BY <1>1 DEF MovementWorkOK, AnswerFits, MessageFits
<1>5. buf[p] \in Buffers /\ buf[p].wallet = None
  BY DEF MovementInv, RowInv, LedgerInv, ControlInv, TypeOK, WalletsOpen
<1> QED BY <1>2, <1>3, <1>4, <1>5

\* The statements before a row is written, when they go on.
LEMMA EarlyMovements ==
  ASSUME MovementInv, RowInv', NEW p \in Proc,
         \/ CheckWallet(p) \/ LockWallet(p) \/ FindInbox(p) \/ InsertInbox(p)
         \/ FindKey(p) \/ FindExternalId(p) \/ ReadWallet(p) \/ InsertTransaction(p)
         \/ ReadTransaction(p) \/ ReplaySeen(p)
  PROVE  MovementInv'
<1> USE DEF MovementInv, RowInv, LedgerInv, ControlInv
<1>1. CASE \E e : Fail(p, e)
  BY <1>1, FailMovements
<1>2. CASE ~\E e : Fail(p, e)
  <2>0. MessageFits(p) /\ MovementFits(p) /\ AnswerFits(p)
    BY DEF MovementWorkOK
  <2>1. CASE CheckWallet(p) \/ LockWallet(p) \/ FindInbox(p) \/ ReadWallet(p)
    <3>1. /\ Beside(p) /\ UNCHANGED <<db, job, buf, ref, reply>>
          /\ pc[p] \in {"checkWallet", "lockWallet", "findInbox", "readWallet"}
          /\ pc'[p] \in {"insertWallet", "readTransaction", "findInbox", "findKey",
                         "replaySeen", "insertInbox", "insertTransaction"}
          /\ pc'[p] \in {"findInbox", "replaySeen", "insertInbox"} =>
               pc[p] \in {"lockWallet", "findInbox"}
      BY <1>2, <2>1 DEF CheckWallet, LockWallet, FindInbox, ReadWallet, Goto, Beside, TypeOK
    <3>2. MovementWorkOK(p)'
      BY <2>0, <3>1, EarlyState DEF MovementWorkOK, MovementFits, MessageFits, AnswerFits,
         MessageLabels
    <3> QED BY <3>1, <3>2, QuietMovements
  <2>2. CASE InsertInbox(p)
    <3>1. /\ UNCHANGED <<db, job, snap, lock, ref, reply>> /\ pc[p] = "insertInbox"
          /\ pc' = [pc EXCEPT ![p] = "findKey"] /\ buf' = [buf EXCEPT ![p].inbox = TRUE]
      BY <1>2, <2>2 DEF InsertInbox, Goto
    <3>2. Beside(p) /\ pc'[p] = "findKey"
      BY <3>1 DEF Beside, TypeOK
    <3>3. /\ buf'[p].row = buf[p].row /\ buf'[p].entry = buf[p].entry
          /\ buf'[p].events = buf[p].events
      BY <3>1, EarlyState DEF TypeOK, Buffers
    <3>4. job[p].op = "process"
      BY <3>1 DEF ControlOK, HandlerLabels
    <3>5. MovementWorkOK(p)'
      BY <3>1, <3>2, <3>3, <3>4, EarlyState DEF MovementWorkOK, MovementFits, MessageFits,
         AnswerFits, MessageLabels
    <3> QED BY <3>1, <3>2, <3>5, QuietMovements
  <2>3. CASE InsertTransaction(p)
    <3>1. /\ UNCHANGED <<db, job, snap, lock, ref, reply>> /\ pc[p] = "insertTransaction"
          /\ pc' = [pc EXCEPT ![p] = "checkForeignKey"]
          /\ buf' = [buf EXCEPT ![p].row = PendingRow]
      BY <1>2, <2>3 DEF InsertTransaction, Goto
    <3>2. Beside(p) /\ pc'[p] = "checkForeignKey"
      BY <3>1 DEF Beside, TypeOK
    <3>3. /\ buf'[p].inbox = buf[p].inbox /\ buf'[p].entry = buf[p].entry
          /\ buf'[p].events = buf[p].events
      BY <3>1, EarlyState DEF TypeOK, Buffers
    <3>5. MovementWorkOK(p)'
      BY <3>1, <3>2, <3>3, EarlyState DEF MovementWorkOK, MovementFits, MessageFits,
         AnswerFits, MessageLabels
    <3> QED BY <3>1, <3>2, <3>5, QuietMovements
  <2>4. CASE ReadTransaction(p)
    <3>1. /\ Beside(p) /\ UNCHANGED <<db, job, ref, reply>> /\ pc[p] = "readTransaction"
          /\ pc'[p] \in {"findReference", "commit"}
          /\ pc'[p] = "commit" => buf' = buf
          /\ \A q \in Proc \ {p} : buf'[q] = buf[q]
          /\ buf'[p].inbox = buf[p].inbox /\ buf'[p].entry = buf[p].entry
          /\ buf'[p].events = buf[p].events
      BY <2>4, EarlyState DEF ReadTransaction, Goto, Beside, TypeOK, Buffers
    <3>2. job[p].op = "reprocess"
      BY <3>1 DEF ControlOK
    <3>3. MovementWorkOK(p)'
      BY <3>1, <3>2, EarlyState DEF MovementWorkOK, MovementFits, MessageFits,
         AnswerFits, MessageLabels, TerminalStatuses
    <3> QED BY <3>1, <3>3, QuietMovements
  <2>5. ASSUME NEW t \in Committed, Answer(p, Replay(t)), Goto(p, "commit"),
               UNCHANGED <<db, job, snap, ref, lock, buf>>,
               pc[p] \in {"findKey", "findExternalId", "replaySeen"},
               Payload(Req(t)) = Payload(R(p)) \/ pc[p] = "replaySeen"
        PROVE  MovementInv'
    <3>1. Beside(p) /\ pc'[p] = "commit"
      BY <2>5 DEF Answer, Goto, Beside, TypeOK
    <3>2. job[p].op = "process" /\ t \in TxId
      BY <2>5 DEF ControlOK, HandlerLabels, Committed
    <3>3. reply'[p] = Replay(t)
      BY <2>5, <3>2 DEF Answer, TypeOK
    <3>4. Tells(Replay(t), txs[t]) /\ Replay(t).tx = t
      BY DEF Tells, Replay
    <3>5. AnswerFits(p)'
      BY <2>5, <3>1, <3>2, <3>3, <3>4, EarlyState DEF AnswerFits, Tells, db
    <3>6. MovementFits(p)'
      BY <2>5, <3>1, EarlyState DEF MovementFits
    <3>7. MessageFits(p)'
      BY <2>0, <2>5, <3>1, <3>2 DEF MessageFits, MessageLabels, Committed, R, db
    <3> QED BY <2>5, <3>1, <3>5, <3>6, <3>7, QuietMovements DEF MovementWorkOK
  <2>6. ASSUME Goto(p, "findExternalId") \/ Goto(p, "readWallet"),
               UNCHANGED <<db, job, snap, ref, lock, buf, reply>>,
               pc[p] \in {"findKey", "findExternalId"}
        PROVE  MovementInv'
    <3>1. Beside(p) /\ pc'[p] \in {"findExternalId", "readWallet"}
      BY <2>6 DEF Goto, Beside, TypeOK
    <3>2. MovementWorkOK(p)'
      BY <2>6, <3>1, EarlyState DEF MovementWorkOK, MovementFits, MessageFits, AnswerFits,
         MessageLabels
    <3> QED BY <2>6, <3>1, <3>2, QuietMovements
  <2>7. CASE FindKey(p)
    BY <1>2, <2>5, <2>6, <2>7 DEF FindKey, ReplayOrConflict, FindByIdempotencyKey
  <2>8. CASE FindExternalId(p)
    BY <1>2, <2>5, <2>6, <2>8 DEF FindExternalId, ReplayOrConflict,
       FindByProviderAndExternalId
  <2>9. CASE ReplaySeen(p)
    BY <1>2, <2>5, <2>9 DEF ReplaySeen, FindByIdempotencyKey
  <2> QED BY <2>1, <2>2, <2>3, <2>4, <2>7, <2>8, <2>9
<1> QED BY <1>1, <1>2

\* The steps around a unit of work.
LEMMA AroundMovements ==
  ASSUME MovementInv, RowInv',
         \/ \E h \in Handler : \/ \E c \in Cmd : Submit(h, c)
                               \/ \E w \in Wallet : CreateWallet(h, w)
         \/ \E k \in Worker : ListDue(k) \/ ReprocessNext(k)
         \/ \E p \in Proc : Return(p) \/ Crash(p)
  PROVE  MovementInv'
<1> USE DEF MovementInv, RowInv, LedgerInv, ControlInv
<1>1. \A p \in Proc : pc[p] \in AtRest => buf[p] = NoWrites
  BY DEF ControlOK
<1>2. Handler \subseteq Proc /\ Worker \subseteq Proc
  BY DEF Proc
<1>3. \A p \in Proc : pc[p] = "idle" => reply[p].status = "ABSENT"
  BY DEF MovementWorkOK, AnswerFits
<1>4. ASSUME NEW h \in Handler,
             (\E c \in Cmd : Submit(h, c)) \/ (\E w \in Wallet : CreateWallet(h, w))
      PROVE  MovementInv'
  BY <1>1, <1>2, <1>3, <1>4, RestMovements
  DEF Submit, CreateWallet, Beside, TypeOK, AtRest, Goto
<1>5. ASSUME NEW k \in Worker, ListDue(k) PROVE MovementInv'
  BY <1>1, <1>2, <1>3, <1>5, RestMovements DEF ListDue, Beside, TypeOK, AtRest
<1>6. ASSUME NEW k \in Worker, ReprocessNext(k) PROVE MovementInv'
  BY <1>1, <1>2, <1>3, <1>6, RestMovements DEF ReprocessNext, Beside, TypeOK, AtRest, Goto
<1>7. ASSUME NEW p \in Proc, Return(p) PROVE MovementInv'
  BY <1>1, <1>7, RestMovements DEF Return, Beside, TypeOK, AtRest, Goto, NoReply
<1>8. ASSUME NEW p \in Proc, Crash(p) PROVE MovementInv'
  <2>1. /\ Beside(p) /\ UNCHANGED db
        /\ buf'[p] = NoWrites /\ pc'[p] = "idle" /\ reply'[p].status = "ABSENT"
    BY <1>8 DEF Crash, EndTransaction, Goto, Beside, TypeOK, NoReply
  <2> QED BY <2>1, RestMovements
<1> QED BY <1>4, <1>5, <1>6, <1>7, <1>8

-----------------------------------------------------------------------------
(* Steps that decide                                                       *)

\* A statement between the row and its decision.
LEMMA KeepMovements ==
  ASSUME MovementInv, RowInv', NEW p \in Proc, pc[p] \in WritingLabels, Beside(p),
         UNCHANGED <<db, job, buf, reply>>,
         pc'[p] \in WritingLabels \ {"checkForeignKey"},
         pc'[p] = "findReversal" => ref'[p] # None,
         pc'[p] \in {"apply", "saveWallet"} /\ RequiresReference(R(p).kind) =>
           ref'[p] # None,
         pc'[p] = "saveWallet" => AffectsBalance(R(p).kind)
  PROVE  MovementInv'
<1>1. MovementWorkOK(p) /\ R(p)' = R(p)
  BY DEF MovementInv, R
<1>2. MovementWorkOK(p)'
  BY <1>1 DEF MovementWorkOK, MovementFits, MessageFits, AnswerFits, WritingLabels,
     MessageLabels
<1> QED BY <1>2, QuietMovements

\* A statement that decides: the row, its entry, its events and the answer.
LEMMA DecideMovements ==
  ASSUME MovementInv, RowInv', NEW p \in Proc, pc[p] \in WritingLabels, Beside(p),
         UNCHANGED <<db, job, ref>>, pc'[p] = "commit",
         NEW row, row # NoRow, buf'[p].row = row,
         buf'[p].inbox = buf[p].inbox,
         buf'[p].entry # None <=> Moves(job[p].id, row),
         buf'[p].entry # None => EntryOf(buf'[p].entry, job[p].id, row),
         Settled(job[p].id, row),
         buf'[p].events =
           IF row.status = "PENDING_REFERENCE" /\ job[p].op = "reprocess"
           THEN {} ELSE EventsOf(job[p].id, row.status),
         row.status = "PENDING_REFERENCE" =>
           row.observed = NoBalance /\ row.failure = NoFailure,
         \/ reply'[p] = reply[p]
         \/ row.status = "PENDING_REFERENCE" /\ reply'[p].status = row.status
         \/ reply'[p].tx = job[p].id /\ Tells(reply'[p], row)
  PROVE  MovementInv'
<1> USE DEF MovementInv, RowInv, LedgerInv, ControlInv
<1>1. MovementFits(p) /\ MessageFits(p) /\ AnswerFits(p) /\ R(p)' = R(p)
  BY DEF MovementWorkOK, R
<1>2. job[p].id \in TxId
  BY UndecidedRow, JobIds
<1>3. MovementFits(p)'
  BY DEF MovementFits
<1>4. MessageFits(p)'
  BY <1>1 DEF MessageFits, MessageLabels
<1>5. AnswerFits(p)'
  <2>1. reply[p].status = "ABSENT"
    BY <1>1 DEF AnswerFits, WritingLabels
  <2> QED BY <1>2, <2>1 DEF AnswerFits, TerminalStatuses, Tells
<1> QED BY <1>3, <1>4, <1>5, QuietMovements DEF MovementWorkOK

\* What is true of p while it decides.
LEMMA DecidingState ==
  ASSUME MovementInv, NEW p \in Proc, pc[p] \in WritingLabels
  PROVE  /\ buf[p] \in Buffers /\ buf[p].row \in Rows
         /\ buf[p].entry = None /\ buf[p].events = {}
         /\ job[p].id \in TxId /\ job[p].op \in {"process", "reprocess"}
         /\ snap[p] # None /\ snap[p] \in WalletRows
         /\ buf[p].row.reference = None /\ buf[p].row.observed = NoBalance
         /\ buf[p].row.failure = NoFailure
         /\ buf[p].row.status = IF job[p].op = "reprocess" THEN "PENDING_REFERENCE"
                                                         ELSE "PENDING"
<1> USE DEF MovementInv, RowInv, LedgerInv, ControlInv
<1>1. buf[p] \in Buffers /\ buf[p].row \in Rows
  BY DEF TypeOK, Buffers
<1>2. buf[p].entry = None /\ buf[p].events = {}
  BY DEF MovementWorkOK, MovementFits, WritingLabels
<1>3. job[p].id \in TxId /\ job[p].op \in {"process", "reprocess"}
  BY UndecidedRow, JobIds
<1>4. snap[p] # None /\ snap[p] \in WalletRows
  <2>1. snap[p] # None
    BY DEF ControlOK, DecidingLabels, WritingLabels
  <2> QED BY <2>1 DEF TypeOK
<1>5. buf[p].row.reference = None /\ buf[p].row = BeforeDecision(p)
  BY UndecidedRow
<1>6. CASE job[p].op = "reprocess"
  BY <1>1, <1>2, <1>3, <1>4, <1>5, <1>6, UndecidedRow
  DEF BeforeDecision, MovementTablesOK, WaitsForReference
<1>7. CASE job[p].op = "process"
  BY <1>1, <1>2, <1>3, <1>4, <1>5, <1>7 DEF BeforeDecision, PendingRow, NoRow
<1> QED BY <1>3, <1>6, <1>7

\* The answer that goes with a decided row, with the balance b it observed.
LEMMA AnswerTells ==
  ASSUME NEW p \in Proc, NEW row, NEW b,
         row.observed = Observed(p, b) \/ row.observed = b
  PROVE  /\ Persisted(job[p].id, row, b).tx = job[p].id
         /\ Tells(Persisted(job[p].id, row, b), row)
BY DEF Persisted, Tells, Observed, W, R

LEMMA RejectMovements ==
  ASSUME MovementInv, RowInv', NEW p \in Proc, pc[p] \in WritingLabels, NEW code,
         Reject(p, code), UNCHANGED <<db, job, snap, ref, lock>>
  PROVE  MovementInv'
<1> USE DEF MovementInv, RowInv, LedgerInv, ControlInv
<1> DEFINE row == [RejectedRow(buf[p].row, code) EXCEPT
                     !.observed = Observed(p, snap[p].balance)]
<1>1. row.status = "REJECTED" /\ row.observed = Observed(p, snap[p].balance)
  BY DecidingState DEF RejectedRow, Rows
<1> HIDE DEF row
<1>2. /\ buf' = [buf EXCEPT ![p].row = row, ![p].events = {"WagerTransactionRejected"}]
      /\ pc' = [pc EXCEPT ![p] = "commit"]
      /\ Answer(p, Persisted(job[p].id, row, snap[p].balance))
  BY DEF Reject, row, Goto
<1>3. /\ \A q \in Proc \ {p} : reply'[q] = reply[q]
      /\ reply'[p] \in {reply[p], Persisted(job[p].id, row, snap[p].balance)}
  BY <1>2 DEF Answer, TypeOK
<1>4. /\ Beside(p) /\ pc'[p] = "commit"
      /\ buf'[p].row = row /\ buf'[p].inbox = buf[p].inbox /\ buf'[p].entry = None
      /\ buf'[p].events = {"WagerTransactionRejected"}
  BY <1>2, <1>3, DecidingState DEF Beside, TypeOK, Buffers
<1>5. row # NoRow /\ ~Moves(job[p].id, row) /\ Settled(job[p].id, row)
  BY <1>1 DEF NoRow, Moves, Settled
<1>6. EventsOf(job[p].id, row.status) = {"WagerTransactionRejected"}
  BY <1>1 DEF EventsOf
<1>7. \/ reply'[p] = reply[p]
      \/ reply'[p].tx = job[p].id /\ Tells(reply'[p], row)
  BY <1>1, <1>3, AnswerTells
<1> QED BY <1>1, <1>4, <1>5, <1>6, <1>7, DecideMovements

LEMMA FindReferenceMovements ==
  ASSUME MovementInv, RowInv', NEW p \in Proc, FindReference(p)
  PROVE  MovementInv'
<1> USE DEF MovementInv, RowInv, LedgerInv, ControlInv
<1>1. /\ pc[p] = "findReference" /\ pc[p] \in WritingLabels
      /\ UNCHANGED <<db, job, snap, lock>>
  BY DEF FindReference, WritingLabels
<1>2. CASE ParkReversal(p) /\ Goto(p, "commit") /\ UNCHANGED ref
  <2> DEFINE row == [buf[p].row EXCEPT !.status = "PENDING_REFERENCE"]
  <2>1. /\ row.status = "PENDING_REFERENCE" /\ row.observed = NoBalance
        /\ row.failure = NoFailure
    BY <1>1, DecidingState DEF Rows
  <2> HIDE DEF row
  <2>2. /\ buf' = [buf EXCEPT ![p].row = row,
                              ![p].events = {"WagerTransactionPendingReference"}]
        /\ pc' = [pc EXCEPT ![p] = "commit"] /\ job[p].op = "process"
        /\ Answer(p, Persisted(job[p].id, row, NoBalance))
    BY <1>2 DEF ParkReversal, row, Goto
  <2>3. /\ \A q \in Proc \ {p} : reply'[q] = reply[q]
        /\ reply'[p].status = row.status
    BY <2>2 DEF Answer, TypeOK, Persisted
  <2>4. /\ Beside(p) /\ pc'[p] = "commit"
        /\ buf'[p].row = row /\ buf'[p].inbox = buf[p].inbox /\ buf'[p].entry = None
        /\ buf'[p].events = {"WagerTransactionPendingReference"}
    BY <1>1, <1>2, <2>2, <2>3, DecidingState DEF Beside, TypeOK, Buffers
  <2>5. row # NoRow /\ ~Moves(job[p].id, row) /\ Settled(job[p].id, row)
    BY <2>1 DEF NoRow, Moves, Settled
  <2>6. EventsOf(job[p].id, row.status) = {"WagerTransactionPendingReference"}
    BY <2>1 DEF EventsOf
  <2> QED BY <1>1, <1>2, <2>1, <2>2, <2>3, <2>4, <2>5, <2>6, DecideMovements
<1>3. CASE RetryReversal(p) /\ Goto(p, "commit") /\ UNCHANGED ref
  <2> DEFINE row == CountAttempt(buf[p].row)
             rejected == RejectedRow(row, "REFERENCE_NOT_FOUND")
  <2>1. /\ row.status = buf[p].row.status /\ row.observed = NoBalance
        /\ row.failure = NoFailure /\ rejected.status = "REJECTED"
    BY <1>1, DecidingState DEF CountAttempt, RejectedRow, Rows
  <2>2. /\ \/ buf' = [buf EXCEPT ![p].row = rejected,
                                 ![p].events = {"WagerTransactionRejected"}]
           \/ buf' = [buf EXCEPT ![p].row = row]
        /\ pc' = [pc EXCEPT ![p] = "commit"] /\ job[p].op = "reprocess"
        /\ UNCHANGED reply
    BY <1>3 DEF RetryReversal, Goto
  <2>3. row.status = "PENDING_REFERENCE"
    BY <1>1, <2>1, <2>2, DecidingState
  <2> HIDE DEF row, rejected
  <2>4. CASE buf' = [buf EXCEPT ![p].row = row]
    <3>1. /\ Beside(p) /\ pc'[p] = "commit"
          /\ buf'[p].row = row /\ buf'[p].inbox = buf[p].inbox /\ buf'[p].entry = None
          /\ buf'[p].events = {}
      BY <1>1, <1>3, <2>2, <2>4, DecidingState DEF Beside, TypeOK, Buffers
    <3>2. row # NoRow /\ ~Moves(job[p].id, row) /\ Settled(job[p].id, row)
      BY <2>3 DEF NoRow, Moves, Settled
    <3> QED BY <1>1, <1>3, <2>1, <2>2, <2>3, <3>1, <3>2, DecideMovements
  <2>5. CASE buf' = [buf EXCEPT ![p].row = rejected,
                                ![p].events = {"WagerTransactionRejected"}]
    <3>1. /\ Beside(p) /\ pc'[p] = "commit"
          /\ buf'[p].row = rejected /\ buf'[p].inbox = buf[p].inbox /\ buf'[p].entry = None
          /\ buf'[p].events = {"WagerTransactionRejected"}
      BY <1>1, <1>3, <2>2, <2>5, DecidingState DEF Beside, TypeOK, Buffers
    <3>2. rejected # NoRow /\ ~Moves(job[p].id, rejected) /\ Settled(job[p].id, rejected)
      BY <2>1 DEF NoRow, Moves, Settled
    <3>3. EventsOf(job[p].id, rejected.status) = {"WagerTransactionRejected"}
      BY <2>1 DEF EventsOf
    <3> QED BY <1>1, <1>3, <2>1, <2>2, <3>1, <3>2, <3>3, DecideMovements
  <2> QED BY <2>2, <2>4, <2>5
<1>4. ASSUME NEW t \in UsableReference(p), Reject(p, ReferenceFailure(R(p), Req(t))),
             UNCHANGED ref
      PROVE  MovementInv'
  BY <1>1, <1>4, RejectMovements
<1>5. ASSUME NEW t \in UsableReference(p), ref' = [ref EXCEPT ![p] = t],
             Goto(p, "findReversal"), UNCHANGED <<buf, reply>>
      PROVE  MovementInv'
  <2>1. t # None
    BY WalletAssumption DEF UsableReference, FindByProviderAndExternalId, Committed
  <2>2. Beside(p) /\ pc'[p] = "findReversal" /\ ref'[p] = t
    BY <1>1, <1>5 DEF Beside, TypeOK, Goto
  <2> QED BY <1>1, <1>5, <2>1, <2>2, KeepMovements DEF WritingLabels
<1> QED BY <1>2, <1>3, <1>4, <1>5 DEF FindReference

\* The foreign-key check and the search for an earlier reversal.
LEMMA BetweenMovements ==
  ASSUME MovementInv, RowInv', NEW p \in Proc, CheckForeignKey(p) \/ FindReversal(p)
  PROVE  MovementInv'
<1> USE DEF MovementInv, RowInv, LedgerInv, ControlInv
<1>1. CASE CheckForeignKey(p)
  <2>1. /\ pc[p] = "checkForeignKey" /\ Beside(p) /\ UNCHANGED <<db, job, buf, ref, reply>>
        /\ pc'[p] = IF RequiresReference(R(p).kind) THEN "findReference" ELSE "apply"
    BY <1>1 DEF CheckForeignKey, Goto, Beside, TypeOK
  <2> QED BY <2>1, KeepMovements DEF WritingLabels
<1>2. CASE FindReversal(p)
  <2>1. pc[p] = "findReversal" /\ UNCHANGED <<db, job, snap, ref, lock>>
    BY <1>2 DEF FindReversal
  <2>2. CASE Reject(p, "ALREADY_REVERSED")
    BY <2>1, <2>2, RejectMovements DEF WritingLabels
  <2>3. CASE Goto(p, "apply") /\ UNCHANGED <<buf, reply>>
    <3>1. Beside(p) /\ pc'[p] = "apply"
      BY <2>1, <2>3 DEF Beside, TypeOK, Goto
    <3>2. RequiresReference(R(p).kind) => ref[p] # None
      BY <2>1 DEF MovementWorkOK, MovementFits
    <3> QED BY <2>1, <2>3, <3>1, <3>2, KeepMovements DEF WritingLabels
  <2> QED BY <1>2, <2>2, <2>3 DEF FindReversal
<1> QED BY <1>1, <1>2

LEMMA ApplyMovements ==
  ASSUME MovementInv, RowInv', NEW p \in Proc, Apply(p)
  PROVE  MovementInv'
<1> USE DEF MovementInv, RowInv, LedgerInv, ControlInv
<1> DEFINE row == ProcessedRow(buf[p].row, ref[p], Observed(p, snap[p].balance))
<1>1. /\ pc[p] = "apply" /\ pc[p] \in WritingLabels
      /\ UNCHANGED <<db, job, snap, ref, lock>>
  BY DEF Apply, WritingLabels
<1>2. ASSUME NEW code, Reject(p, code) PROVE MovementInv'
  BY <1>1, <1>2, RejectMovements
<1>3. CASE AffectsBalance(R(p).kind) /\ Goto(p, "saveWallet") /\ UNCHANGED <<buf, reply>>
  <2>1. Beside(p) /\ pc'[p] = "saveWallet"
    BY <1>1, <1>3 DEF Beside, TypeOK, Goto
  <2>2. RequiresReference(R(p).kind) => ref[p] # None
    BY <1>1 DEF MovementWorkOK, MovementFits
  <2> QED BY <1>1, <1>3, <2>1, <2>2, KeepMovements DEF WritingLabels
<1>4. CASE /\ ~AffectsBalance(R(p).kind)
           /\ buf' = [buf EXCEPT ![p].row = row,
                                 ![p].events = {"WagerTransactionProcessed"}]
           /\ Answer(p, Persisted(job[p].id, row, snap[p].balance))
           /\ Goto(p, "commit")
  <2>1. row.status = "PROCESSED" /\ row.observed = Observed(p, snap[p].balance)
    BY <1>1, DecidingState DEF ProcessedRow, Rows
  <2> HIDE DEF row
  <2>2. /\ \A q \in Proc \ {p} : reply'[q] = reply[q]
        /\ reply'[p] \in {reply[p], Persisted(job[p].id, row, snap[p].balance)}
        /\ pc' = [pc EXCEPT ![p] = "commit"]
    BY <1>4 DEF Answer, TypeOK, Goto
  <2>3. /\ Beside(p) /\ pc'[p] = "commit"
        /\ buf'[p].row = row /\ buf'[p].inbox = buf[p].inbox /\ buf'[p].entry = None
        /\ buf'[p].events = {"WagerTransactionProcessed"}
    BY <1>1, <1>4, <2>2, DecidingState DEF Beside, TypeOK, Buffers
  <2>4. /\ row # NoRow /\ ~Moves(job[p].id, row) /\ Settled(job[p].id, row)
        /\ EventsOf(job[p].id, row.status) = {"WagerTransactionProcessed"}
    BY <1>4, <2>1 DEF NoRow, Moves, Settled, EventsOf, R, AffectsBalance, RequiresReference,
       ReversalKinds
  <2>5. \/ reply'[p] = reply[p]
        \/ reply'[p].tx = job[p].id /\ Tells(reply'[p], row)
    BY <2>1, <2>2, AnswerTells
  <2> QED BY <1>1, <2>1, <2>3, <2>4, <2>5, DecideMovements
<1> QED BY <1>2, <1>3, <1>4 DEF Apply

LEMMA SaveWalletMovements ==
  ASSUME MovementInv, RowInv', NEW p \in Proc, SaveWallet(p)
  PROVE  MovementInv'
<1> USE DEF MovementInv, RowInv, LedgerInv, ControlInv
<1> DEFINE entry == Entry(job[p].id, Direction(p), snap[p].balance)
           row == ProcessedRow(buf[p].row, ref[p], entry.after)
           wallet == [open |-> TRUE, balance |-> entry.after,
                      version |-> snap[p].version + 1]
           events == {"WagerTransactionProcessed", "WalletBalanceChanged"}
<1>1. CASE \E e : Fail(p, e)
  BY <1>1, FailMovements
<1>2. CASE ~\E e : Fail(p, e)
  <2>1. /\ pc[p] = "saveWallet" /\ pc[p] \in WritingLabels
        /\ buf' = [buf EXCEPT ![p].row = row, ![p].wallet = wallet, ![p].entry = entry,
                              ![p].events = events]
        /\ lock' = [lock EXCEPT ![p] = IF @ = "Update" THEN @ ELSE "NoKeyUpdate"]
        /\ UNCHANGED <<db, job, snap, ref>>
        /\ Answer(p, Persisted(job[p].id, row, entry.after))
        /\ pc' = [pc EXCEPT ![p] = "commit"]
    BY <1>2 DEF SaveWallet, Goto, WritingLabels
  <2>2. row.status = "PROCESSED" /\ row.observed = entry.after /\ row.reference = ref[p]
    <3> HIDE DEF entry
    <3> QED BY <2>1, DecidingState DEF ProcessedRow, Rows
  <2>3. entry # None
    <3>1. MovementFailure(R(p), Direction(p), snap[p].balance,
                          WalletInfo[W(p)].currency) = NoFailure
      BY <2>1 DEF ControlOK
    <3>2. Direction(p) \in {"CREDIT", "DEBIT"} /\ snap[p].balance \in Nat
      BY <2>1, DecidingState DEF Direction, LedgerDirection, WalletRows
    <3>3. entry \in Entries
      BY <2>1, <3>1, <3>2, DecidingState, AcceptedMovement DEF R
    <3> HIDE DEF entry
    <3> QED BY <3>3, NullAssumption
  <2>4. EntryOf(entry, job[p].id, row)
    <3>1. /\ entry.tx = job[p].id /\ entry.amount = Req(job[p].id).amount
          /\ entry.direction = Direction(p)
      BY DEF Entry
    <3>2. Direction(p) = LedgerDirection(Req(job[p].id).kind, KindOf(ref[p]))
      BY DEF Direction, R, KindOf
    <3> HIDE DEF entry, row
    <3> QED BY <2>2, <3>1, <3>2 DEF EntryOf
  <2>5. /\ AffectsBalance(R(p).kind)
        /\ RequiresReference(R(p).kind) => ref[p] # None
    BY <2>1 DEF MovementWorkOK, MovementFits
  <2> HIDE DEF entry, row, wallet
  <2>6. /\ row # NoRow /\ Moves(job[p].id, row) /\ Settled(job[p].id, row)
        /\ EventsOf(job[p].id, row.status) = events
    BY <2>2, <2>5 DEF NoRow, Moves, Settled, EventsOf, R
  <2>7. /\ \A q \in Proc \ {p} : reply'[q] = reply[q] /\ lock'[q] = lock[q]
        /\ reply'[p] \in {reply[p], Persisted(job[p].id, row, entry.after)}
    BY <2>1 DEF Answer, TypeOK
  <2> HIDE DEF events
  <2>8. /\ Beside(p) /\ pc'[p] = "commit"
        /\ buf'[p].row = row /\ buf'[p].inbox = buf[p].inbox /\ buf'[p].entry = entry
        /\ buf'[p].events = events
    BY <2>1, <2>7, DecidingState DEF Beside, TypeOK, Buffers
  <2>9. \/ reply'[p] = reply[p]
        \/ reply'[p].tx = job[p].id /\ Tells(reply'[p], row)
    BY <2>2, <2>7, AnswerTells
  <2> QED BY <2>1, <2>2, <2>3, <2>4, <2>6, <2>8, <2>9, DecideMovements
<1> QED BY <1>1, <1>2

\* The OPENING row, entry and events of a wallet.
LEMMA InsertWalletMovements ==
  ASSUME MovementInv, RowInv', NEW p \in Proc, InsertWallet(p)
  PROVE  MovementInv'
<1> USE DEF MovementInv, RowInv, LedgerInv, ControlInv
<1> DEFINE w == W(p)
<1>1. CASE Fail(p, "WalletAlreadyExists")
  BY <1>1, FailMovements
<1>2. CASE ~Fail(p, "WalletAlreadyExists")
  <2>1. /\ pc[p] = "insertWallet"
        /\ UNCHANGED <<db, job, ref, snap, lock, reply>>
        /\ buf' = [buf EXCEPT ![p] = [NoWrites EXCEPT !.row = OpeningRow(w),
                                        !.wallet = OpenedWallet(w),
                                        !.entry = OpeningEntry(w),
                                        !.events = OpeningEvents(w)]]
        /\ pc' = [pc EXCEPT ![p] = "commit"]
    BY <1>2 DEF InsertWallet, Goto
  <2>2. /\ Beside(p) /\ pc'[p] = "commit"
        /\ buf'[p].row = OpeningRow(w) /\ buf'[p].entry = OpeningEntry(w)
        /\ buf'[p].events = OpeningEvents(w) /\ ~buf'[p].inbox
    BY <2>1 DEF Beside, TypeOK, NoWrites
  <2>3. /\ job[p].op = "create" /\ w \in Wallet /\ job[p].id = w
        /\ WalletInfo[w].opening \in Nat /\ Req(w) = OpeningRequest(w)
    <3>1. job[p].op = "create"
      BY <2>1 DEF ControlOK
    <3>2. w \in Wallet /\ job[p].id = w
      BY <3>1, JobIds
    <3> QED BY <3>1, <3>2, WalletAssumption, RequestAssumption DEF Req
  <2>4. reply[p].status = "ABSENT"
    BY <2>1, EarlyState
  <2>5. CASE HasOpeningBalance(w)
    <3>1. /\ OpeningRow(w).status = "PROCESSED" /\ OpeningRow(w).reference = None
          /\ OpeningRow(w).observed = WalletInfo[w].opening
      BY <2>5 DEF OpeningRow, ProcessedRow, PendingRow, NoRow
    <3>2. OpeningEntry(w) # None
      BY <2>3, <2>5, OpeningRows, NullAssumption
    <3>3. Req(w).kind = "OPENING" /\ Req(w).amount = WalletInfo[w].opening
      BY <2>3 DEF OpeningRequest
    <3>4. EntryOf(OpeningEntry(w), w, OpeningRow(w))
      BY <2>3, <2>5, <3>1, <3>3 DEF EntryOf, OpeningEntry, Entry, SignedAmount,
         LedgerDirection
    <3>5. /\ Moves(w, OpeningRow(w)) /\ Settled(w, OpeningRow(w))
          /\ OpeningEvents(w) = EventsOf(w, OpeningRow(w).status)
          /\ OpeningRow(w) # NoRow
      BY <2>5, <3>1, <3>3 DEF Moves, Settled, OpeningEvents, EventsOf, AffectsBalance,
         RequiresReference, ReversalKinds, NoRow
    <3>6. MovementWorkOK(p)'
      BY <2>1, <2>2, <2>3, <2>4, <3>1, <3>2, <3>4, <3>5
      DEF MovementWorkOK, MovementFits, MessageFits, AnswerFits, MessageLabels,
          TerminalStatuses
    <3> QED BY <2>1, <2>2, <3>6, QuietMovements
  <2>6. CASE ~HasOpeningBalance(w)
    <3>1. OpeningRow(w) = NoRow /\ OpeningEntry(w) = None /\ OpeningEvents(w) = {}
      BY <2>6 DEF OpeningRow, OpeningEntry, OpeningEvents
    <3>2. MovementWorkOK(p)'
      BY <2>1, <2>2, <2>3, <2>4, <3>1
      DEF MovementWorkOK, MovementFits, MessageFits, AnswerFits, MessageLabels,
          TerminalStatuses
    <3> QED BY <2>1, <2>2, <3>2, QuietMovements
  <2> QED BY <2>5, <2>6
<1> QED BY <1>1, <1>2

-----------------------------------------------------------------------------
(* COMMIT                                                                  *)

\* What COMMIT does to the ledger: at most one entry, at the end.
LEMMA CommitEntry ==
  ASSUME MovementInv, NEW p \in Proc, Commit(p)
  PROVE  /\ buf[p].entry # None =>
              /\ buf[p].row # NoRow /\ Moves(job[p].id, buf[p].row)
              /\ EntryOf(buf[p].entry, job[p].id, buf[p].row)
         /\ buf[p].entry = None =>
              buf[p].row = NoRow \/ ~Moves(job[p].id, buf[p].row)
         /\ \A w \in Wallet :
              /\ Len(ledger[w]) \in Nat
              /\ \A i \in 1..Len(ledger[w]) :
                   i \in 1..Len(ledger'[w]) /\ ledger'[w][i] = ledger[w][i]
              /\ \A i \in 1..Len(ledger'[w]) :
                   \/ i \in 1..Len(ledger[w])
                   \/ /\ w = W(p) /\ buf[p].entry # None
                      /\ i = Len(ledger[w]) + 1 /\ ledger'[w][i] = buf[p].entry
         /\ buf[p].entry # None =>
              /\ Len(ledger[W(p)]) + 1 \in 1..Len(ledger'[W(p)])
              /\ ledger'[W(p)][Len(ledger[W(p)]) + 1] = buf[p].entry
         /\ \A s \in TxId : txs[s].status = "PROCESSED" => txs'[s] = txs[s]
<1> USE DEF MovementInv, RowInv, LedgerInv, ControlInv
<1>1. pc[p] = "commit" /\ MovementFits(p) /\ W(p) \in Wallet
  BY CommitEffect DEF MovementWorkOK
<1>2. ledger' = IF buf[p].entry # None
                THEN [ledger EXCEPT ![W(p)] = Append(@, buf[p].entry)] ELSE ledger
  BY DEF Commit
<1>3. \A w \in Wallet : ledger[w] \in Seq(Entries)
  BY DEF TypeOK
<1>4. \A w \in Wallet : Len(ledger[w]) \in Nat
  BY <1>3
<1>5. \A w \in Wallet : w # W(p) \/ buf[p].entry = None => ledger'[w] = ledger[w]
  BY <1>1, <1>2 DEF TypeOK
<1>6. ASSUME buf[p].entry # None
      PROVE  /\ buf[p].entry \in Entries
             /\ ledger'[W(p)] = Append(ledger[W(p)], buf[p].entry)
  BY <1>1, <1>2, <1>6 DEF TypeOK, Buffers
<1>7. ASSUME buf[p].entry # None
      PROVE  /\ Len(ledger'[W(p)]) = Len(ledger[W(p)]) + 1
             /\ \A i \in 1..Len(ledger[W(p)]) : ledger'[W(p)][i] = ledger[W(p)][i]
             /\ ledger'[W(p)][Len(ledger[W(p)]) + 1] = buf[p].entry
  BY <1>1, <1>3, <1>6, <1>7
<1>8. \A w \in Wallet :
        /\ \A i \in 1..Len(ledger[w]) :
             i \in 1..Len(ledger'[w]) /\ ledger'[w][i] = ledger[w][i]
        /\ \A i \in 1..Len(ledger'[w]) :
             \/ i \in 1..Len(ledger[w])
             \/ /\ w = W(p) /\ buf[p].entry # None
                /\ i = Len(ledger[w]) + 1 /\ ledger'[w][i] = buf[p].entry
  <2> TAKE w \in Wallet
  <2>1. CASE w # W(p) \/ buf[p].entry = None
    BY <1>5, <2>1
  <2>2. CASE w = W(p) /\ buf[p].entry # None
    BY <1>4, <1>7, <2>2
  <2> QED BY <2>1, <2>2
<1>9. buf[p].entry # None =>
        /\ buf[p].row # NoRow /\ Moves(job[p].id, buf[p].row)
        /\ EntryOf(buf[p].entry, job[p].id, buf[p].row)
  BY <1>1 DEF MovementFits
<1>10. buf[p].entry = None => buf[p].row = NoRow \/ ~Moves(job[p].id, buf[p].row)
  BY <1>1 DEF MovementFits
<1>11. \A s \in TxId : txs[s].status = "PROCESSED" => txs'[s] = txs[s]
  BY CommitEffect, OldRow
<1>12. buf[p].entry # None => Len(ledger[W(p)]) + 1 \in 1..Len(ledger'[W(p)])
  BY <1>1, <1>4, <1>7
<1> QED BY <1>4, <1>7, <1>8, <1>9, <1>10, <1>11, <1>12

\* The members of a ledger are entries.
LEMMA EntryInLedger ==
  ASSUME NEW s, s \in Seq(Entries), NEW i \in 1..Len(s)
  PROVE  s[i] \in Entries
OBVIOUS

\* The entry a COMMIT appends is the first and only one of its row.
LEMMA CommitEntries ==
  ASSUME MovementInv, NEW p \in Proc, Commit(p)
  PROVE  EntriesFit' /\ EntriesDiffer' /\ MovementsEntered'
<1> USE DEF MovementInv, MovementTablesOK
<1> DEFINE t == job[p].id
<1>1. t \in TxId /\ Req(t).wallet = W(p)
  BY CommitEffect DEF W, R
<1>2. buf[p].entry # None =>
        /\ buf[p].row # NoRow /\ Moves(t, buf[p].row) /\ EntryOf(buf[p].entry, t, buf[p].row)
        /\ buf[p].entry.tx = t /\ txs'[t] = buf[p].row
        /\ txs[t].status # "PROCESSED"
  <2>1. buf[p].row # NoRow => txs[t].status # "PROCESSED" /\ txs'[t] = buf[p].row
    BY CommitEffect, OldRow
  <2> QED BY <2>1, CommitEntry DEF EntryOf
<1>3. \A w \in Wallet : \A i \in 1..Len(ledger[w]) :
        /\ ledger[w][i].tx \in TxId
        /\ txs[ledger[w][i].tx].status = "PROCESSED"
        /\ txs'[ledger[w][i].tx] = txs[ledger[w][i].tx]
  <2> TAKE w \in Wallet
  <2> TAKE i \in 1..Len(ledger[w])
  <2>1. ledger[w] \in Seq(Entries)
    BY DEF RowInv, LedgerInv, ControlInv, TypeOK
  <2>2. ledger[w][i].tx \in TxId
    <3>1. ledger[w][i] \in Entries
      BY <2>1, EntryInLedger
    <3> QED BY <3>1 DEF Entries
  <2>3. txs[ledger[w][i].tx].status = "PROCESSED"
    BY DEF EntriesFit, Moves
  <2> QED BY <2>2, <2>3, CommitEntry
<1>4. EntriesFit'
  <2> SUFFICES ASSUME NEW w \in Wallet, NEW i \in 1..Len(ledger'[w])
               PROVE  LET s == ledger'[w][i].tx IN
                        /\ Moves(s, txs'[s]) /\ Req(s).wallet = w
                        /\ EntryOf(ledger'[w][i], s, txs'[s])
    BY DEF EntriesFit
  <2>1. CASE i \in 1..Len(ledger[w])
    <3>1. ledger'[w][i] = ledger[w][i]
      BY <2>1, CommitEntry
    <3> QED BY <1>3, <2>1, <3>1 DEF EntriesFit
  <2>2. CASE w = W(p) /\ buf[p].entry # None /\ ledger'[w][i] = buf[p].entry
    BY <1>1, <1>2, <2>2
  <2> QED BY <2>1, <2>2, CommitEntry
<1>5. EntriesDiffer'
  <2> SUFFICES ASSUME NEW w \in Wallet, NEW i \in 1..Len(ledger'[w]),
                      NEW j \in 1..Len(ledger'[w]), ledger'[w][i].tx = ledger'[w][j].tx
               PROVE  i = j
    BY DEF EntriesDiffer
  <2>1. \A k \in 1..Len(ledger'[w]) :
          \/ k \in 1..Len(ledger[w]) /\ ledger'[w][k] = ledger[w][k]
          \/ k = Len(ledger[w]) + 1 /\ ledger'[w][k].tx = t /\ txs[t].status # "PROCESSED"
    BY <1>2, CommitEntry
  <2>2. CASE i \in 1..Len(ledger[w]) /\ j \in 1..Len(ledger[w])
    BY <2>2, CommitEntry DEF EntriesDiffer
  <2>3. CASE i \notin 1..Len(ledger[w]) /\ j \notin 1..Len(ledger[w])
    BY <2>1, <2>3
  <2>4. CASE i \in 1..Len(ledger[w]) /\ j \notin 1..Len(ledger[w])
    <3>1. ledger'[w][i] = ledger[w][i] /\ txs[ledger[w][i].tx].status = "PROCESSED"
      BY <1>3, <2>4, CommitEntry
    <3>2. ledger'[w][j].tx = t /\ txs[t].status # "PROCESSED"
      BY <2>1, <2>4
    <3> QED BY <3>1, <3>2
  <2>5. CASE i \notin 1..Len(ledger[w]) /\ j \in 1..Len(ledger[w])
    <3>1. ledger'[w][j] = ledger[w][j] /\ txs[ledger[w][j].tx].status = "PROCESSED"
      BY <1>3, <2>5, CommitEntry
    <3>2. ledger'[w][i].tx = t /\ txs[t].status # "PROCESSED"
      BY <2>1, <2>5
    <3> QED BY <3>1, <3>2
  <2> QED BY <2>2, <2>3, <2>4, <2>5
<1>6. MovementsEntered'
  <2> SUFFICES ASSUME NEW s \in TxId, Moves(s, txs'[s])
               PROVE  \E i \in 1..Len(ledger'[Req(s).wallet]) :
                        ledger'[Req(s).wallet][i].tx = s
    BY DEF MovementsEntered
  <2>1. CASE s = t /\ buf[p].row # NoRow
    <3>1. buf[p].entry # None
      BY <2>1, CommitEffect, CommitEntry
    <3> QED BY <1>1, <1>2, <2>1, <3>1, CommitEntry
  <2>2. CASE s # t \/ buf[p].row = NoRow
    <3>1. txs'[s] = txs[s]
      BY <2>2, CommitEffect
    <3>2. PICK i \in 1..Len(ledger[Req(s).wallet]) : ledger[Req(s).wallet][i].tx = s
      BY <3>1 DEF MovementsEntered
    <3>3. Req(s).wallet \in Wallet
      BY RequestFields
    <3> QED BY <3>2, <3>3, CommitEntry
  <2> QED BY <2>1, <2>2
<1> QED BY <1>4, <1>5, <1>6

\* The movement a reversal undoes is on the ledger of the same wallet, since
\* its reference is PROCESSED.
LEMMA CommitReversal ==
  ASSUME MovementInv, NEW p \in Proc, Commit(p)
  PROVE  ReversalCompensates'
<1> USE DEF MovementInv, MovementTablesOK
<1> DEFINE t == job[p].id
           s == buf[p].row.reference
<1> SUFFICES ASSUME NEW w \in Wallet, NEW i \in 1..Len(ledger'[w]),
                    RequiresReference(Req(ledger'[w][i].tx).kind)
             PROVE  \E j \in 1..(i - 1) :
                      /\ ledger'[w][j].tx = txs'[ledger'[w][i].tx].reference
                      /\ ledger'[w][j].amount = ledger'[w][i].amount
                      /\ ledger'[w][j].direction # ledger'[w][i].direction
                      /\ KindAccepted(Req(ledger'[w][i].tx).kind, Req(ledger'[w][j].tx).kind)
  BY DEF ReversalCompensates
<1>1. CASE i \in 1..Len(ledger[w])
  <2>1. ledger'[w][i] = ledger[w][i]
    BY <1>1, CommitEntry
  <2>2. PICK j \in 1..(i - 1) :
          /\ ledger[w][j].tx = txs[ledger[w][i].tx].reference
          /\ ledger[w][j].amount = ledger[w][i].amount
          /\ ledger[w][j].direction # ledger[w][i].direction
          /\ KindAccepted(Req(ledger[w][i].tx).kind, Req(ledger[w][j].tx).kind)
    BY <1>1, <2>1 DEF ReversalCompensates
  <2>3. Len(ledger[w]) \in Nat
    BY CommitEntry
  <2>4. j \in 1..Len(ledger[w])
    BY <1>1, <2>2, <2>3
  <2>5. ledger'[w][j] = ledger[w][j]
    BY <2>4, CommitEntry
  <2>6. txs'[ledger[w][i].tx] = txs[ledger[w][i].tx]
    <3>1. ledger[w] \in Seq(Entries)
      BY DEF RowInv, LedgerInv, ControlInv, TypeOK
    <3>2. ledger[w][i].tx \in TxId
      BY <1>1, <3>1, EntryInLedger DEF Entries
    <3>3. txs[ledger[w][i].tx].status = "PROCESSED"
      BY <1>1 DEF EntriesFit, Moves
    <3> QED BY <3>2, <3>3, CommitEntry
  <2> QED BY <2>1, <2>2, <2>5, <2>6
<1>2. CASE /\ w = W(p) /\ buf[p].entry # None
           /\ i = Len(ledger[w]) + 1 /\ ledger'[w][i] = buf[p].entry
  <2>1. /\ buf[p].row # NoRow /\ Moves(t, buf[p].row) /\ EntryOf(buf[p].entry, t, buf[p].row)
        /\ pc[p] = "commit" /\ txs'[t] = buf[p].row /\ buf[p].entry.tx = t
        /\ Len(ledger[w]) \in Nat
    BY <1>2, CommitEffect, CommitEntry DEF EntryOf
  <2>2. RequiresReference(Req(t).kind) /\ Req(t).wallet = w
    BY <1>2, <2>1 DEF W, R
  <2>3. s # None
    BY <2>1, <2>2 DEF MovementWorkOK, MovementFits, Settled, Moves
  <2>4. PointsTo(t, s)
    BY <2>3 DEF RowInv, RowWorkOK, ReversalFits
  <2>5. /\ s \in TxId /\ txs[s].status = "PROCESSED"
        /\ KindAccepted(Req(t).kind, Req(s).kind) /\ AttributesMatch(Req(t), Req(s))
        /\ Req(s).amount = Req(t).amount /\ Req(s).wallet = w /\ AffectsBalance(Req(s).kind)
    BY <2>2, <2>4, ReferenceRules DEF PointsTo
  <2>6. PICK j \in 1..Len(ledger[w]) : ledger[w][j].tx = s
    BY <2>5 DEF MovementsEntered, Moves
  <2>7. /\ ledger[w][j].amount = Req(s).amount
        /\ ledger[w][j].direction = LedgerDirection(Req(s).kind, KindOf(txs[s].reference))
    BY <2>6 DEF EntriesFit, EntryOf
  <2>8. /\ buf[p].entry.amount = Req(t).amount
        /\ buf[p].entry.direction = LedgerDirection(Req(t).kind, Req(s).kind)
    BY <2>1, <2>3 DEF EntryOf, KindOf
  <2>9. ledger[w][j].direction # buf[p].entry.direction
    BY <2>5, <2>7, <2>8 DEF LedgerDirection, KindAccepted
  <2>10. j \in 1..(i - 1) /\ ledger'[w][j] = ledger[w][j]
    BY <1>2, <2>1, <2>6, CommitEntry
  <2> QED BY <1>2, <2>1, <2>5, <2>6, <2>7, <2>8, <2>9, <2>10
<1> QED BY <1>1, <1>2, CommitEntry

\* The outbox rows of a COMMIT announce what it does to its row.
LEMMA CommitEvents ==
  ASSUME MovementInv, NEW p \in Proc, Commit(p)
  PROVE  EventsSent' /\ WaitsForReference'
<1> USE DEF MovementInv, MovementTablesOK
<1> DEFINE t == job[p].id
<1>1. t \in TxId /\ pc[p] = "commit" /\ MovementFits(p)
  BY CommitEffect DEF MovementWorkOK
<1>2. outbox \in [TxId -> [EventTypes -> Nat]]
  BY DEF RowInv, LedgerInv, ControlInv, TypeOK
<1>3. outbox' = [outbox EXCEPT ![t] =
                   [e \in EventTypes |-> @[e] + IF e \in buf[p].events THEN 1 ELSE 0]]
  BY DEF Commit
<1>4. \A s \in TxId \ {t} : outbox'[s] = outbox[s] /\ txs'[s] = txs[s]
  BY <1>2, <1>3, CommitEffect
<1>5. \A e \in EventTypes :
        outbox'[t][e] = outbox[t][e] + IF e \in buf[p].events THEN 1 ELSE 0
  BY <1>1, <1>2, <1>3
<1>6. WaitsForReference'
  <2> SUFFICES ASSUME NEW s \in TxId, txs'[s].status = "PENDING_REFERENCE"
               PROVE  txs'[s].observed = NoBalance /\ txs'[s].failure = NoFailure
    BY DEF WaitsForReference
  <2>1. CASE txs'[s] = txs[s]
    BY <2>1 DEF WaitsForReference
  <2>2. CASE s = t /\ buf[p].row # NoRow
    BY <1>1, <2>2, CommitEffect DEF MovementFits
  <2> QED BY <2>1, <2>2, CommitEffect
<1>7. EventsSent'
  <2> SUFFICES ASSUME NEW s \in TxId, NEW e \in EventTypes
               PROVE  IF e = "WagerTransactionPendingReference"
                         /\ txs'[s].status \notin {"ABSENT", "PENDING_REFERENCE"}
                      THEN outbox'[s][e] \in {0, 1}
                      ELSE outbox'[s][e] = IF e \in EventsOf(s, txs'[s].status) THEN 1 ELSE 0
    BY DEF EventsSent
  <2>1. IF e = "WagerTransactionPendingReference"
           /\ txs[s].status \notin {"ABSENT", "PENDING_REFERENCE"}
        THEN outbox[s][e] \in {0, 1}
        ELSE outbox[s][e] = IF e \in EventsOf(s, txs[s].status) THEN 1 ELSE 0
    BY DEF EventsSent
  <2>2. CASE s # t
    BY <1>4, <2>1, <2>2
  <2>3. CASE s = t /\ buf[p].row = NoRow
    <3>1. txs'[s] = txs[s] /\ buf[p].events = {}
      BY <1>1, <2>3, CommitEffect DEF MovementFits
    <3>2. outbox'[s][e] = outbox[s][e] + 0
      BY <1>5, <2>3, <3>1
    <3>3. outbox[s][e] \in Nat
      BY <1>2
    <3> QED BY <2>1, <3>1, <3>2, <3>3
  <2>4. CASE s = t /\ buf[p].row # NoRow
    <3> DEFINE new == buf[p].row.status
    <3>1. /\ txs'[s].status = new /\ new \in {"PENDING_REFERENCE", "PROCESSED", "REJECTED"}
          /\ txs[s].status = IF job[p].op = "reprocess" THEN "PENDING_REFERENCE" ELSE "ABSENT"
      BY <1>1, <2>4, CommitEffect, OldRow DEF Committed
    <3>2. buf[p].events = IF new = "PENDING_REFERENCE" /\ job[p].op = "reprocess"
                          THEN {} ELSE EventsOf(t, new)
      BY <1>1, <2>4 DEF MovementFits
    <3> HIDE DEF new
    <3>3. CASE job[p].op = "reprocess"
      <4>1. outbox[s][e] = IF e = "WagerTransactionPendingReference" THEN 1 ELSE 0
        BY <2>1, <3>1, <3>3 DEF EventsOf
      <4> QED BY <1>5, <2>4, <3>1, <3>2, <3>3, <4>1 DEF EventsOf
    <3>4. CASE job[p].op # "reprocess"
      <4>1. outbox[s][e] = 0
        BY <2>1, <3>1, <3>4 DEF EventsOf
      <4> QED BY <1>5, <2>4, <3>1, <3>2, <3>4, <4>1 DEF EventsOf
    <3> QED BY <3>3, <3>4
  <2> QED BY <2>2, <2>3, <2>4
<1> QED BY <1>6, <1>7

\* A message is recorded with the row of its request or of its replay.
LEMMA CommitInbox ==
  ASSUME MovementInv, NEW p \in Proc, Commit(p)
  PROVE  InboxRecordsOutcome'
<1> USE DEF MovementInv, MovementTablesOK
<1>1. Committed \subseteq Committed'
  BY CommitEffect
<1> SUFFICES ASSUME NEW m \in inbox'
             PROVE  \E c \in Cmd : \E t \in Committed' :
                      Request[c].msg = m /\ Payload(Req(t)) = Payload(Request[c])
  BY DEF InboxRecordsOutcome
<1>2. CASE m \in inbox
  BY <1>1, <1>2 DEF InboxRecordsOutcome
<1>3. CASE m \notin inbox
  <2>1. buf[p].inbox /\ m = R(p).msg /\ pc[p] = "commit"
    BY <1>3 DEF Commit
  <2>2. job[p].op = "process"
    BY <2>1 DEF MovementWorkOK, MessageFits
  <2>3. job[p].id \in Cmd /\ R(p) = Request[job[p].id]
    BY <2>2, JobIds DEF RowInv, LedgerInv, ControlInv, R, Req
  <2>4. PICK t \in Committed' : Payload(Req(t)) = Payload(R(p))
    <3>1. CASE buf[p].row = NoRow
      BY <1>1, <2>1, <3>1 DEF MovementWorkOK, MessageFits
    <3>2. CASE buf[p].row # NoRow
      BY <3>2, CommitEffect DEF R
    <3> QED BY <3>1, <3>2
  <2> QED BY <2>1, <2>3, <2>4
<1> QED BY <1>2, <1>3

\* What the processes are about to commit or answer stays true.
LEMMA CommitWork ==
  ASSUME MovementInv, NEW p \in Proc, Commit(p), NEW q \in Proc
  PROVE  MovementWorkOK(q)'
<1> USE DEF MovementInv
<1>1. MovementFits(q) /\ MessageFits(q) /\ AnswerFits(q) /\ AnswerFits(p)
  BY DEF MovementWorkOK
<1>2. Committed \subseteq Committed' /\ pc[p] = "commit" /\ R(q)' = R(q)
  BY CommitEffect
<1>3. \A s \in TxId : txs[s].status \in TerminalStatuses => txs'[s] = txs[s]
  BY CommitEffect, OldRow DEF TerminalStatuses
<1>4. \A s \in TxId : \A r : r.status \in TerminalStatuses /\ Tells(r, txs[s]) => Tells(r, txs'[s])
  BY <1>3 DEF Tells
<1>5. CASE q = p
  <2>1. buf'[p] = NoWrites /\ pc'[p] = "done" /\ reply'[p] = reply[p]
    BY CommitEffect
  <2>2. MovementFits(p)' /\ MessageFits(p)'
    BY <2>1 DEF MovementFits, MessageFits, MessageLabels, NoWrites
  <2>3. AnswerFits(p)'
    <3> SUFFICES ASSUME reply[p].status \in TerminalStatuses
                 PROVE  reply[p].tx \in TxId /\ Tells(reply[p], txs'[reply[p].tx])
      BY <2>1 DEF AnswerFits, NoWrites, Tells
    <3>1. reply[p].tx \in TxId
      BY <1>1, <1>2 DEF AnswerFits
    <3>2. CASE buf[p].row = NoRow
      BY <1>1, <1>2, <1>4, <3>1, <3>2 DEF AnswerFits
    <3>3. CASE buf[p].row # NoRow
      BY <1>1, <1>2, <3>1, <3>3, CommitEffect DEF AnswerFits
    <3> QED BY <3>1, <3>2, <3>3
  <2> QED BY <1>5, <2>2, <2>3 DEF MovementWorkOK
<1>6. CASE q # p
  <2>1. /\ job'[q] = job[q] /\ buf'[q] = buf[q] /\ ref'[q] = ref[q] /\ pc'[q] = pc[q]
        /\ reply'[q] = reply[q]
    BY <1>6, CommitEffect DEF Beside
  <2>2. MovementFits(q)'
    BY <1>1, <1>2, <2>1 DEF MovementFits
  <2>3. MessageFits(q)'
    BY <1>1, <1>2, <2>1 DEF MessageFits
  <2>4. AnswerFits(q)'
    BY <1>1, <1>4, <2>1 DEF AnswerFits, Tells
  <2> QED BY <2>2, <2>3, <2>4 DEF MovementWorkOK
<1> QED BY <1>5, <1>6

-----------------------------------------------------------------------------
\* MovementInv is inductive.
LEMMA MovementStep == MovementInv /\ [Next]_vars => MovementInv'
<1> SUFFICES ASSUME MovementInv, [Next]_vars PROVE MovementInv'
  OBVIOUS
<1>1. RowInv'
  BY RowStep DEF MovementInv
<1>2. CASE UNCHANGED vars
  <2>1. MovementTablesOK'
    BY <1>2 DEF vars, MovementInv, MovementTablesOK, EntriesFit, EntriesDiffer,
       MovementsEntered, ReversalCompensates, EventsSent, WaitsForReference,
       InboxRecordsOutcome, Committed
  <2>2. ASSUME NEW q \in Proc PROVE MovementWorkOK(q)'
    <3>1. MovementWorkOK(q) /\ R(q)' = R(q)
      BY <1>2 DEF MovementInv, vars, R
    <3>2. MovementFits(q)'
      BY <1>2, <3>1 DEF vars, MovementWorkOK, MovementFits
    <3>3. MessageFits(q)' /\ AnswerFits(q)'
      BY <1>2, <3>1 DEF vars, MovementWorkOK, MessageFits, AnswerFits, Tells, Committed
    <3> QED BY <3>2, <3>3 DEF MovementWorkOK
  <2> QED BY <1>1, <2>1, <2>2 DEF MovementInv
<1>3. CASE \/ \E h \in Handler : \/ \E c \in Cmd : Submit(h, c)
                                 \/ \E w \in Wallet : CreateWallet(h, w)
           \/ \E k \in Worker : ListDue(k) \/ ReprocessNext(k)
  BY <1>1, <1>3, AroundMovements
<1>4. ASSUME NEW p \in Proc, Crash(p) PROVE MovementInv'
  BY <1>1, <1>4, AroundMovements
<1>5. ASSUME NEW p \in Proc, Commit(p) PROVE MovementInv'
  <2>1. MovementTablesOK'
    BY <1>5, CommitEntries, CommitReversal, CommitEvents, CommitInbox DEF MovementTablesOK
  <2> QED BY <1>1, <1>5, <2>1, CommitWork DEF MovementInv
<1>6. ASSUME NEW p \in Proc, Step(p) PROVE MovementInv'
  <2>1. CASE Return(p) \/ DeadlockVictim(p)
    BY <1>1, <2>1, AroundMovements, FailMovements DEF DeadlockVictim
  <2>2. CASE ~(Return(p) \/ DeadlockVictim(p))
    BY <1>1, <1>5, <1>6, <2>2, EarlyMovements, InsertWalletMovements, BetweenMovements,
       FindReferenceMovements, ApplyMovements, SaveWalletMovements
    DEF Step
  <2> QED BY <2>1, <2>2
<1> QED BY <1>2, <1>3, <1>4, <1>6 DEF Next

LEMMA MovementsCorrect == Spec => []MovementInv
<1>1. Init => MovementInv
  BY InitMovements
<1>2. MovementInv /\ [Next]_vars => MovementInv'
  BY MovementStep
<1> QED BY <1>1, <1>2, PTL DEF Spec

\* The positions of a row on the ledgers: one if it moves money, else none.
LEMMA PositionsCount ==
  ASSUME MovementInv, NEW t \in TxId
  PROVE  /\ Moves(t, txs[t]) => Cardinality(Positions(t)) = 1
         /\ ~Moves(t, txs[t]) => Positions(t) = {} /\ Cardinality(Positions(t)) = 0
         /\ \A at \in Positions(t) :
              /\ at[1] = Req(t).wallet /\ at[1] \in Wallet
              /\ at[2] \in 1..Len(ledger[at[1]]) /\ ledger[at[1]][at[2]].tx = t
<1> USE DEF MovementInv, MovementTablesOK
<1>1. ASSUME NEW at \in Positions(t)
      PROVE  \E w \in Wallet : \E i \in 1..Len(ledger[w]) :
               at = <<w, i>> /\ ledger[w][i].tx = t
  BY DEF Positions
<1>2. \A w \in Wallet : \A i \in 1..Len(ledger[w]) :
        ledger[w][i].tx = t => w = Req(t).wallet /\ Moves(t, txs[t])
  BY DEF EntriesFit
<1>3. \A at \in Positions(t) :
        /\ at[1] = Req(t).wallet /\ at[1] \in Wallet
        /\ at[2] \in 1..Len(ledger[at[1]]) /\ ledger[at[1]][at[2]].tx = t
        /\ at = <<at[1], at[2]>>
  BY <1>1, <1>2
<1>4. CASE Moves(t, txs[t])
  <2> DEFINE w == Req(t).wallet
  <2>1. w \in Wallet
    BY RequestFields
  <2>2. PICK i \in 1..Len(ledger[w]) : ledger[w][i].tx = t
    BY <1>4 DEF MovementsEntered
  <2>3. <<w, i>> \in Positions(t)
    BY <2>1, <2>2 DEF Positions
  <2>4. \A at \in Positions(t) : at[1] = w /\ at[2] = i
    BY <1>3, <2>2 DEF EntriesDiffer
  <2>5. \A at \in Positions(t) : at = <<w, i>>
    BY <1>3, <2>4
  <2>6. Positions(t) = {<<w, i>>}
    BY <2>3, <2>5
  <2> QED BY <1>3, <1>4, <2>6, FS_Singleton
<1>5. CASE ~Moves(t, txs[t])
  <2>1. Positions(t) = {}
    BY <1>1, <1>2, <1>5
  <2> QED BY <1>5, <2>1, FS_EmptySet
<1> QED BY <1>3, <1>4, <1>5

\* A movement is booked once, on its wallet, for its amount and with the
\* balance it reports, however often it is delivered and retried
\* (wager-processing.ts, applyAcceptedTransaction).
THEOREM EnteredOnce == Spec => []OneEntryPerMovement
<1>1. MovementInv => OneEntryPerMovement
  <2> SUFFICES ASSUME MovementInv, NEW t \in TxId
               PROVE  IF txs[t].status = "PROCESSED" /\ AffectsBalance(Req(t).kind)
                      THEN /\ Cardinality(Positions(t)) = 1
                           /\ \A at \in Positions(t) :
                                /\ at[1] = Req(t).wallet
                                /\ ledger[at[1]][at[2]].amount = Req(t).amount
                                /\ ledger[at[1]][at[2]].after = txs[t].observed
                      ELSE Positions(t) = {}
    BY DEF OneEntryPerMovement
  <2>1. ASSUME NEW at \in Positions(t)
        PROVE  /\ ledger[at[1]][at[2]].amount = Req(t).amount
               /\ ledger[at[1]][at[2]].after = txs[t].observed
    BY PositionsCount DEF MovementInv, MovementTablesOK, EntriesFit, EntryOf
  <2> QED BY <2>1, PositionsCount DEF Moves
<1> QED BY <1>1, MovementsCorrect, PTL

\* A reversal undoes an earlier entry of its wallet, to the cent and in the
\* other direction (reference-rules.ts, wager-processing.ts).
THEOREM ReversalsCompensate == Spec => []ReversalCompensates
<1>1. MovementInv => ReversalCompensates
  BY DEF MovementInv, MovementTablesOK
<1> QED BY <1>1, MovementsCorrect, PTL

\* The transactional outbox: what is announced is what the tables hold, once
\* (outbox.repository.ts, wager-processing.ts).
THEOREM OutboxTellsRows == Spec => []OutboxMatchesRows
<1>1. MovementInv => OutboxMatchesRows
  <2> SUFFICES ASSUME MovementInv, NEW t \in TxId
               PROVE  LET sent == outbox[t]
                          status == txs[t].status
                      IN
                      /\ sent["WagerTransactionProcessed"] =
                           IF status = "PROCESSED" THEN 1 ELSE 0
                      /\ sent["WagerTransactionRejected"] =
                           IF status = "REJECTED" THEN 1 ELSE 0
                      /\ sent["WalletBalanceChanged"] = Cardinality(Positions(t))
                      /\ sent["WagerTransactionPendingReference"] \in
                           IF status = "PENDING_REFERENCE" THEN {1} ELSE {0, 1}
    BY DEF OutboxMatchesRows
  <2>1. \A e \in EventTypes :
          IF e = "WagerTransactionPendingReference"
             /\ txs[t].status \notin {"ABSENT", "PENDING_REFERENCE"}
          THEN outbox[t][e] \in {0, 1}
          ELSE outbox[t][e] = IF e \in EventsOf(t, txs[t].status) THEN 1 ELSE 0
    BY DEF MovementInv, MovementTablesOK, EventsSent
  <2>2. /\ "WagerTransactionProcessed" \in EventTypes
        /\ "WagerTransactionRejected" \in EventTypes
        /\ "WalletBalanceChanged" \in EventTypes
        /\ "WagerTransactionPendingReference" \in EventTypes
    BY DEF EventTypes
  <2>3. outbox[t]["WalletBalanceChanged"] = Cardinality(Positions(t))
    <3>1. "WalletBalanceChanged" \in EventsOf(t, txs[t].status) <=> Moves(t, txs[t])
      BY DEF EventsOf, Moves
    <3>2. outbox[t]["WalletBalanceChanged"] = IF Moves(t, txs[t]) THEN 1 ELSE 0
      BY <2>1, <2>2, <3>1
    <3> QED BY <3>2, PositionsCount
  <2>4. outbox[t]["WagerTransactionProcessed"] =
          IF txs[t].status = "PROCESSED" THEN 1 ELSE 0
    BY <2>1, <2>2 DEF EventsOf
  <2>5. outbox[t]["WagerTransactionRejected"] =
          IF txs[t].status = "REJECTED" THEN 1 ELSE 0
    BY <2>1, <2>2 DEF EventsOf
  <2>6. outbox[t]["WagerTransactionPendingReference"] \in
          IF txs[t].status = "PENDING_REFERENCE" THEN {1} ELSE {0, 1}
    BY <2>1, <2>2 DEF EventsOf
  <2> QED BY <2>3, <2>4, <2>5, <2>6
<1> QED BY <1>1, MovementsCorrect, PTL

\* No crash or rollback records a message and loses its effect
\* (process-wager-transaction.use-case.ts, the inbox in the unit of work).
THEOREM InboxKeepsOutcome == Spec => []InboxRecordsOutcome
<1>1. MovementInv => InboxRecordsOutcome
  BY DEF MovementInv, MovementTablesOK
<1> QED BY <1>1, MovementsCorrect, PTL

\* A settled answer, first or replayed, is what the database holds for as
\* long as the caller may look (persistedResult, replayResult).
THEOREM AnswersAreDurable == Spec => []AnswerIsDurable
<1>1. MovementInv => AnswerIsDurable
  <2> SUFFICES ASSUME MovementInv, NEW p \in Proc, pc[p] = "done",
                      reply[p].status \in TerminalStatuses
               PROVE  /\ txs[reply[p].tx].status = reply[p].status
                      /\ txs[reply[p].tx].failure = reply[p].failure
                      /\ \/ reply[p].balance = txs[reply[p].tx].observed
                         \/ WalletInfo[Req(reply[p].tx).wallet].currency
                              # Req(reply[p].tx).currency
    BY DEF AnswerIsDurable
  <2>1. buf[p].row = NoRow /\ AnswerFits(p)
    BY DEF MovementInv, MovementWorkOK, RowInv, RowWorkOK, MovesForward, WritingLabels
  <2> QED BY <2>1 DEF AnswerFits, Tells
<1> QED BY <1>1, MovementsCorrect, PTL
=============================================================================
