--------------------------- MODULE WagerRowProofs ---------------------------
(***************************************************************************)
(* The rows of the tables, for any number of processes, wallets, requests  *)
(* and crashes: a purse has one wallet, an operation one row, a reference  *)
(* one reversal of each kind, and a row only moves forward.                *)
(*                                                                         *)
(* A unit of work checks the tables some statements before its COMMIT.     *)
(* Three things keep the answer true until then: the entries it holds of   *)
(* the unique indexes (Apart, KeysFree), the row lock of a sweeper on the  *)
(* wallet of the row it settles (SweepsWaitingRow), and the row lock under *)
(* which a reversal is booked on the wallet it shares with its reference   *)
(* (ReversalFits).                                                         *)
(***************************************************************************)
EXTENDS WagerLedgerProofs

\* A step of p leaves everything of the other processes alone.
Beside(p) ==
  \A q \in Proc \ {p} :
    /\ job'[q] = job[q] /\ snap'[q] = snap[q] /\ lock'[q] = lock[q]
    /\ buf'[q] = buf[q] /\ ref'[q] = ref[q] /\ pc'[q] = pc[q] /\ reply'[q] = reply[q]

\* Keys and external ids: those of requests are never wallet ids.
LEMMA KeyFields ==
  ASSUME NEW t \in TxId
  PROVE  /\ t \in Cmd => /\ Req(t).key \in Key /\ Req(t).key \notin Wallet
                         /\ Req(t).ext \in Ext /\ Req(t).ext \notin Wallet
                         /\ Req(t).kind # "OPENING"
         /\ t \notin Cmd => /\ t \in Wallet /\ Req(t).key = t /\ Req(t).ext = t
                            /\ Req(t).kind = "OPENING"
         /\ t \in Wallet => t \notin Cmd
<1>1. CASE t \in Cmd
  <2>1. Request[t] \in Requests /\ Req(t) = Request[t] /\ t \notin Wallet
    BY <1>1, RequestAssumption DEF Req
  <2> QED BY <1>1, <2>1, RequestAssumption DEF Requests
<1>2. CASE t \notin Cmd
  <2>1. t \in Wallet /\ Req(t) = OpeningRequest(t)
    BY <1>2 DEF TxId, Req
  <2> QED BY <1>2, <2>1 DEF OpeningRequest
<1> QED BY <1>1, <1>2

\* Which rows the use cases write.
LEMMA JobIds ==
  ASSUME TypeOK, NEW p \in Proc
  PROVE  /\ job[p].op = "process" => job[p].id \in Cmd
         /\ job[p].op = "create" => job[p].id \in Wallet /\ W(p) = job[p].id
         /\ job[p] # NoJob => job[p].id \in TxId /\ job[p].op \in {"process", "reprocess", "create"}
         /\ job[p].op # "none" => job[p] # NoJob
<1>1. job[p] \in Jobs
  BY DEF TypeOK
<1>2. job[p].op = "create" => job[p].id \in Wallet
  BY <1>1 DEF Jobs, NoJob
<1>3. job[p].op = "create" => W(p) = job[p].id
  BY <1>2, RequestFields DEF W, R, TxId
<1> QED BY <1>1, <1>2, <1>3 DEF Jobs, NoJob, TxId

\* What a reference that breaks no rule is.
LEMMA ReferenceRules ==
  ASSUME NEW r, NEW s, ReferenceFailure(r, s) = NoFailure
  PROVE  /\ KindAccepted(r.kind, s.kind) /\ AttributesMatch(r, s)
         /\ s.amount = r.amount /\ s.wallet = r.wallet
         /\ RequiresReference(r.kind) /\ AffectsBalance(r.kind) /\ AffectsBalance(s.kind)
<1>1. KindAccepted(r.kind, s.kind) /\ AttributesMatch(r, s) /\ s.amount = r.amount
  BY DEF ReferenceFailure, NoFailure
<1> QED BY <1>1 DEF KindAccepted, AttributesMatch, RequiresReference, ReversalKinds,
                    AffectsBalance

\* Initially the rows are the OPENING rows of the wallets.
LEMMA InitRows == Init => RowInv
<1> SUFFICES ASSUME Init PROVE RowInv
  OBVIOUS
<1>1. LedgerInv
  BY InitLedger
<1>2. \A t \in TxId : /\ txs[t].status # "ABSENT" => t \in OpenAtStart
                      /\ txs[t].reference = None
  BY DEF Init, OpeningRow, ProcessedRow, PendingRow, NoRow
<1>3. \A w \in Wallet : wallets[w].open => w \in OpenAtStart
  BY DEF Init, NoWallet
<1>4. RowTablesOK
  <2>1. OneWalletPerPlayer
    BY <1>3, PurseAssumption DEF OneWalletPerPlayer
  <2>2. OperationAcceptedOnce
    BY <1>2, WalletAssumption, KeyFields DEF OperationAcceptedOnce, Committed
  <2>3. OneReversalPerKind /\ ReferencesFit
    BY <1>2 DEF OneReversalPerKind, ReferencesFit, Committed
  <2> QED BY <2>1, <2>2, <2>3 DEF RowTablesOK
<1>5. \A p \in Proc : /\ pc[p] = "idle" /\ job[p].op = "none" /\ ref[p] = None
                      /\ buf[p].row = NoRow
  BY DEF Init, NoJob, NoWrites
<1>6. \A p \in Proc : RowWorkOK(p)
  BY <1>5 DEF RowWorkOK, KeysFree, SweepsWaitingRow, MovesForward, ReversalFits, Inserting,
              Creating, WritingLabels, NoRow
<1>7. \A p \in Proc : \A q \in Proc \ {p} : Apart(p, q)
  BY <1>5 DEF Apart, Inserting, Creating
<1> QED BY <1>1, <1>4, <1>6, <1>7 DEF RowInv

-----------------------------------------------------------------------------
(* Steps that commit nothing                                               *)

\* While the tables stand still, what a process holds stays as good as it was.
LEMMA OthersKeepRows ==
  ASSUME RowInv, UNCHANGED <<wallets, txs>>, NEW q \in Proc,
         job'[q] = job[q], lock'[q] = lock[q], buf'[q] = buf[q],
         ref'[q] = ref[q], pc'[q] = pc[q]
  PROVE  RowWorkOK(q)'
<1>1. RowWorkOK(q)
  BY DEF RowInv
<1>2. R(q)' = R(q) /\ W(q)' = W(q)
  BY DEF R, W
<1>3. KeysFree(q)'
  BY <1>1, <1>2 DEF RowWorkOK, KeysFree, Inserting, Creating, FindByIdempotencyKey,
     FindByProviderAndExternalId, FindByPlayerAndCurrency, Committed
<1>4. SweepsWaitingRow(q)' /\ MovesForward(q)'
  BY <1>1 DEF RowWorkOK, SweepsWaitingRow, MovesForward, BeforeDecision
<1>5. ReversalFits(q)'
  BY <1>1, <1>2 DEF RowWorkOK, ReversalFits, PointsTo, Committed
<1> QED BY <1>3, <1>4, <1>5 DEF RowWorkOK

\* It is enough to look at the process that steps.
LEMMA QuietRows ==
  ASSUME RowInv, LedgerInv', NEW p \in Proc, Beside(p), UNCHANGED <<wallets, txs>>,
         RowWorkOK(p)',
         Inserting(p)' => job'[p] = job[p] /\ (Inserting(p) \/ HoldersOfTransactionKey(p) = {}),
         Creating(p)' => /\ job'[p] = job[p]
                         /\ Creating(p) \/ (pc[p] = "insertWallet" /\ HoldersOfWalletKey(p) = {})
  PROVE  RowInv'
<1>1. RowTablesOK'
  BY DEF RowInv, RowTablesOK, OneWalletPerPlayer, OperationAcceptedOnce, OneReversalPerKind,
         ReferencesFit, PointsTo, Committed
<1>2. \A q \in Proc : RowWorkOK(q)'
  BY OthersKeepRows DEF Beside
<1>3. \A q \in Proc \ {p} :
        /\ job'[q] = job[q] /\ buf'[q] = buf[q] /\ R(q)' = R(q) /\ W(q)' = W(q)
        /\ Inserting(q)' <=> Inserting(q)
        /\ Creating(q)' <=> Creating(q)
  BY DEF Beside, R, W, Inserting, Creating
<1>4. job'[p] = job[p] => R(p)' = R(p) /\ W(p)' = W(p)
  BY DEF R, W
<1>5. \A q \in Proc \ {p} : Inserting(p)' /\ Inserting(q) =>
        R(p)'.key # R(q).key /\ R(p)'.ext # R(q).ext
  <2> SUFFICES ASSUME NEW q \in Proc \ {p}, Inserting(p)', Inserting(q)
               PROVE  R(p).key # R(q).key /\ R(p).ext # R(q).ext
    BY <1>4
  <2>1. CASE Inserting(p)
    BY <2>1 DEF RowInv, Apart
  <2>2. CASE HoldersOfTransactionKey(p) = {}
    BY <2>2 DEF HoldersOfTransactionKey, Inserting
  <2> QED BY <2>1, <2>2
<1>6. \A q \in Proc \ {p} : Creating(p)' /\ Creating(q) =>
        ~SamePurse(W(p)', W(q)) /\ ~SamePurse(W(q), W(p)')
  <2> SUFFICES ASSUME NEW q \in Proc \ {p}, Creating(p)', Creating(q)
               PROVE  ~SamePurse(W(p), W(q)) /\ ~SamePurse(W(q), W(p))
    BY <1>4
  <2>1. CASE Creating(p)
    BY <2>1 DEF RowInv, Apart, SamePurse
  <2>2. CASE HoldersOfWalletKey(p) = {}
    <3>1. pc[q] = "commit"
      BY DEF RowInv, LedgerInv, ControlInv, WalletsOpen, Creating
    <3> QED BY <2>2, <3>1 DEF HoldersOfWalletKey, Creating, SamePurse
  <2> QED BY <2>1, <2>2
<1>7. \A r \in Proc : \A q \in Proc \ {r} : Apart(r, q)'
  <2> SUFFICES ASSUME NEW r \in Proc, NEW q \in Proc \ {r} PROVE Apart(r, q)'
    OBVIOUS
  <2>1. CASE r # p /\ q # p
    BY <1>3, <2>1 DEF RowInv, Apart
  <2>2. CASE r = p
    BY <1>3, <1>5, <1>6, <2>2 DEF Apart
  <2>3. CASE q = p
    BY <1>3, <1>5, <1>6, <2>3 DEF Apart
  <2> QED BY <2>1, <2>2, <2>3
<1> QED BY <1>1, <1>2, <1>7 DEF RowInv

\* A process that has written nothing has nothing to keep.
LEMMA RestRows ==
  ASSUME RowInv, LedgerInv', NEW p \in Proc, Beside(p), UNCHANGED <<wallets, txs>>,
         buf'[p].row = NoRow, buf'[p].wallet = None, ref'[p] = None,
         pc'[p] \notin WritingLabels,
         pc'[p] = "readTransaction" => lock'[p] = "Update"
  PROVE  RowInv'
<1>1. ~Inserting(p)' /\ ~Creating(p)' /\ NoRow.reference = None
  BY DEF Inserting, Creating, NoRow
<1>2. RowWorkOK(p)'
  BY <1>1 DEF RowWorkOK, KeysFree, SweepsWaitingRow, MovesForward, ReversalFits
<1> QED BY <1>1, <1>2, QuietRows

\* Between the statements that decide, the row of the unit of work names no
\* reference; a sweeper's row waits.
LEMMA UndecidedRow ==
  ASSUME RowInv, NEW p \in Proc, pc[p] \in WritingLabels
  PROVE  /\ buf[p].row # NoRow /\ buf[p].row.reference = None
         /\ buf[p].row = BeforeDecision(p)
         /\ buf[p].wallet = None
         /\ job[p] # NoJob /\ job[p].op \in {"process", "reprocess"}
         /\ job[p].op = "reprocess" =>
              txs[job[p].id].status = "PENDING_REFERENCE" /\ lock[p] = "Update"
         /\ job[p].op = "process" => Inserting(p)
<1> USE DEF RowInv, LedgerInv, ControlInv
<1>1. /\ buf[p].row.status # "ABSENT" /\ job[p] # NoJob
      /\ job[p].op \in {"process", "reprocess"}
  BY JobIds DEF ControlOK, WritingLabels, HandlerLabels
<1>2. buf[p].row # NoRow /\ RowWorkOK(p)
  BY <1>1 DEF NoRow
<1>3. buf[p].row = BeforeDecision(p)
  BY <1>2 DEF RowWorkOK, MovesForward
<1>4. job[p].op = "reprocess" =>
        txs[job[p].id].status = "PENDING_REFERENCE" /\ lock[p] = "Update"
  BY <1>2 DEF RowWorkOK, SweepsWaitingRow
<1>5. buf[p].row.reference = None
  <2>1. CASE job[p].op = "reprocess"
    <3>1. job[p].id \in TxId
      BY <1>1, JobIds
    <3> QED BY <1>3, <1>4, <2>1, <3>1 DEF BeforeDecision, RowTablesOK, ReferencesFit
  <2>2. CASE job[p].op # "reprocess"
    BY <1>3, <2>2 DEF BeforeDecision, PendingRow, NoRow
  <2> QED BY <2>1, <2>2
<1>6. buf[p].wallet = None
  BY DEF WalletsOpen, WritingLabels
<1> QED BY <1>1, <1>2, <1>3, <1>4, <1>5, <1>6 DEF Inserting

\* The throw of any statement.
LEMMA FailRows ==
  ASSUME RowInv, LedgerInv', NEW p \in Proc, NEW e, Fail(p, e)
  PROVE  RowInv'
<1>1. /\ Beside(p) /\ UNCHANGED <<wallets, txs>>
      /\ buf'[p] = NoWrites /\ ref'[p] = None /\ pc'[p] = "failed"
  BY DEF Fail, EndTransaction, Goto, db, Beside, RowInv, LedgerInv, ControlInv, TypeOK
<1> QED BY <1>1, RestRows DEF NoWrites, WritingLabels

\* The statements before a row is written.
LEMMA EarlyRows ==
  ASSUME RowInv, LedgerInv', NEW p \in Proc,
         \/ CheckWallet(p) \/ LockWallet(p) \/ FindInbox(p) \/ ReplaySeen(p)
         \/ InsertInbox(p) \/ FindKey(p) \/ FindExternalId(p) \/ ReadWallet(p)
  PROVE  RowInv'
<1> USE DEF RowInv, LedgerInv, ControlInv
<1>1. /\ pc[p] \in {"checkWallet", "lockWallet", "findInbox", "replaySeen", "insertInbox",
                    "findKey", "findExternalId", "readWallet"}
  BY DEF CheckWallet, LockWallet, FindInbox, ReplaySeen, InsertInbox, FindKey,
         FindExternalId, ReadWallet
<1>2. buf[p].row = NoRow /\ ref[p] = None /\ buf[p].wallet = None
  BY <1>1 DEF RowWorkOK, MovesForward, WritingLabels, WalletsOpen
<1>3. CASE \E e : Fail(p, e)
  BY <1>3, FailRows
<1>4. CASE ~\E e : Fail(p, e)
  <2>1. CASE LockWallet(p)
    <3>1. job[p] # NoJob
      BY <1>1 DEF ControlOK
    <3>2. job[p].op = "reprocess" => wallets[W(p)].open
      BY DEF WalletsOpen, W, R
    <3>3. /\ Beside(p) /\ UNCHANGED <<wallets, txs, buf, ref>>
          /\ pc'[p] \in {"readTransaction", "findInbox", "findKey"}
          /\ pc'[p] = "readTransaction" => lock'[p] = "Update"
      BY <2>1, <3>2 DEF LockWallet, WalletLockMode, Goto, Beside, db, TypeOK
    <3> QED BY <1>2, <3>3, RestRows DEF WritingLabels
  <2>2. CASE InsertInbox(p)
    <3>1. /\ Beside(p) /\ UNCHANGED <<wallets, txs, ref>>
          /\ buf'[p].row = buf[p].row /\ buf'[p].wallet = buf[p].wallet
          /\ pc'[p] = "findKey"
      BY <1>4, <2>2 DEF InsertInbox, Goto, Beside, db, TypeOK, Buffers
    <3> QED BY <1>2, <3>1, RestRows DEF WritingLabels
  <2>3. CASE ReadWallet(p)
    <3>1. /\ Beside(p) /\ UNCHANGED <<wallets, txs, ref, buf>>
          /\ pc'[p] = "insertTransaction"
      BY <1>4, <2>3 DEF ReadWallet, Goto, Beside, db, TypeOK
    <3> QED BY <1>2, <3>1, RestRows DEF WritingLabels
  <2>4. CASE \/ CheckWallet(p) \/ FindInbox(p) \/ ReplaySeen(p) \/ FindKey(p)
             \/ FindExternalId(p)
    <3>1. /\ Beside(p) /\ UNCHANGED <<wallets, txs, ref, buf>>
          /\ pc'[p] \in {"insertWallet", "replaySeen", "insertInbox", "commit",
                         "findExternalId", "readWallet"}
      BY <1>4, <2>4 DEF CheckWallet, FindInbox, ReplaySeen, FindKey, FindExternalId,
         ReplayOrConflict, Answer, Goto, Beside, db, TypeOK
    <3> QED BY <1>2, <3>1, RestRows DEF WritingLabels
  <2> QED BY <2>1, <2>2, <2>3, <2>4
<1> QED BY <1>3, <1>4

\* The steps around a unit of work.
LEMMA AroundRows ==
  ASSUME RowInv, LedgerInv',
         \/ \E h \in Handler : \/ \E c \in Cmd : Submit(h, c)
                               \/ \E w \in Wallet : CreateWallet(h, w)
         \/ \E k \in Worker : ListDue(k) \/ ReprocessNext(k)
         \/ \E p \in Proc : Return(p) \/ Crash(p)
  PROVE  RowInv'
<1> USE DEF RowInv, LedgerInv, ControlInv
<1>1. \A p \in Proc : pc[p] \in AtRest =>
        buf[p].row = NoRow /\ buf[p].wallet = None /\ ref[p] = None
  BY DEF ControlOK, NoWrites, RowWorkOK, MovesForward, WritingLabels, AtRest
<1>2. Handler \subseteq Proc /\ Worker \subseteq Proc
  BY DEF Proc
<1>3. ASSUME NEW p \in Proc, Beside(p), UNCHANGED <<wallets, txs, buf, ref>>,
             pc[p] \in AtRest, pc'[p] \in {"lockWallet", "checkWallet", "idle"}
      PROVE  RowInv'
  BY <1>1, <1>3, RestRows DEF WritingLabels
<1>4. ASSUME NEW h \in Handler,
             (\E c \in Cmd : Submit(h, c)) \/ (\E w \in Wallet : CreateWallet(h, w))
      PROVE  RowInv'
  BY <1>2, <1>3, <1>4 DEF Submit, CreateWallet, Beside, TypeOK, db, AtRest, Goto
<1>5. ASSUME NEW k \in Worker, ListDue(k) PROVE RowInv'
  BY <1>2, <1>3, <1>5 DEF ListDue, Beside, TypeOK, db, AtRest, Goto
<1>6. ASSUME NEW k \in Worker, ReprocessNext(k) PROVE RowInv'
  BY <1>2, <1>3, <1>6 DEF ReprocessNext, Beside, TypeOK, db, AtRest, Goto
<1>7. ASSUME NEW p \in Proc, Return(p) PROVE RowInv'
  BY <1>3, <1>7 DEF Return, Beside, TypeOK, db, AtRest, Goto
<1>8. ASSUME NEW p \in Proc, Crash(p) PROVE RowInv'
  <2>1. /\ Beside(p) /\ UNCHANGED <<wallets, txs>>
        /\ buf'[p] = NoWrites /\ ref'[p] = None /\ pc'[p] = "idle"
    BY <1>8 DEF Crash, EndTransaction, Goto, db, Beside, TypeOK
  <2> QED BY <2>1, RestRows DEF NoWrites, WritingLabels
<1> QED BY <1>4, <1>5, <1>6, <1>7, <1>8

-----------------------------------------------------------------------------
(* Steps that write                                                        *)

\* The entry of wallet_player_currency_uq is p's until it commits.
LEMMA InsertWalletRows ==
  ASSUME RowInv, LedgerInv', NEW p \in Proc, InsertWallet(p)
  PROVE  RowInv'
<1> USE DEF RowInv, LedgerInv, ControlInv
<1>1. CASE Fail(p, "WalletAlreadyExists")
  BY <1>1, FailRows
<1>2. CASE ~Fail(p, "WalletAlreadyExists")
  <2>0. /\ pc[p] = "insertWallet" /\ HoldersOfWalletKey(p) = {}
        /\ FindByPlayerAndCurrency(W(p)) = {}
        /\ UNCHANGED <<wallets, txs, job, ref, snap, lock, reply>>
        /\ buf' = [buf EXCEPT ![p] = [NoWrites EXCEPT !.row = OpeningRow(W(p)),
                                        !.wallet = OpenedWallet(W(p)),
                                        !.entry = OpeningEntry(W(p)),
                                        !.events = OpeningEvents(W(p))]]
        /\ pc' = [pc EXCEPT ![p] = "commit"]
    BY <1>2 DEF InsertWallet, WalletKeyViolation, BlockedBy, Goto, db
  <2>1. /\ pc[p] = "insertWallet" /\ HoldersOfWalletKey(p) = {}
        /\ FindByPlayerAndCurrency(W(p)) = {}
        /\ Beside(p) /\ UNCHANGED <<wallets, txs, job, ref>>
        /\ buf'[p].row = OpeningRow(W(p)) /\ pc'[p] = "commit"
    BY <2>0 DEF Beside, TypeOK, NoWrites
  <2>2. job[p].op = "create" /\ ref[p] = None
    BY <2>1 DEF ControlOK, RowWorkOK, MovesForward, WritingLabels
  <2>3. /\ OpeningRow(W(p)).reference = None
        /\ OpeningRow(W(p)) # NoRow => OpeningRow(W(p)).status = "PROCESSED"
    BY DEF OpeningRow, ProcessedRow, PendingRow, NoRow
  <2>4. KeysFree(p)'
    BY <2>1, <2>2 DEF KeysFree, Inserting, FindByPlayerAndCurrency, W, R
  <2>5. SweepsWaitingRow(p)' /\ MovesForward(p)' /\ ReversalFits(p)'
    BY <2>1, <2>2, <2>3 DEF SweepsWaitingRow, MovesForward, ReversalFits, WritingLabels
  <2>6. ~Inserting(p)' /\ job'[p] = job[p]
    BY <2>1, <2>2 DEF Inserting
  <2> QED BY <2>1, <2>4, <2>5, <2>6, QuietRows DEF RowWorkOK
<1> QED BY <1>1, <1>2

\* The entries of the two indexes of wager_transaction are p's.
LEMMA InsertTransactionRows ==
  ASSUME RowInv, LedgerInv', NEW p \in Proc, InsertTransaction(p)
  PROVE  RowInv'
<1> USE DEF RowInv, LedgerInv, ControlInv
<1>1. CASE Fail(p, "UniqueConstraint")
  BY <1>1, FailRows
<1>2. CASE ~Fail(p, "UniqueConstraint")
  <2>1. /\ pc[p] = "insertTransaction" /\ HoldersOfTransactionKey(p) = {}
        /\ FindByIdempotencyKey(R(p).key) = {}
        /\ FindByProviderAndExternalId(R(p).ext) = {}
        /\ Beside(p) /\ UNCHANGED <<wallets, txs, job, ref>>
        /\ buf'[p].row = PendingRow /\ buf'[p].wallet = buf[p].wallet
        /\ pc'[p] = "checkForeignKey"
    BY <1>2 DEF InsertTransaction, TransactionKeyViolation, BlockedBy, Goto, Beside, db,
                TypeOK, Buffers
  <2>2. job[p].op = "process" /\ ref[p] = None
    BY <2>1 DEF ControlOK, RowWorkOK, MovesForward, WritingLabels, HandlerLabels
  <2>3. PendingRow.reference = None
    BY DEF PendingRow, NoRow
  <2>4. KeysFree(p)'
    BY <2>1, <2>2 DEF KeysFree, Creating, FindByIdempotencyKey,
       FindByProviderAndExternalId, Committed, R
  <2>5. SweepsWaitingRow(p)' /\ MovesForward(p)' /\ ReversalFits(p)'
    BY <2>1, <2>2, <2>3 DEF SweepsWaitingRow, MovesForward, ReversalFits, WritingLabels,
       BeforeDecision
  <2>6. ~Creating(p)' /\ job'[p] = job[p]
    BY <2>1, <2>2 DEF Creating
  <2> QED BY <2>1, <2>4, <2>5, <2>6, QuietRows DEF RowWorkOK
<1> QED BY <1>1, <1>2

\* A statement that leaves the row undecided.
LEMMA KeepRows ==
  ASSUME RowInv, LedgerInv', NEW p \in Proc, pc[p] \in WritingLabels, Beside(p),
         UNCHANGED <<wallets, txs, job, buf>>,
         lock'[p] = lock[p] \/ lock[p] = "none",
         pc'[p] \in WritingLabels,
         pc'[p] \in {"checkForeignKey", "findReference"} => ref'[p] = None,
         ref'[p] # None => ref'[p] = ref[p] \/ PointsTo(job[p].id, ref'[p])
  PROVE  RowInv'
<1>1. RowWorkOK(p)
  BY DEF RowInv
<1>2. R(p)' = R(p) /\ W(p)' = W(p) /\ (Inserting(p)' <=> Inserting(p)) /\ ~Creating(p)'
  BY UndecidedRow DEF R, W, Inserting, Creating
<1>3. KeysFree(p)'
  BY <1>1, <1>2 DEF RowWorkOK, KeysFree, FindByIdempotencyKey, FindByProviderAndExternalId,
     Committed
<1>4. SweepsWaitingRow(p)' /\ MovesForward(p)'
  BY <1>1, UndecidedRow DEF RowWorkOK, SweepsWaitingRow, MovesForward, BeforeDecision,
     WritingLabels
<1>5. ReversalFits(p)'
  BY <1>1, UndecidedRow DEF RowWorkOK, ReversalFits, PointsTo
<1> QED BY <1>2, <1>3, <1>4, <1>5, QuietRows DEF RowWorkOK

\* A statement that decides the row.
LEMMA DecideRows ==
  ASSUME RowInv, LedgerInv', NEW p \in Proc, pc[p] \in WritingLabels, Beside(p),
         UNCHANGED <<wallets, txs, job, ref>>,
         lock'[p] = lock[p] \/ lock[p] # "Update",
         pc'[p] = "commit", buf'[p].row # NoRow,
         buf'[p].row.status \in {"PENDING_REFERENCE", "PROCESSED", "REJECTED"},
         \/ buf'[p].row.attempts = buf[p].row.attempts + 1
         \/ /\ buf'[p].row.attempts = buf[p].row.attempts
            /\ buf'[p].row.status # "PENDING_REFERENCE" \/ job[p].op = "process",
         buf'[p].row.reference # None =>
           /\ buf'[p].row.reference = ref[p]
           /\ buf'[p].row.status = "PROCESSED" /\ buf'[p].wallet # None
           /\ FindActiveReversalOf(ref[p], R(p).kind) \ {job[p].id} = {}
  PROVE  RowInv'
<1>1. RowWorkOK(p)
  BY DEF RowInv
<1>2. /\ R(p)' = R(p) /\ W(p)' = W(p) /\ ~Creating(p)'
      /\ Inserting(p)' => Inserting(p)
  BY UndecidedRow DEF R, W, Inserting, Creating
<1>3. KeysFree(p)'
  BY <1>1, <1>2 DEF RowWorkOK, KeysFree, FindByIdempotencyKey, FindByProviderAndExternalId,
     Committed
<1>4. SweepsWaitingRow(p)' /\ MovesForward(p)'
  BY <1>1, UndecidedRow DEF RowWorkOK, SweepsWaitingRow, MovesForward, BeforeDecision,
     WritingLabels
<1>5. ReversalFits(p)'
  <2>1. ref[p] # None => PointsTo(job[p].id, ref[p])
    BY <1>1 DEF RowWorkOK, ReversalFits
  <2>2. ASSUME buf'[p].row.reference # None, NEW s \in Committed \ {job[p].id},
               txs[s].reference = buf'[p].row.reference, Req(s).kind = R(p).kind
        PROVE  FALSE
    <3>1. s \in TxId /\ txs[s].status = "PROCESSED"
      BY <2>2 DEF Committed, RowInv, RowTablesOK, ReferencesFit
    <3>2. s \in FindActiveReversalOf(ref[p], R(p).kind)
      BY <2>2, <3>1 DEF FindActiveReversalOf, ActiveStatuses
    <3> QED BY <2>2, <3>2
  <2> QED BY <1>2, <2>1, <2>2, UndecidedRow DEF ReversalFits, PointsTo, Committed
<1> QED BY <1>2, <1>3, <1>4, <1>5, QuietRows DEF RowWorkOK

LEMMA KeepingRows ==
  ASSUME RowInv, LedgerInv', NEW p \in Proc, CheckForeignKey(p) \/ ReadTransaction(p)
  PROVE  RowInv'
<1> USE DEF RowInv, LedgerInv, ControlInv
<1>1. CASE CheckForeignKey(p)
  <2>1. /\ pc[p] = "checkForeignKey" /\ Beside(p) /\ UNCHANGED <<wallets, txs, job, buf, ref>>
        /\ lock'[p] = lock[p] \/ lock[p] = "none"
        /\ pc'[p] \in {"findReference", "apply"}
    BY <1>1 DEF CheckForeignKey, Goto, Beside, db, TypeOK
  <2>2. ref[p] = None
    BY <2>1 DEF RowWorkOK, MovesForward
  <2> QED BY <2>1, <2>2, KeepRows DEF WritingLabels
<1>2. CASE ReadTransaction(p)
  <2>1. /\ pc[p] = "readTransaction" /\ job[p].op = "reprocess" /\ lock[p] = "Update"
        /\ buf[p].row = NoRow /\ ref[p] = None /\ buf[p].wallet = None
    BY <1>2 DEF ReadTransaction, ControlOK, RowWorkOK, SweepsWaitingRow, MovesForward,
       WritingLabels, WalletsOpen
  <2>2. CASE StillWaiting(job[p].id)
    <3>1. /\ Beside(p) /\ UNCHANGED <<wallets, txs, job, lock, ref>>
          /\ buf'[p].row = txs[job[p].id] /\ buf'[p].wallet = None
          /\ pc'[p] = "findReference"
      BY <1>2, <2>1, <2>2 DEF ReadTransaction, Goto, Beside, db, TypeOK, Buffers
    <3>2. job[p].id \in TxId /\ txs[job[p].id].status = "PENDING_REFERENCE"
      BY <2>1, <2>2, JobIds DEF StillWaiting
    <3>3. txs[job[p].id].reference = None
      BY <3>2 DEF RowTablesOK, ReferencesFit
    <3>4. ~Inserting(p)' /\ ~Creating(p)'
      BY <2>1, <3>1 DEF Inserting, Creating
    <3>5. RowWorkOK(p)'
      BY <2>1, <3>1, <3>2, <3>3, <3>4 DEF RowWorkOK, KeysFree, SweepsWaitingRow,
         MovesForward, ReversalFits, BeforeDecision, WritingLabels
    <3> QED BY <3>1, <3>4, <3>5, QuietRows
  <2>3. CASE ~StillWaiting(job[p].id)
    <3>1. /\ Beside(p) /\ UNCHANGED <<wallets, txs, buf, ref>> /\ pc'[p] = "commit"
      BY <1>2, <2>3 DEF ReadTransaction, Goto, Beside, db, TypeOK
    <3> QED BY <2>1, <3>1, RestRows DEF WritingLabels
  <2> QED BY <2>2, <2>3
<1> QED BY <1>1, <1>2

\* A rejection names no reference.
LEMMA RejectRows ==
  ASSUME RowInv, LedgerInv', NEW p \in Proc, pc[p] \in WritingLabels, NEW code,
         Reject(p, code), UNCHANGED <<db, job, snap, ref, lock>>
  PROVE  RowInv'
<1> USE DEF RowInv, LedgerInv, ControlInv
<1> DEFINE row == [RejectedRow(buf[p].row, code) EXCEPT
                     !.observed = Observed(p, snap[p].balance)]
<1>1. buf[p] \in Buffers /\ buf[p].row \in Rows
  BY DEF TypeOK, Buffers
<1>2. /\ row.status = "REJECTED" /\ row.attempts = buf[p].row.attempts
      /\ row.reference = buf[p].row.reference
  BY <1>1 DEF RejectedRow, Rows
<1> HIDE DEF row
<1>3. /\ buf' = [buf EXCEPT ![p].row = row, ![p].events = {"WagerTransactionRejected"}]
      /\ pc' = [pc EXCEPT ![p] = "commit"]
      /\ \A q \in Proc \ {p} : reply'[q] = reply[q]
  BY DEF Reject, row, Answer, Goto, TypeOK
<1>4. Beside(p) /\ buf'[p].row = row /\ pc'[p] = "commit"
  BY <1>1, <1>3 DEF Beside, TypeOK, Buffers
<1>5. row # NoRow
  BY <1>2 DEF NoRow
<1> QED BY <1>2, <1>4, <1>5, UndecidedRow, DecideRows DEF db

LEMMA FindReferenceRows ==
  ASSUME RowInv, LedgerInv', NEW p \in Proc, FindReference(p)
  PROVE  RowInv'
<1> USE DEF RowInv, LedgerInv, ControlInv
<1>1. /\ pc[p] = "findReference" /\ pc[p] \in WritingLabels
      /\ UNCHANGED <<db, job, snap, lock>>
      /\ buf[p] \in Buffers /\ buf[p].row \in Rows
  BY DEF FindReference, WritingLabels, TypeOK, Buffers
<1>2. CASE ParkReversal(p) /\ Goto(p, "commit") /\ UNCHANGED ref
  <2> DEFINE row == [buf[p].row EXCEPT !.status = "PENDING_REFERENCE"]
  <2>1. /\ row.status = "PENDING_REFERENCE" /\ row.attempts = buf[p].row.attempts
        /\ row.reference = buf[p].row.reference
    BY <1>1 DEF Rows
  <2> HIDE DEF row
  <2>2. /\ buf' = [buf EXCEPT ![p].row = row,
                              ![p].events = {"WagerTransactionPendingReference"}]
        /\ pc' = [pc EXCEPT ![p] = "commit"] /\ job[p].op = "process"
        /\ \A q \in Proc \ {p} : reply'[q] = reply[q]
    BY <1>2 DEF ParkReversal, row, Answer, Goto, TypeOK
  <2>3. Beside(p) /\ buf'[p].row = row /\ pc'[p] = "commit"
    BY <1>1, <1>2, <2>2 DEF Beside, TypeOK, Buffers
  <2>4. row # NoRow
    BY <2>1 DEF NoRow
  <2> QED BY <1>1, <1>2, <2>1, <2>2, <2>3, <2>4, UndecidedRow, DecideRows DEF db
<1>3. CASE RetryReversal(p) /\ Goto(p, "commit") /\ UNCHANGED ref
  <2>1. \E row :
          /\ row.attempts = buf[p].row.attempts + 1
          /\ row.reference = buf[p].row.reference
          /\ row.status \in {"REJECTED", buf[p].row.status}
          /\ Beside(p) /\ buf'[p].row = row /\ pc'[p] = "commit"
    <3> DEFINE row == CountAttempt(buf[p].row)
               rejected == RejectedRow(row, "REFERENCE_NOT_FOUND")
    <3>1. /\ row.attempts = buf[p].row.attempts + 1
          /\ row.reference = buf[p].row.reference /\ row.status = buf[p].row.status
          /\ rejected.attempts = row.attempts /\ rejected.reference = row.reference
          /\ rejected.status = "REJECTED"
      BY <1>1 DEF CountAttempt, RejectedRow, Rows
    <3>2. \/ buf' = [buf EXCEPT ![p].row = rejected,
                                ![p].events = {"WagerTransactionRejected"}]
          \/ buf' = [buf EXCEPT ![p].row = row]
      BY <1>3 DEF RetryReversal
    <3>3. pc' = [pc EXCEPT ![p] = "commit"] /\ UNCHANGED reply
      BY <1>3 DEF RetryReversal, Goto
    <3> HIDE DEF row, rejected
    <3>4. CASE buf' = [buf EXCEPT ![p].row = rejected,
                                  ![p].events = {"WagerTransactionRejected"}]
      <4>1. Beside(p) /\ buf'[p].row = rejected /\ pc'[p] = "commit"
        BY <1>1, <1>3, <3>3, <3>4 DEF Beside, TypeOK, Buffers
      <4> QED BY <3>1, <4>1
    <3>5. CASE buf' = [buf EXCEPT ![p].row = row]
      <4>1. Beside(p) /\ buf'[p].row = row /\ pc'[p] = "commit"
        BY <1>1, <1>3, <3>3, <3>5 DEF Beside, TypeOK, Buffers
      <4> QED BY <3>1, <4>1
    <3> QED BY <3>2, <3>4, <3>5
  <2>2. PICK row :
          /\ row.attempts = buf[p].row.attempts + 1
          /\ row.reference = buf[p].row.reference
          /\ row.status \in {"REJECTED", buf[p].row.status}
          /\ Beside(p) /\ buf'[p].row = row /\ pc'[p] = "commit"
    BY <2>1
  <2>3. job[p].op = "reprocess" /\ buf[p].row.status = "PENDING_REFERENCE"
    BY <1>1, <1>3, UndecidedRow DEF RetryReversal, BeforeDecision
  <2>4. row # NoRow
    BY <2>2, <2>3 DEF NoRow
  <2> QED BY <1>1, <1>3, <2>2, <2>3, <2>4, UndecidedRow, DecideRows DEF db
<1>4. ASSUME NEW t \in UsableReference(p), Reject(p, ReferenceFailure(R(p), Req(t))),
             UNCHANGED ref
      PROVE  RowInv'
  BY <1>1, <1>4, RejectRows
<1>5. ASSUME NEW t \in UsableReference(p), ReferenceFailure(R(p), Req(t)) = NoFailure,
             ref' = [ref EXCEPT ![p] = t], Goto(p, "findReversal"),
             UNCHANGED <<buf, reply>>
      PROVE  RowInv'
  <2>1. PointsTo(job[p].id, t)
    BY <1>5 DEF PointsTo, UsableReference, FindByProviderAndExternalId, Committed, R
  <2>2. Beside(p) /\ pc'[p] = "findReversal" /\ ref'[p] = t
    BY <1>1, <1>5 DEF Beside, TypeOK, Goto
  <2> QED BY <1>1, <1>5, <2>1, <2>2, KeepRows DEF db, WritingLabels
<1> QED BY <1>2, <1>3, <1>4, <1>5 DEF FindReference

LEMMA FindReversalRows ==
  ASSUME RowInv, LedgerInv', NEW p \in Proc, FindReversal(p)
  PROVE  RowInv'
<1> USE DEF RowInv, LedgerInv, ControlInv
<1>1. pc[p] = "findReversal" /\ UNCHANGED <<db, job, snap, ref, lock>>
  BY DEF FindReversal
<1>2. CASE Reject(p, "ALREADY_REVERSED")
  BY <1>1, <1>2, RejectRows DEF WritingLabels
<1>3. CASE Goto(p, "apply") /\ UNCHANGED <<buf, reply>>
  <2>1. Beside(p) /\ pc'[p] = "apply"
    BY <1>1, <1>3 DEF Beside, TypeOK, Goto
  <2> QED BY <1>1, <1>3, <2>1, KeepRows DEF db, WritingLabels
<1> QED BY <1>2, <1>3 DEF FindReversal

LEMMA ApplyRows ==
  ASSUME RowInv, LedgerInv', NEW p \in Proc, Apply(p)
  PROVE  RowInv'
<1> USE DEF RowInv, LedgerInv, ControlInv
<1> DEFINE row == ProcessedRow(buf[p].row, ref[p], Observed(p, snap[p].balance))
<1>1. /\ pc[p] = "apply" /\ pc[p] \in WritingLabels
      /\ UNCHANGED <<db, job, snap, ref, lock>>
      /\ buf[p] \in Buffers /\ buf[p].row \in Rows
  BY DEF Apply, WritingLabels, TypeOK, Buffers
<1>2. ASSUME NEW code, Reject(p, code) PROVE RowInv'
  BY <1>1, <1>2, RejectRows
<1>3. CASE Goto(p, "saveWallet") /\ UNCHANGED <<buf, reply>>
  <2>1. Beside(p) /\ pc'[p] = "saveWallet"
    BY <1>1, <1>3 DEF Beside, TypeOK, Goto
  <2> QED BY <1>1, <1>3, <2>1, KeepRows DEF db, WritingLabels
<1>4. CASE /\ ~AffectsBalance(R(p).kind)
           /\ buf' = [buf EXCEPT ![p].row = row,
                                 ![p].events = {"WagerTransactionProcessed"}]
           /\ Answer(p, Persisted(job[p].id, row, snap[p].balance))
           /\ Goto(p, "commit")
  <2>1. ref[p] = None
    <3>1. ref[p] # None => ReferenceFailure(R(p), Req(ref[p])) = NoFailure
      BY DEF RowWorkOK, ReversalFits, PointsTo, R
    <3> QED BY <1>4, <3>1, ReferenceRules
  <2>2. /\ row.status = "PROCESSED" /\ row.attempts = buf[p].row.attempts
        /\ row.reference = None
    BY <1>1, <2>1 DEF ProcessedRow, Rows
  <2> HIDE DEF row
  <2>3. /\ pc' = [pc EXCEPT ![p] = "commit"]
        /\ \A q \in Proc \ {p} : reply'[q] = reply[q]
    BY <1>4 DEF Answer, Goto, TypeOK
  <2>4. Beside(p) /\ buf'[p].row = row /\ pc'[p] = "commit"
    BY <1>1, <1>4, <2>3 DEF Beside, TypeOK, Buffers
  <2>5. row # NoRow
    BY <2>2 DEF NoRow
  <2> QED BY <1>1, <2>2, <2>4, <2>5, DecideRows DEF db
<1> QED BY <1>2, <1>3, <1>4 DEF Apply

\* The row that books a movement; the index on reversals has been asked.
LEMMA SaveWalletRows ==
  ASSUME RowInv, LedgerInv', NEW p \in Proc, SaveWallet(p)
  PROVE  RowInv'
<1> USE DEF RowInv, LedgerInv, ControlInv
<1> DEFINE entry == Entry(job[p].id, Direction(p), snap[p].balance)
           row == ProcessedRow(buf[p].row, ref[p], entry.after)
           wallet == [open |-> TRUE, balance |-> entry.after,
                      version |-> snap[p].version + 1]
<1>1. CASE \E e : Fail(p, e)
  BY <1>1, FailRows
<1>2. CASE ~\E e : Fail(p, e)
  <2>1. /\ pc[p] = "saveWallet" /\ ~IndexViolation(p)
        /\ lock' = [lock EXCEPT ![p] = IF @ = "Update" THEN @ ELSE "NoKeyUpdate"]
        /\ buf' = [buf EXCEPT
             ![p].row = row, ![p].wallet = wallet, ![p].entry = entry,
             ![p].events = {"WagerTransactionProcessed", "WalletBalanceChanged"}]
        /\ UNCHANGED <<db, job, snap, ref>>
        /\ Answer(p, Persisted(job[p].id, row, entry.after))
        /\ pc' = [pc EXCEPT ![p] = "commit"]
    BY <1>2 DEF SaveWallet, Goto
  <2>2. buf[p] \in Buffers /\ buf[p].row \in Rows
    BY DEF TypeOK, Buffers
  <2>3. /\ row.status = "PROCESSED" /\ row.attempts = buf[p].row.attempts
        /\ row.reference = ref[p]
    BY <2>2 DEF ProcessedRow, Rows
  <2>4. wallet # None
    <3>1. /\ job[p].id \in TxId /\ snap[p] # None /\ snap[p].balance \in Nat
          /\ snap[p].version \in Nat
      <4> HIDE DEF entry, row, wallet
      <4>1. snap[p] # None /\ job[p] # NoJob
        BY <2>1 DEF ControlOK, DecidingLabels
      <4>2. snap[p] \in WalletRows
        BY <4>1 DEF TypeOK
      <4> QED BY <4>1, <4>2, JobIds DEF WalletRows
    <3>2. MovementFailure(R(p), Direction(p), snap[p].balance,
                          WalletInfo[W(p)].currency) = NoFailure
      BY <2>1 DEF ControlOK
    <3>3. Direction(p) \in {"CREDIT", "DEBIT"}
      BY DEF Direction, LedgerDirection
    <3>4. entry.after \in Nat
      BY <3>1, <3>2, <3>3, AcceptedMovement DEF R, Entries
    <3> HIDE DEF entry
    <3>5. wallet \in WalletRows
      BY <3>1, <3>4 DEF WalletRows
    <3> QED BY <3>5, NullAssumption
  <2>5. ref[p] # None => FindActiveReversalOf(ref[p], R(p).kind) \ {job[p].id} = {}
    <3>1. ref[p] # None => ReferenceFailure(R(p), Req(ref[p])) = NoFailure
      BY DEF RowWorkOK, ReversalFits, PointsTo, R
    <3> QED BY <2>1, <3>1, ReferenceRules DEF IndexViolation
  <2> HIDE DEF entry, row, wallet
  <2>6. /\ \A q \in Proc \ {p} : reply'[q] = reply[q]
        /\ lock'[p] = lock[p] \/ lock[p] # "Update"
    BY <2>1 DEF Answer, TypeOK
  <2>7. /\ Beside(p) /\ buf'[p].row = row /\ buf'[p].wallet = wallet
        /\ pc'[p] = "commit"
    BY <2>1, <2>2, <2>6 DEF Beside, TypeOK, Buffers
  <2>8. row # NoRow
    BY <2>3 DEF NoRow
  <2> QED BY <2>1, <2>3, <2>4, <2>5, <2>6, <2>7, <2>8, DecideRows DEF db, WritingLabels
<1> QED BY <1>1, <1>2

-----------------------------------------------------------------------------
(* COMMIT                                                                  *)

\* The row a unit of work publishes was not there, or waited.
LEMMA OldRow ==
  ASSUME RowInv, NEW p \in Proc, pc[p] = "commit", buf[p].row # NoRow
  PROVE  /\ job[p] # NoJob /\ job[p].id \in TxId
         /\ job[p].op = "reprocess" => txs[job[p].id].status = "PENDING_REFERENCE"
         /\ job[p].op # "reprocess" => job[p].id \notin Committed
         /\ txs[job[p].id].status \in {"ABSENT", "PENDING_REFERENCE"}
         /\ buf[p].row.status \in {"PENDING_REFERENCE", "PROCESSED", "REJECTED"}
<1> USE DEF RowInv, LedgerInv, ControlInv
<1>1. /\ job[p] # NoJob /\ job[p].id \in TxId
      /\ job[p].op \in {"process", "reprocess", "create"}
  BY JobIds DEF ControlOK
<1>2. job[p].op = "reprocess" => txs[job[p].id].status = "PENDING_REFERENCE"
  BY DEF RowWorkOK, SweepsWaitingRow
<1>3. job[p].op = "process" => job[p].id \notin Committed
  BY DEF RowWorkOK, KeysFree, Inserting, FindByIdempotencyKey, R
<1>4. job[p].op = "create" => job[p].id \notin Committed
  <2> SUFFICES ASSUME job[p].op = "create" PROVE job[p].id \notin Committed
    OBVIOUS
  <2>1. buf[p].wallet # None
    BY DEF WalletsOpen
  <2>2. ~wallets[W(p)].open
    BY <2>1 DEF LedgerCore, CreatedOnce
  <2> QED BY <2>2 DEF WalletsOpen, W, R
<1>5. buf[p].row.status \in {"PENDING_REFERENCE", "PROCESSED", "REJECTED"}
  BY DEF RowWorkOK, MovesForward
<1> QED BY <1>1, <1>2, <1>3, <1>4, <1>5 DEF Committed

\* What COMMIT does to the rows.
LEMMA CommitEffect ==
  ASSUME RowInv, NEW p \in Proc, Commit(p)
  PROVE  /\ pc[p] = "commit" /\ job[p] # NoJob /\ job[p].id \in TxId /\ W(p) \in Wallet
         /\ Beside(p) /\ UNCHANGED <<job, reply>>
         /\ buf'[p] = NoWrites /\ ref'[p] = None /\ pc'[p] = "done"
         /\ \A q \in Proc : R(q)' = R(q) /\ W(q)' = W(q)
         /\ \A s \in TxId : s # job[p].id \/ buf[p].row = NoRow => txs'[s] = txs[s]
         /\ buf[p].row # NoRow => txs'[job[p].id] = buf[p].row
         /\ \A v \in Wallet : v # W(p) \/ buf[p].wallet = None => wallets'[v] = wallets[v]
         /\ buf[p].wallet # None => wallets'[W(p)] = buf[p].wallet
         /\ Committed' = IF buf[p].row # NoRow THEN Committed \cup {job[p].id} ELSE Committed
<1> USE DEF RowInv, LedgerInv, ControlInv
<1>1. pc[p] = "commit" /\ job[p] # NoJob /\ job[p].id \in TxId /\ W(p) \in Wallet
  BY JobIds, JobFields DEF Commit, ControlOK
<1>2. /\ Beside(p) /\ UNCHANGED <<job, reply>>
      /\ buf'[p] = NoWrites /\ ref'[p] = None /\ pc'[p] = "done"
  BY DEF Commit, EndTransaction, Goto, Beside, TypeOK
<1>3. \A q \in Proc : R(q)' = R(q) /\ W(q)' = W(q)
  BY <1>2 DEF R, W
<1>4. txs' = IF buf[p].row # NoRow THEN [txs EXCEPT ![job[p].id] = buf[p].row] ELSE txs
  BY DEF Commit
<1>5. wallets' = IF buf[p].wallet # None
                 THEN [wallets EXCEPT ![W(p)] = buf[p].wallet] ELSE wallets
  BY DEF Commit
<1>6. /\ \A s \in TxId : s # job[p].id \/ buf[p].row = NoRow => txs'[s] = txs[s]
      /\ buf[p].row # NoRow => txs'[job[p].id] = buf[p].row
  BY <1>1, <1>4 DEF TypeOK
<1>7. /\ \A v \in Wallet : v # W(p) \/ buf[p].wallet = None => wallets'[v] = wallets[v]
      /\ buf[p].wallet # None => wallets'[W(p)] = buf[p].wallet
  BY <1>1, <1>5 DEF TypeOK
<1>8. Committed' = IF buf[p].row # NoRow THEN Committed \cup {job[p].id} ELSE Committed
  <2>1. buf[p].row # NoRow => buf[p].row.status # "ABSENT"
    BY DEF WalletsOpen
  <2> QED BY <1>1, <1>6, <2>1 DEF Committed
<1> QED BY <1>1, <1>2, <1>3, <1>6, <1>7, <1>8

\* A wallet is opened by COMMIT only of its creation.
LEMMA CommitOpens ==
  ASSUME RowInv, NEW p \in Proc, Commit(p), NEW v \in Wallet,
         wallets'[v].open, ~wallets[v].open
  PROVE  v = W(p) /\ Creating(p)
<1> USE DEF RowInv, LedgerInv, ControlInv
<1>1. v = W(p) /\ buf[p].wallet # None
  BY CommitEffect
<1>2. job[p].op = "create"
  BY <1>1 DEF LedgerCore, WritesContinueWallet, WalletsOpen
<1> QED BY <1>1, <1>2 DEF Creating

\* The tables after a COMMIT.
LEMMA CommitTables ==
  ASSUME RowInv, NEW p \in Proc, Commit(p)
  PROVE  RowTablesOK'
<1> USE DEF RowInv, RowTablesOK, RowWorkOK
<1> DEFINE t == job[p].id
<1>1. pc[p] = "commit" /\ t \in TxId
  BY CommitEffect
<1>2. OneWalletPerPlayer'
  <2> SUFFICES ASSUME NEW v \in Wallet, NEW w \in Wallet, v # w,
                      wallets'[v].open, wallets'[w].open
               PROVE  ~SamePurse(v, w)
    BY DEF OneWalletPerPlayer
  <2>1. CASE wallets[v].open /\ wallets[w].open
    BY <2>1 DEF OneWalletPerPlayer
  <2>2. CASE ~wallets[v].open
    <3>1. v = W(p) /\ Creating(p)
      BY <2>2, CommitOpens
    <3>2. wallets[w].open
      BY <3>1, CommitEffect
    <3> QED BY <3>1, <3>2 DEF KeysFree, FindByPlayerAndCurrency, SamePurse
  <2>3. CASE ~wallets[w].open
    <3>1. w = W(p) /\ Creating(p)
      BY <2>3, CommitOpens
    <3>2. wallets[v].open
      BY <3>1, CommitEffect
    <3> QED BY <3>1, <3>2 DEF KeysFree, FindByPlayerAndCurrency, SamePurse
  <2> QED BY <2>1, <2>2, <2>3
<1>3. OperationAcceptedOnce'
  <2>1. ASSUME NEW s \in Committed, buf[p].row # NoRow, s # t
        PROVE  Req(s).key # Req(t).key /\ Req(s).ext # Req(t).ext
    <3>1. s \in TxId
      BY DEF Committed
    <3>2. CASE job[p].op = "process"
      BY <2>1, <3>1, <3>2 DEF KeysFree, Inserting, FindByIdempotencyKey,
         FindByProviderAndExternalId, R
    <3>3. CASE job[p].op = "create"
      <4>1. t \in Wallet /\ t \notin Cmd
        BY <1>1, <3>3, JobIds, KeyFields DEF LedgerInv, ControlInv
      <4> QED BY <2>1, <3>1, <4>1, <1>1, KeyFields
    <3>4. CASE job[p].op = "reprocess"
      <4>1. t \in Committed
        BY <1>1, <2>1, <3>4, OldRow DEF Committed
      <4> QED BY <2>1, <4>1 DEF OperationAcceptedOnce
    <3> QED BY <1>1, <2>1, <3>2, <3>3, <3>4, OldRow, JobIds DEF LedgerInv, ControlInv
  <2>2. Committed' \subseteq Committed \cup {t}
        /\ (t \in Committed' /\ t \notin Committed => buf[p].row # NoRow)
    BY CommitEffect
  <2> SUFFICES ASSUME NEW s \in Committed', NEW u \in Committed', s # u
               PROVE  Req(s).key # Req(u).key /\ Req(s).ext # Req(u).ext
    BY DEF OperationAcceptedOnce
  <2>3. CASE s \in Committed /\ u \in Committed
    BY <2>3 DEF OperationAcceptedOnce
  <2>4. CASE s \notin Committed
    BY <2>1, <2>2, <2>4
  <2>5. CASE u \notin Committed
    BY <2>1, <2>2, <2>5
  <2> QED BY <2>3, <2>4, <2>5
<1>4. \A s \in TxId : txs[s].status = "PROCESSED" => txs'[s] = txs[s]
  BY CommitEffect, OldRow
<1>5. \A r, s : PointsTo(r, s) => PointsTo(r, s)'
  BY <1>4 DEF PointsTo
<1>6. ReferencesFit'
  <2> SUFFICES ASSUME NEW s \in TxId, txs'[s].reference # None
               PROVE  txs'[s].status = "PROCESSED" /\ PointsTo(s, txs[s].reference)'
    BY DEF ReferencesFit
  <2>1. CASE s # t \/ buf[p].row = NoRow
    BY <1>5, <2>1, CommitEffect DEF ReferencesFit
  <2>2. CASE s = t /\ buf[p].row # NoRow
    <3>1. txs'[s] = buf[p].row
      BY <2>2, CommitEffect
    <3>2. txs'[s].status = "PROCESSED" /\ PointsTo(s, txs'[s].reference)
      BY <2>2, <3>1 DEF ReversalFits
    <3> QED BY <1>5, <3>2
  <2> QED BY <2>1, <2>2
<1>7. OneReversalPerKind'
  <2>1. ASSUME buf[p].row # NoRow, buf[p].row.reference # None,
               NEW s \in Committed, s # t, txs[s].reference = buf[p].row.reference
        PROVE  Req(s).kind # Req(t).kind
    BY <2>1 DEF ReversalFits, R
  <2> SUFFICES ASSUME NEW s \in Committed', NEW u \in Committed', s # u,
                      txs'[s].status = "PROCESSED", txs'[u].status = "PROCESSED",
                      txs'[s].reference # None, txs'[s].reference = txs'[u].reference
               PROVE  Req(s).kind # Req(u).kind
    BY DEF OneReversalPerKind
  <2>2. s \in TxId /\ u \in TxId
    BY DEF Committed
  <2>3. CASE buf[p].row = NoRow \/ (s # t /\ u # t)
    <3>1. /\ txs'[s] = txs[s] /\ txs'[u] = txs[u]
          /\ s \in Committed /\ u \in Committed
      BY <2>2, <2>3, CommitEffect
    <3> QED BY <3>1 DEF OneReversalPerKind
  <2>4. CASE buf[p].row # NoRow /\ s = t
    <3>1. txs'[s] = buf[p].row /\ txs'[u] = txs[u] /\ u \in Committed
      BY <2>2, <2>4, CommitEffect
    <3> QED BY <2>1, <2>4, <3>1
  <2>5. CASE buf[p].row # NoRow /\ u = t
    <3>1. txs'[u] = buf[p].row /\ txs'[s] = txs[s] /\ s \in Committed
      BY <2>2, <2>5, CommitEffect
    <3> QED BY <2>1, <2>5, <3>1
  <2> QED BY <2>3, <2>4, <2>5
<1> QED BY <1>2, <1>3, <1>6, <1>7

\* What another process holds is as good after the COMMIT of p.
LEMMA CommitOthers ==
  ASSUME RowInv, NEW p \in Proc, Commit(p), NEW q \in Proc, q # p
  PROVE  RowWorkOK(q)'
<1> USE DEF RowInv, RowWorkOK
<1> DEFINE t == job[p].id
<1>1. /\ pc[p] = "commit" /\ t \in TxId
      /\ job'[q] = job[q] /\ lock'[q] = lock[q] /\ buf'[q] = buf[q] /\ ref'[q] = ref[q]
      /\ pc'[q] = pc[q] /\ R(q)' = R(q) /\ W(q)' = W(q)
  BY CommitEffect DEF Beside
<1>2. KeysFree(q)'
  <2>1. ASSUME Inserting(q), NEW s \in Committed', Req(s).key = R(q).key \/ Req(s).ext = R(q).ext
        PROVE  FALSE
    <3>1. s \in TxId
      BY DEF Committed
    <3>2. s \notin Committed
      BY <2>1, <3>1 DEF KeysFree, FindByIdempotencyKey, FindByProviderAndExternalId
    <3>3. s = t /\ buf[p].row # NoRow
      BY <2>1, <3>2, CommitEffect
    <3>4. job[p].op \in {"process", "create"}
      BY <1>1, <3>2, <3>3, OldRow, JobIds DEF LedgerInv, ControlInv, Committed
    <3>5. CASE job[p].op = "process"
      BY <2>1, <3>3, <3>5 DEF Apart, Inserting, R
    <3>6. CASE job[p].op = "create"
      <4>1. s \in Wallet /\ job[q].id \in Cmd
        BY <2>1, <3>3, <3>6, JobIds DEF LedgerInv, ControlInv, Inserting
      <4>2. Req(s).key = s /\ Req(s).ext = s
        BY <3>1, <4>1, KeyFields
      <4>3. R(q).key \notin Wallet /\ R(q).ext \notin Wallet
        BY <4>1, KeyFields DEF R, TxId
      <4> QED BY <2>1, <4>1, <4>2, <4>3
    <3> QED BY <3>4, <3>5, <3>6
  <2>2. ASSUME Creating(q), NEW v \in Wallet, wallets'[v].open, SamePurse(v, W(q))
        PROVE  FALSE
    <3>1. CASE wallets[v].open
      BY <2>2, <3>1 DEF KeysFree, FindByPlayerAndCurrency
    <3>2. CASE ~wallets[v].open
      BY <2>2, <3>2, CommitOpens DEF Apart
    <3> QED BY <3>1, <3>2
  <2>3. (Inserting(q)' <=> Inserting(q)) /\ (Creating(q)' <=> Creating(q))
    BY <1>1 DEF Inserting, Creating
  <2> QED BY <1>1, <2>1, <2>2, <2>3 DEF KeysFree, FindByIdempotencyKey,
             FindByProviderAndExternalId, FindByPlayerAndCurrency
<1>3. job[q].op = "reprocess" /\ buf[q].row # NoRow => txs'[job[q].id] = txs[job[q].id]
  <2> SUFFICES ASSUME job[q].op = "reprocess", buf[q].row # NoRow,
                      job[q].id = t, buf[p].row # NoRow
               PROVE  FALSE
    BY CommitEffect, JobIds DEF LedgerInv, ControlInv
  <2>1. lock[q] = "Update" /\ txs[t].status = "PENDING_REFERENCE"
    BY DEF SweepsWaitingRow
  <2>2. job[p].op = "reprocess"
    BY <1>1, <2>1, OldRow DEF Committed
  <2>3. lock[p] = "Update" /\ W(p) = W(q)
    BY <2>2 DEF SweepsWaitingRow, W, R
  <2> QED BY <2>1, <2>3 DEF LedgerInv, LedgerCore, LockExclusion, Conflict
<1>4. SweepsWaitingRow(q)'
  BY <1>1, <1>3 DEF SweepsWaitingRow
<1>5. MovesForward(q)'
  <2>1. pc[q] \in WritingLabels => buf[q].row # NoRow
    BY UndecidedRow
  <2> QED BY <1>1, <1>3, <2>1 DEF MovesForward, BeforeDecision
<1>6. \A s \in TxId : txs[s].status = "PROCESSED" => txs'[s] = txs[s]
  BY CommitEffect, OldRow
<1>7. \A r, s : PointsTo(r, s) => PointsTo(r, s)'
  BY <1>6 DEF PointsTo
<1>8. ReversalFits(q)'
  <2>1. ref'[q] # None => PointsTo(job[q].id, ref[q])'
    BY <1>1, <1>7 DEF ReversalFits
  <2>2. ASSUME buf[q].row.reference # None
        PROVE  /\ job[q].op # "create" /\ buf[q].wallet # None
               /\ buf[q].row.status = "PROCESSED"
               /\ PointsTo(job[q].id, buf[q].row.reference)'
    BY <1>1, <1>7, <2>2 DEF ReversalFits
  <2>3. ASSUME buf[q].row.reference # None, NEW s \in Committed', s # job[q].id,
               txs'[s].reference = buf[q].row.reference, Req(s).kind = R(q).kind
        PROVE  FALSE
    <3>1. CASE s # t \/ buf[p].row = NoRow
      <4>1. s \in Committed /\ txs'[s] = txs[s]
        BY <3>1, CommitEffect DEF Committed
      <4> QED BY <2>3, <4>1 DEF ReversalFits
    <3>2. CASE s = t /\ buf[p].row # NoRow
      <4>1. buf[p].row.reference = buf[q].row.reference
        BY <2>3, <3>2, CommitEffect
      <4>2. /\ PointsTo(t, buf[p].row.reference) /\ buf[p].wallet # None
            /\ job[p].op # "create"
            /\ PointsTo(job[q].id, buf[q].row.reference) /\ buf[q].wallet # None
            /\ job[q].op # "create"
        BY <2>3, <4>1 DEF ReversalFits
      <4>3. W(p) = W(q)
        <5>1. Req(t).wallet = Req(buf[p].row.reference).wallet
          BY <4>2, ReferenceRules DEF PointsTo
        <5>2. Req(job[q].id).wallet = Req(buf[q].row.reference).wallet
          BY <4>2, ReferenceRules DEF PointsTo
        <5> QED BY <4>1, <5>1, <5>2 DEF W, R
      <4>4. lock[p] \in {"NoKeyUpdate", "Update"} /\ lock[q] \in {"NoKeyUpdate", "Update"}
        BY <4>2 DEF LedgerInv, LedgerCore, WritesContinueWallet
      <4> QED BY <4>3, <4>4 DEF LedgerInv, LedgerCore, LockExclusion, Conflict
    <3> QED BY <3>1, <3>2
  <2> QED BY <1>1, <2>1, <2>2, <2>3 DEF ReversalFits
<1> QED BY <1>2, <1>4, <1>5, <1>8

LEMMA CommitRows ==
  ASSUME RowInv, LedgerInv', NEW p \in Proc, Commit(p)
  PROVE  RowInv'
<1>1. ~Inserting(p)' /\ ~Creating(p)' /\ NoRow.reference = None
  BY CommitEffect DEF Inserting, Creating, NoWrites, NoRow
<1>2. RowWorkOK(p)'
  BY <1>1, CommitEffect
  DEF RowWorkOK, KeysFree, SweepsWaitingRow, MovesForward, ReversalFits, NoWrites,
      WritingLabels
<1>3. \A q \in Proc : RowWorkOK(q)'
  BY <1>2, CommitOthers
<1>4. \A q \in Proc \ {p} :
        /\ Inserting(q)' <=> Inserting(q)
        /\ Creating(q)' <=> Creating(q)
        /\ R(q)' = R(q) /\ W(q)' = W(q)
  BY CommitEffect DEF Beside, Inserting, Creating
<1>5. \A r \in Proc : \A q \in Proc \ {r} : Apart(r, q)'
  BY <1>1, <1>4 DEF RowInv, Apart
<1> QED BY <1>3, <1>5, CommitTables DEF RowInv

\* Only COMMIT changes the tables.
LEMMA NextCommits ==
  ASSUME Next, db' # db
  PROVE  \E p \in Proc : Commit(p)
<1>1. ASSUME NEW p \in Proc, Step(p) PROVE Commit(p)
  <2>1. \A e : ~Fail(p, e)
    BY DEF Fail
  <2> QED BY <1>1, <2>1 DEF Step, CheckWallet, InsertWallet, LockWallet, FindInbox, ReplaySeen,
             InsertInbox, FindKey, FindExternalId, ReplayOrConflict, ReadWallet,
             InsertTransaction, CheckForeignKey, ReadTransaction, FindReference, FindReversal,
             Apply, SaveWallet, Return, DeadlockVictim
<1>2. ~\E p \in Proc : Crash(p)
  BY DEF Crash
<1> QED BY <1>1, <1>2 DEF Next, Submit, CreateWallet, ListDue, ReprocessNext

-----------------------------------------------------------------------------
\* RowInv is inductive.
LEMMA RowStep == RowInv /\ [Next]_vars => RowInv'
<1> SUFFICES ASSUME RowInv, [Next]_vars PROVE RowInv'
  OBVIOUS
<1>1. LedgerInv'
  BY LedgerStep DEF RowInv
<1>2. CASE UNCHANGED vars
  <2>1. RowTablesOK'
    BY <1>2 DEF vars, RowInv, RowTablesOK, OneWalletPerPlayer, OperationAcceptedOnce,
       OneReversalPerKind, ReferencesFit, PointsTo, Committed
  <2>2. \A q \in Proc : RowWorkOK(q)'
    BY <1>2, OthersKeepRows DEF vars
  <2>3. \A r \in Proc : \A q \in Proc \ {r} : Apart(r, q)'
    BY <1>2 DEF vars, RowInv, Apart, Inserting, Creating, R, W
  <2> QED BY <1>1, <2>1, <2>2, <2>3 DEF RowInv
<1>3. CASE \/ \E h \in Handler : \/ \E c \in Cmd : Submit(h, c)
                                 \/ \E w \in Wallet : CreateWallet(h, w)
           \/ \E k \in Worker : ListDue(k) \/ ReprocessNext(k)
  BY <1>1, <1>3, AroundRows
<1>4. ASSUME NEW p \in Proc, Crash(p) PROVE RowInv'
  BY <1>1, <1>4, AroundRows
<1>5. ASSUME NEW p \in Proc, Step(p) PROVE RowInv'
  <2>1. CASE Return(p) \/ DeadlockVictim(p)
    BY <1>1, <2>1, AroundRows, FailRows DEF DeadlockVictim
  <2>2. CASE ~(Return(p) \/ DeadlockVictim(p))
    BY <1>1, <1>5, <2>2, EarlyRows, InsertWalletRows, InsertTransactionRows, KeepingRows,
       FindReferenceRows, FindReversalRows, ApplyRows, SaveWalletRows, CommitRows
    DEF Step
  <2> QED BY <2>1, <2>2
<1> QED BY <1>2, <1>3, <1>4, <1>5 DEF Next

LEMMA RowsCorrect == Spec => []RowInv
<1>1. Init => RowInv
  BY InitRows
<1>2. RowInv /\ [Next]_vars => RowInv'
  BY RowStep
<1> QED BY <1>1, <1>2, PTL DEF Spec

\* A player never gets a second wallet in a currency, however many creations
\* run at once (create-wallet.use-case.ts, wallet_player_currency_uq).
THEOREM PurseHasOneWallet == Spec => []OneWalletPerPlayer
<1>1. RowInv => OneWalletPerPlayer
  BY DEF RowInv, RowTablesOK
<1> QED BY <1>1, RowsCorrect, PTL

\* An operation is accepted once, in whatever order its deliveries and those
\* of others with its key interleave (process-wager-transaction.use-case.ts).
THEOREM AcceptedOnce == Spec => []OperationAcceptedOnce
<1>1. RowInv => OperationAcceptedOnce
  BY DEF RowInv, RowTablesOK
<1> QED BY <1>1, RowsCorrect, PTL

\* A reference is reversed once by each kind: the index is asked under the
\* lock on the wallet of the reference (wager-processing.ts).
THEOREM ReversedOnce == Spec => []OneReversalPerKind
<1>1. RowInv => OneReversalPerKind
  BY DEF RowInv, RowTablesOK
<1> QED BY <1>1, RowsCorrect, PTL

\* No UPDATE overwrites a settled row, and a waiting one only counts up or
\* settles (repositories.ts, transactions.save).
THEOREM RowsOnlyMoveForward == Spec => RowsMoveForward
<1>1. RowInv /\ [Next]_vars =>
        [\A t \in TxId :
           txs'[t] # txs[t] =>
             /\ txs[t].status \in {"ABSENT", "PENDING_REFERENCE"}
             /\ txs'[t].status \in {"PENDING_REFERENCE"} \cup TerminalStatuses
             /\ txs[t].status = "PENDING_REFERENCE" =>
                  \/ txs'[t].attempts = txs[t].attempts + 1
                  \/ /\ txs'[t].status \in TerminalStatuses
                     /\ txs'[t].attempts = txs[t].attempts]_vars
  <2> SUFFICES ASSUME RowInv, Next, NEW t \in TxId, txs'[t] # txs[t]
               PROVE  /\ txs[t].status \in {"ABSENT", "PENDING_REFERENCE"}
                      /\ txs'[t].status \in {"PENDING_REFERENCE"} \cup TerminalStatuses
                      /\ txs[t].status = "PENDING_REFERENCE" =>
                           \/ txs'[t].attempts = txs[t].attempts + 1
                           \/ /\ txs'[t].status \in TerminalStatuses
                              /\ txs'[t].attempts = txs[t].attempts
    OBVIOUS
  <2>1. PICK p \in Proc : Commit(p)
    BY NextCommits DEF db
  <2>2. t = job[p].id /\ buf[p].row # NoRow /\ txs'[t] = buf[p].row
    BY <2>1, CommitEffect
  <2>3. job[p].op = "reprocess" \/ txs[t].status # "PENDING_REFERENCE"
    BY <2>1, <2>2, OldRow, CommitEffect DEF Committed
  <2> QED BY <2>1, <2>2, <2>3, OldRow, CommitEffect
          DEF RowInv, RowWorkOK, MovesForward, TerminalStatuses
<1> QED BY <1>1, RowsCorrect, PTL DEF Spec, RowsMoveForward
=============================================================================
