--------------------------- MODULE WagerInvariants ---------------------------
(***************************************************************************)
(* What is true between the statements of a unit of work: the inductive    *)
(* strengthenings of the safety properties, one on the other: control and  *)
(* types, the wallet and its ledger, the rows, and the movements.          *)
(***************************************************************************)
EXTENDS WagerProcessing

HandlerLabels ==
  {"findInbox", "replaySeen", "insertInbox", "findKey", "findExternalId",
   "readWallet", "insertTransaction", "checkForeignKey"}

MessageLabels == {"findInbox", "replaySeen", "insertInbox"}

\* No SQL transaction is open.
AtRest == {"idle", "done", "failed"}

\* The statements that decide on the wallet they have read.
DecidingLabels ==
  {"insertTransaction", "checkForeignKey", "readTransaction", "findReference",
   "findReversal", "apply", "saveWallet"}

\* The statements that run with the transaction's row in hand.
WritingLabels ==
  {"checkForeignKey", "findReference", "findReversal", "apply", "saveWallet"}

\* Which use case is at which statement, and what it has read by then.
ControlOK ==
  \A p \in Proc :
    /\ pc[p] = "idle" <=> job[p] = NoJob
    /\ pc[p] \in AtRest => snap[p] = None /\ lock[p] = "none" /\ buf[p] = NoWrites
    /\ pc[p] \in {"checkWallet", "insertWallet"} => job[p].op = "create"
    /\ pc[p] \in HandlerLabels => job[p].op = "process"
    /\ pc[p] = "readTransaction" => job[p].op = "reprocess"
    /\ pc[p] \in {"lockWallet", "findReference", "findReversal", "apply", "saveWallet"}
         => job[p].op \in {"process", "reprocess"}
    /\ pc[p] \in MessageLabels \/ buf[p].inbox => R(p).msg # None
    /\ pc[p] \in DecidingLabels => snap[p] # None
    /\ pc[p] \in WritingLabels => buf[p].row.status # "ABSENT"
    /\ pc[p] = "saveWallet" =>
         MovementFailure(R(p), Direction(p), snap[p].balance,
                         WalletInfo[W(p)].currency) = NoFailure

\* A row, a list of due rows, a snapshot and a lock only exist for a wallet
\* that has been created.
WalletsOpen ==
  /\ \A t \in Committed : wallets[Req(t).wallet].open
  /\ \A k \in Worker : due[k] \subseteq Committed
  /\ \A p \in Proc :
       /\ job[p].op = "reprocess" => job[p].id \in Committed
       /\ snap[p] # None => wallets[W(p)].open
       /\ lock[p] # "none" => snap[p] # None
       /\ buf[p].row # NoRow /\ job[p].op # "create" => snap[p] # None
       /\ buf[p].row # NoRow /\ job[p].op = "create" => buf[p].wallet # None
       /\ buf[p].row # NoRow => buf[p].row.status # "ABSENT"
       /\ buf[p].wallet # None => pc[p] = "commit" /\ buf[p].wallet.open
       /\ buf[p].entry # None => buf[p].wallet # None

ControlInv == TypeOK /\ ControlOK /\ WalletsOpen

\* Two units of work never hold conflicting locks on one wallet.
LockExclusion ==
  \A p, q \in Proc :
    p # q /\ lock[p] # "none" /\ lock[q] # "none" /\ W(p) = W(q)
      => ~Conflict(lock[p], lock[q])

\* Versions identify balances: a wallet that still has the version a unit of
\* work has read also has the balance it has read, and never an older one.
SnapshotsAge ==
  \A p \in Proc : snap[p] # None =>
    /\ snap[p].version <= wallets[W(p)].version
    /\ snap[p].version = wallets[W(p)].version => snap[p] = wallets[W(p)]
    /\ lock[p] \in {"NoKeyUpdate", "Update"} => snap[p] = wallets[W(p)]

\* A wallet is about to be created by one process only, and not twice.
CreatedOnce ==
  \A p \in Proc : buf[p].wallet # None /\ job[p].op = "create" =>
    /\ ~wallets[W(p)].open
    /\ \A q \in Proc \ {p} : buf[q].wallet # None => W(q) # W(p)

\* The wallet and the ledger entry a process is about to commit continue the
\* committed wallet.
WritesContinueWallet ==
  \A p \in Proc :
    /\ buf[p].wallet # None /\ job[p].op = "create" =>
         /\ buf[p].wallet = OpenedWallet(W(p))
         /\ buf[p].entry = OpeningEntry(W(p))
    /\ buf[p].wallet # None /\ job[p].op # "create" =>
         /\ lock[p] \in {"NoKeyUpdate", "Update"}
         /\ snap[p] # None
         /\ buf[p].entry # None
         /\ buf[p].entry.before = snap[p].balance
         /\ buf[p].entry.after =
              buf[p].entry.before
                + SignedAmount(buf[p].entry.direction, buf[p].entry.amount)
         /\ buf[p].wallet.balance = buf[p].entry.after
         /\ buf[p].wallet.version = snap[p].version + 1

LedgerCore ==
  /\ LockExclusion
  /\ SnapshotsAge
  /\ CreatedOnce
  /\ WritesContinueWallet
  /\ LedgerExplainsWallet

LedgerInv == ControlInv /\ LedgerCore

-----------------------------------------------------------------------------
(* Rows: what the unique indexes and the row lock keep apart               *)

Inserting(p) == job[p].op = "process" /\ buf[p].row # NoRow
Creating(p) == job[p].op = "create" /\ buf[p].wallet # None

\* Two open transactions never hold entries of one unique index.
Apart(p, q) ==
  /\ Inserting(p) /\ Inserting(q) => R(p).key # R(q).key /\ R(p).ext # R(q).ext
  /\ Creating(p) /\ Creating(q) => ~SamePurse(W(p), W(q))

\* The entries p holds of the unique indexes are not in the tables.
KeysFree(p) ==
  /\ Inserting(p) => /\ FindByIdempotencyKey(R(p).key) = {}
                     /\ FindByProviderAndExternalId(R(p).ext) = {}
  /\ Creating(p) => FindByPlayerAndCurrency(W(p)) = {}

\* A sweeper works on a row that waits, and holds the wallet's lock meanwhile.
SweepsWaitingRow(p) ==
  /\ pc[p] = "readTransaction" => lock[p] = "Update"
  /\ job[p].op = "reprocess" /\ buf[p].row # NoRow =>
       /\ lock[p] = "Update"
       /\ txs[job[p].id].status = "PENDING_REFERENCE"

\* The row of the unit of work, before it is decided and after.
BeforeDecision(p) == IF job[p].op = "reprocess" THEN txs[job[p].id] ELSE PendingRow

MovesForward(p) ==
  /\ pc[p] \notin WritingLabels \cup {"commit"} => buf[p].row = NoRow /\ ref[p] = None
  /\ pc[p] \in {"checkForeignKey", "findReference"} => ref[p] = None
  /\ pc[p] \in WritingLabels => buf[p].row = BeforeDecision(p)
  /\ pc[p] = "commit" /\ buf[p].row # NoRow =>
       /\ buf[p].row.status \in {"PENDING_REFERENCE", "PROCESSED", "REJECTED"}
       /\ job[p].op = "reprocess" =>
            \/ buf[p].row.attempts = txs[job[p].id].attempts + 1
            \/ /\ buf[p].row.status # "PENDING_REFERENCE"
               /\ buf[p].row.attempts = txs[job[p].id].attempts

\* t points to a reference it may reverse.
PointsTo(t, s) ==
  /\ s \in TxId
  /\ txs[s].status = "PROCESSED"
  /\ ReferenceFailure(Req(t), Req(s)) = NoFailure

\* The reversal p settles points to a reference that no other row of its
\* kind points to; the lock on the wallet of both keeps it so.
ReversalFits(p) ==
  /\ ref[p] # None => PointsTo(job[p].id, ref[p])
  /\ buf[p].row.reference # None =>
       /\ job[p].op # "create" /\ buf[p].wallet # None
       /\ buf[p].row.status = "PROCESSED"
       /\ PointsTo(job[p].id, buf[p].row.reference)
       /\ \A s \in Committed \ {job[p].id} :
            ~(txs[s].reference = buf[p].row.reference /\ Req(s).kind = R(p).kind)

RowWorkOK(p) ==
  KeysFree(p) /\ SweepsWaitingRow(p) /\ MovesForward(p) /\ ReversalFits(p)

ReferencesFit ==
  \A t \in TxId : txs[t].reference # None =>
    txs[t].status = "PROCESSED" /\ PointsTo(t, txs[t].reference)

RowTablesOK ==
  OneWalletPerPlayer /\ OperationAcceptedOnce /\ OneReversalPerKind /\ ReferencesFit

RowInv ==
  /\ LedgerInv
  /\ RowTablesOK
  /\ \A p \in Proc : RowWorkOK(p)
  /\ \A p \in Proc : \A q \in Proc \ {p} : Apart(p, q)

-----------------------------------------------------------------------------
(* Movements: rows, entries, events, messages and answers                  *)

KindOf(s) == IF s = None THEN "NONE" ELSE Req(s).kind

\* The entry e is the movement of the row of t.
EntryOf(e, t, row) ==
  /\ e.tx = t
  /\ e.amount = Req(t).amount
  /\ e.after = row.observed
  /\ e.direction = LedgerDirection(Req(t).kind, KindOf(row.reference))

Moves(t, row) == row.status = "PROCESSED" /\ AffectsBalance(Req(t).kind)

\* A row names its reference when its kind has one.
Settled(t, row) ==
  RequiresReference(Req(t).kind) /\ row.status = "PROCESSED" => row.reference # None

\* The rows that move money are those of the ledger's entries.
EntriesFit ==
  \A w \in Wallet : \A i \in 1..Len(ledger[w]) :
    LET t == ledger[w][i].tx IN
      /\ Moves(t, txs[t])
      /\ Req(t).wallet = w
      /\ EntryOf(ledger[w][i], t, txs[t])

EntriesDiffer ==
  \A w \in Wallet : \A i, j \in 1..Len(ledger[w]) :
    ledger[w][i].tx = ledger[w][j].tx => i = j

MovementsEntered ==
  \A t \in TxId : Moves(t, txs[t]) =>
    \E i \in 1..Len(ledger[Req(t).wallet]) : ledger[Req(t).wallet][i].tx = t

\* The events of a row of a kind.
EventsOf(t, status) ==
  CASE status = "PROCESSED" ->
         {"WagerTransactionProcessed"}
           \cup (IF AffectsBalance(Req(t).kind) THEN {"WalletBalanceChanged"} ELSE {})
    [] status = "REJECTED" -> {"WagerTransactionRejected"}
    [] status = "PENDING_REFERENCE" -> {"WagerTransactionPendingReference"}
    [] OTHER -> {}

\* Whether the outbox has announced the row of t.
EventsSent ==
  \A t \in TxId : \A e \in EventTypes :
    IF e = "WagerTransactionPendingReference"
       /\ txs[t].status \notin {"ABSENT", "PENDING_REFERENCE"}
    THEN outbox[t][e] \in {0, 1}
    ELSE outbox[t][e] = IF e \in EventsOf(t, txs[t].status) THEN 1 ELSE 0

WaitsForReference ==
  \A t \in TxId : txs[t].status = "PENDING_REFERENCE" =>
    txs[t].observed = NoBalance /\ txs[t].failure = NoFailure

\* What p is about to commit is a row with its entry and its events.
MovementFits(p) ==
  /\ pc[p] # "commit" \/ buf[p].row = NoRow => buf[p].entry = None /\ buf[p].events = {}
  /\ pc[p] \in {"findReversal", "apply", "saveWallet"} /\ RequiresReference(R(p).kind)
       => ref[p] # None
  /\ pc[p] = "saveWallet" => AffectsBalance(R(p).kind)
  /\ pc[p] = "commit" /\ buf[p].row # NoRow =>
       /\ buf[p].entry # None <=> Moves(job[p].id, buf[p].row)
       /\ buf[p].entry # None => EntryOf(buf[p].entry, job[p].id, buf[p].row)
       /\ Settled(job[p].id, buf[p].row)
       /\ buf[p].events =
            IF buf[p].row.status = "PENDING_REFERENCE" /\ job[p].op = "reprocess"
            THEN {} ELSE EventsOf(job[p].id, buf[p].row.status)
       /\ buf[p].row.status = "PENDING_REFERENCE" =>
            buf[p].row.observed = NoBalance /\ buf[p].row.failure = NoFailure

\* A message is recorded with the row of its request, or with the one a
\* replay found.
MessageFits(p) ==
  /\ pc[p] \in {"lockWallet"} \cup MessageLabels => ~buf[p].inbox
  /\ buf[p].inbox => job[p].op = "process"
  /\ buf[p].inbox /\ pc[p] = "commit" /\ buf[p].row = NoRow =>
       \E t \in Committed : Payload(Req(t)) = Payload(R(p))

\* The answer r tells what the row says.
Tells(r, row) ==
  /\ row.status = r.status
  /\ row.failure = r.failure
  /\ r.balance = row.observed
     \/ WalletInfo[Req(r.tx).wallet].currency # Req(r.tx).currency

AnswerFits(p) ==
  /\ pc[p] \notin {"commit", "done"} => reply[p].status = "ABSENT"
  /\ pc[p] \in {"commit", "done"} /\ reply[p].status \in TerminalStatuses =>
       /\ reply[p].tx \in TxId
       /\ buf[p].row = NoRow => Tells(reply[p], txs[reply[p].tx])
       /\ buf[p].row # NoRow => /\ reply[p].tx = job[p].id
                               /\ Tells(reply[p], buf[p].row)

MovementWorkOK(p) == MovementFits(p) /\ MessageFits(p) /\ AnswerFits(p)

MovementTablesOK ==
  /\ EntriesFit
  /\ EntriesDiffer
  /\ MovementsEntered
  /\ ReversalCompensates
  /\ EventsSent
  /\ WaitsForReference
  /\ InboxRecordsOutcome

MovementInv ==
  RowInv /\ MovementTablesOK /\ \A p \in Proc : MovementWorkOK(p)

-----------------------------------------------------------------------------
(* Decisions: what the statements of a unit of work found is at COMMIT what *)
(* the tables say, under the row lock, and what they have said, without it *)

\* For a wallet that is there before the requests, and for the rows a sweeper
\* settles, the locking SELECT finds a row to lock.
Guarded(p) == job[p].op = "reprocess" \/ W(p) \in OpenAtStart

HoldsLock(p) ==
  /\ snap[p] # None /\ Guarded(p) => lock[p] = "Update"
  /\ pc[p] \in {"lockWallet", "checkWallet", "insertWallet"} => lock[p] = "none"
  /\ /\ pc[p] \notin AtRest \cup {"lockWallet", "checkWallet", "insertWallet"}
     /\ Guarded(p) /\ job[p].op # "create"
     => snap[p] # None
  /\ buf[p].row # NoRow /\ job[p].op # "create" /\ pc[p] # "checkForeignKey" =>
       lock[p] # "none"

\* The balances that w has had.
Had(w) == {WalletInfo[w].opening} \cup {ledger[w][i].after : i \in 1..Len(ledger[w])}

\* What t may reverse; null if it reverses nothing.
Candidates(t) ==
  IF RequiresReference(Req(t).kind)
  THEN {s \in FindByProviderAndExternalId(Req(t).ref) : txs[s].status = "PROCESSED"}
  ELSE {None}

Taken(s, kind) ==
  \E u \in TxId : /\ txs[u].status = "PROCESSED"
                  /\ txs[u].reference = s
                  /\ Req(u).kind = kind

\* No reference on the wallet of t itself.
Lonely(t) ==
  /\ RequiresReference(Req(t).kind)
  /\ \A s \in Candidates(t) : Req(s).wallet # Req(t).wallet

MovementOf(p, s) ==
  MovementFailure(R(p), LedgerDirection(R(p).kind, KindOf(s)), snap[p].balance,
                  WalletInfo[W(p)].currency)

\* The first rule p has found broken, by what it has read, is the one of code.
\* Only the lock keeps others from reversing s meanwhile.
Breaks(p, s, code) ==
  \/ s # None /\ code = ReferenceFailure(R(p), Req(s))
  \/ /\ s # None /\ ReferenceFailure(R(p), Req(s)) = NoFailure
     /\ code = "ALREADY_REVERSED" /\ Taken(s, R(p).kind)
  \/ /\ AffectsBalance(R(p).kind)
     /\ s # None => /\ ReferenceFailure(R(p), Req(s)) = NoFailure
                    /\ lock[p] = "Update" => ~Taken(s, R(p).kind)
     /\ code = MovementOf(p, s)

\* The row is what p decides by what it has read.
Decides(p, row) ==
  /\ row.status = "PROCESSED" =>
       /\ row.failure = NoFailure
       /\ IF AffectsBalance(R(p).kind)
          THEN /\ row.reference \in Candidates(job[p].id)
               /\ MovementOf(p, row.reference) = NoFailure
          ELSE row.observed = Observed(p, snap[p].balance)
  /\ row.status = "REJECTED" =>
       \/ /\ job[p].op = "reprocess" /\ Lonely(job[p].id)
          /\ row.failure = "REFERENCE_NOT_FOUND" /\ row.observed = NoBalance
       \/ /\ \E s \in Candidates(job[p].id) : Breaks(p, s, row.failure)
          /\ row.failure # NoFailure
          /\ row.observed = Observed(p, snap[p].balance)
  /\ row.status = "PENDING_REFERENCE" =>
       /\ RequiresReference(R(p).kind)
       /\ job[p].op = "process" /\ lock[p] = "Update" => Lonely(job[p].id)

DecisionFits(p) ==
  /\ HoldsLock(p)
  /\ snap[p] # None => snap[p].balance \in Had(W(p))
  /\ Creating(p) => buf[p].row = OpeningRow(W(p))
  /\ job[p].op = "process" /\ (pc[p] = "insertTransaction" \/ buf[p].row # NoRow) =>
       WellFormed(R(p), None)
  /\ pc[p] \in {"findReference", "findReversal"} => RequiresReference(R(p).kind)
  /\ pc[p] \in {"findReversal", "apply", "saveWallet"} => ref[p] \in Candidates(job[p].id)
  /\ /\ pc[p] \in {"apply", "saveWallet"} /\ ref[p] # None
     /\ lock[p] = "Update"
     => ~Taken(ref[p], R(p).kind)
  /\ pc[p] = "commit" /\ buf[p].row # NoRow /\ job[p].op # "create" =>
       Decides(p, buf[p].row)

DecisionTablesOK ==
  /\ \A w \in OpenAtStart : wallets[w].open
  /\ \A w \in Wallet : wallets[w].open => wallets[w].balance \in Had(w)
  /\ \A t \in TxId : txs[t].status = "ABSENT" => txs[t] = NoRow
  /\ \A t \in TxId : txs[t].status = "PENDING_REFERENCE" => RequiresReference(Req(t).kind)

DecisionInv ==
  MovementInv /\ DecisionTablesOK /\ \A p \in Proc : DecisionFits(p)
=============================================================================
