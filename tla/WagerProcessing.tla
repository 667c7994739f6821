-------------------------- MODULE WagerProcessing --------------------------
(***************************************************************************)
(* The financial core: the units of work that write the wallet tables.     *)
(*                                                                         *)
(* Three use cases run concurrently against one Postgres database at READ  *)
(* COMMITTED: CreateWallet and ProcessWagerTransaction, run by the request *)
(* handlers (HTTP controllers and the SQS consumer), and                   *)
(* ReprocessPendingReferences, run by the sweeper workers.  Each step of a *)
(* process is one SQL statement: a statement reads what is committed when  *)
(* it runs, what a unit of work writes is buffered in buf until COMMIT     *)
(* publishes all of it, and a statement waits for the row locks and for    *)
(* the uncommitted unique-index entries that concurrent units of work      *)
(* hold.  A throw, a crash or a deadlock victim rolls everything back.     *)
(***************************************************************************)
EXTENDS WagerData

CONSTANTS
  Handler,      \* HTTP handlers and SQS consumers
  Worker,       \* pending-reference sweepers
  BatchSize,    \* PendingReferenceConfig.batchSize
  MaxAttempts,  \* PendingReferenceConfig.maxAttempts
  MaxCrashes    \* bound: how many processes may die

Proc == Handler \cup Worker

ASSUME ProcAssumption ==
  /\ Handler \cap Worker = {}
  /\ BatchSize \in Nat \ {0}
  /\ MaxAttempts \in Nat \ {0}
  /\ MaxCrashes \in Nat

VARIABLES
  \* the committed database
  wallets,  \* wallet id -> [open, balance, version]
  txs,      \* row id -> row of wager_transaction
  ledger,   \* wallet id -> its ledger entries in commit order
  inbox,    \* the message ids recorded
  outbox,   \* row id -> event type -> how many outbox rows it has
  \* the processes and their open SQL transactions
  pc,       \* the statement the process is about to run
  job,      \* the use case it runs and the row that use case writes
  snap,     \* the wallet it has read, or None
  ref,      \* the reference it has resolved, or None
  lock,     \* the row lock it holds on the wallet of its job
  buf,      \* its uncommitted writes
  reply,    \* what it answers, once its transaction is over
  due,      \* worker -> ids listed as due and not yet reprocessed
  crashes

db == <<wallets, txs, ledger, inbox, outbox>>
vars == <<wallets, txs, ledger, inbox, outbox,
          pc, job, snap, ref, lock, buf, reply, due, crashes>>

-----------------------------------------------------------------------------
(* Rows and values                                                         *)

Rows ==
  [status : Statuses, failure : RejectionCodes \cup {NoFailure},
   reference : TxId \cup {None}, observed : Balances, attempts : Nat]

NoRow == [status |-> "ABSENT", failure |-> NoFailure, reference |-> None,
          observed |-> NoBalance, attempts |-> 0]

PendingRow == [NoRow EXCEPT !.status = "PENDING"]

\* markProcessed and recordObservedBalance.
ProcessedRow(row, reference, observed) ==
  [row EXCEPT !.status = "PROCESSED", !.reference = reference,
              !.failure = NoFailure, !.observed = observed]

RejectedRow(row, code) ==
  [row EXCEPT !.status = "REJECTED", !.failure = code]

EventTypes == {"WagerTransactionProcessed", "WagerTransactionRejected",
               "WagerTransactionPendingReference", "WalletBalanceChanged"}

\* Wallet.open: version 1 already accounts for the opening balance.
WalletRows == [open : BOOLEAN, balance : Nat, version : Nat]
NoWallet == [open |-> FALSE, balance |-> 0, version |-> 0]
OpenedWallet(w) == [open |-> TRUE, balance |-> WalletInfo[w].opening, version |-> 1]

\* Null is no row.
ASSUME NullAssumption == None \notin WalletRows \cup Entries

NoWrites == [inbox |-> FALSE, row |-> NoRow, wallet |-> None, entry |-> None,
             events |-> {}]

NoReply == [error |-> "NONE", tx |-> None, status |-> "ABSENT",
            failure |-> NoFailure, balance |-> NoBalance, replay |-> FALSE]

NoJob == [op |-> "none", id |-> None]

\* What CreateWallet writes for the wallet w, beside the wallet itself.
OpeningRow(w) ==
  IF HasOpeningBalance(w)
  THEN ProcessedRow(PendingRow, None, WalletInfo[w].opening) ELSE NoRow

OpeningEntry(w) ==
  IF HasOpeningBalance(w) THEN Entry(w, "CREDIT", 0) ELSE None

OpeningEvents(w) ==
  IF HasOpeningBalance(w)
  THEN {"WagerTransactionProcessed", "WalletBalanceChanged"} ELSE {}

Init ==
  /\ wallets = [w \in Wallet |->
                 IF w \in OpenAtStart THEN OpenedWallet(w) ELSE NoWallet]
  /\ txs = [t \in TxId |-> IF t \in OpenAtStart THEN OpeningRow(t) ELSE NoRow]
  /\ ledger = [w \in Wallet |->
                IF w \in OpenAtStart /\ HasOpeningBalance(w)
                THEN <<OpeningEntry(w)>> ELSE <<>>]
  /\ inbox = {}
  /\ outbox = [t \in TxId |-> [e \in EventTypes |->
                IF t \in OpenAtStart /\ e \in OpeningEvents(t) THEN 1 ELSE 0]]
  /\ pc = [p \in Proc |-> "idle"]
  /\ job = [p \in Proc |-> NoJob]
  /\ snap = [p \in Proc |-> None]
  /\ ref = [p \in Proc |-> None]
  /\ lock = [p \in Proc |-> "none"]
  /\ buf = [p \in Proc |-> NoWrites]
  /\ reply = [p \in Proc |-> NoReply]
  /\ due = [k \in Worker |-> {}]
  /\ crashes = 0

-----------------------------------------------------------------------------
(* What a statement of process p sees, and what it waits for               *)

R(p) == Req(job[p].id)
W(p) == R(p).wallet

Goto(p, l) == pc' = [pc EXCEPT ![p] = l]

Committed == {t \in TxId : txs[t].status # "ABSENT"}
FindByIdempotencyKey(k) == {t \in Committed : Req(t).key = k}
FindByProviderAndExternalId(e) == {t \in Committed : Req(t).ext = e}

FindActiveReversalOf(reference, kind) ==
  {t \in Committed : /\ txs[t].reference = reference
                     /\ Req(t).kind = kind
                     /\ txs[t].status \in ActiveStatuses}

FindByPlayerAndCurrency(w) ==
  {v \in Wallet : wallets[v].open /\ SamePurse(v, w)}

\* The row locks of Postgres: SELECT ... FOR UPDATE takes "Update", an
\* UPDATE of balance and version "NoKeyUpdate", and the foreign-key check of
\* an inserted row "KeyShare" on the wallet it points to.
LockModes == {"none", "KeyShare", "NoKeyUpdate", "Update"}

Conflict(a, b) ==
  \/ a = "Update" /\ b # "none"
  \/ b = "Update" /\ a # "none"
  \/ a = "NoKeyUpdate" /\ b = "NoKeyUpdate"

LockHolders(p, mode) ==
  {q \in Proc \ {p} : /\ job[q] # NoJob
                      /\ W(q) = W(p)
                      /\ Conflict(mode, lock[q])}

\* The open transactions that hold an uncommitted entry of a unique index
\* process p is about to insert into.
HoldersOfMessage(p) ==
  {q \in Proc \ {p} : buf[q].inbox /\ R(q).msg = R(p).msg}

HoldersOfTransactionKey(p) ==
  {q \in Proc \ {p} : /\ job[q].op = "process"
                      /\ buf[q].row # NoRow
                      /\ R(q).key = R(p).key \/ R(q).ext = R(p).ext}

HoldersOfWalletKey(p) ==
  {q \in Proc \ {p} :
     /\ job[q].op = "create"
     /\ pc[q] = "commit"
     /\ W(q) = W(p) \/ SamePurse(W(q), W(p))}

\* The transactions the next statement of p has to wait for.
BlockedBy(p) ==
  CASE pc[p] = "lockWallet" ->
         IF wallets[W(p)].open THEN LockHolders(p, "Update") ELSE {}
    [] pc[p] = "insertInbox" -> HoldersOfMessage(p)
    [] pc[p] = "insertTransaction" -> HoldersOfTransactionKey(p)
    [] pc[p] = "checkForeignKey" -> LockHolders(p, "KeyShare")
    [] pc[p] = "saveWallet" -> LockHolders(p, "NoKeyUpdate")
    [] pc[p] = "insertWallet" -> HoldersOfWalletKey(p)
    [] OTHER -> {}

\* A cycle of the wait-for graph: every member waits for a member, and no
\* smaller set does.
Stuck(S) == S # {} /\ \A q \in S : BlockedBy(q) \cap S # {}

Deadlocked(p) ==
  \E S \in SUBSET Proc :
    p \in S /\ Stuck(S) /\ \A T \in SUBSET S : Stuck(T) => T = S

-----------------------------------------------------------------------------
(* How a unit of work ends                                                 *)

\* The transaction of p is over: no lock, no write, nothing remembered.  The
\* mutants leave the connection, and with it the lock, open, or what the
\* transaction wrote in the next one's hands.
KeepWrites(p) ==
  /\ lock' = [lock EXCEPT ![p] = "none"]
  /\ UNCHANGED buf
  /\ snap' = [snap EXCEPT ![p] = None]
  /\ ref' = [ref EXCEPT ![p] = None]
LeakTransaction(p) ==
  /\ UNCHANGED lock
  /\ buf' = [buf EXCEPT ![p] = NoWrites]
  /\ snap' = [snap EXCEPT ![p] = None]
  /\ ref' = [ref EXCEPT ![p] = None]
EndTransaction(p) ==
  /\ lock' = [lock EXCEPT ![p] = "none"]
  /\ buf' = [buf EXCEPT ![p] = NoWrites]
  /\ snap' = [snap EXCEPT ![p] = None]
  /\ ref' = [ref EXCEPT ![p] = None]

\* A throw leaves the sweep of a worker: the rest of its list is dropped.
DropList(p) == due' = [k \in Worker |-> IF k = p THEN {} ELSE due[k]]

\* uow.run rolls back and rethrows error.
Fail(p, error) ==
  /\ EndTransaction(p)
  /\ reply' = [reply EXCEPT ![p] = [NoReply EXCEPT !.error = error]]
  /\ DropList(p)
  /\ Goto(p, "failed")
  /\ UNCHANGED <<db, job, crashes>>

\* Everything the unit of work wrote becomes visible at once.
Commit(p) ==
  LET t == job[p].id
      b == buf[p]
  IN
  /\ pc[p] = "commit"
  /\ inbox' = IF b.inbox THEN inbox \cup {R(p).msg} ELSE inbox
  /\ txs' = IF b.row # NoRow THEN [txs EXCEPT ![t] = b.row] ELSE txs
  /\ wallets' = IF b.wallet # None
                THEN [wallets EXCEPT ![W(p)] = b.wallet] ELSE wallets
  /\ ledger' = IF b.entry # None
               THEN [ledger EXCEPT ![W(p)] = Append(@, b.entry)] ELSE ledger
  /\ outbox' = [outbox EXCEPT ![t] =
                 [e \in EventTypes |-> @[e] + IF e \in b.events THEN 1 ELSE 0]]
  /\ EndTransaction(p)
  /\ Goto(p, "done")
  /\ UNCHANGED <<job, reply, due, crashes>>

\* The caller gets the result or the error.
Return(p) ==
  /\ pc[p] \in {"done", "failed"}
  /\ job' = [job EXCEPT ![p] = NoJob]
  /\ reply' = [reply EXCEPT ![p] = NoReply]
  /\ Goto(p, "idle")
  /\ UNCHANGED <<db, snap, ref, lock, buf, due, crashes>>

\* The process dies or loses its connection; it comes back with no memory.
Crash(p) ==
  /\ crashes < MaxCrashes
  /\ pc[p] # "idle" \/ (p \in Worker /\ due[p] # {})
  /\ crashes' = crashes + 1
  /\ EndTransaction(p)
  /\ job' = [job EXCEPT ![p] = NoJob]
  /\ reply' = [reply EXCEPT ![p] = NoReply]
  /\ DropList(p)
  /\ Goto(p, "idle")
  /\ UNCHANGED db

\* Postgres aborts one member of a cycle of waits.
DeadlockVictim(p) ==
  /\ Deadlocked(p)
  /\ Fail(p, "Transient")

\* The answer of a unit of work that handles a request.
Answer(p, r) ==
  reply' = IF job[p].op = "process" THEN [reply EXCEPT ![p] = r] ELSE reply

\* persistedResult
Persisted(t, row, balance) ==
  [error |-> "NONE", tx |-> t, status |-> row.status, failure |-> row.failure,
   balance |-> balance, replay |-> FALSE]

\* replayResult.  The mutant answers with the balance of the moment.
ReplayNow(t) ==
  [error |-> "NONE", tx |-> t, status |-> txs[t].status,
   failure |-> txs[t].failure, balance |-> wallets[Req(t).wallet].balance,
   replay |-> TRUE]
Replay(t) ==
  [error |-> "NONE", tx |-> t, status |-> txs[t].status,
   failure |-> txs[t].failure, balance |-> txs[t].observed, replay |-> TRUE]

\* recordObservedBalance
Observed(p, balance) ==
  IF WalletInfo[W(p)].currency = R(p).currency THEN balance ELSE NoBalance

\* rejectTransaction; the mutant records no balance.
RejectUnobserved(p, code) ==
  LET row == RejectedRow(buf[p].row, code)
  IN
  /\ buf' = [buf EXCEPT ![p].row = row,
                        ![p].events = {"WagerTransactionRejected"}]
  /\ Answer(p, Persisted(job[p].id, row, snap[p].balance))
  /\ Goto(p, "commit")
Reject(p, code) ==
  LET row == [RejectedRow(buf[p].row, code) EXCEPT
                !.observed = Observed(p, snap[p].balance)]
  IN
  /\ buf' = [buf EXCEPT ![p].row = row,
                        ![p].events = {"WagerTransactionRejected"}]
  /\ Answer(p, Persisted(job[p].id, row, snap[p].balance))
  /\ Goto(p, "commit")

-----------------------------------------------------------------------------
(* CreateWallet                                                            *)

CreateWallet(p, w) ==
  /\ pc[p] = "idle"
  /\ job' = [job EXCEPT ![p] = [op |-> "create", id |-> w]]
  /\ Goto(p, "checkWallet")
  /\ UNCHANGED <<db, snap, ref, lock, buf, reply, due, crashes>>

CheckWallet(p) ==
  /\ pc[p] = "checkWallet"
  /\ IF FindByPlayerAndCurrency(W(p)) # {}
     THEN Fail(p, "WalletAlreadyExists")
     ELSE /\ Goto(p, "insertWallet")
          /\ UNCHANGED <<db, job, snap, ref, lock, buf, reply, due, crashes>>

\* wallet_pkey and wallet_player_currency_uq; the mutant has lost the second.
WalletIdTaken(p) == wallets[W(p)].open
WalletKeyViolation(p) ==
  wallets[W(p)].open \/ FindByPlayerAndCurrency(W(p)) # {}

\* The wallet, its OPENING row, ledger entry and events; the last three only
\* for a positive opening balance.
InsertWallet(p) ==
  /\ pc[p] = "insertWallet"
  /\ BlockedBy(p) = {}
  /\ IF WalletKeyViolation(p)
     THEN Fail(p, "WalletAlreadyExists")
     ELSE /\ buf' = [buf EXCEPT ![p] =
                      [NoWrites EXCEPT !.row = OpeningRow(W(p)),
                                       !.wallet = OpenedWallet(W(p)),
                                       !.entry = OpeningEntry(W(p)),
                                       !.events = OpeningEvents(W(p))]]
          /\ Goto(p, "commit")
          /\ UNCHANGED <<db, job, snap, ref, lock, reply, due, crashes>>

-----------------------------------------------------------------------------
(* ProcessWagerTransaction: locks, inbox and idempotency                   *)

\* A client or the queue delivers a request, for the first time or again.
Submit(p, c) ==
  /\ pc[p] = "idle"
  /\ job' = [job EXCEPT ![p] = [op |-> "process", id |-> c]]
  /\ Goto(p, "lockWallet")
  /\ UNCHANGED <<db, snap, ref, lock, buf, reply, due, crashes>>

\* LockMode.PESSIMISTIC_WRITE.  The mutants: no lock at all, a queue path
\* or a sweeper that forgets lockWallet.
NoLockMode(p) == "none"
HttpLockMode(p) == IF R(p).msg = None THEN "Update" ELSE "none"
HandlerLockMode(p) == IF p \in Handler THEN "Update" ELSE "none"
WalletLockMode(p) == "Update"

\* SELECT ... FOR UPDATE of the wallet.  A wallet that does not exist yet
\* locks nothing and does not stop the unit of work.
LockWallet(p) ==
  /\ pc[p] = "lockWallet"
  /\ BlockedBy(p) = {}
  /\ IF wallets[W(p)].open
     THEN /\ lock' = [lock EXCEPT ![p] = WalletLockMode(p)]
          /\ snap' = [snap EXCEPT ![p] = wallets[W(p)]]
     ELSE UNCHANGED <<lock, snap>>
  /\ Goto(p, IF job[p].op = "reprocess" THEN "readTransaction"
             ELSE IF R(p).msg # None THEN "findInbox" ELSE "findKey")
  /\ UNCHANGED <<db, job, ref, buf, reply, due, crashes>>

FindInbox(p) ==
  /\ pc[p] = "findInbox"
  /\ Goto(p, IF R(p).msg \in inbox THEN "replaySeen" ELSE "insertInbox")
  /\ UNCHANGED <<db, job, snap, ref, lock, buf, reply, due, crashes>>

\* The message was processed before: replicate the result of its key.
ReplaySeen(p) ==
  /\ pc[p] = "replaySeen"
  /\ \/ \E t \in FindByIdempotencyKey(R(p).key) :
          /\ Answer(p, Replay(t))
          /\ Goto(p, "commit")
          /\ UNCHANGED <<db, job, snap, ref, lock, buf, due, crashes>>
     \/ /\ FindByIdempotencyKey(R(p).key) = {}
        /\ Fail(p, "InboxWithoutTransaction")

InsertInbox(p) ==
  /\ pc[p] = "insertInbox"
  /\ BlockedBy(p) = {}
  /\ IF R(p).msg \in inbox
     THEN Fail(p, "UniqueConstraint")
     ELSE /\ buf' = [buf EXCEPT ![p].inbox = TRUE]
          /\ Goto(p, "findKey")
          /\ UNCHANGED <<db, job, snap, ref, lock, reply, due, crashes>>

\* prior is the transaction a pre-check found.  The mutant does not compare
\* the payloads.
ReplayAlways(p, prior) ==
  /\ Answer(p, Replay(prior))
  /\ Goto(p, "commit")
  /\ UNCHANGED <<db, job, snap, ref, lock, buf, due, crashes>>
ReplayOrConflict(p, prior) ==
  IF Payload(Req(prior)) = Payload(R(p))
  THEN /\ Answer(p, Replay(prior))
       /\ Goto(p, "commit")
       /\ UNCHANGED <<db, job, snap, ref, lock, buf, due, crashes>>
  ELSE Fail(p, "IdempotencyConflict")

FindKey(p) ==
  /\ pc[p] = "findKey"
  /\ \/ \E t \in FindByIdempotencyKey(R(p).key) : ReplayOrConflict(p, t)
     \/ /\ FindByIdempotencyKey(R(p).key) = {}
        /\ Goto(p, "findExternalId")
        /\ UNCHANGED <<db, job, snap, ref, lock, buf, reply, due, crashes>>

FindExternalId(p) ==
  /\ pc[p] = "findExternalId"
  /\ \/ \E t \in FindByProviderAndExternalId(R(p).ext) : ReplayOrConflict(p, t)
     \/ /\ FindByProviderAndExternalId(R(p).ext) = {}
        /\ Goto(p, "readWallet")
        /\ UNCHANGED <<db, job, snap, ref, lock, buf, reply, due, crashes>>

\* wallets.findById is answered from the identity map when the locking
\* SELECT loaded the row.  WagerTransaction.create validates the request.
ReadWallet(p) ==
  /\ pc[p] = "readWallet"
  /\ CASE ~wallets[W(p)].open -> Fail(p, "WalletNotFound")
       [] wallets[W(p)].open /\ ~WellFormed(R(p), None) -> Fail(p, "Validation")
       [] OTHER ->
            /\ snap' = [snap EXCEPT ![p] = IF @ = None THEN wallets[W(p)] ELSE @]
            /\ Goto(p, "insertTransaction")
            /\ UNCHANGED <<db, job, ref, lock, buf, reply, due, crashes>>

\* The unique indexes of wager_transaction.  The mutant has lost the one on
\* (provider_id, external_transaction_id).
KeyOnlyViolation(p) == FindByIdempotencyKey(R(p).key) # {}
TransactionKeyViolation(p) ==
  \/ FindByIdempotencyKey(R(p).key) # {}
  \/ FindByProviderAndExternalId(R(p).ext) # {}

\* The entries of the two unique indexes of the row.
InsertTransaction(p) ==
  /\ pc[p] = "insertTransaction"
  /\ BlockedBy(p) = {}
  /\ IF TransactionKeyViolation(p)
     THEN Fail(p, "UniqueConstraint")
     ELSE /\ buf' = [buf EXCEPT ![p].row = PendingRow]
          /\ Goto(p, "checkForeignKey")
          /\ UNCHANGED <<db, job, snap, ref, lock, reply, due, crashes>>

\* The foreign key of the same INSERT share-locks the wallet row.
CheckForeignKey(p) ==
  /\ pc[p] = "checkForeignKey"
  /\ BlockedBy(p) = {}
  /\ lock' = [lock EXCEPT ![p] = IF @ = "none" THEN "KeyShare" ELSE @]
  /\ Goto(p, IF RequiresReference(R(p).kind) THEN "findReference" ELSE "apply")
  /\ UNCHANGED <<db, job, snap, ref, buf, reply, due, crashes>>

-----------------------------------------------------------------------------
(* ReprocessPendingReferences                                              *)

\* One short transaction lists what is due; which of the waiting rows are
\* due depends on their back-off and is left open here.
ListDue(k) ==
  /\ pc[k] = "idle"
  /\ due[k] = {}
  /\ \E D \in SUBSET {t \in TxId : txs[t].status = "PENDING_REFERENCE"} :
       /\ Cardinality(D) \in 1..BatchSize
       /\ due' = [due EXCEPT ![k] = D]
  /\ UNCHANGED <<db, pc, job, snap, ref, lock, buf, reply, crashes>>

ReprocessNext(k) ==
  /\ pc[k] = "idle"
  /\ \E t \in due[k] :
       /\ job' = [job EXCEPT ![k] = [op |-> "reprocess", id |-> t]]
       /\ due' = [due EXCEPT ![k] = @ \ {t}]
  /\ Goto(k, "lockWallet")
  /\ UNCHANGED <<db, snap, ref, lock, buf, reply, crashes>>

\* isPendingReference, on the row read again under the lock: another worker
\* may have settled it.  The mutant trusts the list.
TrustList(t) == TRUE
StillWaiting(t) == txs[t].status = "PENDING_REFERENCE"

ReadTransaction(k) ==
  /\ pc[k] = "readTransaction"
  /\ IF StillWaiting(job[k].id)
     THEN /\ buf' = [buf EXCEPT ![k].row = txs[job[k].id]]
          /\ Goto(k, "findReference")
     ELSE /\ UNCHANGED buf
          /\ Goto(k, "commit")
  /\ UNCHANGED <<db, job, snap, ref, lock, reply, due, crashes>>

-----------------------------------------------------------------------------
(* The reference of a reversal, in both use cases                          *)

\* ProcessWagerTransaction parks the reversal ...
ParkReversal(p) ==
  LET row == [buf[p].row EXCEPT !.status = "PENDING_REFERENCE"]
  IN
  /\ job[p].op = "process"
  /\ buf' = [buf EXCEPT ![p].row = row,
                        ![p].events = {"WagerTransactionPendingReference"}]
  /\ Answer(p, Persisted(job[p].id, row, NoBalance))

\* scheduleReferenceRetry; the mutant schedules without counting.
ForgetAttempt(row) == row
CountAttempt(row) == [row EXCEPT !.attempts = @ + 1]

\* ... and ReprocessPendingReferences counts the attempt, and gives up or
\* retries later.  Giving up records no observed balance.
RetryReversal(p) ==
  LET row == CountAttempt(buf[p].row)
  IN
  /\ job[p].op = "reprocess"
  /\ \E elapsed \in BOOLEAN :
       IF GiveUpOnReference(row.attempts, MaxAttempts, elapsed)
       THEN buf' = [buf EXCEPT ![p].row = RejectedRow(row, "REFERENCE_NOT_FOUND"),
                               ![p].events = {"WagerTransactionRejected"}]
       ELSE buf' = [buf EXCEPT ![p].row = row]
  /\ UNCHANGED reply

\* The reference, once it is PROCESSED; the mutant takes it in any status.
AnyReference(p) == FindByProviderAndExternalId(R(p).ref)
UsableReference(p) ==
  {t \in FindByProviderAndExternalId(R(p).ref) : txs[t].status = "PROCESSED"}

FindReference(p) ==
  LET found == UsableReference(p) IN
  /\ pc[p] = "findReference"
  /\ \/ /\ found = {}
        /\ ParkReversal(p) \/ RetryReversal(p)
        /\ Goto(p, "commit")
        /\ UNCHANGED ref
     \/ \E t \in found :
          IF ReferenceFailure(R(p), Req(t)) # NoFailure
          THEN Reject(p, ReferenceFailure(R(p), Req(t))) /\ UNCHANGED ref
          ELSE /\ ref' = [ref EXCEPT ![p] = t]
               /\ Goto(p, "findReversal")
               /\ UNCHANGED <<buf, reply>>
  /\ UNCHANGED <<db, job, snap, lock, due, crashes>>

FindReversal(p) ==
  /\ pc[p] = "findReversal"
  /\ IF FindActiveReversalOf(ref[p], R(p).kind) \ {job[p].id} # {}
     THEN Reject(p, "ALREADY_REVERSED")
     ELSE Goto(p, "apply") /\ UNCHANGED <<buf, reply>>
  /\ UNCHANGED <<db, job, snap, ref, lock, due, crashes>>

-----------------------------------------------------------------------------
(* applyAcceptedTransaction                                                *)

Direction(p) ==
  LedgerDirection(R(p).kind, IF ref[p] = None THEN "NONE" ELSE Req(ref[p]).kind)

\* A LOSS is recorded and moves nothing; Wallet.debit and Wallet.credit may
\* refuse the movement.
Apply(p) ==
  LET row == ProcessedRow(buf[p].row, ref[p], Observed(p, snap[p].balance))
      failure == MovementFailure(R(p), Direction(p), snap[p].balance,
                                 WalletInfo[W(p)].currency)
  IN
  /\ pc[p] = "apply"
  /\ CASE ~AffectsBalance(R(p).kind) ->
            /\ buf' = [buf EXCEPT ![p].row = row,
                                  ![p].events = {"WagerTransactionProcessed"}]
            /\ Answer(p, Persisted(job[p].id, row, snap[p].balance))
            /\ Goto(p, "commit")
       [] AffectsBalance(R(p).kind) /\ failure # NoFailure -> Reject(p, failure)
       [] OTHER -> Goto(p, "saveWallet") /\ UNCHANGED <<buf, reply>>
  /\ UNCHANGED <<db, job, snap, ref, lock, due, crashes>>

\* The compare-and-set of wallets.save; the mutant updates by id only.
IgnoreVersion(p) == FALSE
VersionMoved(p) == wallets[W(p)].version # snap[p].version

\* wle_wallet_transaction_uq and wt_one_active_reversal_per_kind, which the
\* writes that follow the wallet's would violate.
IndexViolation(p) ==
  \/ \E i \in 1..Len(ledger[W(p)]) : ledger[W(p)][i].tx = job[p].id
  \/ /\ RequiresReference(R(p).kind)
     /\ FindActiveReversalOf(ref[p], R(p).kind) \ {job[p].id} # {}

\* UPDATE wallet ... WHERE id = ? AND version = ?, then the ledger entry,
\* the PROCESSED row and the two events.
SaveWallet(p) ==
  LET entry == Entry(job[p].id, Direction(p), snap[p].balance)
      row == ProcessedRow(buf[p].row, ref[p], entry.after)
  IN
  /\ pc[p] = "saveWallet"
  /\ BlockedBy(p) = {}
  /\ IF VersionMoved(p) \/ IndexViolation(p)
     THEN Fail(p, IF VersionMoved(p) THEN "Transient" ELSE "UniqueConstraint")
     ELSE /\ lock' = [lock EXCEPT ![p] = IF @ = "Update" THEN @ ELSE "NoKeyUpdate"]
          /\ buf' = [buf EXCEPT
               ![p].row = row,
               ![p].wallet = [open |-> TRUE, balance |-> entry.after,
                              version |-> snap[p].version + 1],
               ![p].entry = entry,
               ![p].events = {"WagerTransactionProcessed", "WalletBalanceChanged"}]
          /\ Answer(p, Persisted(job[p].id, row, entry.after))
          /\ Goto(p, "commit")
          /\ UNCHANGED <<db, job, snap, ref, due, crashes>>

-----------------------------------------------------------------------------
\* The next statement of the unit of work p runs.
Step(p) ==
  \/ CheckWallet(p) \/ InsertWallet(p)
  \/ LockWallet(p) \/ FindInbox(p) \/ ReplaySeen(p) \/ InsertInbox(p)
  \/ FindKey(p) \/ FindExternalId(p) \/ ReadWallet(p)
  \/ InsertTransaction(p) \/ CheckForeignKey(p)
  \/ ReadTransaction(p) \/ FindReference(p) \/ FindReversal(p)
  \/ Apply(p) \/ SaveWallet(p)
  \/ Commit(p) \/ Return(p) \/ DeadlockVictim(p)

Next ==
  \/ \E h \in Handler : \/ \E c \in Cmd : Submit(h, c)
                        \/ \E w \in Wallet : CreateWallet(h, w)
  \/ \E k \in Worker : ListDue(k) \/ ReprocessNext(k)
  \/ \E p \in Proc : Step(p) \/ Crash(p)

Spec == Init /\ [][Next]_vars

-----------------------------------------------------------------------------
(* Fairness: the event loop runs a statement that can run; Postgres queues *)
(* the waiters of a lock, so one that is let in again and again gets it in *)
(* the end (strong fairness of Step); and a sweeper ticks for ever, so a   *)
(* row that keeps waiting is listed in the end: its back-off is at most an *)
(* hour and its attempts are bounded.                                      *)

Sweep(k, t) == /\ ListDue(k)
               /\ t \in due'[k]

Fairness ==
  /\ \A p \in Proc : SF_vars(Step(p))
  /\ \A k \in Worker : WF_vars(ReprocessNext(k))
  /\ \A t \in Cmd : SF_vars(\E k \in Worker : Sweep(k, t))

FairSpec == Spec /\ Fairness

-----------------------------------------------------------------------------
(* Properties                                                              *)

Labels ==
  {"idle", "checkWallet", "insertWallet", "lockWallet", "findInbox",
   "replaySeen", "insertInbox", "findKey", "findExternalId", "readWallet",
   "insertTransaction", "checkForeignKey", "readTransaction", "findReference",
   "findReversal", "apply", "saveWallet", "commit", "done", "failed"}

Errors == {"NONE", "WalletAlreadyExists", "InboxWithoutTransaction",
           "UniqueConstraint", "IdempotencyConflict", "WalletNotFound",
           "Validation", "Transient"}

Jobs == [op : {"process"}, id : Cmd] \cup [op : {"reprocess"}, id : TxId]
        \cup [op : {"create"}, id : Wallet] \cup {NoJob}

Buffers ==
  [inbox : BOOLEAN, row : Rows, wallet : WalletRows \cup {None},
   entry : Entries \cup {None}, events : SUBSET EventTypes]

Replies ==
  [error : Errors, tx : TxId \cup {None}, status : Statuses,
   failure : RejectionCodes \cup {NoFailure}, balance : Balances,
   replay : BOOLEAN]

\* Types of the tables and of the open transactions.  Balances are natural
\* numbers: no interleaving overdraws a wallet, which the CHECK constraint
\* wallet_balance_non_negative would otherwise have to stop.
TypeOK ==
  /\ wallets \in [Wallet -> WalletRows]
  /\ txs \in [TxId -> Rows]
  /\ ledger \in [Wallet -> Seq(Entries)]
  /\ inbox \subseteq Message
  /\ outbox \in [TxId -> [EventTypes -> Nat]]
  /\ pc \in [Proc -> Labels]
  /\ job \in [Proc -> Jobs]
  /\ snap \in [Proc -> WalletRows \cup {None}]
  /\ ref \in [Proc -> TxId \cup {None}]
  /\ lock \in [Proc -> LockModes]
  /\ buf \in [Proc -> Buffers]
  /\ reply \in [Proc -> Replies]
  /\ due \in [Worker -> SUBSET TxId]
  /\ crashes \in 0..MaxCrashes

BalanceAfter(w, i) == IF i = 0 THEN 0 ELSE ledger[w][i].after

\* The ledger of a wallet is a chain that starts at zero, each entry begins
\* at the balance the one before it left, the wallet's balance is where the
\* chain ends, and its version counts the movements: no lost update, whether
\* the units of work were serialised by the row lock or by the version.
LedgerExplainsWallet ==
  \A w \in Wallet :
    /\ \A i \in 1..Len(ledger[w]) :
         /\ ledger[w][i].before = BalanceAfter(w, i - 1)
         /\ ledger[w][i].after =
              ledger[w][i].before
                + SignedAmount(ledger[w][i].direction, ledger[w][i].amount)
    /\ wallets[w].balance = BalanceAfter(w, Len(ledger[w]))
    /\ wallets[w].open =>
         wallets[w].version = Len(ledger[w]) + (IF HasOpeningBalance(w) THEN 0 ELSE 1)
    /\ ~wallets[w].open => ledger[w] = <<>>

\* A player never has two wallets in one currency, although two creations
\* may both have found none: the money of one purse would be split in two.
OneWalletPerPlayer ==
  \A v, w \in Wallet :
    v # w /\ wallets[v].open /\ wallets[w].open => ~SamePurse(v, w)

Positions(t) ==
  UNION {{<<w, i>> : i \in {j \in 1..Len(ledger[w]) : ledger[w][j].tx = t}} :
         w \in Wallet}

\* However often an operation is delivered and retried, a PROCESSED
\* transaction that moves money has exactly one ledger entry, on its own
\* wallet, for its amount, and with the balance it reports; any other row
\* (LOSS, REJECTED, waiting) has none.
OneEntryPerMovement ==
  \A t \in TxId :
    IF txs[t].status = "PROCESSED" /\ AffectsBalance(Req(t).kind)
    THEN /\ Cardinality(Positions(t)) = 1
         /\ \A at \in Positions(t) :
              /\ at[1] = Req(t).wallet
              /\ ledger[at[1]][at[2]].amount = Req(t).amount
              /\ ledger[at[1]][at[2]].after = txs[t].observed
    ELSE Positions(t) = {}

\* Two accepted transactions never share an idempotency key, nor a provider
\* and external id, in whatever order their deliveries interleave.
OperationAcceptedOnce ==
  \A s, t \in Committed :
    s # t => Req(s).key # Req(t).key /\ Req(s).ext # Req(t).ext

\* A reference is reversed at most once by each kind of operation, also when
\* a sweeper and a handler, or two sweepers, settle reversals of it at once.
OneReversalPerKind ==
  \A s, t \in Committed :
    /\ s # t
    /\ txs[s].status = "PROCESSED" /\ txs[t].status = "PROCESSED"
    /\ txs[s].reference # None
    /\ txs[s].reference = txs[t].reference
    => Req(s).kind # Req(t).kind

\* A PROCESSED reversal compensates an entry that precedes it on the same
\* ledger, for the same amount and in the opposite direction.  (A REFUND
\* that is itself rolled back is such an entry.)
ReversalCompensates ==
  \A w \in Wallet : \A i \in 1..Len(ledger[w]) :
    RequiresReference(Req(ledger[w][i].tx).kind) =>
      \E j \in 1..(i - 1) :
        /\ ledger[w][j].tx = txs[ledger[w][i].tx].reference
        /\ ledger[w][j].amount = ledger[w][i].amount
        /\ ledger[w][j].direction # ledger[w][i].direction
        /\ KindAccepted(Req(ledger[w][i].tx).kind, Req(ledger[w][j].tx).kind)

\* The outbox tells exactly what the tables say: one Processed event for a
\* PROCESSED row, one BalanceChanged event for a ledger entry, one Rejected
\* event for a REJECTED row, and one PendingReference event for a row that
\* waits (kept when it is settled), with no duplicate and nothing announced
\* by a unit of work that rolled back.
OutboxMatchesRows ==
  \A t \in TxId :
    LET sent == outbox[t]
        status == txs[t].status
    IN
    /\ sent["WagerTransactionProcessed"] = IF status = "PROCESSED" THEN 1 ELSE 0
    /\ sent["WagerTransactionRejected"] = IF status = "REJECTED" THEN 1 ELSE 0
    /\ sent["WalletBalanceChanged"] = Cardinality(Positions(t))
    /\ sent["WagerTransactionPendingReference"] \in
         IF status = "PENDING_REFERENCE" THEN {1} ELSE {0, 1}

\* A message is in the inbox only together with the stored outcome of its
\* operation: no crash or rollback records the message and loses the effect.
InboxRecordsOutcome ==
  \A m \in inbox : \E c \in Cmd : \E t \in Committed :
    /\ Request[c].msg = m
    /\ Payload(Req(t)) = Payload(Request[c])

\* What a caller is told about a settled transaction is what the database
\* holds, for the first answer and for every replay, including the balance
\* observed at the time.  A rejection for the wallet's currency is the one
\* exception: its first answer carries a balance and its replays do not.
AnswerIsDurable ==
  \A p \in Proc :
    LET r == reply[p]
        row == txs[r.tx]
    IN
    pc[p] = "done" /\ r.status \in TerminalStatuses =>
      /\ row.status = r.status
      /\ row.failure = r.failure
      /\ r.balance = row.observed
         \/ WalletInfo[Req(r.tx).wallet].currency # Req(r.tx).currency

\* A settled row never changes again, a waiting row only counts attempts up
\* or settles, and no committed row is left PENDING: the unguarded UPDATE of
\* transactions.save never overwrites what another unit of work decided.
RowsMoveForward ==
  [][\A t \in TxId :
       txs'[t] # txs[t] =>
         /\ txs[t].status \in {"ABSENT", "PENDING_REFERENCE"}
         /\ txs'[t].status \in {"PENDING_REFERENCE"} \cup TerminalStatuses
         /\ txs[t].status = "PENDING_REFERENCE" =>
              \/ txs'[t].attempts = txs[t].attempts + 1
              \/ /\ txs'[t].status \in TerminalStatuses
                 /\ txs'[t].attempts = txs[t].attempts]_vars

\* The balance a unit of work decides on and records is the balance at its
\* commit, for a wallet that exists when the requests arrive, where the row
\* lock serialises the units of work.
DecidedOnCurrentBalance ==
  [][\A t \in Cmd :
       /\ Req(t).wallet \in OpenAtStart
       /\ txs'[t] # txs[t]
       /\ txs'[t].observed # NoBalance
       => txs'[t].observed = wallets'[Req(t).wallet].balance]_vars

\* Waits never form a cycle when the wallets exist before the requests for
\* them: wallet row, inbox, transaction keys is an order every unit keeps.
NoDeadlock == \A p \in Proc : ~Deadlocked(p)

\* An accepted transaction is settled in the end, as long as a sweeper runs:
\* a reversal whose reference never comes is given up.
ReversalSettles ==
  \A t \in Cmd : txs[t].status # "ABSENT"
                   ~> txs[t].status \in TerminalStatuses

\* Every unit of work ends: no wait for a lock or an index entry is for ever.
RequestEnds == \A p \in Proc : pc[p] = "lockWallet" ~> pc[p] = "idle"

-----------------------------------------------------------------------------
(* What the documentation claims and the code does not keep                *)

\* "A redelivery of the same messageId finds the inbox row and replicates
\* the stored result."
RedeliveryReplays ==
  \A p \in Proc : reply[p].error # "InboxWithoutTransaction"

\* "Same key, different hash: HTTP 409, never a replay."
ReplayHasSamePayload ==
  \A p \in Proc :
    pc[p] = "done" /\ reply[p].replay /\ Req(reply[p].tx).key = R(p).key
      => Payload(Req(reply[p].tx)) = Payload(R(p))
=============================================================================
