# Verification of the Wagering Processor

The program under `src/` processes the bets, wins, losses, refunds and
rollbacks that game providers send, by HTTP and by an SQS queue, against
wallets in Postgres. This directory holds TLA+ models of its financial core, of the
schedule that retries waiting reversals, of the readers of its ledger, of the
relay that publishes its events and of the consumer that feeds it; an abstract
specification of what the core promises, which the detailed one is shown to implement;
the TLC configurations that check them on small instances; and TLAPS proofs of
what matters most for every instance.

Paths below are relative to the repository; `src/src/...` is its code,
`src/ARCHITECTURE.md` and `src/CHALLENGE.md` its documents.

1. [Inventory](#1-inventory)
2. [Modules](#2-modules)
3. [How the model corresponds to the code](#3-how-the-model-corresponds-to-the-code)
4. [Properties and runs](#4-properties-and-runs)
5. [Disagreements between documents and code](#5-disagreements-between-documents-and-code)
6. [Proofs](#6-proofs)
7. [What is not modelled](#7-what-is-not-modelled)
8. [Plan](#8-plan)

## 1. Inventory

### The shared state

One Postgres database (`infrastructure/persistence/mikro-orm/migrations`), read
and written at READ COMMITTED:

| table | what it holds | what protects it |
|---|---|---|
| `wallet` | balance, version | row lock, compare-and-set on version, `balance >= 0`, unique (player, currency) |
| `wager_transaction` | one row per accepted operation, with its status | unique idempotency key, unique (provider, external id), one active reversal per (reference, kind) |
| `wallet_ledger_entry` | append-only movements with balance before and after | unique (wallet, transaction), trigger against UPDATE and DELETE |
| `inbox_message` | the SQS messages already handled | primary key (consumer, message id) |
| `outbox_message` | integration events to publish | claimed with SKIP LOCKED |

Beside it: two SQS queues (commands in, events out) and a dead-letter queue.

### The components

| component | state it owns | operations | hard part | correct means |
|---|---|---|---|---|
| Wagering rules (`domain/wagering`, `wager-processing.ts`) | none | kind, direction, reference match, give-up | the order of the rules | a reversal compensates what it names |
| Wallet and ledger entry (`domain/wallet`) | balance, version, entries | open, debit, credit | lost update, overdraft | the ledger explains the balance |
| ProcessWagerTransaction | rows, ledger, inbox, outbox rows | one unit of work per request | duplicates, two channels, wallets created meanwhile | one effect, durable answers, replays |
| ReprocessPendingReferences | waiting rows | list, reprocess each, retry or give up | list read before the lock, several sweepers | every reversal settles once |
| CreateWallet | wallet, opening row, entry, events | check, insert | two creations at once, requests that arrive first | one wallet per player and currency |
| Unit of work and repositories | SQL transactions, identity map | run, lock, rollback, error mapping | READ COMMITTED, lock on no row, deadlock | all or nothing |
| Outbox relay | outbox rows' status | claim, publish, mark, back off | crash between publish and commit, overtaking | at least once, in order while nothing fails |
| SQS consumer | visibility, receive count | poll, handle, acknowledge, dead-letter | redelivery, partial batches, poison messages | no message lost, none applied twice |
| Reconciliation | none | compare balance with ledger sum | several statements at READ COMMITTED, a lock on no row | a healthy wallet is never reported |
| Queries, ledger paging | page cursor | read a page, go on from a cursor | entries committed before, behind and beyond the cursor, equal clocks | what was there at the first page is given once |
| Money | none | parse, normalise, add | width of the column, rounding | exact decimal arithmetic |
| HTTP API, authentication | none | route, map errors, HMAC | - | - |
| Wiring, configuration, metrics, readiness | none | - | - | - |

How they interact: HTTP controllers and the SQS consumer call the same
`ProcessWagerTransaction.execute`; the pending-reference worker calls
`ReprocessPendingReferences`; both settle rows through
`applyAcceptedTransaction` and `rejectTransaction` of `wager-processing.ts`;
all of them run in `MikroUnitOfWork.run`, so one SQL transaction per call, and
communicate only through the tables. The relay (`OutboxRelayWorker`, one per
replica) takes the outbox rows they insert to the queue of events. `ReconcileWallet` and
`GetWalletLedger` read the same tables, the first under the wallet's row lock. The consumer
(`WagerTransactionConsumer`, one per replica) deletes a command from its queue
when `execute` has returned, leaves it there, or copies it to the dead-letter
queue; the queue itself redrives what was received too often.

The hard behaviours are concurrency between handlers, consumers and sweepers
(several processes of each), redelivery, reversals that arrive before their
reference, a process dying between any two statements, and a wallet being
created while requests for it are under way. `PROJECT.json` lists each hazard
at its line with the property that covers it.

## 2. Modules

| module | what it is |
|---|---|
| `WagerRules` | the rules without state: kinds, statuses, directions, reference match, refusals, give-up, payload |
| `WagerData` | wallets, requests, ledger entries: what the wallet modules have in common |
| `WalletService` | the abstract specification: each operation takes effect at one instant, once |
| `WagerProcessing` | the tables, the processes and every SQL statement of the three writing use cases; fairness; properties |
| `WagerInvariants` | what holds between the statements of a unit of work: the inductive strengthenings |
| `WagerRefinement` | the mapping from the tables to `WalletService` |
| `WagerLedgerProofs` | proofs about types and the ledger: `TypeCorrect`, `LedgerCorrect`, `SnapshotsCorrect` |
| `WagerRowProofs` | proofs about rows: `PurseHasOneWallet`, `AcceptedOnce`, `ReversedOnce`, `RowsOnlyMoveForward` |
| `WagerMovementProofs` | proofs about entries, events, messages and answers: `EnteredOnce`, `ReversalsCompensate`, `OutboxTellsRows`, `InboxKeepsOutcome`, `AnswersAreDurable` |
| `WagerRefinementProofs` | the refinement and the waits: `ServiceImplemented`, `DecisionsAreCurrent`, `WaitsEnd` |
| `MCWagerProcessing` | the named requests and wallets of the TLC configurations |
| `ReferenceSweep` | the schedule of waiting reversals: clock, back-off, time-to-live, several processes |
| `ReferenceSweepProofs` | `SweepTypeCorrect`, `RetriesEnd`, `GivenUpRightly`, `OneProcessKeepsBackoff` |
| `MCReferenceSweep` | the rows and processes of its configurations |
| `LedgerReaders` | GetWalletLedger and ReconcileWallet beside the writers |
| `LedgerReadersProofs` | `WalksAreComplete`, `WalksAreDisjoint`, `ReconciliationIsTrue`, `NoAlarmIsFalse`, `BalanceIsSumOfLedger`, `ReadersTypeCorrect` |
| `MCLedgerReaders` | the wallets and requests of its configuration |
| `OutboxRelay` | relays, outbox rows and the queue of events; fairness; properties |
| `OutboxRelayProofs` | `NothingLost`, `ExclusiveClaims`, `CopiesCorrect`, `SentOnce` |
| `MCOutboxRelay` | the events and stamps of its configurations |
| `WagerConsumer` | the queue of commands, consumers and the dead-letter queue; fairness; properties |
| `WagerConsumerProofs` | `NothingDropped`, `CopiesArePaidFor` |
| `MCWagerConsumer` | the messages of its configurations |

How they build on each other:

```
WagerRules <- WagerData <- WagerProcessing <- WagerInvariants <- WagerRefinement
                    ^                                               | (INSTANCE)
                    +------ WalletService <-------------------------+
                                  ^
WagerRules <- ReferenceSweep      +-- LedgerReaders      OutboxRelay   WagerConsumer

WagerInvariants <- WagerLedgerProofs <- WagerRowProofs <- WagerMovementProofs <- WagerRefinementProofs
                                                          WagerRefinement <-------------+
```

`WagerProcessing` implements `WalletService` (section 6), which is why `LedgerReaders`
can take the atomic operations of `WalletService` for its writers: the readers
see committed states only. `ReferenceSweep` takes a unit of work of `WagerProcessing`
for one step and adds the clocks that `WagerProcessing` leaves open.
`WagerProcessing` enqueues the outbox
rows (`outbox`) that `OutboxRelay` starts from: its `Enqueue` is a commit of
`WagerProcessing` with its events. `WagerConsumer` calls what `WagerProcessing`
models: its `Execute` is a whole unit of work with the inbox row, committed or
not, and its redeliveries are repeated `Submit`s there.

A few definitions come in pairs: the one the model uses and, just before it, a
plausible bug of the same code (`NoLockMode`, `TrustList`, `IgnoreVersion`,
...). Those are the mutants: with the definition replaced by its pair, TLC
finds the property named beside it in `PROJECT.json` violated. They are not
part of the specification.

## 3. How the model corresponds to the code

**A step is a statement.** `uow.run` forks an entity manager and opens a SQL
transaction; the model has one action for each SQL statement the use case then
awaits, as those are the points where other processes get in. `pc[p]` is the
statement process `p` will run next. What happens between two awaits (domain
methods on loaded objects) belongs to the statement it leads to.

**Reading and writing.** A statement reads what is committed when it runs (READ
COMMITTED). Writes go to `buf[p]` and become visible together in `Commit`;
`Fail`, `Crash` and `DeadlockVictim` discard them. `nativeUpdate` and `insert`
run at once and not at a flush, so the uniqueness checks and waits they cause are at
the statement, not at the commit.

**Locks and waits.** `lock[p]` is the row lock on the wallet: `FOR UPDATE`
(`LockWallet`), the lock of an `UPDATE` of non-key columns (`SaveWallet`), and
the share lock a foreign-key check takes (`CheckForeignKey`), with Postgres'
conflict table. An insert also waits for an open transaction that inserted an
equal unique key (`HoldersOf...`). `BlockedBy` collects these waits, and a
minimal cycle of them lets Postgres abort a member (`DeadlockVictim`).

**A wallet that is not there.** `findOne(..., PESSIMISTIC_WRITE)` on a missing row
returns null and locks nothing; `MikroUnitOfWork.run` goes on. The model keeps
this: `LockWallet` then leaves `lock` and `snap` alone, `ReadWallet` may find
the wallet later, and only the version of `SaveWallet` protects it.

**The identity map.** A wallet loaded by the locking SELECT is not read again
in the same fork: `snap[p]` keeps the values read first.

**Rows.** A row of `wager_transaction` is named after the request that inserted
it, the OPENING row after its wallet; the columns that never change are those
of the request (`Req`), and `txs` keeps the ones `transactionMutableFields`
updates. Ids from the id generator are fresh, so the name is as good as the id.

**The two use cases share a body.** Both resolve a reference, check for another reversal,
and apply; they differ in what happens without a usable reference:
`ParkReversal` and `RetryReversal`. ReprocessPendingReferences has its own
re-read under the lock (`ReadTransaction`).

**Listing.** `ListDue` picks any set of waiting rows up to the batch size: which are
due depends on the back-off clock, and leaving it open covers every clock. The
list survives until it is used up; a throw drops the rest, as in `tick`.

**Environment.** `Submit(p, c)` may deliver any request at any time, as often as
it likes, on any handler: that covers client retries, duplicate and reordered
messages, and a redelivery after a crash. `Crash` may strike at any statement,
at most `MaxCrashes` times.

**Data.** Amounts are natural numbers (minor units), the payload hash is the
tuple of the business fields (injective), player and round are one `context`.
`elapsed` in `RetryReversal` is the time-to-live, passed or not.

### The abstract service (`WalletService`, `WagerRefinement`)

The service has a balance, an outcome per transaction and a ledger per wallet, and
four operations: `Open` a wallet; `Post` a movement, `Note` a loss, or `Refuse`; for a
reversal without its reference, `Wait` and later `GiveUp`. Each reads the state
at one instant and decides by the rules of `WagerRules`. The mapping takes the
columns a client can see: the balance of an open wallet, status, failure,
reference and observed balance of a row, and the ledger. Versions, attempts, inbox and
outbox are hidden; every step but a `Commit` that writes a row is a stutter.

There is one exception, which the service states itself. A request may be there before its
wallet (`Early`), find no row to lock, and go on when the wallet is created. If it then moves
no money, it writes no wallet and so compares no version: a refusal
(`INSUFFICIENT_FUNDS`), the balance noted with a loss, and the decision to wait may rest on
what the wallet was a moment ago. So an early request may be refused or noted by any
balance its wallet has had (`Had`), as if a reversal that is there were not yet
(`ReversedBefore`), or told to wait although its reference has arrived. It gets
nothing else: `Post` always takes the balance and the reversals of its instant, keys and
external ids are taken once, and a reversal that waits is then settled under the lock.

### The schedule (`ReferenceSweep`)

**A unit of work is a step.** Listing, `EndList`, and the reprocessing of each row
are the steps of a process that runs the worker; `ticking` makes it one sweep at a time
for each process, `sweeper[s]`. The list is read in a transaction of its own, whose
row locks end with it; between that and the reprocessing of a row, other processes
get in. What `reprocessOne` reads again is whether the row still waits, and its reference.

**Clocks.** `sweeper[s].now` is the clock that `reprocessOne` reads before it waits for
the wallet, so a step may act on an older one. `since` is that of the request that parked the
row. Rows are ordered by `next_attempt_at`, nulls last, then `created_at`.

**Overflow.** A credit that the balance column cannot hold (`overflowing`) is an error of
the database and no domain error: it rolls the unit of work back and ends the sweep,
as `toFailureCode` does not know it.

### The readers (`LedgerReaders`)

**Pages.** Each call is one SELECT of `limit + 1` rows beyond the cursor, in the order
of `created_at` and `id`. An entry's `created_at` is the clock its unit of
work read before it waited for the wallet: `Placed` lets it be any instant up to the commit,
so entries appear before, behind and beyond the cursors already handed out. Ids are any
unused ones: UUIDs of one millisecond made by two processes have no order.

**Reconciliation.** Four statements at READ COMMITTED: the locking SELECT, `findById`
(answered by the identity map when the row was locked), the sum and the count. Three
belong to one transaction. The sum does not: `sumSignedByWallet` calls
`em.getConnection().execute` without the transaction's context, so it runs on a second
connection of the pool and reads what is committed. A reconciliation that holds the
row keeps every writer of that wallet out, since each of them takes a lock on the row
before it commits a change; so the sum reads the same ledger from outside. When no second
connection is to be had, the wait for one ends in an error and the transaction rolls back
(`SumFails`, possible at any time, as others hold the connections of the pool).

### The relay (`OutboxRelay`)

**A cycle is one transaction.** `PublishOutbox.execute` claims, sends, marks and
commits in one `uow.run`. The model has an action for the claim, one for each
send with the UPDATE that records its outcome, and one for the commit. The UPDATE
is invisible to others until the commit, so it joins the send; until then the marks
are in `marks[r]`. `Crash` stands for every way a cycle rolls back.

**Claiming.** `FirstDue` is the query of `claimDue`: pending, due, ordered by
`occurredAt` with ties open, up to the batch size, without the rows that other
relays have locked. A row that another relay published between this
statement's snapshot and its lock is checked again by Postgres and passed over, so
evaluating the query on the committed rows at one instant is enough.

**Time.** `next_attempt_at` is null, in the future, or past; `Elapse` moves it.
`attempts` only sets the length of the back-off and is left out. `Stamp` is `occurredAt`:
a unit of work reads the clock before it waits for its wallet's row, hence `Enqueue`
may come in any order of stamps.

**The queue of events.** It accepts a message unless it remembers its
deduplication id (`window`), and forgets that after a while (`Forget`). `received` counts
what consumers of the queue can get.

**Sends that nobody waits for.** `publish` may throw although the queue took the message,
and a cycle may be rolled back while its relay awaits `publish` (its connection to the
database breaks, or the process dies). Such a send stays under way (`flying`,
`Linger`): it arrives at once, later or never (`Land`), also after another relay has sent
the event and its row is published, and after the queue has forgotten it. Nothing is
assumed of how long it takes.

### The consumer (`WagerConsumer`)

**Steps.** `pollOnce` receives a batch; for its first message `step[c]` walks through
`handle`: parse, `execute`, `ack`, or the two calls of `toDlq`. Every call to SQS or to
the use case is an action with its outcomes: success, an error without effect, an
error although it took effect. Where the error goes follows the code: one of `ack`
is caught and counts as transient (`NextMessage`); one of `toDlq` is thrown in
the catch block, leaves `handle`, and ends the batch (`AbortBatch`).

**The queue of commands.** `where[m]` names the consumer whose receipt of `m` is valid.
`Expire` may come at any time, so a message can be in the hands of two
consumers, of which one has a stale receipt; deleting with it has no effect, with
or without an error. `Deliverable` is the FIFO rule: a group with a message in flight
delivers nothing, and a batch takes a group from its front. `Redrive` moves
what was received `MaxReceive` times. The retention period of the queue is not modelled.

**Messages.** `Class[m]` is what handling can come to: a body that does not parse, a
request refused for good (a missing wallet, a conflict), or one that commits (a business
rejection commits too). Unknown errors are transient, as in `isTransient`.

**Stopping.** `onModuleDestroy` sets the flag that the loop reads between messages; `Start`
is a new process.

## 4. Properties and runs

The first six runs use `MCWagerProcessing` (`lost_redelivery` and `reused_message` are
in section 5), the others the MC module of their model. Crashes are on wherever they
multiply the cases that the run is about.

| run | asks | properties |
|---|---|---|
| `concurrent_bets` | bets of 8 and 4 on a balance of 10, one of them by HTTP and by queue, one with a changed payload under a used key, one operation again for another wallet under another key, a loss; three handlers, one crash | `InboxRecordsOutcome`, `AnswerIsDurable`, `NoDeadlock`, `OperationAcceptedOnce`, `ImplementsService`, `DecidedOnCurrentBalance` |
| `reversals` | two refunds of one bet and a rollback of one of the refunds, beside a second bet and a loss in a foreign currency, in every order; one handler, two sweepers | `ReversalCompensates`, `OneReversalPerKind`, `OneEntryPerMovement`, `OutboxMatchesRows`, `RowsMoveForward`, `ImplementsService` |
| `new_wallet` | no wallet exists at the start; three handlers create it (and another for the same player) and bet on it, twice, with a refund | `TypeOK`, `LedgerExplainsWallet`, `SnapshotsAge`, `OneWalletPerPlayer`, `ImplementsService` |
| `settles` | fair scheduling: a bet, its refund and the creation of the wallet in any order, a crash | `OutboxMatchesRows`, `ReversalSettles`, `RequestEnds` |
| `reference_sweep` | fair scheduling: two processes, two waiting reversals, a clock; a sweep that fails, a credit that overflows for a while | `SweepTypeOK`, `RetryWithinReach`, `GivesUpRightly`, `SweepSettles` |
| `ledger_readers` | a wallet with an opening entry and one opened meanwhile; two bets, a refund and a loss; one client that pages, one reconciliation | `ReadersTypeOK`, `NothingSkipped`, `NothingRepeated`, `ReconcilesOneState`, `NoFalseAlarm` |
| `relay_delivers` | fair scheduling: two relays, three events of two units of work, batches of two, a failed send, a rolled back cycle | `PublishedWasSent`, `ClaimsAreExclusive`, `CopiesBounded`, `NeverSentAgain`, `EverythingPublished` |
| `consumer_accounts` | fair scheduling: two consumers, a bet, behind it a message that does not parse and one that is refused for good, all in one group; a failing call, a stop or crash | `Accounted`, `CopiesPerReceive`, `EverySettles` |

What each property says stands in a comment at its definition; in one line each:

- `TypeOK`: types; balances stay natural, so no interleaving overdraws.
- `LedgerExplainsWallet`: the ledger is a chain from zero to the balance, and
  the version counts its links. No lost update.
- `SnapshotsAge`: the version identifies the balance, so the compare-and-set is
  a sound substitute for the row lock when that locked nothing.
- `OneWalletPerPlayer`: two creations that both found none leave one wallet.
- `ImplementsService`: the tables show operations that took effect one by one; in
  `new_wallet`, where no row lock serialises them, the version alone keeps movements so.
- `OneEntryPerMovement`: exactly one effect however often it is delivered.
- `OperationAcceptedOnce`: two rows never share a key or an external id.
- `OneReversalPerKind`: one settled reversal per reference and kind.
- `ReversalCompensates`: a reversal is the inverse of an earlier entry.
- `OutboxMatchesRows`: the events enqueued are those the tables justify.
- `InboxRecordsOutcome`: a recorded message has its stored outcome.
- `AnswerIsDurable`: first answers and replays equal what is stored.
- `RowsMoveForward`: settled rows never change, attempts only count up.
- `DecidedOnCurrentBalance`: the recorded balance is the one at the commit.
- `NoDeadlock`: waits never form a cycle when the wallet exists first.
- `ReversalSettles`, `RequestEnds`: what is accepted is settled; what starts ends.
- `RetryWithinReach`: no row is put off beyond its time-to-live and one capped delay.
- `GivesUpRightly`: given up only for a missing reference, and not too early.
- `SweepSettles`: every waiting reversal ends once no credit overflows any longer.
- `NothingSkipped`, `NothingRepeated`: a walk gives what was there at its first page, once.
- `ReconcilesOneState`: balance, sum and count of a report belong to one state.
- `NoFalseAlarm`: a wallet that is being written is not reported as divergent.
- `PublishedWasSent`: no event is marked published that the queue did not take.
- `ClaimsAreExclusive`: relays never share a row, and the row stays pending.
- `NeverSentAgain`: an event whose row is published is not sent again; only a send under way
  since before may arrive.
- `CopiesBounded`: further copies, also those under way, come only from failures and rolled
  back cycles.
- `EverythingPublished`: every committed event is published.
- `Accounted`: what left the command queue was processed or has a dead-letter copy.
- `CopiesPerReceive`: at most one dead-letter copy for each receive, and one by the redrive.
- `EverySettles`: every message leaves the command queue.

### Bounds

- *Processes.* Two units of work in conflict and a third that waits for both, or
  that redelivers one of them, are the largest conflicts the locks allow on one
  wallet: three handlers, or a handler and two sweepers.
- *Amounts.* An opening balance of 10 and bets of 8 and 4 make the balance cover exactly one
  of them, so that a wrong interleaving shows as an overdraft or a wrong refusal.
- *Requests.* Each run lists the requests whose conflict it is about; submitting them
  repeatedly is unbounded.
- *Attempts.* One in `reversals`, so that a row its sweepers find without reference is given up
  at once: with two sweepers and a handler on one bet, a second attempt makes too many
  states. The branch that counts up and goes on waiting is taken in `settles`, which has two
  attempts, and the theorems cover every limit.
- *Crashes.* One. A second finds the same committed states, as a crash leaves nothing
  but the database. `new_wallet` has none, for the third handler.
- *Batch size.* One or two: with two, a row is listed and settled by another
  sweeper before it is reprocessed.
- *Symmetry.* Over handlers, and only in runs without liveness; handlers are
  interchangeable model values.
- *Sweep.* Two processes and two rows: a row listed by both, and a row behind one that
  ends the sweep. Three attempts, a base back-off of 1 that doubles and is capped at 1, a
  time-to-live of 2: the first delay is not cut down to the cap and the second one is, and a row may
  end by its attempts or by its time. Rows are parked up
  to the instant `LastArrival` = 1, and the clock runs to 3 = `LastArrival + Ttl + MaxBackoff - 1`:
  by `RetryWithinReach` (which is proved) every row that is put off is due by then, so a clock
  that stops there does not hide a row that waits for ever.
- *Readers.* Pages of one or two of at most three entries per wallet, three ids and two
  instants: equal clocks, and an entry at every place around a cursor. One
  client and one reconciliation: clients do not interact, and a second reconciliation
  only waits for the first.
- *Relay.* Two relays and batches of two of three events: one relay's batch leaves
  a row for the other, and a row that failed can be claimed by either. Two events share a
  unit of work. One failed send and one rolled back cycle: the second copy of an event, a
  retry after each, and up to two sends that arrive after their row is published. An unbounded outage of the queue would keep events pending, so `MaxFailures`
  stands for an outage that ends.
- *Consumer.* Two receives instead of five before the redrive: the last receive and one
  before it. Batches of two messages, so that one waits behind another. One failing
  call and one stop or crash; receipts may expire at any time and as often as
  there are receives.

The runs of `MCWagerProcessing` and `MCLedgerReaders` check deadlock: their behaviours
never stop, as a request or a reconciliation may always be started again. The runs of the
relay, the consumer and the sweep do not: when every event is published, every message has
left, or no row waits at the last instant, the model really stops.

### Fairness

`settles` assumes

- strong fairness of each process' next statement. A statement without a lock can
  always run; for one that waits, Postgres queues the waiters of a row or of a
  unique key in order, so a waiter that could run again and again does run;
- weak fairness of `ReprocessNext`: the loop over the list is awaited code;
- strong fairness of the sweep that lists a given row by some worker:
  `PendingReferenceWorker` ticks on `setInterval` for ever, a row's back-off is
  bounded by an hour, and the query orders by due time, so a row that keeps
  waiting is listed in the end.

Nothing is assumed of clients: no request need ever be sent, or sent again.

`relay_delivers` assumes weak fairness of each relay's steps (the worker ticks on
`setInterval`, catches every error, and a cycle is awaited code) and that back-offs end.
`Forget`, `Crash` and new events need never happen.

`reference_sweep` assumes weak fairness of the clock and of each process' sweep: the
interval fires for ever, the sweep is awaited code, and the database answers. It does not
assume that references arrive. `SweepSettles` has one premise: from some moment on
no credit overflows. Without it the property is false, and the code's: a row whose credit
does not fit aborts every sweep that reaches it (section 5).

`consumer_accounts` assumes weak fairness of each consumer's steps (`loop` catches every
error and polls again; a stopped replica is started again), and that the queue's
visibility timeouts end and its redrive happens.

## 5. Disagreements between documents and code

Four runs end in a violation on purpose. Each states what a document or a
comment says; the counterexample is what the code does. `PROJECT.json` quotes
the lines.

| run | the claim | what happens |
|---|---|---|
| `lost_redelivery` | a redelivered message replays the stored result | not when the operation was stored under another key: the redelivery throws |
| `reused_message` | same key with another hash is never a replay | it is, if the message id was seen before |
| `relay_overtakes` | events keep the order per aggregate | claims are ordered by a clock read before the wallet's lock, so a later change of a wallet can be sent first |
| `sweep_hurries` | waiting reversals are retried with exponential back-off, by any number of instances | two processes that list a row in turn count two attempts without waiting for the back-off between them |

None of them breaks a safety property above: the first ends in an error that a
retry or the dead-letter queue takes care of, the second concerns what is answered,
the third order, and the fourth how soon a reversal is given up.

Other places where the models follow the code and a document says otherwise, without a
run of their own:

- `process-wager-transaction.use-case.ts:110` says that everything below runs with the
  wallet's row locked; not when the wallet is created after the locking SELECT, which locks no
  row and lets the unit of work go on. The version of the UPDATE then protects the balance
  (`LedgerExplainsWallet` and `ImplementsService` in `new_wallet`), but a refusal may be
  written on an outdated balance (`Seen` in `WalletService`);
- in the same situation a first delivery and its retry may both pass the pre-checks; the
  second INSERT fails on the index and is answered with a 409, where
  `src/ARCHITECTURE.md:113` promises a replay. The next retry replays;
- giving up on a reference (`reprocess-pending-references.use-case.ts:89`) records no
  observed balance, against `src/ARCHITECTURE.md:116`;
- a reversal whose credit does not fit `numeric(20,2)` is neither rejected nor counted as
  an attempt: the error ends the sweep, again at every interval, and rows behind it in
  the order are not reached. `src/ARCHITECTURE.md:185` says that the worker reprocesses each
  waiting row;
- an entry committed behind a cursor that was already handed out (its unit of work read the
  clock, then waited) is never given to the client that follows that cursor;
  `src/CHALLENGE.md:466` asks for a stable cursor;
- `reconcile-wallet.use-case.ts:20` says that the reconciliation runs under the wallet's lock;
  when the wallet is created between the locking SELECT and `findById` it does not, and a
  movement in between is reported as a divergence;
- requests with one key for two wallets both pass the pre-checks that
  `src/ARCHITECTURE.md:121` calls authoritative; the second INSERT fails on the index;
- the first answer to an operation in another currency than its wallet carries the
  wallet's balance, and the replay carries none;
- `dlqUrl` is optional, and without it `toDlq` deletes a message that
  `src/ARCHITECTURE.md:162` says is copied first: `Accounted` excepts those messages
  (`Dismissed`), and `NothingDropped` shows that nothing else is lost;
- after a transient error the consumer goes on with the next message of the
  batch, also of the same wallet, whose order `src/ARCHITECTURE.md:153` promises (and
  does not rely on);
- a message that waits in a batch behind slow or failing ones uses up its receives, so
  the redrive may take one that never failed.

## 6. Proofs

TLC shows the properties on the instances above. The following hold for any
wallets, requests, handlers, workers, batch size, attempts and crashes that
satisfy the assumptions of `WagerData` and `WagerProcessing` (`WalletAssumption`,
`RequestAssumption`, `PurseAssumption`, `ProcAssumption`, `NullAssumption`): requests
are well typed, wallet ids are not request ids, no key or external id of a client is a wallet
id, null is no id and no row, opening balances are natural numbers, and no player
starts with two wallets in a currency. In the model a wallet's id names its opening credit, which
in the code has the key `internal:opening:<walletId>` and the provider `internal`: clients are
assumed not to use these names.

The invariants of `WagerInvariants` form a tower, each level inductive with the ones
below it: `ControlInv` (types and control), `LedgerInv` (wallets and ledger), `RowInv`
(rows), `MovementInv` (entries, events, messages, answers) and `DecisionInv` (what
a unit of work has decided). A level looks at the tables (`...TablesOK`) and at the open
transaction of each process (`...WorkOK(p)`), with one lemma per action; `Commit`,
where the second becomes the first, has several.

**`TypeCorrect == Spec => []TypeOK`** (`WagerLedgerProofs`). That a balance is a
natural number is not a matter of types: it needs that the movement a process
is about to save was allowed on the snapshot it was computed from. The
inductive invariant is `ControlInv == TypeOK /\ ControlOK /\ WalletsOpen`.
`ControlOK` says which use case is at which statement and what it has read by
then, in particular that at `saveWallet` the movement has no failure.
`WalletsOpen` says that rows, lists of due rows, snapshots and locks exist only
for created wallets. One lemma per action, combined in `ControlStep`.

**`LedgerCorrect == Spec => []LedgerExplainsWallet`** (`WagerLedgerProofs`). The
inductive invariant is `LedgerInv`, which is `ControlInv` with

- `LockExclusion`: no two conflicting row locks on one wallet;
- `SnapshotsAge`: a snapshot with the wallet's version is the wallet, and under
  an exclusive lock it always is;
- `CreatedOnce`: a wallet about to be created is not there and has one creator;
- `WritesContinueWallet`: what a process is about to commit continues its snapshot.

The argument: a commit that moves a wallet holds its row in an exclusive mode
(taken by FOR UPDATE, or by the UPDATE whose version matched), so by `LockExclusion` and
`SnapshotsAge` the snapshot is the committed wallet, and the entry appended
begins where the ledger ended (`ChainGrows`). Every other commit leaves the
wallet alone (`QuietLedger`, `RestLedger`). The theorem covers the path through
the row lock and the path of a wallet created meanwhile alike.
`SnapshotsCorrect == Spec => []SnapshotsAge` is one of its parts.

**The rows** (`WagerRowProofs`). `RowInv` is `LedgerInv` with `RowTablesOK` and `RowWorkOK(p)`.
A unique index is asked at the INSERT and not at the commit, so the tables alone do not
carry the argument: two open transactions never hold entries of one index
(`Apart`), and the entries that one holds are not in the tables (`KeysFree`). For reversals
the code has no such index to wait for, but the lock: `ReversalFits` says that the
reference of a settled reversal in an open transaction is PROCESSED, is on the locked
wallet, and is named by no other row of its kind. `SweepsWaitingRow` says that a sweeper
holds the lock while it decides on a row that still waits. From it follow

- `PurseHasOneWallet == Spec => []OneWalletPerPlayer`,
- `AcceptedOnce == Spec => []OperationAcceptedOnce`,
- `ReversedOnce == Spec => []OneReversalPerKind`,
- `RowsOnlyMoveForward == Spec => RowsMoveForward`.

**The movements** (`WagerMovementProofs`). `MovementInv` adds that a unit of work commits its
row together with exactly the entry, the events and the message that the row
calls for (`MovementFits`, `MessageFits`), and that the answer it holds tells that row
or a stored one (`AnswerFits`). The row it replaces is absent or waits (`OldRow`), so it has no
entry and at most the event of waiting; settled rows never change, so what was once
recorded stays true. From it follow

- `EnteredOnce == Spec => []OneEntryPerMovement`,
- `ReversalsCompensate == Spec => []ReversalCompensates`,
- `OutboxTellsRows == Spec => []OutboxMatchesRows`,
- `InboxKeepsOutcome == Spec => []InboxRecordsOutcome`,
- `AnswersAreDurable == Spec => []AnswerIsDurable`.

**The refinement** (`WagerRefinementProofs`):

- `ServiceImplemented == Spec => ImplementsService`,
- `DecisionsAreCurrent == Spec => DecidedOnCurrentBalance`,
- `WaitsEnd == Spec => []NoDeadlock`, with the further hypothesis `OpenAtStart = Wallet`.

A decision is made over several statements and becomes visible at COMMIT. `DecisionInv`
says that it still is the right one then. If the wallet was there to be locked
(`Guarded`: at the start, or because a sweeper has found a row of it), a unit of work that has read
its wallet holds the row's lock until it ends (`HoldsLock`), hence its snapshot is the
wallet (`LockedWallet`). What its statements found (`DecisionFits`) survives a COMMIT of another
process (`CommitBeside`), as that one works on another wallet: it may add
references, which never takes a candidate away, and a reversal it settles points to its own
wallet. So at COMMIT the row is what the tables decide (`Decides`), and the step is
`Post`, `Note`, `Refuse`, `Wait` or `GiveUp` of `WalletService`, or shows nothing new
(`CommitImplements`). Every other step is a stutter.

A unit of work that found no wallet to lock keeps less. One that moves the wallet has it
locked by its own UPDATE, whose version matched, so from there on it is like the
others: that nobody has reversed its reference meanwhile is `ReversalFits` of
`RowInv`, which covers both. One that moves nothing keeps only what never becomes false:
its snapshot is a balance the wallet has had (`Had`, as ledgers only grow), a candidate stays one,
and a reversal once found stays. That is what the service promises to `Early` requests.

`WaitsEnd` keeps its hypothesis: a unit of work that found no wallet to lock already holds its
transaction key when it asks for the row (at the foreign-key check or the UPDATE), and may
wait there for one that holds the row and waits for the key. Postgres then
aborts one of them (`DeadlockVictim`). With it, the theorem needs no further
invariant: a unit of work that holds its wallet's row never waits for a row again
(`HolderNeverWaits`), and one that waits for the row, the inbox or a transaction key waits for
one that is further on (`WaitsAreOrdered`), the last of which waits for nobody.

**The sweep** (`ReferenceSweepProofs`), for any processes, rows, limits and clocks that
satisfy the assumptions of `ReferenceSweep`: `SweepTypeCorrect`, `RetriesEnd == Spec =>
[]RetryWithinReach` and `GivenUpRightly == Spec => GivesUpRightly`. That a row is never put off
too far depends on the clocks of the processes, which may be older than the
present but never newer, and on the rows they still have in hand. `OneProcessKeepsBackoff`
shows what `sweep_hurries` refutes for two processes: with one, every back-off is kept.

**The readers** (`LedgerReadersProofs`), for any wallets, requests, pages, clocks and clients:
`ReadersTypeCorrect`, `WalksAreComplete` (`NothingSkipped`), `WalksAreDisjoint`
(`NothingRepeated`) and `ReconciliationIsTrue` (`ReconcilesOneState`). The inductive invariant says
of a walk that what it has been given lies before its cursor and that what was there at
its first page and lies before the cursor has been given; of a reconciliation,
that its wallet does not change while it holds the row.

`NoAlarmIsFalse == ReadersSpec => []NoFalseAlarm` needs that the sum of a ledger is the balance.
`LedgersBalance` says so of every open wallet by way of its entries: each continues the one
before it and the last ends at the balance (`Continues`). That such a chain sums up to its last
balance (`SumOfChain`) is an induction over its length. The sum is a recursive function and not
a RECURSIVE operator, and the induction takes the least length at which the equation fails
(`LeastNatural`), because an induction theorem with a predicate as a parameter is out of
reach of the provers. `BalanceIsSumOfLedger` states the equation itself for every state.

**The relay** (`OutboxRelayProofs`), for any events, stamps, relays, batch size,
failures and crashes that satisfy `RelayAssumption`. The inductive invariant is
`RelayInv`: types; `MarksFit` (a relay has at most one mark for each row it claimed);
`ClaimsAreExclusive`; `PublishedWasSent`, with `MarkedWasSent` (what a relay has marked as
published in its open transaction was taken by the queue) and `WindowWasSent` (so was what
the queue deduplicates); and `CopiesPaid`. `CopiesBounded` is not inductive: it does not tell
whether the first copy is still owed. `CopiesPaid` does: an event that is *settled*,
published or marked so by some relay, may have one copy more than failures and
crashes paid for. Copies are counted with the sends under way (`Copies`): one that nobody
waits for any longer is paid for when its relay lets go of it, so its arrival
(`LandRelay`) costs nothing, however late it comes. A successful send settles the event, which was not settled before
because its row is pending and no other relay has it (`ClaimsAreExclusive`); a
failed one pays; a crash unsettles what its cycle had sent, and pays for it.
From it follow

- `ExclusiveClaims == Spec => []ClaimsAreExclusive`,
- `NothingLost == Spec => []PublishedWasSent`,
- `CopiesCorrect == Spec => []CopiesBounded`,
- `SentOnce == Spec => NeverSentAgain`.

**The consumer** (`WagerConsumerProofs`), under `ConsumerAssumption`:
`NothingDropped == Spec => []Accounted`, with a dead-letter queue configured or not. The
inductive invariant adds to `Accounted` that a consumer has a message in hand while it is
not polling (`BatchInHand`) and that at `ack` that message is processed, at `discard` copied, or
refused for good where there is no queue to copy it to (`DeletesAreDue`). The last needs that other
consumers' steps never take a commit or a copy back (`OthersStayDue`). The run
has the queue, as deployments do; without it only the messages of `Dismissed` may be lost.

`CopiesArePaidFor == Spec => []CopiesPerReceive`: the copies made of a message and
those still owed, one for each consumer that has it in its batch and has not copied it
(`Owing`), are never more than its receives, and one for leaving the queue (`PaidFor`). It needs that a
batch holds a message once (`BatchesDiffer`).

Every safety property that a passing run checks is stated by a theorem. Only model-checked is
liveness (`ReversalSettles`, `RequestEnds`, `SweepSettles`, `EverythingPublished`,
`EverySettles`), which the proof system does not reach.

## 7. What is not modelled

- The FAILED status written at `reprocess-pending-references.use-case.ts:103`: the
  foreign key from the row to its wallet and the absence of deletes make the branch
  unreachable.
- `CreateWallet`'s answer: it is the wallet just inserted.
- Dates, back-off and time-to-live in `WagerProcessing`, where they are choices (section 3);
  `ReferenceSweep` has the clocks.
- `inbox_message.processed_at`, which the code never sets.
- The width of `numeric(20,2)`, Money's parsing, and events' payloads.
- The pool of connections (`DB_POOL_MAX`, ten of a process). That a unit of work waits for its
  connection delays it, which every model allows between two steps. But as many reconciliations
  as there are connections, each holding one and waiting for a second for its sum, all
  wait until the pool's timeout; `SumFails` is what that leaves behind.
- The retention periods of the queues, and the retries inside the SQS client.
- Metrics, logs and the retry of transient errors by clients.
- Money: parsing and normalisation of decimal strings are text conversions without
  state. What matters of them here, that amounts are natural numbers of minor units and that
  a balance may not fit its column, is in the models.
- The HTTP API: routes, body schemas, and a status that depends on an error's class alone.
- Authentication: a check of one request before any state is read.
- Configuration, wiring, health and observability: input and output around the components.
- GetWallet and the two transaction queries: one row read in one statement.

`wallet.playerId` is never compared with the command's player in the code, and
so not in the model.

## 8. Plan

The models that the plan began with are there: the core, the relay, the consumer, the
abstract service and its refinement, the schedule of waiting reversals, and the readers. Every
safety property of a passing run has its theorem, and the refinement holds for wallets
that are created while requests for them are under way. Left:

1. `MoneyRules`: normalisation and bounds of amounts against a reference definition, if
   the rules for amounts grow.
