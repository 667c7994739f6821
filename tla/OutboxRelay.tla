---------------------------- MODULE OutboxRelay ----------------------------
(***************************************************************************)
(* The transactional outbox: relays take committed outbox rows to the FIFO *)
(* queue of events.  Several relay processes run PublishOutbox.execute     *)
(* again and again; each cycle is one SQL transaction that claims due rows *)
(* with FOR UPDATE SKIP LOCKED, sends them one after the other, marks each *)
(* in memory and by an UPDATE of the same transaction, and commits.        *)
(***************************************************************************)
EXTENDS Integers, Sequences, FiniteSets

CONSTANTS
  Event,       \* outbox rows; the id of a row is the id of its event
  Aggregate,   \* event -> its aggregate, the message group of the queue
  Stamp,       \* event -> occurredAt, the clock read when its unit of work began
  Relay,       \* the relay processes
  BatchSize,   \* OutboxRelayConfig.batchSize
  MaxFailures, \* bound: how many sends may fail
  MaxCrashes   \* bound: how many cycles may be rolled back

ASSUME RelayAssumption ==
  /\ Stamp \in [Event -> Nat]
  /\ BatchSize \in Nat \ {0}
  /\ MaxFailures \in Nat
  /\ MaxCrashes \in Nat

VARIABLES
  row,          \* event -> "absent", "pending" (published_at is null) or "published"
  nextAttempt,  \* event -> next_attempt_at: "null", "future" or "past"
  commits,      \* how many units of work have committed
  committedAt,  \* event -> the commit that inserted it, 0 before
  claimed,      \* relay -> the rows its open transaction has locked, in order
  marks,        \* relay -> what became of the rows it has sent so far
  received,     \* event -> how many messages of it the events queue accepted
  window,       \* deduplication ids the queue remembers
  flying,       \* event -> sends of it that no relay waits for any longer and
                \* that may still reach the queue
  failures, crashes

outbox == <<row, nextAttempt, commits, committedAt>>
broker == <<received, window, flying>>
vars == <<row, nextAttempt, commits, committedAt, claimed, marks, received,
          window, flying, failures, crashes>>

Elements(s) == {s[i] : i \in 1..Len(s)}

Init ==
  /\ row = [e \in Event |-> "absent"]
  /\ nextAttempt = [e \in Event |-> "null"]
  /\ commits = 0
  /\ committedAt = [e \in Event |-> 0]
  /\ claimed = [r \in Relay |-> <<>>]
  /\ marks = [r \in Relay |-> <<>>]
  /\ received = [e \in Event |-> 0]
  /\ window = {}
  /\ flying = [e \in Event |-> 0]
  /\ failures = 0
  /\ crashes = 0

-----------------------------------------------------------------------------
(* The writers of rows, and time                                           *)

\* A unit of work commits the events it enqueued; all carry the time read
\* before it waited for its wallet, so commits may come out of stamp order.
Enqueue(S) ==
  /\ S # {}
  /\ \A e, f \in S : Stamp[e] = Stamp[f]
  /\ \A e \in S : row[e] = "absent"
  /\ row' = [e \in Event |-> IF e \in S THEN "pending" ELSE row[e]]
  /\ commits' = commits + 1
  /\ committedAt' = [e \in Event |-> IF e \in S THEN commits + 1 ELSE committedAt[e]]
  /\ UNCHANGED <<nextAttempt, claimed, marks, broker, failures, crashes>>

\* The back-off of a row that failed is over.
Elapse(e) ==
  /\ nextAttempt[e] = "future"
  /\ nextAttempt' = [nextAttempt EXCEPT ![e] = "past"]
  /\ UNCHANGED <<row, commits, committedAt, claimed, marks, broker, failures, crashes>>

\* The queue forgets a deduplication id after five minutes.
Forget(e) ==
  /\ e \in window
  /\ window' = window \ {e}
  /\ UNCHANGED <<outbox, claimed, marks, received, flying, failures, crashes>>

-----------------------------------------------------------------------------
(* One cycle of a relay                                                    *)

\* The rows of other transactions, which SKIP LOCKED passes over.  The
\* mutant reads without locking.
NoneLocked(r) == {}
Locked(r) == UNION {Elements(claimed[s]) : s \in Relay \ {r}}

\* Mutants: the filter on published_at is lost, or the one on
\* next_attempt_at keeps only rows that never failed.
DueAgain(e) == row[e] # "absent" /\ nextAttempt[e] # "future"
DueOnce(e) == row[e] = "pending" /\ nextAttempt[e] = "null"
Due(e) == row[e] = "pending" /\ nextAttempt[e] # "future"

\* The first due rows in the order of occurredAt, which leaves ties open.
FirstDue(r, batch) ==
  LET D == {e \in Event : Due(e)} \ Locked(r) IN
  /\ D # {}
  /\ Elements(batch) \subseteq D
  /\ Len(batch) = IF Cardinality(D) < BatchSize THEN Cardinality(D) ELSE BatchSize
  /\ \A i, j \in 1..Len(batch) :
       i < j => batch[i] # batch[j] /\ Stamp[batch[i]] <= Stamp[batch[j]]
  /\ \A e \in D \ Elements(batch) : Stamp[batch[Len(batch)]] <= Stamp[e]

Batches == UNION {[1..n -> Event] : n \in 1..BatchSize}

Claim(r) ==
  /\ claimed[r] = <<>>
  /\ \E batch \in Batches :
       /\ FirstDue(r, batch)
       /\ claimed' = [claimed EXCEPT ![r] = batch]
  /\ UNCHANGED <<outbox, marks, broker, failures, crashes>>

\* markPublished, or scheduleRetry when publish threw.  The mutant takes the
\* failure for a success.
AlwaysPublished(accepted) == "published"
Mark(accepted) == IF accepted THEN "published" ELSE "retry"

Current(r) == claimed[r][Len(marks[r]) + 1]

\* The queue takes a message, or drops the copy of one it remembers.
Take(e) ==
  /\ received' = [received EXCEPT ![e] = IF e \in window THEN @ ELSE @ + 1]
  /\ window' = window \cup {e}

Accept(e) == Take(e) /\ UNCHANGED flying

\* Nobody waits for this send any longer, whether it has reached the queue
\* or not: it arrives by Land, soon or late, or never.
Linger(e) ==
  /\ flying' = [flying EXCEPT ![e] = @ + 1]
  /\ UNCHANGED <<received, window>>

Land(e) ==
  /\ flying[e] > 0
  /\ Take(e)
  /\ flying' = [flying EXCEPT ![e] = @ - 1]
  /\ UNCHANGED <<outbox, claimed, marks, failures, crashes>>

\* publisher.publish and the UPDATE that records its outcome.  The call may
\* throw although the queue took the message or is about to take it.
Publish(r) ==
  /\ Len(marks[r]) < Len(claimed[r])
  /\ \/ /\ Accept(Current(r))
        /\ marks' = [marks EXCEPT ![r] = Append(@, Mark(TRUE))]
        /\ UNCHANGED failures
     \/ /\ failures < MaxFailures
        /\ failures' = failures + 1
        /\ Linger(Current(r))
        /\ marks' = [marks EXCEPT ![r] = Append(@, Mark(FALSE))]
  /\ UNCHANGED <<outbox, claimed, crashes>>

\* The rows of r's batch that got this mark.
Marked(r, mark) ==
  {claimed[r][i] : i \in {j \in 1..Len(marks[r]) : marks[r][j] = mark}}

Release(r) ==
  /\ claimed' = [claimed EXCEPT ![r] = <<>>]
  /\ marks' = [marks EXCEPT ![r] = <<>>]

Commit(r) ==
  /\ claimed[r] # <<>>
  /\ Len(marks[r]) = Len(claimed[r])
  /\ row' = [e \in Event |->
              IF e \in Marked(r, "published") THEN "published" ELSE row[e]]
  /\ nextAttempt' = [e \in Event |->
       CASE e \in Marked(r, "published") -> "null"
         [] e \in Marked(r, "retry") \ Marked(r, "published") -> "future"
         [] OTHER -> nextAttempt[e]]
  /\ Release(r)
  /\ UNCHANGED <<commits, committedAt, broker, failures, crashes>>

\* The process dies, its connection breaks, or a statement or the COMMIT
\* fails: the locks go, nothing is marked, whatever was sent stays sent, and
\* the send that was under way may have arrived or still arrive.
Crash(r) ==
  /\ claimed[r] # <<>>
  /\ crashes < MaxCrashes
  /\ crashes' = crashes + 1
  /\ \/ Len(marks[r]) < Len(claimed[r]) /\ Linger(Current(r))
     \/ Len(marks[r]) = Len(claimed[r]) /\ UNCHANGED broker
  /\ Release(r)
  /\ UNCHANGED <<outbox, failures>>

Next ==
  \/ \E S \in SUBSET Event : Enqueue(S)
  \/ \E e \in Event : Elapse(e) \/ Forget(e) \/ Land(e)
  \/ \E r \in Relay : Claim(r) \/ Publish(r) \/ Commit(r) \/ Crash(r)

Spec == Init /\ [][Next]_vars

-----------------------------------------------------------------------------
(* Fairness: the relays tick for ever and a cycle that began goes on; time *)
(* passes.  That an outage of the queue ends is the bound MaxFailures.     *)

Fairness ==
  /\ \A r \in Relay : WF_vars(Claim(r) \/ Publish(r) \/ Commit(r))
  /\ \A e \in Event : WF_vars(Elapse(e))

FairSpec == Spec /\ Fairness

-----------------------------------------------------------------------------
(* Properties                                                              *)

TypeOK ==
  /\ row \in [Event -> {"absent", "pending", "published"}]
  /\ nextAttempt \in [Event -> {"null", "future", "past"}]
  /\ commits \in Nat
  /\ committedAt \in [Event -> Nat]
  /\ claimed \in [Relay -> Seq(Event)]
  /\ marks \in [Relay -> Seq({"published", "retry"})]
  /\ received \in [Event -> Nat]
  /\ window \subseteq Event
  /\ flying \in [Event -> Nat]
  /\ failures \in 0..MaxFailures
  /\ crashes \in 0..MaxCrashes

\* The copies of e, with those that may still be made.
Copies(e) == received[e] + flying[e]

\* A row is marked published only if the queue took its event: no crash,
\* refusal or lost answer between send and COMMIT loses an event.
PublishedWasSent ==
  \A e \in Event : row[e] = "published" => received[e] > 0

\* Two relays never work on one row, and a row stays pending, and is listed
\* once, while a relay works on it, however long the sends take.
ClaimsAreExclusive ==
  \A r, s \in Relay : \A i \in 1..Len(claimed[r]), j \in 1..Len(claimed[s]) :
    /\ row[claimed[r][i]] = "pending"
    /\ claimed[r][i] = claimed[s][j] => r = s /\ i = j

\* Once its row is published, no relay sends an event again: only a send that
\* was under way by then, of a call that threw or a cycle that was rolled
\* back, may still make a copy.
NeverSentAgain ==
  [][\A e \in Event :
       row[e] = "published" => Copies(e)' <= Copies(e)]_vars

\* Events are not duplicated indefinitely: beyond the first, a copy needs a
\* send that failed or a cycle that was rolled back, also a copy that is
\* still under way.
CopiesBounded ==
  \A e \in Event : Copies(e) <= 1 + failures + crashes

\* A committed event reaches the queue and is marked in the end.
EverythingPublished ==
  \A e \in Event : row[e] = "pending" ~> row[e] = "published"

\* "MessageGroupId = aggregateId keeps the order per aggregate": the queue
\* receives the events of an aggregate in the order they were committed.
AggregateOrder ==
  \A e, f \in Event :
    /\ Aggregate[e] = Aggregate[f]
    /\ 0 < committedAt[e]
    /\ committedAt[e] < committedAt[f]
    /\ received[f] > 0
    => received[e] > 0
=============================================================================
