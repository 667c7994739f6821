--------------------------- MODULE ReferenceSweep ---------------------------
(***************************************************************************)
(* The schedule of ReprocessPendingReferences: which waiting reversals a   *)
(* sweep takes and when, how a failed attempt is put off, and when one is  *)
(* given up.  A process that runs the worker sweeps at every interval,     *)
(* never twice at once: a sweep lists the due rows in one transaction and  *)
(* reprocesses them one after the other, each in a unit of work that holds *)
(* the row lock of its wallet.  Such a unit is one step here; its own steps*)
(* are those of WagerProcessing.  Several processes may run the worker.    *)
(***************************************************************************)
EXTENDS WagerRules, Sequences, FiniteSets

CONSTANTS
  Row,          \* the reversals that are parked
  BigRow,       \* those whose credit may be too large for the balance column
  Sweeper,      \* processes that run the worker
  BatchSize, MaxAttempts, BaseBackoff, Ttl,  \* PendingReferenceConfig
  MaxBackoff,   \* MAX_REFERENCE_BACKOFF_MS
  LastArrival,  \* bound: no reversal is parked after this instant
  LastInstant,  \* bound: how far the clock runs
  MaxErrors,    \* bound: how many sweeps fail for a passing reason
  None

ASSUME SweepAssumption ==
  /\ BigRow \subseteq Row
  /\ BatchSize \in Nat \ {0} /\ MaxAttempts \in Nat \ {0}
  /\ BaseBackoff \in Nat \ {0} /\ MaxBackoff \in Nat \ {0} /\ Ttl \in Nat \ {0}
  /\ LastArrival \in Nat /\ MaxErrors \in Nat /\ LastInstant \in Nat
  /\ None \notin Nat

VARIABLES
  clock,
  row,          \* the columns of a row that the schedule reads
  processed,    \* the rows whose reference is PROCESSED
  overflowing,  \* the rows whose credit numeric(20,2) would not hold now
  sweeper,      \* process -> the sweep it is running
  errors

vars == <<clock, row, processed, overflowing, sweeper, errors>>

\* RESOLVED is PROCESSED, or REJECTED by a rule about the reference;
\* GIVEN_UP is REJECTED with REFERENCE_NOT_FOUND.
Columns(status, attempts, since, next) ==
  [status |-> status, attempts |-> attempts, since |-> since, next |-> next]
Absent == Columns("ABSENT", 0, 0, None)
Waiting(r) == row[r].status = "PENDING_REFERENCE"

\* list is what is left of the sweep, now the clock it has read.
SweepAt(pc, list, now) == [pc |-> pc, list |-> list, now |-> now]
Idle == SweepAt("idle", <<>>, 0)

Init ==
  /\ clock = 0
  /\ row = [r \in Row |-> Absent]
  /\ processed = {}
  /\ overflowing = {}
  /\ sweeper = [s \in Sweeper |-> Idle]
  /\ errors = 0

-----------------------------------------------------------------------------
(* Around the sweeps                                                       *)

Tick ==
  /\ clock < LastInstant
  /\ clock' = clock + 1
  /\ UNCHANGED <<row, processed, overflowing, sweeper, errors>>

\* ProcessWagerTransaction parks a reversal whose reference is not PROCESSED.
\* since is pending_reference_since and created_at, the clock it read before
\* it waited for the wallet.
Park(r) ==
  /\ row[r] = Absent
  /\ clock <= LastArrival
  /\ \E at \in 0..clock :
       row' = [row EXCEPT ![r] = Columns("PENDING_REFERENCE", 0, at, None)]
  /\ UNCHANGED <<clock, processed, overflowing, sweeper, errors>>

\* Before that, or after the row has ended, its reference is not looked for.
ReferenceArrives(r) ==
  /\ Waiting(r)
  /\ processed' = processed \cup {r}
  /\ UNCHANGED <<clock, row, overflowing, sweeper, errors>>

\* Other movements of the wallets bring balances near the limit, or away.
BalancesMove ==
  /\ overflowing' \in SUBSET BigRow
  /\ UNCHANGED <<clock, row, processed, sweeper, errors>>

-----------------------------------------------------------------------------
(* listDuePendingReference                                                 *)

\* ORDER BY next_attempt_at, created_at: a null is last.
Before(a, b) ==
  \/ a.next # None /\ (b.next = None \/ a.next < b.next)
  \/ a.next = b.next /\ a.since < b.since

\* The mutant forgets the rows that were never tried.
DueAgain(now) == {r \in Row : Waiting(r) /\ row[r].next # None /\ row[r].next <= now}
Due(now) == {r \in Row : Waiting(r) /\ (row[r].next = None \/ row[r].next <= now)}

\* The rows FOR UPDATE SKIP LOCKED passes over: those another listing has
\* locked, and perhaps those another sweep is saving.
Listing(s) ==
  UNION {{sweeper[z].list[i] : i \in DOMAIN sweeper[z].list} :
           z \in {z \in Sweeper \ {s} : sweeper[z].pc = "listed"}}
Saving(s) ==
  {Head(sweeper[z].list) : z \in {z \in Sweeper \ {s} : sweeper[z].pc = "reprocess"}}

\* list holds the first rows of free, in order.
FirstOf(list, free) ==
  /\ Len(list) = IF Cardinality(free) > BatchSize THEN BatchSize ELSE Cardinality(free)
  /\ \A i, j \in DOMAIN list : list[i] = list[j] => i = j
  /\ \A i \in DOMAIN list :
       \A r \in free \ {list[j] : j \in 1..i} : ~Before(row[r], row[list[i]])

-----------------------------------------------------------------------------
(* The sweep                                                               *)

Become(s, state) ==
  /\ sweeper' = [sweeper EXCEPT ![s] = state]
  /\ UNCHANGED <<clock, processed, overflowing>>

\* tick, which does nothing while a sweep of this process is running, and
\* the listing, by the clock read as it begins.  (A sweep that finds no row
\* changes nothing.)
StartSweep(s) ==
  /\ sweeper[s].pc = "idle"
  /\ \E saved \in SUBSET Saving(s) :
       LET free == Due(clock) \ (Listing(s) \cup saved) IN
       \E list \in UNION {[1..n -> free] : n \in 1..BatchSize} :
         /\ FirstOf(list, free)
         /\ Become(s, SweepAt("listed", list, 0))
  /\ UNCHANGED <<row, errors>>

\* The sweep goes on with list, and reads the clock for its first row.
GoOn(s, list) ==
  Become(s, IF list = <<>> THEN Idle ELSE SweepAt("reprocess", list, clock))

\* The listing transaction ends, and with it the locks on its rows.
EndList(s) ==
  /\ sweeper[s].pc = "listed"
  /\ GoOn(s, sweeper[s].list)
  /\ UNCHANGED <<row, errors>>

\* The mutant has no ceiling.
Uncapped(n) == BaseBackoff * 2^(n - 1)
Delay(n) ==
  IF BaseBackoff * 2^(n - 1) \in 0..MaxBackoff THEN BaseBackoff * 2^(n - 1) ELSE MaxBackoff

\* The row after a failed attempt at the instant now.  The mutant tests the
\* limits before it counts.
GivesUpLate(r, attempts, now) ==
  GiveUpOnReference(attempts - 1, MaxAttempts, now - row[r].since >= Ttl)
GivesUp(r, attempts, now) ==
  GiveUpOnReference(attempts, MaxAttempts, now - row[r].since >= Ttl)
AfterFailure(r, now) ==
  LET n == row[r].attempts + 1 IN
  IF GivesUp(r, n, now)
  THEN Columns("GIVEN_UP", n, row[r].since, None)
  ELSE Columns("PENDING_REFERENCE", n, row[r].since, now + Delay(n))

Resolved(r) == Columns("RESOLVED", row[r].attempts, row[r].since, None)

\* The reference is looked for under the lock.  The mutant gives up first.
UnlessTired(r) ==
  r \in processed /\ ~GivesUp(r, row[r].attempts + 1, clock)
ReferenceFound(r) == r \in processed

\* reprocessOne, for the next row of the list.  Nothing tells whether the
\* row is still due.
Reprocess(s) ==
  LET r == Head(sweeper[s].list) IN
  /\ sweeper[s].pc = "reprocess"
  /\ \/ /\ ~Waiting(r)
        /\ UNCHANGED row
     \/ /\ Waiting(r) /\ ~ReferenceFound(r)
        /\ row' = [row EXCEPT ![r] = AfterFailure(r, sweeper[s].now)]
     \/ /\ Waiting(r) /\ ReferenceFound(r) /\ r \notin overflowing
        /\ row' = [row EXCEPT ![r] = Resolved(r)]
  /\ GoOn(s, Tail(sweeper[s].list))
  /\ UNCHANGED errors

\* A balance the column does not hold is no rejection: the unit of work is
\* rolled back, the row stays as it was, and the error ends the sweep.
Overflow(s) ==
  LET r == Head(sweeper[s].list) IN
  /\ sweeper[s].pc = "reprocess"
  /\ Waiting(r) /\ ReferenceFound(r) /\ r \in overflowing
  /\ Become(s, Idle)
  /\ UNCHANGED <<row, errors>>

\* The database fails or the process restarts: the rest of the list is
\* forgotten, the next interval lists again.
Fail(s) ==
  /\ sweeper[s].pc # "idle"
  /\ errors < MaxErrors
  /\ errors' = errors + 1
  /\ Become(s, Idle)
  /\ UNCHANGED row

Sweep(s) == StartSweep(s) \/ EndList(s) \/ Reprocess(s) \/ Overflow(s)

-----------------------------------------------------------------------------
Next ==
  \/ Tick \/ BalancesMove
  \/ \E r \in Row : Park(r) \/ ReferenceArrives(r)
  \/ \E s \in Sweeper : Sweep(s) \/ Fail(s)

Spec == Init /\ [][Next]_vars

\* Time goes on, the interval fires and the database answers.
FairSpec == Spec /\ WF_vars(Tick) /\ \A s \in Sweeper : WF_vars(Sweep(s))

-----------------------------------------------------------------------------
(* Properties                                                              *)

Rows ==
  [status : {"ABSENT", "PENDING_REFERENCE", "RESOLVED", "GIVEN_UP"},
   attempts : 0..MaxAttempts, since : Nat, next : Nat \cup {None}]

Sweeps == [pc : {"idle", "listed", "reprocess"}, list : Seq(Row), now : Nat]

\* Types, among them the bound on attempts; a row is tried only while it has
\* one left, and a sweep that reprocesses has a row to do it with.
SweepTypeOK ==
  /\ clock \in Nat
  /\ row \in [Row -> Rows]
  /\ processed \subseteq Row
  /\ overflowing \subseteq BigRow
  /\ sweeper \in [Sweeper -> Sweeps]
  /\ errors \in 0..MaxErrors
  /\ \A r \in Row : Waiting(r) => row[r].attempts < MaxAttempts
  /\ \A s \in Sweeper : sweeper[s].pc = "reprocess" => sweeper[s].list # <<>>

\* No back-off carries a waiting row further than one capped delay beyond
\* its time-to-live, whichever processes have counted its attempts, with
\* however old a clock.
RetryWithinReach ==
  \A r \in Row :
    Waiting(r) /\ row[r].next # None => row[r].next < row[r].since + Ttl + MaxBackoff

\* A reversal is given up only while its reference is missing, and only after
\* MaxAttempts attempts or after Ttl by the true clock; a sweep that listed it
\* before its reference arrived still finds the reference.
GivesUpRightly ==
  [][\A r \in Row :
       Waiting(r) /\ row'[r].status = "GIVEN_UP" =>
         /\ r \notin processed
         /\ row'[r].attempts = MaxAttempts \/ clock - row[r].since >= Ttl]_vars

\* An attempt that failed puts the next one off: no row is tried again before
\* the instant its back-off set.
BackoffKept ==
  [][\A r \in Row :
       row'[r].attempts # row[r].attempts /\ row[r].next # None =>
         clock >= row[r].next]_vars

\* Every parked reversal ends, once no credit overflows any longer, although
\* sweeps fail and are cut short, processes take each other's rows, and the
\* list is limited.
SweepSettles ==
  <>[](overflowing = {}) => \A r \in Row : Waiting(r) ~> ~Waiting(r)
=============================================================================
