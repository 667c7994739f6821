------------------------ MODULE ReferenceSweepProofs ------------------------
(***************************************************************************)
(* Proofs about ReferenceSweep, for any rows, processes, limits, back-off  *)
(* and time-to-live: attempts are bounded, no back-off leads past the time-*)
(* to-live by more than one capped delay, and a reversal is given up only  *)
(* when it may be.  With a single process the back-off is kept as well.    *)
(***************************************************************************)
EXTENDS ReferenceSweep, SequenceTheorems, TLAPS

\* A sweep has read its clock in the past.
ClocksPast == \A s \in Sweeper : sweeper[s].now <= clock

SweepInv == SweepTypeOK /\ RetryWithinReach /\ ClocksPast

-----------------------------------------------------------------------------
(* Lists and delays                                                        *)

LEMMA DelayIsCapped ==
  ASSUME NEW n
  PROVE  Delay(n) \in 0..MaxBackoff
BY SweepAssumption DEF Delay

LEMMA ListIsSequence ==
  ASSUME NEW free, free \subseteq Row,
         NEW list \in UNION {[1..n -> free] : n \in 1..BatchSize}
  PROVE  list \in Seq(Row) /\ list # <<>>
<1>1. PICK n \in 1..BatchSize : list \in [1..n -> free]
  OBVIOUS
<1>2. n \in Nat /\ list \in [1..n -> Row] /\ 1 \in 1..n
  BY <1>1, SweepAssumption
<1>3. list \in Seq(Row)
  BY <1>2, SeqDef
<1>4. Len(list) = n
  BY <1>2, <1>3, LenProperties
<1> QED BY <1>2, <1>3, <1>4, EmptySeq

LEMMA HeadIsRow ==
  ASSUME SweepTypeOK, NEW s \in Sweeper, sweeper[s].pc = "reprocess"
  PROVE  /\ sweeper[s].list \in Seq(Row) /\ sweeper[s].list # <<>>
         /\ Head(sweeper[s].list) \in Row /\ Tail(sweeper[s].list) \in Seq(Row)
         /\ sweeper[s].now \in Nat
<1>1. sweeper[s] \in Sweeps /\ sweeper[s].list # <<>>
  BY DEF SweepTypeOK
<1>2. sweeper[s].list \in Seq(Row) /\ sweeper[s].now \in Nat
  BY <1>1 DEF Sweeps
<1> QED BY <1>1, <1>2, HeadTailProperties

LEMMA IdleIsSweep == Idle \in Sweeps /\ Idle.now = 0 /\ Idle.pc = "idle" /\ Idle.list = <<>>
<1>1. <<>> \in Seq(Row)
  BY EmptySeq
<1> QED BY <1>1 DEF Idle, SweepAt, Sweeps

\* What a step of one sweep leaves of the invariant's part about sweeps.
LEMMA BecomeKeeps ==
  ASSUME SweepInv, NEW s \in Sweeper, NEW state \in Sweeps, Become(s, state),
         state.now <= clock,
         state.pc = "reprocess" => state.list # <<>>
  PROVE  /\ sweeper' \in [Sweeper -> Sweeps]
         /\ \A z \in Sweeper : sweeper'[z].pc = "reprocess" => sweeper'[z].list # <<>>
         /\ ClocksPast'
         /\ clock' = clock /\ processed' = processed /\ overflowing' = overflowing
BY DEF SweepInv, SweepTypeOK, Become, ClocksPast

LEMMA GoOnKeeps ==
  ASSUME SweepInv, NEW s \in Sweeper, NEW list \in Seq(Row), GoOn(s, list)
  PROVE  /\ sweeper' \in [Sweeper -> Sweeps]
         /\ \A z \in Sweeper : sweeper'[z].pc = "reprocess" => sweeper'[z].list # <<>>
         /\ ClocksPast'
         /\ clock' = clock /\ processed' = processed /\ overflowing' = overflowing
<1>1. clock \in Nat
  BY DEF SweepInv, SweepTypeOK
<1>2. CASE list = <<>>
  <2>1. Become(s, Idle)
    BY <1>2 DEF GoOn
  <2> QED BY <1>1, <2>1, IdleIsSweep, BecomeKeeps
<1>3. CASE list # <<>>
  <2> DEFINE state == SweepAt("reprocess", list, clock)
  <2>1. Become(s, state)
    BY <1>3 DEF GoOn
  <2>2. state \in Sweeps /\ state.now <= clock /\ state.list # <<>>
    BY <1>1, <1>3 DEF Sweeps, SweepAt
  <2> HIDE DEF state
  <2> QED BY <2>1, <2>2, BecomeKeeps
<1> QED BY <1>2, <1>3

-----------------------------------------------------------------------------
(* Steps                                                                   *)

\* A failed attempt: one more is counted, and the row is given up or put off.
LEMMA AttemptFails ==
  ASSUME SweepInv, NEW s \in Sweeper, NEW r \in Row, Waiting(r),
         NEW now \in Nat, now <= clock,
         row' = [row EXCEPT ![r] = AfterFailure(r, now)]
  PROVE  /\ row' \in [Row -> Rows]
         /\ \A q \in Row : row'[q].status = "PENDING_REFERENCE" => row'[q].attempts < MaxAttempts
         /\ RetryWithinReach'
         /\ row'[r].status = "GIVEN_UP" =>
              row'[r].attempts = MaxAttempts \/ clock - row[r].since >= Ttl
<1> DEFINE n == row[r].attempts + 1
<1>1. /\ row \in [Row -> Rows] /\ row[r] \in Rows /\ clock \in Nat
      /\ row[r].since \in Nat /\ row[r].attempts \in Nat /\ n \in 1..MaxAttempts
      /\ MaxAttempts \in Nat /\ MaxBackoff \in Nat /\ Ttl \in Nat
  BY SweepAssumption DEF SweepInv, SweepTypeOK, Rows
<1>2. Delay(n) \in Nat /\ Delay(n) <= MaxBackoff
  BY <1>1, DelayIsCapped
<1>3. GivesUp(r, n, now) <=> n >= MaxAttempts \/ now - row[r].since >= Ttl
  BY DEF GivesUp, GiveUpOnReference
<1>4. row'[r] = AfterFailure(r, now) /\ \A q \in Row : q # r => row'[q] = row[q]
  BY <1>1
<1>5. CASE GivesUp(r, n, now)
  <2>1. AfterFailure(r, now) = Columns("GIVEN_UP", n, row[r].since, None)
    BY <1>5 DEF AfterFailure
  <2>2. /\ AfterFailure(r, now) \in Rows
        /\ row'[r].status = "GIVEN_UP" /\ row'[r].attempts = n
    BY <1>1, <1>4, <2>1 DEF Rows, Columns
  <2>3. row'[r].attempts = MaxAttempts \/ clock - row[r].since >= Ttl
    BY <1>1, <1>3, <1>5, <2>2
  <2>4. row' \in [Row -> Rows]
    BY <1>1, <2>2
  <2>5. \A q \in Row : row'[q].status = "PENDING_REFERENCE" => q # r /\ row'[q] = row[q]
    BY <1>4, <2>2
  <2>6. RetryWithinReach'
    BY <2>5 DEF SweepInv, RetryWithinReach, Waiting
  <2> QED BY <2>3, <2>4, <2>5, <2>6 DEF SweepInv, SweepTypeOK, Waiting
<1>6. CASE ~GivesUp(r, n, now)
  <2>1. AfterFailure(r, now) =
          Columns("PENDING_REFERENCE", n, row[r].since, now + Delay(n))
    BY <1>6 DEF AfterFailure
  <2>2. /\ AfterFailure(r, now) \in Rows
        /\ row'[r].status = "PENDING_REFERENCE" /\ row'[r].attempts = n
        /\ row'[r].next = now + Delay(n) /\ row'[r].since = row[r].since
    BY <1>1, <1>2, <1>4, <2>1 DEF Rows, Columns
  <2>3. n < MaxAttempts /\ now + Delay(n) < row[r].since + Ttl + MaxBackoff
    BY <1>1, <1>2, <1>3, <1>6
  <2>4. row' \in [Row -> Rows]
    BY <1>1, <2>2
  <2>5. \A q \in Row : q # r => row'[q] = row[q]
    BY <1>4
  <2>6. RetryWithinReach'
    BY <2>2, <2>3, <2>5 DEF SweepInv, RetryWithinReach, Waiting
  <2>7. \A q \in Row : row'[q].status = "PENDING_REFERENCE" => row'[q].attempts < MaxAttempts
    BY <2>2, <2>3, <2>5 DEF SweepInv, SweepTypeOK, Waiting
  <2> QED BY <2>2, <2>4, <2>6, <2>7
<1> QED BY <1>5, <1>6

LEMMA ReprocessStep ==
  ASSUME SweepInv, NEW s \in Sweeper, Reprocess(s)
  PROVE  /\ SweepInv'
         /\ \A r \in Row : Waiting(r) /\ row'[r].status = "GIVEN_UP" =>
              /\ r \notin processed
              /\ row'[r].attempts = MaxAttempts \/ clock - row[r].since >= Ttl
<1> DEFINE r == Head(sweeper[s].list)
<1>1. /\ sweeper[s].pc = "reprocess" /\ GoOn(s, Tail(sweeper[s].list)) /\ errors' = errors
      /\ \/ ~Waiting(r) /\ row' = row
         \/ /\ Waiting(r) /\ ~ReferenceFound(r)
            /\ row' = [row EXCEPT ![r] = AfterFailure(r, sweeper[s].now)]
         \/ /\ Waiting(r) /\ ReferenceFound(r) /\ r \notin overflowing
            /\ row' = [row EXCEPT ![r] = Resolved(r)]
  BY DEF Reprocess
<1>2. /\ r \in Row /\ Tail(sweeper[s].list) \in Seq(Row)
      /\ sweeper[s].now \in Nat /\ sweeper[s].now <= clock
  BY <1>1, HeadIsRow DEF SweepInv, ClocksPast
<1>3. /\ sweeper' \in [Sweeper -> Sweeps]
      /\ \A z \in Sweeper : sweeper'[z].pc = "reprocess" => sweeper'[z].list # <<>>
      /\ ClocksPast'
      /\ clock' = clock /\ processed' = processed /\ overflowing' = overflowing
  BY <1>1, <1>2, GoOnKeeps
<1> HIDE DEF r
<1>4. row \in [Row -> Rows]
  BY DEF SweepInv, SweepTypeOK
<1>5. ASSUME row' \in [Row -> Rows],
             \A q \in Row : row'[q].status = "PENDING_REFERENCE" => row'[q].attempts < MaxAttempts,
             RetryWithinReach'
      PROVE  SweepInv'
  BY <1>1, <1>3, <1>5 DEF SweepInv, SweepTypeOK, Waiting
<1>6. CASE ~Waiting(r) /\ row' = row
  <2>1. SweepInv'
    BY <1>4, <1>5, <1>6 DEF SweepInv, SweepTypeOK, RetryWithinReach, Waiting
  <2> QED BY <1>6, <2>1 DEF Waiting
<1>7. CASE /\ Waiting(r) /\ ~ReferenceFound(r)
           /\ row' = [row EXCEPT ![r] = AfterFailure(r, sweeper[s].now)]
  <2>1. /\ row' \in [Row -> Rows]
        /\ \A q \in Row : row'[q].status = "PENDING_REFERENCE" => row'[q].attempts < MaxAttempts
        /\ RetryWithinReach'
        /\ row'[r].status = "GIVEN_UP" =>
             row'[r].attempts = MaxAttempts \/ clock - row[r].since >= Ttl
    BY <1>2, <1>7, AttemptFails
  <2>2. \A q \in Row : q # r => row'[q] = row[q]
    BY <1>4, <1>7
  <2> QED BY <1>5, <1>7, <2>1, <2>2 DEF ReferenceFound, Waiting
<1>8. CASE /\ Waiting(r) /\ ReferenceFound(r) /\ r \notin overflowing
           /\ row' = [row EXCEPT ![r] = Resolved(r)]
  <2>1. /\ row' \in [Row -> Rows] /\ row'[r].status = "RESOLVED"
        /\ \A q \in Row : q # r => row'[q] = row[q]
    BY <1>2, <1>4, <1>8 DEF Rows, Resolved, Columns
  <2>2. SweepInv'
    BY <1>5, <2>1 DEF SweepInv, SweepTypeOK, RetryWithinReach, Waiting
  <2> QED BY <2>1, <2>2 DEF Waiting
<1> QED BY <1>1, <1>6, <1>7, <1>8

\* The steps of a sweep that leave the rows alone.
LEMMA QuietSweepStep ==
  ASSUME SweepInv, NEW s \in Sweeper,
         StartSweep(s) \/ EndList(s) \/ Overflow(s) \/ Fail(s)
  PROVE  SweepInv' /\ row' = row
<1>1. clock \in Nat /\ errors \in 0..MaxErrors /\ MaxErrors \in Nat
  BY SweepAssumption DEF SweepInv, SweepTypeOK
<1>2. ASSUME row' = row, errors' \in 0..MaxErrors,
             sweeper' \in [Sweeper -> Sweeps],
             \A z \in Sweeper : sweeper'[z].pc = "reprocess" => sweeper'[z].list # <<>>,
             ClocksPast',
             clock' = clock, processed' = processed, overflowing' = overflowing
      PROVE  SweepInv' /\ row' = row
  BY <1>2 DEF SweepInv, SweepTypeOK, RetryWithinReach, Waiting
<1>3. CASE StartSweep(s)
  <2>1. PICK saved \in SUBSET Saving(s) :
          \E list \in UNION {[1..n -> Due(clock) \ (Listing(s) \cup saved)] : n \in 1..BatchSize} :
            Become(s, SweepAt("listed", list, 0))
    BY <1>3 DEF StartSweep
  <2> DEFINE free == Due(clock) \ (Listing(s) \cup saved)
  <2>2. PICK list \in UNION {[1..n -> free] : n \in 1..BatchSize} :
          Become(s, SweepAt("listed", list, 0))
    BY <2>1
  <2>3. free \subseteq Row
    BY DEF Due
  <2> HIDE DEF free
  <2>4. list \in Seq(Row)
    BY <2>2, <2>3, ListIsSequence
  <2> DEFINE state == SweepAt("listed", list, 0)
  <2>5. state \in Sweeps /\ state.now <= clock /\ state.pc # "reprocess"
    BY <1>1, <2>4 DEF SweepAt, Sweeps
  <2>6. Become(s, state)
    BY <2>2
  <2> HIDE DEF state
  <2>7. row' = row /\ errors' = errors
    BY <1>3 DEF StartSweep
  <2> QED BY <1>1, <1>2, <2>5, <2>6, <2>7, BecomeKeeps
<1>4. CASE EndList(s)
  <2>1. sweeper[s].list \in Seq(Row) /\ GoOn(s, sweeper[s].list)
        /\ row' = row /\ errors' = errors
    BY <1>4 DEF EndList, SweepInv, SweepTypeOK, Sweeps
  <2> QED BY <1>1, <1>2, <2>1, GoOnKeeps
<1>5. CASE Overflow(s) \/ Fail(s)
  <2>1. Become(s, Idle) /\ row' = row /\ errors' \in 0..MaxErrors
    BY <1>1, <1>5 DEF Overflow, Fail
  <2> QED BY <1>1, <1>2, <2>1, IdleIsSweep, BecomeKeeps
<1> QED BY <1>3, <1>4, <1>5

LEMMA ParkStep ==
  ASSUME SweepInv, NEW r \in Row, Park(r)
  PROVE  SweepInv' /\ row[r] = Absent /\ row'[r].status = "PENDING_REFERENCE"
         /\ row'[r].attempts = 0
         /\ \A q \in Row : q # r => row'[q] = row[q]
<1> DEFINE parked(at) == Columns("PENDING_REFERENCE", 0, at, None)
<1>1. PICK at \in 0..clock : row' = [row EXCEPT ![r] = parked(at)]
  BY DEF Park
<1>2. /\ row \in [Row -> Rows] /\ clock \in Nat /\ MaxAttempts \in Nat \ {0}
      /\ row[r] = Absent /\ UNCHANGED <<clock, processed, overflowing, sweeper, errors>>
  BY SweepAssumption DEF Park, SweepInv, SweepTypeOK
<1>3. parked(at) \in Rows
  BY <1>2 DEF Rows, Columns
<1>4. /\ row'[r].attempts = 0 /\ row'[r].next = None
      /\ row'[r].status = "PENDING_REFERENCE"
      /\ \A q \in Row : q # r => row'[q] = row[q]
  BY <1>1, <1>2 DEF Columns
<1>5. row' \in [Row -> Rows]
  BY <1>1, <1>2, <1>3
<1>6. SweepTypeOK'
  BY <1>2, <1>3, <1>4, <1>5 DEF SweepInv, SweepTypeOK, Waiting
<1>7. RetryWithinReach'
  BY <1>3, <1>4 DEF SweepInv, RetryWithinReach, Waiting
<1>8. ClocksPast'
  BY <1>2 DEF SweepInv, ClocksPast
<1> QED BY <1>2, <1>3, <1>4, <1>6, <1>7, <1>8 DEF SweepInv

LEMMA AroundStep ==
  ASSUME SweepInv,
         \/ Tick \/ BalancesMove \/ \E r \in Row : ReferenceArrives(r)
         \/ UNCHANGED vars
  PROVE  SweepInv' /\ row' = row
<1>1. CASE Tick
  BY <1>1 DEF Tick, SweepInv, SweepTypeOK, RetryWithinReach, ClocksPast, Waiting, Sweeps
<1>2. CASE BalancesMove
  BY <1>2 DEF BalancesMove, SweepInv, SweepTypeOK, RetryWithinReach, ClocksPast, Waiting
<1>3. CASE \E r \in Row : ReferenceArrives(r)
  BY <1>3 DEF ReferenceArrives, SweepInv, SweepTypeOK, RetryWithinReach, ClocksPast, Waiting
<1>4. CASE UNCHANGED vars
  BY <1>4 DEF vars, SweepInv, SweepTypeOK, RetryWithinReach, ClocksPast, Waiting
<1> QED BY <1>1, <1>2, <1>3, <1>4

LEMMA SweepStart == Init => SweepInv
<1> SUFFICES ASSUME Init PROVE SweepInv
  OBVIOUS
<1>1. /\ clock = 0 /\ row = [r \in Row |-> Absent] /\ processed = {} /\ overflowing = {}
      /\ sweeper = [s \in Sweeper |-> Idle] /\ errors = 0
  BY DEF Init
<1>2. Absent \in Rows /\ Absent.status = "ABSENT"
  BY SweepAssumption DEF Absent, Columns, Rows
<1>3. SweepTypeOK
  BY <1>1, <1>2, IdleIsSweep, SweepAssumption DEF SweepTypeOK, Waiting
<1>4. RetryWithinReach /\ ClocksPast
  BY <1>1, <1>2, IdleIsSweep DEF RetryWithinReach, ClocksPast, Waiting
<1> QED BY <1>3, <1>4 DEF SweepInv

LEMMA SweepStep ==
  ASSUME SweepInv, [Next]_vars
  PROVE  /\ SweepInv'
         /\ \A r \in Row : Waiting(r) /\ row'[r].status = "GIVEN_UP" =>
              /\ r \notin processed
              /\ row'[r].attempts = MaxAttempts \/ clock - row[r].since >= Ttl
<1>1. ASSUME SweepInv', row' = row
      PROVE  /\ SweepInv'
             /\ \A r \in Row : ~(Waiting(r) /\ row'[r].status = "GIVEN_UP")
  BY <1>1 DEF Waiting
<1>2. CASE Tick \/ BalancesMove \/ (\E r \in Row : ReferenceArrives(r)) \/ UNCHANGED vars
  BY <1>1, <1>2, AroundStep
<1>3. CASE \E r \in Row : Park(r)
  <2>1. PICK r \in Row : Park(r)
    BY <1>3
  <2> QED BY <2>1, ParkStep DEF Waiting
<1>4. ASSUME NEW s \in Sweeper, Reprocess(s)
      PROVE  /\ SweepInv'
             /\ \A r \in Row : Waiting(r) /\ row'[r].status = "GIVEN_UP" =>
                  /\ r \notin processed
                  /\ row'[r].attempts = MaxAttempts \/ clock - row[r].since >= Ttl
  BY <1>4, ReprocessStep
<1>5. ASSUME NEW s \in Sweeper, StartSweep(s) \/ EndList(s) \/ Overflow(s) \/ Fail(s)
      PROVE  SweepInv' /\ row' = row
  BY <1>5, QuietSweepStep
<1> QED BY <1>1, <1>2, <1>3, <1>4, <1>5 DEF Next, Sweep

-----------------------------------------------------------------------------
(* Theorems                                                                *)

\* Types and the bound on attempts hold in every state.
THEOREM SweepTypeCorrect == Spec => []SweepTypeOK
<1>1. SweepInv /\ [Next]_vars => SweepInv'
  BY SweepStep
<1> QED BY <1>1, SweepStart, PTL DEF Spec, SweepInv

\* No back-off carries a waiting reversal past its time-to-live by more than
\* one capped delay, with any number of processes.
THEOREM RetriesEnd == Spec => []RetryWithinReach
<1>1. SweepInv /\ [Next]_vars => SweepInv'
  BY SweepStep
<1> QED BY <1>1, SweepStart, PTL DEF Spec, SweepInv

\* A reversal is given up only while its reference is missing, after its
\* attempts or after its time-to-live.
THEOREM GivenUpRightly == Spec => GivesUpRightly
<1>1. SweepInv /\ [Next]_vars => SweepInv'
  BY SweepStep
<1>2. SweepInv /\ [Next]_vars =>
        [\A r \in Row :
           Waiting(r) /\ row'[r].status = "GIVEN_UP" =>
             /\ r \notin processed
             /\ row'[r].attempts = MaxAttempts \/ clock - row[r].since >= Ttl]_vars
  BY SweepStep
<1> QED BY <1>1, <1>2, SweepStart, PTL DEF Spec, GivesUpRightly

-----------------------------------------------------------------------------
(* One process                                                             *)

\* The rows that are left of a sweep are different rows, and those of them
\* that wait are due: a clock only grows, and nobody else puts them off.
IsDue(rec, at) == rec.status = "PENDING_REFERENCE" => rec.next = None \/ rec.next <= at
ListsAreDue ==
  \A s \in Sweeper : \A i \in DOMAIN sweeper[s].list :
    /\ IsDue(row[sweeper[s].list[i]], clock)
    /\ \A j \in DOMAIN sweeper[s].list :
         sweeper[s].list[i] = sweeper[s].list[j] => i = j

AloneInv == SweepInv /\ ListsAreDue

LEMMA AloneStart == Init => AloneInv
<1> SUFFICES ASSUME Init PROVE ListsAreDue
  BY SweepStart DEF AloneInv
<1>1. \A s \in Sweeper : sweeper[s].list = <<>>
  BY IdleIsSweep DEF Init
<1>2. DOMAIN <<>> = {}
  OBVIOUS
<1> QED BY <1>1, <1>2 DEF ListsAreDue

\* What a step says of the row at hand and of the sweep of the one process.
LEMMA AloneQuiet ==
  ASSUME AloneInv, [Next]_vars, sweeper' = sweeper,
         clock' \in Nat, clock <= clock',
         \A r \in Row : row'[r] = row[r] \/ row'[r].next = None
  PROVE  ListsAreDue'
<1> SUFFICES ASSUME NEW s \in Sweeper, NEW i \in DOMAIN sweeper[s].list
             PROVE  IsDue(row'[sweeper[s].list[i]], clock')
  BY DEF AloneInv, ListsAreDue
<1> DEFINE r == sweeper[s].list[i]
<1>1. r \in Row /\ row[r].next \in Nat \cup {None} /\ clock \in Nat
  BY ElementOfSeq DEF AloneInv, SweepInv, SweepTypeOK, Sweeps, Rows
<1>2. IsDue(row[r], clock)
  BY DEF AloneInv, ListsAreDue
<1> HIDE DEF r
<1>3. IsDue(row'[r], clock')
  BY <1>1, <1>2 DEF IsDue, Waiting
<1> QED BY <1>3 DEF r

LEMMA AloneList ==
  ASSUME AloneInv, NEW s \in Sweeper, \A z \in Sweeper : z = s, StartSweep(s)
  PROVE  ListsAreDue'
<1>1. PICK saved \in SUBSET Saving(s) :
        \E list \in UNION {[1..n -> Due(clock) \ (Listing(s) \cup saved)] : n \in 1..BatchSize} :
          FirstOf(list, Due(clock) \ (Listing(s) \cup saved)) /\ Become(s, SweepAt("listed", list, 0))
  BY DEF StartSweep
<1> DEFINE free == Due(clock) \ (Listing(s) \cup saved)
<1>2. PICK list \in UNION {[1..n -> free] : n \in 1..BatchSize} :
        FirstOf(list, free) /\ Become(s, SweepAt("listed", list, 0))
  BY <1>1
<1>3. \A i, j \in DOMAIN list : list[i] = list[j] => i = j
  BY <1>2 DEF FirstOf
<1>4. \A i \in DOMAIN list : list[i] \in Due(clock)
  BY <1>2
<1> HIDE DEF free
<1>5. sweeper'[s].list = list /\ row' = row /\ clock' = clock
  BY <1>2 DEF AloneInv, SweepInv, SweepTypeOK, Become, SweepAt, StartSweep
<1>6. \A i \in DOMAIN list : IsDue(row'[list[i]], clock')
  BY <1>4, <1>5 DEF IsDue, Due, Waiting
<1> QED BY <1>3, <1>5, <1>6 DEF ListsAreDue

LEMMA AloneEnds ==
  ASSUME AloneInv, NEW s \in Sweeper, \A z \in Sweeper : z = s, Become(s, Idle)
  PROVE  ListsAreDue'
<1>1. sweeper'[s].list = <<>>
  BY IdleIsSweep DEF Become, AloneInv, SweepInv, SweepTypeOK
<1>2. DOMAIN <<>> = {}
  OBVIOUS
<1> QED BY <1>1, <1>2 DEF ListsAreDue

LEMMA AloneGoesOn ==
  ASSUME AloneInv, NEW s \in Sweeper, \A z \in Sweeper : z = s,
         NEW list \in Seq(Row), GoOn(s, list),
         \A i \in DOMAIN list : IsDue(row'[list[i]], clock'),
         \A i, j \in DOMAIN list : list[i] = list[j] => i = j
  PROVE  ListsAreDue'
<1>1. CASE list = <<>>
  BY <1>1, AloneEnds DEF GoOn
<1>2. CASE list # <<>>
  <2>1. sweeper'[s].list = list
    BY <1>2 DEF GoOn, Become, SweepAt, AloneInv, SweepInv, SweepTypeOK
  <2> QED BY <2>1 DEF ListsAreDue
<1> QED BY <1>1, <1>2

LEMMA AloneReprocess ==
  ASSUME AloneInv, NEW s \in Sweeper, \A z \in Sweeper : z = s, Reprocess(s)
  PROVE  /\ ListsAreDue'
         /\ \A q \in Row : row'[q].attempts # row[q].attempts /\ row[q].next # None =>
              clock >= row[q].next
<1> DEFINE list == sweeper[s].list
           r == Head(list)
           rest == Tail(list)
<1>1. /\ list \in Seq(Row) /\ list # <<>> /\ r \in Row /\ rest \in Seq(Row)
      /\ GoOn(s, rest)
  BY HeadIsRow DEF Reprocess, AloneInv, SweepInv
<1>2. /\ r = list[1] /\ 1 \in DOMAIN list
      /\ \A i \in DOMAIN rest : i + 1 \in DOMAIN list /\ rest[i] = list[i + 1] /\ i \in Nat \ {0}
  BY <1>1, HeadTailProperties
<1>3. \A i, j \in DOMAIN list : list[i] = list[j] => i = j
  BY DEF AloneInv, ListsAreDue
<1>4. \A i \in DOMAIN list : IsDue(row[list[i]], clock)
  BY DEF AloneInv, ListsAreDue
<1>5. row \in [Row -> Rows] /\ clock' = clock /\ clock \in Nat
  BY <1>1 DEF GoOn, Become, AloneInv, SweepInv, SweepTypeOK
<1>6. /\ \A q \in Row : q # r => row'[q] = row[q]
      /\ ~Waiting(r) => row' = row
  BY <1>1, <1>5 DEF Reprocess
<1>7. \A i \in DOMAIN rest : rest[i] \in Row /\ rest[i] # r
  <2> TAKE i \in DOMAIN rest
  <2>1. i + 1 \in DOMAIN list /\ rest[i] = list[i + 1] /\ i + 1 # 1
    BY <1>2
  <2>2. rest[i] \in Row
    BY <1>1, ElementOfSeq
  <2> QED BY <1>2, <1>3, <2>1, <2>2
<1>8. \A i \in DOMAIN rest : IsDue(row'[rest[i]], clock')
  BY <1>2, <1>4, <1>5, <1>6, <1>7 DEF IsDue, Waiting
<1>9. ASSUME NEW i \in DOMAIN rest, NEW j \in DOMAIN rest, rest[i] = rest[j]
      PROVE  i = j
  <2>1. i + 1 = j + 1
    BY <1>2, <1>3, <1>9
  <2> QED BY <1>2, <2>1
<1> HIDE DEF rest, r, list
<1>10. ListsAreDue'
  BY <1>1, <1>8, <1>9, AloneGoesOn
<1>11. IsDue(row[r], clock)
  BY <1>2, <1>4
<1>12. \A q \in Row : row'[q].attempts # row[q].attempts /\ row[q].next # None =>
         clock >= row[q].next
  BY <1>5, <1>6, <1>11 DEF IsDue, Waiting, Rows
<1> QED BY <1>10, <1>12

LEMMA AloneStep ==
  ASSUME AloneInv, [Next]_vars, \A s, z \in Sweeper : s = z
  PROVE  /\ AloneInv'
         /\ \A q \in Row : row'[q].attempts # row[q].attempts /\ row[q].next # None =>
              clock >= row[q].next
<1>1. SweepInv'
  BY SweepStep DEF AloneInv
<1>2. SweepInv /\ clock \in Nat
  BY DEF AloneInv, SweepInv, SweepTypeOK
<1>3. ASSUME ListsAreDue', row' = row
      PROVE  /\ AloneInv'
             /\ \A q \in Row : row'[q].attempts # row[q].attempts /\ row[q].next # None =>
                  clock >= row[q].next
  BY <1>1, <1>3 DEF AloneInv
<1>4. CASE Tick \/ BalancesMove \/ (\E r \in Row : ReferenceArrives(r)) \/ UNCHANGED vars
  <2>1. row' = row /\ sweeper' = sweeper /\ clock' \in Nat /\ clock <= clock'
    BY <1>2, <1>4 DEF Tick, BalancesMove, ReferenceArrives, vars
  <2> QED BY <1>3, <2>1, AloneQuiet
<1>5. ASSUME NEW r \in Row, Park(r)
      PROVE  /\ AloneInv'
             /\ \A q \in Row : row'[q].attempts # row[q].attempts /\ row[q].next # None =>
                  clock >= row[q].next
  <2>1. /\ row[r] = Absent /\ row[r].next = None
        /\ \A q \in Row : q # r => row'[q] = row[q]
    BY <1>2, <1>5, ParkStep DEF Absent, Columns
  <2>2. row'[r].next = None
    BY <1>2, <1>5 DEF Park, Columns, SweepInv, SweepTypeOK
  <2>3. ListsAreDue'
    BY <1>2, <1>5, <2>1, <2>2, AloneQuiet DEF Park
  <2> QED BY <1>1, <2>1, <2>3 DEF AloneInv
<1>6. ASSUME NEW s \in Sweeper, Sweep(s) \/ Fail(s)
      PROVE  /\ AloneInv'
             /\ \A q \in Row : row'[q].attempts # row[q].attempts /\ row[q].next # None =>
                  clock >= row[q].next
  <2>1. \A z \in Sweeper : z = s
    OBVIOUS
  <2>2. CASE StartSweep(s)
    BY <1>2, <1>3, <2>1, <2>2, AloneList, QuietSweepStep
  <2>3. CASE EndList(s)
    <3>1. /\ row' = row /\ clock' = clock /\ GoOn(s, sweeper[s].list)
          /\ sweeper[s].list \in Seq(Row)
      BY <1>2, <2>3 DEF EndList, GoOn, Become, SweepInv, SweepTypeOK, Sweeps
    <3>2. /\ \A i \in DOMAIN sweeper[s].list : IsDue(row'[sweeper[s].list[i]], clock')
          /\ \A i, j \in DOMAIN sweeper[s].list :
               sweeper[s].list[i] = sweeper[s].list[j] => i = j
      BY <3>1 DEF AloneInv, ListsAreDue, IsDue, Waiting
    <3> QED BY <1>3, <2>1, <3>1, <3>2, AloneGoesOn
  <2>4. CASE Reprocess(s)
    BY <1>1, <2>1, <2>4, AloneReprocess DEF AloneInv
  <2>5. CASE Overflow(s) \/ Fail(s)
    <3>1. Become(s, Idle) /\ row' = row
      BY <2>5 DEF Overflow, Fail
    <3> QED BY <1>3, <2>1, <3>1, AloneEnds
  <2> QED BY <1>6, <2>2, <2>3, <2>4, <2>5 DEF Sweep
<1> QED BY <1>4, <1>5, <1>6 DEF Next

\* While a single process runs the worker, no row is tried before its
\* back-off is over.
THEOREM OneProcessKeepsBackoff ==
  ASSUME \A s, z \in Sweeper : s = z
  PROVE  Spec => BackoffKept
<1>1. AloneInv /\ [Next]_vars => AloneInv'
  BY AloneStep
<1>2. AloneInv /\ [Next]_vars =>
        [\A r \in Row :
           row'[r].attempts # row[r].attempts /\ row[r].next # None =>
             clock >= row[r].next]_vars
  BY AloneStep
<1> QED BY <1>1, <1>2, AloneStart, PTL DEF Spec, BackoffKept
=============================================================================
