------------------------- MODULE OutboxRelayProofs -------------------------
(***************************************************************************)
(* Proofs about OutboxRelay, for any events, relays, batch size, failures  *)
(* and crashes: no committed event is lost by marking it unsent, relays do *)
(* not share rows, and copies are accounted for.                           *)
(***************************************************************************)
EXTENDS OutboxRelay, SequenceTheorems, TLAPS

\* Every send left one mark.
MarksFit == \A r \in Relay : Len(marks[r]) <= Len(claimed[r])

\* Relay r has sent e in its open transaction, and the queue said so.
SentBy(r, e) ==
  \E i \in 1..Len(marks[r]) : claimed[r][i] = e /\ marks[r][i] = "published"

MarkedWasSent ==
  \A r \in Relay : \A e \in Event : SentBy(r, e) => received[e] > 0

\* The queue only remembers what it has accepted.
WindowWasSent == \A e \in window : received[e] > 0

Settled(e) == row[e] = "published" \/ \E r \in Relay : SentBy(r, e)

\* The first copy belongs to the row that is settled by it; every further
\* copy was paid for by a failure or by a crash.
CopiesPaid ==
  \A e \in Event :
    /\ Copies(e) <= failures + crashes + 1
    /\ Settled(e) \/ Copies(e) <= failures + crashes

RelayCore ==
  /\ MarksFit /\ ClaimsAreExclusive
  /\ PublishedWasSent /\ MarkedWasSent /\ WindowWasSent
  /\ CopiesPaid

RelayInv == TypeOK /\ RelayCore

-----------------------------------------------------------------------------
LEMMA BatchIsSequence ==
  ASSUME NEW batch \in Batches
  PROVE  batch \in Seq(Event)
<1>1. PICK n \in 1..BatchSize : batch \in [1..n -> Event]
  BY DEF Batches
<1>2. n \in Nat
  BY RelayAssumption
<1> QED BY <1>1, <1>2, SeqDef

LEMMA CurrentInRange ==
  ASSUME TypeOK, NEW r \in Relay, Len(marks[r]) < Len(claimed[r])
  PROVE  /\ Len(marks[r]) + 1 \in 1..Len(claimed[r])
         /\ Current(r) \in Event
         /\ Current(r) = claimed[r][Len(marks[r]) + 1]
<1>1. claimed[r] \in Seq(Event) /\ Len(claimed[r]) \in Nat /\ Len(marks[r]) \in Nat
  BY DEF TypeOK
<1>2. Len(marks[r]) + 1 \in 1..Len(claimed[r])
  BY <1>1
<1> QED BY <1>1, <1>2, ElementOfSeq DEF Current

LEMMA MarkedInEvent ==
  ASSUME TypeOK, MarksFit, NEW r \in Relay, NEW m
  PROVE  Marked(r, m) \subseteq Event
<1>1. claimed[r] \in Seq(Event) /\ Len(claimed[r]) \in Nat /\ Len(marks[r]) \in Nat
  BY DEF TypeOK
<1>2. Len(marks[r]) <= Len(claimed[r])
  BY DEF MarksFit
<1> QED BY <1>1, <1>2, ElementOfSeq DEF Marked

LEMMA InitRelay == Init => RelayInv
<1> SUFFICES ASSUME Init PROVE RelayInv
  OBVIOUS
<1>1. TypeOK
  BY RelayAssumption, EmptySeq DEF Init, TypeOK
<1>2. \A r \in Relay : Len(marks[r]) = 0 /\ Len(claimed[r]) = 0
  BY EmptySeq DEF Init
<1>3. RelayCore
  BY <1>2 DEF Init, RelayCore, MarksFit, ClaimsAreExclusive, PublishedWasSent,
              MarkedWasSent, WindowWasSent, CopiesPaid, Copies, SentBy, Settled
<1> QED BY <1>1, <1>3 DEF RelayInv

-----------------------------------------------------------------------------
(* The queue                                                               *)

QueueTypeOK ==
  received \in [Event -> Nat] /\ window \subseteq Event /\ flying \in [Event -> Nat]

\* A message taken is a copy at most if the queue does not remember it.
LEMMA TakeEffect ==
  ASSUME QueueTypeOK, WindowWasSent, NEW c \in Event, Take(c)
  PROVE  /\ received' \in [Event -> Nat] /\ window' \subseteq Event
         /\ received'[c] = (IF c \in window THEN received[c] ELSE received[c] + 1)
         /\ received'[c] > 0
         /\ \A e \in Event \ {c} : received'[e] = received[e]
         /\ WindowWasSent'
<1>1. received' \in [Event -> Nat] /\ window' = window \cup {c}
  BY DEF Take, QueueTypeOK
<1>2. /\ received'[c] = (IF c \in window THEN received[c] ELSE received[c] + 1)
      /\ \A e \in Event \ {c} : received'[e] = received[e]
  BY DEF Take, QueueTypeOK
<1>3. received'[c] > 0
  BY <1>2 DEF WindowWasSent, QueueTypeOK
<1>4. WindowWasSent'
  BY <1>1, <1>2, <1>3 DEF WindowWasSent, QueueTypeOK
<1> QED BY <1>1, <1>2, <1>3, <1>4 DEF QueueTypeOK

\* What a message that reaches the queue, or is under way, does to copies.
LEMMA AcceptEffect ==
  ASSUME QueueTypeOK, WindowWasSent, NEW c \in Event, Accept(c)
  PROVE  /\ QueueTypeOK' /\ WindowWasSent'
         /\ \A e \in Event : received'[e] >= received[e]
         /\ received'[c] > 0
         /\ \A e \in Event \ {c} : Copies(e)' = Copies(e)
         /\ Copies(c)' <= Copies(c) + 1
<1>1. Take(c)
  BY DEF Accept
<1>2. UNCHANGED flying
  BY DEF Accept
<1> QED BY <1>1, <1>2, TakeEffect DEF QueueTypeOK, Copies

LEMMA LingerEffect ==
  ASSUME QueueTypeOK, WindowWasSent, NEW c \in Event, Linger(c)
  PROVE  /\ QueueTypeOK' /\ WindowWasSent'
         /\ \A e \in Event : received'[e] >= received[e]
         /\ \A e \in Event \ {c} : Copies(e)' = Copies(e)
         /\ Copies(c)' <= Copies(c) + 1
<1>1. /\ flying' \in [Event -> Nat]
      /\ flying'[c] = flying[c] + 1
      /\ \A e \in Event \ {c} : flying'[e] = flying[e]
      /\ UNCHANGED <<received, window>>
  BY DEF Linger, QueueTypeOK
<1> QED BY <1>1 DEF QueueTypeOK, Copies, WindowWasSent

LEMMA LandEffect ==
  ASSUME QueueTypeOK, WindowWasSent, NEW c \in Event, Land(c)
  PROVE  /\ QueueTypeOK' /\ WindowWasSent'
         /\ \A e \in Event : received'[e] >= received[e]
         /\ \A e \in Event : Copies(e)' <= Copies(e)
<1>1. Take(c) /\ flying[c] > 0
  BY DEF Land
<1>2. /\ flying' \in [Event -> Nat]
      /\ flying'[c] = flying[c] - 1
      /\ \A e \in Event \ {c} : flying'[e] = flying[e]
  BY <1>1 DEF Land, QueueTypeOK
<1> QED BY <1>1, <1>2, TakeEffect DEF QueueTypeOK, Copies

-----------------------------------------------------------------------------
(* One lemma for each kind of step                                         *)

\* Steps that touch neither a relay nor the queue, but for what it forgets.
LEMMA QuietRelay ==
  ASSUME RelayInv,
         (\E S \in SUBSET Event : Enqueue(S)) \/ (\E e \in Event : Elapse(e) \/ Forget(e))
  PROVE  RelayInv'
<1> USE DEF RelayInv, RelayCore
<1>1. UNCHANGED <<claimed, marks, received, flying, failures, crashes>>
  BY DEF Enqueue, Elapse, Forget, broker
<1>2. \A e \in Event : row[e] # "absent" => row'[e] = row[e]
  BY DEF Enqueue, Elapse, Forget, outbox
<1>3. \A e \in Event : row'[e] = "published" => row[e] = "published"
  BY DEF TypeOK, Enqueue, Elapse, Forget, outbox
<1>4. TypeOK'
  <2>1. ASSUME NEW S \in SUBSET Event, Enqueue(S) PROVE TypeOK'
    BY <2>1 DEF TypeOK, Enqueue, broker
  <2>2. ASSUME NEW e \in Event, Elapse(e) PROVE TypeOK'
    BY <2>2 DEF TypeOK, Elapse, broker
  <2>3. ASSUME NEW e \in Event, Forget(e) PROVE TypeOK'
    BY <2>3 DEF TypeOK, Forget, outbox
  <2> QED BY <2>1, <2>2, <2>3
<1>5. MarksFit' /\ MarkedWasSent'
  BY <1>1 DEF MarksFit, MarkedWasSent, SentBy
<1>6. ClaimsAreExclusive'
  <2>1. \A r \in Relay : \A i \in 1..Len(claimed[r]) : claimed[r][i] \in Event
    BY ElementOfSeq DEF TypeOK
  <2> QED BY <1>1, <1>2, <2>1 DEF ClaimsAreExclusive
<1>7. PublishedWasSent' /\ WindowWasSent'
  <2>1. window' \subseteq window
    BY DEF Enqueue, Elapse, Forget, broker
  <2> QED BY <1>1, <1>3, <2>1 DEF PublishedWasSent, WindowWasSent
<1>8. CopiesPaid'
  <2>1. \A e \in Event : Settled(e) => Settled(e)'
    BY <1>1, <1>2 DEF Settled, SentBy
  <2> QED BY <1>1, <2>1 DEF CopiesPaid, Copies, TypeOK
<1> QED BY <1>4, <1>5, <1>6, <1>7, <1>8

\* A send under way that arrives was paid for when its relay let go of it.
LEMMA LandRelay ==
  ASSUME RelayInv, NEW c \in Event, Land(c)
  PROVE  /\ RelayInv'
         /\ \A e \in Event : Copies(e)' <= Copies(e)
<1> USE DEF RelayInv, RelayCore
<1>1. UNCHANGED <<row, nextAttempt, commits, committedAt, claimed, marks, failures, crashes>>
  BY DEF Land, outbox
<1>2. /\ QueueTypeOK' /\ WindowWasSent'
      /\ \A e \in Event : received'[e] >= received[e] /\ Copies(e)' <= Copies(e)
  BY LandEffect DEF TypeOK, QueueTypeOK
<1>3. \A e \in Event : received[e] \in Nat /\ received'[e] \in Nat
  BY <1>2 DEF TypeOK, QueueTypeOK
<1>4. TypeOK' /\ MarksFit' /\ ClaimsAreExclusive'
  BY <1>1, <1>2 DEF TypeOK, QueueTypeOK, MarksFit, ClaimsAreExclusive
<1>5. PublishedWasSent' /\ MarkedWasSent'
  BY <1>1, <1>2, <1>3 DEF PublishedWasSent, MarkedWasSent, SentBy
<1>6. CopiesPaid'
  <2>1. \A e \in Event : Settled(e)' <=> Settled(e)
    BY <1>1 DEF Settled, SentBy
  <2>2. \A e \in Event : Copies(e) \in Nat /\ Copies(e)' \in Nat
    BY <1>2 DEF TypeOK, QueueTypeOK, Copies
  <2>3. failures \in Nat /\ crashes \in Nat
    BY RelayAssumption DEF TypeOK
  <2> QED BY <1>1, <1>2, <2>1, <2>2, <2>3 DEF CopiesPaid
<1> QED BY <1>2, <1>4, <1>5, <1>6

LEMMA ClaimRelay ==
  ASSUME RelayInv, NEW r \in Relay, Claim(r)
  PROVE  RelayInv'
<1> USE DEF RelayInv, RelayCore
<1>1. PICK batch \in Batches :
        FirstDue(r, batch) /\ claimed' = [claimed EXCEPT ![r] = batch]
  BY DEF Claim
<1>2. UNCHANGED <<row, nextAttempt, commits, committedAt, marks, received, window,
                  flying, failures, crashes>>
  BY DEF Claim, outbox, broker
<1>3. batch \in Seq(Event) /\ Len(batch) \in Nat
  BY BatchIsSequence
<1>4. claimed[r] = <<>> /\ Len(marks[r]) = 0
  BY EmptySeq DEF Claim, MarksFit, TypeOK
<1>5. \A s \in Relay : claimed'[s] = IF s = r THEN batch ELSE claimed[s]
  BY <1>1 DEF TypeOK
<1>6. TypeOK'
  BY <1>1, <1>2, <1>3 DEF TypeOK
<1>7. MarksFit'
  BY <1>2, <1>3, <1>4, <1>5 DEF MarksFit
<1>8. /\ \A i \in 1..Len(batch) : row[batch[i]] = "pending"
      /\ \A i \in 1..Len(batch), s \in Relay \ {r} : \A j \in 1..Len(claimed[s]) :
           batch[i] # claimed[s][j]
      /\ \A i, j \in 1..Len(batch) : batch[i] = batch[j] => i = j
  <2>1. \A i \in 1..Len(batch) :
          batch[i] \in {e \in Event : Due(e)} \ Locked(r)
    BY <1>1 DEF FirstDue, Elements
  <2>2. \A i \in 1..Len(batch) : row[batch[i]] = "pending"
    BY <2>1 DEF Due
  <2>3. \A s \in Relay \ {r} : \A j \in 1..Len(claimed[s]) :
          claimed[s][j] \in Locked(r)
    BY DEF Locked, Elements
  <2>4. \A i, j \in 1..Len(batch) : i < j => batch[i] # batch[j]
    BY <1>1 DEF FirstDue
  <2>5. \A i, j \in 1..Len(batch) : batch[i] = batch[j] => i = j
    BY <1>3, <2>4
  <2> QED BY <2>1, <2>2, <2>3, <2>5
<1>9. ClaimsAreExclusive'
  BY <1>2, <1>5, <1>8 DEF ClaimsAreExclusive
<1>10. \A s \in Relay, e \in Event : SentBy(s, e)' <=> SentBy(s, e)
  BY <1>2, <1>4, <1>5 DEF SentBy
<1>11. MarkedWasSent' /\ PublishedWasSent' /\ WindowWasSent'
  BY <1>2, <1>10 DEF MarkedWasSent, PublishedWasSent, WindowWasSent
<1>12. CopiesPaid'
  <2>1. \A e \in Event : Settled(e)' <=> Settled(e)
    BY <1>2, <1>10 DEF Settled
  <2> QED BY <1>2, <2>1 DEF CopiesPaid, Copies
<1> QED BY <1>6, <1>7, <1>9, <1>11, <1>12

\* The row that is next is pending, and no relay has sent it yet.
LEMMA CurrentUnsettled ==
  ASSUME RelayInv, NEW r \in Relay, Len(marks[r]) < Len(claimed[r])
  PROVE  row[Current(r)] = "pending" /\ ~Settled(Current(r))
<1> USE DEF RelayInv, RelayCore
<1>1. PICK k \in Nat, c \in Event : k = Len(marks[r]) + 1 /\ c = Current(r)
  BY CurrentInRange DEF TypeOK
<1>2. k \in 1..Len(claimed[r]) /\ c = claimed[r][k] /\ Len(marks[r]) \in Nat
  <2>1. marks[r] \in Seq({"published", "retry"})
    BY DEF TypeOK
  <2> QED BY <1>1, <2>1, CurrentInRange
<1>3. row[c] = "pending"
  BY <1>2 DEF ClaimsAreExclusive
<1>4. ~Settled(c)
  <2>1. SUFFICES ASSUME NEW s \in Relay, SentBy(s, c) PROVE FALSE
    BY <1>3 DEF Settled
  <2>2. PICK i \in 1..Len(marks[s]) : claimed[s][i] = c
    BY <2>1 DEF SentBy
  <2>3. i \in 1..Len(claimed[s]) /\ Len(marks[s]) \in Nat /\ Len(claimed[s]) \in Nat
    BY DEF MarksFit, TypeOK
  <2>4. s = r /\ i = k
    BY <1>2, <2>2, <2>3 DEF ClaimsAreExclusive
  <2> QED BY <1>1, <1>2, <2>2, <2>3, <2>4
<1> QED BY <1>1, <1>3, <1>4

LEMMA PublishRelay ==
  ASSUME RelayInv, NEW r \in Relay, Publish(r)
  PROVE  /\ RelayInv'
         /\ \A e \in Event : row[e] = "published" => Copies(e)' <= Copies(e)
<1> USE DEF RelayInv, RelayCore
<1>1. PICK k \in Nat, c \in Event : k = Len(marks[r]) + 1 /\ c = Current(r)
  BY CurrentInRange DEF Publish, TypeOK
<1>2. /\ k = Len(marks[r]) + 1
      /\ k \in 1..Len(claimed[r])
      /\ c \in Event
      /\ c = claimed[r][k]
      /\ Len(marks[r]) \in Nat
  <2>1. marks[r] \in Seq({"published", "retry"})
    BY DEF TypeOK
  <2> QED BY <1>1, <2>1, CurrentInRange DEF Publish
<1>3. UNCHANGED <<row, nextAttempt, commits, committedAt, claimed, crashes>>
  BY DEF Publish, outbox
<1>4. PICK m \in {"published", "retry"} :
        /\ marks' = [marks EXCEPT ![r] = Append(@, m)]
        /\ m = "published" => Accept(c) /\ failures' = failures
        /\ m = "retry" =>
             /\ failures < MaxFailures
             /\ failures' = failures + 1
             /\ Linger(c)
  BY <1>1 DEF Publish, Mark
<1>5. /\ \A s \in Relay : marks'[s] = IF s = r THEN Append(marks[r], m) ELSE marks[s]
      /\ Len(marks'[r]) = k
      /\ marks'[r][k] = m
      /\ \A i \in 1..Len(marks[r]) : marks'[r][i] = marks[r][i]
  <2>1. marks[r] \in Seq({"published", "retry"})
    BY DEF TypeOK
  <2>2. marks'[r] = Append(marks[r], m)
    BY <1>4 DEF TypeOK
  <2> QED BY <1>2, <1>4, <2>1, <2>2, AppendProperties DEF TypeOK
<1>6. /\ QueueTypeOK' /\ WindowWasSent'
      /\ \A e \in Event : received'[e] >= received[e]
      /\ \A e \in Event \ {c} : Copies(e)' = Copies(e)
      /\ Copies(c)' <= Copies(c) + 1
      /\ m = "published" => received'[c] > 0
  <2>1. QueueTypeOK /\ WindowWasSent
    BY DEF TypeOK, QueueTypeOK
  <2>2. CASE Accept(c)
    BY <1>2, <2>1, <2>2, AcceptEffect
  <2>3. CASE Linger(c) /\ m = "retry"
    BY <1>2, <2>1, <2>3, LingerEffect
  <2> QED BY <1>4, <2>2, <2>3
<1>7. row[c] = "pending"
  BY <1>1, CurrentUnsettled DEF Publish
<1>8. TypeOK'
  <2>1. marks' \in [Relay -> Seq({"published", "retry"})]
    BY <1>4, AppendProperties DEF TypeOK
  <2>2. received' \in [Event -> Nat] /\ window' \subseteq Event /\ flying' \in [Event -> Nat]
    BY <1>6 DEF QueueTypeOK
  <2>3. failures' \in 0..MaxFailures
    BY <1>4, RelayAssumption DEF TypeOK
  <2> QED BY <1>3, <2>1, <2>2, <2>3 DEF TypeOK
<1>9. MarksFit'
  BY <1>2, <1>3, <1>5 DEF MarksFit
<1>10. ClaimsAreExclusive'
  BY <1>3 DEF ClaimsAreExclusive
<1>11. PublishedWasSent'
  BY <1>3, <1>6 DEF PublishedWasSent, TypeOK, QueueTypeOK
<1>12. \A s \in Relay, e \in Event : SentBy(s, e) => SentBy(s, e)'
  BY <1>2, <1>3, <1>5 DEF SentBy
<1>13. \A s \in Relay, e \in Event :
         SentBy(s, e)' => SentBy(s, e) \/ (e = c /\ m = "published")
  <2> SUFFICES ASSUME NEW s \in Relay, NEW e \in Event, SentBy(s, e)'
               PROVE  SentBy(s, e) \/ (e = c /\ m = "published")
    OBVIOUS
  <2>1. PICK i \in 1..Len(marks'[s]) : claimed[s][i] = e /\ marks'[s][i] = "published"
    BY <1>3 DEF SentBy
  <2>2. CASE s = r /\ i = k
    BY <1>2, <1>5, <2>1, <2>2
  <2>3. CASE ~(s = r /\ i = k)
    <3>1. i \in 1..Len(marks[s]) /\ marks[s][i] = "published"
      BY <1>2, <1>5, <2>1, <2>3
    <3> QED BY <2>1, <3>1 DEF SentBy
  <2> QED BY <2>2, <2>3
<1>14. MarkedWasSent'
  BY <1>6, <1>13 DEF MarkedWasSent, TypeOK, QueueTypeOK
<1>15. ~Settled(c)
  BY <1>1, CurrentUnsettled DEF Publish
<1>16. CopiesPaid'
  <2> SUFFICES ASSUME NEW e \in Event
               PROVE  /\ Copies(e)' <= failures' + crashes' + 1
                      /\ Settled(e)' \/ Copies(e)' <= failures' + crashes'
    BY DEF CopiesPaid
  <2>1. Settled(e) => Settled(e)'
    BY <1>3, <1>12 DEF Settled
  <2>2. /\ failures \in Nat /\ crashes \in Nat
        /\ Copies(e) \in Nat /\ Copies(e)' \in Nat
        /\ failures' \in Nat /\ failures' >= failures /\ crashes' = crashes
        /\ m = "retry" => failures' = failures + 1
    <3>1. failures \in Nat /\ crashes \in Nat
      BY RelayAssumption DEF TypeOK
    <3>2. received'[e] \in Nat /\ flying'[e] \in Nat
      BY <1>6 DEF QueueTypeOK
    <3>3. Copies(e) \in Nat
      BY DEF TypeOK, Copies
    <3>4. Copies(e)' \in Nat
      BY <3>2 DEF Copies
    <3> QED BY <1>3, <1>4, <3>1, <3>3, <3>4
  <2>3. CASE e # c
    BY <1>6, <2>1, <2>2, <2>3 DEF CopiesPaid
  <2>4. CASE e = c
    <3>1. Copies(c) <= failures + crashes
      BY <1>2, <1>15 DEF CopiesPaid
    <3>2. m = "published" => Settled(c)'
      <4>1. ASSUME m = "published" PROVE SentBy(r, c)'
        <5>1. k \in 1..Len(marks'[r]) /\ claimed'[r][k] = c /\ marks'[r][k] = "published"
          BY <1>2, <1>3, <1>5, <4>1
        <5> QED BY <5>1 DEF SentBy
      <4> QED BY <4>1 DEF Settled
    <3>3. CASE m = "published"
      BY <1>6, <2>2, <2>4, <3>1, <3>2, <3>3
    <3>4. CASE m = "retry"
      BY <1>6, <2>2, <2>4, <3>1, <3>4
    <3> QED BY <3>3, <3>4
  <2> QED BY <2>3, <2>4
<1>17. \A e \in Event : row[e] = "published" => Copies(e)' <= Copies(e)
  <2>1. \A e \in Event : Copies(e) \in Nat
    BY DEF Copies, TypeOK
  <2> QED BY <1>6, <1>7, <2>1
<1> QED BY <1>6, <1>8, <1>9, <1>10, <1>11, <1>14, <1>16, <1>17

LEMMA CommitRelay ==
  ASSUME RelayInv, NEW r \in Relay, Commit(r)
  PROVE  RelayInv'
<1> USE DEF RelayInv, RelayCore
<1>1. /\ UNCHANGED <<commits, committedAt, received, window, flying, failures, crashes>>
      /\ Len(marks[r]) = Len(claimed[r])
      /\ Len(marks[r]) \in Nat
  BY DEF Commit, broker, TypeOK
<1>2. \A s \in Relay : /\ claimed'[s] = IF s = r THEN <<>> ELSE claimed[s]
                       /\ marks'[s] = IF s = r THEN <<>> ELSE marks[s]
  BY DEF Commit, Release, TypeOK
<1>3. \A e \in Event :
        row'[e] = IF e \in Marked(r, "published") THEN "published" ELSE row[e]
  BY DEF Commit
<1>4. \A e \in Event : e \in Marked(r, "published") <=> SentBy(r, e)
  BY DEF Marked, SentBy
<1>5. TypeOK'
  <2>1. row' \in [Event -> {"absent", "pending", "published"}]
    BY DEF Commit, TypeOK
  <2>2. nextAttempt' \in [Event -> {"null", "future", "past"}]
    BY DEF Commit, TypeOK
  <2>3. claimed' \in [Relay -> Seq(Event)] /\ marks' \in [Relay -> Seq({"published", "retry"})]
    BY EmptySeq DEF Commit, Release, TypeOK
  <2> QED BY <1>1, <2>1, <2>2, <2>3 DEF TypeOK
<1>6. MarksFit'
  BY <1>2, EmptySeq DEF MarksFit
<1>7. ClaimsAreExclusive'
  <2> SUFFICES ASSUME NEW s \in Relay, NEW t \in Relay,
                      NEW i \in 1..Len(claimed'[s]), NEW j \in 1..Len(claimed'[t])
               PROVE  /\ row'[claimed'[s][i]] = "pending"
                      /\ claimed'[s][i] = claimed'[t][j] => s = t /\ i = j
    BY DEF ClaimsAreExclusive
  <2>1. s # r /\ t # r
    BY <1>2, EmptySeq
  <2>2. claimed'[s] = claimed[s] /\ claimed'[t] = claimed[t]
    BY <1>2, <2>1
  <2>3. claimed[s][i] \in Event
    BY <2>2, ElementOfSeq DEF TypeOK
  <2>4. claimed[s][i] \notin Marked(r, "published")
    <3>1. SUFFICES ASSUME SentBy(r, claimed[s][i]) PROVE FALSE
      BY <1>4, <2>3
    <3>2. PICK n \in 1..Len(marks[r]) : claimed[r][n] = claimed[s][i]
      BY <3>1 DEF SentBy
    <3> QED BY <1>1, <2>1, <2>2, <3>2 DEF ClaimsAreExclusive
  <2> QED BY <1>3, <2>2, <2>3, <2>4 DEF ClaimsAreExclusive
<1>8. \A e \in Event : Settled(e) => Settled(e)'
  <2> SUFFICES ASSUME NEW e \in Event, Settled(e) PROVE Settled(e)'
    OBVIOUS
  <2>1. CASE row[e] = "published" \/ SentBy(r, e)
    BY <1>3, <1>4, <2>1 DEF Settled
  <2>2. ASSUME NEW s \in Relay \ {r}, SentBy(s, e) PROVE Settled(e)'
    BY <1>2, <2>2 DEF Settled, SentBy
  <2> QED BY <2>1, <2>2 DEF Settled
<1>9. PublishedWasSent'
  BY <1>1, <1>3, <1>4 DEF PublishedWasSent, MarkedWasSent
<1>10. MarkedWasSent'
  <2>1. \A s \in Relay, e \in Event : SentBy(s, e)' => SentBy(s, e)
    BY <1>2, EmptySeq DEF SentBy
  <2> QED BY <1>1, <2>1 DEF MarkedWasSent
<1>11. WindowWasSent' /\ CopiesPaid'
  BY <1>1, <1>8 DEF WindowWasSent, CopiesPaid, Copies
<1> QED BY <1>5, <1>6, <1>7, <1>9, <1>10, <1>11

\* What the rolled back cycle had settled is unsettled again, or what it was
\* sending is under way: the crash pays.
LEMMA CrashRelay ==
  ASSUME RelayInv, NEW r \in Relay, Crash(r)
  PROVE  /\ RelayInv'
         /\ \A e \in Event : row[e] = "published" => Copies(e)' <= Copies(e)
<1> USE DEF RelayInv, RelayCore
<1>1. /\ UNCHANGED <<row, nextAttempt, commits, committedAt, failures>>
      /\ crashes' = crashes + 1
      /\ crashes < MaxCrashes
  BY DEF Crash, outbox
<1>2. \A s \in Relay : /\ claimed'[s] = IF s = r THEN <<>> ELSE claimed[s]
                       /\ marks'[s] = IF s = r THEN <<>> ELSE marks[s]
  BY DEF Crash, Release, TypeOK
<1>3. \A e \in Event : Copies(e) \in Nat
  BY DEF Copies, TypeOK
<1>4. /\ QueueTypeOK' /\ WindowWasSent'
      /\ \A e \in Event : received'[e] >= received[e]
      /\ \A e \in Event :
           \/ Copies(e)' <= Copies(e)
           \/ Copies(e)' <= Copies(e) + 1 /\ row[e] = "pending" /\ ~Settled(e)
  <2>1. QueueTypeOK /\ WindowWasSent
    BY DEF TypeOK, QueueTypeOK
  <2>2. CASE UNCHANGED broker
    <3>1. \A e \in Event : Copies(e)' = Copies(e)
      BY <2>2 DEF broker, Copies
    <3> QED BY <1>3, <2>1, <2>2, <3>1 DEF broker, QueueTypeOK, WindowWasSent
  <2>3. CASE Len(marks[r]) < Len(claimed[r]) /\ Linger(Current(r))
    <3>1. PICK c \in Event : c = Current(r)
      BY <2>3, CurrentInRange
    <3>2. row[c] = "pending" /\ ~Settled(c)
      BY <2>3, <3>1, CurrentUnsettled
    <3> QED BY <1>3, <2>1, <2>3, <3>1, <3>2, LingerEffect
  <2> QED BY <2>2, <2>3 DEF Crash
<1>5. TypeOK'
  <2>1. claimed' \in [Relay -> Seq(Event)] /\ marks' \in [Relay -> Seq({"published", "retry"})]
    BY EmptySeq DEF Crash, Release, TypeOK
  <2>2. crashes' \in 0..MaxCrashes
    BY <1>1, RelayAssumption DEF TypeOK
  <2> QED BY <1>1, <1>4, <2>1, <2>2 DEF TypeOK, QueueTypeOK
<1>6. MarksFit'
  BY <1>2, EmptySeq DEF MarksFit
<1>7. ClaimsAreExclusive'
  BY <1>1, <1>2, EmptySeq DEF ClaimsAreExclusive
<1>8. \A s \in Relay, e \in Event : SentBy(s, e)' => SentBy(s, e)
  BY <1>2, EmptySeq DEF SentBy
<1>9. PublishedWasSent' /\ MarkedWasSent'
  BY <1>1, <1>4, <1>8 DEF PublishedWasSent, MarkedWasSent, TypeOK, QueueTypeOK
<1>10. CopiesPaid'
  <2> SUFFICES ASSUME NEW e \in Event
               PROVE  Copies(e)' <= failures' + crashes'
    <3>1. failures' \in Nat /\ crashes' \in Nat
      BY <1>5, RelayAssumption DEF TypeOK
    <3>2. \A e \in Event : Copies(e)' \in Nat
      BY <1>4 DEF QueueTypeOK, Copies
    <3> QED BY <3>1, <3>2 DEF CopiesPaid
  <2>1. failures \in Nat /\ crashes \in Nat /\ Copies(e)' \in Nat
    BY <1>4, RelayAssumption DEF TypeOK, QueueTypeOK, Copies
  <2> QED BY <1>1, <1>3, <1>4, <2>1 DEF CopiesPaid
<1>11. \A e \in Event : row[e] = "published" => Copies(e)' <= Copies(e)
  BY <1>4
<1> QED BY <1>4, <1>5, <1>6, <1>7, <1>9, <1>10, <1>11

-----------------------------------------------------------------------------
(* The theorems                                                            *)

LEMMA StepRelay == RelayInv /\ [Next]_vars => RelayInv'
<1> SUFFICES ASSUME RelayInv, [Next]_vars PROVE RelayInv'
  OBVIOUS
<1>1. CASE (\E S \in SUBSET Event : Enqueue(S)) \/ (\E e \in Event : Elapse(e) \/ Forget(e))
  BY <1>1, QuietRelay
<1>2. CASE \E r \in Relay : Claim(r) \/ Publish(r) \/ Commit(r) \/ Crash(r)
  BY <1>2, ClaimRelay, PublishRelay, CommitRelay, CrashRelay
<1>3. CASE UNCHANGED vars
  BY <1>3 DEF vars, RelayInv, RelayCore, TypeOK, MarksFit, ClaimsAreExclusive,
              PublishedWasSent, MarkedWasSent, WindowWasSent, CopiesPaid, Copies, SentBy,
              Settled
<1>4. CASE \E e \in Event : Land(e)
  BY <1>4, LandRelay
<1> QED BY <1>1, <1>2, <1>3, <1>4 DEF Next

\* The inductive invariant of the relays, on which the others rest.
THEOREM RelayInvariant == Spec => []RelayInv
BY InitRelay, StepRelay, PTL DEF Spec

\* Relays never share a row, and what a relay works on stays pending: the row
\* locks of claimDue, skipped by the others, last until the cycle commits.
THEOREM ExclusiveClaims == Spec => []ClaimsAreExclusive
<1>1. RelayInv => ClaimsAreExclusive
  BY DEF RelayInv, RelayCore
<1> QED BY RelayInvariant, <1>1, PTL

\* No event is lost: PublishOutbox marks a row published only when the queue
\* has taken its event, through any crash, refusal and lost answer.
THEOREM NothingLost == Spec => []PublishedWasSent
<1>1. RelayInv => PublishedWasSent
  BY DEF RelayInv, RelayCore
<1> QED BY RelayInvariant, <1>1, PTL

\* Every copy of an event beyond the first is paid for by a send that failed
\* or a cycle that was rolled back.
THEOREM CopiesCorrect == Spec => []CopiesBounded
<1>1. RelayInv => CopiesBounded
  <2> SUFFICES ASSUME RelayInv, NEW e \in Event
               PROVE  Copies(e) <= 1 + failures + crashes
    BY DEF CopiesBounded
  <2>1. failures \in Nat /\ crashes \in Nat
    BY RelayAssumption DEF RelayInv, TypeOK
  <2> QED BY <2>1 DEF RelayInv, RelayCore, CopiesPaid, Copies, TypeOK
<1> QED BY RelayInvariant, <1>1, PTL

\* No relay sends an event whose row is published: claims only take pending
\* rows, nobody else can publish a row that is being sent, and a send under
\* way since before makes no more copies than it was counted for.
THEOREM SentOnce == Spec => NeverSentAgain
<1>1. RelayInv /\ [Next]_vars =>
        [\A e \in Event : row[e] = "published" => Copies(e)' <= Copies(e)]_vars
  <2> SUFFICES ASSUME RelayInv, Next, NEW e \in Event, row[e] = "published"
               PROVE  Copies(e)' <= Copies(e)
    OBVIOUS
  <2>1. ASSUME NEW r \in Relay, Publish(r) \/ Crash(r) PROVE Copies(e)' <= Copies(e)
    BY <2>1, PublishRelay, CrashRelay
  <2>2. ASSUME NEW c \in Event, Land(c) PROVE Copies(e)' <= Copies(e)
    BY <2>2, LandRelay
  <2>3. CASE UNCHANGED <<received, flying>>
    BY <2>3 DEF Copies, RelayInv, TypeOK
  <2> QED BY <2>1, <2>2, <2>3 DEF Next, Enqueue, Elapse, Forget, Claim, Commit, broker
<1> QED BY RelayInvariant, <1>1, PTL DEF Spec, NeverSentAgain
=============================================================================
