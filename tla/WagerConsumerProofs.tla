------------------------ MODULE WagerConsumerProofs ------------------------
(***************************************************************************)
(* Proofs about WagerConsumer, for any messages, groups, consumers, limits *)
(* and failures, with a dead-letter queue or without: no message leaves    *)
(* the queue unaccounted for, and none is copied more often than it was    *)
(* received and redriven.                                                  *)
(***************************************************************************)
EXTENDS WagerConsumer, SequenceTheorems, FiniteSetTheorems, TLAPS

\* A consumer has a message in hand exactly while it is not polling.
BatchInHand == \A c \in Consumer : step[c] = "poll" <=> batch[c] = <<>>

\* A delete follows a commit, or a copy in the dead-letter queue if there is
\* one.
DeletesAreDue ==
  \A c \in Consumer :
    /\ step[c] = "ack" => Current(c) \in processed
    /\ step[c] = "discard" => dlq[Current(c)] > 0 \/ Dismissed(Current(c))

ConsumerInv == TypeOK /\ BatchInHand /\ DeletesAreDue /\ Accounted

\* What no step takes back.
Remembers ==
  /\ processed \subseteq processed'
  /\ \A m \in Message : dlq[m] > 0 => dlq'[m] > 0

-----------------------------------------------------------------------------
LEMMA BatchIsSequence ==
  ASSUME NEW b \in Batches
  PROVE  b \in Seq(Message) /\ b # <<>>
<1>1. PICK n \in 1..MaxMessages : b \in [1..n -> Message]
  BY DEF Batches
<1>2. n \in Nat /\ n >= 1
  BY <1>1, ConsumerAssumption
<1>3. b \in Seq(Message) /\ Len(b) = n
  BY <1>1, <1>2, SeqDef
<1> QED BY <1>2, <1>3, EmptySeq

LEMMA CurrentIsMessage ==
  ASSUME TypeOK, BatchInHand, NEW c \in Consumer, step[c] # "poll"
  PROVE  /\ Current(c) \in Message
         /\ Tail(batch[c]) \in Seq(Message)
         /\ Len(Tail(batch[c])) = Len(batch[c]) - 1
         /\ Len(batch[c]) \in Nat \ {0}
<1>1. batch[c] \in Seq(Message) /\ batch[c] # <<>>
  BY DEF TypeOK, BatchInHand
<1> QED BY <1>1, HeadTailProperties, EmptySeq DEF Current

\* The loop of pollOnce keeps step and batch in accord.
LEMMA NextMessageInHand ==
  ASSUME TypeOK, BatchInHand, NEW c \in Consumer, step[c] # "poll", NextMessage(c)
  PROVE  /\ BatchInHand'
         /\ batch' \in [Consumer -> Seq(Message)]
         /\ step' \in [Consumer -> {"poll", "handle", "execute", "ack", "copy", "discard"}]
         /\ step'[c] \in {"poll", "handle"}
         /\ \A d \in Consumer \ {c} : step'[d] = step[d] /\ batch'[d] = batch[d]
<1>1. /\ Tail(batch[c]) \in Seq(Message)
      /\ Len(Tail(batch[c])) = Len(batch[c]) - 1
      /\ Len(batch[c]) \in Nat \ {0}
  BY CurrentIsMessage
<1>2. /\ batch'[c] = Tail(batch[c])
      /\ step'[c] = IF Len(batch[c]) = 1 THEN "poll" ELSE "handle"
      /\ \A d \in Consumer \ {c} : step'[d] = step[d] /\ batch'[d] = batch[d]
  BY DEF NextMessage, TypeOK
<1>3. Len(batch[c]) = 1 <=> Tail(batch[c]) = <<>>
  <2>1. Tail(batch[c]) = <<>> <=> Len(Tail(batch[c])) = 0
    BY <1>1, EmptySeq
  <2> QED BY <1>1, <2>1
<1>4. BatchInHand'
  <2>1. step'[c] = "poll" <=> batch'[c] = <<>>
    BY <1>2, <1>3
  <2>2. \A d \in Consumer \ {c} : step'[d] = "poll" <=> batch'[d] = <<>>
    BY <1>2 DEF BatchInHand
  <2> QED BY <2>1, <2>2 DEF BatchInHand
<1>5. batch' \in [Consumer -> Seq(Message)]
  BY <1>1 DEF NextMessage, TypeOK
<1>6. step' \in [Consumer -> {"poll", "handle", "execute", "ack", "copy", "discard"}]
  BY DEF NextMessage, TypeOK
<1> QED BY <1>2, <1>4, <1>5, <1>6

LEMMA DropInHand ==
  ASSUME TypeOK, BatchInHand, NEW c \in Consumer, AbortBatch(c)
  PROVE  /\ BatchInHand'
         /\ batch' \in [Consumer -> Seq(Message)]
         /\ step' \in [Consumer -> {"poll", "handle", "execute", "ack", "copy", "discard"}]
         /\ step'[c] = "poll"
         /\ \A d \in Consumer \ {c} : step'[d] = step[d] /\ batch'[d] = batch[d]
<1>1. /\ batch'[c] = <<>> /\ step'[c] = "poll"
      /\ \A d \in Consumer \ {c} : step'[d] = step[d] /\ batch'[d] = batch[d]
  BY DEF AbortBatch, TypeOK
<1>2. BatchInHand'
  BY <1>1 DEF BatchInHand
<1>3. batch' \in [Consumer -> Seq(Message)]
  BY EmptySeq DEF AbortBatch, TypeOK
<1>4. step' \in [Consumer -> {"poll", "handle", "execute", "ack", "copy", "discard"}]
  BY DEF AbortBatch, TypeOK
<1> QED BY <1>1, <1>2, <1>3, <1>4

\* The dead-letter queue only gains copies.
LEMMA AcceptGrows ==
  ASSUME TypeOK, NEW m \in Message, Accept(m)
  PROVE  /\ dlq' \in [Message -> Nat]
         /\ dlq'[m] > 0
         /\ \A k \in Message : dlq[k] > 0 => dlq'[k] > 0
<1>1. CASE dlq' = [dlq EXCEPT ![m] = @ + 1]
  BY <1>1 DEF TypeOK
<1>2. CASE dlq[m] > 0 /\ UNCHANGED dlq
  BY <1>2 DEF TypeOK
<1> QED BY <1>1, <1>2 DEF Accept

\* A delete takes away only the message in hand.
LEMMA DeleteTakesCurrent ==
  ASSUME TypeOK, NEW c \in Consumer, Current(c) \in Message, Delete(c) \/ UNCHANGED where
  PROVE  /\ where' \in [Message -> {"unsent", "visible", "gone"} \cup Consumer]
         /\ \A m \in Message : where'[m] = "gone" => where[m] = "gone" \/ m = Current(c)
BY DEF Delete, TypeOK

\* The other consumers' deletes stay due.
LEMMA OthersStayDue ==
  ASSUME DeletesAreDue, BatchInHand, TypeOK, NEW c \in Consumer, Remembers,
         \A d \in Consumer \ {c} : step'[d] = step[d] /\ batch'[d] = batch[d],
         step'[c] = "ack" => Current(c)' \in processed',
         step'[c] = "discard" => dlq'[Current(c)'] > 0 \/ Dismissed(Current(c)')
  PROVE  DeletesAreDue'
<1> SUFFICES ASSUME NEW d \in Consumer
             PROVE  /\ step'[d] = "ack" => Current(d)' \in processed'
                    /\ step'[d] = "discard" => dlq'[Current(d)'] > 0 \/ Dismissed(Current(d)')
  BY DEF DeletesAreDue
<1>1. CASE d = c
  BY <1>1 DEF Current
<1>2. CASE d # c
  <2>1. Current(d)' = Current(d) /\ step'[d] = step[d]
    BY <1>2 DEF Current
  <2>2. step[d] # "poll" => Current(d) \in Message
    BY CurrentIsMessage
  <2> QED BY <2>1, <2>2 DEF DeletesAreDue, Remembers
<1> QED BY <1>1, <1>2

-----------------------------------------------------------------------------
(* The steps                                                               *)

LEMMA InitConsumer == Init => ConsumerInv
<1> SUFFICES ASSUME Init PROVE ConsumerInv
  OBVIOUS
<1>1. TypeOK
  BY ConsumerAssumption, EmptySeq DEF Init, TypeOK
<1>2. BatchInHand /\ DeletesAreDue /\ Accounted
  BY DEF Init, BatchInHand, DeletesAreDue, Accounted
<1> QED BY <1>1, <1>2 DEF ConsumerInv

\* What the queue does by itself: a redrive accounts for the message.
LEMMA QueueStep ==
  ASSUME ConsumerInv, NEW m \in Message, Send(m) \/ Expire(m) \/ Redrive(m)
  PROVE  ConsumerInv'
<1> USE DEF ConsumerInv
<1>1. UNCHANGED <<receives, processed, batch, step, stopping, failures, restarts>>
  BY DEF Send, Expire, Redrive
<1>2. /\ dlq' \in [Message -> Nat]
      /\ \A k \in Message : dlq[k] > 0 => dlq'[k] > 0
  <2>1. CASE Send(m) \/ Expire(m)
    BY <2>1 DEF Send, Expire, TypeOK
  <2>2. CASE Redrive(m)
    BY <2>2 DEF Redrive, TypeOK
  <2> QED BY <2>1, <2>2
<1>3. /\ where' \in [Message -> {"unsent", "visible", "gone"} \cup Consumer]
      /\ \A k \in Message : where'[k] = "gone" => where[k] = "gone" \/ dlq'[k] > 0
  <2>1. CASE Send(m)
    BY <2>1 DEF Send, TypeOK
  <2>2. CASE Expire(m)
    BY <2>2 DEF Expire, TypeOK
  <2>3. CASE Redrive(m)
    BY <2>3 DEF Redrive, TypeOK
  <2> QED BY <2>1, <2>2, <2>3
<1>4. TypeOK' /\ BatchInHand'
  BY <1>1, <1>2, <1>3 DEF TypeOK, BatchInHand
<1>5. DeletesAreDue'
  <2>1. \A c \in Consumer : step[c] = "discard" => Current(c) \in Message
    BY CurrentIsMessage
  <2>2. \A c \in Consumer : Current(c)' = Current(c)
    BY <1>1 DEF Current
  <2> QED BY <1>1, <1>2, <2>1, <2>2 DEF DeletesAreDue
<1>6. Accounted'
  BY <1>1, <1>2, <1>3 DEF Accounted
<1> QED BY <1>4, <1>5, <1>6

LEMMA ReceiveStep ==
  ASSUME ConsumerInv, NEW c \in Consumer, Receive(c)
  PROVE  ConsumerInv'
<1> USE DEF ConsumerInv
<1>1. PICK b \in Batches :
        /\ Deliverable(b)
        /\ where' = [m \in Message |-> IF m \in Elements(b) THEN c ELSE where[m]]
        /\ receives' = [m \in Message |->
                         IF m \in Elements(b) THEN receives[m] + 1 ELSE receives[m]]
        /\ batch' = [batch EXCEPT ![c] = b]
  BY DEF Receive
<1>2. b \in Seq(Message) /\ b # <<>>
  BY BatchIsSequence
<1>3. /\ step' = [step EXCEPT ![c] = "handle"]
      /\ UNCHANGED <<dlq, processed, stopping, failures, restarts>>
  BY DEF Receive
<1>4. \A d \in Consumer \ {c} : step'[d] = step[d] /\ batch'[d] = batch[d]
  BY <1>1, <1>3 DEF TypeOK
<1>5. step'[c] = "handle" /\ batch'[c] = b
  BY <1>1, <1>3 DEF TypeOK
<1>6. receives' \in [Message -> 0..MaxReceive]
  <2>1. \A m \in Elements(b) : receives[m] < MaxReceive
    BY <1>1 DEF Deliverable, Elements
  <2> QED BY <1>1, <2>1, ConsumerAssumption DEF TypeOK
<1>7. where' \in [Message -> {"unsent", "visible", "gone"} \cup Consumer]
  BY <1>1 DEF TypeOK
<1>8. batch' \in [Consumer -> Seq(Message)]
  BY <1>1, <1>2 DEF TypeOK
<1>9. step' \in [Consumer -> {"poll", "handle", "execute", "ack", "copy", "discard"}]
  BY <1>3 DEF TypeOK
<1>10. TypeOK'
  BY <1>3, <1>6, <1>7, <1>8, <1>9 DEF TypeOK
<1>11. BatchInHand'
  BY <1>2, <1>4, <1>5 DEF BatchInHand
<1>12. DeletesAreDue'
  BY <1>3, <1>4, <1>5, OthersStayDue DEF Remembers
<1>13. Accounted'
  <2>1. \A m \in Message : where'[m] = "gone" => where[m] = "gone"
    BY <1>1, ConsumerAssumption
  <2> QED BY <1>3, <2>1 DEF Accounted
<1> QED BY <1>10, <1>11, <1>12, <1>13

\* The steps that drop a batch, or touch only the flags.
LEMMA ProcessStep ==
  ASSUME ConsumerInv, NEW c \in Consumer, Break(c) \/ Crash(c) \/ Stop(c) \/ Start(c)
  PROVE  ConsumerInv'
<1> USE DEF ConsumerInv
<1>1. UNCHANGED <<where, receives, dlq, processed, failures>>
  BY DEF Break, Crash, Stop, Start
<1>2. stopping' \in [Consumer -> BOOLEAN] /\ restarts' \in 0..MaxRestarts
  <2>1. stopping' \in [Consumer -> BOOLEAN]
    BY DEF Break, Crash, Stop, Start, TypeOK
  <2>2. restarts' = restarts \/ (restarts < MaxRestarts /\ restarts' = restarts + 1)
    BY DEF Break, Crash, Stop, Start
  <2> QED BY <2>1, <2>2, ConsumerAssumption DEF TypeOK
<1>3. CASE Break(c) \/ Crash(c)
  <2>1. AbortBatch(c)
    BY <1>3 DEF Break, Crash, AbortBatch
  <2>2. TypeOK' /\ BatchInHand'
    BY <1>1, <1>2, <2>1, DropInHand DEF TypeOK
  <2>3. DeletesAreDue'
    BY <1>1, <2>1, DropInHand, OthersStayDue DEF Remembers
  <2> QED BY <1>1, <2>2, <2>3 DEF Accounted
<1>4. CASE Stop(c) \/ Start(c)
  <2>1. UNCHANGED <<batch, step>>
    BY <1>4 DEF Stop, Start
  <2> QED BY <1>1, <1>2, <2>1 DEF TypeOK, BatchInHand, DeletesAreDue, Current, Accounted
<1> QED BY <1>3, <1>4

\* safeParse and process.execute
LEMMA HandleStep ==
  ASSUME ConsumerInv, NEW c \in Consumer, Handle(c) \/ Execute(c)
  PROVE  ConsumerInv'
<1> USE DEF ConsumerInv
<1>1. UNCHANGED <<where, receives, dlq, stopping, restarts>>
  BY DEF Handle, Execute
<1>2. step[c] # "poll" /\ Current(c) \in Message
  BY CurrentIsMessage DEF Handle, Execute
<1>3. processed \subseteq processed' /\ processed' \subseteq Message
  <2>1. CASE Handle(c)
    BY <1>2, <2>1 DEF Handle, TypeOK
  <2>2. CASE Execute(c)
    BY <1>2, <2>2 DEF Execute, TypeOK
  <2> QED BY <2>1, <2>2
<1>4. failures' \in 0..MaxFailures
  <2>1. failures' = failures \/ (failures < MaxFailures /\ failures' = failures + 1)
    BY DEF Handle, Execute, FailedCall
  <2> QED BY <2>1, ConsumerAssumption DEF TypeOK
<1>5. CASE NextMessage(c)
  <2>1. TypeOK' /\ BatchInHand'
    BY <1>1, <1>2, <1>3, <1>4, <1>5, NextMessageInHand DEF TypeOK
  <2>2. DeletesAreDue'
    BY <1>1, <1>2, <1>3, <1>5, NextMessageInHand, OthersStayDue DEF Remembers
  <2> QED BY <1>1, <1>3, <2>1, <2>2 DEF Accounted
<1>6. CASE ~NextMessage(c)
  <2>1. PICK next \in {"execute", "ack", "copy", "discard"} :
          /\ step' = [step EXCEPT ![c] = next]
          /\ batch' = batch
          /\ next = "ack" => Current(c) \in processed'
          /\ next = "discard" => Dismissed(Current(c))
    BY <1>6 DEF Handle, Execute, Leave, ToDlq, Dismissed
  <2>2. step'[c] = next /\ \A d \in Consumer \ {c} : step'[d] = step[d] /\ batch'[d] = batch[d]
    BY <2>1 DEF TypeOK
  <2>3. step' \in [Consumer -> {"poll", "handle", "execute", "ack", "copy", "discard"}]
    BY <2>1 DEF TypeOK
  <2>4. TypeOK'
    BY <1>1, <1>3, <1>4, <2>1, <2>3 DEF TypeOK
  <2>5. BatchInHand'
    BY <1>2, <2>1, <2>2 DEF BatchInHand
  <2>6. Current(c)' = Current(c)
    BY <2>1 DEF Current
  <2>7. DeletesAreDue'
    BY <1>1, <1>3, <2>1, <2>2, <2>6, OthersStayDue DEF Remembers
  <2> QED BY <1>1, <1>3, <2>4, <2>5, <2>7 DEF Accounted
<1> QED BY <1>5, <1>6

\* toDlq: the copy
LEMMA CopyStep ==
  ASSUME ConsumerInv, NEW c \in Consumer, Copy(c)
  PROVE  ConsumerInv'
<1> USE DEF ConsumerInv
<1>1. UNCHANGED <<where, receives, processed, stopping, restarts>>
  BY DEF Copy
<1>2. step[c] # "poll" /\ Current(c) \in Message
  BY CurrentIsMessage DEF Copy
<1>3. /\ dlq' \in [Message -> Nat]
      /\ \A k \in Message : dlq[k] > 0 => dlq'[k] > 0
  <2>1. CASE Accept(Current(c))
    BY <1>2, <2>1, AcceptGrows
  <2>2. CASE UNCHANGED dlq
    BY <2>2 DEF TypeOK
  <2> QED BY <2>1, <2>2 DEF Copy
<1>4. failures' \in 0..MaxFailures
  <2>1. failures' = failures \/ (failures < MaxFailures /\ failures' = failures + 1)
    BY DEF Copy, FailedCall
  <2> QED BY <2>1, ConsumerAssumption DEF TypeOK
<1>5. Accounted'
  BY <1>1, <1>3 DEF Accounted
<1>6. CASE AbortBatch(c)
  <2>1. TypeOK' /\ BatchInHand'
    BY <1>1, <1>3, <1>4, <1>6, DropInHand DEF TypeOK
  <2>2. DeletesAreDue'
    BY <1>1, <1>3, <1>6, DropInHand, OthersStayDue DEF Remembers
  <2> QED BY <1>5, <2>1, <2>2
<1>7. CASE ~AbortBatch(c)
  <2>1. /\ step' = [step EXCEPT ![c] = "discard"]
        /\ batch' = batch
        /\ Accept(Current(c))
    BY <1>7 DEF Copy
  <2>2. dlq'[Current(c)] > 0
    BY <1>2, <2>1, AcceptGrows
  <2>3. step'[c] = "discard" /\ \A d \in Consumer \ {c} : step'[d] = step[d] /\ batch'[d] = batch[d]
    BY <2>1 DEF TypeOK
  <2>4. step' \in [Consumer -> {"poll", "handle", "execute", "ack", "copy", "discard"}]
    BY <2>1 DEF TypeOK
  <2>5. TypeOK'
    BY <1>1, <1>3, <1>4, <2>1, <2>4 DEF TypeOK
  <2>6. BatchInHand'
    BY <1>2, <2>1, <2>3 DEF BatchInHand
  <2>7. Current(c)' = Current(c)
    BY <2>1 DEF Current
  <2>8. DeletesAreDue'
    BY <1>1, <1>3, <2>2, <2>3, <2>7, OthersStayDue DEF Remembers
  <2> QED BY <1>5, <2>5, <2>6, <2>8
<1> QED BY <1>6, <1>7

\* The deletes, of a processed message or of one that was copied.
LEMMA DeleteStep ==
  ASSUME ConsumerInv, NEW c \in Consumer, Ack(c) \/ Discard(c)
  PROVE  ConsumerInv'
<1> USE DEF ConsumerInv
<1>1. UNCHANGED <<receives, dlq, processed, stopping, restarts>>
  BY DEF Ack, Discard
<1>2. /\ step[c] # "poll" /\ Current(c) \in Message
      /\ Current(c) \in processed \/ dlq[Current(c)] > 0 \/ Dismissed(Current(c))
  BY CurrentIsMessage DEF Ack, Discard, DeletesAreDue
<1>3. Delete(c) \/ UNCHANGED where
  BY DEF Ack, Discard, FailedDelete, StaleReceipt
<1>4. /\ where' \in [Message -> {"unsent", "visible", "gone"} \cup Consumer]
      /\ \A m \in Message : where'[m] = "gone" => where[m] = "gone" \/ m = Current(c)
  BY <1>2, <1>3, DeleteTakesCurrent
<1>5. failures' \in 0..MaxFailures
  <2>1. failures' = failures \/ (failures < MaxFailures /\ failures' = failures + 1)
    BY DEF Ack, Discard, FailedDelete, FailedCall, StaleReceipt
  <2> QED BY <2>1, ConsumerAssumption DEF TypeOK
<1>6. Accounted'
  BY <1>1, <1>2, <1>4 DEF Accounted
<1>7. CASE NextMessage(c)
  <2>1. TypeOK' /\ BatchInHand'
    BY <1>1, <1>2, <1>4, <1>5, <1>7, NextMessageInHand DEF TypeOK
  <2>2. DeletesAreDue'
    BY <1>1, <1>2, <1>7, NextMessageInHand, OthersStayDue DEF Remembers
  <2> QED BY <1>6, <2>1, <2>2
<1>8. CASE AbortBatch(c)
  <2>1. TypeOK' /\ BatchInHand'
    BY <1>1, <1>4, <1>5, <1>8, DropInHand DEF TypeOK
  <2>2. DeletesAreDue'
    BY <1>1, <1>8, DropInHand, OthersStayDue DEF Remembers
  <2> QED BY <1>6, <2>1, <2>2
<1> QED BY <1>7, <1>8 DEF Ack, Discard

-----------------------------------------------------------------------------
(* The theorem                                                             *)

LEMMA ConsumerStep ==
  ConsumerInv /\ [Next]_vars => ConsumerInv'
<1> SUFFICES ASSUME ConsumerInv, [Next]_vars PROVE ConsumerInv'
  OBVIOUS
<1>1. CASE \E m \in Message : Send(m) \/ Expire(m) \/ Redrive(m)
  BY <1>1, QueueStep
<1>2. ASSUME NEW c \in Consumer, Run(c) PROVE ConsumerInv'
  BY <1>2, ReceiveStep, ProcessStep, HandleStep, CopyStep, DeleteStep DEF Run
<1>3. CASE \E c \in Consumer : Stop(c) \/ Crash(c)
  BY <1>3, ProcessStep
<1>4. CASE UNCHANGED vars
  BY <1>4 DEF vars, ConsumerInv, TypeOK, BatchInHand, DeletesAreDue, Current, Accounted
<1> QED BY <1>1, <1>2, <1>3, <1>4 DEF Next

\* The consumer never deletes a message that was neither processed nor copied
\* to the dead-letter queue, except that without one it deletes what can never
\* be processed: through transient and lost answers, expired receipts, aborted
\* batches, stops and crashes.
THEOREM NothingDropped == Spec => []Accounted
<1>1. Init => ConsumerInv
  BY InitConsumer
<1>2. ConsumerInv /\ [Next]_vars => ConsumerInv'
  BY ConsumerStep
<1>3. ConsumerInv => Accounted
  BY DEF ConsumerInv
<1> QED BY <1>1, <1>2, <1>3, PTL DEF Spec
-----------------------------------------------------------------------------
(* Copies are paid for by receives                                         *)

\* The consumers that may still copy m: it is in their batch, and not yet
\* copied.
Owing(m) ==
  {c \in Consumer : /\ m \in Elements(batch[c])
                    /\ ~(step[c] = "discard" /\ Current(c) = m)}

BatchesDiffer ==
  \A c \in Consumer : \A i, j \in 1..Len(batch[c]) : batch[c][i] = batch[c][j] => i = j

Gone(m) == IF where[m] = "gone" THEN 1 ELSE 0

\* A receive pays for one copy, which is made or still owed; leaving the queue
\* pays for that of the redrive.
PaidFor(m) ==
  /\ IsFiniteSet(Owing(m))
  /\ dlq[m] + Cardinality(Owing(m)) <= receives[m] + Gone(m)

CopiesInv == ConsumerInv /\ BatchesDiffer /\ \A m \in Message : PaidFor(m)

LEMMA FewerOwe ==
  ASSUME NEW S, NEW T, IsFiniteSet(S), T \subseteq S
  PROVE  /\ IsFiniteSet(T) /\ Cardinality(T) \in Nat /\ Cardinality(S) \in Nat
         /\ Cardinality(T) <= Cardinality(S)
         /\ \A c \in S : c \notin T => Cardinality(T) <= Cardinality(S) - 1
<1>1. /\ IsFiniteSet(T) /\ Cardinality(T) \in Nat /\ Cardinality(S) \in Nat
      /\ Cardinality(T) <= Cardinality(S)
  BY FS_Subset, FS_CardinalityType
<1>2. ASSUME NEW c \in S, c \notin T PROVE Cardinality(T) <= Cardinality(S) - 1
  <2>1. T \subseteq S \ {c}
    BY <1>2
  <2>2. IsFiniteSet(S \ {c}) /\ Cardinality(S \ {c}) = Cardinality(S) - 1
    BY FS_RemoveElement
  <2> QED BY <2>1, <2>2, FS_Subset
<1> QED BY <1>1, <1>2

\* Nothing is copied or received, and nobody new may copy m.
LEMMA StillPaid ==
  ASSUME CopiesInv, ConsumerInv', NEW m \in Message,
         dlq'[m] = dlq[m], receives'[m] = receives[m],
         where[m] = "gone" => where'[m] = "gone",
         Owing(m)' \subseteq Owing(m)
  PROVE  PaidFor(m)'
<1>1. /\ IsFiniteSet(Owing(m)') /\ Cardinality(Owing(m)') \in Nat
      /\ Cardinality(Owing(m)) \in Nat /\ Cardinality(Owing(m)') <= Cardinality(Owing(m))
  BY FewerOwe DEF CopiesInv, PaidFor
<1>2. dlq[m] \in Nat /\ receives[m] \in Nat
  BY ConsumerAssumption DEF CopiesInv, ConsumerInv, TypeOK
<1> QED BY <1>1, <1>2 DEF CopiesInv, PaidFor, Gone

\* Going on with the next message, or dropping the batch.
LEMMA FinishedOwesNothing ==
  ASSUME CopiesInv, NEW c \in Consumer, step[c] # "poll", NextMessage(c) \/ AbortBatch(c)
  PROVE  /\ BatchesDiffer'
         /\ \A m \in Message : Owing(m)' \subseteq Owing(m)
         /\ \A m \in Message : m = Current(c) => c \notin Owing(m)'
<1> USE DEF CopiesInv, ConsumerInv
<1>1. /\ batch[c] \in Seq(Message) /\ batch[c] # <<>>
      /\ \A d \in Consumer \ {c} : step'[d] = step[d] /\ batch'[d] = batch[d]
  BY NextMessageInHand, DropInHand DEF TypeOK, BatchInHand
<1>2. \/ batch'[c] = <<>>
      \/ batch'[c] = Tail(batch[c])
  BY DEF NextMessage, AbortBatch, TypeOK
<1>3. /\ Len(batch[c]) \in Nat \ {0} /\ Current(c) = batch[c][1]
      /\ Len(Tail(batch[c])) = Len(batch[c]) - 1
      /\ \A i \in 1..Len(Tail(batch[c])) : Tail(batch[c])[i] = batch[c][i + 1]
  BY <1>1, HeadTailProperties, EmptySeq DEF Current
<1>4. /\ Len(batch'[c]) \in Nat
      /\ \A i \in 1..Len(batch'[c]) : i + 1 \in 1..Len(batch[c]) /\ batch'[c][i] = batch[c][i + 1]
  <2>1. CASE batch'[c] = <<>>
    <3>1. Len(batch'[c]) = 0
      BY <2>1
    <3> QED BY <3>1
  <2>2. CASE batch'[c] = Tail(batch[c])
    <3>1. Len(batch'[c]) = Len(batch[c]) - 1
      BY <1>3, <2>2
    <3>2. \A i \in 1..Len(batch'[c]) : i + 1 \in 1..Len(batch[c])
      BY <1>3, <3>1
    <3> QED BY <1>3, <2>2, <3>1, <3>2
  <2> QED BY <1>2, <2>1, <2>2
<1>5. BatchesDiffer'
  <2>1. ASSUME NEW i \in 1..Len(batch'[c]), NEW j \in 1..Len(batch'[c]),
               batch'[c][i] = batch'[c][j]
        PROVE  i = j
    BY <1>4, <2>1 DEF BatchesDiffer
  <2> QED BY <1>1, <2>1 DEF BatchesDiffer
<1>6. ASSUME NEW m \in Message, m \in Elements(batch'[c])
      PROVE  m \in Elements(batch[c]) /\ m # Current(c)
  <2>1. PICK i \in 1..Len(batch'[c]) : m = batch'[c][i]
    BY <1>6 DEF Elements
  <2>2. i + 1 \in 1..Len(batch[c]) /\ m = batch[c][i + 1] /\ 1 \in 1..Len(batch[c])
    BY <1>3, <1>4, <2>1
  <2> QED BY <1>3, <2>1, <2>2 DEF Elements, BatchesDiffer
<1>7. ASSUME NEW m \in Message PROVE Owing(m)' \subseteq Owing(m)
  <2> SUFFICES ASSUME NEW d \in Consumer, m \in Elements(batch'[d]),
                      ~(step'[d] = "discard" /\ Current(d)' = m)
               PROVE  m \in Elements(batch[d]) /\ ~(step[d] = "discard" /\ Current(d) = m)
    BY DEF Owing, Elements
  <2>1. CASE d = c
    BY <1>6, <2>1
  <2>2. CASE d # c
    BY <1>1, <2>2 DEF Current
  <2> QED BY <2>1, <2>2
<1>8. \A m \in Message : m = Current(c) => c \notin Owing(m)'
  BY <1>6 DEF Owing, Elements
<1> QED BY <1>5, <1>7, <1>8

LEMMA QueuePays ==
  ASSUME CopiesInv, ConsumerInv', NEW k \in Message, Send(k) \/ Expire(k) \/ Redrive(k)
  PROVE  CopiesInv'
<1> USE DEF CopiesInv, ConsumerInv
<1>1. UNCHANGED <<receives, batch, step>>
  BY DEF Send, Expire, Redrive
<1>2. \A m \in Message : Owing(m)' = Owing(m)
  BY <1>1 DEF Owing, Current, Elements
<1>3. BatchesDiffer'
  BY <1>1 DEF BatchesDiffer
<1>4. \A m \in Message : where[m] = "gone" => where'[m] = "gone"
  BY ConsumerAssumption DEF Send, Expire, InFlight, Redrive, TypeOK
<1>5. ASSUME NEW m \in Message, ~(Redrive(k) /\ m = k) PROVE PaidFor(m)'
  <2>1. dlq'[m] = dlq[m]
    BY <1>5 DEF Send, Expire, Redrive, TypeOK
  <2> QED BY <1>1, <1>2, <1>4, <2>1, StillPaid
<1>6. ASSUME NEW m \in Message, Redrive(k), m = k PROVE PaidFor(m)'
  <2>1. /\ where[m] = "visible" /\ where'[m] = "gone" /\ dlq'[m] = dlq[m] + 1
        /\ receives'[m] = receives[m]
    BY <1>6 DEF Redrive, TypeOK
  <2>2. PaidFor(m) /\ Owing(m)' = Owing(m)
    BY <1>2
  <2>3. dlq[m] \in Nat /\ receives[m] \in Nat /\ Cardinality(Owing(m)) \in Nat
    BY <2>2, FewerOwe, ConsumerAssumption DEF TypeOK, PaidFor
  <2> QED BY <2>1, <2>2, <2>3 DEF PaidFor, Gone
<1> QED BY <1>3, <1>5, <1>6

\* A receive pays for the copy that its consumer may make.
LEMMA ReceivePays ==
  ASSUME CopiesInv, ConsumerInv', NEW c \in Consumer, Receive(c)
  PROVE  CopiesInv'
<1> USE DEF CopiesInv, ConsumerInv
<1>1. PICK b \in Batches :
        /\ Deliverable(b)
        /\ where' = [m \in Message |-> IF m \in Elements(b) THEN c ELSE where[m]]
        /\ receives' = [m \in Message |->
                         IF m \in Elements(b) THEN receives[m] + 1 ELSE receives[m]]
        /\ batch' = [batch EXCEPT ![c] = b]
  BY DEF Receive
<1>2. /\ batch'[c] = b
      /\ \A d \in Consumer \ {c} : batch'[d] = batch[d] /\ step'[d] = step[d]
  BY <1>1 DEF Receive, TypeOK
<1>3. BatchesDiffer'
  BY <1>1, <1>2 DEF BatchesDiffer, Deliverable
<1>4. \A m \in Message : m \in Elements(b) => where[m] = "visible"
  BY <1>1 DEF Deliverable, Elements
<1>5. \A m \in Message : \A d \in Consumer \ {c} : d \in Owing(m)' <=> d \in Owing(m)
  BY <1>2 DEF Owing, Elements, Current
<1>6. ASSUME NEW m \in Message, m \notin Elements(b) PROVE PaidFor(m)'
  <2>1. /\ dlq'[m] = dlq[m] /\ receives'[m] = receives[m]
        /\ where[m] = "gone" => where'[m] = "gone"
    BY <1>1, <1>6 DEF Receive
  <2>2. c \notin Owing(m)'
    BY <1>2, <1>6 DEF Owing, Elements
  <2>3. Owing(m)' \subseteq Owing(m)
    BY <1>5, <2>2 DEF Owing
  <2> QED BY <2>1, <2>3, StillPaid
<1>7. ASSUME NEW m \in Message, m \in Elements(b) PROVE PaidFor(m)'
  <2>1. /\ dlq'[m] = dlq[m] /\ receives'[m] = receives[m] + 1
        /\ where[m] = "visible" /\ where'[m] = c
    BY <1>1, <1>4, <1>7 DEF Receive
  <2>2. PaidFor(m) /\ Owing(m)' \subseteq Owing(m) \cup {c}
    BY <1>5 DEF Owing
  <2>3. /\ IsFiniteSet(Owing(m)) /\ Cardinality(Owing(m)) \in Nat
        /\ IsFiniteSet(Owing(m) \cup {c})
        /\ Cardinality(Owing(m) \cup {c}) <= Cardinality(Owing(m)) + 1
    <3>1. IsFiniteSet(Owing(m))
      BY <2>2 DEF PaidFor
    <3>2. /\ Cardinality(Owing(m)) \in Nat
          /\ IsFiniteSet(Owing(m) \cup {c})
          /\ Cardinality(Owing(m) \cup {c}) =
               IF c \in Owing(m) THEN Cardinality(Owing(m)) ELSE Cardinality(Owing(m)) + 1
      BY <3>1, FS_CardinalityType, FS_AddElement
    <3> QED BY <3>1, <3>2
  <2>4. /\ IsFiniteSet(Owing(m)') /\ Cardinality(Owing(m)') \in Nat
        /\ Cardinality(Owing(m)') <= Cardinality(Owing(m)) + 1
    <3>1. /\ IsFiniteSet(Owing(m)') /\ Cardinality(Owing(m)') \in Nat
          /\ Cardinality(Owing(m) \cup {c}) \in Nat
          /\ Cardinality(Owing(m)') <= Cardinality(Owing(m) \cup {c})
      BY <2>2, <2>3, FewerOwe
    <3> QED BY <2>3, <3>1
  <2>5. dlq[m] \in Nat /\ receives[m] \in Nat /\ c # "gone"
    BY ConsumerAssumption DEF TypeOK
  <2> QED BY <2>1, <2>2, <2>3, <2>4, <2>5 DEF PaidFor, Gone
<1> QED BY <1>3, <1>6, <1>7

\* The steps of a batch that copy nothing.
LEMMA OtherStepsPay ==
  ASSUME CopiesInv, ConsumerInv', NEW c \in Consumer,
         Break(c) \/ Handle(c) \/ Execute(c) \/ Ack(c) \/ Discard(c)
           \/ Start(c) \/ Stop(c) \/ Crash(c)
  PROVE  CopiesInv'
<1> USE DEF CopiesInv, ConsumerInv
<1>1. UNCHANGED <<receives, dlq>>
  BY DEF Break, Handle, Execute, Ack, Discard, Start, Stop, Crash
<1>2. \A m \in Message : where[m] = "gone" => where'[m] = "gone"
  BY DEF Break, Handle, Execute, Ack, Discard, Start, Stop, Crash, Delete, FailedDelete,
         StaleReceipt, TypeOK
<1>3. BatchesDiffer' /\ \A m \in Message : Owing(m)' \subseteq Owing(m)
  <2>1. CASE step[c] # "poll" /\ (NextMessage(c) \/ AbortBatch(c))
    BY <2>1, FinishedOwesNothing
  <2>2. CASE UNCHANGED <<batch, step>>
    BY <2>2 DEF BatchesDiffer, Owing, Elements, Current
  <2>3. CASE /\ step[c] \in {"handle", "execute"} /\ batch' = batch
             /\ \A d \in Consumer \ {c} : step'[d] = step[d]
    <3>1. BatchesDiffer'
      BY <2>3 DEF BatchesDiffer
    <3>2. \A m \in Message : Owing(m)' \subseteq Owing(m)
      BY <2>3 DEF Owing, Elements, Current
    <3> QED BY <3>1, <3>2
  <2>4. CASE Handle(c) \/ Execute(c)
    BY <2>1, <2>3, <2>4 DEF Handle, Execute, Leave, TypeOK
  <2>5. CASE Break(c) \/ Crash(c)
    BY <2>1, <2>5 DEF Break, Crash, AbortBatch
  <2>6. CASE Ack(c) \/ Discard(c)
    BY <2>1, <2>6 DEF Ack, Discard
  <2>7. CASE Start(c) \/ Stop(c)
    BY <2>2, <2>7 DEF Start, Stop
  <2> QED BY <2>4, <2>5, <2>6, <2>7
<1>4. \A m \in Message : PaidFor(m)'
  BY <1>1, <1>2, <1>3, StillPaid
<1> QED BY <1>3, <1>4

\* The copy is the one its consumer owed, whether the send fails or not.
LEMMA CopyPays ==
  ASSUME CopiesInv, ConsumerInv', NEW c \in Consumer, Copy(c)
  PROVE  CopiesInv'
<1> USE DEF CopiesInv, ConsumerInv
<1>1. UNCHANGED <<where, receives>> /\ step[c] = "copy"
  BY DEF Copy
<1>2. /\ Current(c) \in Message /\ batch[c] \in Seq(Message)
      /\ Len(batch[c]) \in Nat \ {0} /\ Current(c) = batch[c][1]
  BY <1>1, CurrentIsMessage DEF TypeOK, Current
<1>3. c \in Owing(Current(c))
  BY <1>1, <1>2 DEF Owing, Elements
<1>4. /\ BatchesDiffer' /\ \A m \in Message : Owing(m)' \subseteq Owing(m)
      /\ \A m \in Message : m = Current(c) => c \notin Owing(m)'
  <2>1. CASE AbortBatch(c)
    BY <1>1, <2>1, FinishedOwesNothing
  <2>2. CASE step' = [step EXCEPT ![c] = "discard"] /\ batch' = batch
    <3>1. BatchesDiffer'
      BY <2>2 DEF BatchesDiffer
    <3>2. step'[c] = "discard" /\ \A d \in Consumer \ {c} : step'[d] = step[d]
      BY <2>2 DEF TypeOK
    <3>3. \A m \in Message : Owing(m)' \subseteq Owing(m)
      BY <1>1, <2>2, <3>2 DEF Owing, Elements, Current
    <3>4. \A m \in Message : m = Current(c) => c \notin Owing(m)'
      BY <2>2, <3>2 DEF Owing, Current
    <3> QED BY <3>1, <3>3, <3>4
  <2> QED BY <2>1, <2>2 DEF Copy
<1>5. ASSUME NEW m \in Message, m # Current(c) PROVE PaidFor(m)'
  <2>1. dlq'[m] = dlq[m]
    BY <1>5 DEF Copy, Accept, TypeOK
  <2> QED BY <1>1, <1>4, <2>1, StillPaid
<1>6. ASSUME NEW m \in Message, m = Current(c) PROVE PaidFor(m)'
  <2>1. dlq'[m] = dlq[m] \/ dlq'[m] = dlq[m] + 1
    BY <1>6 DEF Copy, Accept, TypeOK
  <2>2. PaidFor(m)
    OBVIOUS
  <2>3. /\ IsFiniteSet(Owing(m)') /\ Cardinality(Owing(m)') \in Nat
        /\ Cardinality(Owing(m)) \in Nat
        /\ Cardinality(Owing(m)') <= Cardinality(Owing(m)) - 1
    BY <1>3, <1>4, <1>6, <2>2, FewerOwe DEF PaidFor
  <2>4. dlq[m] \in Nat /\ receives[m] \in Nat
    BY ConsumerAssumption DEF TypeOK
  <2> QED BY <1>1, <2>1, <2>2, <2>3, <2>4 DEF PaidFor, Gone
<1> QED BY <1>4, <1>5, <1>6

\* However often calls fail, receipts expire and consumers die, a message has
\* a copy for each receive at most, and one by the redrive (toDlq,
\* wager-transaction.consumer.ts).
THEOREM CopiesArePaidFor == Spec => []CopiesPerReceive
<1>1. Init => CopiesInv
  <2> SUFFICES ASSUME Init PROVE CopiesInv
    OBVIOUS
  <2>1. ConsumerInv
    BY InitConsumer
  <2>2. \A c \in Consumer : batch[c] = <<>> /\ Len(batch[c]) = 0
    BY DEF Init
  <2>3. BatchesDiffer
    BY <2>2 DEF BatchesDiffer
  <2>4. \A m \in Message : Owing(m) = {}
    BY <2>2 DEF Owing, Elements
  <2>5. ASSUME NEW m \in Message PROVE PaidFor(m)
    <3>1. IsFiniteSet(Owing(m)) /\ Cardinality(Owing(m)) = 0
      BY <2>4, FS_EmptySet
    <3>2. dlq[m] = 0 /\ receives[m] = 0 /\ Gone(m) = 0
      BY DEF Init, Gone
    <3> QED BY <3>1, <3>2 DEF PaidFor
  <2> QED BY <2>1, <2>3, <2>5 DEF CopiesInv
<1>2. CopiesInv /\ [Next]_vars => CopiesInv'
  <2> SUFFICES ASSUME CopiesInv, [Next]_vars PROVE CopiesInv'
    OBVIOUS
  <2>1. ConsumerInv'
    BY ConsumerStep DEF CopiesInv
  <2>2. CASE \E m \in Message : Send(m) \/ Expire(m) \/ Redrive(m)
    BY <2>1, <2>2, QueuePays
  <2>3. ASSUME NEW c \in Consumer, Run(c) \/ Stop(c) \/ Crash(c) PROVE CopiesInv'
    BY <2>1, <2>3, ReceivePays, OtherStepsPay, CopyPays DEF Run
  <2>4. CASE UNCHANGED vars
    <3>1. BatchesDiffer'
      BY <2>4 DEF vars, CopiesInv, BatchesDiffer
    <3>2. \A m \in Message : PaidFor(m)'
      <4>1. \A m \in Message : Owing(m)' \subseteq Owing(m)
        BY <2>4 DEF vars, Owing, Elements, Current
      <4> QED BY <2>1, <2>4, <4>1, StillPaid DEF vars
    <3> QED BY <2>1, <3>1, <3>2 DEF CopiesInv
  <2> QED BY <2>2, <2>3, <2>4 DEF Next
<1>3. CopiesInv => CopiesPerReceive
  <2> SUFFICES ASSUME CopiesInv, NEW m \in Message PROVE dlq[m] <= receives[m] + 1
    BY DEF CopiesPerReceive
  <2>1. /\ dlq[m] \in Nat /\ receives[m] \in Nat /\ PaidFor(m)
        /\ Cardinality(Owing(m)) \in Nat
    BY FewerOwe, ConsumerAssumption DEF CopiesInv, ConsumerInv, TypeOK, PaidFor
  <2> QED BY <2>1 DEF PaidFor, Gone
<1> QED BY <1>1, <1>2, <1>3, PTL DEF Spec
=============================================================================
