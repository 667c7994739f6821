--------------------------- MODULE WagerConsumer ---------------------------
(***************************************************************************)
(* WagerTransactionConsumer: consumer processes take batches of messages   *)
(* from the FIFO queue of commands, hand each to ProcessWagerTransaction,  *)
(* and delete it, leave it for redelivery, or copy it to the dead-letter   *)
(* queue.  The queue (SQS) hides a received message for its visibility     *)
(* timeout, counts its receives, and redrives it after too many.           *)
(***************************************************************************)
EXTENDS Integers, Sequences, FiniteSets

CONSTANTS
  Message,     \* messages sent to the queue
  Group,       \* message -> walletId, its message group
  Rank,        \* message -> its place in the order of sending
  Class,       \* message -> "good", "malformed" or "permanent" (refused for good)
  Consumer,    \* the consumer processes
  HasDlq,      \* is ConsumerConfig.dlqUrl set?
  MaxMessages, \* ConsumerConfig.maxMessages
  MaxReceive,  \* maxReceiveCount of the queue's redrive policy
  MaxFailures, \* bound: how many calls may fail
  MaxRestarts  \* bound: how often consumers stop or die

ASSUME ConsumerAssumption ==
  /\ Rank \in [Message -> Nat]
  /\ Class \in [Message -> {"good", "malformed", "permanent"}]
  /\ Message \cap Consumer = {}
  /\ Consumer \cap {"unsent", "visible", "gone"} = {}
  /\ HasDlq \in BOOLEAN
  /\ MaxMessages \in Nat \ {0}
  /\ MaxReceive \in Nat \ {0}
  /\ MaxFailures \in Nat
  /\ MaxRestarts \in Nat

VARIABLES
  where,     \* message -> "unsent", "visible", "gone", or the consumer whose
             \* receipt of it is still valid
  receives,  \* message -> its receive count
  dlq,       \* message -> copies of it in the dead-letter queue
  processed, \* messages whose inbox row and outcome are committed
  batch,     \* consumer -> received messages not finished, in order
  step,      \* consumer -> "poll", "handle", "execute", "ack", "copy" or "discard"
  stopping,  \* consumer -> has onModuleDestroy been called?
  failures, restarts

vars == <<where, receives, dlq, processed, batch, step, stopping,
          failures, restarts>>

Elements(s) == {s[i] : i \in 1..Len(s)}

Init ==
  /\ where = [m \in Message |-> "unsent"]
  /\ receives = [m \in Message |-> 0]
  /\ dlq = [m \in Message |-> 0]
  /\ processed = {}
  /\ batch = [c \in Consumer |-> <<>>]
  /\ step = [c \in Consumer |-> "poll"]
  /\ stopping = [c \in Consumer |-> FALSE]
  /\ failures = 0
  /\ restarts = 0

-----------------------------------------------------------------------------
(* The queue                                                               *)

InFlight(m) == where[m] \in Consumer

Before(m) == {k \in Message : Group[k] = Group[m] /\ Rank[k] < Rank[m]}

Send(m) ==
  /\ where[m] = "unsent"
  /\ \A k \in Before(m) : where[k] # "unsent"
  /\ where' = [where EXCEPT ![m] = "visible"]
  /\ UNCHANGED <<receives, dlq, processed, batch, step, stopping, failures, restarts>>

\* The visibility timeout of a received message is over.
Expire(m) ==
  /\ InFlight(m)
  /\ where' = [where EXCEPT ![m] = "visible"]
  /\ UNCHANGED <<receives, dlq, processed, batch, step, stopping, failures, restarts>>

\* Received too often, the message moves to the dead-letter queue.
Redrive(m) ==
  /\ where[m] = "visible"
  /\ receives[m] = MaxReceive
  /\ where' = [where EXCEPT ![m] = "gone"]
  /\ dlq' = [dlq EXCEPT ![m] = @ + 1]
  /\ UNCHANGED <<receives, processed, batch, step, stopping, failures, restarts>>

\* A batch keeps the order of each group, and starts where the group's
\* undelivered messages start; a group in flight delivers nothing.
Deliverable(b) ==
  /\ \A i \in 1..Len(b) :
       /\ where[b[i]] = "visible"
       /\ receives[b[i]] < MaxReceive
       /\ \A k \in Message : Group[k] = Group[b[i]] => ~InFlight(k)
       /\ \A k \in Before(b[i]) :
            where[k] = "gone" \/ \E j \in 1..(i - 1) : b[j] = k
  /\ \A i, j \in 1..Len(b) : b[i] = b[j] => i = j

-----------------------------------------------------------------------------
(* pollOnce                                                                *)

Batches == UNION {[1..n -> Message] : n \in 1..MaxMessages}

Receive(c) ==
  /\ step[c] = "poll"
  /\ ~stopping[c]
  /\ \E b \in Batches :
       /\ Deliverable(b)
       /\ where' = [m \in Message |-> IF m \in Elements(b) THEN c ELSE where[m]]
       /\ receives' = [m \in Message |->
                        IF m \in Elements(b) THEN receives[m] + 1 ELSE receives[m]]
       /\ batch' = [batch EXCEPT ![c] = b]
  /\ step' = [step EXCEPT ![c] = "handle"]
  /\ UNCHANGED <<dlq, processed, stopping, failures, restarts>>

Current(c) == Head(batch[c])

\* handle returned: the loop goes on with the next message.
NextMessage(c) ==
  /\ batch' = [batch EXCEPT ![c] = Tail(@)]
  /\ step' = [step EXCEPT ![c] = IF Len(batch[c]) = 1 THEN "poll" ELSE "handle"]

\* handle threw: pollOnce rejects, loop() logs and polls again; the rest of
\* the batch comes back when its visibility timeout is over.  Mutants: the
\* send is tried again at once, or the error ends the loop.
RetryCopy(c) == step' = [step EXCEPT ![c] = "copy"] /\ UNCHANGED batch
LoopEnds(c) ==
  /\ batch' = [batch EXCEPT ![c] = <<>>]
  /\ step' = [step EXCEPT ![c] = "ended"]
AbortBatch(c) ==
  /\ batch' = [batch EXCEPT ![c] = <<>>]
  /\ step' = [step EXCEPT ![c] = "poll"]

\* The stop flag is looked at between two messages.
Break(c) ==
  /\ step[c] = "handle"
  /\ stopping[c]
  /\ AbortBatch(c)
  /\ UNCHANGED <<where, receives, dlq, processed, stopping, failures, restarts>>

-----------------------------------------------------------------------------
(* handle                                                                  *)

\* A call to SQS or to the use case throws.
FailedCall == failures < MaxFailures /\ failures' = failures + 1

\* Where toDlq starts: without a dlqUrl it only deletes.
ToDlq == IF HasDlq THEN "copy" ELSE "discard"

\* safeParse
Handle(c) ==
  /\ step[c] = "handle"
  /\ ~stopping[c]
  /\ step' = [step EXCEPT ![c] =
                IF Class[Current(c)] = "malformed" THEN ToDlq ELSE "execute"]
  /\ UNCHANGED <<where, receives, dlq, processed, batch, stopping, failures, restarts>>

\* A transient error leaves the message.  The mutant acknowledges it.
AckAnyway(c) == step' = [step EXCEPT ![c] = "ack"] /\ UNCHANGED batch
Leave(c) == NextMessage(c)

\* process.execute: it commits, refuses for good, or throws a transient or
\* unknown error, then possibly after its COMMIT took effect.
Execute(c) ==
  /\ step[c] = "execute"
  /\ \/ /\ Class[Current(c)] = "good"
        /\ processed' = processed \cup {Current(c)}
        /\ step' = [step EXCEPT ![c] = "ack"]
        /\ UNCHANGED <<batch, failures>>
     \/ /\ Class[Current(c)] = "permanent"
        /\ step' = [step EXCEPT ![c] = ToDlq]
        /\ UNCHANGED <<processed, batch, failures>>
     \/ /\ FailedCall
        /\ \/ UNCHANGED processed
           \/ Class[Current(c)] = "good" /\ processed' = processed \cup {Current(c)}
        /\ Leave(c)
  /\ UNCHANGED <<where, receives, dlq, stopping, restarts>>

\* DeleteMessage takes the message away only with a valid receipt.
Delete(c) ==
  where' = IF where[Current(c)] = c
           THEN [where EXCEPT ![Current(c)] = "gone"] ELSE where

\* The queue answers a stale receipt with an error or without effect.
StaleReceipt(c) == where[Current(c)] # c /\ UNCHANGED <<where, failures>>

\* A delete that throws may have taken effect.
FailedDelete(c) == FailedCall /\ (Delete(c) \/ UNCHANGED where)

\* ack, inside the try block: its errors count as transient.
Ack(c) ==
  /\ step[c] = "ack"
  /\ \/ Delete(c) /\ UNCHANGED failures
     \/ FailedDelete(c)
  /\ NextMessage(c)
  /\ UNCHANGED <<receives, dlq, processed, stopping, restarts>>

\* The dead-letter queue takes the copy, or knows its deduplication id from
\* an earlier one.
Accept(m) ==
  \/ dlq' = [dlq EXCEPT ![m] = @ + 1]
  \/ dlq[m] > 0 /\ UNCHANGED dlq

\* toDlq: the send
Copy(c) ==
  /\ step[c] = "copy"
  /\ \/ /\ Accept(Current(c))
        /\ step' = [step EXCEPT ![c] = "discard"]
        /\ UNCHANGED <<batch, failures>>
     \/ /\ FailedCall
        /\ Accept(Current(c)) \/ UNCHANGED dlq
        /\ AbortBatch(c)
  /\ UNCHANGED <<where, receives, processed, stopping, restarts>>

\* toDlq: the ack, outside the try block
Discard(c) ==
  /\ step[c] = "discard"
  /\ \/ Delete(c) /\ UNCHANGED failures /\ NextMessage(c)
     \/ (FailedDelete(c) \/ StaleReceipt(c)) /\ AbortBatch(c)
  /\ UNCHANGED <<receives, dlq, processed, stopping, restarts>>

-----------------------------------------------------------------------------
(* Processes stop, die and start again                                     *)

Stop(c) ==
  /\ ~stopping[c]
  /\ restarts < MaxRestarts
  /\ restarts' = restarts + 1
  /\ stopping' = [stopping EXCEPT ![c] = TRUE]
  /\ UNCHANGED <<where, receives, dlq, processed, batch, step, failures>>

Start(c) ==
  /\ stopping[c]
  /\ step[c] = "poll"
  /\ stopping' = [stopping EXCEPT ![c] = FALSE]
  /\ UNCHANGED <<where, receives, dlq, processed, batch, step, failures, restarts>>

Crash(c) ==
  /\ step[c] # "poll"
  /\ restarts < MaxRestarts
  /\ restarts' = restarts + 1
  /\ batch' = [batch EXCEPT ![c] = <<>>]
  /\ step' = [step EXCEPT ![c] = "poll"]
  /\ stopping' = [stopping EXCEPT ![c] = FALSE]
  /\ UNCHANGED <<where, receives, dlq, processed, failures>>

Run(c) ==
  \/ Receive(c) \/ Break(c) \/ Handle(c) \/ Execute(c) \/ Ack(c) \/ Copy(c)
  \/ Discard(c) \/ Start(c)

Next ==
  \/ \E m \in Message : Send(m) \/ Expire(m) \/ Redrive(m)
  \/ \E c \in Consumer : Run(c) \/ Stop(c) \/ Crash(c)

Spec == Init /\ [][Next]_vars

\* A consumer's loop never ends while its process lives, a stopped one is
\* started again, and the queue's clocks run.
Fairness ==
  /\ \A c \in Consumer : WF_vars(Run(c))
  /\ \A m \in Message : WF_vars(Expire(m)) /\ WF_vars(Redrive(m))

FairSpec == Spec /\ Fairness

-----------------------------------------------------------------------------
(* Properties                                                              *)

TypeOK ==
  /\ where \in [Message -> {"unsent", "visible", "gone"} \cup Consumer]
  /\ receives \in [Message -> 0..MaxReceive]
  /\ dlq \in [Message -> Nat]
  /\ processed \subseteq Message
  /\ batch \in [Consumer -> Seq(Message)]
  /\ step \in [Consumer -> {"poll", "handle", "execute", "ack", "copy", "discard"}]
  /\ stopping \in [Consumer -> BOOLEAN]
  /\ failures \in 0..MaxFailures
  /\ restarts \in 0..MaxRestarts

\* Refused for good, and there is no dead-letter queue to copy it to.
Dismissed(m) == ~HasDlq /\ Class[m] # "good"

\* No message is dropped: what left the queue was processed (its outcome
\* committed before the delete) or has a copy in the dead-letter queue, except
\* for the poisonous messages of a consumer without one.
Accounted ==
  \A m \in Message : where[m] = "gone" =>
    m \in processed \/ dlq[m] > 0 \/ Dismissed(m)

\* A poisonous message is copied at most once for each receive, and once more
\* by the redrive, whatever fails.
CopiesPerReceive == \A m \in Message : dlq[m] <= receives[m] + 1

\* Every message leaves the queue, processed or not.
EverySettles == \A m \in Message : where[m] = "visible" ~> where[m] = "gone"

=============================================================================
