------------------------- MODULE EventStreamProofs -------------------------
(***************************************************************************)
(* Proofs about EventStream, for any number of workers and messages and    *)
(* any limits.  NoEventForgotten is not inductive alone: an XAck removes a *)
(* message whatever became of it, so that the worker is about to           *)
(* acknowledge a settled message has to be known before (AcksFollowOutcome)*)
(***************************************************************************)
EXTENDS EventStream, TLAPS

USE LimitsAssumption

(* The inductive invariant.                                                *)
DeliveryInv == EventTypeOK /\ AcksFollowOutcome /\ NoEventForgotten

(* Appending to the stream changes nothing about the messages in it.       *)
LEMMA AppendKeeps ==
  ASSUME NEW s \in Seq(Kinds), NEW k \in Kinds
  PROVE  /\ Append(s, k) \in Seq(Kinds)
         /\ Len(Append(s, k)) = Len(s) + 1
         /\ \A m \in 1..Len(s) : Append(s, k)[m] = s[m]
  OBVIOUS

(* A read delivers a stretch of the stream that follows what was read.     *)
LEMMA BatchBounds ==
  ASSUME EventTypeOK
  PROVE  /\ BatchEnd \in read..Len(stream)
         /\ NewMessages = (read + 1)..BatchEnd
  BY DEF EventTypeOK, BatchEnd, NewMessages

(* A worker holds delivered messages only.                                 *)
LEMMA HeldDelivered ==
  ASSUME EventTypeOK, NEW w \in Workers
  PROVE  batch[w] \subseteq 1..read /\ batch[w] \subseteq Messages
  BY DEF EventTypeOK, Messages

(* The stretch of numbers a longer stream adds to.                         *)
LEMMA StreamGrows ==
  ASSUME NEW s \in Seq(Kinds)
  PROVE  /\ Len(s) \in Nat
         /\ 1..Len(s) \subseteq 1..(Len(s) + 1)
         /\ Len(s) + 1 \in 1..(Len(s) + 1)
  OBVIOUS

(* Where a step of worker w leads, and what becomes of its tries.          *)
LEMMA WorkerMoves ==
  ASSUME EventTypeOK, NEW w \in Workers, NEW p \in WorkerPCs, Goto(w, p)
  PROVE  wpc' \in [Workers -> WorkerPCs] /\ wpc'[w] = p /\ \A v \in Workers \ {w} : wpc'[v] = wpc[v]
  BY DEF EventTypeOK, Goto

(* A failed handler call is counted, or was the last one.                  *)
LEMMA FailureCounted ==
  ASSUME EventTypeOK, NEW w \in Workers, HandlerFails(w)
  PROVE  tries' \in [Workers -> 0..(MaxRetries - 1)] /\ (Goto(w, "handle") \/ Goto(w, "letter"))
<1>1. tries[w] \in 0..(MaxRetries - 1) /\ tries \in [Workers -> 0..(MaxRetries - 1)]
  BY DEF EventTypeOK
<1>2. CASE tries[w] + 1 < MaxRetries /\ tries' = [tries EXCEPT ![w] = @ + 1]
  BY <1>1, <1>2 DEF HandlerFails
<1>3. CASE UNCHANGED tries
  BY <1>1, <1>3 DEF HandlerFails
<1> QED BY <1>2, <1>3 DEF HandlerFails

(* Every step keeps the types.                                             *)
LEMMA TypesHold ==
  ASSUME EventTypeOK, AcksFollowOutcome, [EventNext]_eventVars
  PROVE  EventTypeOK'
<1> USE DEF redisVars, tableVars, workerVars
<1>0. /\ wpc \in [Workers -> WorkerPCs]
      /\ {"down", "loop", "claim", "read", "handle", "list", "save", "letter", "ack"} \subseteq WorkerPCs
      /\ read \in Nat /\ Len(stream) \in Nat /\ faults \in 0..MaxFaults
  BY DEF EventTypeOK, WorkerPCs
<1>1. CASE Publish
  <2>1. PICK k \in Kinds : stream' = Append(stream, k)
    BY <1>1 DEF Publish
  <2>2. stream' \in Seq(Kinds) /\ Len(stream') = Len(stream) + 1
    BY <2>1, AppendKeeps DEF EventTypeOK
  <2>3. /\ 1..Len(stream) \subseteq 1..(Len(stream) + 1)
        /\ Len(stream) + 1 \in 1..(Len(stream) + 1)
        /\ present \subseteq 1..Len(stream)
    BY StreamGrows DEF EventTypeOK, Messages
  <2>4. present' \subseteq 1..(Len(stream) + 1)
    BY <1>1, <2>3 DEF Publish
  <2>5. Messages \subseteq Messages' /\ present' \subseteq Messages'
    BY <2>2, <2>3, <2>4 DEF Messages
  <2>6. read' \in 0..Len(stream')
    BY <1>1, <1>0, <2>2 DEF Publish, EventTypeOK
  <2> QED BY <1>1, <2>2, <2>5, <2>6 DEF Publish, EventTypeOK
<1>2. CASE IdlePasses
  BY <1>2 DEF IdlePasses, EventTypeOK, WorkerPCs, Goto, Fault, Messages
<1>3. CASE \E m \in Messages : RemoveFile(m)
  BY <1>3 DEF RemoveFile, EventTypeOK, WorkerPCs, Goto, Fault, Messages
<1>4. ASSUME NEW w \in Workers, Start(w) PROVE EventTypeOK'
  BY <1>4 DEF Start, EventTypeOK, WorkerPCs, Goto, Fault, Messages
<1>5. ASSUME NEW w \in Workers, ReclaimDue(w) PROVE EventTypeOK'
  BY <1>5 DEF ReclaimDue, EventTypeOK, WorkerPCs, Goto, Fault, Messages
<1>6. ASSUME NEW w \in Workers, ReadGroup(w) PROVE EventTypeOK'
  <2>1. BatchEnd \in read..Len(stream) /\ NewMessages \subseteq 1..BatchEnd
    BY <1>0, BatchBounds
  <2>2. pending \subseteq 1..BatchEnd /\ batch \in [Workers -> SUBSET (1..BatchEnd)]
    BY <1>0, <2>1 DEF EventTypeOK
  <2>3. read' \in 0..Len(stream) /\ pending' \subseteq 1..read' /\ overdue' \subseteq pending'
    <3>1. read' = BatchEnd /\ pending' = pending \cup NewMessages /\ overdue' = overdue
      BY <1>6 DEF ReadGroup, Deliver
    <3>2. overdue \subseteq pending /\ BatchEnd \in 0..Len(stream)
      BY <1>0, <2>1 DEF EventTypeOK
    <3> QED BY <2>1, <2>2, <3>1, <3>2
  <2>4. batch' \in [Workers -> SUBSET (1..read')]
    BY <1>6, <2>1, <2>2 DEF ReadGroup, Deliver
  <2>5. failures' \in [Workers -> 0..(MaxReadFailures - 1)] /\ cursor' \in [Workers -> Nat]
    BY <1>6 DEF ReadGroup, EventTypeOK
  <2>6. \E p \in WorkerPCs : Goto(w, p)
    BY <1>6, <1>0 DEF ReadGroup
  <2> QED BY <1>6, <2>3, <2>4, <2>5, <2>6, WorkerMoves DEF ReadGroup, EventTypeOK, Messages
<1>7. ASSUME NEW w \in Workers, ClaimStale(w) PROVE EventTypeOK'
  <2>1. Claimed(cursor[w]) \subseteq pending /\ Claimed(cursor[w]) \subseteq overdue
    BY DEF Claimed, Scanned
  <2>2. cursor' \in [Workers -> Nat]
    BY <1>7 DEF ClaimStale, PassOver, EventTypeOK
  <2> QED BY <1>7, <2>1, <2>2 DEF ClaimStale, EventTypeOK, WorkerPCs, Goto, Messages
<1>8. ASSUME NEW w \in Workers, Process(w) PROVE EventTypeOK'
  <2>1. tries' \in [Workers -> 0..(MaxRetries - 1)]
    BY <1>8, FailureCounted DEF Process, EventTypeOK
  <2>2. \E p \in WorkerPCs : Goto(w, p)
    BY <1>8, <1>0 DEF Process, HandlerFails
  <2> QED BY <1>8, <2>1, <2>2, WorkerMoves DEF Process, EventTypeOK, Messages
<1>9. ASSUME NEW w \in Workers, ReadText(w) PROVE EventTypeOK'
  <2>1. handled' \subseteq Messages
    BY <1>9, HeldDelivered DEF ReadText, HandlerSucceeds, EventTypeOK
  <2>2. missed' \subseteq Messages
    BY <1>9, HeldDelivered DEF ReadText, NoChunks, EventTypeOK
  <2>3. tries' \in [Workers -> 0..(MaxRetries - 1)]
    BY <1>9, FailureCounted DEF ReadText, CallModel, EventTypeOK
  <2>4. \E p \in WorkerPCs : Goto(w, p)
    BY <1>9, <1>0 DEF ReadText, CallModel, HandlerFails, HandlerSucceeds
  <2> QED BY <1>9, <2>1, <2>2, <2>3, <2>4, WorkerMoves DEF ReadText, EventTypeOK, Messages
<1>10. ASSUME NEW w \in Workers, SaveEmbedding(w) PROVE EventTypeOK'
  <2>1. handled' \subseteq Messages
    BY <1>10, HeldDelivered DEF SaveEmbedding, HandlerSucceeds, EventTypeOK
  <2>2. summaries' \subseteq Messages /\ missed' \subseteq Messages
    BY <1>10, HeldDelivered DEF SaveEmbedding, WriteSummary, EventTypeOK
  <2>3. tries' \in [Workers -> 0..(MaxRetries - 1)]
    BY <1>10, FailureCounted DEF SaveEmbedding, EventTypeOK
  <2>4. \E p \in WorkerPCs : Goto(w, p)
    BY <1>10, <1>0 DEF SaveEmbedding, HandlerFails, HandlerSucceeds
  <2> QED BY <1>10, <2>1, <2>2, <2>3, <2>4, WorkerMoves DEF SaveEmbedding, EventTypeOK, Messages
<1>11. ASSUME NEW w \in Workers, DeadLetter(w) PROVE EventTypeOK'
  <2>1. dead' \subseteq Messages /\ dropped' \subseteq Messages
    BY <1>11, HeldDelivered DEF DeadLetter, EventTypeOK
  <2>2. faults' \in 0..MaxFaults
    BY <1>11, <1>0 DEF DeadLetter, Fault
  <2> QED BY <1>11, <1>0, <2>1, <2>2, WorkerMoves DEF DeadLetter, EventTypeOK, Messages
<1>12. ASSUME NEW w \in Workers, Ack(w) PROVE EventTypeOK'
  <2>1. pending' \subseteq pending /\ overdue' \subseteq pending'
    BY <1>12 DEF Ack, EventTypeOK
  <2>2. faults' \in 0..MaxFaults
    BY <1>12, <1>0 DEF Ack, Fault
  <2>3. batch' \in [Workers -> SUBSET (1..read)]
    BY <1>12 DEF Ack, EventTypeOK
  <2>4. \E p \in WorkerPCs : Goto(w, p)
    BY <1>12, <1>0 DEF Ack
  <2>5. tries' \in [Workers -> 0..(MaxRetries - 1)]
    BY <1>12 DEF Ack, EventTypeOK
  <2> QED BY <1>12, <2>1, <2>2, <2>3, <2>4, <2>5, WorkerMoves DEF Ack, EventTypeOK, Messages
<1>13. ASSUME NEW w \in Workers, TickerFires(w) PROVE EventTypeOK'
  BY <1>13 DEF TickerFires, EventTypeOK, WorkerPCs, Goto, Fault, Messages
<1>14. ASSUME NEW w \in Workers, ReadFails(w) PROVE EventTypeOK'
  <2>1. BatchEnd \in read..Len(stream) /\ NewMessages \subseteq 1..BatchEnd
    BY <1>0, BatchBounds
  <2>2. pending \subseteq 1..BatchEnd /\ batch \in [Workers -> SUBSET (1..BatchEnd)]
    BY <1>0, <2>1 DEF EventTypeOK
  <2>3. /\ read' \in 0..Len(stream) /\ pending' \subseteq 1..read' /\ overdue' \subseteq pending'
        /\ batch' \in [Workers -> SUBSET (1..read')]
    <3>1. CASE Deliver
      BY <1>14, <1>0, <2>1, <2>2, <3>1 DEF ReadFails, Deliver, EventTypeOK
    <3>2. CASE UNCHANGED <<read, pending>>
      BY <1>14, <3>2 DEF ReadFails, EventTypeOK
    <3> QED BY <1>14, <3>1, <3>2 DEF ReadFails
  <2>4. failures' \in [Workers -> 0..(MaxReadFailures - 1)]
    <3>1. failures[w] \in 0..(MaxReadFailures - 1) /\ failures \in [Workers -> 0..(MaxReadFailures - 1)]
      BY DEF EventTypeOK
    <3>2. CASE failures[w] + 1 < MaxReadFailures /\ failures' = [failures EXCEPT ![w] = @ + 1]
      BY <3>1, <3>2
    <3>3. CASE UNCHANGED failures
      BY <3>1, <3>3
    <3> QED BY <1>14, <3>2, <3>3 DEF ReadFails
  <2>5. \E p \in WorkerPCs : Goto(w, p)
    BY <1>14, <1>0 DEF ReadFails
  <2>6. faults' \in 0..MaxFaults
    BY <1>14, <1>0 DEF ReadFails, Fault
  <2> QED BY <1>14, <2>3, <2>4, <2>5, <2>6, WorkerMoves DEF ReadFails, EventTypeOK, Messages
<1>15. ASSUME NEW w \in Workers, ClaimFails(w) PROVE EventTypeOK'
  BY <1>15 DEF ClaimFails, EventTypeOK, WorkerPCs, Goto, Fault, Messages
<1>16. ASSUME NEW w \in Workers, Stop(w) PROVE EventTypeOK'
  BY <1>16 DEF Stop, EventTypeOK, WorkerPCs, Goto, Fault, Messages
<1>17. CASE UNCHANGED eventVars
  BY <1>17 DEF eventVars, EventTypeOK, Messages
<1> QED
  BY <1>1, <1>2, <1>3, <1>4, <1>5, <1>6, <1>7, <1>8, <1>9, <1>10, <1>11, <1>12, <1>13,
     <1>14, <1>15, <1>16, <1>17 DEF EventNext, WorkerStep

(* An outcome is final: later steps, of whichever worker, keep it.         *)
LEMMA OutcomesStay ==
  ASSUME EventTypeOK, [EventNext]_eventVars, NEW m \in Messages
  PROVE  /\ Settled(m) => Settled(m)'
         /\ stream'[m] = stream[m]
<1>1. handled \subseteq handled' /\ dead \subseteq dead' /\ dropped \subseteq dropped'
  BY DEF EventNext, eventVars, redisVars, WorkerStep, Publish, IdlePasses, RemoveFile, Start,
     ReclaimDue, ReadGroup, ClaimStale, Process, ReadText, HandlerSucceeds, SaveEmbedding,
     DeadLetter, Ack, TickerFires, ReadFails, ClaimFails, Stop
<1>2. stream'[m] = stream[m]
  <2>1. CASE Publish
    BY <2>1, AppendKeeps DEF Publish, EventTypeOK, Messages
  <2>2. CASE UNCHANGED stream
    BY <2>2
  <2>3. Publish \/ UNCHANGED stream
    BY DEF EventNext, eventVars, redisVars, WorkerStep, IdlePasses, RemoveFile, Start,
       ReclaimDue, ReadGroup, ClaimStale, Process, ReadText, SaveEmbedding, DeadLetter, Ack,
       TickerFires, ReadFails, ClaimFails, Stop
  <2> QED BY <2>1, <2>2, <2>3
<1> QED BY <1>1, <1>2 DEF Settled

(* A step that leaves a worker alone leaves what is known of it alone.     *)
LEMMA OthersKeep ==
  ASSUME EventTypeOK, AcksFollowOutcome, [EventNext]_eventVars, NEW v \in Workers,
         wpc'[v] = wpc[v], batch'[v] = batch[v]
  PROVE  AckFollowsOutcome(v)'
<1>1. batch[v] \subseteq Messages
  BY HeldDelivered
<1>2. \A m \in batch[v] : (Settled(m) => Settled(m)') /\ stream'[m] = stream[m]
  BY <1>1, OutcomesStay
<1>3. \A m \in batch[v] : Current(v, m)' => Current(v, m)
  BY DEF Current
<1> QED BY <1>2, <1>3 DEF AcksFollowOutcome, AckFollowsOutcome

(* There is one current message.                                           *)
LEMMA CurrentUnique ==
  ASSUME EventTypeOK, NEW w \in Workers, NEW m \in batch[w], NEW k \in batch[w],
         Current(w, m), Current(w, k)
  PROVE  m = k
<1>1. m \in Nat /\ k \in Nat
  BY HeldDelivered DEF EventTypeOK
<1>2. m <= k /\ k <= m
  BY DEF Current
<1> QED BY <1>1, <1>2

(* A worker comes to acknowledge a message only through its outcome, and   *)
(* to save only for a text; no other worker can take that back.            *)
LEMMA AcksHold ==
  ASSUME EventTypeOK, AcksFollowOutcome, [EventNext]_eventVars
  PROVE  AcksFollowOutcome'
<1> SUFFICES ASSUME NEW v \in Workers PROVE AckFollowsOutcome(v)'
  BY DEF AcksFollowOutcome
<1> USE DEF redisVars, tableVars, workerVars
<1>0. AckFollowsOutcome(v) /\ wpc \in [Workers -> WorkerPCs] /\ batch \in [Workers -> SUBSET (1..read)]
  BY DEF AcksFollowOutcome, EventTypeOK
<1>1. CASE UNCHANGED <<wpc, batch>>
  BY <1>1, OthersKeep
<1>2. ASSUME NEW w \in Workers,
             WorkerStep(w) \/ ReadFails(w) \/ ClaimFails(w) \/ Stop(w)
      PROVE  AckFollowsOutcome(v)'
  <2>1. CASE v # w
    <3>1. wpc'[v] = wpc[v] /\ batch'[v] = batch[v]
      BY <1>2, <1>0, <2>1 DEF WorkerStep, Start, ReclaimDue, ReadGroup, ClaimStale, Process,
         ReadText, CallModel, HandlerSucceeds, HandlerFails, SaveEmbedding, DeadLetter, Ack, ReadFails, ClaimFails,
         Stop, Goto
    <3> QED BY <3>1, OthersKeep
  <2> SUFFICES ASSUME v = w PROVE AckFollowsOutcome(w)'
    BY <2>1
  <2>2. CASE Start(w) \/ ReclaimDue(w) \/ ReadGroup(w) \/ ClaimStale(w) \/ ReadFails(w)
             \/ ClaimFails(w) \/ Stop(w)
    <3>1. /\ wpc'[w] \in {"down", "loop", "claim", "read", "handle"}
          /\ wpc'[w] = "handle" <=> batch'[w] # {}
      BY <2>2, <1>0 DEF Start, ReclaimDue, ReadGroup, ClaimStale, ReadFails, ClaimFails, Stop,
         Goto, Reads, AckFollowsOutcome
    <3> QED BY <3>1 DEF AckFollowsOutcome
  <2>3. CASE Process(w) \/ ReadText(w) \/ SaveEmbedding(w) \/ DeadLetter(w)
    <3>1. PICK m \in batch[w] :
            /\ Current(w, m)
            /\ wpc'[w] \in {"handle", "list", "save", "letter", "ack"}
            /\ wpc'[w] = "ack" => stream[m] = "foreign" \/ m \in handled' \cup dead' \cup dropped'
            /\ wpc'[w] = "save" => stream[m] = "text"
      <4>1. CASE Process(w)
        BY <4>1, <1>0 DEF Process, HandlerFails, Goto
      <4>2. CASE SaveEmbedding(w)
        BY <4>2, <1>0 DEF SaveEmbedding, HandlerSucceeds, HandlerFails, Goto
      <4>3. CASE DeadLetter(w)
        BY <4>3, <1>0 DEF DeadLetter, Goto
      <4>4. CASE ReadText(w)
        BY <4>4, <1>0 DEF ReadText, CallModel, HandlerSucceeds, HandlerFails, Goto
      <4> QED BY <2>3, <4>1, <4>2, <4>3, <4>4
    <3>2. batch' = batch /\ stream' = stream
      BY <2>3 DEF Process, ReadText, SaveEmbedding, DeadLetter
    <3>3. \A k \in batch[w] : Current(w, k)' => k = m
      BY <3>1, <3>2, CurrentUnique DEF Current
    <3> QED BY <3>1, <3>2, <3>3 DEF AckFollowsOutcome, Settled
  <2>4. CASE Ack(w)
    <3>1. wpc'[w] \in {"handle", "loop", "read", "claim"} /\ (wpc'[w] = "handle" <=> batch'[w] # {})
      BY <2>4, <1>0 DEF Ack, Goto
    <3> QED BY <3>1 DEF AckFollowsOutcome
  <2> QED BY <1>2, <2>2, <2>3, <2>4 DEF WorkerStep
<1>3. CASE Publish \/ IdlePasses \/ (\E m \in Messages : RemoveFile(m))
           \/ (\E w \in Workers : TickerFires(w)) \/ UNCHANGED eventVars
  BY <1>3, <1>1 DEF Publish, IdlePasses, RemoveFile, TickerFires, eventVars
<1> QED BY <1>2, <1>3 DEF EventNext

(* A message leaves the pending list only through an XAck, and that one    *)
(* follows the message's outcome.                                          *)
LEMMA NothingForgotten ==
  ASSUME EventTypeOK, AcksFollowOutcome, NoEventForgotten, [EventNext]_eventVars
  PROVE  NoEventForgotten'
<1> USE DEF redisVars, tableVars, workerVars
<1> SUFFICES ASSUME NEW m \in 1..read' PROVE m \in pending' \/ Settled(m)'
  BY DEF NoEventForgotten
<1>1. CASE m \in 1..read
  <2>1. m \in Messages
    BY <1>1 DEF EventTypeOK, Messages
  <2>2. CASE Settled(m)
    BY <2>1, <2>2, OutcomesStay
  <2>3. CASE m \in pending /\ m \notin pending'
    <3>1. PICK w \in Workers : Ack(w)
      BY <2>3 DEF EventNext, eventVars, WorkerStep, Publish, IdlePasses, RemoveFile, Start,
         ReclaimDue, ReadGroup, Deliver, ClaimStale, Process, ReadText, SaveEmbedding, DeadLetter,
         TickerFires, ReadFails, ClaimFails, Stop
    <3>2. Current(w, m) /\ m \in batch[w] /\ wpc[w] = "ack"
      BY <2>3, <3>1 DEF Ack
    <3>3. Settled(m)
      BY <3>2 DEF AcksFollowOutcome, AckFollowsOutcome
    <3> QED BY <3>3, <2>1, OutcomesStay
  <2> QED BY <1>1, <2>2, <2>3 DEF NoEventForgotten
<1>2. CASE m \notin 1..read
  <2>1. read' # read
    BY <1>2
  <2>2. Deliver
    BY <2>1 DEF EventNext, eventVars, WorkerStep, Publish, IdlePasses, RemoveFile, Start,
       ReclaimDue, ReadGroup, ClaimStale, Process, ReadText, SaveEmbedding, DeadLetter, Ack,
       TickerFires, ReadFails, ClaimFails, Stop
  <2>3. read \in Nat /\ BatchEnd \in read..Len(stream) /\ NewMessages = (read + 1)..BatchEnd
    BY BatchBounds DEF EventTypeOK
  <2>4. m \in NewMessages
    BY <1>2, <2>2, <2>3 DEF Deliver
  <2> QED BY <2>2, <2>4 DEF Deliver
<1> QED BY <1>1, <1>2

(* At-least-once delivery, for any number of workers and messages: no      *)
(* delivered message leaves the pending list of the consumer group without *)
(* having been handled or given up, however deliveries overlap and         *)
(* whichever Redis call fails (Consume, handleMessageWithRetry,            *)
(* claimAndProcessStaleMessages).                                          *)
THEOREM DeliveryHolds == EventSpec => [](EventTypeOK /\ AcksFollowOutcome /\ NoEventForgotten)
<1>1. EventInit => DeliveryInv
  <2> SUFFICES ASSUME EventInit PROVE DeliveryInv
    OBVIOUS
  <2>1. EventTypeOK
    BY DEF EventInit, EventTypeOK, WorkerPCs, Messages
  <2>2. AcksFollowOutcome /\ NoEventForgotten
    BY DEF EventInit, AcksFollowOutcome, AckFollowsOutcome, NoEventForgotten
  <2> QED BY <2>1, <2>2 DEF DeliveryInv
<1>2. DeliveryInv /\ [EventNext]_eventVars => DeliveryInv'
  BY TypesHold, AcksHold, NothingForgotten DEF DeliveryInv
<1>3. DeliveryInv => EventTypeOK /\ AcksFollowOutcome /\ NoEventForgotten
  BY DEF DeliveryInv
<1> QED BY <1>1, <1>2, <1>3, PTL DEF EventSpec

(* Whatever is delivered twice or deleted meanwhile, a step keeps the      *)
(* summaries in line with what was handled.                                *)
LEMMA EnrichmentKept ==
  ASSUME DeliveryInv, HandledMeansEnriched, [EventNext]_eventVars
  PROVE  HandledMeansEnriched'
<1> USE DEF redisVars, tableVars, workerVars
<1>0. EventTypeOK /\ AcksFollowOutcome /\ handled \subseteq Messages /\ summaries \subseteq Messages
  BY DEF DeliveryInv, EventTypeOK
<1>1. CASE Publish
  <2>1. stream \in Seq(Kinds) /\ Len(stream) \in Nat
    BY <1>0 DEF EventTypeOK
  <2>2. Len(stream) + 1 \notin Messages
    BY <2>1 DEF Messages
  <2>3. UNCHANGED <<handled, summaries, missed>> /\ present \subseteq present'
    BY <1>1 DEF Publish
  <2>4. \A m \in Messages : (m \in present' => m \in present) /\ stream'[m] = stream[m]
    BY <1>0, <1>1, <2>2, OutcomesStay DEF Publish
  <2> QED BY <1>0, <2>3, <2>4 DEF HandledMeansEnriched
<1>2. CASE \E m \in Messages : RemoveFile(m)
  BY <1>2 DEF RemoveFile, HandledMeansEnriched
<1>3. ASSUME NEW w \in Workers, ReadText(w) PROVE HandledMeansEnriched'
  <2>1. UNCHANGED <<stream, present, summaries>> /\ handled \subseteq handled'
    BY <1>3 DEF ReadText, HandlerSucceeds
  <2>2. PICK m \in batch[w] :
          \/ UNCHANGED <<handled, missed>>
          \/ stream[m] = "skip" /\ handled' = handled \cup {m} /\ UNCHANGED missed
          \/ stream[m] = "text" /\ handled' = handled \cup {m} /\ NoChunks(m)
    BY <1>3 DEF ReadText, HandlerSucceeds
  <2>3. CASE UNCHANGED <<handled, missed>>
    BY <2>1, <2>3 DEF HandledMeansEnriched
  <2>4. CASE stream[m] = "skip" /\ handled' = handled \cup {m} /\ UNCHANGED missed
    BY <2>1, <2>4 DEF HandledMeansEnriched
  <2>5. CASE handled' = handled \cup {m} /\ NoChunks(m)
    BY <2>1, <2>5 DEF HandledMeansEnriched, NoChunks
  <2> QED BY <2>2, <2>3, <2>4, <2>5
<1>4. ASSUME NEW w \in Workers, SaveEmbedding(w) PROVE HandledMeansEnriched'
  <2>1. UNCHANGED <<stream, present>> /\ handled \subseteq handled'
    BY <1>4 DEF SaveEmbedding, HandlerSucceeds
  <2>2. PICK m \in batch[w] :
          /\ Current(w, m)
          /\ WriteSummary(m) \/ UNCHANGED <<summaries, missed>>
          /\ handled' = handled \/ (WriteSummary(m) /\ handled' = handled \cup {m})
    BY <1>4 DEF SaveEmbedding, HandlerSucceeds
  <2>3. stream[m] = "text"
    BY <1>4, <1>0, <2>2 DEF SaveEmbedding, AcksFollowOutcome, AckFollowsOutcome
  <2>4. CASE WriteSummary(m)
    BY <2>1, <2>2, <2>3, <2>4 DEF HandledMeansEnriched, WriteSummary, ForeignKey
  <2>5. CASE UNCHANGED <<summaries, missed, handled>>
    BY <2>1, <2>5 DEF HandledMeansEnriched
  <2> QED BY <2>2, <2>4, <2>5
<1>5. CASE UNCHANGED <<stream, present, summaries, handled, missed>>
  BY <1>5 DEF HandledMeansEnriched
<1>6. \/ Publish \/ (\E m \in Messages : RemoveFile(m))
      \/ (\E w \in Workers : ReadText(w) \/ SaveEmbedding(w))
      \/ UNCHANGED <<stream, present, summaries, handled, missed>>
  BY DEF EventNext, eventVars, WorkerStep, IdlePasses, Start, ReclaimDue, ReadGroup,
     ClaimStale, Process, DeadLetter, Ack, TickerFires, ReadFails, ClaimFails, Stop
<1> QED BY <1>1, <1>2, <1>3, <1>4, <1>5, <1>6

(* A text file whose event was handled has its summary for as long as it   *)
(* exists, unless GetFileChunks broke off and ProcessFileUploaded took the *)
(* file for an empty one; and no file that is gone or is not text has one  *)
(* (DownloadFileInternal, ProcessFileUploaded, SaveEmbedding and the       *)
(* foreign key of file_embeddings).                                        *)
THEOREM EnrichmentHolds == EventSpec => []HandledMeansEnriched
<1>1. EventInit => HandledMeansEnriched
  BY DEF EventInit, HandledMeansEnriched
<1>2. DeliveryInv /\ HandledMeansEnriched /\ [EventNext]_eventVars => HandledMeansEnriched'
  BY EnrichmentKept
<1>3. EventSpec => []DeliveryInv
  BY DeliveryHolds, PTL DEF DeliveryInv
<1> QED BY <1>1, <1>2, <1>3, PTL DEF EventSpec
=============================================================================
