---------------------------- MODULE EventStream ----------------------------
(***************************************************************************)
(* The path of a file_uploaded event: the Redis stream and its consumer    *)
(* group, the workers' Consume loop with its retries, dead letters and     *)
(* reclaiming of stale entries, and the enrichment each delivery asks for. *)
(* A message names the file it is about by its own number: an upload       *)
(* publishes at most one.                                                  *)
(***************************************************************************)
EXTENDS Naturals, Sequences, FiniteSets

CONSTANTS Workers,         \* worker processes
          MaxMessages,     \* bound on the length of the stream
          BatchSize,       \* readBatchSize
          ClaimCount,      \* Count of XAutoClaim
          ScanLimit,       \* entries one XAUTOCLAIM looks at (ten times its count)
          MaxRetries,      \* maxRetries of handleMessageWithRetry
          MaxReadFailures, \* maxConsumeFailures
          MaxFaults        \* bound on Redis errors and stops of workers

ASSUME LimitsAssumption ==
  /\ MaxMessages \in Nat
  /\ BatchSize \in Nat \ {0}
  /\ ClaimCount \in Nat \ {0}
  /\ ScanLimit \in Nat \ {0}
  /\ MaxRetries \in Nat \ {0}
  /\ MaxReadFailures \in Nat \ {0}
  /\ MaxFaults \in Nat

VARIABLES
  \* Redis
  stream,    \* stream[m]: what message m is about
  read,      \* the group's last delivered id
  pending,   \* the pending entries list
  overdue,   \* pending entries idle for more than five minutes
  dead,      \* messages in nimbus:dead-letters
  \* PostgreSQL
  present,   \* files that have not been deleted
  summaries, \* files with a row in file_embeddings
  \* a worker
  wpc,       \* where its Consume loop is
  batch,     \* messages it still has to handle, lowest first
  cursor,    \* where the next XAutoClaim starts, PassOver after the last; 0: not in a pass
  tries,     \* failed calls of the handler for the first message of the batch
  failures,  \* consecutiveFailures
  due,       \* the reclaim ticker has fired
  faults,
  \* history
  handled,   \* messages for which the handler returned nil
  dropped,   \* messages given up without a dead letter
  missed     \* files passed over as empty by a broken read, and not summarised since

redisVars == <<stream, read, pending, overdue, dead>>
tableVars == <<present, summaries>>
workerVars == <<wpc, batch, cursor, tries, failures, due>>
eventVars == <<redisVars, tableVars, workerVars, faults, handled, dropped, missed>>

Kinds == {"text",    \* a file worth summarising
          "skip",    \* a file that is blank or not text
          "foreign"} \* another event type, or no file id
WorkerPCs == {"down", "loop", "claim", "read", "handle", "list", "save", "letter", "ack"}
PassOver == MaxMessages + 1
Messages == 1..Len(stream)

EventTypeOK ==
  /\ stream \in Seq(Kinds)
  /\ read \in 0..Len(stream)
  /\ pending \subseteq 1..read
  /\ overdue \subseteq pending
  /\ dead \subseteq Messages
  /\ present \subseteq Messages
  /\ summaries \subseteq Messages
  /\ wpc \in [Workers -> WorkerPCs]
  /\ batch \in [Workers -> SUBSET (1..read)]
  /\ cursor \in [Workers -> Nat]
  /\ tries \in [Workers -> 0..(MaxRetries - 1)]
  /\ failures \in [Workers -> 0..(MaxReadFailures - 1)]
  /\ due \in [Workers -> BOOLEAN]
  /\ faults \in 0..MaxFaults
  /\ handled \subseteq Messages
  /\ dropped \subseteq Messages
  /\ missed \subseteq Messages

EventInit ==
  /\ stream = << >> /\ read = 0
  /\ pending = {} /\ overdue = {} /\ dead = {}
  /\ present = {} /\ summaries = {}
  /\ wpc = [w \in Workers |-> "down"]
  /\ batch = [w \in Workers |-> {}]
  /\ cursor = [w \in Workers |-> 0]
  /\ tries = [w \in Workers |-> 0]
  /\ failures = [w \in Workers |-> 0]
  /\ due = [w \in Workers |-> FALSE]
  /\ faults = 0
  /\ handled = {} /\ dropped = {} /\ missed = {}

Fault == faults < MaxFaults /\ faults' = faults + 1

Goto(w, next) == wpc' = [wpc EXCEPT ![w] = next]

-----------------------------------------------------------------------------
(* The API and the clock.                                                  *)

(* PublishFileUploaded.  The file may be gone already: UploadFile does not *)
(* notice that its row was deleted while it ran.                           *)
Publish ==
  /\ Len(stream) < MaxMessages
  /\ \E k \in Kinds : stream' = Append(stream, k)
  /\ \/ present' = present \cup {Len(stream) + 1}
     \/ UNCHANGED present
  /\ UNCHANGED <<read, pending, overdue, dead, summaries, workerVars, faults,
                 handled, dropped, missed>>

(* The owner deletes the file; its summary goes with it.                   *)
RemoveFile(m) ==
  /\ m \in present
  /\ present' = present \ {m}
  /\ summaries' = summaries \ {m}
  /\ missed' = missed \ {m}
  /\ UNCHANGED <<redisVars, workerVars, faults, handled, dropped>>

(* Five minutes go by, in which a worker may still be busy with an entry.  *)
IdlePasses ==
  /\ overdue' = pending
  /\ UNCHANGED <<stream, read, pending, dead, tableVars, workerVars, faults,
                 handled, dropped, missed>>

-----------------------------------------------------------------------------
(* The Consume loop.                                                       *)

(* A worker starts, under a consumer name of its own, and reclaims first.  *)
Start(w) ==
  /\ wpc[w] = "down"
  /\ Goto(w, "claim")
  /\ cursor' = [cursor EXCEPT ![w] = 0]
  /\ tries' = [tries EXCEPT ![w] = 0]
  /\ failures' = [failures EXCEPT ![w] = 0]
  /\ due' = [due EXCEPT ![w] = FALSE]
  /\ UNCHANGED <<redisVars, tableVars, batch, faults, handled, dropped, missed>>

(* Three minutes go by.  The ticker holds at most one tick.                *)
TickerFires(w) ==
  /\ wpc[w] # "down"
  /\ due' = [due EXCEPT ![w] = TRUE]
  /\ UNCHANGED <<redisVars, tableVars, wpc, batch, cursor, tries, failures, faults,
                 handled, dropped, missed>>

(* Faulty variant: only a start reclaims.                                  *)
IgnoreTick(w) ==
  /\ wpc[w] = "loop" /\ due[w]
  /\ Goto(w, "read")
  /\ due' = [due EXCEPT ![w] = FALSE]
  /\ UNCHANGED <<redisVars, tableVars, batch, cursor, tries, failures, faults,
                 handled, dropped, missed>>

(* The tick is looked at at the head of the loop; a read always follows.   *)
ReclaimDue(w) ==
  /\ wpc[w] = "loop" /\ due[w]
  /\ Goto(w, "claim")
  /\ cursor' = [cursor EXCEPT ![w] = 0]
  /\ due' = [due EXCEPT ![w] = FALSE]
  /\ UNCHANGED <<redisVars, tableVars, batch, tries, failures, faults,
                 handled, dropped, missed>>

(* The last message a read delivers.                                       *)
BatchEnd == IF read + BatchSize < Len(stream) THEN read + BatchSize ELSE Len(stream)

(* Faulty variant: the first message after the last delivered one is lost. *)
MissFirst == (read + 2)..BatchEnd

(* What XREADGROUP delivers: the messages after the last delivered one.    *)
NewMessages == (read + 1)..BatchEnd

Deliver == read' = BatchEnd /\ pending' = pending \cup NewMessages

Reads(w) == wpc[w] = "read" \/ (wpc[w] = "loop" /\ ~due[w])

ReadGroup(w) ==
  /\ Reads(w)
  /\ failures' = [failures EXCEPT ![w] = 0]
  /\ Deliver
  /\ batch' = [batch EXCEPT ![w] = NewMessages]
  /\ cursor' = [cursor EXCEPT ![w] = 0]
  /\ Goto(w, IF NewMessages = {} THEN "loop" ELSE "handle")
  /\ UNCHANGED <<stream, overdue, dead, tableVars, tries, due, faults,
                 handled, dropped, missed>>

(* A failed read, which may have delivered messages nobody received.  The  *)
(* worker backs off, and exits after too many failures in a row.           *)
ReadFails(w) ==
  /\ Reads(w)
  /\ Fault
  /\ Deliver \/ UNCHANGED <<read, pending>>
  /\ \/ /\ failures[w] + 1 < MaxReadFailures
        /\ failures' = [failures EXCEPT ![w] = @ + 1]
        /\ Goto(w, "loop")
     \/ /\ failures[w] + 1 >= MaxReadFailures
        /\ Goto(w, "down")
        /\ UNCHANGED failures
  /\ UNCHANGED <<stream, overdue, dead, tableVars, batch, cursor, tries, due,
                 handled, dropped, missed>>

(* One XAUTOCLAIM from c: the entries it looks at, the ones it takes and   *)
(* where the next one starts.                                              *)
Scanned(c) ==
  {m \in pending :
     /\ m >= c
     /\ Cardinality({k \in pending : c <= k /\ k < m}) < ScanLimit
     /\ Cardinality({k \in overdue : c <= k /\ k < m}) < ClaimCount}
Claimed(c) == Scanned(c) \cap overdue
Unscanned(c) == {m \in pending : m >= c /\ m \notin Scanned(c)}
NextStart(c, n) ==
  \/ Unscanned(c) = {} /\ n = PassOver
  \/ n \in Unscanned(c) /\ \A k \in Unscanned(c) : n <= k

(* A round of claimAndProcessStaleMessages: a round without messages ends  *)
(* the pass, even before the end of the list.                              *)
ClaimStale(w) ==
  /\ wpc[w] = "claim"
  /\ overdue' = overdue \ Claimed(cursor[w])
  /\ batch' = [batch EXCEPT ![w] = Claimed(cursor[w])]
  /\ \/ /\ Claimed(cursor[w]) # {}
        /\ \E n \in pending \cup {PassOver} :
             NextStart(cursor[w], n) /\ cursor' = [cursor EXCEPT ![w] = n]
        /\ Goto(w, "handle")
     \/ /\ Claimed(cursor[w]) = {}
        /\ cursor' = [cursor EXCEPT ![w] = 0]
        /\ Goto(w, "read")
  /\ UNCHANGED <<stream, read, pending, dead, tableVars, tries, failures, due, faults,
                 handled, dropped, missed>>

(* A failed XAUTOCLAIM ends the pass; it may have reset the idle times.    *)
ClaimFails(w) ==
  /\ wpc[w] = "claim"
  /\ Fault
  /\ overdue' \in {overdue, overdue \ Claimed(cursor[w])}
  /\ cursor' = [cursor EXCEPT ![w] = 0]
  /\ Goto(w, "read")
  /\ UNCHANGED <<stream, read, pending, dead, tableVars, batch, tries, failures, due,
                 handled, dropped, missed>>

-----------------------------------------------------------------------------
(* handleMessageWithRetry and the processor.                               *)

(* m is the message the worker is busy with.                               *)
Current(w, m) == m \in batch[w] /\ \A k \in batch[w] : m <= k

(* Faulty variants: a failed message is acknowledged; one call too many.   *)
GiveUp(w) == Goto(w, "ack") /\ UNCHANGED tries
OneMoreTry(w) ==
  \/ tries[w] + 1 <= MaxRetries /\ tries' = [tries EXCEPT ![w] = @ + 1] /\ Goto(w, "handle")
  \/ tries[w] + 1 > MaxRetries /\ UNCHANGED tries /\ Goto(w, "letter")

(* The handler returned an error: back off and call it again, or dead-     *)
(* letter the message.                                                     *)
HandlerFails(w) ==
  \/ /\ tries[w] + 1 < MaxRetries
     /\ tries' = [tries EXCEPT ![w] = @ + 1]
     /\ Goto(w, "handle")
  \/ /\ tries[w] + 1 >= MaxRetries
     /\ UNCHANGED tries
     /\ Goto(w, "letter")

(* The handler returned nil.                                               *)
HandlerSucceeds(w, m) == handled' = handled \cup {m} /\ Goto(w, "ack")

(* GenerateAndSaveEmbedding up to its write: an answer that is JSON will   *)
(* be saved; no key, a failed call or any other answer is an error.        *)
CallModel(w) == (Goto(w, "save") /\ UNCHANGED tries) \/ HandlerFails(w)

(* A delivery: a foreign message is only acknowledged.  For a file, the    *)
(* GetFileInfo of DownloadFileInternal, which fails when the file is gone. *)
Process(w) ==
  /\ wpc[w] = "handle"
  /\ \E m \in batch[w] :
       /\ Current(w, m)
       /\ \/ stream[m] = "foreign" /\ Goto(w, "ack") /\ UNCHANGED tries
          \/ stream[m] # "foreign" /\ HandlerFails(w)
          \/ /\ stream[m] # "foreign" /\ m \in present
             /\ Goto(w, "list") /\ UNCHANGED tries
  /\ UNCHANGED <<redisVars, tableVars, batch, cursor, failures, due, faults, handled, dropped,
                 missed>>

(* GetFileChunks returned no rows: the file was deleted since GetFileInfo, *)
(* or the read broke, which nobody asks rows.Err() about.  Breaking later  *)
(* changes nothing, since the first chunk holds all that is read.          *)
NoChunks(m) ==
  \/ m \notin present /\ UNCHANGED missed
  \/ m \in present /\ missed' = missed \cup ({m} \ summaries)

(* GetFileChunks and the rest of ProcessFileUploaded up to the write: what *)
(* is not text, and a text without content, is done without a summary.     *)
ReadText(w) ==
  /\ wpc[w] = "list"
  /\ \E m \in batch[w] :
       /\ Current(w, m)
       /\ \/ HandlerFails(w) /\ UNCHANGED <<handled, missed>>
          \/ stream[m] = "skip" /\ HandlerSucceeds(w, m) /\ UNCHANGED <<tries, missed>>
          \/ /\ stream[m] = "text"
             /\ NoChunks(m) /\ HandlerSucceeds(w, m) /\ UNCHANGED tries
          \/ /\ stream[m] = "text" /\ m \in present
             /\ CallModel(w) /\ UNCHANGED <<handled, missed>>
  /\ UNCHANGED <<redisVars, tableVars, batch, cursor, failures, due, faults, dropped>>

(* Faulty variant: the table has no foreign key.                           *)
NoForeignKey(m) == TRUE

(* file_embeddings.file_id references a file.                              *)
ForeignKey(m) == m \in present

(* The upsert of a summary.                                                *)
WriteSummary(m) ==
  /\ ForeignKey(m)
  /\ summaries' = summaries \cup {m}
  /\ missed' = missed \ {m}

(* Faulty variant: the error of the write is not returned.                 *)
SaveQuietly(w) ==
  /\ wpc[w] = "save"
  /\ \E m \in batch[w] :
       /\ Current(w, m)
       /\ WriteSummary(m) \/ UNCHANGED <<summaries, missed>>
       /\ HandlerSucceeds(w, m) /\ UNCHANGED tries
  /\ UNCHANGED <<redisVars, present, batch, cursor, failures, due, faults, dropped>>

(* SaveEmbedding; its foreign key fails when the file was deleted          *)
(* meanwhile, and an error may hide the write.                             *)
SaveEmbedding(w) ==
  /\ wpc[w] = "save"
  /\ \E m \in batch[w] :
       /\ Current(w, m)
       /\ \/ WriteSummary(m) /\ HandlerSucceeds(w, m) /\ UNCHANGED tries
          \/ /\ WriteSummary(m) \/ UNCHANGED <<summaries, missed>>
             /\ HandlerFails(w) /\ UNCHANGED handled
  /\ UNCHANGED <<redisVars, present, batch, cursor, failures, due, faults, dropped>>

(* XAdd to nimbus:dead-letters.  Its error is not looked at.               *)
DeadLetter(w) ==
  /\ wpc[w] = "letter"
  /\ \E m \in batch[w] :
       /\ Current(w, m)
       /\ \/ dead' = dead \cup {m} /\ UNCHANGED <<faults, dropped>>
          \/ Fault /\ dropped' = dropped \cup {m} /\ UNCHANGED dead
  /\ Goto(w, "ack")
  /\ UNCHANGED <<stream, read, pending, overdue, tableVars, batch, cursor, tries, failures, due,
                 handled, missed>>

(* XAck, whose error is not looked at either: the entry stays pending.     *)
(* Then the next message, the next claim or the next read.                 *)
Ack(w) ==
  /\ wpc[w] = "ack"
  /\ \E m \in batch[w] :
       /\ Current(w, m)
       /\ \/ /\ pending' = pending \ {m}
             /\ overdue' = overdue \ {m}
             /\ UNCHANGED faults
          \/ Fault /\ UNCHANGED <<pending, overdue>>
       /\ batch' = [batch EXCEPT ![w] = @ \ {m}]
  /\ tries' = [tries EXCEPT ![w] = 0]
  /\ Goto(w, CASE batch'[w] # {} -> "handle"
               [] batch'[w] = {} /\ cursor[w] = 0 -> "loop"
               [] batch'[w] = {} /\ cursor[w] = PassOver -> "read"
               [] OTHER -> "claim")
  /\ UNCHANGED <<stream, read, dead, tableVars, cursor, failures, due,
                 handled, dropped, missed>>

(* The worker crashes, or its context is cancelled: every call fails from  *)
(* then on and the messages it holds stay unacknowledged.                  *)
Stop(w) ==
  /\ wpc[w] # "down"
  /\ Fault
  /\ Goto(w, "down")
  /\ batch' = [batch EXCEPT ![w] = {}]
  /\ UNCHANGED <<redisVars, tableVars, cursor, tries, failures, due, handled, dropped, missed>>

WorkerStep(w) ==
  \/ Start(w) \/ ReclaimDue(w) \/ ReadGroup(w) \/ ClaimStale(w)
  \/ Process(w) \/ ReadText(w) \/ SaveEmbedding(w) \/ DeadLetter(w) \/ Ack(w)

EventNext ==
  \/ Publish \/ IdlePasses
  \/ \E m \in Messages : RemoveFile(m)
  \/ \E w \in Workers :
       WorkerStep(w) \/ TickerFires(w) \/ ReadFails(w) \/ ClaimFails(w) \/ Stop(w)

EventSpec == EventInit /\ [][EventNext]_eventVars

(* A call that can return does, a stopped worker is started again, and     *)
(* time passes.  Nothing has to be published and nothing has to fail.      *)
EventFairness ==
  /\ WF_eventVars(IdlePasses)
  /\ \A w \in Workers : WF_eventVars(WorkerStep(w)) /\ WF_eventVars(TickerFires(w))

FairEventSpec == EventSpec /\ EventFairness

-----------------------------------------------------------------------------
(* Properties.                                                             *)

(* What became of a message that is no longer pending.                     *)
Settled(m) == stream[m] = "foreign" \/ m \in handled \cup dead \cup dropped

(* At-least-once delivery: whatever crashes, is claimed twice or loses an  *)
(* answer, a message leaves the pending list only after its handler        *)
(* succeeded or its dead letter was attempted.                             *)
NoEventForgotten == \A m \in 1..read : m \in pending \/ Settled(m)

(* The part of one worker.                                                 *)
AckFollowsOutcome(w) ==
  /\ wpc[w] \in {"handle", "list", "save", "letter", "ack"} <=> batch[w] # {}
  /\ \A m \in batch[w] : Current(w, m) =>
       /\ wpc[w] = "ack" => Settled(m)
       /\ wpc[w] = "save" => stream[m] = "text"

(* What makes the two properties inductive: whatever other workers claim,  *)
(* handle or acknowledge meanwhile, a worker acknowledges a settled        *)
(* message and saves a summary of a text.                                  *)
AcksFollowOutcome == \A w \in Workers : AckFollowsOutcome(w)

(* "If processing fails after 3 exponential backoff retry cycles, the      *)
(* message is acknowledged on the main channel and routed to a Dead-Letter *)
(* Stream": a message that was neither handled nor dead-lettered is still  *)
(* to be delivered or pending.                                             *)
EveryFailureIsDeadLettered ==
  \A m \in 1..read : m \in pending \/ stream[m] = "foreign" \/ m \in handled \cup dead

(* Once the handler has succeeded for a text file, the file has a summary  *)
(* for as long as it exists, whatever later deliveries of the same event   *)
(* do, unless a chunk list whose read broke passed for an empty file; and  *)
(* only text files that exist have one.                                    *)
HandledMeansEnriched ==
  /\ \A m \in handled : stream[m] = "text" /\ m \in present => m \in summaries \cup missed
  /\ \A m \in summaries : stream[m] = "text" /\ m \in present
  /\ \A m \in missed : m \in handled /\ m \in present /\ m \notin summaries

(* Every event is delivered and leaves the pending list, although reads    *)
(* lose answers, workers stop, and a claim pass may end early.             *)
EventsSettle ==
  \A m \in 1..MaxMessages :
    (m \in Messages) ~> (m <= read /\ m \notin pending)
=============================================================================
