----------------------------- MODULE AuditQueue -----------------------------
(***************************************************************************)
(* The audit write queue, src/database/audit-write-queue.ts: jobs that the *)
(* proxies hand over are written to the database by one consumer, a batch  *)
(* at a time; the shutdown hook flushes what is queued, beside it.  Jobs   *)
(* are numbered in the order in which they are handed over.                *)
(***************************************************************************)
EXTENDS Integers, FiniteSets, Sequences, SequencesExt

CONSTANTS
  MaxQueue,     \* MASTYF_AI_AUDIT_QUEUE_MAX
  BatchSize,    \* MASTYF_AI_AUDIT_QUEUE_BATCH
  Costed,       \* jobs with a cost record
  LastJob,      \* bound: jobs
  MaxFailures   \* bound: writes that fail

VARIABLES
  handed,       \* the jobs handed over so far
  queue,
  draining, immediate,
  batch,        \* the rest of each consumer's batch, with the awaited write
  calls, costs, \* what the database holds, the calls in order
  accepted, failed,
  closing,      \* of the process: "no", "flushing", "flushed" or "exited"
  late          \* history: jobs accepted after the flush returned

vars == <<handed, queue, draining, immediate, batch, calls, costs, accepted,
          failed, closing, late>>

JobNumbers == 1..LastJob
Consumers == {"drain", "flush"}
Idle == [jobs |-> << >>, writing |-> "nothing"]

TypeOK ==
  /\ handed \in 0..LastJob
  /\ queue \in Seq(JobNumbers) /\ Len(queue) <= MaxQueue
  /\ draining \in BOOLEAN /\ immediate \in BOOLEAN
  /\ batch \in [Consumers -> [jobs : Seq(JobNumbers), writing : {"nothing", "call", "cost"}]]
  /\ \A c \in Consumers : batch[c].writing = "nothing" <=> batch[c].jobs = << >>
  /\ calls \in Seq(JobNumbers) /\ costs \subseteq JobNumbers
  /\ accepted \subseteq JobNumbers /\ failed \subseteq JobNumbers /\ late \subseteq accepted
  /\ closing \in {"no", "flushing", "flushed", "exited"}

Init ==
  /\ handed = 0 /\ queue = << >>
  /\ draining = FALSE /\ immediate = FALSE
  /\ batch = [c \in Consumers |-> Idle]
  /\ calls = << >> /\ costs = {} /\ accepted = {} /\ failed = {} /\ late = {}
  /\ closing = "no"

-----------------------------------------------------------------------------
ScheduleDrain ==
  IF draining THEN UNCHANGED <<draining, immediate>>
  ELSE draining' = TRUE /\ immediate' = TRUE

Enqueue ==
  LET job == handed + 1
  IN  /\ closing # "exited" /\ handed < LastJob /\ handed' = job
      /\ IF Len(queue) >= MaxQueue
         THEN UNCHANGED <<queue, accepted, late, draining, immediate>>
         ELSE /\ queue' = Append(queue, job)
              /\ accepted' = accepted \cup {job}
              /\ late' = IF closing = "flushed" THEN late \cup {job} ELSE late
              /\ ScheduleDrain
      /\ UNCHANGED <<batch, calls, costs, failed, closing>>

BatchLength == IF Len(queue) < BatchSize THEN Len(queue) ELSE BatchSize
NextBatch == [jobs |-> SubSeq(queue, 1, BatchLength), writing |-> "call"]

\* Fault: the last job of the batch stays in the queue.
UnbatchedShort == SubSeq(queue, BatchLength, Len(queue))

Unbatched == SubSeq(queue, BatchLength + 1, Len(queue))

\* The scheduled drainBatch; nothing is left if a flush came first.
Drain ==
  /\ immediate /\ immediate' = FALSE /\ closing # "exited"
  /\ IF queue = << >>
     THEN draining' = FALSE /\ UNCHANGED <<queue, batch>>
     ELSE /\ batch' = [batch EXCEPT !["drain"] = NextBatch]
          /\ queue' = Unbatched
          /\ UNCHANGED draining
  /\ UNCHANGED <<handed, calls, costs, accepted, failed, closing, late>>

\* Fault: what was queued during the batch waits for the next job.
DrainOverIdle ==
  /\ draining' = FALSE /\ immediate' = FALSE
  /\ batch' = [batch EXCEPT !["drain"] = Idle]
  /\ UNCHANGED <<queue, closing>>

\* The drain's batch is written: it schedules the next one.
DrainOver ==
  /\ draining' = (queue # << >>) /\ immediate' = (queue # << >>)
  /\ batch' = [batch EXCEPT !["drain"] = Idle]
  /\ UNCHANGED <<queue, closing>>

\* The flush's batch is written: it takes the next one, or returns.
FlushOver ==
  /\ IF queue = << >>
     THEN batch' = [batch EXCEPT !["flush"] = Idle] /\ closing' = "flushed" /\ UNCHANGED queue
     ELSE batch' = [batch EXCEPT !["flush"] = NextBatch] /\ queue' = Unbatched /\ UNCHANGED closing
  /\ UNCHANGED <<draining, immediate>>

\* The consumer is through with a job.
JobOver(c) ==
  IF Len(batch[c].jobs) > 1
  THEN /\ batch' = [batch EXCEPT ![c] = [jobs |-> Tail(batch[c].jobs), writing |-> "call"]]
       /\ UNCHANGED <<queue, draining, immediate, closing>>
  ELSE IF c = "drain" THEN DrainOver ELSE FlushOver

AddCallRecord(c) ==
  LET job == Head(batch[c].jobs)
  IN  /\ batch[c].writing = "call" /\ closing # "exited"
      /\ calls' = Append(calls, job)
      /\ IF job \in Costed
         THEN /\ batch' = [batch EXCEPT ![c] = [jobs |-> batch[c].jobs, writing |-> "cost"]]
              /\ UNCHANGED <<queue, draining, immediate, closing>>
         ELSE JobOver(c)
      /\ UNCHANGED <<handed, costs, accepted, failed, late>>

AddCostRecord(c) ==
  /\ batch[c].writing = "cost" /\ closing # "exited"
  /\ costs' = costs \cup {Head(batch[c].jobs)}
  /\ JobOver(c)
  /\ UNCHANGED <<handed, calls, accepted, failed, late>>

\* A write throws: what is left of the job is given up, with a warning.
WriteFails(c) ==
  /\ batch[c].writing # "nothing" /\ closing # "exited"
  /\ Cardinality(failed) < MaxFailures
  /\ failed' = failed \cup {Head(batch[c].jobs)}
  /\ JobOver(c)
  /\ UNCHANGED <<handed, calls, costs, accepted, late>>

\* Fault: the hook does not flush.
ShutdownAtOnce ==
  /\ closing = "no"
  /\ closing' = "flushed"
  /\ UNCHANGED <<handed, queue, draining, immediate, batch, calls, costs, accepted, failed, late>>

\* The hook flushes what is queued, whatever the drain is writing.
Shutdown ==
  /\ closing = "no"
  /\ IF queue = << >>
     THEN closing' = "flushed" /\ UNCHANGED <<queue, batch>>
     ELSE /\ closing' = "flushing"
          /\ batch' = [batch EXCEPT !["flush"] = NextBatch]
          /\ queue' = Unbatched
  /\ UNCHANGED <<handed, draining, immediate, calls, costs, accepted, failed, late>>

\* The last hook has run.
Exit ==
  /\ closing = "flushed" /\ closing' = "exited"
  /\ UNCHANGED <<handed, queue, draining, immediate, batch, calls, costs, accepted, failed, late>>

WriteJob(c) == AddCallRecord(c) \/ AddCostRecord(c) \/ WriteFails(c)

Next ==
  \/ Enqueue \/ Drain \/ Shutdown \/ Exit
  \/ \E c \in Consumers : WriteJob(c)

Spec == Init /\ [][Next]_vars

\* The event loop runs the scheduled drain, and the database answers.
Fairness == WF_vars(Drain) /\ \A c \in Consumers : WF_vars(WriteJob(c))

-----------------------------------------------------------------------------
Written == ToSet(calls) \cup failed

(* "Single-writer discipline" (audit-write-queue.ts:3): until the process   *)
(* is shut down, calls are written in the order in which they were accepted *)
(* and none twice, however jobs, batches and failures fall together.        *)
WrittenInOrder ==
  closing = "no" => \A i, j \in DOMAIN calls : i < j => calls[i] < calls[j]

(* At the exit an accepted job is written, or has failed, or was accepted   *)
(* after the flush, or is in the one batch that the drain has taken.        *)
ExitLosesOneBatch ==
  closing = "exited" =>
    /\ accepted \subseteq Written \cup late \cup ToSet(batch["drain"].jobs)
    /\ Len(batch["drain"].jobs) <= BatchSize

(* A job that was accepted is written in the end, or its write has failed,  *)
(* unless the process exits: jobs never wait for another job to come.       *)
AllWritten == accepted \subseteq Written \/ closing = "exited"
AcceptedIsWritten == []<>AllWritten
=============================================================================
