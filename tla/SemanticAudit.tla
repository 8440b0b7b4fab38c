---------------------------- MODULE SemanticAudit ----------------------------
(***************************************************************************)
(* The asynchronous semantic audit, ai/async-semantic-audit.ts, with the   *)
(* two things that bound it: the slots that all processes count in Redis,  *)
(* utils/redis-semantic-queue.ts, and the circuit breaker that each        *)
(* process keeps for a tenant's language model,                            *)
(* ai/semantic-circuit-breaker.ts.  A job is one call to be audited.       *)
(***************************************************************************)
EXTENDS Integers, FiniteSets, Sequences

CONSTANTS
  Processes, Jobs,
  Global,       \* the key of the global count, and the tenant of a job without one
  TenantOf,     \* [Jobs -> tenants and Global]
  SlotMax, TenantMax, \* semanticQueueMax, semanticPerTenantMax
  DepthMax,     \* MASTYF_AI_SEMANTIC_ASYNC_MAX_QUEUE of the queue itself
  Concurrency,  \* MASTYF_AI_SEMANTIC_CONCURRENCY
  Threshold,    \* failureThreshold
  MaxFaults     \* bound: Redis calls that fail and crashes

VARIABLES
  mode,         \* of each process: "local", "redis", or "strict" (STRICT_MODE)
  slots,        \* the counts in Redis
  at, step,     \* each job's process, and how far it is
  queue, batch, \* of each process; the jobs of the current chunk have left batch
  timer, processing,
  circuit,      \* of each process and tenant
  faults,
  leaked,       \* history: slots whose holder is gone and that nobody gives back
  miscounted    \* history: a failed acquire has let its job pass uncounted

vars == <<mode, slots, at, step, queue, batch, timer, processing, circuit,
          faults, leaked, miscounted>>

Tenants == {TenantOf[j] : j \in Jobs}
Keys == Tenants \cup {Global}
KeysOf(j) == {Global, TenantOf[j]}
Limit(k) == IF k = Global THEN SlotMax ELSE TenantMax
Fresh == [state |-> "closed", failures |-> 0, probe |-> FALSE, due |-> FALSE]

Running == {"asking", "calling", "releasing"}
Holds(j) == step[j] \in Running \cup {"queued"} /\ mode[at[j]] # "local"
Holders(k) == {j \in Jobs : Holds(j) /\ k \in KeysOf(j)}

TypeOK ==
  /\ mode \in [Processes -> {"local", "redis", "strict"}]
  /\ slots \in [Keys -> Nat] /\ leaked \in [Keys -> Nat]
  /\ at \in [Jobs -> Processes]
  /\ step \in [Jobs -> Running \cup {"new", "reading", "acquiring", "queued", "over", "lost"}]
  /\ queue \in [Processes -> Seq(Jobs)] /\ batch \in [Processes -> Seq(Jobs)]
  /\ timer \in [Processes -> BOOLEAN] /\ processing \in [Processes -> BOOLEAN]
  /\ circuit \in [Processes -> [Tenants ->
       [state : {"closed", "open", "half-open"}, failures : Nat, probe : BOOLEAN, due : BOOLEAN]]]
  /\ faults \in 0..MaxFaults /\ miscounted \in BOOLEAN

Init ==
  /\ mode \in [Processes -> {"local", "redis", "strict"}]
  /\ slots = [k \in Keys |-> 0] /\ leaked = slots
  /\ at \in [Jobs -> Processes] /\ step = [j \in Jobs |-> "new"]
  /\ queue = [p \in Processes |-> << >>] /\ batch = queue
  /\ timer = [p \in Processes |-> FALSE] /\ processing = timer
  /\ circuit = [p \in Processes |-> [t \in Tenants |-> Fresh]]
  /\ faults = 0 /\ miscounted = FALSE

-----------------------------------------------------------------------------
(* The circuit: the record c after each of its functions.                   *)

Ticked(c) ==
  IF c.state = "open" /\ c.due
  THEN [c EXCEPT !.state = "half-open", !.probe = FALSE] ELSE c

\* isSemanticCircuitOpen, and the refusal of tryBeginSemanticLlmProbe
Blocks(c) == c.state = "open" \/ (c.state = "half-open" /\ c.probe)

Begun(c) == [c EXCEPT !.probe = c.probe \/ c.state = "half-open"]

Succeeded(c) ==
  IF c.state = "half-open" THEN Fresh ELSE [c EXCEPT !.failures = 0, !.due = TRUE]

\* Whether openUntil is past matters only in an open circuit.
Failed(c) ==
  IF c.state = "half-open"
  THEN [c EXCEPT !.state = "open", !.due = FALSE, !.probe = FALSE]
  ELSE IF c.failures + 1 >= Threshold
       THEN [c EXCEPT !.state = "open", !.due = FALSE, !.failures = c.failures + 1]
       ELSE [c EXCEPT !.failures = c.failures + 1]

CircuitOf(j) == Ticked(circuit[at[j]][TenantOf[j]])
Becomes(j, c) == circuit' = [circuit EXCEPT ![at[j]][TenantOf[j]] = c]

\* The backoff of an open circuit is over.
BackoffEnds(p, t) ==
  /\ circuit[p][t].state = "open" /\ ~circuit[p][t].due
  /\ circuit' = [circuit EXCEPT ![p][t].due = TRUE]
  /\ UNCHANGED <<mode, slots, at, step, queue, batch, timer, processing, faults, leaked, miscounted>>

-----------------------------------------------------------------------------
(* reserveAndEnqueue                                                        *)

Goes(j, s) == step' = [step EXCEPT ![j] = s]

Pushed(j) ==
  /\ queue' = [queue EXCEPT ![at[j]] = Append(queue[at[j]], j)]
  /\ timer' = [timer EXCEPT ![at[j]] = TRUE]
  /\ Goes(j, "queued")

\* A full local queue loses its oldest job.
PushedLocally(j) ==
  LET p == at[j]
      full == Len(queue[p]) >= DepthMax /\ queue[p] # << >>
  IN  /\ queue' = [queue EXCEPT ![p] = Append(IF full THEN Tail(queue[p]) ELSE queue[p], j)]
      /\ timer' = [timer EXCEPT ![p] = TRUE]
      /\ step' = [k \in Jobs |->
             IF k = j THEN "queued" ELSE IF full /\ k = Head(queue[p]) THEN "over" ELSE step[k]]

Enqueue(j) ==
  /\ step[j] = "new"
  /\ Becomes(j, CircuitOf(j))
  /\ IF Blocks(CircuitOf(j))
     THEN Goes(j, "over") /\ UNCHANGED <<queue, timer>>
     ELSE IF mode[at[j]] = "local" THEN PushedLocally(j)
     ELSE Goes(j, "reading") /\ UNCHANGED <<queue, timer>>
  /\ UNCHANGED <<mode, slots, at, batch, processing, faults, leaked, miscounted>>

\* getRedisSemanticQueueDepth, which reads 0 when Redis fails.
ReadDepth(j) ==
  /\ step[j] = "reading"
  /\ \/ Goes(j, IF slots[Global] >= DepthMax THEN "over" ELSE "acquiring") /\ UNCHANGED faults
     \/ Goes(j, "acquiring") /\ faults < MaxFaults /\ faults' = faults + 1
  /\ UNCHANGED <<mode, slots, at, queue, batch, timer, processing, circuit, leaked, miscounted>>

\* The acquire script.
Fits(j) == \A k \in KeysOf(j) : slots[k] < Limit(k)

More(count, j) == [k \in Keys |-> IF k \in KeysOf(j) THEN count[k] + 1 ELSE count[k]]

Acquire(j) ==
  /\ step[j] = "acquiring"
  /\ IF Fits(j)
     THEN slots' = More(slots, j) /\ Pushed(j)
     ELSE Goes(j, "over") /\ UNCHANGED <<slots, queue, timer>>
  /\ UNCHANGED <<mode, at, batch, processing, circuit, faults, leaked, miscounted>>

\* The script fails, or its reply is lost: strict mode gives the job up,
\* and otherwise it goes on as a holder.
AcquireFails(j) ==
  /\ step[j] = "acquiring"
  /\ faults < MaxFaults /\ faults' = faults + 1
  /\ \E counted \in {FALSE, Fits(j)} :
       /\ slots' = IF counted THEN More(slots, j) ELSE slots
       /\ IF mode[at[j]] = "strict"
          THEN /\ Goes(j, "over")
               /\ leaked' = IF counted THEN More(leaked, j) ELSE leaked
               /\ UNCHANGED <<queue, timer, miscounted>>
          ELSE /\ Pushed(j)
               /\ miscounted' = (miscounted \/ ~counted)
               /\ UNCHANGED leaked
  /\ UNCHANGED <<mode, at, batch, processing, circuit>>

-----------------------------------------------------------------------------
(* drainQueue                                                               *)

Chunk(jobs) == {jobs[i] : i \in DOMAIN jobs \cap (1..Concurrency)}
AfterChunk(jobs) == SubSeq(jobs, Concurrency + 1, Len(jobs))

\* The debounce timer, or a flush that is ahead of it.
TimerFires(p) ==
  /\ timer[p] /\ timer' = [timer EXCEPT ![p] = FALSE]
  /\ IF processing[p] \/ queue[p] = << >>
     THEN UNCHANGED <<step, queue, batch, processing>>
     ELSE /\ processing' = [processing EXCEPT ![p] = TRUE]
          /\ queue' = [queue EXCEPT ![p] = << >>]
          /\ batch' = [batch EXCEPT ![p] = AfterChunk(queue[p])]
          /\ step' = [j \in Jobs |-> IF j \in Chunk(queue[p]) THEN "asking" ELSE step[j]]
  /\ UNCHANGED <<mode, slots, at, circuit, faults, leaked, miscounted>>

\* Fault: jobs that came during the batch wait for another job.
RearmedNever(p) == UNCHANGED timer

\* The end of a batch sets the timer for what came meanwhile.
Rearmed(p) == timer' = [timer EXCEPT ![p] = timer[p] \/ queue[p] # << >>]

\* Job j of a chunk is over; the last one starts the next chunk.
JobOver(j) ==
  LET p == at[j]
  IN  IF \E k \in Jobs \ {j} : at[k] = p /\ step[k] \in Running
      THEN Goes(j, "over") /\ UNCHANGED <<batch, processing, timer>>
      ELSE IF batch[p] # << >>
      THEN /\ step' = [k \in Jobs |-> IF k = j THEN "over"
                                     ELSE IF k \in Chunk(batch[p]) THEN "asking" ELSE step[k]]
           /\ batch' = [batch EXCEPT ![p] = AfterChunk(batch[p])]
           /\ UNCHANGED <<processing, timer>>
      ELSE /\ Goes(j, "over")
           /\ processing' = [processing EXCEPT ![p] = FALSE]
           /\ Rearmed(p)
           /\ UNCHANGED batch

-----------------------------------------------------------------------------
(* runAudit                                                                 *)

\* Fault: the probe is taken before the rate limit is asked.
RefusedAfterBegin(j) ==
  IF Blocks(CircuitOf(j)) THEN UNCHANGED circuit ELSE Becomes(j, Begun(CircuitOf(j)))

\* What a refusal by the rate limit does to the circuit.
RefusedBeforeBegin(j) == UNCHANGED circuit

RateLimited(j) ==
  /\ step[j] = "asking" /\ Goes(j, "releasing")
  /\ RefusedBeforeBegin(j)
  /\ UNCHANGED <<mode, slots, at, queue, batch, timer, processing, faults, leaked, miscounted>>

\* The rate limit allows the job; the circuit may not.
Begin(j) ==
  /\ step[j] = "asking"
  /\ IF Blocks(CircuitOf(j))
     THEN Goes(j, "releasing") /\ Becomes(j, CircuitOf(j))
     ELSE Goes(j, "calling") /\ Becomes(j, Begun(CircuitOf(j)))
  /\ UNCHANGED <<mode, slots, at, queue, batch, timer, processing, faults, leaked, miscounted>>

\* The model answers or times out, or a cache or the small model answers.
CallEnds(j) ==
  /\ step[j] = "calling" /\ Goes(j, "releasing")
  /\ Becomes(j, Succeeded(CircuitOf(j))) \/ Becomes(j, Failed(CircuitOf(j)))
  /\ UNCHANGED <<mode, slots, at, queue, batch, timer, processing, faults, leaked, miscounted>>

\* Fault: only the global count is given back.
FewerGlobal(j) ==
  [k \in Keys |-> IF k = Global /\ slots[k] > 0 THEN slots[k] - 1 ELSE slots[k]]

\* Fault: a count of zero is lowered too.
FewerUnfloored(j) == [k \in Keys |-> IF k \in KeysOf(j) THEN slots[k] - 1 ELSE slots[k]]

\* The release script.
Fewer(j) ==
  [k \in Keys |-> IF k \in KeysOf(j) /\ slots[k] > 0 THEN slots[k] - 1 ELSE slots[k]]

Release(j) ==
  /\ step[j] = "releasing"
  /\ slots' = IF Holds(j) THEN Fewer(j) ELSE slots
  /\ JobOver(j)
  /\ UNCHANGED <<mode, at, queue, circuit, faults, leaked, miscounted>>

\* The script does not run, and nobody tries it again.
ReleaseFails(j) ==
  /\ step[j] = "releasing" /\ Holds(j)
  /\ faults < MaxFaults /\ faults' = faults + 1
  /\ leaked' = More(leaked, j)
  /\ JobOver(j)
  /\ UNCHANGED <<mode, slots, at, queue, circuit, miscounted>>

-----------------------------------------------------------------------------
\* The process dies and starts again; its jobs are lost with their slots.
Crash(p) ==
  LET dead == {j \in Jobs : at[j] = p /\ step[j] \notin {"new", "over", "lost"}}
  IN  /\ dead # {} /\ faults < MaxFaults /\ faults' = faults + 1
      /\ step' = [j \in Jobs |-> IF j \in dead THEN "lost" ELSE step[j]]
      /\ leaked' = [k \in Keys |-> leaked[k] + Cardinality(dead \cap Holders(k))]
      /\ queue' = [queue EXCEPT ![p] = << >>] /\ batch' = [batch EXCEPT ![p] = << >>]
      /\ timer' = [timer EXCEPT ![p] = FALSE]
      /\ processing' = [processing EXCEPT ![p] = FALSE]
      /\ circuit' = [circuit EXCEPT ![p] = [t \in Tenants |-> Fresh]]
      /\ UNCHANGED <<mode, slots, at, miscounted>>

\* An hour without an acquire, and no job lasts that long.
Expire(k) ==
  /\ slots[k] > 0 /\ Holders(k) = {}
  /\ slots' = [slots EXCEPT ![k] = 0] /\ leaked' = [leaked EXCEPT ![k] = 0]
  /\ UNCHANGED <<mode, at, step, queue, batch, timer, processing, circuit, faults, miscounted>>

Audit(j) == RateLimited(j) \/ Begin(j) \/ CallEnds(j) \/ Release(j) \/ ReleaseFails(j)

Next ==
  \/ \E j \in Jobs : Enqueue(j) \/ ReadDepth(j) \/ Acquire(j) \/ AcquireFails(j) \/ Audit(j)
  \/ \E p \in Processes : TimerFires(p) \/ Crash(p)
  \/ \E p \in Processes, t \in Tenants : BackoffEnds(p, t)
  \/ \E k \in Keys : Expire(k)

Spec == Init /\ [][Next]_vars

\* Timers fire, and every await of an audit ends (the model call by its timeout).
Fairness ==
  /\ \A p \in Processes : WF_vars(TimerFires(p))
  /\ \A j \in Jobs : WF_vars(Audit(j))

-----------------------------------------------------------------------------
(* The counts in Redis are the jobs that hold a slot and the slots that a   *)
(* crash or a failed release has leaked, and never more than the limits:    *)
(* through every drop, refusal and failure of an audit no slot is kept or   *)
(* given back twice, unless a failed acquire let its job pass uncounted.    *)
SlotsAccounted ==
  ~miscounted =>
    \A k \in Keys : /\ slots[k] = Cardinality(Holders(k)) + leaked[k]
                    /\ slots[k] <= Limit(k)

(* A half-open circuit that refuses calls has the probe it waits for: no    *)
(* refusal, late answer of an older call, timeout or crash leaves it        *)
(* reserved with nobody to end it (semantic-circuit-breaker.ts:95).         *)
NoStuckProbe ==
  \A p \in Processes, t \in Tenants :
    circuit[p][t].state = "half-open" /\ circuit[p][t].probe =>
      \E j \in Jobs : at[j] = p /\ TenantOf[j] = t /\ step[j] = "calling"

(* Every queue empties again and again: a job that was queued is audited,   *)
(* dropped or lost, also when it arrives while a batch is being audited.    *)
NothingQueued == \A j \in Jobs : step[j] \notin Running \cup {"queued"}
QueuesEmpty == []<>NothingQueued
=============================================================================
