# mastyf.ai: a TLA+ verification project

mastyf.ai sits between MCP clients (agents) and MCP servers (tools). Every
`tools/call` is decided before it reaches a server, and every decision is
recorded. The repository holds two implementations of that idea: a Python
gateway (`src/mastyf_gateway/`), whose decisions are stateful, and a large
TypeScript proxy (`src/src/`), whose shared state lives in Redis, files and
databases. Paths below start at `src/`, the root of the repository.

## 1. Inventory

### Python gateway

| Component | State | Operations | What is hard | What makes it correct |
|---|---|---|---|---|
| Workflow engine, `workflow/engine.py` | per session: state and certainty per workflow, call counts, history, pending transitions | `evaluate`, `commit_outcome`, `reset_session` | evaluation and commit are separated by the auditor and by the call itself; entries are found by id, else by tool | states move along the policy's graph; limits hold; a lost call leaves doubt |
| MCP stdio proxy, `adapters/mcp_stdio_proxy.py` | correlation table of futures, dispatcher task, child process | `process_message`, `_forward_request_to_child`, `_child_stdout_dispatcher`, `start`, `run`, `close` | calls interleave at each await; child death, silence, late and repeated ids; a ledger that refuses | each executed call is recorded once and truthfully; nothing stays registered; waits end |
| Gateway and arbiter, `gateway.py`, `enforcement/arbiter.py` | none of their own | `evaluate_async`, `execute_async`, `arbitrate` | order of the layers, the await in the middle | the auditor is asked only when the deterministic layers permit, and can only reduce authority |
| DIFC, `difc/session.py` | taint tags per session | `evaluate`, `record_tool_result` | taint read before an await | a tainted session does not reach a sink that rejects the tag |
| Auditor, `auditor/` | model handle | `evaluate` under a deadline | never answers, answers nonsense | a late or malformed answer is an ESCALATE |
| Receipt ledger, `receipts/ledger.py` | file, head hash, sequence number, corruption flag | `record`, `_recover_state`, `_verify_file` | crash or exception in an append, two processes | what is accepted continues a chain that verifies; no receipt is lost unnoticed |
| Operator exceptions, `enforcement/operator_exceptions.py` | file of grants | grant, match, consume, expire | single use under concurrency | a once-grant is used once |
| Other callers: `agent/agent_loop.py`, `adapters/mcp.py`, `adapters/rest.py`, `execute_async` | none | evaluate, execute, sometimes commit | some never commit an outcome | same as the proxy's |
| CBAC, policy loader, entitlement, telemetry | policy indexes, log files | pure decisions, logging | - | - |

### TypeScript proxy

| Component | State | Operations | What is hard | What makes it correct |
|---|---|---|---|---|
| Unified spend pool, `src/src/services/unified-spend-pool.ts`, `src/scripts/redis/unified-spend-*.lua` | Redis counters per window, a record per reservation, in-process fallback maps | reserve, release, commit | records and windows that expire in between; fallback when Redis fails; midnight | calls in flight stay counted; a reservation is settled once, where it was made |
| Circuit breaker, `src/src/utils/circuit-breaker*.ts`, `redis-circuit-sync.ts` | state, failure and success counts, probe flag, timer; a snapshot in Redis | allow, success, failure, force open, apply snapshot | one probe among concurrent requests; stale snapshots | few probes at a time; an open circuit is probed again; replicas agree |
| Agent gateway, `src/src/agent-gateway/server.ts`, `index.ts` | per stream: promise chain, started, forwarded, terminated; the set of undecided calls | one handler per message, end, error, shutdown and grace period | a clean close means "proceed"; a shutdown meets decisions under way | no undecided request is released; the process ends |
| Audit write queue, `src/src/database/audit-write-queue.ts` | queue, draining flag, batch | enqueue, drain, flush on shutdown | work in flight during a flush | order kept; nothing accepted is lost but one batch at the exit |
| SIEM exporter dead-letter queue, `src/src/exporters/exporter-dlq.ts` | a file shared by the processes of a user | retry, append, flush | appends while a flush awaits a collector; two flushes | an event is kept until it is sent, and sent once |
| Industry hot state, `src/src/database/industry-hot-state.ts` | rows in memory, write queue, timers | write, drain, refresh, shutdown | refreshes that overtake writes; reordered retries; a drain that is running at the shutdown | last write wins in the end; a shutdown saves the queue |
| Asynchronous semantic audit, `src/src/ai/async-semantic-audit.ts`, `semantic-circuit-breaker.ts`, `src/src/utils/redis-semantic-queue.ts` | a queue per process, slots in Redis, a circuit per tenant | reserve and enqueue, drain in chunks, audit, release | slots of crashed processes; late answers of older calls; jobs that arrive during a batch | slots add up; a half-open circuit has its probe; queues empty |
| Redis rate limiter, `src/src/utils/redis-rate-limiter.ts` | count and expiry per key, window locks, a local mirror | check and increment, per region and for all regions | INCR and PEXPIRE are two calls; Redis fails in a window | windows end; the fallback knows what Redis granted |
| Idempotency store, session stores, consent | Redis or memory | get, set, expire | claims of calls that fail | keys are per tenant and expire |
| Proxies `src/src/proxy/*`, policy engine `src/src/policy/*`, AI and semantic code `src/src/ai/*`, auth, fleet and control plane, dashboards, apps and packages | various | I/O around the components above | size | - |

How they interact. The Python proxy calls the gateway for a decision; the gateway
calls CBAC, DIFC, the workflow engine and, if all three permit, awaits the
auditor; on ALLOW the proxy writes to the child and awaits a future that the
stdout dispatcher resolves; then it calls `difc.record_tool_result`,
`workflow.commit_outcome` and `ledger.record`, in this order. In the TypeScript
proxy a request passes the circuit breaker, the policy engine, the spend pool
and the semantic gate, and its outcome is reported back to breaker and pool; the
call's record goes to the audit queue, and a copy of the call to the semantic
audit. The agent gateway's decisions call the policy engine, whose strategies
write to the hot state; both end with the same shutdown.

## 2. Modules

| Module | Models | Kind |
|---|---|---|
| `WorkflowEngine` | the engine's methods as operators on an engine record | operators, `ASSUME` on policies |
| `StdioProxy` | the proxy, gateway, arbiter, DIFC, auditor, the ledger's `record`, and the child | state machine, extends `WorkflowEngine` |
| `SequentialMonitor` | what a client may rely on when calls run one after another | abstract specification |
| `ReceiptLedger` | the ledger's file, appends, recovery, crashes, two processes | state machine |
| `CircuitBreaker` | the breaker of one upstream in several replicas, the stdio and HTTP handlers that use it, its snapshots in Redis | state machine |
| `SpendPool` | the three scripts, the fallback, and the stdio, SSE and streamable HTTP proxies as users | state machine |
| `ExtProcStream` | the streams of the agent gateway and Envoy; also the abstract specification of `AgentGateway` | state machine |
| `HotState` | memory, database, queue, drains and refreshes | state machine |
| `AgentGateway` | one process: `ExtProcStream` and `HotState` with signal, drain and grace period | composition |
| `AuditQueue`, `ExporterDlq`, `SemanticAudit`, `RateLimiter` | the component of that name | state machines |
| `Stores` | the ledger, audit queue, dead-letter queue, semantic audit, limiter and hot state side by side | composition |
| `MCFrontEnds` | the agent gateway and the stdio proxy side by side, for the questions of liveness | composition, values for TLC |
| `MCStdioProxy`, `MCCircuitBreaker`, `MCSpendPool`, `MCRateLimiter`, `MCStores` | small policies, sets, symmetry | values for TLC |
| `QueueLemmas` | what append, head and tail do to the elements of a sequence and to their order | lemmas |
| `StdioProxyProofs`, `ProxyCallProofs`, `CircuitBreakerProofs`, `SpendPoolProofs`, `ExtProcStreamProofs`, `AgentGatewayProofs`, `StoresProofs` | lemmas and theorems | proofs |

Definitions whose comment begins with "Fault:" are not part of any
specification: each is a plausible bug in the definition that follows it, and
PROJECT.json pairs it with a property that the bug breaks.

### 2.1 How StdioProxy corresponds to the code

The proxy is one asyncio thread, so a step of the model is the code between two
awaits, and calls interleave only there. The engine's lock is never held
across an await, which is why its methods are operators and not actions.

| Code | Model |
|---|---|
| `process_message` up to its first await | `ReceiveDenied`, `ReceiveForAudit`, `ReceivePermitted`, `ReceivePlain` |
| after `auditor.evaluate` | `AuditPermits`, `AuditRefuses`, for each verdict of the supervisor |
| `_forward_request_to_child` up to `drain()` | `Forward`: no process, a lost pipe, a pipe that is full or not |
| `await drain()` | `DrainReturns`, `DrainRaises` |
| `asyncio.wait_for` | `ResumeAnswered`, `ResumeLost`, `TimeOut` |
| lines 193-226 after the call | `ConcludeTool`: taint, `commit_outcome` (`Commit`), receipt, in the code's order |
| `ledger.record` | `RecordAndReturn`: the receipt is on record, or `record` raises |
| lines 228-266 | `Refuse` |
| one line of the dispatcher, its end | `DispatchMessage`, `DispatchGarbage`, `DispatchEof`, `DispatcherEnds` |
| `self.pending` | `table`; the future itself is `fut` |
| `_session_states`, `_session_certainties`, `_session_tool_counts`, `_session_history`, `_pending_transitions` | `eng.state`, `eng.cert`, `eng.count`, `eng.hist`, `eng.pend` |
| `difc.sessions[session]` | `taint` |
| `ledger._is_corrupted` | `~ledgerOk` |

`run()` awaits each message before it reads the next; that is `MaxInFlight = 1`.
`process_message` is also called concurrently
(`tests/integration/test_mcp_stdio_proxy.py:405`), which is `MaxInFlight > 1`.
The child, and the moment the event loop notices a closed pipe, are the
environment and are marked external in the map.

Abstractions. Tools, ids and states are members of small sets. Policies are
tables; `Move` gives the first transition of the code's list that matches.
CBAC's verdict is an input. One session is modelled: sessions share no state in
the engine or DIFC, apart from the search by tool name, which checks the session
too. `close` is one step. Receipts keep the call, the decision, the observation
and the workflow snapshot. `ledger.record` raises on a ledger that failed
verification, and on one that verified when open, write, flush or fsync fails
(`ledger.py:287-290`); by then `commit_outcome` has run, so `outcomes`, a history
variable, keeps what the engine was told apart from the receipts whose `record`
returned. What a failed append leaves in the file is `ReceiptLedger`'s subject.
The model follows `receipts/ledger.py` as it stands; at this commit it imports
`CURRENT_LEDGER_SCHEMA`, and names fields, that `receipts/models.py` does not
define, so the module as checked in cannot be loaded without that name.

Left out: messages without an id (forwarded, never tracked: lines 157-166),
`reset_session`, per-request DIFC context tags, parse errors (answered without
any effect on state), cancellation of a `process_message` from outside.

### 2.2 How CircuitBreaker corresponds to the code

The breaker's methods are synchronous, so each is an operator on its fields:
`Allows` and `Allowed` are `allowRequest`, then `Succeeded`, `Failed`,
`ForcedOpen` and `Hydrated`. A request is in a handler (`at`) from `allowRequest`
to its last report; the awaits in between are where requests interleave.

| Code | Model |
|---|---|
| `http-proxy-server.ts:267`, `proxy-server.ts:1075` | `Admit`; `Reject` where the stdio proxy reports the rejection, nothing at all in the HTTP proxy |
| `recordSuccess`, `recordFailure` in the response, error and timeout listeners | `Succeed`, `Fail`; `FailAgain` for the `error` that follows a timeout |
| context expiry (`proxy-server.ts:176`) while an answer is inspected | `Fail`, then `SucceedAfterAll` |
| returns without a report: 413, 415, 400, a denied call, a blocked answer | `EndSilently` |
| `playbook-runner.ts:65`, `:75` | `ForceOpen` |
| `saveCircuitToRedis`: SET, then PUBLISH | an entry of `saves`, `SetSnapshot`, `Publish`, `SaveFails` |
| the subscriber, at most once | `inbox`, `HandleMessage`, `MessageLost` |
| `loadCircuitFromRedis` and its `then` | `hydration`, `LoadSnapshot`, `HandleLoaded` |
| the key's TTL; a new process | `Expire`; `Restart` |

`probes` is a history variable: the requests in flight that were let through
since the circuit went HALF_OPEN. Time is abstracted to `due`, whether the wait
since `openedAt` has elapsed: backoff and jitter change only its length, and
after a snapshot `due` may be either, since `openedAt` is then another clock's.
One tenant and server are modelled; keys share nothing but the connection.
The alert of an opened circuit and the metrics are left out. The WebSocket
proxy, which records success before the upstream answers, is left out too.

### 2.3 ReceiptLedger

| Code | Model |
|---|---|
| `__init__`, `_recover_state`, `_verify_file` | `Start`, `Recovered`, `Valid` |
| `record`: the line is written and synced, then memory is advanced | `Record` |
| an exception from `write`, `flush` or `fsync` | `RecordRaises`: any part of the text may be in the file, memory is as before |
| a crash in `record` or between receipts | `Crash`, with `CutAppend` |

A line is the sequence of the pieces of text it consists of, since the next
append continues a line that was cut before its newline. The hash of a receipt is
the call that recorded it, so no two receipts have one hash. `damaged` is a
history variable: an append has left text that a chain cannot bear, or was
made while another process was up. Reading a ledger out is left out.

### 2.4 SpendPool

| Code | Model |
|---|---|
| `unified-spend-acquire.lua`, `-release.lua`, `-commit.lua` | `Fits`/`Acquired`, `Released`, `Committed`: one atomic step each |
| `tryReserveSpend` | `Reserve`, `Refuse`, `ReserveThrows` with `LocalReserve` |
| `releaseReservedSpend`, `commitSpend` | `Release`; `Priced` |
| gates behind the policy, forwarding | `GateBlocks`, `Forward` |
| the ends of a call in the three proxies | `AnsweredStdio`, `AnsweredSse`, `AnsweredStream`, `Aborted`, `Forgotten` |
| TTLs, buckets and dates | `MinuteEnds`, `RecordExpires`, `BucketEnds`, `Midnight` |

One tenant, one minute and one day window; the monthly window repeats the day's.
`redis.covers` is what the minute key's expiry is worth: the calls reserved
before it was last set. Unless `SlowCalls`, a call is over when a key that covers
it expires. `closed` is a history variable: whether the end of a call asked for a
release or a priced commit ("settled") or for neither ("left": the SSE proxy's
error and block paths, an id used again in the stdio proxy, a call without a price). A day's counter may go below zero, since a commit after
midnight takes off the new day what the old one reserved
(`unified-spend-commit.lua:17`).

### 2.5 ExtProcStream, HotState and AgentGateway

A stream's handlers run on one promise chain (`chain`); its `end` and `error`
events run beside it. `deciding` is the awaited decision. Envoy is external: it
sends the parts of a request in order and may half-close or abort at any time.

| Code (`server.ts`, `index.ts`) | Model |
|---|---|
| `handleMessage` and the handlers it calls | the `Handle...` actions, `SkipTerminated` |
| `decideWithTimeout`, `decideAndForward` | `HandleBodyEnd`, then `Allow`, `Refuse` or `TimeOut` |
| `deny`, `write` | `Deny`, `Write`, which may find the call gone |
| `call.on('end')`, `call.on('error')` | `HalfClose` and `HandleEnd`; `Abort` |
| `destroyUndecidedCalls` | `DestroyUndecidedCalls` |
| `shutdown`, `tryShutdown`'s callback, the grace timer | `Signal`, `Drained`, `GraceExpires` |

`HotState` follows `industry-hot-state.ts`: `Enqueue`, `Drain` and the loop
after it (`Persist`, `PersistFails`, `Continue`), `StartRefresh`, `ReadRows`,
`Refresh`, `Shutdown`. A row is the number of the write it comes from. An upsert
whose answer is lost is one that failed although the row changed.

`AgentGateway` instantiates both. Policy strategies write to the hot state
while a decision is awaited (`Evaluate`); the process exits when the first of
the two calls of the hot state's `shutdown` returns (`Exited`).

### 2.6 AuditQueue, ExporterDlq, SemanticAudit, RateLimiter

- `AuditQueue`: the drain and the flush of the shutdown hook are two consumers
  with a batch each; a write that is awaited is a step of its own. `closing`
  follows the process from the hook to the exit.
- `ExporterDlq`: `loadExporterDlq` (`Load`), appends (`AppendEntry`) and
  `rewriteExporterDlq` (`Rewrite`) are synchronous, the sends between them are
  awaited. A send that throws may have reached the collector, since the exporters
  time out their own requests; `reached` keeps how each event's sends ended. An
  append may be switched off, throw, or be cut short; `text` is the end of the
  file (a newline, a whole entry, a part of one) and the number of lines that
  cannot be read, so that the next append may go on the line of another entry
  (`Glued`). A rewrite empties the file first and may be cut short as well
  (`RewriteCut`). `lost` and `disturbed` are history variables: the entries that
  were not kept, were overtaken by a rewrite that had not loaded them, were cut
  from one or were glued to the next; and whether two flushes overlapped or one
  died before it wrote.
- `SemanticAudit`: `reserveAndEnqueue` (`Enqueue`, `ReadDepth`, `Acquire`,
  `AcquireFails`), `drainQueue` (`TimerFires`, chunks of `Concurrency` jobs,
  `JobOver`), `runAudit` (`RateLimited`, `Begin`, `CallEnds`, `Release`,
  `ReleaseFails`), the circuit's functions, crashes and the hour's expiry of a
  count. What an audit does with its result is left out.
- `RateLimiter`: `checkAndIncrement` for the region's key and, with two regions,
  once more for the key of all of them; lock, INCR and PEXPIRE are a step each.
  Time is whether a window has ended.

## 3. Properties and runs

| Property | Says | Checked in |
|---|---|---|
| `TypeOK` of `StdioProxy` | types | proxy_concurrent; proved |
| `ReceiptsTruthful` | RESPONSE_RECEIVED only if the child answered this call, NOT_SENT only if it never got it | proxy_concurrent; proved |
| `NoForgottenExecution` | every tool call the child took up is awaited, raised over a lost pipe, or was reported to the engine as sent and has one receipt that says the same unless `record` raised | proxy_concurrent; proved |
| `NothingStranded` | pending transitions and correlation entries belong to calls in flight, or to one that raised | proxy_concurrent; proved |
| `LostCallLeavesDoubt` | after the engine was told of a missing response, and until it is told of an answer, some workflow is UNKNOWN, whatever receipts could be written | proxy_concurrent; proved |
| `OccurrencesBounded` | a limit n is overrun by at most the calls in flight less one | proxy_run_loop; proved for any number in flight |
| `ReceiptNamesState` | the receipt of a confirmed call names the committed state | proxy_run_loop; proved for at most one workflow |
| `MonitorSpec` | the proxy implements `SequentialMonitor` | proxy_run_loop; proved for the run loop |
| `MovesFollowGraph` | a state changes along an edge | refuted for concurrent calls in proxy_stale_move (implied by `MonitorSpec` in the run loop) |
| `WaitsEnd` | the auditor's deadline and the response timeout end their waits | front_ends |
| `TypeOK` of `CircuitBreaker` | types | breaker_faults; proved |
| `ProbesBounded` | at most `successThreshold` requests let through since HALF_OPEN are in flight | breaker_faults; proved |
| `OneProbe` | one request let through since HALF_OPEN is in flight | refuted in breaker_probes |
| `ClosedBelowThreshold` | a closed circuit has failures to spare, wherever its state comes from | breaker_faults; proved |
| `OpenIsProbed`, `HalfOpenEnds` | an open circuit is probed in the end; a HALF_OPEN one closes or reopens | breaker_faults (stdio); `HalfOpenEnds` refuted for HTTP in breaker_wedge |
| `ReplicasAgree` | replicas with no snapshot under way let requests through alike | breaker_sync; proved |
| `TypeOK` of `SpendPool` | types | spend_pool; proved |
| `InFlightCounted` | the minute's count covers the calls in flight that hold a record | spend_pool; proved for calls shorter than a minute |
| `DayUndercountBounded` | the day's count falls short of what was spent and reserved only by calls carried over midnight | spend_pool; proved |
| `FallbackIsSettled` | a fallback reservation is settled in the fallback, also when Redis is back, unless the call ended in a way that asks for neither a release nor a commit | spend_pool; proved |
| `AnsweredCallsCounted` | an answered call stays counted in its minute | refuted in spend_completed |
| `CleanCloseIsDecided` | a stream closed cleanly was denied, allowed with all messages handled, or empty | front_ends; proved |
| `ShutdownFindsUndecided` | a shutdown destroys the open calls without a verdict and, of the others, only bodiless ones | front_ends; proved |
| `LoneShutdownFlushes` | a shutdown that has the queue to itself saves every write | front_ends; proved |
| `OnlyRetriesGoBack` | a row goes back to an older write only by a retry | front_ends; proved |
| `WholeIsDecided` | a request sent whole is decided, destroyed, or outlived by nothing | front_ends |
| `SignalEndsProcess` | after a signal the process exits | front_ends |
| `TypesOK` | types of the six parts | stores; proved |
| `AcceptsOnlyAtTheEnd` | a ledger that accepts receipts goes on at the end of a file that verifies, unless damaged | stores; proved |
| `ValidMeansComplete` | a file that verifies holds every receipt that was returned | stores; proved |
| `WrittenInOrder` | the audit queue writes in the order of acceptance until the shutdown | stores; proved |
| `ExitLosesOneBatch` | the exit loses at most the drain's batch and jobs accepted after the flush | stores; proved |
| `AcceptedIsWritten` | an accepted job is written in the end | stores |
| `KeptUntilSent` | an event whose attempts are over is in the file until a send of it has returned, but for entries not kept, overtaken, cut or glued | stores; proved |
| `SentOnce` | once a send of it has returned no event reaches its collector again, but for flushes that overlap or die | stores; proved |
| `SlotsAccounted` | the slots in Redis are those held and those leaked | stores; proved |
| `NoStuckProbe` | a half-open circuit that refuses has a probe in flight | stores; proved |
| `QueuesEmpty` | every queued audit is over, dropped or lost in the end | stores |
| `FallbackWithinLimit` | a proxy without Redis stays within the limit, what Redis granted included | stores; proved |
| `BoundedWindowEnds` | every window that a call of weight one began ends | stores |
| `CounterEnds` | every window ends | refuted in limiter_window |
| `Converges` | memory and database agree in the end, on the last writes unless one failed | stores |

`stores` runs its six parts side by side: the first step of a behaviour chooses
one, and they share one set of variables, since they share no state in the
program. The wrappers in `Stores` say that a property speaks of its own part.
`front_ends` is made in the same way of the agent gateway and the stdio proxy,
each with its own fairness and bounds.

### Bounds, and why they suffice

- proxy_concurrent: two calls, two ids, two tools, two workflows. Two
  workflows make one of them deny after the other has stored a transition, and
  two tools are enough for a taint source and its sink, and for `cannot_follow`.
  Interference of calls is pairwise: each step reads what at most one other call
  wrote to the table or to the pending entries. The auditor is on, so that a
  call may be overtaken while it is decided. All five properties are proved for
  any number besides.
- proxy_run_loop: three calls in a row over one workflow with every rule kind
  but `requires_state`: a move, a refusal in the new state, a lost call and a
  refusal in doubt need three. The auditor is off, which is the deployment
  without a model (`ReceivePermitted`); the refinement is proved with and
  without it.
- front_ends, the proxy: two calls with the same id, so that one loses its table
  entry; no workflow, since no wait depends on the policy.
- At most one line of garbage is on its way in `stdout` (`ChildEmitsGarbage`).
  Every other counter of the proxy is bounded by the number of calls.
- breaker_faults: three requests and both thresholds two, so that the probes
  reach their bound and a late outcome meets every state; one replica, since
  its own older snapshots, lost saves and restarts already set it back;
  `MaxForced` 1, one opening from outside, which can hit a HALF_OPEN period.
- breaker_probes: three requests, as in breaker_faults, without Redis.
- breaker_sync: two replicas and one request, which goes from one to the other
  and lets both change state with saves under way; two saves and two messages
  per replica (`MaxBacklog`), so that own and foreign snapshots overtake each
  other. No faults: with a lost message replicas may differ until the next change.
- spend_pool: three calls, one per proxy, with estimates 2, 1 and 1 against caps
  3 and 4, so that each window can be the one that refuses; a price above, and
  none; one midnight (`LastDay`); two throwing calls (`MaxFaults`), one to
  reserve in the fallback and one to fail the settlement.
- front_ends, the gateway: one stream, since streams share only the set of undecided
  calls (the safety properties are proved for any number); two messages on its
  chain (`MaxBacklog`), so that one waits behind a decision; one row with two
  writes, a queue of two, one failure and one refresh, so that a shutdown finds
  a drain at each of its awaits.
- stores: one fault for the audit queue, the semantic audit and the limiter
  (`MaxFailures`, `MaxFaults`), and two for the ledger and the hot state
  (`LedgerFaults`, `HotFailures`), where a recovery or a retry may fail in turn.
  The safety properties of all six are proved for any values; the bounds matter
  to their liveness. Ledger: two processes, three calls. Audit queue: five jobs, a queue
  of three, batches of two, two of them with a second write. Dead letters: three events, one unknown, two flushes, two loaded at
  most. Semantic audit: three jobs, of which the first belongs to the first
  process (the second by symmetry) and one has no tenant, against two global
  slots and one per tenant. Limiter: two calls of weights one and two, one
  setting on at a time. Hot state: two rows with two writes each, a queue of two,
  one refresh at a time, as in front_ends. The code's timer may overlap two
  (`MaxLoads` 2): with two the same properties hold, but the hot state
  alone then has 578,308 states, too many beside the other parts.
- Calls and ids are symmetric; symmetry is not used in runs with liveness.

Deadlock is not checked where the system may stop: calls, writes and jobs are
finitely many, a process exits, and in the HTTP proxy a wedged circuit without
Redis is a state in which nothing can happen any more. It is checked in
breaker_faults.

### Fairness

- `StdioProxy`: weak fairness of what asyncio runs by itself: the auditor's
  deadline (`AsyncTimeoutSupervisor`), resumption of a call whose future is done
  or whose timer has fired, the dispatcher, and the transport noticing a closed
  pipe. `drain()` is assumed to return only for a call the child has taken up, or
  to raise on a lost pipe. Nothing is assumed of the client, of the auditor's
  model or of the child: it may stay silent for ever. `WaitsEnd` starts when
  `drain()` has returned, since the code puts no bound on `drain()`.
- `CircuitBreaker`: the wait of an open circuit elapses, a request which was
  let through ends (its own timeout sees to that) and requests keep arriving. The
  last is not the code's doing: an open circuit is looked at only when a request
  asks. Nothing is assumed of the outcomes, nor of Redis.
- `AgentGateway`: Node runs what is on a promise chain, the decision's timeout
  and the grace timer fire, and an upsert or a load ends, by an answer or an
  error. Nothing is assumed of Envoy or of the policy engine. `SignalEndsProcess`
  needs the database to answer: the grace timer calls the same `shutdown`, which
  awaits a drain of its own.
- `AuditQueue`, `HotState`: the scheduled drain and the timers run, and the
  database answers. `SemanticAudit`: timers fire and every await of an audit
  ends (the model call by its own timeout). `RateLimiter`: PEXPIRE is answered or
  throws, and Redis drops a key whose expiry has come.

### What the violation runs show

- proxy_stale_move. Two calls are evaluated in CLEAN. One commits CLEAN -> PII.
  The other then commits its own target, SENT, from PII, where the policy
  denies that very tool. `commit_outcome` does not compare the entry's
  `state_before` with the current state (`engine.py:297`).
- breaker_probes. A request is let through while the circuit is CLOSED; two
  failures of another open it, the wait elapses and a probe is let through. Then
  the older request is answered: `recordSuccess` lowers the flag in HALF_OPEN
  whoever reports (`circuit-breaker.ts:73`), and a second probe follows the first,
  against "only one probe allowed" (`circuit-breaker.ts:17`). `ProbesBounded` says
  how far this can go: at most `successThreshold`.
- breaker_wedge. The probe's body is malformed. The HTTP handler answers 400 and
  reports nothing, so the flag stays up, and rejected requests do not report
  either: HALF_OPEN for good, short of a restart, a forced opening or a snapshot.
  The stdio proxy escapes this because it counts a rejection as a failure
  (`proxy-server.ts:1085`), at the price that any request which meets the raised
  flag reopens the circuit under the probe. Leaving that line out is the mutant
  of `HalfOpenEnds`.
- spend_completed. The child answers; the stdio proxy starts `persistCallRecord`,
  which awaits the price, and deletes the request's context, which releases the
  reservation. `commitSpend` later finds no record and reconciles no minute, so
  the minute of the call no longer counts it.
- limiter_window. The first call of a window counts for two. INCRBY returns two,
  so no expiry is set (`redis-rate-limiter.ts:152`), and once the count is above
  the limit the key refuses for good. Callers that count tokens or micro-dollars
  do begin windows so.

Observed while modelling and left without a run, because the repository says
nothing of the case. Two workflows that move on one tool store their transitions
under one key (`engine.py:228`), so only the later one's is committed. A
replica whose first GET is answered late may apply a snapshot older than the
messages it has handled (`circuit-breaker-registry.ts:18`); `LateHydration` is
FALSE in breaker_sync for that reason. With two workflows that move on one tool,
a permission names workflow 1 and the target of the transition stored last,
whosever it is, so that the receipt of a confirmed call may name a state its
workflow never enters; `ReceiptNamesState` is checked and proved for one workflow.

## 4. Proofs

The proof modules are checked by TLAPS for every value of the constants that
satisfies the assumptions on them: `PolicyAssumption`, `ProxyAssumption`,
`BreakerAssumption`, `SpendAssumption`, `GatewayAssumption` and
`StoresAssumption`. These say what the constants are (numbers, tables, finitely
many calls, limits of at least one where the code divides or counts down) and
nothing of how the system runs. Where a theorem needs more, it says so itself:
`UniqueIds`, `RunLoop`, `~SlowCalls`, a Redis that works, at most one workflow.
Every safety invariant and every action property that a passing run checks is
stated by a theorem; liveness is left to TLC (end of this section).

### The proxy

- The engine's operators (top of `StdioProxyProofs`): that the last mover,
  the first denier and the first match exist where they are chosen (each is a
  least element of a set of numbers), what the methods preserve and change.
- `TypeCorrect`: `TypeOK` is inductive. It needs that a call that waits for the
  auditor is a tool call, and that nothing in the child's hands is idle.
- `OccurrencesAreBounded`. The bound on counts is not inductive: a confirmed
  call adds one. The invariant `Budget` counts, with each tool's confirmed
  calls, the calls of that tool in flight: their sum never exceeds the limit by
  more than `MaxInFlight - 1`, because a call enters flight only while its count
  is below the limit and fewer than `MaxInFlight` others are in flight, and a
  confirmation moves a call from one term to the other.
- `ReceiptsAreTruthful`, `NoExecutionIsForgotten` (`ProxyCallProofs`). `CallInv`
  relates a call to the child, the table and the ledger: the child holds only
  forwarded calls (`Sent`), a receipt is of a call that is over and says what
  was seen (`Told`, `Once`), a call the child holds is awaited, raised over a lost
  pipe, or among the `outcomes` and then on record or raised (`Kept`), a registered future is pending under its own id
  (`Registered`), and with unique ids what the dispatcher hears of a call is of
  that call (`Heard`). `Heard` is why truth of receipts needs `UniqueIds`, which
  the theorem states; the three on receipts, entries and doubt do not.
- `NothingIsStranded`, `LostCallsLeaveDoubt`. `EngInv` adds that pending entries
  have distinct ids and each is that of a tool call that is not over
  (`PendOwned`); with that, the doubt of a lost call is inductive as it stands,
  because it speaks of what the engine was told. Distinctness is what makes one removal enough: `commit_outcome`
  removes the entry of the id if there is one, so none is left
  (`DiscardKeyed`), even where a call without an entry takes another's.
- `RunLoopImplementsMonitor`. The refinement mapping is the identity on states,
  certainties, counts and history. When one message is processed at a time,
  the invariant `Alone` says that the call in flight was permitted by the
  present engine state, that its pending transition, if any, is the one this
  state prescribes, and that no other entry exists. So a confirmed or lost call
  is a step of the monitor and all other steps stutter.
- `ReceiptsNameState`. The snapshot a receipt prints is taken when the call is
  evaluated, the state it names is committed after the child has answered. In
  the run loop nothing commits in between: beside `Alone`, the invariant
  `SnapshotsFresh` says that the snapshot of the call in flight is the one that
  would be taken now (a snapshot does not depend on pending entries,
  `ViewSnapshot`). The commit then moves the one workflow to the target that the
  snapshot names (`ConfirmedAsNamed`).

### The breaker and the spend pool

- `CircuitBreakerProofs`. `ClosedIsBelowThreshold` is inductive once the same is
  said of every snapshot: those in saves, in the store, in inboxes and in a reply
  under way (`Types`). `ProbesAreBounded` needs that probes in flight are paid
  for (`Paid`): in HALF_OPEN they are at most the successes counted, plus one if
  the flag is up. An admission raises the flag for the one probe it adds, a
  success trades flag for count, and every other step empties the set or
  leaves it smaller. The successes stay below their threshold, hence the bound.
- `ReplicasComeToAgree` (Redis works and no GET is outstanding). Replicas do
  differ while snapshots travel, so the invariant `Agreement` speaks of the end
  of the inbox: a replica with no save of its own, or with a message still to
  come, ends CLOSED if and only if every other such replica does. A publication
  makes all inboxes end alike; an own change makes the replica one with a save
  under way; handling a message does not change where an inbox ends.
- `SpendPoolProofs`. Sums over calls are cardinalities of sets of units (each
  call with as many units as its estimate), so what a sum loses or gains with
  one call follows from the library's facts on finite sets (`OneUnits` and the
  lemmas after it); finiteness comes from the calls that have asked (`Known`),
  not from an assumption on `Requests`.
  `FallbackSettled` needs that a streamed call in flight awaits its price
  (`StreamPriced`) and that a call is persisted once (`PersistedOnce`): what ends
  a call then either takes its record out of the fallback, starts the pricing
  that will, or is one of the ends that ask for neither.
  `CallsInFlightCounted`: each step leaves the counted calls and the counter,
  adds one call and its estimate to both, or takes one off both (`Lighter`,
  `Charged`, `TakenOff`), where `Floor` may only lift the counter; when the key
  expires, nothing is counted, because while it has an expiry that covers every
  call it counts (`ExpiryCovers`), and unless `SlowCalls` those calls are over by
  then. A release's SET drops the expiry, so only the acquires have to be followed.
  `DayUndercount`: a step keeps, charges, takes off or commits (`DayCommitted`).
  A commit takes off what the record reserved on the same day and nothing if it
  was reserved the day before, which is what `CarriedToday` pays for; at midnight
  nothing is paid or reserved on the new day yet (`NoLaterDay`).

### The agent gateway

- `ExtProcStreamProofs`. The invariant `StreamOK` follows a stream from opening
  to closure: how far Envoy is against what is on the chain and what was begun,
  when a decision is under way, that `end` is last on the chain, and that
  `undecided` holds exactly what the handlers have not settled.
- `AgentGatewayProofs`. Each step of the process is a step of the streams, the
  destruction of the undecided calls, or a stutter
  (`GatewayImplementsStreams`), so the theorems about streams hold of the
  process by composition. In the same way each step is one of the hot state's
  or leaves it alone (`StepOfHotState`), and `HotInv` is inductive for those:
  one upsert is awaited at a time; of the writes of one row, the queue and the
  upsert have the newer behind the older, except what is tried again
  (`Ordered`); and until something fails or is dropped, the last write of a row
  is in the database or on its way there (`OnItsWay`).
  `LoneShutdownFlushesAll` reads `OnItsWay` at an empty queue;
  `OnlyRetriesGoBackInProcess` reads `Ordered` at the upsert that is awaited.

### The stores

`StoresProofs`. A behaviour of `Stores` is about one part, whose steps leave the
others alone, so `StoresInv` is one inductive invariant per part. All hold for
any number of processes, calls, jobs, events and rows and for every limit;
`QueueLemmas` has what they share about sequences.

- Ledger (`LedgerInv`). `AcceptsOnlyAtTheEnd` is inductive together with the
  fact that a line said to be unfinished exists (`UnendedExists`). `ValidMeansComplete` needs that a
  returned receipt is a piece of some line (`AckedInFile`), which no later append
  undoes: a line is only ever extended, so in a file that verifies the piece is
  the line.
- Audit queue (`AuditInv`). What is written, then the drain's batch, then the
  queue are one ascending sequence (`InOrder`), which needs that no second drain
  begins while the first awaits a write (`OneDrain`). For the exit, every
  accepted job is written, failed, late, queued or in one of the two batches
  (`NoneLost`), and the flush has emptied the queue and its own batch by then.
- Dead letters (`DlqInv`). What a running flush loaded it holds, or a send of it
  has returned (`HeldOrSent`), so a rewrite removes from the file only what was
  sent or what it did not load, and a rewrite that is cut short what it counts as
  lost besides (`Kept`). That a line without a newline is an entry's
  (`EndsInEntry`) is why an append that goes on there spoils the last entry and no
  other. `SentOnce` is about undisturbed behaviours, in which there is one flush
  at a time, no entry is in a file or list twice, and what a flush holds has no
  send that returned (`SentBefore`); a send that threw after delivery changes
  none of this.
- Semantic audit (`SemanticInv`). Queues and batches of a process hold its own
  jobs, each once (`Waiting`), so that what a step takes from them it takes from
  no other holder; slots are asked for only where Redis has them
  (`OnlyRedisAcquires`). With this `SlotsAccounted` and `NoStuckProbe` are
  inductive as they stand: each step changes a count and the set of its holders
  alike, and the flag of a probe with the job that carries it.
- Limiter (`LimiterInv`). A process never counts less in a window than it has
  granted there (`GrantsCounted`); the fallback grants only if its count,
  this call included, is within the limit.
- Hot state: types only; its order is proved of `AgentGateway`, where a run
  checks it too.

### Left to TLC

Liveness under fairness is outside the prover's reach: `WaitsEnd`,
`OpenIsProbed`, `HalfOpenEnds`, `WholeIsDecided`, `SignalEndsProcess`,
`AcceptedIsWritten`, `QueuesEmpty`, `BoundedWindowEnds` and `Converges`.
`ReceiptNamesState` with more than one workflow is not claimed: it does not hold.
What the violation runs refute is shown by their traces alone.

## 5. Not modelled, and why

The modules cover the code in which steps of several actors, failures or time
meet shared state. That is a small share of the repository: most of its 227,000
lines of implementation are user interface, HTTP handlers over stored records,
string and pattern rules, packaging and integrations, in which there is no
protocol to model.

- Policy engine and strategies (`src/src/policy/`), CBAC and policy loading:
  pure functions of a call and a policy, made of patterns over strings. The
  models take their verdicts as inputs.
- Authentication: cryptographic checks and external identity providers. Session
  and nonce stores are one get or set each.
- Idempotency store: one SET NX per request and nothing that ever removes the
  key; a property could only restate that.
- Tenant budget: table look-ups and sums around the spend pool.
- Agentic task queue: nothing in the product enqueues to it or starts it.
- Fleet, control plane, aggregator, dashboards, terminal UI, cloud and desktop
  applications, proxy-core: I/O, rendering and packaging.
- Workspace packages: clients and shared helpers; the semaphore of
  `packages/core` is a second version of the slots in `SemanticAudit`.
- AI research, vulnerability discovery, corpus, harness, benchmarks: heuristics
  and data.
- In modelled components: messages without an id, `reset_session`, per-request
  DIFC tags (`StdioProxy`); `execute_async`, which commits no outcome; the
  WebSocket proxy's use of the breaker; the exporters' transports; what a
  semantic audit does with its result.
- `drain()` of a child that never reads has no bound in the code, so nothing can
  be promised of it. The taint of a session is read before the auditor is
  awaited; the repository makes no claim for concurrent flows of one session.

## 6. Plan

Done: the proxy with its engine, ledger and proofs; the breaker; the spend pool;
the agent gateway with its streams and hot state; the queues, the semantic
audit and the limiter. Left, in this order:

1. `OperatorGrants`: single use and expiry of file-backed grants.
2. `AgentLoop`: the other callers over `WorkflowEngine`, with the outcomes that
   some of them never commit.
3. The order in which `HotState` converges under overlapping refreshes
   (`MaxLoads` 2), as a run of its own.
