----------------------------- MODULE StdioProxy -----------------------------
(***************************************************************************)
(* The MCP stdio proxy of the Python gateway: client messages in, child    *)
(* MCP server out, with every tools/call decided by CBAC, DIFC, the        *)
(* workflow engine and the AIA auditor, and every decision written to the  *)
(* receipt ledger.                                                         *)
(*                                                                         *)
(* All of it runs on one asyncio thread, so a step is the code between two *)
(* awaits: receiving a message up to the auditor or the write to the       *)
(* child, resuming after the auditor, resuming after the child's answer or *)
(* the timeout, one line of the stdout dispatcher.  Calls interleave at    *)
(* those awaits whenever process_message is run for several messages; the  *)
(* run() loop awaits each message and is the case MaxInFlight = 1.         *)
(***************************************************************************)
EXTENDS WorkflowEngine

CONSTANTS
    Calls,          \* client messages with an id, one process_message each
    NoCall,         \* an empty slot of the correlation table
    Tags,           \* DIFC taint tags
    Produces,       \* TOOL_PRODUCED_TAINTS: the tags a tool's result adds
    Disallowed,     \* the tags that may not flow into the sink a tool is
    AuditorOn,      \* config.aia.enabled
    MaxInFlight,    \* how many process_message calls may run at once
    UniqueIds       \* the client never reuses a request id

ASSUME ProxyAssumption ==
    /\ IsFiniteSet(Calls) /\ NoCall \notin Calls
    /\ Produces \in [Tools -> SUBSET Tags]
    /\ Disallowed \in [Tools -> SUBSET Tags]
    /\ AuditorOn \in BOOLEAN /\ UniqueIds \in BOOLEAN
    /\ MaxInFlight \in Nat \ {0}

\* run() reads the next message only when the last one is answered.
RunLoop == MaxInFlight = 1

VARIABLES
    eng,          \* the workflow engine's state for the session
    taint,        \* the session's taint tags
    pc,           \* where each process_message stands
    req,          \* what each call asked for, and its workflow snapshot
    fut,          \* the future each forwarded call waits on
    table,        \* self.pending: request id -> the call whose future is registered
    loop,         \* is the proxy accepting messages
    dispatcher,   \* the stdout dispatcher task
    child,        \* the child process
    stdinOpen,    \* does the event loop still take the child's stdin for open
    inbox,        \* calls written to the child and not yet looked at
    executed,     \* calls the child has executed
    answered,     \* calls the child has answered
    stdout,       \* lines of the child's stdout the dispatcher has not read
    ledgerOk,     \* did the ledger verify when it was opened
    receipts,     \* the receipts whose record returned, in order
    outcomes      \* history: what the engine was told of tool calls, in order

callVars  == <<pc, req, fut, table>>
childVars == <<child, stdinOpen, inbox, executed, answered, stdout>>
vars == <<eng, taint, callVars, loop, dispatcher, childVars, ledgerOk,
          receipts, outcomes>>

-----------------------------------------------------------------------------
PcStates == {"idle", "auditing", "draining", "waiting", "done", "raised"}

Snapshots == [wf : Nat, before : States \cup {Stay}, after : States \cup {Stay}]

ToolRequests == [kind : {"tool"}, id : RequestIds, tool : Tools, snap : Snapshots]

PlainRequests == [kind : {"plain"}, id : RequestIds]

NoRequest == [kind |-> "none"]

FutStates == {"none", "pending", "result", "error", "lost"}

Messages == [id : RequestIds, kind : {"result", "error"}]

\* A line that is JSON but not an object: msg.get raises in the dispatcher.
Garbage == [kind |-> "garbage"]

Decisions == {"ALLOW", "BLOCK", "ESCALATE"}

Receipts ==
    [call : Calls, decision : Decisions, obs : Observations, snap : Snapshots]

Outcomes == [call : Calls, obs : Observations]

Verdicts == {"ALLOW", "BLOCK", "ESCALATE", "TIMED_OUT", "MALFORMED"}

InFlight == {c \in Calls : pc[c] \in {"auditing", "draining", "waiting"}}

Forwarded == {c \in Calls : pc[c] \in {"draining", "waiting"}}

-----------------------------------------------------------------------------
(* The decision *)

\* DecisionArbiter.arbitrate.  aia is a verdict, or "NONE" when the auditor
\* was not asked.
Arbitrate(cbac, difc, workflow, aia) ==
    IF ~(cbac /\ difc /\ workflow) \/ aia = "BLOCK" THEN "BLOCK"
    ELSE IF aia \in {"TIMED_OUT", "MALFORMED", "ESCALATE"} THEN "ESCALATE"
    ELSE "ALLOW"

\* SessionTaintTracker.evaluate
FlowAllowed(t) == taint \cap Disallowed[t] = {}

\* ledger.record: only an ALLOW keeps the observation it is given.
Receipt(c, decision, obs, snap) ==
    [call |-> c, decision |-> decision,
     obs |-> IF decision = "ALLOW" THEN obs ELSE "NOT_SENT", snap |-> snap]

-----------------------------------------------------------------------------
(* The end of process_message *)

\* An exception leaves process_message.  It ends the run() loop; a caller
\* that gathers several messages sees it as one failed result.
Raise(c) ==
    /\ pc' = [pc EXCEPT ![c] = "raised"]
    /\ loop' = IF RunLoop THEN "stopped" ELSE loop

\* ledger.record raises on a ledger that failed verification, and on one that
\* verified when open, write, flush or fsync fails.
RecordAndReturn(c, decision, obs, snap) ==
    \/ /\ ledgerOk
       /\ receipts' = Append(receipts, Receipt(c, decision, obs, snap))
       /\ pc' = [pc EXCEPT ![c] = "done"]
       /\ loop' = loop
    \/ /\ receipts' = receipts
       /\ Raise(c)

\* engine.commit_outcome for call c, whose request is r.
Commit(c, r, e, obs) ==
    /\ eng' = CommitOutcome(e, r.id, r.tool, obs)
    /\ outcomes' = Append(outcomes, [call |-> c, obs |-> obs])

\* Fault: the receipt keeps the state from before the call.
ConcludeToolStale(c, r, e, obs) ==
    /\ taint' = IF obs = "RESPONSE_RECEIVED" THEN taint \cup Produces[r.tool] ELSE taint
    /\ Commit(c, r, e, obs)
    /\ RecordAndReturn(c, "ALLOW", obs, [r.snap EXCEPT !.after = r.snap.before])

\* A tools/call that was forwarded, or could not be: e is the engine state
\* so far.  The taint and the workflow are updated before the receipt.
ConcludeTool(c, r, e, obs) ==
    /\ taint' = IF obs = "RESPONSE_RECEIVED" THEN taint \cup Produces[r.tool] ELSE taint
    /\ Commit(c, r, e, obs)
    /\ RecordAndReturn(c, "ALLOW", obs,
           [r.snap EXCEPT !.after = IF obs = "RESPONSE_RECEIVED" THEN @ ELSE r.snap.before])

\* _forward_request_to_child has returned; other requests only return its value.
Conclude(c, r, e, obs) ==
    \/ /\ r.kind = "tool"
       /\ ConcludeTool(c, r, e, obs)
    \/ /\ r.kind = "plain"
       /\ pc' = [pc EXCEPT ![c] = "done"]
       /\ UNCHANGED <<eng, taint, loop, receipts, outcomes>>

\* A BLOCK or ESCALATE: nothing is written to the child.
Refuse(c, r, e, decision) ==
    /\ Commit(c, r, e, "NOT_SENT")
    /\ RecordAndReturn(c, decision, "NOT_SENT", [r.snap EXCEPT !.after = r.snap.before])
    /\ UNCHANGED taint

-----------------------------------------------------------------------------
(* _forward_request_to_child *)

\* The process was never started.
ForwardNoProcess(c, r, e) ==
    /\ child = "absent"
    /\ Conclude(c, r, e, "SENT_CHILD_NO_RESPONSE")
    /\ UNCHANGED <<fut, table, inbox>>

\* The future is registered before the write; if the pipe is known to be
\* lost drain() raises ConnectionResetError, which nothing here catches.
ForwardToLostPipe(c, r, e) ==
    /\ child # "absent" /\ ~stdinOpen
    /\ fut' = [fut EXCEPT ![c] = "pending"]
    /\ table' = [table EXCEPT ![r.id] = c]
    /\ eng' = e
    /\ Raise(c)
    /\ UNCHANGED <<taint, inbox, receipts, outcomes>>

\* The bytes go into the pipe; drain() returns at once, or waits for the
\* child to read when the pipe is full.
ForwardToPipe(c, r, e) ==
    /\ child # "absent" /\ stdinOpen
    /\ fut' = [fut EXCEPT ![c] = "pending"]
    /\ table' = [table EXCEPT ![r.id] = c]
    /\ inbox' = IF child = "up" THEN inbox \cup {c} ELSE inbox
    /\ \E full \in BOOLEAN :
          pc' = [pc EXCEPT ![c] = IF full THEN "draining" ELSE "waiting"]
    /\ eng' = e
    /\ UNCHANGED <<taint, loop, receipts, outcomes>>

Forward(c, r, e) ==
    ForwardNoProcess(c, r, e) \/ ForwardToLostPipe(c, r, e) \/ ForwardToPipe(c, r, e)

-----------------------------------------------------------------------------
(* process_message, up to its first await *)

\* The client sends a message with an id.
Accept(c, r) ==
    /\ loop = "accepting"
    /\ pc[c] = "idle"
    /\ Cardinality(InFlight) < MaxInFlight
    /\ RunLoop => child # "absent"
    /\ UniqueIds => \A d \in Calls : pc[d] # "idle" => req[d].id # r.id
    /\ req' = [req EXCEPT ![c] = r]
    /\ UNCHANGED <<dispatcher, child, stdinOpen, executed, answered, stdout, ledgerOk>>

ToolRequest(id, t) ==
    [kind |-> "tool", id |-> id, tool |-> t, snap |-> Snapshot(eng, t)]

\* A deterministic layer denies the call.
ReceiveDenied(c, id, t, cbac) ==
    LET r == ToolRequest(id, t) IN
    /\ ~(cbac /\ FlowAllowed(t) /\ Permits(eng, t))
    /\ Accept(c, r)
    /\ Refuse(c, r, Evaluate(eng, id, t),
              Arbitrate(cbac, FlowAllowed(t), Permits(eng, t), "NONE"))
    /\ UNCHANGED <<fut, table, inbox>>

\* All three permit it and the auditor is asked.
ReceiveForAudit(c, id, t) ==
    LET r == ToolRequest(id, t) IN
    /\ AuditorOn
    /\ FlowAllowed(t) /\ Permits(eng, t)
    /\ Accept(c, r)
    /\ eng' = Evaluate(eng, id, t)
    /\ pc' = [pc EXCEPT ![c] = "auditing"]
    /\ UNCHANGED <<taint, fut, table, loop, inbox, receipts, outcomes>>

\* All three permit it and there is no auditor.
ReceivePermitted(c, id, t) ==
    LET r == ToolRequest(id, t) IN
    /\ ~AuditorOn
    /\ FlowAllowed(t) /\ Permits(eng, t)
    /\ Accept(c, r)
    /\ Arbitrate(TRUE, TRUE, TRUE, "NONE") = "ALLOW"
    /\ Forward(c, r, Evaluate(eng, id, t))

\* Any method but tools/call is forwarded as it is.
ReceivePlain(c, id) ==
    LET r == [kind |-> "plain", id |-> id] IN
    /\ Accept(c, r)
    /\ Forward(c, r, eng)

-----------------------------------------------------------------------------
(* process_message, after the auditor *)

AfterAudit == <<req, dispatcher, child, stdinOpen, executed, answered, stdout, ledgerOk>>

AuditPermits(c, verdict) ==
    /\ pc[c] = "auditing"
    /\ Arbitrate(TRUE, TRUE, TRUE, verdict) = "ALLOW"
    /\ Forward(c, req[c], eng)
    /\ UNCHANGED AfterAudit

AuditRefuses(c, verdict) ==
    /\ pc[c] = "auditing"
    /\ Arbitrate(TRUE, TRUE, TRUE, verdict) # "ALLOW"
    /\ Refuse(c, req[c], eng, Arbitrate(TRUE, TRUE, TRUE, verdict))
    /\ UNCHANGED <<AfterAudit, fut, table, inbox>>

-----------------------------------------------------------------------------
(* process_message, after the write *)

\* The child has read: drain() returns and the timeout starts to run.
DrainReturns(c) ==
    /\ pc[c] = "draining" /\ (child = "up" \/ c \in executed)
    /\ pc' = [pc EXCEPT ![c] = "waiting"]
    /\ UNCHANGED <<eng, taint, req, fut, table, loop, dispatcher, childVars, ledgerOk,
                   receipts, outcomes>>

\* The pipe is lost while drain() waits: as in ForwardToLostPipe.
DrainRaises(c) ==
    /\ pc[c] = "draining" /\ ~stdinOpen
    /\ Raise(c)
    /\ UNCHANGED <<eng, taint, req, fut, table, dispatcher, childVars, ledgerOk,
                   receipts, outcomes>>

\* Fault: the id stays in the correlation table.
ReleaseNothing(c) == table

Release(c) == [table EXCEPT ![req[c].id] = NoCall]

\* The dispatcher delivered a message: a "result" counts as a response, a
\* JSON-RPC error does not.
ResumeAnswered(c) ==
    /\ pc[c] = "waiting" /\ fut[c] \in {"result", "error"}
    /\ Conclude(c, req[c], eng,
           IF fut[c] = "result" THEN "RESPONSE_RECEIVED" ELSE "SENT_CHILD_NO_RESPONSE")
    /\ UNCHANGED <<req, fut, table, dispatcher, childVars, ledgerOk>>

\* Fault: the failure is passed on without a receipt.
ResumeLostSilently(c) ==
    /\ pc[c] = "waiting" /\ fut[c] = "lost"
    /\ pc' = [pc EXCEPT ![c] = "done"]
    /\ table' = Release(c)
    /\ UNCHANGED <<eng, taint, loop, req, fut, dispatcher, childVars, ledgerOk,
                   receipts, outcomes>>

\* The dispatcher ended and failed the future (RuntimeError).
ResumeLost(c) ==
    /\ pc[c] = "waiting" /\ fut[c] = "lost"
    /\ Conclude(c, req[c], eng, "SENT_CHILD_NO_RESPONSE")
    /\ table' = Release(c)
    /\ UNCHANGED <<req, fut, dispatcher, childVars, ledgerOk>>

\* Fault: a timeout is taken for a call that was never sent.
TimeOutAsNotSent(c) ==
    /\ pc[c] = "waiting" /\ fut[c] = "pending"
    /\ Conclude(c, req[c], eng, "NOT_SENT")
    /\ table' = Release(c)
    /\ UNCHANGED <<req, fut, dispatcher, childVars, ledgerOk>>

\* Fault: only a call that is still registered times out.
TimeOutRegistered(c) ==
    /\ pc[c] = "waiting" /\ fut[c] = "pending" /\ table[req[c].id] = c
    /\ Conclude(c, req[c], eng, "SENT_CHILD_NO_RESPONSE")
    /\ table' = Release(c)
    /\ UNCHANGED <<req, fut, dispatcher, childVars, ledgerOk>>

\* asyncio.wait_for gives up; the id leaves the correlation table.
TimeOut(c) ==
    /\ pc[c] = "waiting" /\ fut[c] = "pending"
    /\ Conclude(c, req[c], eng, "SENT_CHILD_NO_RESPONSE")
    /\ table' = Release(c)
    /\ UNCHANGED <<req, fut, dispatcher, childVars, ledgerOk>>

-----------------------------------------------------------------------------
(* _child_stdout_dispatcher *)

\* finally: every registered future fails, and the table is cleared.
DispatcherEnds ==
    /\ dispatcher' = "ended"
    /\ fut' = [c \in Calls |->
                 IF fut[c] = "pending" /\ (\E id \in RequestIds : table[id] = c)
                 THEN "lost" ELSE fut[c]]
    /\ table' = [id \in RequestIds |-> NoCall]

\* One line with an id: resolve the registered future, or drop the line.
DispatchMessage ==
    /\ dispatcher = "reading" /\ stdout # << >> /\ Head(stdout) # Garbage
    /\ stdout' = Tail(stdout)
    /\ LET msg == Head(stdout)
           c   == table[msg.id]
       IN  \/ /\ c # NoCall
              /\ fut' = [fut EXCEPT ![c] = IF @ = "pending" THEN msg.kind ELSE @]
              /\ table' = [table EXCEPT ![msg.id] = NoCall]
           \/ /\ c = NoCall
              /\ UNCHANGED <<fut, table>>
    /\ UNCHANGED <<eng, taint, pc, req, loop, dispatcher, child, stdinOpen, inbox,
                   executed, answered, ledgerOk, receipts, outcomes>>

DispatchGarbage ==
    /\ dispatcher = "reading" /\ stdout # << >> /\ Head(stdout) = Garbage
    /\ stdout' = Tail(stdout)
    /\ DispatcherEnds
    /\ UNCHANGED <<eng, taint, pc, req, loop, child, stdinOpen, inbox,
                   executed, answered, ledgerOk, receipts, outcomes>>

DispatchEof ==
    /\ dispatcher = "reading" /\ stdout = << >> /\ child = "down"
    /\ DispatcherEnds
    /\ UNCHANGED <<eng, taint, pc, req, loop, childVars, ledgerOk, receipts, outcomes>>

-----------------------------------------------------------------------------
(* start and close *)

Start ==
    /\ child = "absent"
    /\ child' = "up" /\ stdinOpen' = TRUE /\ dispatcher' = "reading"
    /\ UNCHANGED <<eng, taint, callVars, loop, inbox, executed, answered, stdout,
                   ledgerOk, receipts, outcomes>>

\* run() closes at client EOF or after an exception, when no message is in
\* flight; other callers close when they like.
Close ==
    /\ loop # "closed" /\ child # "absent"
    /\ RunLoop => InFlight = {}
    /\ loop' = "closed" /\ child' = "down" /\ stdinOpen' = FALSE /\ inbox' = {}
    /\ IF dispatcher = "reading"
       THEN DispatcherEnds ELSE UNCHANGED <<dispatcher, fut, table>>
    /\ UNCHANGED <<eng, taint, pc, req, executed, answered, stdout, ledgerOk,
                   receipts, outcomes>>

-----------------------------------------------------------------------------
(* The child MCP server: it may execute, answer, stay silent or die. *)

ChildExecutes(c) ==
    /\ child = "up" /\ c \in inbox
    /\ inbox' = inbox \ {c} /\ executed' = executed \cup {c}
    /\ UNCHANGED <<eng, taint, callVars, loop, dispatcher, child, stdinOpen,
                   answered, stdout, ledgerOk, receipts, outcomes>>

ChildAnswers(c, kind) ==
    /\ child = "up" /\ c \in executed \ answered
    /\ stdout' = Append(stdout, [id |-> req[c].id, kind |-> kind])
    /\ answered' = answered \cup {c}
    /\ UNCHANGED <<eng, taint, callVars, loop, dispatcher, child, stdinOpen, inbox,
                   executed, ledgerOk, receipts, outcomes>>

\* Bound: at most one such line is on its way.
ChildEmitsGarbage ==
    /\ child = "up" /\ dispatcher = "reading"
    /\ \A i \in DOMAIN stdout : stdout[i] # Garbage
    /\ stdout' = Append(stdout, Garbage)
    /\ UNCHANGED <<eng, taint, callVars, loop, dispatcher, child, stdinOpen, inbox,
                   executed, answered, ledgerOk, receipts, outcomes>>

ChildDies ==
    /\ child = "up"
    /\ child' = "down" /\ inbox' = {}
    /\ UNCHANGED <<eng, taint, callVars, loop, dispatcher, stdinOpen, executed,
                   answered, stdout, ledgerOk, receipts, outcomes>>

\* The event loop notices that the child's end of stdin is gone.
StdinLost ==
    /\ child = "down" /\ stdinOpen
    /\ stdinOpen' = FALSE
    /\ UNCHANGED <<eng, taint, callVars, loop, dispatcher, child, inbox, executed,
                   answered, stdout, ledgerOk, receipts, outcomes>>

-----------------------------------------------------------------------------
Init ==
    /\ eng = InitEngine
    /\ taint = {}
    /\ pc = [c \in Calls |-> "idle"]
    /\ req = [c \in Calls |-> NoRequest]
    /\ fut = [c \in Calls |-> "none"]
    /\ table = [id \in RequestIds |-> NoCall]
    /\ loop = "accepting"
    /\ dispatcher = "none"
    /\ child = "absent" /\ stdinOpen = FALSE
    /\ inbox = {} /\ executed = {} /\ answered = {} /\ stdout = << >>
    /\ ledgerOk \in BOOLEAN
    /\ receipts = << >> /\ outcomes = << >>

Receive(c) ==
    \E id \in RequestIds :
        \/ \E t \in Tools, cbac \in BOOLEAN : ReceiveDenied(c, id, t, cbac)
        \/ \E t \in Tools : ReceiveForAudit(c, id, t) \/ ReceivePermitted(c, id, t)
        \/ ReceivePlain(c, id)

Audited(c) == \E verdict \in Verdicts : AuditPermits(c, verdict) \/ AuditRefuses(c, verdict)

Resume(c) == ResumeAnswered(c) \/ ResumeLost(c) \/ TimeOut(c)

Drained(c) == DrainReturns(c) \/ DrainRaises(c)

Dispatch == DispatchMessage \/ DispatchGarbage \/ DispatchEof

Child(c) == ChildExecutes(c) \/ \E kind \in {"result", "error"} : ChildAnswers(c, kind)

Next ==
    \/ \E c \in Calls : Receive(c) \/ Audited(c) \/ Drained(c) \/ Resume(c) \/ Child(c)
    \/ Dispatch
    \/ Start \/ Close
    \/ ChildEmitsGarbage \/ ChildDies \/ StdinLost

Spec == Init /\ [][Next]_vars

\* The auditor runs under a deadline (AsyncTimeoutSupervisor), wait_for
\* under a timer, and the event loop runs what is ready and sees a lost pipe.
\* Nothing is assumed of the client, of the auditor's model or of the child.
Fairness ==
    /\ \A c \in Calls : /\ WF_vars(AuditRefuses(c, "TIMED_OUT"))
                        /\ WF_vars(Resume(c))
                        /\ WF_vars(DrainRaises(c))
                        /\ WF_vars(c \in executed /\ DrainReturns(c))
    /\ WF_vars(Dispatch) /\ WF_vars(StdinLost)

FairSpec == Spec /\ Fairness

-----------------------------------------------------------------------------
(* Properties *)

TypeOK ==
    /\ eng \in Engine
    /\ taint \subseteq Tags
    /\ pc \in [Calls -> PcStates]
    /\ req \in [Calls -> ToolRequests \cup PlainRequests \cup {NoRequest}]
    /\ \A c \in Calls : pc[c] # "idle" => req[c] # NoRequest
    /\ \A c \in Calls : pc[c] = "auditing" => req[c] \in ToolRequests
    /\ fut \in [Calls -> FutStates]
    /\ table \in [RequestIds -> Calls \cup {NoCall}]
    /\ loop \in {"accepting", "stopped", "closed"}
    /\ dispatcher \in {"none", "reading", "ended"}
    /\ child \in {"absent", "up", "down"} /\ stdinOpen \in BOOLEAN
    /\ inbox \subseteq Calls /\ executed \subseteq Calls /\ answered \subseteq executed
    /\ \A c \in inbox \cup executed : pc[c] # "idle"
    /\ stdout \in Seq(Messages \cup {Garbage})
    /\ ledgerOk \in BOOLEAN
    /\ receipts \in Seq(Receipts) /\ outcomes \in Seq(Outcomes)

RecordedAs(c, obs) ==
    \E i \in DOMAIN receipts : receipts[i].call = c /\ receipts[i].obs = obs

\* A receipt is about its own call: RESPONSE_RECEIVED only if the child
\* answered this call, NOT_SENT only if the child was never given it.  It
\* rests on the correlation table, so it asks the client for unique ids.
ReceiptsTruthful ==
    \A c \in Calls :
        /\ RecordedAs(c, "RESPONSE_RECEIVED") => c \in answered
        /\ RecordedAs(c, "NOT_SENT") => c \notin inbox \cup executed

OutcomeIs(c, obs) ==
    \E i \in DOMAIN outcomes : outcomes[i].call = c /\ outcomes[i].obs = obs

\* A tool call the child has taken up is still awaited, or the engine has been
\* told that it was sent, and a receipt says the same unless process_message
\* raised instead of recording it.  The exception is a call that raised while
\* it was written, over a lost pipe.  No call has two receipts.
NoForgottenExecution ==
    \A c \in Calls :
        /\ c \in executed /\ req[c].kind = "tool" =>
              \/ c \in Forwarded
              \/ pc[c] = "raised" /\ ~stdinOpen
              \/ \E obs \in {"RESPONSE_RECEIVED", "SENT_CHILD_NO_RESPONSE"} :
                    OutcomeIs(c, obs) /\ (RecordedAs(c, obs) \/ pc[c] = "raised")
        /\ \A i, j \in DOMAIN receipts :
              receipts[i].call = c /\ receipts[j].call = c => i = j

\* max_occurrences: a limit of n is overrun by at most the calls that were
\* already past the evaluation, so it is exact in the run() loop.
OccurrencesBounded ==
    \A w \in Workflow : \A rule \in MaxOccurrences[w] :
        eng.count[rule[1]] <= rule[2] - 1 + MaxInFlight

\* No pending transition and no correlation entry outlives its call, unless
\* process_message raised.
NothingStranded ==
    /\ \A i \in DOMAIN eng.pend :
          \E c \in InFlight \cup {d \in Calls : pc[d] = "raised"} :
              req[c].kind = "tool" /\ req[c].id = eng.pend[i].id
    /\ \A id \in RequestIds :
          table[id] # NoCall =>
              /\ table[id] \in Forwarded \cup {d \in Calls : pc[d] = "raised"}
              /\ req[table[id]].id = id

\* When the last thing the engine was told of any sent call is a missing
\* response, some workflow's certainty is UNKNOWN.  The receipts need not agree:
\* an answer takes the doubt away although its receipt could not be written.
LostCallLeavesDoubt ==
    NumWorkflows > 0 =>
        \A i \in DOMAIN outcomes :
            /\ outcomes[i].obs = "SENT_CHILD_NO_RESPONSE"
            /\ \A j \in DOMAIN outcomes : j > i => outcomes[j].obs # "RESPONSE_RECEIVED"
            => \E w \in Workflow : eng.cert[w] = "UNKNOWN"

\* The receipt of a confirmed call names the state its workflow is in once
\* the outcome is committed.
ReceiptNamesState ==
    [][\A i \in DOMAIN receipts' \ DOMAIN receipts :
          LET r == receipts'[i] IN
          r.obs = "RESPONSE_RECEIVED" /\ r.snap.wf # 0 =>
              eng'.state[r.snap.wf] = r.snap.after]_vars

\* A workflow changes state only along an edge of its graph.
MovesFollowGraph ==
    [][\A w \in Workflow :
          eng'.state[w] # eng.state[w] =>
              \E t \in Tools : Move[w][<<eng.state[w], t>>] = eng'.state[w]]_vars

\* The auditor's deadline and the response timeout end every wait they cover;
\* only drain() may wait for ever.
WaitsEnd ==
    \A c \in Calls :
        pc[c] \in {"auditing", "waiting"} ~> pc[c] \in {"draining", "done", "raised"}

-----------------------------------------------------------------------------
(* What the run() loop promises: the monitor of SequentialMonitor. *)

Monitor == INSTANCE SequentialMonitor
    WITH state <- eng.state, cert <- eng.cert, count <- eng.count, hist <- eng.hist

MonitorSpec == Monitor!Spec
=============================================================================
