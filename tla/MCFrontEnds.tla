---------------------------- MODULE MCFrontEnds ----------------------------
(***************************************************************************)
(* The two front ends that hold calls, the agent gateway and the Python    *)
(* stdio proxy, for the questions of what must happen in the end.  They    *)
(* run in different processes and share nothing: the first state chooses   *)
(* one, `part`, and only that one moves.                                   *)
(***************************************************************************)
EXTENDS AgentGateway

CONSTANTS
    Tools, States, RequestIds, Stay, NumWorkflows, Initial, Move, DenyInState,
    DenyInCertainty, CannotFollow, RequiresState, MaxOccurrences,
    Calls, NoCall, Tags, Produces, Disallowed, AuditorOn, MaxInFlight, UniqueIds

VARIABLES
    eng, taint, pc, req, fut, table, loop, dispatcher, child, stdinOpen, inbox,
    executed, answered, stdout, ledgerOk, receipts, outcomes,
    part    \* the front end this behaviour is about

Proxy == INSTANCE StdioProxy

gatewayVars == <<streamVars, hotVars, closing>>
proxyVars ==
    <<eng, taint, pc, req, fut, table, loop, dispatcher, child, stdinOpen, inbox,
      executed, answered, stdout, ledgerOk, receipts, outcomes>>
frontVars == <<gatewayVars, proxyVars, part>>

\* No workflows and no taint: the waits are the same for every policy.
NoWorkflows == << >>
NoTags == [t \in Tools |-> {}]

\* A ledger that verifies suffices: a record may raise over it just as well.
FrontInit == Init /\ Proxy!Init /\ ledgerOk /\ part \in {"gateway", "proxy"}

Gateway(step) == part = "gateway" /\ step /\ UNCHANGED <<proxyVars, part>>

StdioProxy(step) == part = "proxy" /\ step /\ UNCHANGED <<gatewayVars, part>>

FrontNext == Gateway(Next) \/ StdioProxy(Proxy!Next)

\* What the proxy owes to one call.  At most one of these steps can be taken
\* at a time, or either ends the same wait, so that fairness of each is
\* fairness of their disjunction.
GoesOn(c) ==
    \/ Proxy!AuditRefuses(c, "TIMED_OUT")
    \/ Proxy!Resume(c)
    \/ Proxy!DrainRaises(c)
    \/ c \in executed /\ Proxy!DrainReturns(c)

\* The fairness of AgentGateway and of StdioProxy, each for its own part.
FrontFairness ==
    /\ \A s \in Streams :
         /\ WF_frontVars(Gateway(~Exited /\ Ext!Handle(s) /\ UNCHANGED <<hotVars, closing>>))
         /\ WF_frontVars(Gateway(~Exited /\ Ext!TimeOut(s) /\ UNCHANGED <<hotVars, closing>>))
    /\ WF_frontVars(Gateway(~Exited /\ Hot!Upserts /\ UNCHANGED <<streamVars, closing>>))
    /\ WF_frontVars(Gateway(~Exited /\ Hot!DrainTimer /\ UNCHANGED <<streamVars, closing>>))
    /\ WF_frontVars(Gateway(~Exited /\ Hot!StartRefresh /\ UNCHANGED <<streamVars, closing>>))
    /\ WF_frontVars(Gateway(~Exited /\ Hot!Loads /\ UNCHANGED <<streamVars, closing>>))
    /\ WF_frontVars(Gateway(~Exited /\ GraceExpires))
    /\ \A c \in Calls : WF_frontVars(StdioProxy(GoesOn(c)))
    /\ WF_frontVars(StdioProxy(Proxy!Dispatch)) /\ WF_frontVars(StdioProxy(Proxy!StdinLost))

FrontSpec == FrontInit /\ [][FrontNext]_frontVars /\ FrontFairness

(* The auditor's deadline and the response timeout end every wait of the    *)
(* proxy that they cover.                                                  *)
WaitsEnd == Proxy!WaitsEnd
=============================================================================
