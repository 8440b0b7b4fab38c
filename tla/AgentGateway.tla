---------------------------- MODULE AgentGateway ----------------------------
(***************************************************************************)
(* The agent gateway process, src/agent-gateway/index.ts: its streams, the *)
(* hot state that decisions write to, and the shutdown that ends both.  On *)
(* a signal the undecided calls are destroyed and the server drains; then, *)
(* or when the grace period is over, the hot state is flushed and the      *)
(* process exits.  Either may come first, and both call exit().            *)
(***************************************************************************)
EXTENDS Integers, Sequences

CONSTANTS
  Streams, MaxBacklog,
  Rows, MaxQueue, MaxAttempts, MaxWrites, MaxLoads, MaxFailures

ASSUME GatewayAssumption ==
  /\ MaxBacklog \in Nat /\ MaxQueue \in Nat \ {0} /\ MaxAttempts \in Nat \ {0}
  /\ MaxWrites \in Nat /\ MaxLoads \in Nat /\ MaxFailures \in Nat

VARIABLES
  stream, undecided,
  maps, db, queue, upserts, drainTimer, loads, refreshing, flushed,
  failures, dropped, written, alone,
  closing       \* how far the shutdown is

Ext == INSTANCE ExtProcStream
Hot == INSTANCE HotState

streamVars == <<stream, undecided>>
hotVars == <<maps, db, queue, upserts, drainTimer, loads, refreshing, flushed,
             failures, dropped, written, alone>>
vars == <<streamVars, hotVars, closing>>

Init ==
  /\ Ext!Init /\ Hot!Init
  /\ closing = [signalled |-> FALSE, drained |-> FALSE, expired |-> FALSE]

\* process.exit(0) follows the first call of the hot state's shutdown that
\* returns.
Exited == flushed

Serve(s) ==
  /\ Ext!Envoy(s) \/ Ext!Handle(s) \/ Ext!Decide(s)
  /\ UNCHANGED <<hotVars, closing>>

\* While a decision is awaited, the policy strategies write what they learn.
Evaluate(s) ==
  /\ stream[s].deciding
  /\ \E r \in Rows : Hot!Enqueue(r)
  /\ UNCHANGED <<streamVars, closing>>

Write ==
  /\ Hot!Background
  /\ UNCHANGED <<streamVars, closing>>

Signal ==
  /\ ~closing.signalled
  /\ closing' = [closing EXCEPT !.signalled = TRUE]
  /\ Ext!DestroyUndecidedCalls
  /\ UNCHANGED hotVars

\* tryShutdown calls back: the last call is over.
Drained ==
  /\ closing.signalled /\ ~closing.drained
  /\ \A s \in Streams : ~Ext!Live(s)
  /\ closing' = [closing EXCEPT !.drained = TRUE]
  /\ Hot!Shutdown
  /\ UNCHANGED streamVars

\* Fault: the timer destroys the calls and leaves the exit to the drain.
GraceDestroysOnly ==
  /\ closing.signalled /\ ~closing.expired
  /\ closing' = [closing EXCEPT !.expired = TRUE]
  /\ Ext!DestroyUndecidedCalls
  /\ UNCHANGED hotVars

GraceExpires ==
  /\ closing.signalled /\ ~closing.expired
  /\ closing' = [closing EXCEPT !.expired = TRUE]
  /\ Ext!DestroyUndecidedCalls
  /\ Hot!Shutdown

Next ==
  /\ ~Exited
  /\ \/ \E s \in Streams : Serve(s) \/ Evaluate(s)
     \/ Write \/ Signal \/ Drained \/ GraceExpires

Spec == Init /\ [][Next]_vars

\* Node runs what is due, timers fire, and the database answers in the end.
Fairness ==
  /\ \A s \in Streams :
       /\ WF_vars(~Exited /\ Ext!Handle(s) /\ UNCHANGED <<hotVars, closing>>)
       /\ WF_vars(~Exited /\ Ext!TimeOut(s) /\ UNCHANGED <<hotVars, closing>>)
  /\ WF_vars(~Exited /\ Hot!Upserts /\ UNCHANGED <<streamVars, closing>>)
  /\ WF_vars(~Exited /\ Hot!DrainTimer /\ UNCHANGED <<streamVars, closing>>)
  /\ WF_vars(~Exited /\ Hot!StartRefresh /\ UNCHANGED <<streamVars, closing>>)
  /\ WF_vars(~Exited /\ Hot!Loads /\ UNCHANGED <<streamVars, closing>>)
  /\ WF_vars(~Exited /\ GraceExpires)

FairSpec == Spec /\ Fairness

-----------------------------------------------------------------------------
(* A clean close means "proceed" to Envoy: none comes before the verdict,   *)
(* also while the process shuts down.                                       *)
CleanCloseIsDecided == Ext!CleanCloseIsDecided

(* What a shutdown destroys: the open calls that have no verdict, and of    *)
(* those that have one only requests without a body.                        *)
ShutdownFindsUndecided == Ext!ShutdownFindsUndecided

(* A shutdown that has the queue to itself saves every write, those of the  *)
(* requests still being evaluated included.                                 *)
LoneShutdownFlushes == Hot!LoneShutdownFlushes

(* Whatever starts a drain, the timer, a refresh or the shutdown, a row of  *)
(* the database goes back to an older write only by an upsert that is tried *)
(* again (industry-hot-state.ts:340).                                       *)
OnlyRetriesGoBack == [][Hot!GoesBackByRetry]_hotVars

(* A request that was sent to its end is decided, or its stream destroyed,  *)
(* or the process exits: the decision's timeout bounds the policy engine.   *)
WholeIsDecided ==
  \A s \in Streams :
    stream[s].sent \in {"whole", "trailers"} ~>
      (stream[s].verdict # "none" \/ stream[s].closed # "open" \/ Exited)

(* After a signal the process exits, whatever Envoy and the policy engine   *)
(* do: the grace period bounds the drain (index.ts:310).                    *)
SignalEndsProcess == closing.signalled ~> Exited
=============================================================================
