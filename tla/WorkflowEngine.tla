--------------------------- MODULE WorkflowEngine ---------------------------
(***************************************************************************)
(* The workflow engine of the Python gateway (workflow/engine.py), for one *)
(* session: which tool calls the declared workflows permit, the transition *)
(* an evaluation leaves pending, and what the observed outcome of a call   *)
(* commits.  The engine runs under one lock and never awaits, so each of   *)
(* its methods is a function from engine states to engine states; the      *)
(* proxies that call them decide how the methods interleave.               *)
(*                                                                         *)
(* Workflows are numbered in the order of the policy's dictionary, which   *)
(* is the order the engine visits them in.                                 *)
(***************************************************************************)
EXTENDS Integers, Sequences, FiniteSets, SequencesExt

CONSTANTS
    Tools,            \* tool names
    States,           \* names of workflow states
    RequestIds,       \* JSON-RPC request ids, as str(req_id)
    Stay,             \* "no transition", not a state
    NumWorkflows,     \* how many workflows the policy declares
    Initial,          \* Initial[w]: the declared initial state
    Move,             \* Move[w][<<s, t>>]: target of the first transition from s on t, or Stay
    DenyInState,      \* DenyInState[w]: <<state, tool>> of the when_state constraints
    DenyInCertainty,  \* DenyInCertainty[w]: <<certainty, tool>> of the certainty constraints
    CannotFollow,     \* CannotFollow[w]: <<trigger, forbidden tool>>
    RequiresState,    \* RequiresState[w]: <<tool, state>>
    MaxOccurrences    \* MaxOccurrences[w]: <<tool, limit>>

Workflow == 1 .. NumWorkflows

Certainties == {"KNOWN", "UNKNOWN"}

\* ExecutionObservation: what the transport saw of a call.
Observations == {"RESPONSE_RECEIVED", "SENT_CHILD_NO_RESPONSE", "NOT_SENT"}

ASSUME PolicyAssumption ==
    /\ NumWorkflows \in Nat
    /\ Stay \notin States
    /\ Initial \in [Workflow -> States]
    /\ Move \in [Workflow -> [States \X Tools -> States \cup {Stay}]]
    /\ DenyInState \in [Workflow -> SUBSET (States \X Tools)]
    /\ DenyInCertainty \in [Workflow -> SUBSET (Certainties \X Tools)]
    /\ CannotFollow \in [Workflow -> SUBSET (Tools \X Tools)]
    /\ RequiresState \in [Workflow -> SUBSET (Tools \X States)]
    /\ \A w \in Workflow : MaxOccurrences[w] \subseteq Tools \X Nat

-----------------------------------------------------------------------------
(* Engine states *)

\* A pending transition: commit_outcome finds it by request id, else by tool.
PendingEntry ==
    [id : RequestIds, wf : Workflow, to : States, tool : Tools]

\* `pend` is a Python dictionary: a sequence in insertion order, one entry per id.
Engine ==
    [state : [Workflow -> States],
     cert  : [Workflow -> Certainties],
     count : [Tools -> Nat],
     hist  : Seq(Tools),
     pend  : Seq(PendingEntry)]

InitEngine ==
    [state |-> Initial,
     cert  |-> [w \in Workflow |-> "KNOWN"],
     count |-> [t \in Tools |-> 0],
     hist  |-> << >>,
     pend  |-> << >>]

-----------------------------------------------------------------------------
(* evaluate *)

\* Fault: a limit of n lets the call through that makes it n + 1.
ForbidsLate(eng, w, t) ==
    \/ <<eng.cert[w], t>> \in DenyInCertainty[w]
    \/ <<eng.state[w], t>> \in DenyInState[w]
    \/ \E i \in DOMAIN eng.hist : <<eng.hist[i], t>> \in CannotFollow[w]
    \/ \E s \in States : <<t, s>> \in RequiresState[w] /\ eng.state[w] # s
    \/ \E rule \in MaxOccurrences[w] : rule[1] = t /\ eng.count[t] > rule[2]

\* The five rules by which workflow w forbids tool t.
Forbids(eng, w, t) ==
    \/ <<eng.cert[w], t>> \in DenyInCertainty[w]
    \/ <<eng.state[w], t>> \in DenyInState[w]
    \/ \E i \in DOMAIN eng.hist : <<eng.hist[i], t>> \in CannotFollow[w]
    \/ \E s \in States : <<t, s>> \in RequiresState[w] /\ eng.state[w] # s
    \/ \E rule \in MaxOccurrences[w] : rule[1] = t /\ eng.count[t] >= rule[2]

Permits(eng, t) == \A w \in Workflow : ~Forbids(eng, w, t)

\* Fault: the missing transition is not recognised as none.
MoversUnchecked(eng, t) == {w \in Workflow : \A v \in 1 .. w : ~Forbids(eng, v, t)}

\* The loop stops at the first workflow that forbids t: those it passed
\* whose current state has a transition on t.
Movers(eng, t) ==
    {w \in Workflow :
        /\ \A v \in 1 .. w : ~Forbids(eng, v, t)
        /\ Move[w][<<eng.state[w], t>>] # Stay}

LastMover(eng, t) == CHOOSE w \in Movers(eng, t) : \A v \in Movers(eng, t) : v <= w

\* Assignment to _pending_transitions[(session, id)]: an existing key keeps its place.
Store(pend, e) ==
    IF \E i \in DOMAIN pend : pend[i].id = e.id
    THEN [i \in DOMAIN pend |-> IF pend[i].id = e.id THEN e ELSE pend[i]]
    ELSE Append(pend, e)

\* All movers store under the same key, so the last one's transition remains.
Evaluate(eng, id, t) ==
    IF Movers(eng, t) = {} THEN eng
    ELSE LET w == LastMover(eng, t) IN
         [eng EXCEPT !.pend =
            Store(@, [id |-> id, wf |-> w, to |-> Move[w][<<eng.state[w], t>>], tool |-> t])]

FirstDenier(eng, t) ==
    CHOOSE w \in Workflow : Forbids(eng, w, t) /\ \A v \in 1 .. w - 1 : ~Forbids(eng, v, t)

\* What the decision says of the workflow.  A denial names the workflow that
\* denies and its state; a permission names the first workflow, its state,
\* and the target of the last transition found.  No workflow is number 0.
Snapshot(eng, t) ==
    IF NumWorkflows = 0
    THEN [wf |-> 0, before |-> Stay, after |-> Stay]
    ELSE IF ~Permits(eng, t)
    THEN LET w == FirstDenier(eng, t)
         IN  [wf |-> w, before |-> eng.state[w], after |-> eng.state[w]]
    ELSE [wf |-> 1, before |-> eng.state[1],
          after |-> IF Movers(eng, t) = {} THEN eng.state[1]
                    ELSE LET w == LastMover(eng, t) IN Move[w][<<eng.state[w], t>>]]

-----------------------------------------------------------------------------
(* commit_outcome *)

\* The entry of this request; without one, entries of the same tool.
Matches(pend, id, t) ==
    LET own == {i \in DOMAIN pend : pend[i].id = id}
    IN  IF own # {} THEN own ELSE {i \in DOMAIN pend : pend[i].tool = t}

FirstMatch(pend, id, t) ==
    CHOOSE i \in Matches(pend, id, t) : \A j \in Matches(pend, id, t) : i <= j

\* The workflow whose certainty an outcome speaks of: the entry's, else the first.
Owner(pend, id, t) ==
    IF Matches(pend, id, t) # {} THEN pend[FirstMatch(pend, id, t)].wf ELSE 1

Discard(eng, id, t) ==
    IF Matches(eng.pend, id, t) = {} THEN eng
    ELSE [eng EXCEPT !.pend = RemoveAt(@, FirstMatch(@, id, t))]

\* RESPONSE_RECEIVED: advance, become certain, count the call.
Confirm(eng, id, t) ==
    LET w == Owner(eng.pend, id, t)
        d == Discard(eng, id, t)
    IN  [d EXCEPT !.state = IF Matches(eng.pend, id, t) = {} THEN d.state
                            ELSE [d.state EXCEPT ![w] =
                                    eng.pend[FirstMatch(eng.pend, id, t)].to],
                  !.cert  = [d.cert EXCEPT ![w] = "KNOWN"],
                  !.count = [d.count EXCEPT ![t] = @ + 1],
                  !.hist  = Append(d.hist, t)]

\* Fault: a lost call leaves no doubt behind.
LoseForgetful(eng, id, t) == Discard(eng, id, t)

\* Fault: a lost call advances its workflow as if it had been answered.
LoseAdvances(eng, id, t) ==
    [Confirm(eng, id, t) EXCEPT
        !.cert = [@ EXCEPT ![Owner(eng.pend, id, t)] = "UNKNOWN"]]

\* SENT_CHILD_NO_RESPONSE: keep the state, become uncertain.
Lose(eng, id, t) ==
    LET d == Discard(eng, id, t)
    IN  [d EXCEPT !.cert = [d.cert EXCEPT ![Owner(eng.pend, id, t)] = "UNKNOWN"]]

CommitOutcome(eng, id, t, obs) ==
    CASE obs = "RESPONSE_RECEIVED"      -> Confirm(eng, id, t)
      [] obs = "SENT_CHILD_NO_RESPONSE" -> Lose(eng, id, t)
      [] obs = "NOT_SENT"               -> Discard(eng, id, t)
=============================================================================
