------------------------- MODULE SequentialMonitor -------------------------
(***************************************************************************)
(* What a client may rely on when calls run one after another: a tool call *)
(* is decided, executed and committed as if in one step.  A confirmed call *)
(* was permitted by every workflow in the very state it advances, and      *)
(* advances it along the policy's graph; a lost call was permitted too,    *)
(* advances nothing, and leaves a workflow in doubt.  There are no pending *)
(* transitions, no auditor, no child and no timeout here.                  *)
(***************************************************************************)
EXTENDS Integers, Sequences

CONSTANTS Tools, States, Stay, NumWorkflows, Initial, Move, DenyInState,
          DenyInCertainty, CannotFollow, RequiresState, MaxOccurrences

VARIABLES state, cert, count, hist
vars == <<state, cert, count, hist>>

Workflow == 1 .. NumWorkflows

Init ==
    /\ state = Initial
    /\ cert = [w \in Workflow |-> "KNOWN"]
    /\ count = [t \in Tools |-> 0]
    /\ hist = << >>

Permitted(t) ==
    \A w \in Workflow :
        /\ <<cert[w], t>> \notin DenyInCertainty[w]
        /\ <<state[w], t>> \notin DenyInState[w]
        /\ \A i \in DOMAIN hist : <<hist[i], t>> \notin CannotFollow[w]
        /\ \A s \in States : <<t, s>> \in RequiresState[w] => state[w] = s
        /\ \A rule \in MaxOccurrences[w] : rule[1] = t => count[t] < rule[2]

\* Workflow w is the last with an edge on t from where it is; with no such
\* workflow the first one answers for the call's certainty.
Follows(w, t) ==
    /\ Move[w][<<state[w], t>>] # Stay
    /\ \A v \in Workflow : v > w => Move[v][<<state[v], t>>] = Stay

NoneFollows(t) == \A w \in Workflow : Move[w][<<state[w], t>>] = Stay

Answers(w, t) == Follows(w, t) \/ (w = 1 /\ NoneFollows(t))

Confirm(t) ==
    /\ Permitted(t)
    /\ count' = [count EXCEPT ![t] = @ + 1]
    /\ hist' = Append(hist, t)
    /\ \/ /\ NumWorkflows = 0
          /\ UNCHANGED <<state, cert>>
       \/ \E w \in Workflow :
             /\ Answers(w, t)
             /\ cert' = [cert EXCEPT ![w] = "KNOWN"]
             /\ state' = IF Follows(w, t)
                         THEN [state EXCEPT ![w] = Move[w][<<state[w], t>>]]
                         ELSE state

Lose(t) ==
    /\ Permitted(t)
    /\ \E w \in Workflow : Answers(w, t) /\ cert' = [cert EXCEPT ![w] = "UNKNOWN"]
    /\ UNCHANGED <<state, count, hist>>

Next == \E t \in Tools : Confirm(t) \/ Lose(t)

Spec == Init /\ [][Next]_vars
=============================================================================
