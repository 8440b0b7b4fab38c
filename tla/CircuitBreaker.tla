--------------------------- MODULE CircuitBreaker ---------------------------
(***************************************************************************)
(* The circuit breaker of one upstream server in the TypeScript proxy: the *)
(* breaker objects of several replicas, the concurrent requests that ask   *)
(* them and report back, and the snapshots they exchange through Redis.    *)
(*                                                                         *)
(* A breaker's methods are synchronous, so each is an operator on the      *)
(* breaker's fields; a handler's steps between two awaits are the actions. *)
(* Lengths of time are abstracted to `due`: has the wait since openedAt    *)
(* elapsed?  Backoff, its cap and its jitter only change that length.      *)
(***************************************************************************)
EXTENDS Integers, Sequences, FiniteSets, SequencesExt

CONSTANTS
    Replicas,           \* proxy processes that share the upstream
    Requests,           \* concurrent requests; one that ended may come again
    Nowhere,            \* not a replica: the request is not in a handler
    FailureThreshold,   \* failures in a row that open the circuit
    SuccessThreshold,   \* successes in HALF_OPEN that close it
    Transport,          \* whose handlers use it: "stdio" or "http"
    UseRedis,           \* isRedisConfigured()
    Faults,             \* Redis commands fail, messages get lost, replicas restart
    LateHydration,      \* the first GET is answered after requests have begun
    MaxForced,          \* bound: calls of forceOpen
    MaxBacklog          \* bound: snapshots a replica has under way each way

ASSUME BreakerAssumption ==
    /\ Nowhere \notin Replicas
    /\ IsFiniteSet(Requests)
    /\ FailureThreshold \in Nat \ {0} /\ SuccessThreshold \in Nat \ {0}
    /\ Transport \in {"stdio", "http"}
    /\ UseRedis \in BOOLEAN /\ Faults \in BOOLEAN /\ LateHydration \in BOOLEAN
    /\ MaxForced \in Nat /\ MaxBacklog \in Nat

VARIABLES
    brk,       \* brk[r]: the fields of replica r's breaker
    at,        \* at[c]: the replica whose handler request c is in, after allowRequest
    failing,   \* requests that have reported a failure and will report once more
    probes,    \* probes[r]: requests in flight that r let through since it went HALF_OPEN
    forced,    \* calls of forceOpen so far
    saves,     \* saves[r]: calls of saveCircuitToRedis not yet finished, in order
    store,     \* the snapshot under the circuit's key in Redis
    inbox,     \* inbox[r]: published snapshots r has not yet handled
    hydration  \* hydration[r]: the GET of getCircuitBreaker

redisVars == <<saves, store, inbox, hydration>>
vars == <<brk, at, failing, probes, forced, redisVars>>

-----------------------------------------------------------------------------
(* The breaker's fields and methods *)

CircuitState == {"CLOSED", "OPEN", "HALF_OPEN"}

Breaker ==
    [state : CircuitState, failures : 0 .. FailureThreshold,
     successes : 0 .. SuccessThreshold - 1, probing : BOOLEAN, due : BOOLEAN]

NewBreaker ==
    [state |-> "CLOSED", failures |-> 0, successes |-> 0, probing |-> FALSE, due |-> FALSE]

\* syncRedis is called when a circuit has opened or closed: never for HALF_OPEN.
SnapshotOf(b) == [state |-> b.state, failures |-> b.failures]

CircuitSnapshots == [state : {"CLOSED", "OPEN"}, failures : 0 .. FailureThreshold]

NoSnapshot == [state |-> "NONE", failures |-> 0]

\* The GET of getCircuitBreaker, when it is not a reply: sent, or over.
Asked == [state |-> "ASKED", failures |-> 0]
Over == [state |-> "OVER", failures |-> 0]

\* Fault: going HALF_OPEN does not clear the probe flag.
AllowsKeepingFlag(b) ==
    \/ b.state = "CLOSED"
    \/ b.state = "OPEN" /\ b.due /\ ~b.probing
    \/ b.state = "HALF_OPEN" /\ ~b.probing

\* allowRequest returns true.
Allows(b) ==
    \/ b.state = "CLOSED"
    \/ b.state = "OPEN" /\ b.due
    \/ b.state = "HALF_OPEN" /\ ~b.probing

\* Fault: the probe is let through without setting the flag.
AllowedUnmarked(b) ==
    IF b.state = "CLOSED" THEN b
    ELSE [b EXCEPT !.state = "HALF_OPEN", !.probing = FALSE, !.due = FALSE]

\* What it has changed by then; when it returns false it has changed nothing.
Allowed(b) ==
    IF b.state = "CLOSED" THEN b
    ELSE [b EXCEPT !.state = "HALF_OPEN", !.probing = TRUE, !.due = FALSE]

\* Fault: the circuit closes one success late.
SucceededLate(b) ==
    CASE b.state = "HALF_OPEN" ->
            IF b.successes >= SuccessThreshold
            THEN [b EXCEPT !.state = "CLOSED", !.probing = FALSE, !.failures = 0, !.successes = 0]
            ELSE [b EXCEPT !.probing = FALSE, !.successes = b.successes + 1]
      [] b.state = "CLOSED" -> [b EXCEPT !.failures = 0]
      [] OTHER -> b

\* Fault: the circuit closes with its old count of failures.
SucceededKeepingFailures(b) ==
    CASE b.state = "HALF_OPEN" ->
            IF b.successes + 1 >= SuccessThreshold
            THEN [b EXCEPT !.state = "CLOSED", !.probing = FALSE, !.successes = 0]
            ELSE [b EXCEPT !.probing = FALSE, !.successes = b.successes + 1]
      [] b.state = "CLOSED" -> [b EXCEPT !.failures = 0]
      [] OTHER -> b

\* recordSuccess
Succeeded(b) ==
    CASE b.state = "HALF_OPEN" ->
            IF b.successes + 1 >= SuccessThreshold
            THEN [b EXCEPT !.state = "CLOSED", !.probing = FALSE, !.failures = 0, !.successes = 0]
            ELSE [b EXCEPT !.probing = FALSE, !.successes = b.successes + 1]
      [] b.state = "CLOSED" -> [b EXCEPT !.failures = 0]
      [] OTHER -> b

\* recordFailure
Failed(b) ==
    CASE b.state = "HALF_OPEN" ->
            [b EXCEPT !.state = "OPEN", !.probing = FALSE, !.successes = 0, !.due = FALSE]
      [] b.state = "CLOSED" ->
            IF b.failures + 1 >= FailureThreshold
            THEN [b EXCEPT !.state = "OPEN", !.failures = b.failures + 1, !.due = FALSE]
            ELSE [b EXCEPT !.failures = b.failures + 1]
      [] OTHER -> b

\* forceOpen keeps the successes and the probe flag.
ForcedOpen(b) ==
    [b EXCEPT !.state = "OPEN", !.failures = FailureThreshold, !.due = FALSE]

\* applyRedisSnapshot keeps them too.  openedAt is another process's clock
\* reading, compared with this breaker's own wait: due may be either.
Hydrated(b, snap, due) ==
    [b EXCEPT !.state = snap.state, !.failures = snap.failures,
              !.due = due /\ snap.state = "OPEN"]

-----------------------------------------------------------------------------
(* Reporting to a breaker *)

\* Bound on the backlog; no handler waits for Redis.
HasRoom(r) == Len(saves[r]) < MaxBacklog

\* Fault: only an opening is published.
SyncOpenings(r, b) ==
    saves' = IF UseRedis /\ b.state = "OPEN"
             THEN [saves EXCEPT ![r] = Append(saves[r], [snap |-> SnapshotOf(b), set |-> FALSE])]
             ELSE saves

\* syncRedis: saveCircuitToRedis begins and is not awaited.
Sync(r, b) ==
    saves' = IF UseRedis
             THEN [saves EXCEPT ![r] = Append(saves[r], [snap |-> SnapshotOf(b), set |-> FALSE])]
             ELSE saves

\* The breaker becomes b; an outcome that changed its state is synced.
Become(r, b) ==
    /\ HasRoom(r)
    /\ brk' = [brk EXCEPT ![r] = b]
    /\ IF b.state = brk[r].state THEN saves' = saves ELSE Sync(r, b)

\* The probes of a HALF_OPEN period are forgotten with the period.
Retire(r, b, c) ==
    probes' = [probes EXCEPT ![r] = IF b.state = "HALF_OPEN" THEN probes[r] \ {c} ELSE {}]

-----------------------------------------------------------------------------
(* The handlers *)

\* allowRequest lets the request through.
Admit(c, r) ==
    /\ at[c] = Nowhere
    /\ Allows(brk[r])
    /\ brk' = [brk EXCEPT ![r] = Allowed(brk[r])]
    /\ at' = [at EXCEPT ![c] = r]
    /\ probes' = [probes EXCEPT ![r] = CASE brk[r].state = "CLOSED"    -> probes[r]
                                         [] brk[r].state = "OPEN"      -> {c}
                                         [] brk[r].state = "HALF_OPEN" -> probes[r] \cup {c}]
    /\ UNCHANGED <<failing, forced, redisVars>>

\* Fault: the rejection is not reported to the breaker.
RejectUncounted(r) ==
    /\ \E c \in Requests : at[c] = Nowhere
    /\ ~Allows(brk[r])
    /\ UNCHANGED vars

\* It does not.  The stdio proxy reports the rejection as a failure.
Reject(r) ==
    /\ Transport = "stdio"
    /\ \E c \in Requests : at[c] = Nowhere
    /\ ~Allows(brk[r])
    /\ Become(r, Failed(brk[r]))
    /\ probes' = [probes EXCEPT ![r] = {}]
    /\ UNCHANGED <<at, failing, forced, store, inbox, hydration>>

\* The upstream has answered and the answer was passed on.
Succeed(c) ==
    LET r == at[c]
        b == Succeeded(brk[r])
    IN  /\ r # Nowhere /\ c \notin failing
        /\ Become(r, b)
        /\ Retire(r, b, c)
        /\ at' = [at EXCEPT ![c] = Nowhere]
        /\ UNCHANGED <<failing, forced, store, inbox, hydration>>

\* The request timed out or failed.  It may report once more: over HTTP the
\* destroyed request may emit `error`, and its listener reports a second
\* failure; over stdio its context may expire while its answer is inspected.
Fail(c) ==
    LET r == at[c]
        b == Failed(brk[r])
    IN  /\ r # Nowhere /\ c \notin failing
        /\ Become(r, b)
        /\ Retire(r, b, c)
        /\ \/ /\ at' = [at EXCEPT ![c] = Nowhere]
              /\ failing' = failing
           \/ /\ at' = at
              /\ failing' = failing \cup {c}
        /\ UNCHANGED <<forced, store, inbox, hydration>>

FailAgain(c) ==
    LET r == at[c]
        b == Failed(brk[r])
    IN  /\ Transport = "http" /\ c \in failing
        /\ Become(r, b)
        /\ Retire(r, b, c)
        /\ at' = [at EXCEPT ![c] = Nowhere]
        /\ failing' = failing \ {c}
        /\ UNCHANGED <<forced, store, inbox, hydration>>

\* The inspection ends and the answer of the expired request counts as well.
SucceedAfterAll(c) ==
    LET r == at[c]
        b == Succeeded(brk[r])
    IN  /\ Transport = "stdio" /\ c \in failing
        /\ Become(r, b)
        /\ Retire(r, b, c)
        /\ at' = [at EXCEPT ![c] = Nowhere]
        /\ failing' = failing \ {c}
        /\ UNCHANGED <<forced, store, inbox, hydration>>

\* The handler returns without a report: the request was too large,
\* malformed or denied, or the answer was blocked.
EndSilently(c) ==
    /\ at[c] # Nowhere /\ c \notin failing
    /\ probes' = [probes EXCEPT ![at[c]] = @ \ {c}]
    /\ at' = [at EXCEPT ![c] = Nowhere]
    /\ UNCHANGED <<brk, failing, forced, redisVars>>

\* The wait of an open circuit elapses.
WaitElapses(r) ==
    /\ brk[r].state = "OPEN" /\ ~brk[r].due
    /\ brk' = [brk EXCEPT ![r].due = TRUE]
    /\ UNCHANGED <<at, failing, probes, forced, redisVars>>

\* An incident playbook isolates the server; every such call is synced.
ForceOpen(r) ==
    /\ forced < MaxForced /\ HasRoom(r)
    /\ forced' = forced + 1
    /\ brk' = [brk EXCEPT ![r] = ForcedOpen(brk[r])]
    /\ Sync(r, ForcedOpen(brk[r]))
    /\ probes' = [probes EXCEPT ![r] = {}]
    /\ UNCHANGED <<at, failing, store, inbox, hydration>>

-----------------------------------------------------------------------------
(* Redis.  A save is a SET and, once that is acknowledged, a PUBLISH; one   *)
(* connection carries both in order, and saves of one replica overlap.      *)

ApplySnapshot(r, snap) ==
    /\ \E due \in BOOLEAN : brk' = [brk EXCEPT ![r] = Hydrated(brk[r], snap, due)]
    /\ probes' = [probes EXCEPT ![r] = {}]

\* Redis executes the SET of a replica's i-th save.
SetSnapshot(r, i) ==
    /\ ~saves[r][i].set
    /\ \A j \in DOMAIN saves[r] : j < i => saves[r][j].set
    /\ store' = saves[r][i].snap
    /\ saves' = [saves EXCEPT ![r] =
                  [saves[r] EXCEPT ![i] = [snap |-> saves[r][i].snap, set |-> TRUE]]]
    /\ UNCHANGED <<brk, at, failing, probes, forced, inbox, hydration>>

\* Redis executes the PUBLISH of a replica's oldest save; every replica that
\* listens gets it, the sender too.
Publish(r) ==
    /\ saves[r] # << >> /\ Head(saves[r]).set
    /\ \A q \in Replicas : Len(inbox[q]) < MaxBacklog
    /\ inbox' = [q \in Replicas |-> Append(inbox[q], Head(saves[r]).snap)]
    /\ saves' = [saves EXCEPT ![r] = Tail(saves[r])]
    /\ UNCHANGED <<brk, at, failing, probes, forced, store, hydration>>

\* The subscriber's message handler.
HandleMessage(r) ==
    /\ inbox[r] # << >>
    /\ ApplySnapshot(r, Head(inbox[r]))
    /\ inbox' = [inbox EXCEPT ![r] = Tail(inbox[r])]
    /\ UNCHANGED <<at, failing, forced, saves, store, hydration>>

\* Redis executes the GET of getCircuitBreaker.
LoadSnapshot(r) ==
    /\ hydration[r] = Asked
    /\ hydration' = [hydration EXCEPT ![r] = store]
    /\ UNCHANGED <<brk, at, failing, probes, forced, saves, store, inbox>>

\* Its reply is handled: whatever has happened since, it is applied.
HandleLoaded(r) ==
    /\ hydration[r] \in CircuitSnapshots \cup {NoSnapshot}
    /\ IF hydration[r] = NoSnapshot
       THEN UNCHANGED <<brk, probes>>
       ELSE ApplySnapshot(r, hydration[r])
    /\ hydration' = [hydration EXCEPT ![r] = Over]
    /\ UNCHANGED <<at, failing, forced, saves, store, inbox>>

\* TTL_SEC have passed since the last SET.
Expire ==
    /\ store # NoSnapshot
    /\ store' = NoSnapshot
    /\ UNCHANGED <<brk, at, failing, probes, forced, saves, inbox, hydration>>

\* A SET or PUBLISH fails; the catch of saveCircuitToRedis ends that save.
SaveFails(r, i) ==
    /\ Faults
    /\ saves' = [saves EXCEPT ![r] = RemoveAt(saves[r], i)]
    /\ UNCHANGED <<brk, at, failing, probes, forced, store, inbox, hydration>>

\* Pub/sub delivers at most once: what a lost connection carried is gone.
MessageLost(r) ==
    /\ Faults /\ inbox[r] # << >>
    /\ inbox' = [inbox EXCEPT ![r] = Tail(inbox[r])]
    /\ UNCHANGED <<brk, at, failing, probes, forced, saves, store, hydration>>

\* The process ends and a new one asks Redis for the circuit.
Restart(r) ==
    /\ Faults
    /\ brk' = [brk EXCEPT ![r] = NewBreaker]
    /\ at' = [c \in Requests |-> IF at[c] = r THEN Nowhere ELSE at[c]]
    /\ failing' = {c \in failing : at[c] # r}
    /\ probes' = [probes EXCEPT ![r] = {}]
    /\ saves' = [saves EXCEPT ![r] = << >>]
    /\ inbox' = [inbox EXCEPT ![r] = << >>]
    /\ hydration' = [hydration EXCEPT ![r] = IF UseRedis THEN Asked ELSE Over]
    /\ UNCHANGED <<forced, store>>

-----------------------------------------------------------------------------
Init ==
    /\ brk = [r \in Replicas |-> NewBreaker]
    /\ at = [c \in Requests |-> Nowhere]
    /\ failing = {}
    /\ probes = [r \in Replicas |-> {}]
    /\ forced = 0
    /\ saves = [r \in Replicas |-> << >>]
    /\ store = NoSnapshot
    /\ inbox = [r \in Replicas |-> << >>]
    /\ hydration = [r \in Replicas |-> IF UseRedis /\ LateHydration THEN Asked ELSE Over]

Arrive(r) == Reject(r) \/ \E c \in Requests : Admit(c, r)

End(c) ==
    Succeed(c) \/ Fail(c) \/ FailAgain(c) \/ SucceedAfterAll(c) \/ EndSilently(c)

Redis(r) ==
    \/ \E i \in DOMAIN saves[r] : SetSnapshot(r, i) \/ SaveFails(r, i)
    \/ Publish(r) \/ HandleMessage(r)
    \/ LoadSnapshot(r) \/ HandleLoaded(r)
    \/ MessageLost(r)

Next ==
    \/ \E r \in Replicas : Arrive(r) \/ WaitElapses(r) \/ ForceOpen(r) \/ Redis(r) \/ Restart(r)
    \/ \E c \in Requests : End(c)
    \/ Expire

Spec == Init /\ [][Next]_vars

\* Timers fire, a request's own timeout ends it one way or another, a Redis
\* command is answered or fails, and clients keep sending (the one assumption
\* that is not the code's).
Fairness ==
    /\ \A r \in Replicas :
          WF_vars(WaitElapses(r)) /\ WF_vars(Arrive(r)) /\ WF_vars(Redis(r))
    /\ \A c \in Requests : WF_vars(End(c))

FairSpec == Spec /\ Fairness

-----------------------------------------------------------------------------
(* Properties *)

Saves == [snap : CircuitSnapshots, set : BOOLEAN]

TypeOK ==
    /\ brk \in [Replicas -> Breaker]
    /\ at \in [Requests -> Replicas \cup {Nowhere}]
    /\ failing \subseteq {c \in Requests : at[c] # Nowhere}
    /\ probes \in [Replicas -> SUBSET Requests]
    /\ forced \in 0 .. MaxForced
    /\ saves \in [Replicas -> Seq(Saves)]
    /\ store \in CircuitSnapshots \cup {NoSnapshot}
    /\ inbox \in [Replicas -> Seq(CircuitSnapshots)]
    /\ hydration \in [Replicas -> CircuitSnapshots \cup {Asked, Over, NoSnapshot}]

\* Of the requests let through since the circuit went HALF_OPEN, no more
\* than successThreshold are in flight, whatever is reported late, lost,
\* forced or hydrated: each report that frees the probe flag counts.  One
\* probe at a time, as circuit-breaker.ts:17 says, is not so: see OneProbe.
ProbesBounded == \A r \in Replicas : Cardinality(probes[r]) <= SuccessThreshold

\* "True while a HALF_OPEN probe is in flight - only one probe allowed"
\* (circuit-breaker.ts:17).  Whoever reports to a HALF_OPEN circuit lowers the
\* flag, also a request that was let through before the circuit opened.
OneProbe == \A r \in Replicas : Cardinality(probes[r]) <= 1

\* A closed circuit has failures to spare, wherever its state came from, so
\* it opens by its own count and never stays closed beyond the threshold.
ClosedBelowThreshold ==
    \A r \in Replicas : brk[r].state = "CLOSED" => brk[r].failures < FailureThreshold

\* Nothing of or for the replica is under way.
Settled(r) == saves[r] = << >> /\ inbox[r] = << >> /\ hydration[r] = Over

\* "Optional Redis sync for upstream circuit breaker state across replicas":
\* once no snapshot is under way, all replicas let requests through or none.
ReplicasAgree ==
    \A r, q \in Replicas :
        Settled(r) /\ Settled(q) => (brk[r].state = "CLOSED" <=> brk[q].state = "CLOSED")

\* An open circuit is probed in the end (or closed from elsewhere).
OpenIsProbed ==
    \A r \in Replicas :
        brk[r].state = "OPEN" ~> (probes[r] # {} \/ brk[r].state = "CLOSED")

\* A HALF_OPEN circuit closes or reopens in the end.
HalfOpenEnds ==
    \A r \in Replicas : brk[r].state = "HALF_OPEN" ~> brk[r].state # "HALF_OPEN"
=============================================================================
