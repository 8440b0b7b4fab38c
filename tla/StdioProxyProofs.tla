-------------------------- MODULE StdioProxyProofs --------------------------
(***************************************************************************)
(* Invariants of the stdio proxy for every policy, every set of calls and  *)
(* every number of calls in flight: type correctness, and the bound on     *)
(* max_occurrences that concurrency leaves; before them, what the methods  *)
(* of the workflow engine return, for every policy: they keep the engine   *)
(* well typed, they move only what they should, and a permitted call that  *)
(* runs alone moves its workflow along the graph.                          *)
(***************************************************************************)
EXTENDS StdioProxy, SequenceTheorems, FiniteSetTheorems, TLAPS

-----------------------------------------------------------------------------
(* Extremal elements, for the two CHOOSEs of the engine. *)

\* A non-empty set of natural numbers has a least element.
LEMMA LeastElement ==
    ASSUME NEW S \in SUBSET Nat, S # {}
    PROVE  \E n \in S : \A m \in S : n <= m
<1> DEFINE R == {p \in Nat \X Nat : p[1] < p[2]}
<1>1. IsWellFoundedOn(R, Nat)
  BY NatLessThanWellFounded DEF OpToRel
<1>2. PICK n \in S : \A m \in S : ~ (<<m, n>> \in R)
  BY <1>1, WFMin
<1>3. ASSUME NEW m \in S PROVE n <= m
  <2>1. m \in Nat /\ n \in Nat
    OBVIOUS
  <2>2. m < n => <<m, n>> \in R
    BY <2>1
  <2> QED BY <1>2, <2>1, <2>2
<1> QED BY <1>3

\* The last workflow that has a transition exists when any has one.
LEMMA LastMoverExists ==
    ASSUME NumWorkflows \in Nat, NEW E, NEW t, Movers(E, t) # {}
    PROVE  /\ LastMover(E, t) \in Movers(E, t)
           /\ \A v \in Movers(E, t) : v <= LastMover(E, t)
<1> DEFINE M == Movers(E, t)
           D == {n \in Nat : NumWorkflows - n \in M}
<1>1. M \subseteq 1 .. NumWorkflows
  BY DEF Movers, Workflow
<1>2. D # {}
  <2>1. PICK w \in M : TRUE
    OBVIOUS
  <2>2. NumWorkflows - w \in Nat /\ NumWorkflows - (NumWorkflows - w) = w
    BY <1>1, <2>1
  <2> QED BY <2>1, <2>2
<1>3. PICK n \in D : \A m \in D : n <= m
  BY <1>2, LeastElement
<1>4. \A v \in M : v <= NumWorkflows - n
  <2> SUFFICES ASSUME NEW v \in M PROVE v <= NumWorkflows - n
    OBVIOUS
  <2>1. NumWorkflows - v \in Nat /\ NumWorkflows - (NumWorkflows - v) = v
    BY <1>1
  <2>2. n <= NumWorkflows - v
    BY <2>1, <1>3
  <2> QED BY <2>1, <2>2, <1>1
<1> QED BY <1>3, <1>4 DEF LastMover

\* A call that is not permitted has a first workflow that denies it.
LEMMA FirstDenierExists ==
    ASSUME NumWorkflows \in Nat, NEW E, NEW t, ~Permits(E, t)
    PROVE  FirstDenier(E, t) \in Workflow
<1> DEFINE D == {w \in Workflow : Forbids(E, w, t)}
<1>1. D \in SUBSET Nat /\ D # {}
  BY DEF Permits, Workflow
<1>2. PICK w \in D : \A v \in D : w <= v
  BY <1>1, LeastElement
<1>3. ASSUME NEW v \in 1 .. w - 1 PROVE ~Forbids(E, v, t)
  <2>1. v \in Workflow /\ ~(w <= v)
    BY <1>1 DEF Workflow
  <2> QED BY <1>2, <2>1
<1> QED BY <1>2, <1>3 DEF FirstDenier

\* The first matching entry exists when any entry matches.
LEMMA FirstMatchExists ==
    ASSUME NEW pend \in Seq(PendingEntry), NEW id, NEW t, Matches(pend, id, t) # {}
    PROVE  /\ FirstMatch(pend, id, t) \in Matches(pend, id, t)
           /\ FirstMatch(pend, id, t) \in 1 .. Len(pend)
<1>1. Matches(pend, id, t) \subseteq 1 .. Len(pend)
  BY LenProperties DEF Matches
<1>2. \E i \in Matches(pend, id, t) : \A j \in Matches(pend, id, t) : i <= j
  <2>1. Matches(pend, id, t) \in SUBSET Nat
    BY <1>1, LenProperties
  <2> QED BY <2>1, LeastElement
<1>3. FirstMatch(pend, id, t) \in Matches(pend, id, t)
  BY <1>2 DEF FirstMatch
<1> QED BY <1>1, <1>3

-----------------------------------------------------------------------------
(* Types *)

LEMMA RemoveAtType ==
    ASSUME NEW S, NEW s \in Seq(S), NEW i \in 1 .. Len(s)
    PROVE  RemoveAt(s, i) \in Seq(S)
<1>1. Len(s) \in Nat
  BY LenProperties
<1>2. \A j \in 1 .. Len(s) : s[j] \in S
  BY ElementOfSeq
<1>3. SubSeq(s, 1, i - 1) \in Seq(S)
  <2>1. \A j \in 1 .. i - 1 : s[j] \in S
    BY <1>1, <1>2
  <2>2. 1 \in Int /\ i - 1 \in Int
    BY <1>1
  <2> QED BY <2>1, <2>2, SubSeqProperties
<1>4. SubSeq(s, i + 1, Len(s)) \in Seq(S)
  <2>1. \A j \in i + 1 .. Len(s) : s[j] \in S
    BY <1>1, <1>2
  <2>2. i + 1 \in Int /\ Len(s) \in Int
    BY <1>1
  <2> QED BY <2>1, <2>2, SubSeqProperties
<1> QED BY <1>3, <1>4, ConcatProperties DEF RemoveAt

LEMMA StoreType ==
    ASSUME NEW pend \in Seq(PendingEntry), NEW e \in PendingEntry
    PROVE  Store(pend, e) \in Seq(PendingEntry)
<1>1. Append(pend, e) \in Seq(PendingEntry)
  BY AppendProperties
<1>2. [i \in DOMAIN pend |-> IF pend[i].id = e.id THEN e ELSE pend[i]] \in Seq(PendingEntry)
  <2>1. Len(pend) \in Nat /\ DOMAIN pend = 1 .. Len(pend)
    BY LenProperties
  <2>2. \A i \in 1 .. Len(pend) : pend[i] \in PendingEntry
    BY ElementOfSeq
  <2>3. [i \in 1 .. Len(pend) |-> IF pend[i].id = e.id THEN e ELSE pend[i]]
           \in [1 .. Len(pend) -> PendingEntry]
    BY <2>2
  <2> QED BY <2>1, <2>3, SeqDef
<1> QED BY <1>1, <1>2 DEF Store

LEMMA InitEngineType == InitEngine \in Engine
BY PolicyAssumption, EmptySeq DEF InitEngine, Engine, Certainties

\* evaluate keeps the engine well typed and touches nothing but the pending
\* transitions.
LEMMA EvaluateType ==
    ASSUME NEW E \in Engine, NEW id \in RequestIds, NEW t \in Tools
    PROVE  /\ Evaluate(E, id, t) \in Engine
           /\ Evaluate(E, id, t).state = E.state
           /\ Evaluate(E, id, t).cert = E.cert
           /\ Evaluate(E, id, t).count = E.count
           /\ Evaluate(E, id, t).hist = E.hist
<1>1. CASE Movers(E, t) = {}
  BY <1>1 DEF Evaluate
<1>2. CASE Movers(E, t) # {}
  <2> DEFINE w == LastMover(E, t)
             e == [id |-> id, wf |-> w, to |-> Move[w][<<E.state[w], t>>], tool |-> t]
  <2>1. w \in Workflow /\ Move[w][<<E.state[w], t>>] # Stay
    BY <1>2, LastMoverExists, PolicyAssumption DEF Movers
  <2>2. E.state[w] \in States
    BY <2>1 DEF Engine
  <2>3. Move[w][<<E.state[w], t>>] \in States
    BY <2>1, <2>2, PolicyAssumption
  <2>4. e \in PendingEntry
    BY <2>1, <2>3 DEF PendingEntry
  <2>5. Store(E.pend, e) \in Seq(PendingEntry)
    BY <2>4, StoreType DEF Engine
  <2>6. Evaluate(E, id, t) = [E EXCEPT !.pend = Store(E.pend, e)]
    BY <1>2 DEF Evaluate
  <2> HIDE DEF e, w
  <2> QED BY <2>5, <2>6 DEF Engine
<1> QED BY <1>1, <1>2

\* Discarding a pending transition keeps everything else.
LEMMA DiscardType ==
    ASSUME NEW E \in Engine, NEW id \in RequestIds, NEW t \in Tools
    PROVE  /\ Discard(E, id, t) \in Engine
           /\ Discard(E, id, t).state = E.state
           /\ Discard(E, id, t).cert = E.cert
           /\ Discard(E, id, t).count = E.count
           /\ Discard(E, id, t).hist = E.hist
<1>1. CASE Matches(E.pend, id, t) = {}
  BY <1>1 DEF Discard
<1>2. CASE Matches(E.pend, id, t) # {}
  <2>1. RemoveAt(E.pend, FirstMatch(E.pend, id, t)) \in Seq(PendingEntry)
    BY <1>2, FirstMatchExists, RemoveAtType DEF Engine
  <2>2. Discard(E, id, t) = [E EXCEPT !.pend = RemoveAt(E.pend, FirstMatch(E.pend, id, t))]
    BY <1>2 DEF Discard
  <2> QED BY <2>1, <2>2 DEF Engine
<1> QED BY <1>1, <1>2

\* F is E after a response to call id of tool t, field by field.
Confirmed(E, F, id, t) ==
    /\ F \in Engine
    /\ F.state = IF Matches(E.pend, id, t) = {} THEN E.state
                 ELSE [E.state EXCEPT ![Owner(E.pend, id, t)] =
                         E.pend[FirstMatch(E.pend, id, t)].to]
    /\ F.cert = [E.cert EXCEPT ![Owner(E.pend, id, t)] = "KNOWN"]
    /\ F.count = [E.count EXCEPT ![t] = @ + 1]
    /\ F.hist = Append(E.hist, t)
    /\ F.pend = Discard(E, id, t).pend

\* F is E after call id of tool t was lost.
Lost(E, F, id, t) ==
    /\ F \in Engine
    /\ F.state = E.state /\ F.count = E.count /\ F.hist = E.hist
    /\ F.cert = [E.cert EXCEPT ![Owner(E.pend, id, t)] = "UNKNOWN"]
    /\ F.pend = Discard(E, id, t).pend

\* A confirmed call counts once, for its own tool.
LEMMA ConfirmType ==
    ASSUME NEW E \in Engine, NEW id \in RequestIds, NEW t \in Tools
    PROVE  Confirmed(E, Confirm(E, id, t), id, t)
<1> DEFINE w == Owner(E.pend, id, t)
           i == FirstMatch(E.pend, id, t)
           d == Discard(E, id, t)
           s == IF Matches(E.pend, id, t) = {} THEN d.state
                ELSE [d.state EXCEPT ![w] = E.pend[i].to]
           k == [d.cert EXCEPT ![w] = "KNOWN"]
           n == [d.count EXCEPT ![t] = @ + 1]
           h == Append(d.hist, t)
<1>1. /\ d \in Engine /\ d.state = E.state /\ d.cert = E.cert
      /\ d.count = E.count /\ d.hist = E.hist
  BY DiscardType
<1>2. s \in [Workflow -> States]
  <2>1. CASE Matches(E.pend, id, t) = {}
    BY <1>1, <2>1 DEF Engine
  <2>2. CASE Matches(E.pend, id, t) # {}
    <3>1. E.pend \in Seq(PendingEntry)
      BY DEF Engine
    <3>2. E.pend[i] \in PendingEntry
      BY <2>2, <3>1, FirstMatchExists, ElementOfSeq
    <3>3. E.pend[i].to \in States
      BY <3>2 DEF PendingEntry
    <3>4. d.state \in [Workflow -> States]
      BY <1>1 DEF Engine
    <3> HIDE DEF d, i, w
    <3> QED BY <2>2, <3>3, <3>4 DEF s
  <2> QED BY <2>1, <2>2
<1>3. k \in [Workflow -> Certainties]
  BY <1>1 DEF Engine, Certainties
<1>4. n \in [Tools -> Nat]
  BY <1>1 DEF Engine
<1>5. h \in Seq(Tools)
  BY <1>1, AppendProperties DEF Engine
<1>6. Confirm(E, id, t) = [d EXCEPT !.state = s, !.cert = k, !.count = n, !.hist = h]
  BY DEF Confirm
<1> HIDE DEF d, s, k, n, h
<1> USE <1>1, <1>2, <1>3, <1>4, <1>5, <1>6
<1>7. [d EXCEPT !.state = s, !.cert = k, !.count = n, !.hist = h] \in Engine
  BY DEF Engine
<1>8. /\ Confirm(E, id, t).state = s /\ Confirm(E, id, t).cert = k
      /\ Confirm(E, id, t).count = n /\ Confirm(E, id, t).hist = h
      /\ Confirm(E, id, t).pend = d.pend
  BY DEF Engine
<1> QED BY <1>1, <1>6, <1>7, <1>8 DEF Confirmed, s, k, n, h, d, w, i

\* A lost call leaves state, counts and history alone.
LEMMA LoseType ==
    ASSUME NEW E \in Engine, NEW id \in RequestIds, NEW t \in Tools
    PROVE  Lost(E, Lose(E, id, t), id, t)
<1> DEFINE d == Discard(E, id, t)
           k == [d.cert EXCEPT ![Owner(E.pend, id, t)] = "UNKNOWN"]
<1>1. /\ d \in Engine /\ d.state = E.state /\ d.cert = E.cert
      /\ d.count = E.count /\ d.hist = E.hist
  BY DiscardType
<1>2. k \in [Workflow -> Certainties]
  BY <1>1 DEF Engine, Certainties
<1>3. Lose(E, id, t) = [d EXCEPT !.cert = k]
  BY DEF Lose
<1> HIDE DEF d, k
<1>4. /\ Lose(E, id, t) \in Engine
      /\ Lose(E, id, t).state = d.state /\ Lose(E, id, t).cert = k
      /\ Lose(E, id, t).count = d.count /\ Lose(E, id, t).hist = d.hist
      /\ Lose(E, id, t).pend = d.pend
  BY <1>1, <1>2, <1>3 DEF Engine
<1> QED BY <1>1, <1>4 DEF Lost, d, k

\* commit_outcome keeps the engine well typed; only a response counts.
LEMMA CommitType ==
    ASSUME NEW E \in Engine, NEW id \in RequestIds, NEW t \in Tools, NEW obs \in Observations
    PROVE  /\ CommitOutcome(E, id, t, obs) \in Engine
           /\ CommitOutcome(E, id, t, obs).count =
                IF obs = "RESPONSE_RECEIVED" THEN [E.count EXCEPT ![t] = @ + 1] ELSE E.count
<1>1. CASE obs = "RESPONSE_RECEIVED"
  <2>1. CommitOutcome(E, id, t, obs) = Confirm(E, id, t)
    BY <1>1 DEF CommitOutcome
  <2>2. Confirmed(E, Confirm(E, id, t), id, t)
    BY ConfirmType
  <2> QED BY <1>1, <2>1, <2>2 DEF Confirmed
<1>2. CASE obs = "SENT_CHILD_NO_RESPONSE"
  <2>1. CommitOutcome(E, id, t, obs) = Lose(E, id, t)
    BY <1>2 DEF CommitOutcome
  <2>2. Lost(E, Lose(E, id, t), id, t)
    BY LoseType
  <2> QED BY <1>2, <2>1, <2>2 DEF Lost
<1>3. CASE obs = "NOT_SENT"
  <2>1. CommitOutcome(E, id, t, obs) = Discard(E, id, t)
    BY <1>3 DEF CommitOutcome
  <2> QED BY <1>3, <2>1, DiscardType
<1> QED BY <1>1, <1>2, <1>3 DEF Observations

\* What a decision says of the workflow is a snapshot.
LEMMA SnapshotType ==
    ASSUME NEW E \in Engine, NEW t \in Tools
    PROVE  Snapshot(E, t) \in [wf : Nat, before : States \cup {Stay}, after : States \cup {Stay}]
<1>1. CASE NumWorkflows = 0
  BY <1>1 DEF Snapshot
<1>2. CASE NumWorkflows # 0
  <2>1. 1 \in Workflow
    BY <1>2, PolicyAssumption DEF Workflow
  <2>2. E.state[1] \in States
    BY <2>1 DEF Engine
  <2>3. ~Permits(E, t) => FirstDenier(E, t) \in Workflow /\ E.state[FirstDenier(E, t)] \in States
    BY FirstDenierExists, PolicyAssumption DEF Engine
  <2>4. FirstDenier(E, t) \in Workflow => FirstDenier(E, t) \in Nat
    BY DEF Workflow
  <2>5. Movers(E, t) # {} =>
          Move[LastMover(E, t)][<<E.state[LastMover(E, t)], t>>] \in States
    <3>1. Movers(E, t) # {} => LastMover(E, t) \in Movers(E, t)
      BY LastMoverExists, PolicyAssumption
    <3>2. \A w \in Movers(E, t) : Move[w][<<E.state[w], t>>] \in States
      BY PolicyAssumption DEF Movers, Engine
    <3> QED BY <3>1, <3>2
  <2> QED BY <1>2, <2>2, <2>3, <2>4, <2>5 DEF Snapshot
<1> QED BY <1>1, <1>2

-----------------------------------------------------------------------------
(* The operators that several actions share *)

Requests == ToolRequests \cup PlainRequests

\* A call that records a receipt ends, by returning or by raising.
LEMMA RecordEffect ==
    ASSUME TypeOK, NEW c \in Calls, NEW decision \in Decisions, NEW obs \in Observations,
           NEW snap \in Snapshots, RecordAndReturn(c, decision, obs, snap)
    PROVE  /\ receipts' \in Seq(Receipts)
           /\ loop' \in {"accepting", "stopped", "closed"}
           /\ \E x \in {"done", "raised"} : pc' = [pc EXCEPT ![c] = x]
<1>1. Receipt(c, decision, obs, snap) \in Receipts
  BY DEF Receipt, Receipts, Observations
<1>2. receipts \in Seq(Receipts)
  BY DEF TypeOK
<1>3. Append(receipts, Receipt(c, decision, obs, snap)) \in Seq(Receipts)
  BY <1>1, <1>2, AppendProperties
<1> QED BY <1>2, <1>3 DEF RecordAndReturn, Raise, TypeOK

\* The end of a call that was forwarded, or could not be: only a tool call
\* that was answered counts.
\* An outcome that is committed is logged.
LEMMA CommitEffect ==
    ASSUME TypeOK, NEW c \in Calls, NEW r, NEW e, NEW obs \in Observations, Commit(c, r, e, obs)
    PROVE  outcomes' \in Seq(Outcomes)
<1> DEFINE o == [call |-> c, obs |-> obs]
<1>1. o \in Outcomes
  BY DEF Outcomes
<1>2. outcomes \in Seq(Outcomes) /\ outcomes' = Append(outcomes, o)
  BY DEF TypeOK, Commit
<1> HIDE DEF o
<1> QED BY <1>1, <1>2, AppendProperties

LEMMA ConcludeEffect ==
    ASSUME TypeOK, ProxyAssumption, NEW c \in Calls, NEW r \in Requests, NEW e \in Engine,
           r.kind = "plain" => e = eng,
           NEW obs \in Observations, Conclude(c, r, e, obs)
    PROVE  /\ eng' \in Engine /\ taint' \subseteq Tags
           /\ receipts' \in Seq(Receipts) /\ outcomes' \in Seq(Outcomes)
           /\ loop' \in {"accepting", "stopped", "closed"}
           /\ \E x \in {"done", "raised"} : pc' = [pc EXCEPT ![c] = x]
           /\ eng'.count = IF r.kind = "tool" /\ obs = "RESPONSE_RECEIVED"
                           THEN [e.count EXCEPT ![r.tool] = @ + 1] ELSE e.count
<1>1. CASE r.kind = "plain"
  BY <1>1 DEF Conclude, TypeOK
<1>2. CASE r.kind = "tool"
  <2>1. r \in ToolRequests
    BY <1>2 DEF Requests, PlainRequests
  <2>2. r.id \in RequestIds /\ r.tool \in Tools /\ r.snap \in Snapshots
    BY <2>1 DEF ToolRequests
  <2>3. ConcludeTool(c, r, e, obs)
    BY <1>2 DEF Conclude
  <2> DEFINE s == [r.snap EXCEPT !.after = IF obs = "RESPONSE_RECEIVED" THEN @ ELSE r.snap.before]
  <2>4. s \in Snapshots
    BY <2>2 DEF Snapshots
  <2>5. RecordAndReturn(c, "ALLOW", obs, s)
    BY <2>3 DEF ConcludeTool
  <2> HIDE DEF s
  <2>6. /\ receipts' \in Seq(Receipts)
        /\ loop' \in {"accepting", "stopped", "closed"}
        /\ \E x \in {"done", "raised"} : pc' = [pc EXCEPT ![c] = x]
    BY <2>4, <2>5, RecordEffect DEF Decisions
  <2>7. eng' = CommitOutcome(e, r.id, r.tool, obs) /\ outcomes' \in Seq(Outcomes)
    BY <2>3, CommitEffect DEF ConcludeTool, Commit
  <2>8. /\ eng' \in Engine
        /\ eng'.count = IF obs = "RESPONSE_RECEIVED" THEN [e.count EXCEPT ![r.tool] = @ + 1]
                        ELSE e.count
    <3> DEFINE id == r.id
               t == r.tool
    <3>1. id \in RequestIds /\ t \in Tools
      BY <2>2
    <3> HIDE DEF id, t
    <3>2. /\ CommitOutcome(e, id, t, obs) \in Engine
          /\ CommitOutcome(e, id, t, obs).count =
               IF obs = "RESPONSE_RECEIVED" THEN [e.count EXCEPT ![t] = @ + 1] ELSE e.count
      BY <3>1, CommitType
    <3> QED BY <2>7, <3>2 DEF id, t
  <2>9. taint' \subseteq Tags
    BY <2>2, <2>3 DEF ConcludeTool, TypeOK, ProxyAssumption
  <2> QED BY <1>2, <2>6, <2>7, <2>8, <2>9
<1> QED BY <1>1, <1>2 DEF Requests, ToolRequests, PlainRequests

LEMMA RefuseEffect ==
    ASSUME TypeOK, NEW c \in Calls, NEW r \in ToolRequests, NEW e \in Engine,
           NEW decision \in Decisions, Refuse(c, r, e, decision)
    PROVE  /\ eng' \in Engine /\ taint' \subseteq Tags
           /\ receipts' \in Seq(Receipts) /\ outcomes' \in Seq(Outcomes)
           /\ loop' \in {"accepting", "stopped", "closed"}
           /\ \E x \in {"done", "raised"} : pc' = [pc EXCEPT ![c] = x]
           /\ eng'.count = e.count
<1>1. r.id \in RequestIds /\ r.tool \in Tools /\ r.snap \in Snapshots
  BY DEF ToolRequests
<1> DEFINE s == [r.snap EXCEPT !.after = r.snap.before]
<1>2. s \in Snapshots
  BY <1>1 DEF Snapshots
<1>3. RecordAndReturn(c, decision, "NOT_SENT", s) /\ taint' = taint
  BY DEF Refuse
<1> HIDE DEF s
<1>4. /\ receipts' \in Seq(Receipts)
      /\ loop' \in {"accepting", "stopped", "closed"}
      /\ \E x \in {"done", "raised"} : pc' = [pc EXCEPT ![c] = x]
  BY <1>2, <1>3, RecordEffect DEF Observations
<1>5. eng' = CommitOutcome(e, r.id, r.tool, "NOT_SENT") /\ outcomes' \in Seq(Outcomes)
  BY CommitEffect DEF Refuse, Commit, Observations
<1>6. eng' \in Engine /\ eng'.count = e.count
  BY <1>1, <1>5, CommitType DEF Observations
<1> QED BY <1>3, <1>4, <1>5, <1>6 DEF TypeOK

\* Forwarding a request ends its call or leaves it waiting, and counts nothing.
LEMMA ForwardEffect ==
    ASSUME TypeOK, ProxyAssumption, NEW c \in Calls, NEW r \in Requests, NEW e \in Engine,
           r.kind = "plain" => e = eng,
           Forward(c, r, e)
    PROVE  /\ eng' \in Engine /\ taint' \subseteq Tags
           /\ receipts' \in Seq(Receipts) /\ outcomes' \in Seq(Outcomes)
           /\ loop' \in {"accepting", "stopped", "closed"}
           /\ fut' \in [Calls -> FutStates]
           /\ table' \in [RequestIds -> Calls \cup {NoCall}]
           /\ inbox' \subseteq inbox \cup {c}
           /\ \E x \in {"draining", "waiting", "done", "raised"} : pc' = [pc EXCEPT ![c] = x]
           /\ eng'.count = e.count
<1>1. CASE ForwardNoProcess(c, r, e)
  <2>1. Conclude(c, r, e, "SENT_CHILD_NO_RESPONSE")
    BY <1>1 DEF ForwardNoProcess
  <2>2. "SENT_CHILD_NO_RESPONSE" \in Observations
    BY DEF Observations
  <2>3. /\ eng' \in Engine /\ taint' \subseteq Tags
        /\ receipts' \in Seq(Receipts) /\ outcomes' \in Seq(Outcomes)
        /\ loop' \in {"accepting", "stopped", "closed"}
        /\ \E x \in {"done", "raised"} : pc' = [pc EXCEPT ![c] = x]
        /\ eng'.count = e.count
    <3> DEFINE obs == "SENT_CHILD_NO_RESPONSE"
    <3>1. obs # "RESPONSE_RECEIVED"
      OBVIOUS
    <3> HIDE DEF obs
    <3>2. Conclude(c, r, e, obs) /\ obs \in Observations
      BY <2>1, <2>2 DEF obs
    <3> QED BY <3>1, <3>2, ConcludeEffect
  <2> QED BY <1>1, <2>3 DEF ForwardNoProcess, TypeOK
<1>2. CASE ForwardToLostPipe(c, r, e)
  <2>1. r.id \in RequestIds
    BY DEF Requests, ToolRequests, PlainRequests
  <2> QED BY <1>2, <2>1 DEF ForwardToLostPipe, Raise, TypeOK, FutStates
<1>3. CASE ForwardToPipe(c, r, e)
  <2>1. r.id \in RequestIds
    BY DEF Requests, ToolRequests, PlainRequests
  <2> QED BY <1>3, <2>1 DEF ForwardToPipe, TypeOK, FutStates
<1> QED BY <1>1, <1>2, <1>3 DEF Forward

-----------------------------------------------------------------------------
(* Type correctness *)

CallTypes ==
    /\ pc \in [Calls -> PcStates]
    /\ req \in [Calls -> ToolRequests \cup PlainRequests \cup {NoRequest}]
    /\ \A c \in Calls : pc[c] # "idle" => req[c] # NoRequest
    /\ \A c \in Calls : pc[c] = "auditing" => req[c] \in ToolRequests
    /\ inbox \subseteq Calls /\ executed \subseteq Calls
    /\ \A c \in inbox \cup executed : pc[c] # "idle"

\* A step of one call that is past its acceptance.
LEMMA CallMoves ==
    ASSUME CallTypes, NEW c \in Calls, pc[c] # "idle", req' = req,
           inbox' \subseteq inbox \cup {c}, executed' = executed,
           NEW x \in PcStates \ {"auditing", "idle"}, pc' = [pc EXCEPT ![c] = x]
    PROVE  CallTypes'
BY DEF CallTypes

LEMMA AcceptTypes ==
    ASSUME TypeOK, NEW c \in Calls, NEW r \in Requests, Accept(c, r),
           inbox' \subseteq inbox \cup {c},
           NEW x \in PcStates \ {"idle"}, pc' = [pc EXCEPT ![c] = x],
           x = "auditing" => r \in ToolRequests
    PROVE  CallTypes'
<1>1. CallTypes
  BY DEF TypeOK, CallTypes
<1>2. r # NoRequest
  BY DEF Requests, ToolRequests, PlainRequests, NoRequest
<1>3. req' = [req EXCEPT ![c] = r] /\ executed' = executed
  BY DEF Accept
<1> QED BY <1>1, <1>2, <1>3 DEF CallTypes, Requests

LEMMA ToolRequestType ==
    ASSUME TypeOK, NEW id \in RequestIds, NEW t \in Tools
    PROVE  ToolRequest(id, t) \in ToolRequests
<1>1. Snapshot(eng, t) \in Snapshots
  BY SnapshotType DEF TypeOK, Snapshots
<1> QED BY <1>1 DEF ToolRequest, ToolRequests

LEMMA ArbitrateType ==
    ASSUME NEW a \in BOOLEAN, NEW b \in BOOLEAN, NEW w \in BOOLEAN,
           NEW v \in Verdicts \cup {"NONE"}
    PROVE  Arbitrate(a, b, w, v) \in Decisions
BY DEF Arbitrate, Decisions, Verdicts

LEMMA InitTypeOK == Init => TypeOK
BY InitEngineType, EmptySeq
   DEF Init, TypeOK, PcStates, NoRequest, FutStates

LEMMA ReceiveTypeOK ==
    ASSUME TypeOK, ProxyAssumption, NEW c \in Calls, Receive(c)
    PROVE  TypeOK'
<1>1. PICK id \in RequestIds :
        \/ \E t \in Tools, cbac \in BOOLEAN : ReceiveDenied(c, id, t, cbac)
        \/ \E t \in Tools : ReceiveForAudit(c, id, t)
        \/ \E t \in Tools : ReceivePermitted(c, id, t)
        \/ ReceivePlain(c, id)
  BY DEF Receive
<1>2. ASSUME NEW t \in Tools, NEW cbac \in BOOLEAN, ReceiveDenied(c, id, t, cbac)
      PROVE  TypeOK'
  <2> DEFINE r == ToolRequest(id, t)
             e == Evaluate(eng, id, t)
             d == Arbitrate(cbac, FlowAllowed(t), Permits(eng, t), "NONE")
  <2>1. r \in ToolRequests /\ r \in Requests
    BY ToolRequestType DEF Requests
  <2>2. e \in Engine
    BY EvaluateType DEF TypeOK
  <2>3. d \in Decisions
    BY ArbitrateType DEF FlowAllowed, Permits
  <2>4. Accept(c, r) /\ Refuse(c, r, e, d) /\ UNCHANGED <<fut, table, inbox>>
    BY <1>2 DEF ReceiveDenied
  <2> HIDE DEF r, e, d
  <2>5. /\ eng' \in Engine /\ taint' \subseteq Tags
        /\ receipts' \in Seq(Receipts) /\ outcomes' \in Seq(Outcomes)
        /\ loop' \in {"accepting", "stopped", "closed"}
        /\ \E x \in {"done", "raised"} : pc' = [pc EXCEPT ![c] = x]
    BY <2>1, <2>2, <2>3, <2>4, RefuseEffect
  <2>6. CallTypes'
    <3>1. PICK x \in {"done", "raised"} : pc' = [pc EXCEPT ![c] = x]
      BY <2>5
    <3>2. inbox' \subseteq inbox \cup {c} /\ x \in PcStates \ {"idle"} /\ x # "auditing"
      BY <2>4 DEF PcStates
    <3> QED BY <2>1, <2>4, <3>1, <3>2, AcceptTypes
  <2> QED BY <2>4, <2>5, <2>6 DEF TypeOK, CallTypes, Accept
<1>3. ASSUME NEW t \in Tools, ReceiveForAudit(c, id, t)
      PROVE  TypeOK'
  <2> DEFINE r == ToolRequest(id, t)
  <2>1. r \in ToolRequests /\ r \in Requests
    BY ToolRequestType DEF Requests
  <2>2. eng' \in Engine
    BY <1>3, EvaluateType DEF TypeOK, ReceiveForAudit
  <2>3. /\ Accept(c, r) /\ pc' = [pc EXCEPT ![c] = "auditing"]
        /\ UNCHANGED <<taint, fut, table, loop, inbox, receipts, outcomes>>
    BY <1>3 DEF ReceiveForAudit
  <2> HIDE DEF r
  <2>4. CallTypes'
    BY <2>1, <2>3, AcceptTypes DEF PcStates
  <2> QED BY <2>2, <2>3, <2>4 DEF TypeOK, CallTypes, Accept
<1>4. ASSUME NEW r \in Requests, NEW e \in Engine, r.kind = "plain" => e = eng,
             Accept(c, r), Forward(c, r, e)
      PROVE  TypeOK'
  <2>1. /\ eng' \in Engine /\ taint' \subseteq Tags
        /\ receipts' \in Seq(Receipts) /\ outcomes' \in Seq(Outcomes)
        /\ loop' \in {"accepting", "stopped", "closed"}
        /\ fut' \in [Calls -> FutStates]
        /\ table' \in [RequestIds -> Calls \cup {NoCall}]
        /\ inbox' \subseteq inbox \cup {c}
        /\ \E x \in {"draining", "waiting", "done", "raised"} : pc' = [pc EXCEPT ![c] = x]
    BY <1>4, ForwardEffect
  <2>2. CallTypes'
    <3>1. PICK x \in {"draining", "waiting", "done", "raised"} : pc' = [pc EXCEPT ![c] = x]
      BY <2>1
    <3> QED BY <1>4, <2>1, <3>1, AcceptTypes DEF PcStates
  <2> QED BY <1>4, <2>1, <2>2 DEF TypeOK, CallTypes, Accept
<1>5. ASSUME NEW t \in Tools, ReceivePermitted(c, id, t)
      PROVE  TypeOK'
  <2>1. ToolRequest(id, t) \in Requests /\ ToolRequest(id, t).kind = "tool"
    BY ToolRequestType DEF Requests, ToolRequest
  <2>2. Evaluate(eng, id, t) \in Engine
    BY EvaluateType DEF TypeOK
  <2>3. Accept(c, ToolRequest(id, t)) /\ Forward(c, ToolRequest(id, t), Evaluate(eng, id, t))
    BY <1>5 DEF ReceivePermitted
  <2> QED BY <2>1, <2>2, <2>3, <1>4
<1>6. CASE ReceivePlain(c, id)
  <2> DEFINE r == [kind |-> "plain", id |-> id]
  <2>1. r \in Requests /\ eng \in Engine
    BY DEF Requests, PlainRequests, TypeOK
  <2>2. Accept(c, r) /\ Forward(c, r, eng)
    BY <1>6 DEF ReceivePlain
  <2> HIDE DEF r
  <2> QED BY <2>1, <2>2, <1>4
<1> QED BY <1>1, <1>2, <1>3, <1>5, <1>6

LEMMA AuditedTypeOK ==
    ASSUME TypeOK, ProxyAssumption, NEW c \in Calls, Audited(c)
    PROVE  TypeOK'
<1>1. PICK v \in Verdicts : AuditPermits(c, v) \/ AuditRefuses(c, v)
  BY DEF Audited
<1>2. pc[c] = "auditing" /\ req[c] \in ToolRequests /\ req[c] \in Requests /\ eng \in Engine
  BY <1>1 DEF AuditPermits, AuditRefuses, TypeOK, Requests
<1>3. UNCHANGED AfterAudit
  BY <1>1 DEF AuditPermits, AuditRefuses, AfterAudit
<1>4. ASSUME NEW x \in PcStates \ {"auditing", "idle"}, pc' = [pc EXCEPT ![c] = x],
             inbox' \subseteq inbox \cup {c}
      PROVE  CallTypes'
  <2>1. CallTypes /\ pc[c] # "idle" /\ req' = req /\ executed' = executed
    BY <1>2, <1>3 DEF TypeOK, CallTypes, AfterAudit
  <2> QED BY <2>1, <1>4, CallMoves
<1>5. CASE AuditPermits(c, v)
  <2>1. Forward(c, req[c], eng)
    BY <1>5 DEF AuditPermits
  <2>2. /\ eng' \in Engine /\ taint' \subseteq Tags
        /\ receipts' \in Seq(Receipts) /\ outcomes' \in Seq(Outcomes)
        /\ loop' \in {"accepting", "stopped", "closed"}
        /\ fut' \in [Calls -> FutStates]
        /\ table' \in [RequestIds -> Calls \cup {NoCall}]
        /\ inbox' \subseteq inbox \cup {c}
        /\ \E x \in {"draining", "waiting", "done", "raised"} : pc' = [pc EXCEPT ![c] = x]
    BY <1>2, <2>1, ForwardEffect
  <2>3. CallTypes'
    <3>1. PICK x \in {"draining", "waiting", "done", "raised"} : pc' = [pc EXCEPT ![c] = x]
      BY <2>2
    <3> QED BY <1>4, <2>2, <3>1 DEF PcStates
  <2> QED BY <1>3, <2>2, <2>3 DEF TypeOK, CallTypes, AfterAudit
<1>6. CASE AuditRefuses(c, v)
  <2> DEFINE d == Arbitrate(TRUE, TRUE, TRUE, v)
  <2>1. d \in Decisions
    BY ArbitrateType
  <2>2. Refuse(c, req[c], eng, d) /\ UNCHANGED <<fut, table, inbox>>
    BY <1>6 DEF AuditRefuses
  <2> HIDE DEF d
  <2>3. /\ eng' \in Engine /\ taint' \subseteq Tags
        /\ receipts' \in Seq(Receipts) /\ outcomes' \in Seq(Outcomes)
        /\ loop' \in {"accepting", "stopped", "closed"}
        /\ \E x \in {"done", "raised"} : pc' = [pc EXCEPT ![c] = x]
    BY <1>2, <2>1, <2>2, RefuseEffect
  <2>4. CallTypes'
    <3>1. PICK x \in {"done", "raised"} : pc' = [pc EXCEPT ![c] = x]
      BY <2>3
    <3> QED BY <1>4, <2>2, <3>1 DEF PcStates
  <2> QED BY <1>3, <2>2, <2>3, <2>4 DEF TypeOK, CallTypes, AfterAudit
<1> QED BY <1>1, <1>5, <1>6

LEMMA DrainedTypeOK ==
    ASSUME TypeOK, NEW c \in Calls, Drained(c)
    PROVE  TypeOK'
<1>1. /\ CallTypes /\ pc[c] # "idle" /\ req' = req
      /\ inbox' = inbox /\ executed' = executed
      /\ \E x \in {"waiting", "raised"} : pc' = [pc EXCEPT ![c] = x]
  BY DEF Drained, DrainReturns, DrainRaises, Raise, TypeOK, CallTypes, childVars
<1>2. CallTypes'
  BY <1>1, CallMoves DEF PcStates
<1>3. loop' \in {"accepting", "stopped", "closed"}
  BY DEF Drained, DrainReturns, DrainRaises, Raise, TypeOK
<1>4. UNCHANGED <<eng, taint, fut, table, dispatcher, childVars, ledgerOk, receipts, outcomes>>
  BY DEF Drained, DrainReturns, DrainRaises
<1> QED BY <1>2, <1>3, <1>4 DEF TypeOK, CallTypes, childVars

\* What a resumed call saw, whichever way it resumed.
LEMMA ResumeConcludes ==
    ASSUME NEW c \in Calls, Resume(c)
    PROVE  /\ pc[c] = "waiting"
           /\ \E obs \in Observations : Conclude(c, req[c], eng, obs)
           /\ table' = table \/ table' = Release(c)
           /\ UNCHANGED <<req, fut, dispatcher, childVars, ledgerOk>>
<1>1. CASE ResumeAnswered(c)
  BY <1>1 DEF ResumeAnswered, Observations
<1>2. CASE ResumeLost(c)
  BY <1>2 DEF ResumeLost, Observations
<1>3. CASE TimeOut(c)
  BY <1>3 DEF TimeOut, Observations
<1> QED BY <1>1, <1>2, <1>3 DEF Resume

LEMMA ResumeTypeOK ==
    ASSUME TypeOK, ProxyAssumption, NEW c \in Calls, Resume(c)
    PROVE  TypeOK'
<1>1. PICK obs \in Observations : Conclude(c, req[c], eng, obs)
  BY ResumeConcludes
<1>2. /\ pc[c] = "waiting"
      /\ table' = table \/ table' = Release(c)
      /\ UNCHANGED <<req, fut, dispatcher, childVars, ledgerOk>>
  BY ResumeConcludes
<1>3. req[c] \in Requests /\ eng \in Engine
  BY <1>2 DEF TypeOK, Requests
<1>4. /\ eng' \in Engine /\ taint' \subseteq Tags
      /\ receipts' \in Seq(Receipts) /\ outcomes' \in Seq(Outcomes)
      /\ loop' \in {"accepting", "stopped", "closed"}
      /\ \E x \in {"done", "raised"} : pc' = [pc EXCEPT ![c] = x]
  BY <1>1, <1>3, ConcludeEffect
<1>5. CallTypes'
  <2>1. /\ CallTypes /\ pc[c] # "idle" /\ req' = req
        /\ inbox' = inbox /\ executed' = executed
    BY <1>2 DEF TypeOK, CallTypes, childVars
  <2> QED BY <2>1, <1>4, CallMoves DEF PcStates
<1>6. table' \in [RequestIds -> Calls \cup {NoCall}]
  BY <1>2, <1>3 DEF TypeOK, Release
<1> QED BY <1>2, <1>4, <1>5, <1>6 DEF TypeOK, CallTypes, childVars

LEMMA DispatcherEndsType ==
    ASSUME TypeOK, DispatcherEnds
    PROVE  /\ dispatcher' = "ended" /\ fut' \in [Calls -> FutStates]
           /\ table' \in [RequestIds -> Calls \cup {NoCall}]
BY DEF DispatcherEnds, TypeOK, FutStates

LEMMA DispatchTypeOK ==
    ASSUME TypeOK, Dispatch
    PROVE  TypeOK'
<1>1. CASE DispatchMessage
  <2>1. Head(stdout) \in Messages /\ stdout' \in Seq(Messages \cup {Garbage})
    BY <1>1, HeadTailProperties DEF DispatchMessage, TypeOK
  <2>2. fut' \in [Calls -> FutStates] /\ table' \in [RequestIds -> Calls \cup {NoCall}]
    BY <1>1, <2>1 DEF DispatchMessage, TypeOK, Messages, FutStates
  <2> QED BY <1>1, <2>1, <2>2 DEF DispatchMessage, TypeOK
<1>2. CASE DispatchGarbage
  <2>1. stdout' \in Seq(Messages \cup {Garbage})
    BY <1>2, HeadTailProperties DEF DispatchGarbage, TypeOK
  <2>2. DispatcherEnds
    BY <1>2 DEF DispatchGarbage
  <2> QED BY <1>2, <2>1, <2>2, DispatcherEndsType DEF DispatchGarbage, TypeOK
<1>3. CASE DispatchEof
  <2>1. DispatcherEnds
    BY <1>3 DEF DispatchEof
  <2> QED BY <1>3, <2>1, DispatcherEndsType DEF DispatchEof, TypeOK, childVars
<1> QED BY <1>1, <1>2, <1>3 DEF Dispatch

LEMMA ChildTypeOK ==
    ASSUME TypeOK, \/ \E c \in Calls : Child(c)
                   \/ ChildEmitsGarbage \/ ChildDies \/ StdinLost \/ Start
    PROVE  TypeOK'
<1>1. ASSUME NEW c \in Calls, ChildExecutes(c) PROVE TypeOK'
  BY <1>1 DEF ChildExecutes, TypeOK, callVars
<1>2. ASSUME NEW c \in Calls, NEW kind \in {"result", "error"}, ChildAnswers(c, kind)
      PROVE  TypeOK'
  <2> DEFINE msg == [id |-> req[c].id, kind |-> kind]
  <2>1. req[c] \in Requests
    BY <1>2 DEF ChildAnswers, TypeOK, Requests
  <2>2. msg \in Messages \cup {Garbage}
    BY <2>1 DEF Requests, ToolRequests, PlainRequests, Messages
  <2>3. stdout' = Append(stdout, msg)
    BY <1>2 DEF ChildAnswers
  <2> HIDE DEF msg
  <2>4. stdout' \in Seq(Messages \cup {Garbage})
    BY <2>2, <2>3, AppendProperties DEF TypeOK
  <2> QED BY <1>2, <2>4 DEF ChildAnswers, TypeOK, callVars
<1>3. CASE ChildEmitsGarbage
  <2>1. stdout' \in Seq(Messages \cup {Garbage})
    BY <1>3, AppendProperties DEF ChildEmitsGarbage, TypeOK
  <2> QED BY <1>3, <2>1 DEF ChildEmitsGarbage, TypeOK, callVars
<1>4. CASE ChildDies
  BY <1>4 DEF ChildDies, TypeOK, callVars
<1>5. CASE StdinLost
  BY <1>5 DEF StdinLost, TypeOK, callVars
<1>6. CASE Start
  BY <1>6 DEF Start, TypeOK, callVars
<1> QED BY <1>1, <1>2, <1>3, <1>4, <1>5, <1>6 DEF Child

LEMMA CloseTypeOK ==
    ASSUME TypeOK, Close
    PROVE  TypeOK'
<1>1. /\ dispatcher' \in {"none", "reading", "ended"}
      /\ fut' \in [Calls -> FutStates]
      /\ table' \in [RequestIds -> Calls \cup {NoCall}]
  BY DispatcherEndsType DEF Close, TypeOK
<1> QED BY <1>1 DEF Close, TypeOK

LEMMA StepTypeOK ==
    ASSUME TypeOK, ProxyAssumption, [Next]_vars
    PROVE  TypeOK'
<1>1. ASSUME NEW c \in Calls, Receive(c) PROVE TypeOK'
  BY <1>1, ReceiveTypeOK
<1>2. ASSUME NEW c \in Calls, Audited(c) PROVE TypeOK'
  BY <1>2, AuditedTypeOK
<1>3. ASSUME NEW c \in Calls, Drained(c) PROVE TypeOK'
  BY <1>3, DrainedTypeOK
<1>4. ASSUME NEW c \in Calls, Resume(c) PROVE TypeOK'
  BY <1>4, ResumeTypeOK
<1>5. CASE Dispatch
  BY <1>5, DispatchTypeOK
<1>6. CASE \/ \E c \in Calls : Child(c)
           \/ ChildEmitsGarbage \/ ChildDies \/ StdinLost \/ Start
  BY <1>6, ChildTypeOK
<1>7. CASE Close
  BY <1>7, CloseTypeOK
<1>8. CASE UNCHANGED vars
  BY <1>8 DEF vars, callVars, childVars, TypeOK
<1> QED BY <1>1, <1>2, <1>3, <1>4, <1>5, <1>6, <1>7, <1>8 DEF Next

\* The proxy's state stays well typed: in particular a call that is being
\* audited carries a tool request, the child never holds a call that was not
\* received, and every entry of the engine's pending dictionary names a
\* declared workflow and state (engine.py, mcp_stdio_proxy.py).
THEOREM TypeCorrect == Spec => []TypeOK
<1>1. Init => TypeOK
  BY InitTypeOK
<1>2. TypeOK /\ [Next]_vars => TypeOK'
  BY StepTypeOK, ProxyAssumption
<1> QED BY <1>1, <1>2, PTL DEF Spec

-----------------------------------------------------------------------------
(* max_occurrences under concurrency                                       *)
(*                                                                         *)
(* The bound is not inductive: a count may rise whenever a call of its     *)
(* tool is in flight.  What is inductive is that the count and the calls   *)
(* of the tool in flight stay below the limit together, up to the number   *)
(* of calls that may be in flight at once.                                 *)

OnTool(t) == {c \in InFlight : req[c].kind = "tool" /\ req[c].tool = t}

Budget ==
    \A w \in Workflow : \A rule \in MaxOccurrences[w] :
        eng.count[rule[1]] + Cardinality(OnTool(rule[1])) <= rule[2] - 1 + MaxInFlight

\* The three ways in which a step may touch the count of tool t and the
\* calls of t in flight.
Keeps(t) ==
    /\ eng'.count[t] = eng.count[t]
    /\ OnTool(t)' \subseteq OnTool(t)

Counts(t) ==
    /\ eng'.count[t] = eng.count[t] + 1
    /\ \E c \in OnTool(t) : OnTool(t)' \subseteq OnTool(t) \ {c}

Admits(t) ==
    /\ eng'.count[t] = eng.count[t]
    /\ Permits(eng, t) /\ Cardinality(InFlight) < MaxInFlight
    /\ \E c \in Calls : OnTool(t)' \subseteq OnTool(t) \cup {c}

\* A call that ends, or only moves on, adds nothing.
LEMMA EndsKeep ==
    ASSUME TypeOK, NEW c \in Calls, NEW t, req' = req,
           NEW x \in PcStates, pc' = [pc EXCEPT ![c] = x],
           x \in {"done", "raised"} \/ c \in InFlight
    PROVE  /\ OnTool(t)' \subseteq OnTool(t)
           /\ x \in {"done", "raised"} => OnTool(t)' \subseteq OnTool(t) \ {c}
BY DEF OnTool, InFlight, TypeOK

\* A newly accepted call can add only itself, and only to its own tool.
LEMMA AcceptKeeps ==
    ASSUME TypeOK, NEW c \in Calls, NEW t, NEW r, Accept(c, r),
           NEW x \in PcStates, pc' = [pc EXCEPT ![c] = x]
    PROVE  /\ OnTool(t)' \subseteq OnTool(t) \cup {c}
           /\ (x \in {"done", "raised"} \/ r.kind # "tool" \/ r.tool # t)
                => OnTool(t)' \subseteq OnTool(t)
           /\ Cardinality(InFlight) < MaxInFlight
<1>1. pc[c] = "idle" /\ req' = [req EXCEPT ![c] = r] /\ Cardinality(InFlight) < MaxInFlight
  BY DEF Accept
<1> QED BY <1>1 DEF OnTool, InFlight, TypeOK

LEMMA ReceiveEffect ==
    ASSUME TypeOK, ProxyAssumption, NEW c \in Calls, Receive(c), NEW t \in Tools
    PROVE  Keeps(t) \/ Admits(t)
<1>1. PICK id \in RequestIds :
        \/ \E u \in Tools, cbac \in BOOLEAN : ReceiveDenied(c, id, u, cbac)
        \/ \E u \in Tools : ReceiveForAudit(c, id, u)
        \/ \E u \in Tools : ReceivePermitted(c, id, u)
        \/ ReceivePlain(c, id)
  BY DEF Receive
<1>2. ASSUME NEW r \in Requests, Accept(c, r), NEW x \in PcStates, pc' = [pc EXCEPT ![c] = x],
             eng'.count = eng.count,
             \/ x \in {"done", "raised"}
             \/ r.kind = "plain"
             \/ r.kind = "tool" /\ Permits(eng, r.tool)
      PROVE  Keeps(t) \/ Admits(t)
  <2>1. /\ OnTool(t)' \subseteq OnTool(t) \cup {c}
        /\ (x \in {"done", "raised"} \/ r.kind # "tool" \/ r.tool # t)
                => OnTool(t)' \subseteq OnTool(t)
        /\ Cardinality(InFlight) < MaxInFlight
    BY <1>2, AcceptKeeps
  <2>2. CASE x \in {"done", "raised"} \/ r.kind # "tool" \/ r.tool # t
    BY <1>2, <2>1, <2>2 DEF Keeps
  <2>3. CASE r.kind = "tool" /\ r.tool = t /\ Permits(eng, r.tool)
    BY <1>2, <2>1, <2>3 DEF Admits
  <2> QED BY <1>2, <2>2, <2>3
<1>3. ASSUME NEW u \in Tools, NEW cbac \in BOOLEAN, ReceiveDenied(c, id, u, cbac)
      PROVE  Keeps(t) \/ Admits(t)
  <2> DEFINE r == ToolRequest(id, u)
             e == Evaluate(eng, id, u)
             d == Arbitrate(cbac, FlowAllowed(u), Permits(eng, u), "NONE")
  <2>1. r \in ToolRequests /\ r \in Requests
    BY ToolRequestType DEF Requests
  <2>2. e \in Engine /\ e.count = eng.count
    BY EvaluateType DEF TypeOK
  <2>3. d \in Decisions
    BY ArbitrateType DEF FlowAllowed, Permits
  <2>4. Accept(c, r) /\ Refuse(c, r, e, d)
    BY <1>3 DEF ReceiveDenied
  <2> HIDE DEF r, e, d
  <2>5. PICK x \in {"done", "raised"} : pc' = [pc EXCEPT ![c] = x]
    BY <2>1, <2>2, <2>3, <2>4, RefuseEffect
  <2>6. eng'.count = eng.count
    BY <2>1, <2>2, <2>3, <2>4, RefuseEffect
  <2> QED BY <1>2, <2>1, <2>4, <2>5, <2>6 DEF PcStates
<1>4. ASSUME NEW u \in Tools, ReceiveForAudit(c, id, u)
      PROVE  Keeps(t) \/ Admits(t)
  <2>1. ToolRequest(id, u) \in Requests /\ ToolRequest(id, u).kind = "tool"
        /\ ToolRequest(id, u).tool = u
    BY ToolRequestType DEF Requests, ToolRequest
  <2>2. eng'.count = eng.count
    BY <1>4, EvaluateType DEF ReceiveForAudit, TypeOK
  <2>3. /\ Accept(c, ToolRequest(id, u)) /\ pc' = [pc EXCEPT ![c] = "auditing"]
        /\ Permits(eng, u)
    BY <1>4 DEF ReceiveForAudit
  <2> QED BY <1>2, <2>1, <2>2, <2>3 DEF PcStates
<1>5. ASSUME NEW r \in Requests, NEW e \in Engine, e.count = eng.count,
             r.kind = "plain" => e = eng,
             r.kind = "plain" \/ (r.kind = "tool" /\ Permits(eng, r.tool)),
             Accept(c, r), Forward(c, r, e)
      PROVE  Keeps(t) \/ Admits(t)
  <2>1. /\ \E x \in {"draining", "waiting", "done", "raised"} : pc' = [pc EXCEPT ![c] = x]
        /\ eng'.count = e.count
    BY <1>5, ForwardEffect
  <2>2. PICK x \in {"draining", "waiting", "done", "raised"} : pc' = [pc EXCEPT ![c] = x]
    BY <2>1
  <2>3. x \in PcStates /\ eng'.count = eng.count
    BY <1>5, <2>1 DEF PcStates
  <2> QED BY <1>2, <1>5, <2>2, <2>3
<1>6. ASSUME NEW u \in Tools, ReceivePermitted(c, id, u)
      PROVE  Keeps(t) \/ Admits(t)
  <2>1. ToolRequest(id, u) \in Requests /\ ToolRequest(id, u).kind = "tool"
        /\ ToolRequest(id, u).tool = u
    BY ToolRequestType DEF Requests, ToolRequest
  <2>2. Evaluate(eng, id, u) \in Engine /\ Evaluate(eng, id, u).count = eng.count
    BY EvaluateType DEF TypeOK
  <2>3. /\ Accept(c, ToolRequest(id, u)) /\ Forward(c, ToolRequest(id, u), Evaluate(eng, id, u))
        /\ Permits(eng, u)
    BY <1>6 DEF ReceivePermitted
  <2> QED BY <2>1, <2>2, <2>3, <1>5
<1>7. CASE ReceivePlain(c, id)
  <2> DEFINE r == [kind |-> "plain", id |-> id]
  <2>1. r \in Requests /\ eng \in Engine /\ r.kind = "plain"
    BY DEF Requests, PlainRequests, TypeOK
  <2>2. Accept(c, r) /\ Forward(c, r, eng)
    BY <1>7 DEF ReceivePlain
  <2> HIDE DEF r
  <2> QED BY <2>1, <2>2, <1>5
<1> QED BY <1>1, <1>3, <1>4, <1>6, <1>7

LEMMA AuditedEffect ==
    ASSUME TypeOK, ProxyAssumption, NEW c \in Calls, Audited(c), NEW t \in Tools
    PROVE  Keeps(t)
<1>1. PICK v \in Verdicts : AuditPermits(c, v) \/ AuditRefuses(c, v)
  BY DEF Audited
<1>2. /\ pc[c] = "auditing" /\ req[c] \in ToolRequests /\ req[c] \in Requests /\ eng \in Engine
      /\ req' = req /\ c \in InFlight
  BY <1>1 DEF AuditPermits, AuditRefuses, TypeOK, Requests, AfterAudit, InFlight
<1>3. /\ \E x \in {"draining", "waiting", "done", "raised"} : pc' = [pc EXCEPT ![c] = x]
      /\ eng'.count = eng.count
  <2>1. CASE AuditPermits(c, v)
    <3>1. Forward(c, req[c], eng)
      BY <2>1 DEF AuditPermits
    <3> QED BY <1>2, <3>1, ForwardEffect
  <2>2. CASE AuditRefuses(c, v)
    <3> DEFINE d == Arbitrate(TRUE, TRUE, TRUE, v)
    <3>1. d \in Decisions
      BY ArbitrateType
    <3>2. Refuse(c, req[c], eng, d)
      BY <2>2 DEF AuditRefuses
    <3> HIDE DEF d
    <3> QED BY <1>2, <3>1, <3>2, RefuseEffect
  <2> QED BY <1>1, <2>1, <2>2
<1>4. OnTool(t)' \subseteq OnTool(t)
  BY <1>2, <1>3, EndsKeep DEF PcStates
<1> QED BY <1>3, <1>4 DEF Keeps

LEMMA ResumeEffect ==
    ASSUME TypeOK, ProxyAssumption, NEW c \in Calls, Resume(c), NEW t \in Tools
    PROVE  Keeps(t) \/ Counts(t)
<1>1. PICK obs \in Observations : Conclude(c, req[c], eng, obs)
  BY ResumeConcludes
<1>2. pc[c] = "waiting" /\ req' = req /\ req[c] \in Requests /\ eng \in Engine
  BY ResumeConcludes DEF TypeOK, Requests
<1> DEFINE r == req[c]
<1>3. /\ \E x \in {"done", "raised"} : pc' = [pc EXCEPT ![c] = x]
      /\ eng'.count = IF r.kind = "tool" /\ obs = "RESPONSE_RECEIVED"
                      THEN [eng.count EXCEPT ![r.tool] = @ + 1] ELSE eng.count
  BY <1>1, <1>2, ConcludeEffect
<1>4. OnTool(t)' \subseteq OnTool(t) \ {c}
  BY <1>2, <1>3, EndsKeep DEF PcStates
<1>5. CASE r.kind = "tool" /\ r.tool = t /\ obs = "RESPONSE_RECEIVED"
  <2>1. c \in OnTool(t)
    BY <1>2, <1>5 DEF OnTool, InFlight
  <2>2. eng'.count[t] = eng.count[t] + 1
    BY <1>2, <1>3, <1>5 DEF Engine
  <2> QED BY <1>4, <2>1, <2>2 DEF Counts
<1>6. CASE ~(r.kind = "tool" /\ r.tool = t /\ obs = "RESPONSE_RECEIVED")
  <2>1. eng'.count[t] = eng.count[t]
    BY <1>2, <1>3, <1>6 DEF Engine
  <2> QED BY <1>4, <2>1 DEF Keeps
<1> QED BY <1>5, <1>6

LEMMA StepEffect ==
    ASSUME TypeOK, ProxyAssumption, [Next]_vars, NEW t \in Tools
    PROVE  Keeps(t) \/ Counts(t) \/ Admits(t)
<1>1. ASSUME NEW c \in Calls, Receive(c) PROVE Keeps(t) \/ Admits(t)
  BY <1>1, ReceiveEffect
<1>2. ASSUME NEW c \in Calls, Audited(c) PROVE Keeps(t)
  BY <1>2, AuditedEffect
<1>3. ASSUME NEW c \in Calls, Drained(c) PROVE Keeps(t)
  <2>1. PICK x \in {"waiting", "raised"} : pc' = [pc EXCEPT ![c] = x]
    BY <1>3 DEF Drained, DrainReturns, DrainRaises, Raise
  <2>2. pc[c] = "draining" /\ req' = req /\ eng' = eng
    BY <1>3 DEF Drained, DrainReturns, DrainRaises
  <2>3. OnTool(t)' \subseteq OnTool(t)
    BY <2>1, <2>2, EndsKeep DEF PcStates, InFlight
  <2> QED BY <2>2, <2>3 DEF Keeps
<1>4. ASSUME NEW c \in Calls, Resume(c) PROVE Keeps(t) \/ Counts(t)
  BY <1>4, ResumeEffect
<1>5. CASE eng' = eng /\ pc' = pc /\ req' = req
  BY <1>5 DEF Keeps, OnTool, InFlight
<1>6. CASE Dispatch
  BY <1>5, <1>6 DEF Dispatch, DispatchMessage, DispatchGarbage, DispatchEof
<1>7. CASE \E c \in Calls : Child(c)
  BY <1>5, <1>7 DEF Child, ChildExecutes, ChildAnswers, callVars
<1>8. CASE Start \/ Close \/ ChildEmitsGarbage \/ ChildDies \/ StdinLost
  BY <1>5, <1>8 DEF Start, Close, ChildEmitsGarbage, ChildDies, StdinLost, callVars
<1>9. CASE UNCHANGED vars
  BY <1>5, <1>9 DEF vars, callVars
<1> QED BY <1>1, <1>2, <1>3, <1>4, <1>6, <1>7, <1>8, <1>9 DEF Next

LEMMA OnToolFinite ==
    ASSUME ProxyAssumption, NEW t
    PROVE  /\ IsFiniteSet(InFlight) /\ IsFiniteSet(OnTool(t))
           /\ Cardinality(InFlight) \in Nat /\ Cardinality(OnTool(t)) \in Nat
           /\ Cardinality(OnTool(t)) <= Cardinality(InFlight)
<1>1. InFlight \subseteq Calls /\ OnTool(t) \subseteq InFlight
  BY DEF InFlight, OnTool
<1>2. IsFiniteSet(InFlight)
  BY <1>1, FS_Subset DEF ProxyAssumption
<1> QED BY <1>1, <1>2, FS_Subset, FS_CardinalityType

LEMMA StepBudget ==
    ASSUME TypeOK, ProxyAssumption, PolicyAssumption, Budget, [Next]_vars
    PROVE  Budget'
<1> SUFFICES ASSUME NEW w \in Workflow, NEW rule \in MaxOccurrences[w]
             PROVE  eng'.count[rule[1]] + Cardinality(OnTool(rule[1])')
                      <= rule[2] - 1 + MaxInFlight
  BY DEF Budget
<1> DEFINE t == rule[1]
           n == rule[2]
           A == OnTool(t)
           B == OnTool(t)'
<1>1. t \in Tools /\ n \in Nat
  BY DEF PolicyAssumption
<1>2. eng.count[t] \in Nat /\ MaxInFlight \in Nat
  BY <1>1 DEF TypeOK, Engine, ProxyAssumption
<1>3. eng.count[t] + Cardinality(A) <= n - 1 + MaxInFlight
  BY DEF Budget
<1>4. IsFiniteSet(A) /\ Cardinality(A) \in Nat
  BY OnToolFinite
<1> HIDE DEF t, n, A, B
<1>5. CASE Keeps(t)
  <2>1. Cardinality(B) \in Nat /\ Cardinality(B) <= Cardinality(A)
    BY <1>4, <1>5, FS_Subset, FS_CardinalityType DEF Keeps, A, B
  <2> QED BY <1>2, <1>3, <1>4, <1>5, <1>1, <2>1 DEF Keeps, B, t, n
<1>6. CASE Counts(t)
  <2>1. PICK c \in A : B \subseteq A \ {c}
    BY <1>6 DEF Counts, A, B
  <2>2. IsFiniteSet(A \ {c}) /\ Cardinality(A \ {c}) = Cardinality(A) - 1
    BY <1>4, <2>1, FS_RemoveElement
  <2>3. Cardinality(B) \in Nat /\ Cardinality(B) <= Cardinality(A) - 1
    BY <2>1, <2>2, FS_Subset, FS_CardinalityType
  <2> QED BY <1>2, <1>3, <1>4, <1>6, <1>1, <2>3 DEF Counts, B, t, n
<1>7. CASE Admits(t)
  <2>1. PICK c \in Calls : B \subseteq A \cup {c}
    BY <1>7 DEF Admits, A, B
  <2>2. IsFiniteSet(A \cup {c}) /\ Cardinality(A \cup {c}) <= Cardinality(A) + 1
    <3>1. /\ IsFiniteSet(A \cup {c})
          /\ Cardinality(A \cup {c}) = IF c \in A THEN Cardinality(A) ELSE Cardinality(A) + 1
      BY <1>4, FS_AddElement
    <3> QED BY <1>4, <3>1
  <2>3. Cardinality(B) \in Nat /\ Cardinality(B) <= Cardinality(A) + 1
    BY <1>4, <2>1, <2>2, FS_Subset, FS_CardinalityType
  <2>4. Cardinality(A) <= Cardinality(InFlight) /\ Cardinality(InFlight) < MaxInFlight
        /\ Cardinality(InFlight) \in Nat
    BY <1>7, OnToolFinite DEF Admits, A
  <2>5. eng.count[t] < n
    <3>1. ~(eng.count[t] >= n)
      BY <1>7 DEF Admits, Permits, Forbids, t, n
    <3> QED BY <1>1, <1>2, <3>1
  <2>6. eng'.count[t] = eng.count[t]
    BY <1>7 DEF Admits
  <2>7. eng'.count[t] + Cardinality(B) <= n - 1 + MaxInFlight
    BY <1>1, <1>2, <1>4, <2>3, <2>4, <2>5, <2>6
  <2> QED BY <2>7 DEF B, t, n
<1> QED BY <1>1, <1>5, <1>6, <1>7, StepEffect

LEMMA InitBudget ==
    ASSUME Init, ProxyAssumption, PolicyAssumption
    PROVE  Budget
<1> SUFFICES ASSUME NEW w \in Workflow, NEW rule \in MaxOccurrences[w]
             PROVE  eng.count[rule[1]] + Cardinality(OnTool(rule[1])) <= rule[2] - 1 + MaxInFlight
  BY DEF Budget
<1>1. rule[1] \in Tools /\ rule[2] \in Nat
  BY DEF PolicyAssumption
<1>2. eng.count[rule[1]] = 0
  BY <1>1 DEF Init, InitEngine
<1>3. OnTool(rule[1]) = {}
  BY DEF Init, OnTool, InFlight
<1>4. Cardinality(OnTool(rule[1])) = 0
  BY <1>3, FS_EmptySet
<1>5. MaxInFlight \in Nat /\ MaxInFlight >= 1
  BY DEF ProxyAssumption
<1> QED BY <1>1, <1>2, <1>4, <1>5

\* max_occurrences (engine.py, evaluate and commit_outcome): for every
\* policy, a tool's confirmed calls exceed a limit n by at most
\* MaxInFlight - 1, so in the run() loop, where one call is in flight at a
\* time, the limit is exact.
THEOREM OccurrencesAreBounded == Spec => []OccurrencesBounded
<1>1. Init => TypeOK /\ Budget
  BY InitTypeOK, InitBudget, ProxyAssumption, PolicyAssumption
<1>2. TypeOK /\ Budget /\ [Next]_vars => TypeOK' /\ Budget'
  BY StepTypeOK, StepBudget, ProxyAssumption, PolicyAssumption
<1>3. TypeOK /\ Budget => OccurrencesBounded
  <2> SUFFICES ASSUME TypeOK, Budget, NEW w \in Workflow, NEW rule \in MaxOccurrences[w]
               PROVE  eng.count[rule[1]] <= rule[2] - 1 + MaxInFlight
    BY DEF OccurrencesBounded
  <2>1. Cardinality(OnTool(rule[1])) \in Nat
    BY OnToolFinite, ProxyAssumption
  <2>2. eng.count[rule[1]] \in Nat /\ rule[2] \in Nat /\ MaxInFlight \in Nat
    BY PolicyAssumption, ProxyAssumption DEF TypeOK, Engine
  <2>3. eng.count[rule[1]] + Cardinality(OnTool(rule[1])) <= rule[2] - 1 + MaxInFlight
    BY DEF Budget
  <2> QED BY <2>1, <2>2, <2>3
<1> QED BY <1>1, <1>2, <1>3, PTL DEF Spec
=============================================================================
