------------------------ MODULE CircuitBreakerProofs ------------------------
(***************************************************************************)
(* The circuit breaker for every number of replicas, requests and every    *)
(* pair of thresholds: types, the bound on probes, and that replicas agree *)
(* once no snapshot is under way.                                          *)
(***************************************************************************)
EXTENDS CircuitBreaker, SequenceTheorems, FiniteSetTheorems, TLAPS

-----------------------------------------------------------------------------
(* The inductive invariant.  A closed circuit may come from a snapshot, so  *)
(* every snapshot under way must leave it failures to spare as well.        *)

Spare(x) == x.state = "CLOSED" => x.failures < FailureThreshold

GoodBreakers == {b \in Breaker : Spare(b)}

GoodSnapshots == {s \in CircuitSnapshots : Spare(s)}

GoodSaves == [snap : GoodSnapshots, set : BOOLEAN]

Types ==
    /\ brk \in [Replicas -> GoodBreakers]
    /\ at \in [Requests -> Replicas \cup {Nowhere}]
    /\ failing \subseteq {c \in Requests : at[c] # Nowhere}
    /\ probes \in [Replicas -> SUBSET Requests]
    /\ forced \in 0 .. MaxForced
    /\ saves \in [Replicas -> Seq(GoodSaves)]
    /\ store \in GoodSnapshots \cup {NoSnapshot}
    /\ inbox \in [Replicas -> Seq(GoodSnapshots)]
    /\ hydration \in [Replicas -> GoodSnapshots \cup {Asked, Over, NoSnapshot}]

\* Probes in flight are paid for by a success each, or by the raised flag.
Paid(b, S) ==
    IF b.state = "HALF_OPEN"
    THEN Cardinality(S) <= b.successes + (IF b.probing THEN 1 ELSE 0)
    ELSE S = {}

AllPaid == \A r \in Replicas : Paid(brk[r], probes[r])

-----------------------------------------------------------------------------
(* The breaker's methods *)

\* A new breaker is good.
LEMMA NewBreakerIsGood == NewBreaker \in GoodBreakers
BY BreakerAssumption DEF GoodBreakers, Breaker, NewBreaker, Spare, CircuitState

\* allowRequest keeps the fields in range, and never closes or opens.
LEMMA AllowedIsGood ==
    ASSUME NEW b \in GoodBreakers
    PROVE  /\ Allowed(b) \in GoodBreakers
           /\ Allowed(b).state = "CLOSED" <=> b.state = "CLOSED"
BY DEF GoodBreakers, Breaker, Allowed, Spare, CircuitState

\* recordSuccess keeps the fields in range; the only state it enters is
\* CLOSED, and where it leaves the circuit HALF_OPEN it trades flag for count.
LEMMA SucceededIsGood ==
    ASSUME NEW b \in GoodBreakers
    PROVE  /\ Succeeded(b) \in GoodBreakers
           /\ Succeeded(b).state \in {b.state, "CLOSED"}
           /\ Succeeded(b).state = "HALF_OPEN" =>
                 ~Succeeded(b).probing /\ Succeeded(b).successes = b.successes + 1
<1>0. /\ FailureThreshold \in Nat /\ 0 < FailureThreshold
      /\ SuccessThreshold \in Nat /\ 0 < SuccessThreshold
  BY BreakerAssumption
<1>1. CASE b.state = "HALF_OPEN" /\ b.successes + 1 >= SuccessThreshold
  <2>1. Succeeded(b) =
          [b EXCEPT !.state = "CLOSED", !.probing = FALSE, !.failures = 0, !.successes = 0]
    BY <1>1 DEF Succeeded
  <2>2. 0 \in 0 .. FailureThreshold /\ 0 \in 0 .. SuccessThreshold - 1
    BY <1>0
  <2>3. Succeeded(b) \in Breaker
    BY <2>1, <2>2 DEF GoodBreakers, Breaker, CircuitState
  <2>4. Succeeded(b).state = "CLOSED" /\ Succeeded(b).failures = 0
    BY <2>1 DEF GoodBreakers, Breaker
  <2> QED BY <1>0, <2>3, <2>4 DEF GoodBreakers, Spare
<1>2. CASE b.state = "HALF_OPEN" /\ ~(b.successes + 1 >= SuccessThreshold)
  <2>1. /\ b.successes + 1 \in 0 .. SuccessThreshold - 1
        /\ b.successes + 1 < SuccessThreshold
    BY <1>0, <1>2 DEF GoodBreakers, Breaker
  <2>2. Succeeded(b) = [b EXCEPT !.probing = FALSE, !.successes = b.successes + 1]
    BY <1>2, <2>1 DEF Succeeded
  <2> QED BY <1>2, <2>1, <2>2 DEF GoodBreakers, Breaker, Spare, CircuitState
<1>3. CASE b.state = "CLOSED"
  BY <1>0, <1>3 DEF GoodBreakers, Breaker, Succeeded, Spare, CircuitState
<1>4. CASE b.state = "OPEN"
  BY <1>4 DEF GoodBreakers, Breaker, Succeeded, Spare, CircuitState
<1> QED BY <1>1, <1>2, <1>3, <1>4 DEF GoodBreakers, Breaker, CircuitState

\* recordFailure keeps the fields in range; the only state it enters is OPEN,
\* and it never leaves the circuit HALF_OPEN.
LEMMA FailedIsGood ==
    ASSUME NEW b \in GoodBreakers
    PROVE  /\ Failed(b) \in GoodBreakers
           /\ Failed(b).state \in {b.state, "OPEN"} \ {"HALF_OPEN"}
<1>0. /\ FailureThreshold \in Nat /\ 0 < FailureThreshold
      /\ SuccessThreshold \in Nat /\ 0 < SuccessThreshold
  BY BreakerAssumption
<1>1. CASE b.state = "HALF_OPEN"
  <2>1. Failed(b) =
          [b EXCEPT !.state = "OPEN", !.probing = FALSE, !.successes = 0, !.due = FALSE]
    BY <1>1 DEF Failed
  <2>2. 0 \in 0 .. SuccessThreshold - 1
    BY <1>0
  <2> QED BY <2>1, <2>2 DEF GoodBreakers, Breaker, Spare, CircuitState
<1>2. CASE b.state = "CLOSED"
  <2>1. b.failures \in Nat /\ b.failures + 1 \in 0 .. FailureThreshold
    BY <1>0, <1>2 DEF GoodBreakers, Breaker, Spare
  <2>2. CASE b.failures + 1 >= FailureThreshold
    <3>1. Failed(b) =
            [b EXCEPT !.state = "OPEN", !.failures = b.failures + 1, !.due = FALSE]
      BY <1>2, <2>2 DEF Failed
    <3> QED BY <2>1, <3>1 DEF GoodBreakers, Breaker, Spare, CircuitState
  <2>3. CASE b.failures + 1 < FailureThreshold
    <3>1. ~(b.failures + 1 >= FailureThreshold)
      BY <1>0, <2>1, <2>3
    <3>2. Failed(b) = [b EXCEPT !.failures = b.failures + 1]
      BY <1>2, <2>3, <3>1 DEF Failed
    <3> QED BY <1>2, <2>1, <2>3, <3>2 DEF GoodBreakers, Breaker, Spare, CircuitState
  <2> QED BY <1>0, <2>1, <2>2, <2>3
<1>3. CASE b.state = "OPEN"
  BY <1>3 DEF GoodBreakers, Breaker, Failed, Spare, CircuitState
<1> QED BY <1>1, <1>2, <1>3 DEF GoodBreakers, Breaker, CircuitState

\* forceOpen keeps the fields in range and opens.
LEMMA ForcedOpenIsGood ==
    ASSUME NEW b \in GoodBreakers
    PROVE  ForcedOpen(b) \in GoodBreakers /\ ForcedOpen(b).state = "OPEN"
<1>1. FailureThreshold \in 0 .. FailureThreshold
  BY BreakerAssumption
<1> QED BY <1>1 DEF GoodBreakers, Breaker, ForcedOpen, Spare, CircuitState

\* A good snapshot makes a good breaker in the snapshot's state.
LEMMA HydratedIsGood ==
    ASSUME NEW b \in GoodBreakers, NEW s \in GoodSnapshots, NEW due \in BOOLEAN
    PROVE  /\ Hydrated(b, s, due) \in GoodBreakers
           /\ Hydrated(b, s, due).state = s.state
           /\ s.state # "HALF_OPEN"
BY DEF GoodBreakers, Breaker, Hydrated, Spare, CircuitState, GoodSnapshots, CircuitSnapshots

\* A breaker that has opened or closed has a good snapshot.
LEMMA SnapshotIsGood ==
    ASSUME NEW b \in GoodBreakers, b.state # "HALF_OPEN"
    PROVE  SnapshotOf(b) \in GoodSnapshots
BY DEF GoodBreakers, Breaker, Spare, CircuitState, GoodSnapshots, CircuitSnapshots, SnapshotOf

-----------------------------------------------------------------------------
(* Saves *)

\* syncRedis appends a good save, or does nothing without Redis.
LEMMA SyncIsGood ==
    ASSUME Types, NEW r \in Replicas, NEW b \in GoodBreakers, b.state # "HALF_OPEN",
           Sync(r, b)
    PROVE  /\ saves' \in [Replicas -> Seq(GoodSaves)]
           /\ \A q \in Replicas : q # r => saves'[q] = saves[q]
           /\ UseRedis => saves'[r] # << >>
<1> DEFINE e == [snap |-> SnapshotOf(b), set |-> FALSE]
<1>1. e \in GoodSaves
  BY SnapshotIsGood DEF GoodSaves
<1>2. saves[r] \in Seq(GoodSaves)
  BY DEF Types
<1>3. Append(saves[r], e) \in Seq(GoodSaves) /\ Append(saves[r], e) # << >>
  BY <1>1, <1>2, AppendProperties
<1> HIDE DEF e
<1>4. saves' = IF UseRedis THEN [saves EXCEPT ![r] = Append(saves[r], e)] ELSE saves
  BY DEF Sync, e
<1> QED BY <1>3, <1>4 DEF Types

\* What becomes of the breakers and saves when an outcome is recorded.
LEMMA BecomeIsGood ==
    ASSUME Types, NEW r \in Replicas, NEW b \in GoodBreakers, Become(r, b),
           b.state # brk[r].state => b.state # "HALF_OPEN"
    PROVE  /\ brk' \in [Replicas -> GoodBreakers]
           /\ brk'[r] = b
           /\ \A q \in Replicas : q # r => brk'[q] = brk[q] /\ saves'[q] = saves[q]
           /\ saves' \in [Replicas -> Seq(GoodSaves)]
           /\ \/ b.state = brk[r].state /\ saves'[r] = saves[r]
              \/ UseRedis => saves'[r] # << >>
<1>1. /\ brk' \in [Replicas -> GoodBreakers]
      /\ brk'[r] = b
      /\ \A q \in Replicas : q # r => brk'[q] = brk[q]
  BY DEF Become, Types
<1>2. CASE b.state = brk[r].state
  BY <1>1, <1>2 DEF Become, Types
<1>3. CASE b.state # brk[r].state
  BY <1>1, <1>3, SyncIsGood DEF Become
<1> QED BY <1>2, <1>3

\* The element removed leaves a sequence over the same set.
LEMMA RemovedSave ==
    ASSUME NEW S, NEW s \in Seq(S), NEW i \in DOMAIN s
    PROVE  RemoveAt(s, i) \in Seq(S)
<1>1. i \in 1 .. Len(s) /\ Len(s) \in Nat
  BY LenProperties
<1>2. SubSeq(s, 1, i - 1) \in Seq(S)
  <2>1. \A j \in 1 .. i - 1 : s[j] \in S
    BY <1>1, ElementOfSeq
  <2> QED BY <1>1, <2>1, SubSeqProperties
<1>3. SubSeq(s, i + 1, Len(s)) \in Seq(S)
  <2>1. \A j \in i + 1 .. Len(s) : s[j] \in S
    BY <1>1, ElementOfSeq
  <2> QED BY <1>1, <2>1, SubSeqProperties
<1> QED BY <1>2, <1>3, ConcatProperties DEF RemoveAt

-----------------------------------------------------------------------------
(* Probes *)

\* A request that ends or joins changes the count of probes by at most one.
LEMMA ProbeCounts ==
    ASSUME NEW S \in SUBSET Requests, NEW c \in Requests
    PROVE  /\ IsFiniteSet(S) /\ Cardinality(S) \in Nat
           /\ Cardinality(S \ {c}) \in Nat /\ Cardinality(S \ {c}) <= Cardinality(S)
           /\ Cardinality(S \cup {c}) \in Nat
           /\ Cardinality(S \cup {c}) <= Cardinality(S) + 1
           /\ Cardinality({}) = 0 /\ Cardinality({c}) = 1
<1>1. IsFiniteSet(S)
  BY BreakerAssumption, FS_Subset
<1>2. Cardinality(S) \in Nat
  BY <1>1, FS_CardinalityType
<1>3. /\ IsFiniteSet(S \ {c})
      /\ Cardinality(S \ {c}) = IF c \in S THEN Cardinality(S) - 1 ELSE Cardinality(S)
  BY <1>1, FS_RemoveElement
<1>4. Cardinality(S \ {c}) \in Nat
  BY <1>3, FS_CardinalityType
<1>5. Cardinality(S \cup {c}) = IF c \in S THEN Cardinality(S) ELSE Cardinality(S) + 1
  BY <1>1, FS_AddElement
<1>6. Cardinality({}) = 0 /\ Cardinality({c}) = 1
  BY FS_EmptySet, FS_Singleton
<1>7. Cardinality(S \ {c}) <= Cardinality(S)
  BY <1>2, <1>3
<1>8. Cardinality(S \cup {c}) \in Nat /\ Cardinality(S \cup {c}) <= Cardinality(S) + 1
  BY <1>2, <1>5
<1> QED BY <1>1, <1>2, <1>4, <1>6, <1>7, <1>8

\* An outcome reported by request c to its breaker.
LEMMA OutcomeIsGood ==
    ASSUME Types, AllPaid, NEW r \in Replicas, NEW c \in Requests, NEW b,
           b = Succeeded(brk[r]) \/ b = Failed(brk[r]),
           Become(r, b), Retire(r, b, c)
    PROVE  /\ brk' \in [Replicas -> GoodBreakers]
           /\ saves' \in [Replicas -> Seq(GoodSaves)]
           /\ probes' \in [Replicas -> SUBSET Requests]
           /\ AllPaid'
<1>1. brk[r] \in GoodBreakers /\ probes[r] \in SUBSET Requests
  BY DEF Types
<1>2. /\ b \in GoodBreakers
      /\ b.state # brk[r].state => b.state # "HALF_OPEN"
      /\ b.state = "HALF_OPEN" =>
            /\ brk[r].state = "HALF_OPEN"
            /\ ~b.probing /\ b.successes = brk[r].successes + 1
  BY <1>1, SucceededIsGood, FailedIsGood
<1>3. /\ brk' \in [Replicas -> GoodBreakers]
      /\ saves' \in [Replicas -> Seq(GoodSaves)]
      /\ brk'[r] = b
      /\ \A q \in Replicas : q # r => brk'[q] = brk[q]
  BY <1>2, BecomeIsGood
<1>4. /\ probes' \in [Replicas -> SUBSET Requests]
      /\ probes'[r] = IF b.state = "HALF_OPEN" THEN probes[r] \ {c} ELSE {}
      /\ \A q \in Replicas : q # r => probes'[q] = probes[q]
  BY DEF Retire, Types
<1>5. Paid(b, probes'[r])
  <2>1. CASE b.state = "HALF_OPEN"
    <3>1. Cardinality(probes[r]) <= brk[r].successes + (IF brk[r].probing THEN 1 ELSE 0)
      BY <1>2, <2>1 DEF AllPaid, Paid
    <3>2. brk[r].successes \in Int /\ b.successes \in Int
      BY <1>1, <1>2, BreakerAssumption DEF GoodBreakers, Breaker
    <3>3. /\ Cardinality(probes[r]) \in Nat /\ Cardinality(probes[r] \ {c}) \in Nat
          /\ Cardinality(probes[r] \ {c}) <= Cardinality(probes[r])
      BY <1>1, ProbeCounts
    <3>4. Cardinality(probes[r] \ {c}) <= b.successes
      BY <1>2, <2>1, <3>1, <3>2, <3>3
    <3> QED BY <1>2, <1>4, <2>1, <3>2, <3>3, <3>4 DEF Paid
  <2>2. CASE b.state # "HALF_OPEN"
    BY <1>4, <2>2 DEF Paid
  <2> QED BY <2>1, <2>2
<1>6. AllPaid'
  <2> SUFFICES ASSUME NEW q \in Replicas PROVE Paid(brk'[q], probes'[q])
    BY DEF AllPaid
  <2> QED BY <1>3, <1>4, <1>5 DEF AllPaid
<1> QED BY <1>3, <1>4, <1>6

\* A breaker that leaves HALF_OPEN or stays out of it, its probes forgotten.
LEMMA ForgottenIsPaid ==
    ASSUME AllPaid, NEW r \in Replicas,
           \A q \in Replicas : q # r => brk'[q] = brk[q] /\ probes'[q] = probes[q],
           brk'[r].state # "HALF_OPEN", probes'[r] = {}
    PROVE  AllPaid'
BY DEF AllPaid, Paid

\* A snapshot applied.
LEMMA ApplyIsGood ==
    ASSUME Types, AllPaid, NEW r \in Replicas, NEW s \in GoodSnapshots, ApplySnapshot(r, s)
    PROVE  /\ brk' \in [Replicas -> GoodBreakers]
           /\ brk'[r].state = s.state
           /\ \A q \in Replicas : q # r => brk'[q] = brk[q]
           /\ probes' \in [Replicas -> SUBSET Requests]
           /\ AllPaid'
<1>1. PICK due \in BOOLEAN : brk' = [brk EXCEPT ![r] = Hydrated(brk[r], s, due)]
  BY DEF ApplySnapshot
<1>2. /\ Hydrated(brk[r], s, due) \in GoodBreakers
      /\ Hydrated(brk[r], s, due).state = s.state
      /\ s.state # "HALF_OPEN"
  BY HydratedIsGood DEF Types
<1>3. /\ probes' \in [Replicas -> SUBSET Requests] /\ probes'[r] = {}
      /\ \A q \in Replicas : q # r => probes'[q] = probes[q]
  BY DEF ApplySnapshot, Types
<1>4. /\ brk' \in [Replicas -> GoodBreakers]
      /\ brk'[r].state = s.state
      /\ \A q \in Replicas : q # r => brk'[q] = brk[q]
  BY <1>1, <1>2 DEF Types
<1> QED BY <1>2, <1>3, <1>4, ForgottenIsPaid

-----------------------------------------------------------------------------
(* The actions preserve the invariant. *)

IInv == Types /\ AllPaid

\* Admission raises the flag for the one probe it adds.
LEMMA AdmitStep ==
    ASSUME IInv, NEW c \in Requests, NEW r \in Replicas, Admit(c, r)
    PROVE  IInv'
<1> USE DEF IInv
<1>1. /\ brk[r] \in GoodBreakers /\ probes[r] \in SUBSET Requests
      /\ brk \in [Replicas -> GoodBreakers] /\ probes \in [Replicas -> SUBSET Requests]
  BY DEF Types
<1>2. brk[r].state \in CircuitState /\ brk[r].successes \in Nat
  BY <1>1, BreakerAssumption DEF GoodBreakers, Breaker
<1>3. /\ brk' = [brk EXCEPT ![r] = Allowed(brk[r])]
      /\ Allowed(brk[r]) \in GoodBreakers
  BY <1>1, AllowedIsGood DEF Admit
<1>4. CASE brk[r].state = "CLOSED"
  <2>1. brk' = brk /\ probes' = probes
    BY <1>1, <1>3, <1>4 DEF Admit, Allowed
  <2> QED BY <2>1 DEF Admit, Types, AllPaid, redisVars
<1>5. CASE brk[r].state # "CLOSED"
  <2> DEFINE S == probes'[r]
  <2>1. /\ Allowed(brk[r]).state = "HALF_OPEN" /\ Allowed(brk[r]).probing
        /\ Allowed(brk[r]).successes = brk[r].successes
    BY <1>1, <1>5 DEF Allowed, GoodBreakers, Breaker
  <2>2. /\ probes' \in [Replicas -> SUBSET Requests]
        /\ Cardinality(S) \in Int
        /\ Cardinality(S) <= brk[r].successes + 1
        /\ \A q \in Replicas : q # r => probes'[q] = probes[q]
    <3>1. CASE brk[r].state = "OPEN"
      <4>1. probes' = [probes EXCEPT ![r] = {c}]
        BY <3>1 DEF Admit
      <4>2. S = {c}
        BY <1>1, <4>1
      <4>3. Cardinality({c}) = 1
        BY <1>1, ProbeCounts
      <4> QED BY <1>1, <1>2, <4>1, <4>2, <4>3
    <3>2. CASE brk[r].state = "HALF_OPEN"
      <4>1. probes' = [probes EXCEPT ![r] = probes[r] \cup {c}]
        BY <3>2 DEF Admit
      <4>2. S = probes[r] \cup {c}
        BY <1>1, <4>1
      <4>3. Cardinality(probes[r]) <= brk[r].successes
        BY <1>1, <1>2, <3>2 DEF Admit, Allows, AllPaid, Paid
      <4>4. /\ Cardinality(probes[r] \cup {c}) \in Nat /\ Cardinality(probes[r]) \in Nat
            /\ Cardinality(probes[r] \cup {c}) <= Cardinality(probes[r]) + 1
        BY <1>1, ProbeCounts
      <4>5. Cardinality(probes[r] \cup {c}) <= brk[r].successes + 1
        BY <1>2, <4>3, <4>4
      <4> QED BY <1>1, <4>1, <4>2, <4>4, <4>5
    <3> QED BY <1>2, <1>5, <3>1, <3>2 DEF CircuitState
  <2>3. brk' \in [Replicas -> GoodBreakers] /\ brk'[r] = Allowed(brk[r])
    BY <1>1, <1>3
  <2>4. Paid(brk'[r], S)
    BY <1>2, <2>1, <2>2, <2>3 DEF Paid
  <2>5. AllPaid'
    <3> SUFFICES ASSUME NEW q \in Replicas PROVE Paid(brk'[q], probes'[q])
      BY DEF AllPaid
    <3>1. CASE q = r
      BY <2>4, <3>1
    <3>2. CASE q # r
      BY <1>1, <1>3, <2>2, <3>2 DEF AllPaid
    <3> QED BY <3>1, <3>2
  <2> QED BY <2>2, <2>3, <2>5 DEF Admit, Types, redisVars
<1> QED BY <1>4, <1>5

\* A rejection is a failure, after which no circuit is HALF_OPEN.
LEMMA RejectStep ==
    ASSUME IInv, NEW r \in Replicas, Reject(r)
    PROVE  IInv'
<1> USE DEF IInv
<1>1. brk[r] \in GoodBreakers
  BY DEF Types
<1>2. Failed(brk[r]) \in GoodBreakers /\ Failed(brk[r]).state # "HALF_OPEN"
  BY <1>1, FailedIsGood
<1>3. /\ brk' \in [Replicas -> GoodBreakers] /\ brk'[r] = Failed(brk[r])
      /\ \A q \in Replicas : q # r => brk'[q] = brk[q]
      /\ saves' \in [Replicas -> Seq(GoodSaves)]
  BY <1>2, BecomeIsGood DEF Reject
<1>4. /\ probes' \in [Replicas -> SUBSET Requests] /\ probes'[r] = {}
      /\ \A q \in Replicas : q # r => probes'[q] = probes[q]
  BY DEF Reject, Types
<1>5. AllPaid'
  BY <1>2, <1>3, <1>4, ForgottenIsPaid
<1> QED BY <1>3, <1>4, <1>5 DEF Reject, Types

\* Success, failure and second failure are outcomes.
LEMMA EndStep ==
    ASSUME IInv, NEW c \in Requests, End(c)
    PROVE  IInv'
<1> USE DEF IInv
<1>1. ASSUME NEW b, b = Succeeded(brk[at[c]]) \/ b = Failed(brk[at[c]]), at[c] \in Replicas,
             Become(at[c], b), Retire(at[c], b, c),
             at' \in [Requests -> Replicas \cup {Nowhere}],
             failing' \subseteq {d \in Requests : at'[d] # Nowhere},
             UNCHANGED <<forced, store, inbox, hydration>>
      PROVE  IInv'
  <2>1. /\ brk' \in [Replicas -> GoodBreakers]
        /\ saves' \in [Replicas -> Seq(GoodSaves)]
        /\ probes' \in [Replicas -> SUBSET Requests]
        /\ AllPaid'
    BY <1>1, OutcomeIsGood
  <2> QED BY <1>1, <2>1 DEF Types
<1>2. CASE Succeed(c)
  <2>1. /\ at' \in [Requests -> Replicas \cup {Nowhere}]
        /\ failing' \subseteq {d \in Requests : at'[d] # Nowhere}
    BY <1>2 DEF Succeed, Types
  <2> QED BY <1>1, <1>2, <2>1 DEF Succeed, Types
<1>3. CASE Fail(c)
  <2>1. /\ at' \in [Requests -> Replicas \cup {Nowhere}]
        /\ failing' \subseteq {d \in Requests : at'[d] # Nowhere}
    BY <1>3 DEF Fail, Types
  <2> QED BY <1>1, <1>3, <2>1 DEF Fail, Types
<1>4. CASE FailAgain(c)
  <2>1. /\ at' \in [Requests -> Replicas \cup {Nowhere}]
        /\ failing' \subseteq {d \in Requests : at'[d] # Nowhere}
    BY <1>4 DEF FailAgain, Types
  <2>2. at[c] \in Replicas
    BY <1>4 DEF FailAgain, Types
  <2> QED BY <1>1, <1>4, <2>1, <2>2 DEF FailAgain
<1>6. CASE SucceedAfterAll(c)
  <2>1. /\ at' \in [Requests -> Replicas \cup {Nowhere}]
        /\ failing' \subseteq {d \in Requests : at'[d] # Nowhere}
    BY <1>6 DEF SucceedAfterAll, Types
  <2>2. at[c] \in Replicas
    BY <1>6 DEF SucceedAfterAll, Types
  <2> QED BY <1>1, <1>6, <2>1, <2>2 DEF SucceedAfterAll
<1>5. CASE EndSilently(c)
  <2> DEFINE r == at[c]
  <2>1. r \in Replicas
    BY <1>5 DEF EndSilently, Types
  <2>2. /\ probes' \in [Replicas -> SUBSET Requests] /\ probes'[r] = probes[r] \ {c}
        /\ \A q \in Replicas : q # r => probes'[q] = probes[q]
    BY <1>5, <2>1 DEF EndSilently, Types
  <2>3. Paid(brk[r], probes'[r])
    <3>1. brk[r] \in GoodBreakers /\ probes[r] \in SUBSET Requests /\ Paid(brk[r], probes[r])
      BY <2>1 DEF Types, AllPaid
    <3>2. brk[r].successes \in Int
      BY <3>1, BreakerAssumption DEF GoodBreakers, Breaker
    <3>3. /\ Cardinality(probes[r]) \in Nat /\ Cardinality(probes[r] \ {c}) \in Nat
          /\ Cardinality(probes[r] \ {c}) <= Cardinality(probes[r])
      BY <3>1, ProbeCounts
    <3> QED BY <2>2, <3>1, <3>2, <3>3 DEF Paid
  <2>4. AllPaid'
    <3> SUFFICES ASSUME NEW q \in Replicas PROVE Paid(brk[q], probes'[q])
      BY <1>5 DEF AllPaid, EndSilently
    <3> QED BY <2>2, <2>3 DEF AllPaid
  <2> QED BY <1>5, <2>2, <2>4 DEF EndSilently, Types, redisVars
<1> QED BY <1>2, <1>3, <1>4, <1>5, <1>6 DEF End

\* The wait of an open circuit; forceOpen.
LEMMA OpenStep ==
    ASSUME IInv, NEW r \in Replicas, WaitElapses(r) \/ ForceOpen(r)
    PROVE  IInv'
<1> USE DEF IInv
<1>1. CASE WaitElapses(r)
  <2>1. /\ brk' \in [Replicas -> GoodBreakers] /\ brk'[r].state = "OPEN"
        /\ \A q \in Replicas : q # r => brk'[q] = brk[q]
    <3>1. brk \in [Replicas -> GoodBreakers] /\ brk[r] \in GoodBreakers
      BY DEF Types
    <3>2. /\ brk[r].state = "OPEN"
          /\ brk' = [brk EXCEPT ![r] = [brk[r] EXCEPT !.due = TRUE]]
      BY <1>1, <3>1 DEF WaitElapses
    <3>3. /\ [brk[r] EXCEPT !.due = TRUE] \in GoodBreakers
          /\ [brk[r] EXCEPT !.due = TRUE].state = "OPEN"
      BY <3>1, <3>2 DEF GoodBreakers, Breaker, Spare
    <3> QED BY <3>1, <3>2, <3>3
  <2>2. probes' = probes /\ probes[r] = {}
    BY <1>1 DEF WaitElapses, AllPaid, Paid
  <2>3. AllPaid'
    BY <2>1, <2>2, ForgottenIsPaid
  <2> QED BY <1>1, <2>1, <2>3 DEF WaitElapses, Types, redisVars
<1>2. CASE ForceOpen(r)
  <2>1. ForcedOpen(brk[r]) \in GoodBreakers /\ ForcedOpen(brk[r]).state = "OPEN"
    BY ForcedOpenIsGood DEF Types
  <2>2. /\ brk' \in [Replicas -> GoodBreakers] /\ brk'[r].state = "OPEN"
        /\ \A q \in Replicas : q # r => brk'[q] = brk[q]
    BY <1>2, <2>1 DEF ForceOpen, Types
  <2>3. saves' \in [Replicas -> Seq(GoodSaves)]
    BY <1>2, <2>1, SyncIsGood DEF ForceOpen
  <2>4. /\ probes' \in [Replicas -> SUBSET Requests] /\ probes'[r] = {}
        /\ \A q \in Replicas : q # r => probes'[q] = probes[q]
    BY <1>2 DEF ForceOpen, Types
  <2>5. AllPaid'
    BY <2>2, <2>4, ForgottenIsPaid
  <2>6. forced' \in 0 .. MaxForced
    BY <1>2, BreakerAssumption DEF ForceOpen, Types
  <2> QED BY <1>2, <2>2, <2>3, <2>4, <2>5, <2>6 DEF ForceOpen, Types
<1> QED BY <1>1, <1>2

\* What Redis and the network do to the snapshots.
LEMMA RedisStep ==
    ASSUME IInv, NEW r \in Replicas, Redis(r)
    PROVE  IInv'
<1> USE DEF IInv
<1>0. saves[r] \in Seq(GoodSaves) /\ inbox[r] \in Seq(GoodSnapshots)
  BY DEF Types
<1>1. ASSUME NEW i \in DOMAIN saves[r], SetSnapshot(r, i)
      PROVE  IInv'
  <2> DEFINE e == [snap |-> saves[r][i].snap, set |-> TRUE]
  <2>1. i \in 1 .. Len(saves[r])
    BY <1>0, LenProperties
  <2>2. saves[r][i] \in GoodSaves
    BY <1>0, <2>1, ElementOfSeq
  <2>3. saves[r][i].snap \in GoodSnapshots /\ e \in GoodSaves
    BY <2>2 DEF GoodSaves
  <2> HIDE DEF e
  <2>4. [saves[r] EXCEPT ![i] = e] \in Seq(GoodSaves)
    BY <1>0, <2>1, <2>3, ExceptSeq
  <2>5. saves' = [saves EXCEPT ![r] = [saves[r] EXCEPT ![i] = e]]
    BY <1>1 DEF SetSnapshot, e
  <2>6. saves' \in [Replicas -> Seq(GoodSaves)]
    BY <2>4, <2>5 DEF Types
  <2> QED BY <1>1, <2>3, <2>6 DEF SetSnapshot, Types, AllPaid
<1>2. ASSUME NEW i \in DOMAIN saves[r], SaveFails(r, i)
      PROVE  IInv'
  <2>1. RemoveAt(saves[r], i) \in Seq(GoodSaves)
    BY <1>0, RemovedSave
  <2>2. saves' \in [Replicas -> Seq(GoodSaves)]
    BY <1>2, <2>1 DEF SaveFails, Types
  <2> QED BY <1>2, <2>2 DEF SaveFails, Types, AllPaid
<1>3. CASE Publish(r)
  <2>1. Head(saves[r]) \in GoodSaves /\ Tail(saves[r]) \in Seq(GoodSaves)
    BY <1>0, <1>3, HeadTailProperties DEF Publish
  <2>2. Head(saves[r]).snap \in GoodSnapshots
    BY <2>1 DEF GoodSaves
  <2> DEFINE m == Head(saves[r]).snap
  <2> HIDE DEF m
  <2>3. \A q \in Replicas : Append(inbox[q], m) \in Seq(GoodSnapshots)
    BY <2>2, AppendProperties DEF Types, m
  <2>4. inbox' \in [Replicas -> Seq(GoodSnapshots)]
    BY <1>3, <2>3 DEF Publish, m
  <2>5. saves' \in [Replicas -> Seq(GoodSaves)]
    BY <1>3, <2>1 DEF Publish, Types
  <2> QED BY <1>3, <2>4, <2>5 DEF Publish, Types, AllPaid
<1>4. CASE HandleMessage(r)
  <2>1. Head(inbox[r]) \in GoodSnapshots /\ Tail(inbox[r]) \in Seq(GoodSnapshots)
    BY <1>0, <1>4, HeadTailProperties DEF HandleMessage
  <2>2. /\ brk' \in [Replicas -> GoodBreakers]
        /\ probes' \in [Replicas -> SUBSET Requests]
        /\ AllPaid'
    BY <1>4, <2>1, ApplyIsGood DEF HandleMessage
  <2>3. inbox' \in [Replicas -> Seq(GoodSnapshots)]
    BY <1>4, <2>1 DEF HandleMessage, Types
  <2> QED BY <1>4, <2>2, <2>3 DEF HandleMessage, Types
<1>5. CASE LoadSnapshot(r)
  BY <1>5 DEF LoadSnapshot, Types, AllPaid
<1>6. CASE HandleLoaded(r)
  <2>1. hydration' \in [Replicas -> GoodSnapshots \cup {Asked, Over, NoSnapshot}]
    BY <1>6 DEF HandleLoaded, Types
  <2>2. CASE hydration[r] = NoSnapshot
    BY <1>6, <2>1, <2>2 DEF HandleLoaded, Types, AllPaid
  <2>3. CASE hydration[r] # NoSnapshot
    <3>1. hydration[r] \in GoodSnapshots
      <4>1. /\ hydration[r] \in GoodSnapshots \cup {Asked, Over, NoSnapshot}
            /\ hydration[r] \in CircuitSnapshots
        BY <1>6, <2>3 DEF HandleLoaded, Types
      <4>2. Asked \notin CircuitSnapshots /\ Over \notin CircuitSnapshots
        BY DEF CircuitSnapshots, Asked, Over
      <4> QED BY <2>3, <4>1, <4>2
    <3>2. /\ brk' \in [Replicas -> GoodBreakers]
          /\ probes' \in [Replicas -> SUBSET Requests]
          /\ AllPaid'
      BY <1>6, <2>3, <3>1, ApplyIsGood DEF HandleLoaded
    <3> QED BY <1>6, <2>1, <3>2 DEF HandleLoaded, Types
  <2> QED BY <2>2, <2>3
<1>7. CASE MessageLost(r)
  <2>1. Tail(inbox[r]) \in Seq(GoodSnapshots)
    BY <1>0, <1>7, HeadTailProperties DEF MessageLost
  <2>2. inbox' \in [Replicas -> Seq(GoodSnapshots)]
    BY <1>7, <2>1 DEF MessageLost, Types
  <2> QED BY <1>7, <2>2 DEF MessageLost, Types, AllPaid
<1> QED BY <1>1, <1>2, <1>3, <1>4, <1>5, <1>6, <1>7 DEF Redis

\* A restart begins with a new breaker and no requests.
LEMMA RestartStep ==
    ASSUME IInv, NEW r \in Replicas, Restart(r)
    PROVE  IInv'
<1> USE DEF IInv
<1>1. /\ brk' \in [Replicas -> GoodBreakers] /\ brk'[r].state # "HALF_OPEN"
      /\ \A q \in Replicas : q # r => brk'[q] = brk[q]
  BY NewBreakerIsGood DEF Restart, Types, NewBreaker
<1>2. /\ probes' \in [Replicas -> SUBSET Requests] /\ probes'[r] = {}
      /\ \A q \in Replicas : q # r => probes'[q] = probes[q]
  BY DEF Restart, Types
<1>3. AllPaid'
  BY <1>1, <1>2, ForgottenIsPaid
<1>4. << >> \in Seq(GoodSaves) /\ << >> \in Seq(GoodSnapshots)
  BY EmptySeq
<1>5. /\ saves' \in [Replicas -> Seq(GoodSaves)]
      /\ inbox' \in [Replicas -> Seq(GoodSnapshots)]
  BY <1>4 DEF Restart, Types
<1>6. /\ at' \in [Requests -> Replicas \cup {Nowhere}]
      /\ failing' \subseteq {d \in Requests : at'[d] # Nowhere}
      /\ hydration' \in [Replicas -> GoodSnapshots \cup {Asked, Over, NoSnapshot}]
  BY DEF Restart, Types
<1> QED BY <1>1, <1>2, <1>3, <1>5, <1>6 DEF Restart, Types

-----------------------------------------------------------------------------
(* The theorems *)

\* The invariant is inductive.
LEMMA InvariantHolds == Spec => []IInv
<1> USE DEF IInv
<1>1. ASSUME Init PROVE IInv
  <2>1. << >> \in Seq(GoodSaves) /\ << >> \in Seq(GoodSnapshots)
    BY EmptySeq
  <2>2. Types
    BY <1>1, <2>1, NewBreakerIsGood, BreakerAssumption DEF Init, Types
  <2>3. AllPaid
    BY <1>1 DEF Init, AllPaid, Paid, NewBreaker
  <2> QED BY <2>2, <2>3
<1>2. ASSUME IInv, [Next]_vars PROVE IInv'
  <2>1. ASSUME NEW r \in Replicas, NEW c \in Requests, Admit(c, r) PROVE IInv'
    BY <1>2, <2>1, AdmitStep
  <2>2. ASSUME NEW r \in Replicas, Reject(r) PROVE IInv'
    BY <1>2, <2>2, RejectStep
  <2>3. ASSUME NEW r \in Replicas, WaitElapses(r) \/ ForceOpen(r) PROVE IInv'
    BY <1>2, <2>3, OpenStep
  <2>4. ASSUME NEW r \in Replicas, Redis(r) PROVE IInv'
    BY <1>2, <2>4, RedisStep
  <2>5. ASSUME NEW r \in Replicas, Restart(r) PROVE IInv'
    BY <1>2, <2>5, RestartStep
  <2>6. ASSUME NEW c \in Requests, End(c) PROVE IInv'
    BY <1>2, <2>6, EndStep
  <2>7. CASE Expire
    BY <1>2, <2>7 DEF Expire, Types, AllPaid
  <2>8. CASE UNCHANGED vars
    BY <1>2, <2>8 DEF vars, redisVars, Types, AllPaid
  <2> QED BY <1>2, <2>1, <2>2, <2>3, <2>4, <2>5, <2>6, <2>7, <2>8 DEF Next, Arrive
<1> QED BY <1>1, <1>2, PTL DEF Spec

\* The types of the variables, for every number of replicas and requests.
THEOREM BreakerTypeCorrect == Spec => []TypeOK
<1>1. ASSUME IInv PROVE TypeOK
  <2>1. /\ GoodBreakers \subseteq Breaker /\ GoodSnapshots \subseteq CircuitSnapshots
        /\ GoodSaves \subseteq Saves
    BY DEF GoodBreakers, GoodSnapshots, GoodSaves, Saves
  <2>2. \A r \in Replicas : saves[r] \in Seq(Saves) /\ inbox[r] \in Seq(CircuitSnapshots)
    <3> SUFFICES ASSUME NEW r \in Replicas
                 PROVE  saves[r] \in Seq(Saves) /\ inbox[r] \in Seq(CircuitSnapshots)
      OBVIOUS
    <3>1. saves[r] \in Seq(GoodSaves) /\ inbox[r] \in Seq(GoodSnapshots)
      BY <1>1 DEF IInv, Types
    <3> QED BY <2>1, <3>1, SeqMonotonic
  <2> QED BY <1>1, <2>1, <2>2 DEF IInv, Types, TypeOK
<1> QED BY <1>1, InvariantHolds, PTL

\* However outcomes are reported late, twice or never, circuits are forced
\* open and snapshots applied, no more than successThreshold requests are in
\* flight that a HALF_OPEN circuit has let through.
THEOREM ProbesAreBounded == Spec => []ProbesBounded
<1>1. ASSUME IInv PROVE ProbesBounded
  <2> SUFFICES ASSUME NEW r \in Replicas PROVE Cardinality(probes[r]) <= SuccessThreshold
    BY DEF ProbesBounded
  <2>1. /\ brk[r] \in GoodBreakers /\ probes[r] \in SUBSET Requests
        /\ Paid(brk[r], probes[r])
    BY <1>1 DEF IInv, Types, AllPaid
  <2>2. SuccessThreshold \in Nat /\ 0 < SuccessThreshold
    BY BreakerAssumption
  <2>3. brk[r].successes \in 0 .. SuccessThreshold - 1
    BY <2>1 DEF GoodBreakers, Breaker
  <2>4. IsFiniteSet(probes[r])
    BY <2>1, BreakerAssumption, FS_Subset
  <2>5. Cardinality(probes[r]) \in Nat
    BY <2>4, FS_CardinalityType
  <2>6. CASE brk[r].state = "HALF_OPEN"
    BY <2>1, <2>2, <2>3, <2>5, <2>6 DEF Paid
  <2>7. CASE brk[r].state # "HALF_OPEN"
    BY <2>1, <2>2, <2>7, FS_EmptySet DEF Paid
  <2> QED BY <2>6, <2>7
<1> QED BY <1>1, InvariantHolds, PTL

\* A closed circuit is below the threshold, also when its state and its
\* count come from another replica or from before a restart.
THEOREM ClosedIsBelowThreshold == Spec => []ClosedBelowThreshold
<1>1. ASSUME IInv PROVE ClosedBelowThreshold
  BY <1>1 DEF IInv, Types, GoodBreakers, Spare, ClosedBelowThreshold
<1> QED BY <1>1, InvariantHolds, PTL

-----------------------------------------------------------------------------
(* Agreement.  While snapshots are under way replicas may differ, so the    *)
(* invariant speaks of what each will be once it has handled its inbox: all *)
(* agree but those whose own change is still to be published and who have   *)
(* nothing left to handle.                                                  *)

Knows(r) == saves[r] = << >> \/ inbox[r] # << >>

EndsClosed(r) ==
    IF inbox[r] = << >> THEN brk[r].state = "CLOSED"
    ELSE inbox[r][Len(inbox[r])].state = "CLOSED"

Agreement ==
    \A r, q \in Replicas : Knows(r) /\ Knows(q) => (EndsClosed(r) <=> EndsClosed(q))

Calm == \A r \in Replicas : hydration[r] = Over

\* A step that gives no replica knowledge, nor changes what it knows.
LEMMA NothingLearnt ==
    ASSUME Agreement,
           \A r \in Replicas : Knows(r)' => Knows(r) /\ (EndsClosed(r)' <=> EndsClosed(r))
    PROVE  Agreement'
BY DEF Agreement

\* An outcome that closes or opens the circuit is under way as a save.
LEMMA OwnChange ==
    ASSUME Types, Agreement, UseRedis, NEW r \in Replicas, inbox' = inbox,
           \A q \in Replicas : q # r => brk'[q] = brk[q] /\ saves'[q] = saves[q],
           \/ /\ brk'[r].state = "CLOSED" <=> brk[r].state = "CLOSED"
              /\ saves'[r] = << >> => saves[r] = << >>
           \/ saves'[r] # << >>
    PROVE  Agreement'
<1> SUFFICES ASSUME NEW q \in Replicas, Knows(q)'
             PROVE  Knows(q) /\ (EndsClosed(q)' <=> EndsClosed(q))
  BY NothingLearnt
<1>1. CASE q # r
  BY <1>1 DEF Knows, EndsClosed
<1>2. CASE q = r
  BY <1>2 DEF Knows, EndsClosed
<1> QED BY <1>1, <1>2

\* The same of an outcome recorded by a method.
LEMMA BecomeAgrees ==
    ASSUME Types, Agreement, UseRedis, NEW r \in Replicas, NEW b,
           b = Succeeded(brk[r]) \/ b = Failed(brk[r]), Become(r, b), inbox' = inbox
    PROVE  Agreement'
<1>1. /\ b \in GoodBreakers
      /\ b.state # brk[r].state => b.state # "HALF_OPEN"
  BY SucceededIsGood, FailedIsGood DEF Types
<1>2. /\ brk'[r] = b
      /\ \A q \in Replicas : q # r => brk'[q] = brk[q] /\ saves'[q] = saves[q]
      /\ \/ b.state = brk[r].state /\ saves'[r] = saves[r]
         \/ saves'[r] # << >>
  BY <1>1, BecomeIsGood
<1> QED BY <1>2, OwnChange

\* A published snapshot is the last that every replica will handle.
LEMMA PublishAgrees ==
    ASSUME Types, NEW r \in Replicas, Publish(r)
    PROVE  Agreement'
<1> DEFINE m == Head(saves[r]).snap
<1>1. m \in GoodSnapshots
  <2>1. saves[r] \in Seq(GoodSaves) /\ saves[r] # << >>
    BY DEF Publish, Types
  <2>2. Head(saves[r]) \in GoodSaves
    BY <2>1, HeadTailProperties
  <2> QED BY <2>2 DEF GoodSaves
<1> HIDE DEF m
<1>2. ASSUME NEW q \in Replicas
      PROVE  EndsClosed(q)' <=> m.state = "CLOSED"
  <2>1. inbox[q] \in Seq(GoodSnapshots)
    BY DEF Types
  <2>2. inbox'[q] = Append(inbox[q], m)
    BY <1>2 DEF Publish, m
  <2>3. inbox'[q] # << >> /\ inbox'[q][Len(inbox'[q])] = m
    BY <1>1, <2>1, <2>2, AppendProperties
  <2> QED BY <2>3 DEF EndsClosed
<1> QED BY <1>2 DEF Agreement

\* Handling a message does not change where the inbox ends.
LEMMA HandleAgrees ==
    ASSUME Types, AllPaid, Agreement, NEW r \in Replicas, HandleMessage(r)
    PROVE  Agreement'
<1>1. inbox[r] \in Seq(GoodSnapshots) /\ inbox[r] # << >>
  BY DEF HandleMessage, Types
<1>2. Head(inbox[r]) \in GoodSnapshots
  BY <1>1, HeadTailProperties
<1>3. /\ brk'[r].state = Head(inbox[r]).state
      /\ \A q \in Replicas : q # r => brk'[q] = brk[q]
  BY <1>2, ApplyIsGood DEF HandleMessage
<1>4. inbox'[r] = Tail(inbox[r]) /\ \A q \in Replicas : q # r => inbox'[q] = inbox[q]
  BY DEF HandleMessage, Types
<1>5. /\ Len(inbox[r]) \in Nat
      /\ Len(Tail(inbox[r])) = Len(inbox[r]) - 1
      /\ \A i \in 1 .. Len(Tail(inbox[r])) : Tail(inbox[r])[i] = inbox[r][i + 1]
      /\ Head(inbox[r]) = inbox[r][1]
  <2>1. Head(inbox[r]) = inbox[r][1]
    BY <1>1
  <2> QED BY <1>1, <2>1, HeadTailProperties, LenProperties
<1>6. EndsClosed(r)' <=> EndsClosed(r)
  <2>1. CASE Tail(inbox[r]) = << >>
    <3>1. Len(Tail(inbox[r])) = 0
      <4>1. Len(<< >>) = 0
        OBVIOUS
      <4> QED BY <2>1, <4>1
    <3>2. Len(inbox[r]) = 1
      BY <1>5, <3>1
    <3> QED BY <1>1, <1>3, <1>4, <1>5, <2>1, <3>2 DEF EndsClosed
  <2>2. CASE Tail(inbox[r]) # << >>
    <3>1. Tail(inbox[r]) \in Seq(GoodSnapshots)
      BY <1>1, HeadTailProperties
    <3>2. Len(Tail(inbox[r])) \in Nat \ {0}
      BY <2>2, <3>1, EmptySeq
    <3>3. \A m \in Nat \ {0}, n \in Nat : m = n - 1 => m \in 1 .. m /\ m + 1 = n
      OBVIOUS
    <3>4. /\ Len(Tail(inbox[r])) \in 1 .. Len(Tail(inbox[r]))
          /\ Len(Tail(inbox[r])) + 1 = Len(inbox[r])
      <4>1. Len(inbox[r]) \in Nat /\ Len(Tail(inbox[r])) = Len(inbox[r]) - 1
        BY <1>5
      <4> QED BY <3>2, <3>3, <4>1
    <3>5. Tail(inbox[r])[Len(Tail(inbox[r]))] = inbox[r][Len(Tail(inbox[r])) + 1]
      BY <1>5, <3>4
    <3> QED BY <1>1, <1>4, <2>2, <3>4, <3>5 DEF EndsClosed
  <2> QED BY <2>1, <2>2
<1>7. ASSUME NEW q \in Replicas, Knows(q)'
      PROVE  Knows(q) /\ (EndsClosed(q)' <=> EndsClosed(q))
  <2>1. CASE q = r
    BY <1>1, <1>6, <2>1 DEF Knows
  <2>2. CASE q # r
    BY <1>3, <1>4, <1>7, <2>2 DEF Knows, EndsClosed, HandleMessage
  <2> QED BY <2>1, <2>2
<1> QED BY <1>7, NothingLearnt

\* With a Redis that works and was asked before requests began, replicas for
\* which no snapshot is under way let requests through alike.
THEOREM ReplicasComeToAgree ==
    ASSUME UseRedis, ~Faults, ~LateHydration
    PROVE  Spec => []ReplicasAgree
<1> DEFINE J == Calm /\ Agreement
<1>1. ASSUME Init PROVE J
  BY <1>1 DEF Init, Calm, Agreement, Knows, EndsClosed, NewBreaker
<1>2. ASSUME IInv, J, [Next]_vars PROVE J'
  <2> USE <1>2 DEF IInv
  <2>1. Calm'
    <3>1. \A r \in Replicas : hydration[r] # Asked /\ hydration[r] \notin CircuitSnapshots \cup {NoSnapshot}
      BY DEF Calm, Over, Asked, NoSnapshot, CircuitSnapshots
    <3>2. hydration' = hydration
      BY <3>1
      DEF Next, Arrive, Reject, Admit, End, Succeed, Fail, FailAgain, SucceedAfterAll,
          EndSilently, WaitElapses,
          ForceOpen, Redis, SetSnapshot, SaveFails, Publish, HandleMessage, LoadSnapshot,
          HandleLoaded, MessageLost, Restart, Expire, vars, redisVars
    <3> QED BY <3>2 DEF Calm
  <2>2. ASSUME NEW r \in Replicas, NEW c \in Requests, Admit(c, r) PROVE Agreement'
    <3>1. brk[r] \in GoodBreakers
      BY DEF Types
    <3>2. Allowed(brk[r]).state = "CLOSED" <=> brk[r].state = "CLOSED"
      BY <3>1, AllowedIsGood
    <3>3. /\ brk'[r] = Allowed(brk[r]) /\ \A q \in Replicas : q # r => brk'[q] = brk[q]
          /\ saves' = saves /\ inbox' = inbox
      BY <2>2 DEF Admit, Types, redisVars
    <3> QED BY <3>2, <3>3, OwnChange
  <2>3. ASSUME NEW r \in Replicas, Reject(r) PROVE Agreement'
    BY <2>3, BecomeAgrees DEF Reject
  <2>4. ASSUME NEW r \in Replicas, WaitElapses(r) PROVE Agreement'
    <3>1. /\ brk'[r].state = brk[r].state /\ \A q \in Replicas : q # r => brk'[q] = brk[q]
          /\ saves' = saves /\ inbox' = inbox
      BY <2>4 DEF WaitElapses, Types, GoodBreakers, Breaker, redisVars
    <3> QED BY <3>1, OwnChange
  <2>5. ASSUME NEW r \in Replicas, ForceOpen(r) PROVE Agreement'
    <3>1. ForcedOpen(brk[r]) \in GoodBreakers /\ ForcedOpen(brk[r]).state # "HALF_OPEN"
      BY ForcedOpenIsGood DEF Types
    <3>2. /\ saves'[r] # << >>
          /\ \A q \in Replicas : q # r => saves'[q] = saves[q]
      BY <2>5, <3>1, SyncIsGood DEF ForceOpen
    <3>3. inbox' = inbox /\ \A q \in Replicas : q # r => brk'[q] = brk[q]
      BY <2>5 DEF ForceOpen, Types
    <3> QED BY <3>2, <3>3, OwnChange
  <2>6. ASSUME NEW r \in Replicas, Redis(r) PROVE Agreement'
    <3>1. ASSUME NEW i \in DOMAIN saves[r], SetSnapshot(r, i) PROVE Agreement'
      <4>1. saves[r] # << >>
        BY <3>1, EmptySeq
      <4>2. saves'[r] # << >> /\ \A q \in Replicas : q # r => saves'[q] = saves[q]
        <5>1. saves[r] \in Seq(GoodSaves)
          BY DEF Types
        <5>2. i \in DOMAIN saves'[r]
          BY <3>1 DEF SetSnapshot, Types
        <5>3. DOMAIN << >> = {}
          OBVIOUS
        <5> QED BY <3>1, <5>2, <5>3 DEF SetSnapshot, Types
      <4> QED BY <3>1, <4>2, OwnChange DEF SetSnapshot
    <3>2. CASE Publish(r)
      BY <3>2, PublishAgrees
    <3>3. CASE HandleMessage(r)
      BY <3>3, HandleAgrees
    <3>4. CASE LoadSnapshot(r)
      BY <3>4, NothingLearnt DEF LoadSnapshot, Knows, EndsClosed
    <3>5. ~HandleLoaded(r)
      BY DEF HandleLoaded, Calm, Over, NoSnapshot, CircuitSnapshots
    <3> QED BY <2>6, <3>1, <3>2, <3>3, <3>4, <3>5 DEF Redis, SaveFails, MessageLost
  <2>7. ASSUME NEW c \in Requests, End(c) PROVE Agreement'
    <3>1. ASSUME at[c] \in Replicas, NEW b, inbox' = inbox,
                 b = Succeeded(brk[at[c]]) \/ b = Failed(brk[at[c]]), Become(at[c], b)
          PROVE  Agreement'
      BY <3>1, BecomeAgrees
    <3>2. at[c] \in Replicas
      BY <2>7 DEF End, Succeed, Fail, FailAgain, SucceedAfterAll, EndSilently, Types
    <3>3. CASE Succeed(c)
      BY <3>1, <3>2, <3>3 DEF Succeed
    <3>4. CASE Fail(c)
      BY <3>1, <3>2, <3>4 DEF Fail
    <3>5. CASE FailAgain(c)
      BY <3>1, <3>2, <3>5 DEF FailAgain
    <3>7. CASE SucceedAfterAll(c)
      BY <3>1, <3>2, <3>7 DEF SucceedAfterAll
    <3>6. CASE EndSilently(c)
      BY <3>6, NothingLearnt DEF EndSilently, Knows, EndsClosed, redisVars
    <3> QED BY <2>7, <3>3, <3>4, <3>5, <3>6, <3>7 DEF End
  <2>8. ASSUME Expire PROVE Agreement'
    BY <2>8, NothingLearnt DEF Expire, Knows, EndsClosed
  <2>9. ASSUME UNCHANGED vars PROVE Agreement'
    BY <2>9, NothingLearnt DEF vars, redisVars, Knows, EndsClosed
  <2> QED
    BY <2>1, <2>2, <2>3, <2>4, <2>5, <2>6, <2>7, <2>8, <2>9 DEF Next, Arrive, Restart
<1>3. ASSUME J PROVE ReplicasAgree
  BY <1>3 DEF Agreement, Knows, EndsClosed, ReplicasAgree, Settled
<1> QED BY <1>1, <1>2, <1>3, InvariantHolds, PTL DEF Spec
=============================================================================
