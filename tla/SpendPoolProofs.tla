--------------------------- MODULE SpendPoolProofs ---------------------------
(***************************************************************************)
(* Proofs about SpendPool for every set of calls, every estimate and price,*)
(* every pair of caps, and any number of midnights and failing calls.      *)
(***************************************************************************)
EXTENDS SpendPool, FiniteSetTheorems, TLAPS

(* The calls that have asked for a reservation: finitely many.              *)
Known == {r \in Requests : at[r] # "idle"}
KnownFinite == IsFiniteSet(Known)

(* A call that has not asked has left no trace.                             *)
IdleUntouched ==
  \A r \in Requests : at[r] = "idle" =>
    redis.rec[r] = NoDay /\ r \notin pricing /\ r \notin local.rec /\ paid[r] = Unpaid /\
    closed[r] = "open"

(* A call is persisted once: it is not paid while that is still to come.    *)
PersistedOnce ==
  \A r \in Requests :
    /\ r \in pricing => paid[r] = Unpaid
    /\ at[r] = "reserved" \/ (at[r] = "flight" /\ Via[r] # "stream") =>
         r \notin pricing /\ paid[r] = Unpaid

(* Nothing is of a day that has not begun.                                  *)
NoLaterDay ==
  /\ \A d \in Days : d > today => redis.day[d] = 0
  /\ \A r \in Requests : redis.rec[r] <= today /\ paid[r].on <= today

(* A streamed call in flight awaits its price until that settles or leaves  *)
(* its reservation.                                                         *)
StreamPriced ==
  \A r \in Requests :
    Via[r] = "stream" /\ at[r] = "flight" /\ closed[r] = "open" => r \in pricing

(* While the minute key has an expiry, that covers the calls it counts.     *)
ExpiryCovers == ~SlowCalls => (redis.ttl => Counted \subseteq redis.covers)

IInv ==
  /\ TypeOK /\ KnownFinite /\ IdleUntouched /\ PersistedOnce /\ NoLaterDay /\ StreamPriced
  /\ FallbackIsSettled

-----------------------------------------------------------------------------
(* Sums.                                                                    *)

\* The units of one call.
LEMMA OneUnits ==
  ASSUME NEW r, NEW n \in Nat
  PROVE  IsFiniteSet({r} \X (1..n)) /\ Cardinality({r} \X (1..n)) = n
<1> DEFINE One == {r}
           Numbers == 1..n
<1>1. IsFiniteSet(One) /\ Cardinality(One) = 1
  BY FS_Singleton
<1>2. IsFiniteSet(Numbers) /\ Cardinality(Numbers) = n
  BY FS_Interval
<1> HIDE DEF One, Numbers
<1>3. IsFiniteSet(One \X Numbers) /\ Cardinality(One \X Numbers) = Cardinality(One) * Cardinality(Numbers)
  BY <1>1, <1>2, FS_Product
<1>4. Cardinality(One \X Numbers) = n
  BY <1>1, <1>2, <1>3
<1> QED BY <1>3, <1>4 DEF One, Numbers

\* Finitely many calls have finitely many units.
LEMMA UnitsFinite ==
  ASSUME NEW S, IsFiniteSet(S), NEW amount, \A r \in S : amount[r] \in Nat
  PROVE  IsFiniteSet(Units(amount, S)) /\ Total(amount, S) \in Nat
<1> DEFINE U == {{r} \X (1..amount[r]) : r \in S}
           f == [r \in S |-> {r} \X (1..amount[r])]
<1>1. f \in Surjection(S, U)
  BY DEF Surjection
<1>2. IsFiniteSet(U)
  BY <1>1, FS_Surjection
<1>3. \A r \in S : IsFiniteSet({r} \X (1..amount[r]))
  BY OneUnits
<1>4. \A T \in U : IsFiniteSet(T)
  BY <1>3, Zenon
<1>5. IsFiniteSet(UNION U)
  BY <1>2, <1>4, FS_UNION
<1> QED BY <1>5, FS_CardinalityType DEF Units, Total

\* A call more adds its amount.
LEMMA TotalAdd ==
  ASSUME NEW S, IsFiniteSet(S), NEW amount, \A q \in S : amount[q] \in Nat,
         NEW r, r \notin S, amount[r] \in Nat
  PROVE  Total(amount, S \cup {r}) = Total(amount, S) + amount[r]
<1> DEFINE One == {r} \X (1..amount[r])
<1>1. Units(amount, S \cup {r}) = Units(amount, S) \cup One
  BY DEF Units
<1>2. Units(amount, S) \cap One = {}
  BY DEF Units
<1>3. IsFiniteSet(One) /\ Cardinality(One) = amount[r]
  BY OneUnits
<1>4. IsFiniteSet(Units(amount, S)) /\ Total(amount, S) \in Nat
  BY UnitsFinite
<1>5. Cardinality({}) = 0
  BY FS_EmptySet
<1> HIDE DEF One
<1>6. Cardinality(Units(amount, S) \cup One) =
        Cardinality(Units(amount, S)) + Cardinality(One) - Cardinality(Units(amount, S) \cap One)
  BY <1>3, <1>4, FS_Union
<1>7. Cardinality(Units(amount, S) \cap One) = 0
  BY <1>2, <1>5, Zenon
<1>8. Total(amount, S \cup {r}) = Cardinality(Units(amount, S) \cup One)
  BY <1>1, Zenon DEF Total
<1>9. Cardinality(Units(amount, S)) = Total(amount, S)
  BY DEF Total
<1> QED BY <1>3, <1>4, <1>6, <1>7, <1>8, <1>9

\* A call less takes it off.
LEMMA TotalRemove ==
  ASSUME NEW S, IsFiniteSet(S), NEW amount, \A q \in S : amount[q] \in Nat, NEW r \in S
  PROVE  /\ Total(amount, S \ {r}) = Total(amount, S) - amount[r]
         /\ Total(amount, S \ {r}) \in Nat
<1> DEFINE T == S \ {r}
<1>1. IsFiniteSet(T)
  BY FS_RemoveElement
<1>2. r \notin T /\ (\A q \in T : amount[q] \in Nat) /\ amount[r] \in Nat
  OBVIOUS
<1>3. T \cup {r} = S
  OBVIOUS
<1> HIDE DEF T
<1>5. Total(amount, T \cup {r}) = Total(amount, T) + amount[r]
  BY <1>1, <1>2, TotalAdd
<1>6. Total(amount, T) \in Nat
  BY <1>1, <1>2, UnitsFinite
<1>7. Total(amount, S) = Total(amount, T) + amount[r]
  BY <1>3, <1>5, Zenon
<1>8. Total(amount, T) = Total(amount, S) - amount[r]
  BY <1>2, <1>6, <1>7
<1> QED BY <1>6, <1>8 DEF T

\* Fewer calls have no larger sum.
LEMMA TotalSubset ==
  ASSUME NEW S, IsFiniteSet(S), NEW amount, \A q \in S : amount[q] \in Nat, NEW T \in SUBSET S
  PROVE  Total(amount, T) <= Total(amount, S) /\ Total(amount, T) \in Nat
<1>1. Units(amount, T) \subseteq Units(amount, S)
  BY DEF Units
<1>2. IsFiniteSet(Units(amount, S))
  BY UnitsFinite
<1>3. IsFiniteSet(T)
  BY FS_Subset
<1>4. Total(amount, T) \in Nat
  BY <1>3, UnitsFinite
<1> QED BY <1>1, <1>2, <1>4, FS_Subset DEF Total

\* The sum depends on the amounts of its calls only.
LEMMA TotalSame ==
  ASSUME NEW S, NEW a, NEW b, \A r \in S : a[r] = b[r]
  PROVE  Total(a, S) = Total(b, S)
<1>1. Units(a, S) = Units(b, S)
  BY DEF Units
<1> QED BY <1>1 DEF Total

-----------------------------------------------------------------------------
(* What the operations of the pool do to its records.                       *)

RedisType == [minute : Nat, ttl : BOOLEAN, covers : SUBSET Requests,
              day : [Days -> Int], rec : [Requests -> Days \cup {NoDay}]]
LocalType == [minute : Nat, stale : BOOLEAN, day : [Days -> Int], rec : SUBSET Requests]
PaidType == [on : Days \cup {NoDay}, cost : Nat, carried : BOOLEAN]

LEMMA NoDayApart == NoDay \notin Days
BY SpendAssumption DEF Days, NoDay

\* A difference that is cut off at zero.
LEMMA FloorNat == \A n \in Int : Floor(n) \in Nat /\ Floor(n) >= n /\ (n <= 0 => Floor(n) = 0)
BY DEF Floor

LEMMA ReleasedEffect ==
  ASSUME TypeOK, NEW r \in Requests
  PROVE  /\ Released(r) \in RedisType
         /\ Released(r).ttl => Released(r) = redis
         /\ Released(r).rec = [redis.rec EXCEPT ![r] = NoDay]
         /\ \A d \in Days : redis.day[d] = 0 => Released(r).day[d] = 0
<1>1. redis \in RedisType /\ Est[r] \in Nat
  BY SpendAssumption DEF TypeOK, RedisType
<1>2. CASE redis.rec[r] = NoDay
  BY <1>1, <1>2 DEF Released, RedisType
<1>3. CASE redis.rec[r] # NoDay
  <2> DEFINE d == redis.rec[r]
  <2>1. d \in Days /\ redis.day[d] - Est[r] \in Int /\ redis.minute - Est[r] \in Int
    BY <1>1, <1>3 DEF RedisType
  <2>2. Floor(redis.day[d] - Est[r]) \in Nat /\ Floor(redis.minute - Est[r]) \in Nat
    BY <2>1, FloorNat
  <2>3. redis.day[d] = 0 => Floor(redis.day[d] - Est[r]) = 0
    BY <1>1, <2>1, FloorNat
  <2>4. Released(r) = [redis EXCEPT !.minute = Floor(redis.minute - Est[r]), !.ttl = FALSE,
                     !.day[d] = Floor(redis.day[d] - Est[r]), !.rec[r] = NoDay]
    BY <1>1, <1>3, <2>1 DEF Released, RedisType
  <2> HIDE DEF d
  <2> DEFINE day == [redis.day EXCEPT ![d] = Floor(redis.day[d] - Est[r])]
             rec == [redis.rec EXCEPT ![r] = NoDay]
  <2>5. /\ Released(r).minute = Floor(redis.minute - Est[r]) /\ Released(r).ttl = FALSE
        /\ Released(r).covers = redis.covers /\ Released(r).day = day /\ Released(r).rec = rec
        /\ Released(r) = [minute |-> Released(r).minute, ttl |-> Released(r).ttl,
             covers |-> Released(r).covers, day |-> Released(r).day, rec |-> Released(r).rec]
    BY <1>1, <2>4 DEF RedisType
  <2>6. day \in [Days -> Int] /\ rec \in [Requests -> Days \cup {NoDay}]
    BY <1>1, <2>1, <2>2 DEF RedisType
  <2>7. \A e \in Days : redis.day[e] = 0 => day[e] = 0
    BY <1>1, <2>1, <2>3 DEF RedisType
  <2> HIDE DEF day
  <2>8. Released(r) \in RedisType
    BY <1>1, <2>2, <2>5, <2>6 DEF RedisType
  <2> QED BY <2>5, <2>7, <2>8
<1> QED BY <1>2, <1>3

LEMMA AcquiredEffect ==
  ASSUME TypeOK, NEW r \in Requests
  PROVE  /\ Acquired(r) \in RedisType
         /\ Acquired(r).minute = redis.minute + Est[r]
         /\ Acquired(r).covers = Known \cup {r}
         /\ Acquired(r).day = [redis.day EXCEPT ![today] = redis.day[today] + Est[r]]
         /\ Acquired(r).rec = [redis.rec EXCEPT ![r] = today]
<1>1. redis \in RedisType /\ Est[r] \in Nat /\ today \in Days
  BY SpendAssumption DEF TypeOK, RedisType
<1>2. Acquired(r) = [redis EXCEPT !.minute = redis.minute + Est[r], !.ttl = TRUE,
                !.covers = Known \cup {r}, !.day[today] = redis.day[today] + Est[r],
                !.rec[r] = today]
  BY <1>1 DEF Acquired, RedisType, Known
<1>3. Known \subseteq Requests
  BY DEF Known
<1>4. redis.day[today] + Est[r] \in Int /\ redis.minute + Est[r] \in Nat
  BY <1>1 DEF RedisType
<1> DEFINE day == [redis.day EXCEPT ![today] = redis.day[today] + Est[r]]
           rec == [redis.rec EXCEPT ![r] = today]
<1>5. day \in [Days -> Int] /\ rec \in [Requests -> Days \cup {NoDay}]
  BY <1>1, <1>4 DEF RedisType
<1>6. Acquired(r) = [minute |-> redis.minute + Est[r], ttl |-> TRUE, covers |-> Known \cup {r},
                     day |-> day, rec |-> rec]
  BY <1>1, <1>2 DEF RedisType
<1> QED BY <1>3, <1>4, <1>5, <1>6 DEF RedisType

LEMMA CommittedEffect ==
  ASSUME TypeOK, NEW r \in Requests, NEW cost \in Nat
  PROVE  /\ Committed(r, cost) \in RedisType
         /\ Committed(r, cost).minute = redis.minute /\ Committed(r, cost).ttl = redis.ttl
         /\ Committed(r, cost).covers = redis.covers
         /\ Committed(r, cost).day =
              [redis.day EXCEPT ![today] = redis.day[today] + cost - Reserved(r)]
         /\ Committed(r, cost).rec = [redis.rec EXCEPT ![r] = NoDay]
<1>1. redis \in RedisType /\ Est[r] \in Nat /\ today \in Days
  BY SpendAssumption DEF TypeOK, RedisType
<1>2. Reserved(r) \in Nat
  BY <1>1 DEF Reserved
<1>3. redis.day[today] + cost - Reserved(r) \in Int
  BY <1>1, <1>2 DEF RedisType
<1> QED BY <1>1, <1>3 DEF RedisType, Committed

LEMMA LocalReleasedEffect ==
  ASSUME TypeOK, NEW r \in Requests
  PROVE  LocalReleased(r) \in LocalType /\ LocalReleased(r).rec = local.rec \ {r}
<1>1. local \in LocalType /\ Est[r] \in Nat /\ today \in Days
  BY SpendAssumption DEF TypeOK, LocalType
<1>2. Floor(local.minute - Est[r]) \in Nat /\ Floor(local.day[today] - Est[r]) \in Nat
  BY <1>1, FloorNat DEF LocalType
<1>3. CASE r \notin local.rec
  BY <1>1, <1>3 DEF LocalReleased, LocalType
<1>4. CASE r \in local.rec
  <2> DEFINE m == Floor(local.minute - Est[r])
             day == [local.day EXCEPT ![today] = Floor(local.day[today] - Est[r])]
  <2>1. LocalReleased(r) = [minute |-> m, stale |-> local.stale, day |-> day, rec |-> local.rec \ {r}]
    BY <1>1, <1>4 DEF LocalReleased, LocalType
  <2>2. m \in Nat /\ day \in [Days -> Int]
    BY <1>1, <1>2 DEF LocalType
  <2> HIDE DEF m, day
  <2> QED BY <1>1, <2>1, <2>2 DEF LocalType
<1> QED BY <1>3, <1>4

LEMMA LocalCommittedEffect ==
  ASSUME TypeOK, NEW r \in Requests, NEW cost \in Nat
  PROVE  LocalCommitted(r, cost) \in LocalType /\ LocalCommitted(r, cost).rec = local.rec \ {r}
<1>1. local \in LocalType /\ Est[r] \in Nat /\ today \in Days
  BY SpendAssumption DEF TypeOK, LocalType
<1>2. local.day[today] + cost - Est[r] \in Int
  BY <1>1 DEF LocalType
<1>3. CASE r \notin local.rec
  BY <1>1, <1>3 DEF LocalCommitted, LocalType
<1>4. CASE r \in local.rec
  BY <1>1, <1>2, <1>4 DEF LocalCommitted, LocalType
<1> QED BY <1>3, <1>4

LEMMA LocalReserveEffect ==
  ASSUME TypeOK, NEW r \in Requests, LocalReserve(r)
  PROVE  /\ local' \in LocalType
         /\ \/ at' = [at EXCEPT ![r] = "ended"] /\ local'.rec = local.rec
            \/ at' = [at EXCEPT ![r] = "reserved"] /\ local'.rec = local.rec \cup {r}
<1>1. local \in LocalType /\ Est[r] \in Nat /\ today \in Days
  BY SpendAssumption DEF TypeOK, LocalType
<1>2. LocalMinute \in Nat /\ LocalMinute + Est[r] \in Nat /\ local.day[today] + Est[r] \in Int
  BY <1>1 DEF LocalMinute, LocalType
<1> DEFINE m == LocalMinute + Est[r]
           day == [local.day EXCEPT ![today] = local.day[today] + Est[r]]
<1>3. day \in [Days -> Int] /\ m \in Nat
  BY <1>1, <1>2 DEF LocalType
<1>4. \/ at' = [at EXCEPT ![r] = "ended"] /\ local' = local
      \/ /\ at' = [at EXCEPT ![r] = "ended"]
         /\ local' = [local EXCEPT !.minute = m, !.stale = FALSE]
      \/ /\ at' = [at EXCEPT ![r] = "reserved"]
         /\ local' = [minute |-> m, stale |-> FALSE, day |-> day, rec |-> local.rec \cup {r}]
  BY <1>1 DEF LocalReserve, LocalType
<1> HIDE DEF m, day
<1>5. local.rec \cup {r} \in SUBSET Requests /\ local.rec \in SUBSET Requests
  BY <1>1 DEF LocalType
<1>6. [local EXCEPT !.minute = m, !.stale = FALSE] \in LocalType
  BY <1>1, <1>3 DEF LocalType
<1>7. [local EXCEPT !.minute = m, !.stale = FALSE].rec = local.rec
  BY <1>1 DEF LocalType
<1>8. [minute |-> m, stale |-> FALSE, day |-> day, rec |-> local.rec \cup {r}] \in LocalType
  BY <1>3, <1>5 DEF LocalType
<1>9. local' \in LocalType
  BY <1>1, <1>4, <1>6, <1>8, Zenon
<1> DEFINE charged == [local EXCEPT !.minute = m, !.stale = FALSE]
           held == [minute |-> m, stale |-> FALSE, day |-> day, rec |-> local.rec \cup {r}]
<1>10. held.rec = local.rec \cup {r}
  OBVIOUS
<1> HIDE DEF charged, held
<1>11. CASE at' = [at EXCEPT ![r] = "ended"] /\ local' = local
  BY <1>9, <1>11
<1>12. CASE at' = [at EXCEPT ![r] = "ended"] /\ local' = charged
  BY <1>7, <1>9, <1>12, Zenon DEF charged
<1>13. CASE at' = [at EXCEPT ![r] = "reserved"] /\ local' = held
  BY <1>9, <1>10, <1>13, Zenon
<1> QED BY <1>4, <1>11, <1>12, <1>13 DEF charged, held

LEMMA ReleaseEffect ==
  ASSUME TypeOK, NEW r \in Requests, Release(r)
  PROVE  /\ redis' = redis \/ redis' = Released(r)
         /\ redis' \in RedisType /\ local' \in LocalType /\ faults' \in 0..MaxFaults
         /\ \A q \in Requests : redis'.rec[q] \in {redis.rec[q], NoDay}
         /\ \A d \in Days : redis.day[d] = 0 => redis'.day[d] = 0
         /\ local'.rec = local.rec \ {r}
<1>1. redis \in RedisType /\ faults \in 0..MaxFaults /\ MaxFaults \in Nat
  BY SpendAssumption DEF TypeOK, RedisType
<1>2. faults' \in 0..MaxFaults
  BY <1>1 DEF Release, Works, Throws
<1>3. redis' = redis \/ redis' = Released(r)
  BY DEF Release
<1>4. local' = LocalReleased(r)
  BY DEF Release
<1>5. redis' \in RedisType /\ (\A d \in Days : redis.day[d] = 0 => redis'.day[d] = 0)
  BY <1>1, <1>3, ReleasedEffect
<1>6. \A q \in Requests : redis'.rec[q] \in {redis.rec[q], NoDay}
  <2>1. Released(r).rec = [redis.rec EXCEPT ![r] = NoDay]
    BY ReleasedEffect
  <2>2. redis.rec \in [Requests -> Days \cup {NoDay}]
    BY <1>1 DEF RedisType
  <2> QED BY <1>3, <2>1, <2>2
<1> QED BY <1>2, <1>3, <1>4, <1>5, <1>6, LocalReleasedEffect

\* A priced call: how it goes on.
LEMMA PricedEffect ==
  ASSUME TypeOK, NEW r \in Requests, Priced(r)
  PROVE  /\ redis' \in RedisType /\ local' \in LocalType /\ faults' \in 0..MaxFaults
         /\ paid' \in [Requests -> PaidType]
         /\ \A q \in Requests : redis'.rec[q] \in {redis.rec[q], NoDay}
         /\ \A d \in Days \ {today} : redis'.day[d] = redis.day[d]
         /\ \A q \in Requests \ {r} : paid'[q] = paid[q]
         /\ paid'[r] = paid[r] \/ paid'[r].on = today
         /\ \/ local' = local /\ Leaves(r)
            \/ local'.rec = local.rec \ {r} /\ Settles(r)
<1>1. /\ redis \in RedisType /\ local \in LocalType /\ faults \in 0..MaxFaults /\ MaxFaults \in Nat
      /\ paid \in [Requests -> PaidType] /\ today \in Days /\ Actuals \subseteq Nat
  BY SpendAssumption DEF TypeOK, RedisType, LocalType, PaidType
<1>2. PICK cost \in Actuals :
        \/ cost = 0 /\ Leaves(r) /\ UNCHANGED <<redis, local, faults, paid>>
        \/ /\ cost > 0 /\ Settles(r)
           /\ \/ /\ Works
                 /\ redis' = Committed(r, cost)
                 /\ paid' = [paid EXCEPT ![r] =
                      [on |-> today, cost |-> cost,
                       carried |-> redis.rec[r] \notin {NoDay, today}]]
              \/ Throws /\ UNCHANGED <<redis, paid>>
           /\ local' = LocalCommitted(r, cost)
  BY DEF Priced
<1>3. cost \in Nat
  BY <1>1
<1>4. faults' \in 0..MaxFaults
  BY <1>1, <1>2 DEF Works, Throws
<1>5. /\ local' \in LocalType
      /\ (cost > 0 /\ local'.rec = local.rec \ {r} /\ Settles(r)) \/ (local' = local /\ Leaves(r))
  BY <1>1, <1>2, <1>3, LocalCommittedEffect
<1>6. CASE UNCHANGED <<redis, paid>>
  BY <1>1, <1>4, <1>5, <1>6 DEF RedisType
<1>7. CASE /\ redis' = Committed(r, cost) /\ cost > 0
           /\ paid' = [paid EXCEPT ![r] =
                [on |-> today, cost |-> cost, carried |-> redis.rec[r] \notin {NoDay, today}]]
  <2>1. redis' \in RedisType /\ redis'.rec = [redis.rec EXCEPT ![r] = NoDay]
        /\ redis'.day = [redis.day EXCEPT ![today] = redis.day[today] + cost - Reserved(r)]
    BY <1>3, <1>7, CommittedEffect
  <2>2. \A q \in Requests : redis'.rec[q] \in {redis.rec[q], NoDay}
    BY <1>1, <2>1 DEF RedisType
  <2>3. \A d \in Days \ {today} : redis'.day[d] = redis.day[d]
    BY <1>1, <2>1 DEF RedisType
  <2>4. [on |-> today, cost |-> cost, carried |-> redis.rec[r] \notin {NoDay, today}] \in PaidType
    BY <1>1, <1>3 DEF PaidType
  <2>5. paid' \in [Requests -> PaidType] /\ paid'[r].on = today
        /\ \A q \in Requests \ {r} : paid'[q] = paid[q]
    BY <1>1, <1>7, <2>4
  <2> QED BY <1>4, <1>5, <2>1, <2>2, <2>3, <2>5
<1> QED BY <1>2, <1>6, <1>7

\* A reservation whose call throws.
LEMMA ReserveThrowsEffect ==
  ASSUME TypeOK, NEW r \in Requests, ReserveThrows(r)
  PROVE  /\ \/ redis' = redis /\ minuteCalls' = minuteCalls
            \/ redis' = Acquired(r) /\ minuteCalls' = minuteCalls \cup {r}
         /\ redis' \in RedisType /\ local' \in LocalType /\ faults' \in 0..MaxFaults
         /\ \/ at' = [at EXCEPT ![r] = "ended"] /\ local'.rec = local.rec
            \/ at' = [at EXCEPT ![r] = "reserved"] /\ local'.rec = local.rec \cup {r}
<1>1. /\ redis \in RedisType /\ local \in LocalType /\ faults \in 0..MaxFaults /\ MaxFaults \in Nat
  BY SpendAssumption DEF TypeOK, RedisType, LocalType
<1>2. faults' \in 0..MaxFaults
  BY <1>1 DEF ReserveThrows, Throws
<1>3. \/ redis' = redis /\ minuteCalls' = minuteCalls
      \/ redis' = Acquired(r) /\ minuteCalls' = minuteCalls \cup {r}
  BY DEF ReserveThrows
<1>4. redis' \in RedisType
  BY <1>1, <1>3, AcquiredEffect
<1>5. \/ at' = [at EXCEPT ![r] = "ended"] /\ local' = local
      \/ LocalReserve(r)
  BY DEF ReserveThrows
<1> QED BY <1>1, <1>2, <1>3, <1>4, <1>5, LocalReserveEffect

\* One more call at most is known after a step.
LEMMA KnownStep ==
  ASSUME KnownFinite, NEW r, Known' \subseteq Known \cup {r}
  PROVE  KnownFinite'
<1>1. IsFiniteSet(Known \cup {r})
  BY FS_AddElement DEF KnownFinite
<1> QED BY <1>1, FS_Subset DEF KnownFinite

LEMMA InitInv == Init => IInv
<1> SUFFICES ASSUME Init PROVE IInv
  OBVIOUS
<1>1. TypeOK
  BY SpendAssumption DEF Init, TypeOK, Days, Live, Unpaid, Closings
<1>2. Known = {}
  BY DEF Init, Known
<1>3. KnownFinite
  BY <1>2, FS_EmptySet DEF KnownFinite
<1>4. IdleUntouched /\ PersistedOnce /\ StreamPriced /\ FallbackIsSettled
  BY DEF Init, IdleUntouched, PersistedOnce, StreamPriced, FallbackIsSettled, Unpaid
<1>5. NoLaterDay
  BY SpendAssumption DEF Init, NoLaterDay, Unpaid, NoDay, Days
<1> QED BY <1>1, <1>3, <1>4, <1>5 DEF IInv

\* The invariant is preserved.
LEMMA NextInv == IInv /\ [Next]_vars => IInv'
<1> SUFFICES ASSUME IInv, [Next]_vars PROVE IInv'
  OBVIOUS
<1>0. /\ TypeOK /\ KnownFinite /\ IdleUntouched /\ PersistedOnce /\ NoLaterDay /\ StreamPriced
      /\ FallbackIsSettled
  BY DEF IInv
<1>t. /\ at \in [Requests -> Live \cup {"idle", "answered", "ended"}] /\ pricing \subseteq Requests
      /\ redis \in RedisType /\ local \in LocalType /\ paid \in [Requests -> PaidType]
      /\ closed \in [Requests -> Closings]
      /\ today \in Days /\ faults \in 0..MaxFaults /\ minuteCalls \subseteq Requests
      /\ redis.rec \in [Requests -> Days \cup {NoDay}] /\ redis.day \in [Days -> Int]
      /\ local.rec \subseteq Requests
  BY <1>0 DEF TypeOK, RedisType, LocalType, PaidType
<1>d. Days \subseteq Int /\ NoDay \in Int /\ (\A d \in Days : d >= 0) /\ NoDay = -1
  BY SpendAssumption DEF Days, NoDay
<1>1. ASSUME NEW r \in Requests, Reserve(r) PROVE IInv'
  <2>1. Reserve(r)
    BY <1>1
  <2>2. redis' \in RedisType /\ redis'.day = [redis.day EXCEPT ![today] = redis.day[today] + Est[r]]
        /\ redis'.rec = [redis.rec EXCEPT ![r] = today] /\ at[r] = "idle"
    BY <1>0, <2>1, AcquiredEffect DEF Reserve
  <2>3. TypeOK'
    BY <1>t, <2>1, <2>2 DEF Reserve, TypeOK, RedisType, LocalType, PaidType, Live, Closings, Settles, Leaves, history
  <2>4. KnownFinite'
    <3>1. Known' \subseteq Known \cup {r}
      BY <1>t, <2>1 DEF Reserve, Known
    <3> QED BY <1>0, <3>1, KnownStep
  <2>5. IdleUntouched'
    BY <1>0, <1>t, <2>1, <2>2 DEF Reserve, IdleUntouched, history, Settles, Leaves
  <2>6. PersistedOnce'
    BY <1>0, <1>t, <2>1, <2>2 DEF Reserve, PersistedOnce, history, Settles, Leaves, IdleUntouched
  <2>7. NoLaterDay'
    BY <1>0, <1>t, <1>d, <2>1, <2>2 DEF Reserve, NoLaterDay, history
  <2>8. StreamPriced'
    BY <1>0, <1>t, <2>1, <2>2 DEF Reserve, StreamPriced, IdleUntouched, PersistedOnce, history, Settles, Leaves
  <2>9. FallbackIsSettled'
    BY <1>0, <1>t, <2>1, <2>2 DEF Reserve, FallbackIsSettled, IdleUntouched, PersistedOnce, StreamPriced, Live, history, Settles, Leaves
  <2> QED BY <2>3, <2>4, <2>5, <2>6, <2>7, <2>8, <2>9 DEF IInv
<1>2. ASSUME NEW r \in Requests, Refuse(r) PROVE IInv'
  <2>1. Refuse(r)
    BY <1>2
  <2>3. TypeOK'
    BY <1>t, <2>1 DEF Refuse, TypeOK, RedisType, LocalType, PaidType, Live, Closings, Settles, Leaves, history
  <2>4. KnownFinite'
    <3>1. Known' \subseteq Known \cup {r}
      BY <1>t, <2>1 DEF Refuse, Known
    <3> QED BY <1>0, <3>1, KnownStep
  <2>5. IdleUntouched'
    BY <1>0, <1>t, <2>1 DEF Refuse, IdleUntouched, history, Settles, Leaves
  <2>6. PersistedOnce'
    BY <1>0, <1>t, <2>1 DEF Refuse, PersistedOnce, history, Settles, Leaves, IdleUntouched
  <2>7. NoLaterDay'
    BY <1>0, <1>t, <1>d, <2>1 DEF Refuse, NoLaterDay, history
  <2>8. StreamPriced'
    BY <1>0, <1>t, <2>1 DEF Refuse, StreamPriced, IdleUntouched, PersistedOnce, history, Settles, Leaves
  <2>9. FallbackIsSettled'
    BY <1>0, <1>t, <2>1 DEF Refuse, FallbackIsSettled, IdleUntouched, PersistedOnce, StreamPriced, Live, history, Settles, Leaves
  <2> QED BY <2>3, <2>4, <2>5, <2>6, <2>7, <2>8, <2>9 DEF IInv
<1>3. ASSUME NEW r \in Requests, ReserveThrows(r) PROVE IInv'
  <2>1. ReserveThrows(r)
    BY <1>3
  <2>2. /\ redis' \in RedisType /\ local' \in LocalType /\ faults' \in 0..MaxFaults
        /\ \/ at' = [at EXCEPT ![r] = "ended"] /\ local'.rec = local.rec
           \/ at' = [at EXCEPT ![r] = "reserved"] /\ local'.rec = local.rec \cup {r}
        /\ \/ redis' = redis
           \/ /\ redis'.day = [redis.day EXCEPT ![today] = redis.day[today] + Est[r]]
              /\ redis'.rec = [redis.rec EXCEPT ![r] = today]
    BY <1>0, <2>1, ReserveThrowsEffect, AcquiredEffect
  <2>3. TypeOK'
    <3>1. at' \in [Requests -> Live \cup {"idle", "answered", "ended"}]
      BY <1>t, <2>2 DEF Live
    <3>2. /\ pricing' = pricing /\ today' = today /\ paid' = paid /\ closed' = closed
          /\ minuteCalls' \subseteq minuteCalls \cup {r}
      BY <2>1 DEF ReserveThrows
    <3> QED BY <1>t, <2>2, <3>1, <3>2 DEF TypeOK, RedisType, LocalType, PaidType
  <2>4. KnownFinite'
    <3>1. Known' \subseteq Known \cup {r}
      BY <1>t, <2>1, <2>2 DEF Known
    <3> QED BY <1>0, <3>1, KnownStep
  <2>5. IdleUntouched'
    BY <1>0, <1>t, <2>1, <2>2 DEF ReserveThrows, IdleUntouched, history, Settles, Leaves
  <2>6. PersistedOnce'
    BY <1>0, <1>t, <2>1, <2>2 DEF ReserveThrows, PersistedOnce, history, Settles, Leaves, IdleUntouched
  <2>7. NoLaterDay'
    BY <1>0, <1>t, <1>d, <2>1, <2>2 DEF ReserveThrows, NoLaterDay, history
  <2>8. StreamPriced'
    BY <1>0, <1>t, <2>1, <2>2 DEF ReserveThrows, StreamPriced, IdleUntouched, PersistedOnce, history, Settles, Leaves
  <2>9. FallbackIsSettled'
    BY <1>0, <1>t, <2>1, <2>2 DEF ReserveThrows, FallbackIsSettled, IdleUntouched, PersistedOnce, StreamPriced, Live, history, Settles, Leaves
  <2> QED BY <2>3, <2>4, <2>5, <2>6, <2>7, <2>8, <2>9 DEF IInv
<1>4. ASSUME NEW r \in Requests, GateBlocks(r) PROVE IInv'
  <2>1. GateBlocks(r)
    BY <1>4
  <2>2. /\ redis' \in RedisType /\ local' \in LocalType /\ faults' \in 0..MaxFaults
        /\ \A q \in Requests : redis'.rec[q] \in {redis.rec[q], NoDay}
        /\ \A d \in Days : redis.day[d] = 0 => redis'.day[d] = 0
        /\ local'.rec = local.rec \ {r}
    BY <1>0, <2>1, ReleaseEffect DEF GateBlocks
  <2>3. TypeOK'
    BY <1>t, <2>1, <2>2 DEF GateBlocks, TypeOK, RedisType, LocalType, PaidType, Live, Closings, Settles, Leaves, history
  <2>4. KnownFinite'
    <3>1. Known' \subseteq Known \cup {r}
      BY <1>t, <2>1 DEF GateBlocks, Known
    <3> QED BY <1>0, <3>1, KnownStep
  <2>5. IdleUntouched'
    BY <1>0, <1>t, <2>1, <2>2 DEF GateBlocks, IdleUntouched, history, Settles, Leaves
  <2>6. PersistedOnce'
    BY <1>0, <1>t, <2>1, <2>2 DEF GateBlocks, PersistedOnce, history, Settles, Leaves, IdleUntouched
  <2>7. NoLaterDay'
    BY <1>0, <1>t, <1>d, <2>1, <2>2 DEF GateBlocks, NoLaterDay, history
  <2>8. StreamPriced'
    BY <1>0, <1>t, <2>1, <2>2 DEF GateBlocks, StreamPriced, IdleUntouched, PersistedOnce, history, Settles, Leaves
  <2>9. FallbackIsSettled'
    BY <1>0, <1>t, <2>1, <2>2 DEF GateBlocks, FallbackIsSettled, IdleUntouched, PersistedOnce, StreamPriced, Live, history, Settles, Leaves
  <2> QED BY <2>3, <2>4, <2>5, <2>6, <2>7, <2>8, <2>9 DEF IInv
<1>5. ASSUME NEW r \in Requests, Forward(r) PROVE IInv'
  <2>1. Forward(r)
    BY <1>5
  <2>3. TypeOK'
    BY <1>t, <2>1 DEF Forward, TypeOK, RedisType, LocalType, PaidType, Live, Closings, Settles, Leaves, history
  <2>4. KnownFinite'
    <3>1. Known' \subseteq Known \cup {r}
      BY <1>t, <2>1 DEF Forward, Known
    <3> QED BY <1>0, <3>1, KnownStep
  <2>5. IdleUntouched'
    BY <1>0, <1>t, <2>1 DEF Forward, IdleUntouched, history, Settles, Leaves
  <2>6. PersistedOnce'
    BY <1>0, <1>t, <2>1 DEF Forward, PersistedOnce, history, Settles, Leaves, IdleUntouched
  <2>7. NoLaterDay'
    BY <1>0, <1>t, <1>d, <2>1 DEF Forward, NoLaterDay, history
  <2>8. StreamPriced'
    BY <1>0, <1>t, <2>1 DEF Forward, StreamPriced, IdleUntouched, PersistedOnce, history, Settles, Leaves
  <2>9. FallbackIsSettled'
    BY <1>0, <1>t, <2>1 DEF Forward, FallbackIsSettled, IdleUntouched, PersistedOnce, StreamPriced, Live, history, Settles, Leaves
  <2> QED BY <2>3, <2>4, <2>5, <2>6, <2>7, <2>8, <2>9 DEF IInv
<1>6. ASSUME NEW r \in Requests, AnsweredStdio(r) PROVE IInv'
  <2>1. AnsweredStdio(r)
    BY <1>6
  <2>2. /\ redis' \in RedisType /\ local' \in LocalType /\ faults' \in 0..MaxFaults
        /\ \A q \in Requests : redis'.rec[q] \in {redis.rec[q], NoDay}
        /\ \A d \in Days : redis.day[d] = 0 => redis'.day[d] = 0
        /\ local'.rec = local.rec \ {r}
    BY <1>0, <2>1, ReleaseEffect DEF AnsweredStdio
  <2>3. TypeOK'
    BY <1>t, <2>1, <2>2 DEF AnsweredStdio, TypeOK, RedisType, LocalType, PaidType, Live, Closings, Settles, Leaves, history
  <2>4. KnownFinite'
    <3>1. Known' \subseteq Known \cup {r}
      BY <1>t, <2>1 DEF AnsweredStdio, Known
    <3> QED BY <1>0, <3>1, KnownStep
  <2>5. IdleUntouched'
    BY <1>0, <1>t, <2>1, <2>2 DEF AnsweredStdio, IdleUntouched, history, Settles, Leaves
  <2>6. PersistedOnce'
    BY <1>0, <1>t, <2>1, <2>2 DEF AnsweredStdio, PersistedOnce, history, Settles, Leaves, IdleUntouched
  <2>7. NoLaterDay'
    BY <1>0, <1>t, <1>d, <2>1, <2>2 DEF AnsweredStdio, NoLaterDay, history
  <2>8. StreamPriced'
    BY <1>0, <1>t, <2>1, <2>2 DEF AnsweredStdio, StreamPriced, IdleUntouched, PersistedOnce, history, Settles, Leaves
  <2>9. FallbackIsSettled'
    BY <1>0, <1>t, <2>1, <2>2 DEF AnsweredStdio, FallbackIsSettled, IdleUntouched, PersistedOnce, StreamPriced, Live, history, Settles, Leaves
  <2> QED BY <2>3, <2>4, <2>5, <2>6, <2>7, <2>8, <2>9 DEF IInv
<1>7. ASSUME NEW r \in Requests, AnsweredSse(r) PROVE IInv'
  <2>1. AnsweredSse(r)
    BY <1>7
  <2>3. TypeOK'
    BY <1>t, <2>1 DEF AnsweredSse, TypeOK, RedisType, LocalType, PaidType, Live, Closings, Settles, Leaves, history
  <2>4. KnownFinite'
    <3>1. Known' \subseteq Known \cup {r}
      BY <1>t, <2>1 DEF AnsweredSse, Known
    <3> QED BY <1>0, <3>1, KnownStep
  <2>5. IdleUntouched'
    BY <1>0, <1>t, <2>1 DEF AnsweredSse, IdleUntouched, history, Settles, Leaves
  <2>6. PersistedOnce'
    BY <1>0, <1>t, <2>1 DEF AnsweredSse, PersistedOnce, history, Settles, Leaves, IdleUntouched
  <2>7. NoLaterDay'
    BY <1>0, <1>t, <1>d, <2>1 DEF AnsweredSse, NoLaterDay, history
  <2>8. StreamPriced'
    BY <1>0, <1>t, <2>1 DEF AnsweredSse, StreamPriced, IdleUntouched, PersistedOnce, history, Settles, Leaves
  <2>9. FallbackIsSettled'
    BY <1>0, <1>t, <2>1 DEF AnsweredSse, FallbackIsSettled, IdleUntouched, PersistedOnce, StreamPriced, Live, history, Settles, Leaves
  <2> QED BY <2>3, <2>4, <2>5, <2>6, <2>7, <2>8, <2>9 DEF IInv
<1>8. ASSUME NEW r \in Requests, AnsweredStream(r) PROVE IInv'
  <2>1. AnsweredStream(r)
    BY <1>8
  <2>3. TypeOK'
    BY <1>t, <2>1 DEF AnsweredStream, TypeOK, RedisType, LocalType, PaidType, Live, Closings, Settles, Leaves, history
  <2>4. KnownFinite'
    <3>1. Known' \subseteq Known \cup {r}
      BY <1>t, <2>1 DEF AnsweredStream, Known
    <3> QED BY <1>0, <3>1, KnownStep
  <2>5. IdleUntouched'
    BY <1>0, <1>t, <2>1 DEF AnsweredStream, IdleUntouched, history, Settles, Leaves
  <2>6. PersistedOnce'
    BY <1>0, <1>t, <2>1 DEF AnsweredStream, PersistedOnce, history, Settles, Leaves, IdleUntouched
  <2>7. NoLaterDay'
    BY <1>0, <1>t, <1>d, <2>1 DEF AnsweredStream, NoLaterDay, history
  <2>8. StreamPriced'
    BY <1>0, <1>t, <2>1 DEF AnsweredStream, StreamPriced, IdleUntouched, PersistedOnce, history, Settles, Leaves
  <2>9. FallbackIsSettled'
    BY <1>0, <1>t, <2>1 DEF AnsweredStream, FallbackIsSettled, IdleUntouched, PersistedOnce, StreamPriced, Live, history, Settles, Leaves
  <2> QED BY <2>3, <2>4, <2>5, <2>6, <2>7, <2>8, <2>9 DEF IInv
<1>9. ASSUME NEW r \in Requests, Aborted(r) PROVE IInv'
  <2>1. Aborted(r)
    BY <1>9
  <2>2. /\ redis' \in RedisType /\ local' \in LocalType /\ faults' \in 0..MaxFaults
        /\ \A q \in Requests : redis'.rec[q] \in {redis.rec[q], NoDay}
        /\ \A d \in Days : redis.day[d] = 0 => redis'.day[d] = 0
        /\ local'.rec = local.rec \ {r}
    BY <1>0, <2>1, ReleaseEffect DEF Aborted
  <2>3. TypeOK'
    BY <1>t, <2>1, <2>2 DEF Aborted, TypeOK, RedisType, LocalType, PaidType, Live, Closings, Settles, Leaves, history
  <2>4. KnownFinite'
    <3>1. Known' \subseteq Known \cup {r}
      BY <1>t, <2>1 DEF Aborted, Known
    <3> QED BY <1>0, <3>1, KnownStep
  <2>5. IdleUntouched'
    BY <1>0, <1>t, <2>1, <2>2 DEF Aborted, IdleUntouched, history, Settles, Leaves
  <2>6. PersistedOnce'
    BY <1>0, <1>t, <2>1, <2>2 DEF Aborted, PersistedOnce, history, Settles, Leaves, IdleUntouched
  <2>7. NoLaterDay'
    BY <1>0, <1>t, <1>d, <2>1, <2>2 DEF Aborted, NoLaterDay, history
  <2>8. StreamPriced'
    BY <1>0, <1>t, <2>1, <2>2 DEF Aborted, StreamPriced, IdleUntouched, PersistedOnce, history, Settles, Leaves
  <2>9. FallbackIsSettled'
    BY <1>0, <1>t, <2>1, <2>2 DEF Aborted, FallbackIsSettled, IdleUntouched, PersistedOnce, StreamPriced, Live, history, Settles, Leaves
  <2> QED BY <2>3, <2>4, <2>5, <2>6, <2>7, <2>8, <2>9 DEF IInv
<1>10. ASSUME NEW r \in Requests, Forgotten(r) PROVE IInv'
  <2>1. Forgotten(r)
    BY <1>10
  <2>3. TypeOK'
    BY <1>t, <2>1 DEF Forgotten, TypeOK, RedisType, LocalType, PaidType, Live, Closings, Settles, Leaves, history
  <2>4. KnownFinite'
    <3>1. Known' \subseteq Known \cup {r}
      BY <1>t, <2>1 DEF Forgotten, Known
    <3> QED BY <1>0, <3>1, KnownStep
  <2>5. IdleUntouched'
    BY <1>0, <1>t, <2>1 DEF Forgotten, IdleUntouched, history, Settles, Leaves
  <2>6. PersistedOnce'
    BY <1>0, <1>t, <2>1 DEF Forgotten, PersistedOnce, history, Settles, Leaves, IdleUntouched
  <2>7. NoLaterDay'
    BY <1>0, <1>t, <1>d, <2>1 DEF Forgotten, NoLaterDay, history
  <2>8. StreamPriced'
    BY <1>0, <1>t, <2>1 DEF Forgotten, StreamPriced, IdleUntouched, PersistedOnce, history, Settles, Leaves
  <2>9. FallbackIsSettled'
    BY <1>0, <1>t, <2>1 DEF Forgotten, FallbackIsSettled, IdleUntouched, PersistedOnce, StreamPriced, Live, history, Settles, Leaves
  <2> QED BY <2>3, <2>4, <2>5, <2>6, <2>7, <2>8, <2>9 DEF IInv
<1>11. ASSUME NEW r \in Requests, Priced(r) PROVE IInv'
  <2>1. Priced(r)
    BY <1>11
  <2>2. /\ redis' \in RedisType /\ local' \in LocalType /\ faults' \in 0..MaxFaults
        /\ paid' \in [Requests -> PaidType]
        /\ \A q \in Requests : redis'.rec[q] \in {redis.rec[q], NoDay}
        /\ \A d \in Days \ {today} : redis'.day[d] = redis.day[d]
        /\ \A q \in Requests \ {r} : paid'[q] = paid[q]
        /\ paid'[r] = paid[r] \/ paid'[r].on = today
        /\ \/ local' = local /\ Leaves(r)
           \/ local'.rec = local.rec \ {r} /\ Settles(r)
    BY <1>0, <2>1, PricedEffect
  <2>3. TypeOK'
    BY <1>t, <2>1, <2>2 DEF Priced, TypeOK, RedisType, LocalType, PaidType, Live, Closings, Settles, Leaves, history
  <2>4. KnownFinite'
    <3>1. Known' \subseteq Known \cup {r}
      BY <1>t, <2>1 DEF Priced, Known
    <3> QED BY <1>0, <3>1, KnownStep
  <2>5. IdleUntouched'
    BY <1>0, <1>t, <2>1, <2>2 DEF Priced, IdleUntouched, history, Settles, Leaves
  <2>6. PersistedOnce'
    BY <1>0, <1>t, <2>1, <2>2 DEF Priced, PersistedOnce, history, Settles, Leaves, IdleUntouched
  <2>7. NoLaterDay'
    BY <1>0, <1>t, <1>d, <2>1, <2>2 DEF Priced, NoLaterDay, history
  <2>8. StreamPriced'
    BY <1>0, <1>t, <2>1, <2>2 DEF Priced, StreamPriced, IdleUntouched, PersistedOnce, history, Settles, Leaves
  <2>9. FallbackIsSettled'
    BY <1>0, <1>t, <2>1, <2>2 DEF Priced, FallbackIsSettled, IdleUntouched, PersistedOnce, StreamPriced, Live, history, Settles, Leaves
  <2> QED BY <2>3, <2>4, <2>5, <2>6, <2>7, <2>8, <2>9 DEF IInv
<1>12. ASSUME NEW r \in Requests, RecordExpires(r) PROVE IInv'
  <2>1. RecordExpires(r)
    BY <1>12
  <2>3. TypeOK'
    BY <1>t, <2>1 DEF RecordExpires, TypeOK, RedisType, LocalType, PaidType, Live, Closings, Settles, Leaves, history
  <2>4. KnownFinite'
    <3>1. Known' \subseteq Known \cup {r}
      BY <1>t, <2>1 DEF RecordExpires, Known
    <3> QED BY <1>0, <3>1, KnownStep
  <2>5. IdleUntouched'
    BY <1>0, <1>t, <2>1 DEF RecordExpires, IdleUntouched, history, Settles, Leaves
  <2>6. PersistedOnce'
    BY <1>0, <1>t, <2>1 DEF RecordExpires, PersistedOnce, history, Settles, Leaves, IdleUntouched
  <2>7. NoLaterDay'
    BY <1>0, <1>t, <1>d, <2>1 DEF RecordExpires, NoLaterDay, history
  <2>8. StreamPriced'
    BY <1>0, <1>t, <2>1 DEF RecordExpires, StreamPriced, IdleUntouched, PersistedOnce, history, Settles, Leaves
  <2>9. FallbackIsSettled'
    BY <1>0, <1>t, <2>1 DEF RecordExpires, FallbackIsSettled, IdleUntouched, PersistedOnce, StreamPriced, Live, history, Settles, Leaves
  <2> QED BY <2>3, <2>4, <2>5, <2>6, <2>7, <2>8, <2>9 DEF IInv
<1>13. CASE MinuteEnds
  <2>1. MinuteEnds
    BY <1>13
  <2>3. TypeOK'
    BY <1>t, <2>1 DEF MinuteEnds, TypeOK, RedisType, LocalType, PaidType, Live, Closings, Settles, Leaves, history
  <2>4. KnownFinite'
    <3>1. Known' \subseteq Known \cup {today}
      BY <1>t, <2>1 DEF MinuteEnds, Known
    <3> QED BY <1>0, <3>1, KnownStep
  <2>5. IdleUntouched'
    BY <1>0, <1>t, <2>1 DEF MinuteEnds, IdleUntouched, history, Settles, Leaves
  <2>6. PersistedOnce'
    BY <1>0, <1>t, <2>1 DEF MinuteEnds, PersistedOnce, history, Settles, Leaves, IdleUntouched
  <2>7. NoLaterDay'
    BY <1>0, <1>t, <1>d, <2>1 DEF MinuteEnds, NoLaterDay, history
  <2>8. StreamPriced'
    BY <1>0, <1>t, <2>1 DEF MinuteEnds, StreamPriced, IdleUntouched, PersistedOnce, history, Settles, Leaves
  <2>9. FallbackIsSettled'
    BY <1>0, <1>t, <2>1 DEF MinuteEnds, FallbackIsSettled, IdleUntouched, PersistedOnce, StreamPriced, Live, history, Settles, Leaves
  <2> QED BY <2>3, <2>4, <2>5, <2>6, <2>7, <2>8, <2>9 DEF IInv
<1>14. CASE BucketEnds
  <2>1. BucketEnds
    BY <1>14
  <2>3. TypeOK'
    BY <1>t, <2>1 DEF BucketEnds, TypeOK, RedisType, LocalType, PaidType, Live, Closings, Settles, Leaves, history
  <2>4. KnownFinite'
    <3>1. Known' \subseteq Known \cup {today}
      BY <1>t, <2>1 DEF BucketEnds, Known
    <3> QED BY <1>0, <3>1, KnownStep
  <2>5. IdleUntouched'
    BY <1>0, <1>t, <2>1 DEF BucketEnds, IdleUntouched, history, Settles, Leaves
  <2>6. PersistedOnce'
    BY <1>0, <1>t, <2>1 DEF BucketEnds, PersistedOnce, history, Settles, Leaves, IdleUntouched
  <2>7. NoLaterDay'
    BY <1>0, <1>t, <1>d, <2>1 DEF BucketEnds, NoLaterDay, history
  <2>8. StreamPriced'
    BY <1>0, <1>t, <2>1 DEF BucketEnds, StreamPriced, IdleUntouched, PersistedOnce, history, Settles, Leaves
  <2>9. FallbackIsSettled'
    BY <1>0, <1>t, <2>1 DEF BucketEnds, FallbackIsSettled, IdleUntouched, PersistedOnce, StreamPriced, Live, history, Settles, Leaves
  <2> QED BY <2>3, <2>4, <2>5, <2>6, <2>7, <2>8, <2>9 DEF IInv
<1>15. CASE Midnight
  <2>1. Midnight
    BY <1>15
  <2>2. today' \in Days /\ today' > today
    BY <1>t, <2>1, SpendAssumption DEF Midnight, Days
  <2>3. TypeOK'
    BY <1>t, <2>1, <2>2 DEF Midnight, TypeOK, RedisType, LocalType, PaidType, Live, Closings, Settles, Leaves, history
  <2>4. KnownFinite'
    <3>1. Known' \subseteq Known \cup {today}
      BY <1>t, <2>1 DEF Midnight, Known
    <3> QED BY <1>0, <3>1, KnownStep
  <2>5. IdleUntouched'
    BY <1>0, <1>t, <2>1 DEF Midnight, IdleUntouched, history, Settles, Leaves
  <2>6. PersistedOnce'
    BY <1>0, <1>t, <2>1 DEF Midnight, PersistedOnce, history, Settles, Leaves, IdleUntouched
  <2>7. NoLaterDay'
    <3>1. \A r \in Requests : redis.rec[r] \in Int /\ paid[r].on \in Int /\ today \in Int
      BY <1>t, <1>d DEF PaidType
    <3>2. today' \in Int /\ today' > today /\ today \in Int /\ \A d \in Days : d \in Int
      BY <1>t, <1>d, <2>2
    <3>3. \A d \in Days : d > today' => redis.day[d] = 0
      BY <1>0, <3>2 DEF NoLaterDay
    <3>4. \A r \in Requests : redis.rec[r] <= today' /\ paid[r].on <= today'
      BY <1>0, <3>1, <3>2 DEF NoLaterDay
    <3> QED BY <2>1, <3>3, <3>4 DEF Midnight, NoLaterDay, history
  <2>8. StreamPriced'
    BY <1>0, <1>t, <2>1 DEF Midnight, StreamPriced, IdleUntouched, PersistedOnce, history, Settles, Leaves
  <2>9. FallbackIsSettled'
    BY <1>0, <1>t, <2>1 DEF Midnight, FallbackIsSettled, IdleUntouched, PersistedOnce, StreamPriced, Live, history, Settles, Leaves
  <2> QED BY <2>3, <2>4, <2>5, <2>6, <2>7, <2>8, <2>9 DEF IInv
<1>16. CASE UNCHANGED vars
  <2>1. UNCHANGED vars
    BY <1>16
  <2>3. TypeOK'
    BY <1>t, <2>1 DEF vars, TypeOK, RedisType, LocalType, PaidType, Live, Closings, Settles, Leaves, history
  <2>4. KnownFinite'
    <3>1. Known' \subseteq Known \cup {today}
      BY <1>t, <2>1 DEF vars, Known
    <3> QED BY <1>0, <3>1, KnownStep
  <2>5. IdleUntouched'
    BY <1>0, <1>t, <2>1 DEF vars, IdleUntouched, history, Settles, Leaves
  <2>6. PersistedOnce'
    BY <1>0, <1>t, <2>1 DEF vars, PersistedOnce, history, Settles, Leaves, IdleUntouched
  <2>7. NoLaterDay'
    BY <1>0, <1>t, <1>d, <2>1 DEF vars, NoLaterDay, history
  <2>8. StreamPriced'
    BY <1>0, <1>t, <2>1 DEF vars, StreamPriced, IdleUntouched, PersistedOnce, history, Settles, Leaves
  <2>9. FallbackIsSettled'
    BY <1>0, <1>t, <2>1 DEF vars, FallbackIsSettled, IdleUntouched, PersistedOnce, StreamPriced, Live, history, Settles, Leaves
  <2> QED BY <2>3, <2>4, <2>5, <2>6, <2>7, <2>8, <2>9 DEF IInv
<1> QED BY <1>1, <1>2, <1>3, <1>4, <1>5, <1>6, <1>7, <1>8, <1>9, <1>10, <1>11, <1>12, <1>13, <1>14, <1>15, <1>16 DEF Next

(* Every state is well-typed.  The minute counters of Redis and of this     *)
(* process never go below zero, whatever is released and however often keys *)
(* expire (the floors of unified-spend-release.lua); of the day counters it *)
(* says only that they are integers: a commit after midnight takes the old  *)
(* day's estimate off the new day's counter, which may go below zero        *)
(* (unified-spend-commit.lua:17).                                           *)
THEOREM SpendTypeCorrect == Spec => []TypeOK
<1>1. Spec => []IInv
  BY InitInv, NextInv, PTL DEF Spec
<1>2. IInv => TypeOK
  BY DEF IInv
<1> QED BY <1>1, <1>2, PTL

(* No record of the fallback outlives a release or a priced commit that was *)
(* asked for, nor the script call that threw in it: what is left belongs to *)
(* calls in progress and to calls that ended without asking for either      *)
(* (releaseReservedSpend and commitSpend).                                  *)
THEOREM FallbackSettled == Spec => []FallbackIsSettled
<1>1. Spec => []IInv
  BY InitInv, NextInv, PTL DEF Spec
<1>2. IInv => FallbackIsSettled
  BY DEF IInv
<1> QED BY <1>1, <1>2, PTL

-----------------------------------------------------------------------------
(* The minute counter.                                                      *)

LEMMA CountedFinite ==
  ASSUME IInv
  PROVE  /\ IsFiniteSet(Counted) /\ Counted \subseteq Known /\ Known \subseteq Requests
         /\ \A r \in Requests : Est[r] \in Nat
<1>1. Counted \subseteq Known /\ Known \subseteq Requests
  BY DEF Counted, Known, Live
<1> QED BY <1>1, FS_Subset, SpendAssumption DEF IInv, KnownFinite

\* What a step does to the calls in flight that hold a record, to the minute
\* counter and to its expiry.
Lighter ==
  /\ Counted' \subseteq Counted
  /\ redis'.minute = redis.minute /\ redis'.ttl = redis.ttl /\ redis'.covers = redis.covers

Charged(r) ==
  /\ r \notin Counted /\ Counted' \subseteq Counted \cup {r}
  /\ redis'.minute = redis.minute + Est[r]
  /\ redis'.covers = Known \cup {r}

TakenOff(r) ==
  /\ r \in Counted /\ Counted' \subseteq Counted \ {r}
  /\ redis'.minute = Floor(redis.minute - Est[r]) /\ ~redis'.ttl

LEMMA ReleaseLightens ==
  ASSUME IInv, NEW r \in Requests, Release(r), at[r] \in Live,
         NEW s \in {"ended", "answered"}, at' = [at EXCEPT ![r] = s]
  PROVE  Lighter \/ TakenOff(r)
<1>1. redis \in RedisType /\ TypeOK /\ at \in [Requests -> Live \cup {"idle", "answered", "ended"}]
      /\ redis.rec \in [Requests -> Days \cup {NoDay}] /\ redis.day \in [Days -> Int]
  BY DEF IInv, TypeOK, RedisType
<1>2. CASE redis' = redis
  <2>1. Counted' \subseteq Counted
    BY <1>1, <1>2 DEF Counted, Live
  <2> QED BY <1>2, <2>1 DEF Lighter
<1>3. CASE redis' = Released(r) /\ redis.rec[r] # NoDay
  <2>1. redis'.minute = Floor(redis.minute - Est[r]) /\ ~redis'.ttl
    BY <1>1, <1>3 DEF Released, RedisType
  <2>2. redis'.rec = [redis.rec EXCEPT ![r] = NoDay]
    BY <1>1, <1>3, ReleasedEffect
  <2>3. r \in Counted
    BY <1>3 DEF Counted
  <2>4. Counted' \subseteq Counted \ {r}
    BY <1>1, <2>2 DEF Counted, Live
  <2> QED BY <2>1, <2>3, <2>4 DEF TakenOff
<1> QED BY <1>2, <1>3, ReleaseEffect, <1>1 DEF Released

LEMMA CountedStep ==
  ASSUME IInv, [Next]_vars
  PROVE  Lighter \/ MinuteEnds \/ \E r \in Requests : Charged(r) \/ TakenOff(r)
<1>0. TypeOK /\ IdleUntouched /\ redis \in RedisType
      /\ at \in [Requests -> Live \cup {"idle", "answered", "ended"}]
      /\ redis.rec \in [Requests -> Days \cup {NoDay}] /\ NoDay \notin Days /\ today \in Days
  <2>1. TypeOK /\ IdleUntouched /\ PersistedOnce
    BY DEF IInv
  <2> QED BY <2>1, NoDayApart DEF TypeOK, RedisType
<1>1. ASSUME NEW r \in Requests, Reserve(r) PROVE Charged(r)
  <2>1. /\ redis'.minute = redis.minute + Est[r] /\ redis'.covers = Known \cup {r}
        /\ redis'.rec = [redis.rec EXCEPT ![r] = today]
    BY <1>0, <1>1, AcquiredEffect DEF Reserve
  <2> QED BY <1>0, <1>1, <2>1 DEF Charged, Reserve, Counted, Live
<1>2. ASSUME NEW r \in Requests, ReserveThrows(r) PROVE Lighter \/ Charged(r)
  <2>1. at[r] = "idle" /\ r \notin Counted /\ redis.rec[r] = NoDay
    BY <1>0, <1>2 DEF ReserveThrows, IdleUntouched, Counted, Live
  <2>2. \E s \in {"ended", "reserved"} : at' = [at EXCEPT ![r] = s]
    BY <1>0, <1>2, ReserveThrowsEffect
  <2>3. CASE redis' = redis
    <3>1. Counted' \subseteq Counted
      BY <1>0, <2>1, <2>2, <2>3 DEF Counted
    <3> QED BY <2>3, <3>1 DEF Lighter
  <2>4. CASE redis' = Acquired(r)
    <3>1. /\ redis'.minute = redis.minute + Est[r] /\ redis'.covers = Known \cup {r}
          /\ redis'.rec = [redis.rec EXCEPT ![r] = today]
      BY <1>0, <2>4, AcquiredEffect
    <3>2. Counted' \subseteq Counted \cup {r}
      BY <1>0, <2>2, <3>1 DEF Counted
    <3> QED BY <2>1, <3>1, <3>2 DEF Charged
  <2> QED BY <1>0, <1>2, <2>3, <2>4, ReserveThrowsEffect
<1>3. ASSUME NEW r \in Requests, GateBlocks(r) \/ AnsweredStdio(r) \/ Aborted(r)
      PROVE  Lighter \/ TakenOff(r)
  <2>1. /\ Release(r) /\ at[r] \in Live
        /\ \E s \in {"ended", "answered"} : at' = [at EXCEPT ![r] = s]
    BY <1>3 DEF GateBlocks, AnsweredStdio, Aborted, Live
  <2> QED BY <2>1, ReleaseLightens
<1>4. ASSUME NEW r \in Requests,
             Refuse(r) \/ Forward(r) \/ AnsweredSse(r) \/ AnsweredStream(r) \/ Forgotten(r)
      PROVE  Lighter
  <2>1. /\ redis' = redis /\ (at[r] \in Live \/ at'[r] \notin Live)
        /\ \E s \in {"flight", "ended", "answered"} : at' = [at EXCEPT ![r] = s]
    BY <1>0, <1>4 DEF Refuse, Forward, AnsweredSse, AnsweredStream, Forgotten, Live
  <2>2. Counted' \subseteq Counted
    BY <1>0, <2>1 DEF Counted
  <2> QED BY <2>1, <2>2 DEF Lighter
<1>5. ASSUME NEW r \in Requests, Priced(r) PROVE Lighter
  <2>1. /\ redis'.minute = redis.minute /\ redis'.ttl = redis.ttl /\ redis'.covers = redis.covers
    <3>1. redis' = redis \/ \E cost \in Nat : redis' = Committed(r, cost)
      BY <1>5, SpendAssumption DEF Priced
    <3>2. ASSUME NEW cost \in Nat, redis' = Committed(r, cost)
          PROVE  /\ redis'.minute = redis.minute /\ redis'.ttl = redis.ttl
                 /\ redis'.covers = redis.covers
      <4> DEFINE next == Committed(r, cost)
      <4>1. next.minute = redis.minute /\ next.ttl = redis.ttl /\ next.covers = redis.covers
        BY <1>0, CommittedEffect
      <4> HIDE DEF next
      <4> QED BY <3>2, <4>1, Zenon DEF next
    <3> QED BY <3>1, <3>2
  <2>2. /\ at' = at /\ \A q \in Requests : redis'.rec[q] \in {redis.rec[q], NoDay}
    BY <1>0, <1>5, PricedEffect DEF Priced
  <2>3. Counted' \subseteq Counted
    BY <2>2 DEF Counted
  <2> QED BY <2>1, <2>3 DEF Lighter
<1>6. ASSUME NEW r \in Requests, RecordExpires(r) PROVE Lighter
  BY <1>0, <1>6 DEF RecordExpires, Lighter, Counted, RedisType
<1>7. CASE BucketEnds \/ Midnight \/ UNCHANGED vars
  <2>1. redis' = redis /\ at' = at
    BY <1>7 DEF BucketEnds, Midnight, vars
  <2> QED BY <2>1 DEF Lighter, Counted
<1> QED BY <1>1, <1>2, <1>3, <1>4, <1>5, <1>6, <1>7 DEF Next

LEMMA CoveredStep ==
  ASSUME IInv, [Next]_vars, ~SlowCalls, ExpiryCovers, InFlightCounted
  PROVE  ExpiryCovers' /\ InFlightCounted'
<1>0. /\ IsFiniteSet(Counted) /\ Counted \subseteq Known /\ Known \subseteq Requests
      /\ \A r \in Requests : Est[r] \in Nat
  BY CountedFinite
<1>1. redis.minute \in Nat /\ Estimates(Counted) \in Nat
  BY <1>0, UnitsFinite DEF IInv, TypeOK, Estimates
<1>2. Estimates(Counted) <= redis.minute
  BY DEF InFlightCounted
<1>3. CASE Lighter
  <2>1. Estimates(Counted') <= Estimates(Counted) /\ Estimates(Counted') \in Nat
    BY <1>0, <1>3, TotalSubset DEF Lighter, Estimates
  <2>2. redis'.minute = redis.minute
    BY <1>3 DEF Lighter
  <2>3. Estimates(Counted') <= redis'.minute
    BY <1>1, <1>2, <2>1, <2>2
  <2> QED BY <1>3, <2>3 DEF Lighter, ExpiryCovers, InFlightCounted, Estimates, Total, Units
<1>4. ASSUME NEW r \in Requests, Charged(r) PROVE ExpiryCovers' /\ InFlightCounted'
  <2>1. Estimates(Counted \cup {r}) = Estimates(Counted) + Est[r]
    BY <1>0, <1>4, TotalAdd DEF Charged, Estimates
  <2>2. IsFiniteSet(Counted \cup {r}) /\ \A q \in Counted \cup {r} : Est[q] \in Nat
    BY <1>0, FS_AddElement
  <2>3. Counted' \in SUBSET (Counted \cup {r})
    BY <1>4 DEF Charged
  <2>4. Estimates(Counted') <= Estimates(Counted \cup {r}) /\ Estimates(Counted') \in Nat
    BY <2>2, <2>3, TotalSubset DEF Estimates
  <2>5. redis'.minute = redis.minute + Est[r] /\ Est[r] \in Nat
    BY <1>0, <1>4 DEF Charged
  <2>6. Estimates(Counted') <= redis'.minute
    BY <1>1, <1>2, <2>1, <2>4, <2>5
  <2> QED BY <1>0, <1>4, <2>6 DEF Charged, ExpiryCovers, InFlightCounted, Estimates, Total, Units
<1>5. ASSUME NEW r \in Requests, TakenOff(r) PROVE ExpiryCovers' /\ InFlightCounted'
  <2>1. r \in Counted /\ Counted' \in SUBSET (Counted \ {r})
    BY <1>5 DEF TakenOff
  <2>2. Estimates(Counted \ {r}) = Estimates(Counted) - Est[r] /\ Estimates(Counted \ {r}) \in Nat
    BY <1>0, <2>1, TotalRemove DEF Estimates
  <2>3. IsFiniteSet(Counted \ {r}) /\ \A q \in Counted \ {r} : Est[q] \in Nat
    BY <1>0, FS_Subset
  <2>4. Estimates(Counted') <= Estimates(Counted \ {r}) /\ Estimates(Counted') \in Nat
    BY <2>1, <2>3, TotalSubset DEF Estimates
  <2>5. redis'.minute = Floor(redis.minute - Est[r]) /\ Est[r] \in Nat
    BY <1>0, <1>5 DEF TakenOff
  <2>6. redis'.minute \in Nat /\ redis'.minute >= redis.minute - Est[r]
    BY <1>1, <2>5, FloorNat
  <2>7. Estimates(Counted') <= redis'.minute
    BY <1>1, <1>2, <2>2, <2>4, <2>5, <2>6
  <2> QED BY <1>5, <2>7 DEF TakenOff, ExpiryCovers, InFlightCounted, Estimates, Total, Units
<1>6. CASE MinuteEnds
  <2>1. Counted \subseteq redis.covers /\ \A q \in redis.covers : at[q] \notin Live
    BY <1>6 DEF MinuteEnds, Over, ExpiryCovers
  <2>2. Counted = {}
    BY <2>1 DEF Counted
  <2>3. /\ ~redis'.ttl /\ redis'.minute = 0 /\ redis'.rec = redis.rec /\ at' = at
    BY <1>6 DEF MinuteEnds, IInv, TypeOK
  <2>4. Counted' = {}
    BY <2>2, <2>3 DEF Counted
  <2>5. Units(Est, Counted') = {}
    BY <2>4 DEF Units
  <2>6. Estimates(Counted') = 0
    BY <2>5, FS_EmptySet, Zenon DEF Estimates, Total
  <2> QED BY <2>3, <2>6 DEF ExpiryCovers, InFlightCounted, Estimates, Total, Units
<1> QED BY <1>3, <1>4, <1>5, <1>6, CountedStep

(* While calls are shorter than a minute, the minute counter covers every   *)
(* call in flight that holds a record, whatever else is reserved, released, *)
(* committed or forgotten meanwhile, and whichever script calls throw.      *)
THEOREM CallsInFlightCounted ==
  ASSUME ~SlowCalls
  PROVE  Spec => []InFlightCounted
<1>1. Init => ExpiryCovers /\ InFlightCounted
  <2> SUFFICES ASSUME Init PROVE ExpiryCovers /\ InFlightCounted
    OBVIOUS
  <2>1. Counted = {} /\ ~redis.ttl /\ redis.minute = 0
    BY DEF Init, Counted, Live
  <2>2. Units(Est, Counted) = {}
    BY <2>1 DEF Units
  <2>3. Estimates(Counted) = 0
    BY <2>2, FS_EmptySet, Zenon DEF Estimates, Total
  <2> QED BY <2>1, <2>3 DEF ExpiryCovers, InFlightCounted
<1> DEFINE FInv == IInv /\ ExpiryCovers /\ InFlightCounted
<1>2. Init => FInv
  BY <1>1, InitInv
<1>3. FInv /\ [Next]_vars => FInv'
  BY NextInv, CoveredStep
<1>4. FInv => InFlightCounted
  OBVIOUS
<1> HIDE DEF FInv
<1> QED BY <1>2, <1>3, <1>4, PTL DEF Spec
-----------------------------------------------------------------------------
(* The day counter.                                                         *)

LEMMA DayFinite ==
  ASSUME IInv
  PROVE  /\ IsFiniteSet(PaidToday) /\ IsFiniteSet(OpenToday) /\ IsFiniteSet(CarriedToday)
         /\ PaidToday \subseteq Requests /\ OpenToday \subseteq Requests
         /\ CarriedToday \subseteq PaidToday
         /\ \A r \in Requests : Est[r] \in Nat /\ CostOf[r] \in Nat
         /\ Costs(PaidToday) \in Nat /\ Estimates(OpenToday) \in Nat
         /\ Estimates(CarriedToday) \in Nat
<1>1. /\ today \in Days /\ NoDay \notin Days /\ IdleUntouched /\ IsFiniteSet(Known)
      /\ paid \in [Requests -> PaidType]
  BY NoDayApart DEF IInv, TypeOK, PaidType, KnownFinite
<1>2. PaidToday \subseteq Known
  BY <1>1 DEF PaidToday, Known, IdleUntouched, Unpaid
<1>3. OpenToday \subseteq Known
  BY <1>1 DEF OpenToday, Known, IdleUntouched
<1>4. CarriedToday \subseteq PaidToday
  BY DEF CarriedToday
<1>5. \A r \in Requests : Est[r] \in Nat /\ CostOf[r] \in Nat
  BY <1>1, SpendAssumption DEF CostOf, PaidType
<1>6. IsFiniteSet(PaidToday) /\ IsFiniteSet(OpenToday) /\ IsFiniteSet(CarriedToday)
  BY <1>1, <1>2, <1>3, <1>4, FS_Subset
<1>7. PaidToday \subseteq Requests /\ OpenToday \subseteq Requests
  BY DEF PaidToday, OpenToday
<1>8. Costs(PaidToday) \in Nat
  BY <1>5, <1>6, <1>7, UnitsFinite DEF Costs
<1>9. Estimates(OpenToday) \in Nat
  BY <1>5, <1>6, <1>7, UnitsFinite DEF Estimates
<1>10. Estimates(CarriedToday) \in Nat
  BY <1>4, <1>5, <1>6, <1>7, UnitsFinite DEF Estimates
<1> QED BY <1>4, <1>5, <1>6, <1>7, <1>8, <1>9, <1>10

\* What a step does to the present day's counter, and to the calls reserved
\* and paid today.
DayKept ==
  /\ redis'.day[today] = redis.day[today] /\ OpenToday' \subseteq OpenToday /\ paid' = paid

DayCharged(r) ==
  /\ r \notin OpenToday /\ OpenToday' = OpenToday \cup {r} /\ paid' = paid
  /\ redis'.day[today] = redis.day[today] + Est[r]

DayTakenOff(r) ==
  /\ r \in OpenToday /\ OpenToday' = OpenToday \ {r} /\ paid' = paid
  /\ redis'.day[today] = Floor(redis.day[today] - Est[r])

DayCommitted(r, cost) ==
  /\ paid[r] = Unpaid
  /\ OpenToday' = OpenToday \ {r}
  /\ redis'.day[today] = redis.day[today] + cost - Reserved(r)
  /\ paid' = [paid EXCEPT ![r] = [on |-> today, cost |-> cost,
                                 carried |-> redis.rec[r] \notin {NoDay, today}]]

LEMMA DayStep ==
  ASSUME IInv, [Next]_vars, ~Midnight
  PROVE  /\ today' = today
         /\ \/ DayKept
            \/ \E r \in Requests : DayCharged(r) \/ DayTakenOff(r)
            \/ \E r \in Requests, cost \in Nat : DayCommitted(r, cost)
<1>0. /\ TypeOK /\ IdleUntouched /\ PersistedOnce /\ redis \in RedisType
      /\ redis.rec \in [Requests -> Days \cup {NoDay}] /\ redis.day \in [Days -> Int]
      /\ NoDay \notin Days /\ today \in Days
  <2>1. TypeOK /\ IdleUntouched /\ PersistedOnce
    BY DEF IInv
  <2> QED BY <2>1, NoDayApart DEF TypeOK, RedisType
<1>1. ASSUME NEW r \in Requests, redis' = Acquired(r), at[r] = "idle", today' = today, paid' = paid
      PROVE  DayCharged(r)
  <2>1. /\ redis'.day = [redis.day EXCEPT ![today] = redis.day[today] + Est[r]]
        /\ redis'.rec = [redis.rec EXCEPT ![r] = today]
    BY <1>0, <1>1, AcquiredEffect
  <2>2. redis.rec[r] # today
    BY <1>0, <1>1 DEF IdleUntouched
  <2>3. OpenToday' = OpenToday \cup {r}
    BY <1>0, <1>1, <2>1 DEF OpenToday
  <2> QED BY <1>0, <1>1, <2>1, <2>2, <2>3 DEF DayCharged, OpenToday
<1>2. ASSUME NEW r \in Requests, redis' = Released(r), today' = today, paid' = paid
      PROVE  DayKept \/ DayTakenOff(r)
  <2>1. redis'.rec = [redis.rec EXCEPT ![r] = NoDay]
    BY <1>0, <1>2, ReleasedEffect
  <2>2. OpenToday' = OpenToday \ {r}
    BY <1>0, <1>2, <2>1 DEF OpenToday
  <2>3. CASE redis.rec[r] = NoDay
    BY <1>2, <2>2, <2>3 DEF Released, DayKept
  <2>4. CASE redis.rec[r] \in Days
    <3> DEFINE d == redis.rec[r]
    <3>1. redis'.day = [redis.day EXCEPT ![d] = Floor(redis.day[d] - Est[r])]
      BY <1>0, <1>2, <2>4 DEF Released, RedisType
    <3>2. CASE d = today
      BY <1>0, <1>2, <2>2, <3>1, <3>2 DEF DayTakenOff, OpenToday
    <3>3. CASE d # today
      <4>1. redis'.day[today] = redis.day[today]
        BY <1>0, <2>4, <3>1, <3>3
      <4> QED BY <1>2, <2>2, <4>1 DEF DayKept
    <3> QED BY <3>2, <3>3
  <2> QED BY <1>0, <2>3, <2>4
<1>3. ASSUME redis' = redis, today' = today, paid' = paid
      PROVE  DayKept
  BY <1>3 DEF DayKept, OpenToday
<1>4. ASSUME NEW r \in Requests, Reserve(r) \/ ReserveThrows(r)
      PROVE  today' = today /\ (DayKept \/ DayCharged(r))
  <2>1. at[r] = "idle" /\ today' = today /\ paid' = paid /\ (redis' = redis \/ redis' = Acquired(r))
    BY <1>4 DEF Reserve, ReserveThrows
  <2> QED BY <1>1, <1>3, <2>1
<1>5. ASSUME NEW r \in Requests, GateBlocks(r) \/ AnsweredStdio(r) \/ Aborted(r)
      PROVE  today' = today /\ (DayKept \/ DayTakenOff(r))
  <2>1. today' = today /\ paid' = paid /\ (redis' = redis \/ redis' = Released(r))
    BY <1>5 DEF GateBlocks, AnsweredStdio, Aborted, Release, history
  <2> QED BY <1>2, <1>3, <2>1
<1>6. ASSUME NEW r \in Requests,
             Refuse(r) \/ Forward(r) \/ AnsweredSse(r) \/ AnsweredStream(r) \/ Forgotten(r)
      PROVE  today' = today /\ DayKept
  <2>1. redis' = redis /\ today' = today /\ paid' = paid
    BY <1>6 DEF Refuse, Forward, AnsweredSse, AnsweredStream, Forgotten, history
  <2> QED BY <1>3, <2>1
<1>7. ASSUME NEW r \in Requests, Priced(r)
      PROVE  today' = today /\ (DayKept \/ \E cost \in Nat : DayCommitted(r, cost))
  <2>1. today' = today /\ paid[r] = Unpaid
    BY <1>0, <1>7 DEF Priced, PersistedOnce
  <2>2. CASE redis' = redis /\ paid' = paid
    BY <1>3, <2>1, <2>2
  <2>3. ASSUME NEW cost \in Nat, redis' = Committed(r, cost),
               paid' = [paid EXCEPT ![r] = [on |-> today, cost |-> cost,
                                            carried |-> redis.rec[r] \notin {NoDay, today}]]
        PROVE  DayCommitted(r, cost)
    <3>1. /\ redis'.day = [redis.day EXCEPT ![today] = redis.day[today] + cost - Reserved(r)]
          /\ redis'.rec = [redis.rec EXCEPT ![r] = NoDay]
      BY <1>0, <2>3, CommittedEffect
    <3>2. OpenToday' = OpenToday \ {r}
      BY <1>0, <2>1, <3>1 DEF OpenToday
    <3>3. redis'.day[today] = redis.day[today] + cost - Reserved(r)
      BY <1>0, <3>1
    <3> QED BY <2>1, <2>3, <3>2, <3>3 DEF DayCommitted
  <2>4. \/ redis' = redis /\ paid' = paid
        \/ \E cost \in Nat :
             /\ redis' = Committed(r, cost)
             /\ paid' = [paid EXCEPT ![r] = [on |-> today, cost |-> cost,
                                            carried |-> redis.rec[r] \notin {NoDay, today}]]
    BY <1>7, SpendAssumption DEF Priced
  <2> QED BY <2>1, <2>2, <2>3, <2>4
<1>8. ASSUME NEW r \in Requests, RecordExpires(r) PROVE today' = today /\ DayKept
  <2>1. /\ redis'.day = redis.day /\ redis'.rec = [redis.rec EXCEPT ![r] = NoDay]
        /\ today' = today /\ paid' = paid
    BY <1>0, <1>8 DEF RecordExpires, history, RedisType
  <2>2. OpenToday' \subseteq OpenToday
    BY <1>0, <2>1 DEF OpenToday
  <2> QED BY <2>1, <2>2 DEF DayKept
<1>9. CASE MinuteEnds
  <2>1. redis'.day = redis.day /\ redis'.rec = redis.rec /\ today' = today /\ paid' = paid
    BY <1>0, <1>9 DEF MinuteEnds, RedisType
  <2> QED BY <2>1 DEF DayKept, OpenToday
<1>10. CASE BucketEnds \/ UNCHANGED vars
  <2>1. redis' = redis /\ today' = today /\ paid' = paid
    BY <1>10 DEF BucketEnds, vars, history
  <2> QED BY <1>3, <2>1
<1> QED BY <1>4, <1>5, <1>6, <1>7, <1>8, <1>9, <1>10 DEF Next

LEMMA DayCommittedStep ==
  ASSUME IInv, IInv', DayUndercountBounded, today' = today,
         NEW r \in Requests, NEW cost \in Nat, DayCommitted(r, cost)
  PROVE  DayUndercountBounded'
<1>0. /\ IsFiniteSet(PaidToday) /\ IsFiniteSet(OpenToday) /\ IsFiniteSet(CarriedToday)
      /\ PaidToday \subseteq Requests /\ OpenToday \subseteq Requests
      /\ CarriedToday \subseteq PaidToday
      /\ \A q \in Requests : Est[q] \in Nat /\ CostOf[q] \in Nat
      /\ Costs(PaidToday) \in Nat /\ Estimates(OpenToday) \in Nat
      /\ Estimates(CarriedToday) \in Nat
  BY DayFinite
<1>1. /\ today \in Days /\ NoDay \notin Days /\ paid \in [Requests -> PaidType]
      /\ redis.day[today] \in Int
  <2>1. today \in Days /\ paid \in [Requests -> PaidType] /\ redis.day \in [Days -> Int]
    BY DEF IInv, TypeOK, PaidType
  <2> QED BY <2>1, NoDayApart
<1>2. /\ paid[r] = Unpaid /\ OpenToday' = OpenToday \ {r}
      /\ redis'.day[today] = redis.day[today] + cost - Reserved(r)
      /\ paid' = [paid EXCEPT ![r] = [on |-> today, cost |-> cost,
                                     carried |-> redis.rec[r] \notin {NoDay, today}]]
  BY DEF DayCommitted
<1>3. redis.day[today] >= Costs(PaidToday) + Estimates(OpenToday) - Estimates(CarriedToday)
  BY DEF DayUndercountBounded
<1> DEFINE Cost2 == CostOf'
           Paid2 == PaidToday'
           Carried2 == CarriedToday'
           Open2 == OpenToday'
<1>4. r \notin PaidToday /\ Paid2 = PaidToday \cup {r}
  BY <1>1, <1>2 DEF PaidToday, Unpaid
<1>5. Cost2[r] = cost /\ \A q \in PaidToday : Cost2[q] = CostOf[q]
  BY <1>0, <1>1, <1>2, <1>4 DEF CostOf
<1>6. Carried2 = CarriedToday \cup (IF redis.rec[r] \notin {NoDay, today} THEN {r} ELSE {})
  BY <1>1, <1>2, <1>4 DEF CarriedToday, PaidToday
<1>7. Total(Cost2, Paid2) = Costs(PaidToday) + cost
  <2> HIDE DEF Cost2, Paid2
  <2>1. Total(Cost2, PaidToday) = Costs(PaidToday)
    BY <1>5, TotalSame DEF Costs
  <2>2. \A q \in PaidToday : Cost2[q] \in Nat
    BY <1>0, <1>5
  <2>3. Total(Cost2, PaidToday \cup {r}) = Total(Cost2, PaidToday) + Cost2[r]
    BY <1>0, <1>4, <1>5, <2>2, TotalAdd
  <2>4. Total(Cost2, Paid2) = Total(Cost2, PaidToday \cup {r})
    BY <1>4, Zenon
  <2> QED BY <1>5, <2>1, <2>3, <2>4
<1>8. /\ Estimates(Open2) = Estimates(OpenToday) - (IF redis.rec[r] = today THEN Est[r] ELSE 0)
      /\ Estimates(Open2) \in Nat
  <2> HIDE DEF Open2
  <2>0. Open2 = OpenToday \ {r}
    BY <1>2 DEF Open2
  <2>1. CASE redis.rec[r] = today
    <3>1. r \in OpenToday
      BY <2>1 DEF OpenToday
    <3>2. Estimates(OpenToday \ {r}) = Estimates(OpenToday) - Est[r]
          /\ Estimates(OpenToday \ {r}) \in Nat
      BY <1>0, <3>1, TotalRemove DEF Estimates
    <3>3. Estimates(Open2) = Estimates(OpenToday \ {r})
      BY <2>0, Zenon
    <3> QED BY <2>1, <3>2, <3>3
  <2>2. CASE redis.rec[r] # today
    <3>1. OpenToday \ {r} = OpenToday
      BY <2>2 DEF OpenToday
    <3>2. Estimates(Open2) = Estimates(OpenToday)
      BY <2>0, <3>1, Zenon
    <3> QED BY <1>0, <2>2, <3>2
  <2> QED BY <2>1, <2>2
<1>9. /\ Estimates(Carried2) =
            Estimates(CarriedToday) + (IF redis.rec[r] \notin {NoDay, today} THEN Est[r] ELSE 0)
      /\ Estimates(Carried2) \in Nat
  <2> HIDE DEF Carried2
  <2>1. CASE redis.rec[r] \notin {NoDay, today}
    <3>1. Carried2 = CarriedToday \cup {r} /\ r \notin CarriedToday
      BY <1>0, <1>4, <1>6, <2>1
    <3>2. Estimates(CarriedToday \cup {r}) = Estimates(CarriedToday) + Est[r]
      BY <1>0, <3>1, TotalAdd DEF Estimates
    <3>3. Estimates(Carried2) = Estimates(CarriedToday \cup {r})
      BY <3>1, Zenon
    <3> QED BY <1>0, <2>1, <3>2, <3>3
  <2>2. CASE redis.rec[r] \in {NoDay, today}
    <3>1. Carried2 = CarriedToday
      BY <1>6, <2>2
    <3>2. Estimates(Carried2) = Estimates(CarriedToday)
      BY <3>1, Zenon
    <3> QED BY <1>0, <2>2, <3>2
  <2> QED BY <2>1, <2>2
<1>10. Est[r] \in Nat /\ Reserved(r) = IF redis.rec[r] = NoDay THEN 0 ELSE Est[r]
  BY <1>0 DEF Reserved
<1>11. redis'.day[today] >= Total(Cost2, Paid2) + Estimates(Open2) - Estimates(Carried2)
  <2> HIDE DEF Cost2, Paid2, Carried2, Open2
  <2>1. CASE redis.rec[r] = NoDay
    BY <1>0, <1>1, <1>2, <1>3, <1>7, <1>8, <1>9, <1>10, <2>1
  <2>2. CASE redis.rec[r] = today
    BY <1>0, <1>1, <1>2, <1>3, <1>7, <1>8, <1>9, <1>10, <2>2
  <2>3. CASE redis.rec[r] \notin {NoDay, today}
    BY <1>0, <1>1, <1>2, <1>3, <1>7, <1>8, <1>9, <1>10, <2>3
  <2> QED BY <2>1, <2>2, <2>3
<1> QED BY <1>11 DEF DayUndercountBounded, Costs, Estimates, Total, Units

LEMMA DayCountedStep ==
  ASSUME IInv, [Next]_vars, DayUndercountBounded
  PROVE  DayUndercountBounded'
<1>0. /\ IsFiniteSet(PaidToday) /\ IsFiniteSet(OpenToday) /\ IsFiniteSet(CarriedToday)
      /\ PaidToday \subseteq Requests /\ OpenToday \subseteq Requests
      /\ CarriedToday \subseteq PaidToday
      /\ \A q \in Requests : Est[q] \in Nat /\ CostOf[q] \in Nat
      /\ Costs(PaidToday) \in Nat /\ Estimates(OpenToday) \in Nat
      /\ Estimates(CarriedToday) \in Nat
  BY DayFinite
<1>1. today \in Days /\ redis.day[today] \in Int
  BY DEF IInv, TypeOK
<1>2. redis.day[today] >= Costs(PaidToday) + Estimates(OpenToday) - Estimates(CarriedToday)
  BY DEF DayUndercountBounded
<1>3. ASSUME today' = today, paid' = paid, NEW bound \in Int,
             Estimates(OpenToday') <= Estimates(OpenToday) + bound, Estimates(OpenToday') \in Nat,
             redis'.day[today] >= redis.day[today] + bound, redis'.day[today] \in Int
      PROVE  DayUndercountBounded'
  <2>1. PaidToday' = PaidToday /\ CarriedToday' = CarriedToday /\ CostOf' = CostOf
    BY <1>3 DEF PaidToday, CarriedToday, CostOf
  <2>2. redis'.day[today] >= Costs(PaidToday) + Estimates(OpenToday') - Estimates(CarriedToday)
    BY <1>0, <1>1, <1>2, <1>3
  <2>3. Costs(PaidToday)' = Costs(PaidToday) /\ Estimates(CarriedToday)' = Estimates(CarriedToday)
    BY <2>1 DEF Costs, Estimates, Total, Units
  <2>4. redis'.day[today'] >= Costs(PaidToday)' + Estimates(OpenToday)' - Estimates(CarriedToday)'
    BY <1>3, <2>2, <2>3 DEF Estimates, Total, Units
  <2> QED BY <2>4 DEF DayUndercountBounded
<1>4. CASE today' = today /\ DayKept
  <2>1. Estimates(OpenToday') <= Estimates(OpenToday) /\ Estimates(OpenToday') \in Nat
    BY <1>0, <1>4, TotalSubset DEF DayKept, Estimates
  <2> QED BY <1>0, <1>1, <1>3, <1>4, <2>1 DEF DayKept
<1>5. ASSUME today' = today, NEW r \in Requests, DayCharged(r) PROVE DayUndercountBounded'
  <2>1. Estimates(OpenToday \cup {r}) = Estimates(OpenToday) + Est[r]
    BY <1>0, <1>5, TotalAdd DEF DayCharged, Estimates
  <2>2. Estimates(OpenToday') = Estimates(OpenToday) + Est[r]
    BY <1>5, <2>1, Zenon DEF DayCharged
  <2>3. paid' = paid /\ redis'.day[today] = redis.day[today] + Est[r] /\ Est[r] \in Nat
    BY <1>0, <1>5 DEF DayCharged
  <2> QED BY <1>0, <1>1, <1>3, <1>5, <2>2, <2>3
<1>6. ASSUME today' = today, NEW r \in Requests, DayTakenOff(r) PROVE DayUndercountBounded'
  <2>1. /\ Estimates(OpenToday \ {r}) = Estimates(OpenToday) - Est[r]
        /\ Estimates(OpenToday \ {r}) \in Nat
    BY <1>0, <1>6, TotalRemove DEF DayTakenOff, Estimates
  <2>2. Estimates(OpenToday') = Estimates(OpenToday \ {r})
    BY <1>6, Zenon DEF DayTakenOff
  <2>3. paid' = paid /\ redis'.day[today] = Floor(redis.day[today] - Est[r]) /\ Est[r] \in Nat
    BY <1>0, <1>6 DEF DayTakenOff
  <2>4. redis'.day[today] \in Int /\ redis'.day[today] >= redis.day[today] - Est[r]
    BY <1>1, <2>3, FloorNat
  <2>5. -Est[r] \in Int /\ redis'.day[today] >= redis.day[today] + (-Est[r])
        /\ Estimates(OpenToday') <= Estimates(OpenToday) + (-Est[r])
    BY <1>0, <1>1, <2>1, <2>2, <2>3, <2>4
  <2>6. Estimates(OpenToday') \in Nat
    BY <2>1, <2>2
  <2> QED BY <1>3, <1>6, <2>3, <2>4, <2>5, <2>6
<1>7. ASSUME today' = today, NEW r \in Requests, NEW cost \in Nat, DayCommitted(r, cost)
      PROVE  DayUndercountBounded'
  BY <1>7, NextInv, DayCommittedStep
<1>8. CASE Midnight
  <2>1. /\ today' \in Days /\ today' > today /\ redis' = redis /\ paid' = paid
        /\ today \in Int /\ today' \in Int
    BY <1>1, <1>8, SpendAssumption DEF Midnight, Days, history
  <2>2. /\ \A r \in Requests : redis.rec[r] \in Int /\ paid[r].on \in Int
        /\ \A r \in Requests : redis.rec[r] <= today /\ paid[r].on <= today
        /\ redis.day[today'] = 0
    BY <2>1, SpendAssumption DEF IInv, TypeOK, NoLaterDay, Days, NoDay
  <2>3. OpenToday' = {} /\ PaidToday' = {}
    BY <2>1, <2>2 DEF OpenToday, PaidToday
  <2>4. CarriedToday' = {}
    BY <2>3 DEF CarriedToday
  <2>5. ASSUME NEW amount PROVE Total(amount, {}) = 0
    <3>1. Units(amount, {}) = {}
      BY DEF Units
    <3> QED BY <3>1, FS_EmptySet, Zenon DEF Total
  <2>6. Costs(PaidToday)' = 0
    <3>1. Costs(PaidToday)' = Total(CostOf', PaidToday')
      BY DEF Costs, Total, Units
    <3> QED BY <2>3, <2>5, <3>1, Zenon
  <2>7. Estimates(OpenToday)' = 0 /\ Estimates(CarriedToday)' = 0
    <3>1. Estimates(OpenToday)' = Total(Est, OpenToday')
          /\ Estimates(CarriedToday)' = Total(Est, CarriedToday')
      BY DEF Estimates, Total, Units
    <3> QED BY <2>3, <2>4, <2>5, <3>1, Zenon
  <2> QED BY <2>1, <2>2, <2>6, <2>7 DEF DayUndercountBounded
<1> QED BY <1>4, <1>5, <1>6, <1>7, <1>8, DayStep

(* What was committed today and what is reserved today is counted today,    *)
(* short only of the estimates of calls that were reserved on an earlier    *)
(* day: under any interleaving of reservations, releases, commits, expiring *)
(* records, failing scripts and midnights.                                  *)
THEOREM DayUndercount == Spec => []DayUndercountBounded
<1>1. Init => DayUndercountBounded
  <2> SUFFICES ASSUME Init PROVE DayUndercountBounded
    OBVIOUS
  <2>1. today = 0 /\ 0 \in Days /\ NoDay # 0 /\ redis.day[0] = 0
    BY SpendAssumption DEF Init, Days, NoDay
  <2>2. OpenToday = {} /\ PaidToday = {}
    BY <2>1 DEF Init, OpenToday, PaidToday, Unpaid
  <2>3. CarriedToday = {}
    BY <2>2 DEF CarriedToday
  <2>4. ASSUME NEW amount PROVE Total(amount, {}) = 0
    <3>1. Units(amount, {}) = {}
      BY DEF Units
    <3> QED BY <3>1, FS_EmptySet, Zenon DEF Total
  <2>5. Costs(PaidToday) = 0 /\ Estimates(OpenToday) = 0 /\ Estimates(CarriedToday) = 0
    BY <2>2, <2>3, <2>4, Zenon DEF Costs, Estimates
  <2> QED BY <2>1, <2>5 DEF DayUndercountBounded
<1>2. IInv /\ DayUndercountBounded /\ [Next]_vars => (IInv /\ DayUndercountBounded)'
  BY NextInv, DayCountedStep
<1> QED BY <1>1, <1>2, InitInv, PTL DEF Spec
=============================================================================
