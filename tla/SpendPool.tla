------------------------------ MODULE SpendPool ------------------------------
(***************************************************************************)
(* The spend pool of one tenant: what src/services/unified-spend-pool.ts   *)
(* and its three Redis scripts do, and how the proxies use them.  A call   *)
(* reserves its estimate, runs the semantic gate, is forwarded, and is     *)
(* released or committed in the end.  A script is one atomic step; so is   *)
(* the JavaScript between two awaits.  When a script call throws, the      *)
(* process falls back on counters of its own.                              *)
(***************************************************************************)
EXTENDS Integers, FiniteSets

CONSTANTS
  Requests,
  Est,          \* the estimate of each request, in the units of both windows
  Actuals,      \* what a call may cost in the end; 0: no price is known
  MinuteCap, DayCap,
  Via,          \* the proxy of each request: "stdio", "sse" or "stream"
  Strict,       \* enterprise or strict mode: no fallback
  SlowCalls,    \* calls may outlast a minute, and records their 900 seconds
  LastDay,      \* bound: midnights
  MaxFaults     \* bound: script calls that throw

ASSUME SpendAssumption ==
  /\ Est \in [Requests -> Nat \ {0}]
  /\ Actuals \subseteq Nat
  /\ MinuteCap \in Nat /\ DayCap \in Nat
  /\ Via \in [Requests -> {"stdio", "sse", "stream"}]
  /\ Strict \in BOOLEAN /\ SlowCalls \in BOOLEAN
  /\ LastDay \in Nat /\ MaxFaults \in Nat

VARIABLES
  at,           \* the stage of each request
  pricing,      \* requests whose persistCallRecord awaits a price
  redis,        \* the counters, the minute key's expiry, the records
  local,        \* the fallback of this process
  today, faults,
  minuteCalls,  \* history: calls reserved in the present minute window
  paid,         \* history: the commits that were executed
  closed        \* history: what was asked for when a call ended

vars == <<at, pricing, redis, local, today, faults, minuteCalls, paid, closed>>
history == <<minuteCalls, paid, closed>>

Days == 0..LastDay
NoDay == -1
Live == {"reserved", "flight"}
Unpaid == [on |-> NoDay, cost |-> 0, carried |-> FALSE]

\* A reservation is settled once its release or a priced commit was asked
\* for, and left once its call is over and nothing will ask for either.
Closings == {"open", "settled", "left"}

TypeOK ==
  /\ at \in [Requests -> Live \cup {"idle", "answered", "ended"}]
  /\ pricing \subseteq Requests
  /\ redis \in [minute : Nat, ttl : BOOLEAN, covers : SUBSET Requests,
                day : [Days -> Int], rec : [Requests -> Days \cup {NoDay}]]
  /\ local \in [minute : Nat, stale : BOOLEAN,
                day : [Days -> Int], rec : SUBSET Requests]
  /\ today \in Days /\ faults \in 0..MaxFaults
  /\ minuteCalls \subseteq Requests
  /\ paid \in [Requests -> [on : Days \cup {NoDay}, cost : Nat, carried : BOOLEAN]]
  /\ closed \in [Requests -> Closings]

Init ==
  /\ at = [r \in Requests |-> "idle"]
  /\ pricing = {}
  /\ redis = [minute |-> 0, ttl |-> FALSE, covers |-> {},
              day |-> [d \in Days |-> 0], rec |-> [r \in Requests |-> NoDay]]
  /\ local = [minute |-> 0, stale |-> TRUE, day |-> [d \in Days |-> 0], rec |-> {}]
  /\ today = 0 /\ faults = 0
  /\ minuteCalls = {}
  /\ paid = [r \in Requests |-> Unpaid]
  /\ closed = [r \in Requests |-> "open"]

\* Fault: a count may go below zero.
Unfloored(n) == n

Floor(n) == IF n > 0 THEN n ELSE 0

Settles(r) == closed' = [closed EXCEPT ![r] = "settled"]
Leaves(r) == closed' = [closed EXCEPT ![r] = IF @ = "open" THEN "left" ELSE @]

-----------------------------------------------------------------------------
(* The Redis scripts.  redis.covers is what the expiry of the minute key    *)
(* is worth: the calls reserved before it was last set.  Day keys carry     *)
(* their date, so only the present day's is ever read.                      *)

Fits(r) ==
  /\ redis.minute + Est[r] <= MinuteCap
  /\ redis.day[today] + Est[r] <= DayCap

\* Fault: EXPIRE only for a key that has none.
AcquiredUnrenewed(r) ==
  [redis EXCEPT !.minute = @ + Est[r], !.ttl = TRUE,
                !.covers = IF redis.ttl THEN @ ELSE {q \in Requests : at[q] # "idle"} \cup {r},
                !.day[today] = @ + Est[r],
                !.rec[r] = today]

Acquired(r) ==
  [redis EXCEPT !.minute = @ + Est[r], !.ttl = TRUE,
                !.covers = {q \in Requests : at[q] # "idle"} \cup {r},
                !.day[today] = @ + Est[r],
                !.rec[r] = today]

\* A count that would fall to zero or below is deleted; otherwise SET writes
\* it back, and a key written by SET has no expiry.
Released(r) ==
  IF redis.rec[r] = NoDay THEN redis
  ELSE [redis EXCEPT !.minute = Floor(@ - Est[r]), !.ttl = FALSE,
                     !.day[redis.rec[r]] = Floor(@ - Est[r]),
                     !.rec[r] = NoDay]

Reserved(r) == IF redis.rec[r] = NoDay THEN 0 ELSE Est[r]

\* Fault: the record survives the commit, and a release takes it off again.
CommittedKeepingRecord(r, cost) ==
  [redis EXCEPT !.day[today] = @ + cost - Reserved(r)]

Committed(r, cost) ==
  [redis EXCEPT !.day[today] = @ + cost - Reserved(r), !.rec[r] = NoDay]

-----------------------------------------------------------------------------
(* The fallback.  Its bucket is not renewed by later reservations, and a    *)
(* release or commit goes to the present day.                               *)

LocalMinute == IF local.stale THEN 0 ELSE local.minute

\* The windows are charged in turn; one that refuses leaves the charges made
\* before it, because no record of them exists yet for the release to find.
LocalReserve(r) ==
  \/ /\ LocalMinute + Est[r] > MinuteCap
     /\ at' = [at EXCEPT ![r] = "ended"]
     /\ UNCHANGED local
  \/ /\ LocalMinute + Est[r] <= MinuteCap
     /\ local.day[today] + Est[r] > DayCap
     /\ at' = [at EXCEPT ![r] = "ended"]
     /\ local' = [local EXCEPT !.minute = LocalMinute + Est[r], !.stale = FALSE]
  \/ /\ LocalMinute + Est[r] <= MinuteCap
     /\ local.day[today] + Est[r] <= DayCap
     /\ at' = [at EXCEPT ![r] = "reserved"]
     /\ local' = [local EXCEPT !.minute = LocalMinute + Est[r], !.stale = FALSE,
                               !.day[today] = @ + Est[r],
                               !.rec = @ \cup {r}]

LocalReleased(r) ==
  IF r \notin local.rec THEN local
  ELSE [local EXCEPT !.minute = Floor(@ - Est[r]),
                     !.day[today] = Floor(@ - Est[r]),
                     !.rec = @ \ {r}]

LocalCommitted(r, cost) ==
  IF r \notin local.rec THEN local
  ELSE [local EXCEPT !.day[today] = @ + cost - Est[r], !.rec = @ \ {r}]

\* A call of a script succeeds, or throws without having been executed.
Works == UNCHANGED faults
Throws == faults < MaxFaults /\ faults' = faults + 1

\* Fault: the local record is looked at only if Redis fails.
ReleaseEither(r) ==
  \/ Works /\ redis' = Released(r) /\ UNCHANGED local
  \/ Throws /\ UNCHANGED redis /\ local' = LocalReleased(r)

\* releaseReservedSpend: Redis at best effort, then this process's record.
Release(r) ==
  /\ \/ Works /\ redis' = Released(r)
     \/ Throws /\ UNCHANGED redis
  /\ local' = LocalReleased(r)

-----------------------------------------------------------------------------
(* tryReserveSpend, in the gates behind the policy.                         *)

Reserve(r) ==
  /\ at[r] = "idle"
  /\ Fits(r)
  /\ redis' = Acquired(r)
  /\ minuteCalls' = minuteCalls \cup {r}
  /\ at' = [at EXCEPT ![r] = "reserved"]
  /\ UNCHANGED <<pricing, local, today, faults, paid, closed>>

Refuse(r) ==
  /\ at[r] = "idle"
  /\ ~Fits(r)
  /\ at' = [at EXCEPT ![r] = "ended"]
  /\ UNCHANGED <<pricing, redis, local, today, faults, history>>

\* The call throws; the script may have run all the same.
ReserveThrows(r) ==
  /\ at[r] = "idle"
  /\ Throws
  /\ \/ UNCHANGED <<redis, minuteCalls>>
     \/ /\ Fits(r)
        /\ redis' = Acquired(r)
        /\ minuteCalls' = minuteCalls \cup {r}
  /\ IF Strict THEN at' = [at EXCEPT ![r] = "ended"] /\ UNCHANGED local
               ELSE LocalReserve(r)
  /\ UNCHANGED <<pricing, today, paid, closed>>

GateBlocks(r) ==
  /\ at[r] = "reserved"
  /\ Release(r) /\ Settles(r)
  /\ at' = [at EXCEPT ![r] = "ended"]
  /\ UNCHANGED <<pricing, today, minuteCalls, paid>>

\* The streamable HTTP proxy persists the call, with its price, on admission.
Forward(r) ==
  /\ at[r] = "reserved"
  /\ at' = [at EXCEPT ![r] = "flight"]
  /\ pricing' = IF Via[r] = "stream" THEN pricing \cup {r} ELSE pricing
  /\ UNCHANGED <<redis, local, today, faults, history>>

-----------------------------------------------------------------------------
(* How a call ends.                                                         *)

\* The stdio proxy starts persistCallRecord, which awaits the price, and then
\* deletes the request's context, which releases the reservation.
AnsweredStdio(r) ==
  /\ Via[r] = "stdio" /\ at[r] = "flight"
  /\ pricing' = pricing \cup {r}
  /\ Release(r) /\ Settles(r)
  /\ at' = [at EXCEPT ![r] = "answered"]
  /\ UNCHANGED <<today, minuteCalls, paid>>

AnsweredSse(r) ==
  /\ Via[r] = "sse" /\ at[r] = "flight"
  /\ pricing' = pricing \cup {r}
  /\ at' = [at EXCEPT ![r] = "answered"]
  /\ UNCHANGED <<redis, local, today, faults, history>>

AnsweredStream(r) ==
  /\ Via[r] = "stream" /\ at[r] = "flight"
  /\ at' = [at EXCEPT ![r] = "answered"]
  /\ UNCHANGED <<pricing, redis, local, today, faults, history>>

\* A timeout, the child's exit, or a stream cut off in the middle.
Aborted(r) ==
  /\ Via[r] \in {"stdio", "stream"} /\ at[r] = "flight"
  /\ Release(r) /\ Settles(r)
  /\ at' = [at EXCEPT ![r] = "ended"]
  /\ UNCHANGED <<pricing, today, minuteCalls, paid>>

\* Ends that neither release nor commit: an upstream error or a blocked
\* answer in the SSE proxy, a request id used again in the stdio proxy.
Forgotten(r) ==
  /\ Via[r] \in {"stdio", "sse"} /\ at[r] = "flight"
  /\ at' = [at EXCEPT ![r] = "ended"]
  /\ Leaves(r)
  /\ UNCHANGED <<pricing, redis, local, today, faults, minuteCalls, paid>>

\* persistCallRecord goes on: commitSpend if the call has a price.
Priced(r) ==
  /\ r \in pricing
  /\ pricing' = pricing \ {r}
  /\ \E cost \in Actuals :
       \/ cost = 0 /\ Leaves(r) /\ UNCHANGED <<redis, local, faults, paid>>
       \/ /\ cost > 0 /\ Settles(r)
          /\ \/ /\ Works
                /\ redis' = Committed(r, cost)
                /\ paid' = [paid EXCEPT ![r] =
                     [on |-> today, cost |-> cost,
                      carried |-> redis.rec[r] \notin {NoDay, today}]]
             \/ Throws /\ UNCHANGED <<redis, paid>>
          /\ local' = LocalCommitted(r, cost)
  /\ UNCHANGED <<at, today, minuteCalls>>

-----------------------------------------------------------------------------
(* Time.  Unless SlowCalls, a call ends within the minute that follows its  *)
(* reservation, so that it is over when a key that covers it expires.       *)

Over(calls) == SlowCalls \/ \A r \in calls : at[r] \notin Live /\ r \notin pricing

MinuteEnds ==
  /\ redis.ttl /\ Over(redis.covers)
  /\ redis' = [redis EXCEPT !.minute = 0, !.ttl = FALSE, !.covers = {}]
  /\ minuteCalls' = {}
  /\ UNCHANGED <<at, pricing, local, today, faults, paid, closed>>

RecordExpires(r) ==
  /\ redis.rec[r] # NoDay /\ Over({r})
  /\ redis' = [redis EXCEPT !.rec[r] = NoDay]
  /\ UNCHANGED <<at, pricing, local, today, faults, history>>

BucketEnds ==
  /\ ~local.stale
  /\ local' = [local EXCEPT !.stale = TRUE]
  /\ UNCHANGED <<at, pricing, redis, today, faults, history>>

Midnight ==
  /\ today < LastDay
  /\ today' = today + 1
  /\ UNCHANGED <<at, pricing, redis, local, faults, history>>

Next ==
  \/ \E r \in Requests :
       \/ Reserve(r) \/ Refuse(r) \/ ReserveThrows(r) \/ GateBlocks(r) \/ Forward(r)
       \/ AnsweredStdio(r) \/ AnsweredSse(r) \/ AnsweredStream(r)
       \/ Aborted(r) \/ Forgotten(r) \/ Priced(r) \/ RecordExpires(r)
  \/ MinuteEnds \/ BucketEnds \/ Midnight

Spec == Init /\ [][Next]_vars

-----------------------------------------------------------------------------
\* The sum of amount[r] for the calls r: each counts for its units.
Units(amount, calls) == UNION {{r} \X (1..amount[r]) : r \in calls}
Total(amount, calls) == Cardinality(Units(amount, calls))

CostOf == [r \in Requests |-> paid[r].cost]
Estimates(calls) == Total(Est, calls)
Costs(calls) == Total(CostOf, calls)

\* The calls in flight that hold a record.
Counted == {r \in Requests : at[r] \in Live /\ redis.rec[r] # NoDay}

(* While calls are shorter than a minute, the minute counter covers every   *)
(* call in flight that holds a record.  The key's expiry is renewed by      *)
(* each acquire (unified-spend-acquire.lua:36), and a release takes off     *)
(* what its own record holds and nothing more, whoever else came and went.  *)
InFlightCounted == Estimates(Counted) <= redis.minute

PaidToday == {r \in Requests : paid[r].on = today}
CarriedToday == {r \in PaidToday : paid[r].carried}
OpenToday == {r \in Requests : redis.rec[r] = today}

(* What was committed today, and what is reserved today, is counted today,  *)
(* short of the estimates of calls reserved on an earlier day: their commit *)
(* reconciles against the day of the commit (unified-spend-commit.lua:17).  *)
DayUndercountBounded ==
  redis.day[today] >= Costs(PaidToday) + Estimates(OpenToday) - Estimates(CarriedToday)

(* A reservation made in the fallback is settled there even if Redis has    *)
(* come back or throws: its record is of a call that still runs or awaits   *)
(* its price, or of one that ended without asking for a release or a priced *)
(* commit (Forgotten, no price).                                            *)
FallbackIsSettled ==
  \A r \in local.rec :
    \/ closed[r] = "left"
    \/ closed[r] = "open" /\ (at[r] \in Live \/ r \in pricing)

(* "release on block/error, commit on persist"                              *)
(* (proxy-request-context.ts:29): a call that was answered stays counted    *)
(* in the minute in which it was reserved.                                  *)
AnsweredCallsCounted ==
  Estimates({r \in minuteCalls : at[r] = "answered"}) <= redis.minute
=============================================================================
