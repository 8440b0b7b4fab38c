----------------------------- MODULE RateLimiter -----------------------------
(***************************************************************************)
(* The rate limiter, utils/redis-rate-limiter.ts: calls of several proxies *)
(* are counted in Redis under one key and one window, and each proxy keeps *)
(* a count of its own for the time when Redis fails.  With two regions     *)
(* active a call is counted a second time, under the key of all regions.   *)
(***************************************************************************)
EXTENDS Integers, FiniteSets

CONSTANTS
  Processes, Calls,
  Weights,      \* what a call may count for (incrementBy)
  Limits,       \* [{"region", "global"} -> limit]
  MaxFaults     \* bound: Redis calls that fail, and crashes

VARIABLES
  mode,         \* [strict, locking, spanning]: the settings of all processes
  redis,        \* of each key: its count, and whether it has an expiry
  lock,         \* the keys whose window lock is taken
  local,        \* of each process and key: the count and the grants of its window
  calls,        \* [pc, at, weight] of each call, and what the region has said
  faults,
  unbounded     \* history: the keys that were left without an expiry

vars == <<mode, redis, lock, local, calls, faults, unbounded>>

Keys == {"region", "global"}
Ended == [count |-> 0, granted |-> 0]

TypeOK ==
  /\ mode \in [strict : BOOLEAN, locking : BOOLEAN, spanning : BOOLEAN]
  /\ redis \in [Keys -> [count : Nat, expires : BOOLEAN]]
  /\ lock \subseteq Keys
  /\ local \in [Processes -> [Keys -> [count : Nat, granted : Nat]]]
  /\ calls \in [Calls -> [pc : {"new", "lock", "incr", "expire", "answer", "over"},
                          key : Keys, at : Processes, weight : Weights,
                          allowed : BOOLEAN]]
  /\ faults \in 0..MaxFaults
  /\ unbounded \subseteq Keys

Init ==
  /\ mode \in [strict : BOOLEAN, locking : BOOLEAN, spanning : BOOLEAN]
  /\ redis = [k \in Keys |-> [count |-> 0, expires |-> FALSE]]
  /\ lock = {}
  /\ local = [p \in Processes |-> [k \in Keys |-> Ended]]
  /\ calls \in [Calls -> [pc : {"new"}, key : {"region"}, at : Processes,
                          weight : Weights, allowed : {TRUE}]]
  /\ faults = 0 /\ unbounded = {}

-----------------------------------------------------------------------------
(* A call of checkAndIncrementLocal for the key the call c is at.           *)

\* The call's weight there: the global limiter is not told it (line 117).
Delta(c) == IF calls[c].key = "region" THEN calls[c].weight ELSE 1

\* One key has allowed the call or not: it goes on to the next, or returns.
Answered(c, allowed) ==
  calls' = [calls EXCEPT
    ![c].pc = IF calls[c].key = "region" /\ mode.spanning THEN "new" ELSE "over",
    ![c].key = IF mode.spanning THEN "global" ELSE "region",
    ![c].allowed = calls[c].allowed /\ allowed]

\* The process's own count with this call, which it grants or not.
Mirrored(c, allowed) ==
  local' = [local EXCEPT ![calls[c].at][calls[c].key] =
    [count   |-> local[calls[c].at][calls[c].key].count + Delta(c),
     granted |-> local[calls[c].at][calls[c].key].granted + (IF allowed THEN Delta(c) ELSE 0)]]

Goes(c, pc) == calls' = [calls EXCEPT ![c].pc = pc]

\* acquireWindowLock: the lock lasts for the window, and nobody releases it.
TakeLock(c) ==
  /\ calls[c].pc = "new" /\ mode.locking
  /\ IF calls[c].key \in lock
     THEN Answered(c, FALSE) /\ UNCHANGED lock
     ELSE lock' = lock \cup {calls[c].key} /\ Goes(c, "incr")
  /\ UNCHANGED <<mode, redis, local, faults, unbounded>>

\* A lock that cannot be taken counts as taken.
LockFails(c) ==
  /\ calls[c].pc = "new" /\ mode.locking
  /\ faults < MaxFaults /\ faults' = faults + 1
  /\ Goes(c, "incr")
  /\ UNCHANGED <<mode, redis, lock, local, unbounded>>

\* The next thing the call sends is its increment.
Increments(c) == calls[c].pc = IF mode.locking THEN "incr" ELSE "new"

\* What INCR or INCRBY returns.
Counted(c) == redis[calls[c].key].count + Delta(c)

\* Fault: the expiry is left to the second call.
NeedsExpirySecond(count) == count = 2

NeedsExpiry(count) == count = 1

\* The first increment of a window asks for its expiry, if it counts for one.
Increment(c) ==
  LET k == calls[c].key
      count == Counted(c)
  IN  /\ Increments(c)
      /\ redis' = [redis EXCEPT ![k].count = redis[k].count + Delta(c)]
      /\ unbounded' = IF redis[k].count = 0 /\ Delta(c) > 1 THEN unbounded \cup {k} ELSE unbounded
      /\ calls' = [calls EXCEPT ![c].pc = IF NeedsExpiry(count) THEN "expire" ELSE "answer",
                                ![c].allowed = calls[c].allowed /\ count <= Limits[k]]
      /\ UNCHANGED <<mode, lock, local, faults>>

SetExpiry(c) ==
  /\ calls[c].pc = "expire"
  /\ redis' = [redis EXCEPT ![calls[c].key].expires = redis[calls[c].key].count > 0]
  /\ Goes(c, "answer")
  /\ UNCHANGED <<mode, lock, local, faults, unbounded>>

\* Redis has answered.
Return(c) ==
  /\ calls[c].pc = "answer"
  /\ Mirrored(c, calls[c].allowed) /\ Answered(c, calls[c].allowed)
  /\ UNCHANGED <<mode, redis, lock, faults, unbounded>>

\* Fault: the process grants whatever Redis cannot refuse.
GrantedFreely(c) == TRUE

\* Without Redis the process goes by its own count.
GrantedAlone(c) ==
  local[calls[c].at][calls[c].key].count + Delta(c) <= Limits[calls[c].key]

\* INCR or PEXPIRE throws; the increment may have been made.
RedisFails(c) ==
  LET k == calls[c].key
      allowed == ~mode.strict /\ GrantedAlone(c)
  IN  /\ faults < MaxFaults /\ faults' = faults + 1
      /\ \/ Increments(c) /\ UNCHANGED <<redis, unbounded>>
         \/ /\ Increments(c)
            /\ redis' = [redis EXCEPT ![k].count = redis[k].count + Delta(c)]
            /\ unbounded' = IF redis[k].count = 0 THEN unbounded \cup {k} ELSE unbounded
         \/ calls[c].pc = "expire" /\ unbounded' = unbounded \cup {k} /\ UNCHANGED redis
      /\ IF mode.strict THEN UNCHANGED local ELSE Mirrored(c, allowed)
      /\ Answered(c, allowed)
      /\ UNCHANGED <<mode, lock>>

-----------------------------------------------------------------------------
\* Redis drops a key whose expiry has come, and the lock of a window.
WindowEnds(k) ==
  /\ redis[k].expires
  /\ redis' = [redis EXCEPT ![k] = [count |-> 0, expires |-> FALSE]]
  /\ UNCHANGED <<mode, lock, local, calls, faults, unbounded>>

LockEnds(k) ==
  /\ k \in lock /\ lock' = lock \ {k}
  /\ UNCHANGED <<mode, redis, local, calls, faults, unbounded>>

\* The window of a process's own count is over.
LocalWindowEnds(p, k) ==
  /\ local[p][k].count > 0
  /\ local' = [local EXCEPT ![p][k] = Ended]
  /\ UNCHANGED <<mode, redis, lock, calls, faults, unbounded>>

Check(c) ==
  \/ TakeLock(c) \/ LockFails(c) \/ Increment(c) \/ SetExpiry(c) \/ Return(c) \/ RedisFails(c)

Next ==
  \/ \E c \in Calls : Check(c)
  \/ \E k \in Keys : WindowEnds(k) \/ LockEnds(k)
  \/ \E p \in Processes, k \in Keys : LocalWindowEnds(p, k)

Spec == Init /\ [][Next]_vars

\* PEXPIRE is answered or throws, and a key with an expiry expires.
Fairness ==
  /\ \A c \in Calls : WF_vars(SetExpiry(c))
  /\ \A k \in Keys : WF_vars(WindowEnds(k))

FairSpec == Spec /\ Fairness

-----------------------------------------------------------------------------
(* A proxy that grants a call without Redis has granted, with and without   *)
(* it, no more than the limit in the window of its own count.               *)
FallbackGrantsInLimit ==
  \A c \in Calls :
    LET was == local[calls[c].at][calls[c].key]
        is  == local'[calls[c].at][calls[c].key]
    IN  RedisFails(c) /\ is.granted > was.granted => is.granted <= Limits[calls[c].key]
FallbackWithinLimit == [][FallbackGrantsInLimit]_vars

(* A count that was begun by a call of weight one, and whose PEXPIRE has    *)
(* come through, ends: no interleaving leaves a key that refuses for ever.  *)
NothingBounded == \A k \in Keys : redis[k].count = 0 \/ k \in unbounded
BoundedWindowEnds == []<>NothingBounded

(* "per minute" (policy/strategies/token-budget-strategy-legacy.ts:44): the *)
(* window of every count ends, whatever the calls weigh.                    *)
CounterEnds == []<>(\A k \in Keys : redis[k].count = 0)
=============================================================================
