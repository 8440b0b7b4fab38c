-------------------------- MODULE AgentGatewayProofs --------------------------
(***************************************************************************)
(* The process of the agent gateway implements the specification of its    *)
(* streams, whatever its hot state and its shutdown do, so what is proved  *)
(* in ExtProcStreamProofs holds of the whole process.  Its hot state keeps *)
(* the order of the writes, whatever starts a drain.                       *)
(***************************************************************************)
EXTENDS AgentGateway, QueueLemmas

Proved == INSTANCE ExtProcStreamProofs

-----------------------------------------------------------------------------
(* Every step of the process is a step of the streams, or leaves them alone.*)

LEMMA StepOfStreams == [Next]_vars => [Ext!Next]_(Ext!vars)
<1> SUFFICES ASSUME [Next]_vars PROVE Ext!Next \/ UNCHANGED Ext!vars
  OBVIOUS
<1>1. ASSUME NEW s \in Streams, Serve(s) PROVE Ext!Next
  BY <1>1 DEF Serve, Ext!Next
<1>2. ASSUME NEW s \in Streams, Evaluate(s) PROVE UNCHANGED Ext!vars
  BY <1>2 DEF Evaluate, streamVars, Ext!vars
<1>3. CASE Write
  BY <1>3 DEF Write, streamVars, Ext!vars
<1>4. CASE Signal \/ GraceExpires
  BY <1>4 DEF Signal, GraceExpires, Ext!Next
<1>5. CASE Drained
  BY <1>5 DEF Drained, streamVars, Ext!vars
<1>6. CASE UNCHANGED vars
  BY <1>6 DEF vars, streamVars, Ext!vars
<1> QED BY <1>1, <1>2, <1>3, <1>4, <1>5, <1>6 DEF Next

(* The process implements its streams (index.ts:312, server.ts:561): only   *)
(* their handlers and the two destructions of a shutdown change them.       *)
THEOREM GatewayImplementsStreams == Spec => Ext!Spec
<1>1. Init => Ext!Init
  BY DEF Init
<1> QED BY <1>1, StepOfStreams, PTL DEF Spec, Ext!Spec

-----------------------------------------------------------------------------
(* The streams here are those that the proofs are about.                    *)

LEMMA SameInit == Ext!Init => Proved!Init
  BY DEF Ext!Init, Proved!Init, Ext!Unopened, Proved!Unopened

LEMMA SameEnvoy ==
  ASSUME NEW s \in Streams, Ext!Envoy(s) PROVE Proved!Envoy(s)
<1>1. CASE Ext!Open(s)
  BY <1>1 DEF Ext!Open, Proved!Open, Proved!Envoy
<1>2. CASE Ext!HalfClose(s)
  BY <1>2 DEF Ext!HalfClose, Proved!HalfClose, Ext!Live, Proved!Live, Proved!Envoy
<1>3. CASE Ext!Abort(s)
  BY <1>3 DEF Ext!Abort, Proved!Abort, Ext!Live, Proved!Live, Ext!Destroyed, Proved!Destroyed, Proved!Envoy
<1>4. ASSUME NEW m \in Ext!Messages, Ext!Send(s, m) PROVE Proved!Envoy(s)
  <2>1. Proved!Send(s, m)
    BY <1>4 DEF Ext!Send, Proved!Send, Ext!Live, Proved!Live, Ext!Sends, Proved!Sends, Ext!SentAfter, Proved!SentAfter
  <2>2. m \in Proved!Messages
    BY DEF Ext!Messages, Proved!Messages, Ext!RequestParts, Proved!RequestParts
  <2> QED BY <2>1, <2>2 DEF Proved!Envoy
<1> QED BY <1>1, <1>2, <1>3, <1>4 DEF Ext!Envoy

LEMMA SameHandle ==
  ASSUME NEW s \in Streams, Ext!Handle(s) PROVE Proved!Handle(s)
<1> USE DEF Ext!Turn, Proved!Turn, Ext!Taken, Proved!Taken, Ext!Begun, Proved!Begun
<1>1. CASE Ext!SkipTerminated(s)
  BY <1>1 DEF Ext!SkipTerminated, Proved!SkipTerminated, Proved!Handle
<1>2. CASE Ext!HandleRequestHeaders(s)
  BY <1>2 DEF Ext!HandleRequestHeaders, Proved!HandleRequestHeaders, Proved!Handle
<1>3. CASE Ext!HandleHeadersOnly(s)
  BY <1>3 DEF Ext!HandleHeadersOnly, Proved!HandleHeadersOnly, Ext!Write, Proved!Write, Ext!Destroyed, Proved!Destroyed, Proved!Handle
<1>4. CASE Ext!HandleChunk(s)
  BY <1>4 DEF Ext!HandleChunk, Proved!HandleChunk, Proved!Handle
<1>5. CASE Ext!HandleBigChunk(s)
  BY <1>5 DEF Ext!HandleBigChunk, Proved!HandleBigChunk, Ext!Deny, Proved!Deny, Proved!Handle
<1>6. CASE Ext!HandleBodyEnd(s)
  BY <1>6 DEF Ext!HandleBodyEnd, Proved!HandleBodyEnd, Proved!Handle
<1>7. CASE Ext!HandleLateTrailers(s)
  BY <1>7 DEF Ext!HandleLateTrailers, Proved!HandleLateTrailers, Ext!Write, Proved!Write, Ext!Destroyed, Proved!Destroyed, Proved!Handle
<1>8. CASE Ext!HandleResponse(s)
  BY <1>8 DEF Ext!HandleResponse, Proved!HandleResponse, Ext!Write, Proved!Write, Ext!Destroyed, Proved!Destroyed, Proved!Handle
<1>9. CASE Ext!HandleEnd(s)
  BY <1>9 DEF Ext!HandleEnd, Proved!HandleEnd, Ext!Deny, Proved!Deny, Proved!Handle
<1> QED BY <1>1, <1>2, <1>3, <1>4, <1>5, <1>6, <1>7, <1>8, <1>9 DEF Ext!Handle

LEMMA SameDecide ==
  ASSUME NEW s \in Streams, Ext!Decide(s) PROVE Proved!Decide(s)
<1>1. CASE Ext!Allow(s)
  BY <1>1 DEF Ext!Allow, Proved!Allow, Ext!Write, Proved!Write, Ext!Destroyed, Proved!Destroyed, Proved!Decide
<1>2. CASE Ext!Refuse(s)
  BY <1>2 DEF Ext!Refuse, Proved!Refuse, Ext!Deny, Proved!Deny, Proved!Decide
<1>3. CASE Ext!TimeOut(s)
  BY <1>3 DEF Ext!TimeOut, Proved!TimeOut, Ext!Deny, Proved!Deny, Proved!Decide
<1> QED BY <1>1, <1>2, <1>3 DEF Ext!Decide

LEMMA SameStep == [Ext!Next]_(Ext!vars) => [Proved!Next]_(Proved!vars)
<1>1. CASE Ext!DestroyUndecidedCalls
  BY <1>1 DEF Ext!DestroyUndecidedCalls, Proved!DestroyUndecidedCalls, Ext!Destroyed, Proved!Destroyed, Proved!Next
<1>2. CASE UNCHANGED Ext!vars
  BY <1>2 DEF Ext!vars, Proved!vars
<1>3. CASE \E s \in Streams : Ext!Envoy(s) \/ Ext!Handle(s) \/ Ext!Decide(s)
  BY <1>3, SameEnvoy, SameHandle, SameDecide DEF Proved!Next
<1> QED BY <1>1, <1>2, <1>3 DEF Ext!Next

LEMMA StreamsAreProved == Spec => Proved!Spec
<1>1. Init => Ext!Init
  BY DEF Init
<1> QED BY <1>1, SameInit, SameStep, StepOfStreams, PTL DEF Spec, Proved!Spec

(* "A clean close means proceed" (server.ts:36): in the whole process no    *)
(* stream is closed so before its request was allowed and handled, through  *)
(* a shutdown, its grace period and writes of the hot state.                *)
THEOREM CleanClosesAreDecidedInProcess == Spec => []CleanCloseIsDecided
<1>1. Proved!CleanCloseIsDecided => CleanCloseIsDecided
  BY DEF CleanCloseIsDecided, Proved!CleanCloseIsDecided, Ext!CleanCloseIsDecided
<1> QED BY <1>1, StreamsAreProved, Proved!CleanClosesAreDecided, PTL

(* What the process destroys at a signal and at the end of the grace period *)
(* (server.ts:561): the open calls without a verdict, and bodiless ones.    *)
THEOREM ShutdownFindsTheUndecidedInProcess == Spec => []ShutdownFindsUndecided
<1>1. Proved!ShutdownFindsUndecided => ShutdownFindsUndecided
  BY DEF ShutdownFindsUndecided, Proved!ShutdownFindsUndecided, Ext!ShutdownFindsUndecided,
         Ext!Live, Proved!Live
<1> QED BY <1>1, StreamsAreProved, Proved!ShutdownFindsTheUndecided, PTL

-----------------------------------------------------------------------------
(* The hot state: its inductive invariant and its steps.                    *)

\* Of two writes of a row in a queue, the later one is newer, unless it is
\* tried again.
Ascending(q) ==
  \A i, j \in DOMAIN q :
    i < j /\ q[j].attempts = 0 /\ q[i].row = q[j].row => q[i].version < q[j].version

\* The writes of a queue, behind those of U, over the rows d of the database:
\* w counts the writes of each row.
Ordered(U, q, d, w) ==
  /\ \A e \in U \cup Elements(q) :
       e.version <= w[e.row] /\ (e.attempts = 0 => d[e.row] < e.version)
  /\ \A u \in U, e \in Elements(q) :
       e.attempts = 0 /\ u.row = e.row => u.version < e.version
  /\ Ascending(q)

\* A queue keeps its order, and so does what is left of it.

LEMMA AscendingTail ==
  ASSUME NEW q \in Seq(Hot!Items), q # << >>, Ascending(q)
  PROVE  /\ Ascending(Tail(q))
         /\ \A e \in Elements(Tail(q)) :
              e.attempts = 0 /\ Head(q).row = e.row => Head(q).version < e.version
<1>1. /\ Head(q) = q[1] /\ DOMAIN Tail(q) = 1..(Len(q) - 1)
      /\ \A i \in DOMAIN Tail(q) : i + 1 \in DOMAIN q /\ Tail(q)[i] = q[i + 1]
  BY TailElements
<1>2. Len(q) \in Nat /\ Len(q) # 0 /\ DOMAIN q = 1..Len(q)
  BY LenProperties, EmptySeq
<1> DEFINE t == Tail(q)
<1> HIDE DEF t
<1>3. \A i, j \in DOMAIN t : i < j => i + 1 < j + 1 /\ i + 1 \in DOMAIN q /\ j + 1 \in DOMAIN q
  BY <1>1, <1>2 DEF t
<1>4. Ascending(t)
  BY <1>1, <1>3 DEF Ascending, t
<1>5. \A j \in DOMAIN t : 1 \in DOMAIN q /\ 1 < j + 1 /\ j + 1 \in DOMAIN q /\ t[j] = q[j + 1]
  BY <1>1, <1>2 DEF t
<1>6. \A j \in DOMAIN t :
        t[j].attempts = 0 /\ Head(q).row = t[j].row => Head(q).version < t[j].version
  BY <1>1, <1>5 DEF Ascending
<1> QED BY <1>4, <1>6 DEF Elements, t

LEMMA AscendingAppend ==
  ASSUME NEW q \in Seq(Hot!Items), NEW e \in Hot!Items, Ascending(q),
         e.attempts = 0 => \A f \in Elements(q) : f.row = e.row => f.version < e.version
  PROVE  Ascending(Append(q, e))
<1> DEFINE t == Append(q, e)
<1>1. Len(q) \in Nat /\ DOMAIN q = 1..Len(q)
  BY LenProperties
<1>2. /\ t \in Seq(Hot!Items) /\ Len(t) = Len(q) + 1 /\ t[Len(q) + 1] = e
      /\ \A i \in 1..Len(q) : t[i] = q[i]
  BY AppendProperties
<1>3. DOMAIN t = 1..(Len(q) + 1)
  BY <1>2, LenProperties
<1> HIDE DEF t
<1>4. \A i, j \in DOMAIN t : i < j => i \in DOMAIN q /\ (j \in DOMAIN q \/ j = Len(q) + 1)
  BY <1>1, <1>3
<1>5. \A i \in DOMAIN q : q[i] \in Elements(q)
  BY DEF Elements
<1>6. Ascending(t)
  <2> SUFFICES ASSUME NEW i \in DOMAIN t, NEW j \in DOMAIN t, i < j,
                      t[j].attempts = 0, t[i].row = t[j].row
               PROVE  t[i].version < t[j].version
    BY DEF Ascending
  <2>1. i \in DOMAIN q /\ t[i] = q[i]
    BY <1>1, <1>2, <1>4
  <2>2. CASE j \in DOMAIN q
    <3>1. t[j] = q[j]
      BY <1>1, <1>2, <2>2
    <3> QED BY <2>1, <2>2, <3>1 DEF Ascending
  <2>3. CASE j = Len(q) + 1
    BY <1>2, <1>5, <2>1, <2>3
  <2> QED BY <1>4, <2>2, <2>3
<1> QED BY <1>6 DEF t

LEMMA AscendingLater ==
  ASSUME NEW q \in Seq(Hot!Items), NEW n \in 0..Len(q), Ascending(q)
  PROVE  Ascending(SubSeq(q, n + 1, Len(q)))
<1> DEFINE b == SubSeq(q, n + 1, Len(q))
<1>1. DOMAIN b = 1..(Len(q) - n) /\ \A i \in 1..(Len(q) - n) : b[i] = q[n + i]
  BY Split
<1> HIDE DEF b
<1>2. Len(q) \in Nat /\ DOMAIN q = 1..Len(q)
  BY LenProperties
<1>3. \A i, j \in 1..(Len(q) - n) : n + i \in 1..Len(q) /\ (i < j => n + i < n + j)
  BY <1>2
<1>4. Ascending(b)
  <2> SUFFICES ASSUME NEW i \in 1..(Len(q) - n), NEW j \in 1..(Len(q) - n),
                      i < j, b[j].attempts = 0, b[i].row = b[j].row
               PROVE  b[i].version < b[j].version
    BY <1>1 DEF Ascending
  <2>1. b[i] = q[n + i] /\ b[j] = q[n + j]
    BY <1>1
  <2>2. n + i \in DOMAIN q /\ n + j \in DOMAIN q /\ n + i < n + j
    BY <1>2, <1>3
  <2> QED BY <2>1, <2>2 DEF Ascending
<1> QED BY <1>4 DEF b

-----------------------------------------------------------------------------
(* What becomes of the order when a write is taken, stored, tried again,    *)
(* enqueued or dropped.                                                     *)

LEMMA TakenInOrder ==
  ASSUME NEW q \in Seq(Hot!Items), q # << >>, NEW d, NEW w, Ordered({}, q, d, w)
  PROVE  Ordered({Head(q)}, Tail(q), d, w)
<1>1. Elements(q) = {Head(q)} \cup Elements(Tail(q))
  BY TailElements
<1>2. /\ Ascending(Tail(q))
      /\ \A e \in Elements(Tail(q)) :
           e.attempts = 0 /\ Head(q).row = e.row => Head(q).version < e.version
  BY AscendingTail DEF Ordered
<1> QED BY <1>1, <1>2 DEF Ordered

LEMMA StoredInOrder ==
  ASSUME NEW q \in Seq(Hot!Items), NEW u \in Hot!Items, NEW d \in [Rows -> Hot!Versions], NEW w,
         Ordered({u}, q, d, w)
  PROVE  Ordered({}, q, d, w) /\ Ordered({}, q, [d EXCEPT ![u.row] = u.version], w)
<1> DEFINE f == [d EXCEPT ![u.row] = u.version]
<1>1. \A e \in Elements(q) : e \in Hot!Items
  BY ElementOfSeq, LenProperties DEF Elements
<1>2. u.row \in Rows /\ \A e \in Elements(q) : e.row \in Rows
  BY <1>1 DEF Hot!Items
<1>3. \A e \in Elements(q) : e.attempts = 0 => f[e.row] < e.version
  BY <1>2 DEF Ordered
<1> HIDE DEF f
<1>4. Ordered({}, q, d, w) /\ Ordered({}, q, f, w)
  BY <1>3 DEF Ordered
<1> QED BY <1>4 DEF f

LEMMA TriedAgainInOrder ==
  ASSUME NEW q \in Seq(Hot!Items), NEW e \in Hot!Items, NEW d, NEW w, Ordered({}, q, d, w),
         e.attempts # 0, e.version <= w[e.row]
  PROVE  Ordered({}, Append(q, e), d, w)
<1>1. Ascending(Append(q, e))
  BY AscendingAppend DEF Ordered
<1>2. Elements(Append(q, e)) = Elements(q) \cup {e}
  BY AppendElements
<1> QED BY <1>1, <1>2 DEF Ordered

LEMMA EnqueuedInOrder ==
  ASSUME NEW U \in SUBSET Hot!Items, NEW q \in Seq(Hot!Items), NEW d \in [Rows -> Hot!Versions],
         NEW w \in [Rows -> Hot!Versions], NEW r \in Rows, d[r] <= w[r], w[r] < MaxWrites,
         NEW e \in Hot!Items, e.row = r, e.version = w[r] + 1, e.attempts = 0, Ordered(U, q, d, w)
  PROVE  Ordered(U, Append(q, e), d, [w EXCEPT ![r] = w[r] + 1])
<1> DEFINE x == [w EXCEPT ![r] = w[r] + 1]
<1>1. /\ Elements(Append(q, e)) = Elements(q) \cup {e}
      /\ \A f \in U \cup Elements(q) : f \in Hot!Items
  <2>1. Elements(Append(q, e)) = Elements(q) \cup {e}
    BY AppendElements
  <2>2. \A i \in DOMAIN q : q[i] \in Hot!Items
    BY ElementOfSeq, LenProperties
  <2>3. \A f \in Elements(q) : f \in Hot!Items
    BY <2>2 DEF Elements
  <2> QED BY <2>1, <2>3
<1>2. \A f \in U \cup Elements(q) : f.version \in Int /\ f.row \in Rows /\ f.version <= w[f.row]
  BY <1>1 DEF Hot!Items, Hot!Versions, Ordered
<1>3. /\ w[r] \in Int /\ d[r] \in Int
      /\ \A s \in Rows : w[s] \in Int /\ (x[s] = w[s] \/ x[s] = w[s] + 1)
  BY DEF Hot!Versions
<1>4. \A f \in U \cup Elements(q) : f.version <= x[f.row] /\ (f.row = e.row => f.version < e.version)
  BY <1>2, <1>3
<1>5. e.version <= x[e.row] /\ d[e.row] < e.version
  BY <1>3
<1>6. Ascending(Append(q, e))
  BY <1>4, AscendingAppend DEF Ordered
<1> HIDE DEF x
<1>7. Ordered(U, Append(q, e), d, x)
  BY <1>1, <1>4, <1>5, <1>6 DEF Ordered
<1> QED BY <1>7 DEF x

LEMMA DroppedInOrder ==
  ASSUME NEW U, NEW q \in Seq(Hot!Items), NEW n \in 0..Len(q), NEW d, NEW w, Ordered(U, q, d, w)
  PROVE  Ordered(U, SubSeq(q, n + 1, Len(q)), d, w)
<1>1. Elements(q) = Elements(SubSeq(q, 1, n)) \cup Elements(SubSeq(q, n + 1, Len(q)))
  BY Split
<1>2. Ascending(SubSeq(q, n + 1, Len(q)))
  BY AscendingLater DEF Ordered
<1> QED BY <1>1, <1>2 DEF Ordered

-----------------------------------------------------------------------------
(* The invariant of the hot state.                                          *)

\* Every row is saved in its last version, or that version is among the
\* writes W, and none of those has failed.
OnItsWay(W) ==
  /\ \A r \in Rows : db[r] = written[r] \/ \E e \in W : e.row = r /\ e.version = written[r]
  /\ \A e \in W : e.attempts = 0

HotInv ==
  /\ Hot!TypeOK
  /\ Len(upserts) <= 1
  /\ Ordered(Elements(upserts), queue, db, written)
  /\ \A r \in Rows : db[r] <= written[r]
  /\ failures = 0 /\ dropped = 0 => OnItsWay(Elements(upserts) \cup Elements(queue))
  /\ flushed => alone # "no call"
  /\ flushed /\ alone = "yes" => queue = << >> /\ upserts = << >>

\* The upsert that is awaited.
LEMMA OneUpsert ==
  ASSUME Hot!TypeOK, Len(upserts) <= 1
  PROVE  \/ upserts = << >> /\ Elements(upserts) = {} /\ DOMAIN upserts = {}
         \/ /\ upserts[1] \in Hot!Items /\ upserts = <<upserts[1]>>
            /\ Elements(upserts) = {upserts[1]} /\ DOMAIN upserts = {1}
<1>1. upserts \in Seq(Hot!Items) /\ Len(upserts) \in Nat /\ DOMAIN upserts = 1..Len(upserts)
  BY LenProperties DEF Hot!TypeOK
<1>2. CASE Len(upserts) = 0
  <2>1. upserts = << >>
    BY <1>1, <1>2, EmptySeq
  <2> QED BY <2>1 DEF Elements
<1>3. CASE Len(upserts) = 1
  <2>1. DOMAIN upserts = {1}
    BY <1>1, <1>3
  <2>2. upserts[1] \in Hot!Items
    BY <1>1, <1>3, ElementOfSeq
  <2>3. Elements(upserts) = {upserts[1]}
    BY <2>1 DEF Elements
  <2>4. upserts = <<upserts[1]>>
    BY <1>1, <1>3
  <2> QED BY <2>1, <2>2, <2>3, <2>4
<1> QED BY <1>1, <1>2, <1>3

LEMMA SingleUpsert ==
  ASSUME NEW e \in Hot!Items
  PROVE  <<e>> \in Seq(Hot!Items) /\ Len(<<e>>) = 1 /\ Elements(<<e>>) = {e} /\ <<e>> # << >>
<1>1. <<e>> \in Seq(Hot!Items) /\ Len(<<e>>) = 1 /\ <<e>> # << >>
  OBVIOUS
<1>2. DOMAIN <<e>> = {1} /\ <<e>>[1] = e
  OBVIOUS
<1> QED BY <1>1, <1>2 DEF Elements

\* The writes that are awaited and queued after the loop has gone on with q.
LEMMA ContinueEffect ==
  ASSUME Hot!TypeOK, Len(upserts) <= 1, NEW i \in DOMAIN upserts, NEW q \in Seq(Hot!Items),
         Hot!Continue(i, q)
  PROVE  \/ q = << >> /\ upserts' = << >> /\ queue' = << >> /\ flushed' = (alone # "no call")
         \/ q # << >> /\ upserts' = <<Head(q)>> /\ queue' = Tail(q) /\ flushed' = flushed
<1>1. i = 1 /\ upserts = <<upserts[1]>> /\ upserts[1] \in Hot!Items
  BY OneUpsert
<1>2. CASE q = << >>
  <2>1. Hot!RemoveAt(upserts, i) = << >>
    BY <1>1 DEF Hot!RemoveAt
  <2> QED BY <1>2, <2>1 DEF Hot!Continue
<1>3. CASE q # << >>
  <2>1. upserts' = [upserts EXCEPT ![1] = Head(q)]
    BY <1>1, <1>3 DEF Hot!Continue
  <2>2. upserts' = <<Head(q)>>
    <3> DEFINE h == Head(q)
               u == upserts[1]
    <3>1. upserts' = [<<u>> EXCEPT ![1] = h]
      BY <1>1, <2>1
    <3> HIDE DEF h, u
    <3> QED BY <3>1 DEF h
  <2> QED BY <1>3, <2>2 DEF Hot!Continue
<1> QED BY <1>2, <1>3

\* What is counted are numbers.
LEMMA HotNumbers ==
  ASSUME HotInv
  PROVE  /\ Hot!TypeOK /\ failures \in Nat /\ dropped \in Nat
         /\ \A r \in Rows : db[r] \in Int /\ written[r] \in Int
<1>1. Hot!TypeOK
  BY DEF HotInv
<1>2. failures \in Nat /\ dropped \in Nat
  <2>1. failures \in 0..MaxFailures /\ dropped \in Nat
    BY <1>1 DEF Hot!TypeOK
  <2> QED BY <2>1, GatewayAssumption
<1>3. \A r \in Rows : db[r] \in Int /\ written[r] \in Int
  <2>1. db \in [Rows -> Hot!Versions] /\ written \in [Rows -> Hot!Versions]
    BY <1>1 DEF Hot!TypeOK
  <2> QED BY <2>1, GatewayAssumption DEF Hot!Versions
<1> QED BY <1>1, <1>2, <1>3

LEMMA GoesOn ==
  ASSUME HotInv, NEW i \in DOMAIN upserts, NEW q \in Seq(Hot!Items), NEW d, Hot!Continue(i, q),
         Ordered({}, q, d, written)
  PROVE  /\ upserts' \in Seq(Hot!Items) /\ queue' \in Seq(Hot!Items) /\ Len(upserts') <= 1
         /\ Ordered(Elements(upserts'), queue', d, written)
         /\ Elements(upserts') \cup Elements(queue') = Elements(q)
         /\ \/ flushed' = flushed
            \/ flushed' = (alone # "no call") /\ upserts' = << >> /\ queue' = << >>
<1>1. CASE q = << >> /\ upserts' = << >> /\ queue' = << >> /\ flushed' = (alone # "no call")
  <2>1. Elements(<< >>) = {} /\ << >> \in Seq(Hot!Items) /\ Len(<< >>) = 0
    BY EmptySeq DEF Elements
  <2>2. Ordered({}, << >>, d, written)
    BY <1>1
  <2> DEFINE e == << >>
  <2> HIDE DEF e
  <2>3. q = e /\ upserts' = e /\ queue' = e
    BY <1>1 DEF e
  <2>4. Elements(e) = {} /\ e \in Seq(Hot!Items) /\ Len(e) <= 1 /\ Ordered({}, e, d, written)
    BY <2>1, <2>2 DEF e
  <2> QED BY <1>1, <2>3, <2>4
<1>2. CASE q # << >> /\ upserts' = <<Head(q)>> /\ queue' = Tail(q) /\ flushed' = flushed
  <2>1. /\ Head(q) \in Hot!Items /\ Tail(q) \in Seq(Hot!Items)
        /\ Elements(q) = {Head(q)} \cup Elements(Tail(q))
    BY <1>2, TailElements
  <2>2. Ordered({Head(q)}, Tail(q), d, written)
    BY <1>2, TakenInOrder
  <2> DEFINE h == Head(q)
             t == Tail(q)
  <2> HIDE DEF h, t
  <2>3. <<h>> \in Seq(Hot!Items) /\ Len(<<h>>) = 1 /\ Elements(<<h>>) = {h}
    BY <2>1, SingleUpsert DEF h
  <2>4. upserts' = <<h>> /\ queue' = t /\ Ordered({h}, t, d, written) /\ t \in Seq(Hot!Items)
        /\ Elements(q) = {h} \cup Elements(t)
    BY <1>2, <2>1, <2>2 DEF h, t
  <2> DEFINE s == <<h>>
  <2>5. s \in Seq(Hot!Items) /\ Len(s) <= 1 /\ Elements(s) = {h} /\ upserts' = s
    BY <2>3, <2>4
  <2> HIDE DEF s
  <2>6. Elements(upserts') \cup Elements(queue') = Elements(q) /\ flushed' = flushed
    BY <1>2, <2>4, <2>5
  <2> QED BY <2>4, <2>5, <2>6
<1>3. Hot!TypeOK /\ Len(upserts) <= 1
  BY DEF HotInv
<1> QED BY <1>1, <1>2, <1>3, ContinueEffect

LEMMA Drains ==
  ASSUME HotInv, Hot!Drain
  PROVE  /\ upserts' \in Seq(Hot!Items) /\ queue' \in Seq(Hot!Items) /\ Len(upserts') <= 1
         /\ Ordered(Elements(upserts'), queue', db, written)
         /\ Elements(upserts') \cup Elements(queue') = Elements(upserts) \cup Elements(queue)
         /\ Hot!draining \/ queue = << >> => upserts' = upserts /\ queue' = queue
<1>1. /\ Hot!TypeOK /\ Len(upserts) <= 1 /\ Ordered(Elements(upserts), queue, db, written)
      /\ upserts \in Seq(Hot!Items) /\ queue \in Seq(Hot!Items)
  BY DEF HotInv, Hot!TypeOK
<1>2. CASE Hot!draining \/ queue = << >>
  <2>1. upserts' = upserts /\ queue' = queue
    BY <1>2 DEF Hot!Drain
  <2> QED BY <1>1, <2>1
<1>3. CASE ~(Hot!draining \/ queue = << >>)
  <2>1. /\ upserts = << >> /\ queue # << >> /\ upserts' = Append(upserts, Head(queue))
        /\ queue' = Tail(queue)
    BY <1>3 DEF Hot!Drain, Hot!draining
  <2>2. Elements(upserts) = {}
    BY <1>1, <2>1, OneUpsert
  <2>3. /\ Head(queue) \in Hot!Items /\ Tail(queue) \in Seq(Hot!Items)
        /\ Elements(queue) = {Head(queue)} \cup Elements(Tail(queue))
    BY <1>1, <2>1, TailElements
  <2>4. Ordered({Head(queue)}, Tail(queue), db, written)
    BY <1>1, <2>1, <2>2, TakenInOrder
  <2>5. upserts' = <<Head(queue)>>
    BY <2>1
  <2> DEFINE h == Head(queue)
             t == Tail(queue)
  <2> HIDE DEF h, t
  <2>6. <<h>> \in Seq(Hot!Items) /\ Len(<<h>>) = 1 /\ Elements(<<h>>) = {h}
    BY <2>3, SingleUpsert DEF h
  <2>7. upserts' = <<h>> /\ queue' = t /\ Ordered({h}, t, db, written) /\ t \in Seq(Hot!Items)
        /\ Elements(queue) = {h} \cup Elements(t)
    BY <2>1, <2>3, <2>4, <2>5 DEF h, t
  <2>8. Elements(upserts) \cup Elements(queue) = {h} \cup Elements(t)
    BY <2>2, <2>7
  <2> DEFINE s == <<h>>
  <2>9. s \in Seq(Hot!Items) /\ Len(s) <= 1 /\ Elements(s) = {h} /\ upserts' = s
    BY <2>6, <2>7
  <2> HIDE DEF s
  <2> QED BY <1>3, <2>7, <2>8, <2>9
<1> QED BY <1>2, <1>3

\* An upsert is stored, or fails; the loop goes on.
LEMMA UpsertsKeep ==
  ASSUME HotInv, ~flushed, NEW i \in DOMAIN upserts, Hot!Persist(i) \/ Hot!PersistFails(i)
  PROVE  HotInv'
<1>0. /\ Hot!TypeOK /\ Len(upserts) <= 1 /\ Ordered(Elements(upserts), queue, db, written)
      /\ \A r \in Rows : db[r] <= written[r]
      /\ queue \in Seq(Hot!Items) /\ db \in [Rows -> Hot!Versions]
      /\ written \in [Rows -> Hot!Versions]
      /\ failures \in 0..MaxFailures /\ dropped \in Nat
      /\ UNCHANGED <<maps, drainTimer, loads, refreshing, written, alone>>
  BY DEF HotInv, Hot!TypeOK, Hot!Persist, Hot!PersistFails
<1> DEFINE u == upserts[1]
<1>1. u \in Hot!Items /\ i = 1 /\ Elements(upserts) = {u} /\ upserts[i] = u
  BY <1>0, OneUpsert
<1> HIDE DEF u
<1>2. u.row \in Rows /\ u.version \in Hot!Versions /\ u.attempts \in 0..MaxAttempts - 1
  BY <1>1 DEF Hot!Items
<1>3. /\ u.version <= written[u.row]
      /\ \A f \in {db, [db EXCEPT ![u.row] = u.version]} : Ordered({}, queue, f, written)
  <2>1. Ordered({u}, queue, db, written)
    BY <1>0, <1>1
  <2>2. u.version <= written[u.row]
    BY <2>1 DEF Ordered
  <2>3. /\ Ordered({}, queue, db, written)
        /\ Ordered({}, queue, [db EXCEPT ![u.row] = u.version], written)
    BY <1>0, <1>1, <2>1, StoredInOrder
  <2> QED BY <2>2, <2>3
<1>4. /\ db' \in {db, [db EXCEPT ![u.row] = u.version]}
      /\ Hot!Persist(i) => db' = [db EXCEPT ![u.row] = u.version]
  BY <1>1 DEF Hot!Persist, Hot!PersistFails, Hot!Stored
<1>5. db' \in [Rows -> Hot!Versions] /\ \A r \in Rows : db'[r] <= written[r]
  BY <1>0, <1>2, <1>3, <1>4
<1> DEFINE again == [u EXCEPT !.attempts = u.attempts + 1]
<1>6. PICK q \in Seq(Hot!Items) :
        /\ Hot!Continue(i, q) /\ Ordered({}, q, db', written)
        /\ \/ Hot!Persist(i) /\ q = queue /\ dropped' = dropped /\ failures' = failures
           \/ dropped' \in {dropped, dropped + 1} /\ failures' = failures + 1 /\ failures < MaxFailures
  <2>1. CASE Hot!Persist(i)
    BY <1>0, <1>3, <1>4, <2>1 DEF Hot!Persist
  <2>2. CASE Hot!PersistFails(i)
    <3>1. /\ failures < MaxFailures /\ failures' = failures + 1
          /\ IF again.attempts < MaxAttempts
             THEN Hot!Continue(i, Append(queue, again)) /\ UNCHANGED dropped
             ELSE Hot!Continue(i, queue) /\ dropped' = dropped + 1
      BY <1>1, <2>2 DEF Hot!PersistFails
    <3>2. CASE again.attempts < MaxAttempts
      <4>1. u.attempts + 1 \in 0..MaxAttempts - 1 /\ u.attempts + 1 # 0
        <5>1. again.attempts = u.attempts + 1
          BY <1>1 DEF Hot!Items
        <5> QED BY <1>2, <3>2, <5>1, GatewayAssumption
      <4>2. /\ again \in Hot!Items /\ again.attempts # 0 /\ again.row = u.row
            /\ again.version = u.version
        BY <1>1, <4>1 DEF Hot!Items
      <4> HIDE DEF again
      <4>3. Append(queue, again) \in Seq(Hot!Items)
        BY <1>0, <4>2, AppendProperties
      <4>4. Ordered({}, queue, db', written) /\ again.version <= written[again.row]
        BY <1>3, <1>4, <4>2
      <4>5. Ordered({}, Append(queue, again), db', written)
        BY <1>0, <4>2, <4>4, TriedAgainInOrder
      <4> QED BY <3>1, <3>2, <4>3, <4>5
    <3>3. CASE ~(again.attempts < MaxAttempts)
      BY <1>0, <1>3, <1>4, <3>1, <3>3
    <3> QED BY <3>2, <3>3
  <2> QED BY <2>1, <2>2
<1>7. /\ upserts' \in Seq(Hot!Items) /\ queue' \in Seq(Hot!Items) /\ Len(upserts') <= 1
      /\ Ordered(Elements(upserts'), queue', db', written)
      /\ Elements(upserts') \cup Elements(queue') = Elements(q)
      /\ \/ flushed' = flushed
         \/ flushed' = (alone # "no call") /\ upserts' = << >> /\ queue' = << >>
  BY <1>6, GoesOn
<1>8. flushed' \in BOOLEAN
  BY <1>0, <1>7, Zenon DEF Hot!TypeOK
<1>9. Hot!TypeOK'
  <2>1. failures' \in 0..MaxFailures /\ dropped' \in Nat
    BY <1>0, <1>6, GatewayAssumption
  <2> QED BY <1>0, <1>5, <1>7, <1>8, <2>1 DEF Hot!TypeOK
<1>10. /\ flushed' => alone' # "no call"
       /\ flushed' /\ alone' = "yes" => queue' = << >> /\ upserts' = << >>
  <2>1. CASE flushed' = flushed
    BY <2>1, Zenon
  <2>2. CASE flushed' = (alone # "no call") /\ upserts' = << >> /\ queue' = << >>
    <3>1. flushed' => alone # "no call"
      BY <2>2, Zenon
    <3> QED BY <1>0, <2>2, <3>1
  <2> QED BY <1>7, <2>1, <2>2
<1>11. ASSUME failures' = 0, dropped' = 0
       PROVE  OnItsWay(Elements(upserts) \cup Elements(queue))'
  <2>1. Hot!Persist(i) /\ q = queue /\ failures = 0 /\ dropped = 0
    BY <1>0, <1>6, <1>11
  <2>2. OnItsWay(Elements(upserts) \cup Elements(queue))
    BY <2>1 DEF HotInv
  <2>3. Elements(upserts') \cup Elements(queue') = Elements(queue)
    BY <1>7, <2>1
  <2>4. u.attempts = 0 /\ db[u.row] < u.version /\ \A e \in Elements(queue) : e.attempts = 0
    BY <1>0, <1>1, <2>2 DEF OnItsWay, Ordered
  <2>5. ASSUME NEW r \in Rows
        PROVE  db'[r] = written[r] \/ \E e \in Elements(queue) : e.row = r /\ e.version = written[r]
    <3>1. CASE r = u.row
      <4>1. db'[r] = u.version
        BY <1>0, <1>4, <2>1, <3>1
      <4>2. db[r] # written[r]
        <5>1. db[r] < u.version /\ u.version <= written[r]
          BY <1>3, <2>4, <3>1
        <5>2. db[r] \in Int /\ u.version \in Int /\ written[r] \in Int
          BY <1>0, <1>2 DEF Hot!Versions
        <5> QED BY <5>1, <5>2
      <4>3. PICK e \in {u} \cup Elements(queue) : e.row = r /\ e.version = written[r]
        BY <1>1, <2>2, <4>2 DEF OnItsWay
      <4> QED BY <4>1, <4>3
    <3>2. CASE r # u.row
      <4>1. db'[r] = db[r]
        BY <1>0, <1>4, <3>2
      <4>2. CASE \E e \in {u} \cup Elements(queue) : e.row = r /\ e.version = written[r]
        BY <3>2, <4>2
      <4> QED BY <1>1, <2>2, <4>1, <4>2 DEF OnItsWay
    <3> QED BY <3>1, <3>2
  <2> QED BY <1>0, <2>3, <2>4, <2>5 DEF OnItsWay
<1>12. Ordered(Elements(upserts), queue, db, written)' /\ \A r \in Rows : db'[r] <= written'[r]
  BY <1>0, <1>5, <1>7
<1> QED BY <1>7, <1>9, <1>10, <1>11, <1>12 DEF HotInv

\* What a call of shutdown leaves behind.
ShutdownReturns ==
  /\ flushed' = (flushed \/ Hot!draining \/ queue = << >>)
  /\ alone' = IF alone = "no call" /\ ~Hot!draining THEN "yes" ELSE "no"

\* The database, what was written and what failed stay; a drain may begin.
LEMMA DrainsKeep ==
  ASSUME HotInv, ~flushed, Hot!Drain, UNCHANGED <<db, written, dropped>>,
         failures' \in 0..MaxFailures, failures' >= failures,
         maps' \in [Rows -> Hot!Versions], drainTimer' \in BOOLEAN, refreshing' \in BOOLEAN,
         loads' \in Seq([Rows -> Hot!Versions] \cup {Hot!Unread}),
         UNCHANGED <<flushed, alone>> \/ ShutdownReturns
  PROVE  HotInv'
<1>0. /\ Hot!TypeOK /\ \A r \in Rows : db[r] <= written[r]
      /\ failures \in Nat /\ flushed \in BOOLEAN
  BY HotNumbers DEF HotInv, Hot!TypeOK
<1>1. /\ upserts' \in Seq(Hot!Items) /\ queue' \in Seq(Hot!Items) /\ Len(upserts') <= 1
      /\ Ordered(Elements(upserts'), queue', db, written)
      /\ Elements(upserts') \cup Elements(queue') = Elements(upserts) \cup Elements(queue)
      /\ Hot!draining \/ queue = << >> => upserts' = upserts /\ queue' = queue
  BY Drains
<1>2. /\ flushed' \in BOOLEAN /\ alone' \in {"no call", "yes", "no"}
      /\ flushed' => alone' # "no call"
      /\ flushed' /\ alone' = "yes" => queue' = << >> /\ upserts' = << >>
  <2>1. CASE UNCHANGED <<flushed, alone>>
    BY <1>0, <2>1 DEF Hot!TypeOK
  <2>2. CASE ShutdownReturns
    <3>1. flushed' \in BOOLEAN
      BY <2>2, Zenon DEF ShutdownReturns
    <3>2. alone' \in {"yes", "no"} /\ (alone' = "yes" => ~Hot!draining)
      BY <2>2 DEF ShutdownReturns
    <3>3. flushed' /\ ~Hot!draining => queue = << >> /\ upserts = << >>
      BY <2>2 DEF Hot!draining, ShutdownReturns
    <3> QED BY <1>1, <3>1, <3>2, <3>3
  <2> QED BY <2>1, <2>2
<1>3. Hot!TypeOK'
  BY <1>0, <1>1, <1>2 DEF Hot!TypeOK
<1>4. ASSUME failures' = 0, dropped' = 0
      PROVE  OnItsWay(Elements(upserts) \cup Elements(queue))'
  <2>1. failures = 0 /\ dropped = 0
    <3>1. failures' \in Nat /\ failures' >= failures /\ failures \in Nat
      BY <1>0, GatewayAssumption
    <3> QED BY <1>4, <3>1
  <2>2. OnItsWay(Elements(upserts) \cup Elements(queue))
    BY <2>1 DEF HotInv
  <2> QED BY <1>1, <2>2 DEF OnItsWay
<1>5. Ordered(Elements(upserts), queue, db, written)'
  BY <1>1
<1> QED BY <1>0, <1>1, <1>2, <1>3, <1>4, <1>5 DEF HotInv

\* Nothing but the loads, the timers and the memory changes.
LEMMA NothingWritten ==
  ASSUME HotInv, ~flushed, UNCHANGED <<db, queue, upserts, flushed, dropped, written, alone, failures>>,
         maps' \in [Rows -> Hot!Versions], drainTimer' \in BOOLEAN, refreshing' \in BOOLEAN,
         loads' \in Seq([Rows -> Hot!Versions] \cup {Hot!Unread})
  PROVE  HotInv'
<1>1. Hot!TypeOK'
  BY DEF HotInv, Hot!TypeOK
<1>2. OnItsWay(Elements(upserts) \cup Elements(queue))' = OnItsWay(Elements(upserts) \cup Elements(queue))
  BY DEF OnItsWay
<1> QED BY <1>1, <1>2 DEF HotInv

\* A load leaves the others as they are.
LEMMA LoadTypes ==
  ASSUME Hot!TypeOK, NEW i \in DOMAIN loads
  PROVE  /\ Hot!RemoveAt(loads, i) \in Seq([Rows -> Hot!Versions] \cup {Hot!Unread})
         /\ loads[i] \in [Rows -> Hot!Versions] \cup {Hot!Unread}
         /\ \A x \in [Rows -> Hot!Versions] : [loads EXCEPT ![i] = x] \in Seq([Rows -> Hot!Versions] \cup {Hot!Unread})
<1> DEFINE S == [Rows -> Hot!Versions] \cup {Hot!Unread}
<1>0. [Rows -> Hot!Versions] \subseteq S
  OBVIOUS
<1> HIDE DEF S
<1>1. loads \in Seq(S) /\ Len(loads) \in Nat /\ DOMAIN loads = 1..Len(loads)
  BY LenProperties DEF Hot!TypeOK, S
<1>2. i \in 1..Len(loads) /\ i \in Nat /\ i - 1 \in 0..Len(loads) /\ i \in 0..Len(loads)
  BY <1>1
<1>3. SubSeq(loads, 1, i - 1) \in Seq(S)
  BY <1>1, <1>2, Split
<1>4. SubSeq(loads, i + 1, Len(loads)) \in Seq(S)
  BY <1>1, <1>2, Split
<1>5. Hot!RemoveAt(loads, i) \in Seq(S)
  BY <1>3, <1>4, ConcatProperties DEF Hot!RemoveAt
<1>6. loads[i] \in S
  BY <1>1, <1>2, ElementOfSeq
<1>7. \A x \in S : [loads EXCEPT ![i] = x] \in Seq(S)
  BY <1>1, <1>2, ExceptSeq
<1> QED BY <1>0, <1>5, <1>6, <1>7 DEF S

LEMMA EnqueueHotKeeps ==
  ASSUME HotInv, ~flushed, NEW r \in Rows, Hot!Enqueue(r)
  PROVE  HotInv'
<1> DEFINE item == [row |-> r, version |-> written[r] + 1, attempts |-> 0]
           long == Append(queue, item)
           over == IF Len(long) > MaxQueue THEN Len(long) - MaxQueue ELSE 0
           w == [written EXCEPT ![r] = written[r] + 1]
<1>0. /\ Hot!TypeOK /\ Len(upserts) <= 1 /\ Ordered(Elements(upserts), queue, db, written)
      /\ \A s \in Rows : db[s] <= written[s]
      /\ queue \in Seq(Hot!Items) /\ db \in [Rows -> Hot!Versions]
      /\ written \in [Rows -> Hot!Versions]
      /\ Elements(upserts) \in SUBSET Hot!Items /\ dropped \in Nat
  <2>1. Hot!TypeOK /\ Len(upserts) <= 1
    BY DEF HotInv
  <2>2. Elements(upserts) \in SUBSET Hot!Items
    BY <2>1, OneUpsert
  <2> QED BY <2>1, <2>2 DEF HotInv, Hot!TypeOK
<1>1. /\ written[r] < MaxWrites /\ written' = w
      /\ maps' = [maps EXCEPT ![r] = written[r] + 1]
      /\ queue' = SubSeq(long, over + 1, Len(long))
      /\ dropped' = dropped + over
      /\ drainTimer' = TRUE
      /\ UNCHANGED <<db, upserts, loads, refreshing, flushed, failures, alone>>
  BY DEF Hot!Enqueue
<1>2. written[r] + 1 \in Hot!Versions
  BY <1>0, <1>1, GatewayAssumption DEF Hot!Versions
<1>3. item \in Hot!Items /\ item.row = r /\ item.version = written[r] + 1 /\ item.attempts = 0
  <2>1. 0 \in 0..MaxAttempts - 1
    BY GatewayAssumption
  <2> QED BY <1>2, <2>1 DEF Hot!Items
<1> HIDE DEF item
<1>4. /\ long \in Seq(Hot!Items) /\ Len(long) \in Nat
      /\ Elements(long) = Elements(queue) \cup {item}
  BY <1>0, <1>3, AppendProperties, AppendElements, LenProperties
<1>5. Ordered(Elements(upserts), long, db, w)
  BY <1>0, <1>1, <1>3, EnqueuedInOrder
<1> HIDE DEF long
<1>6. over \in 0..Len(long) /\ over \in Nat
  BY <1>4, GatewayAssumption
<1> HIDE DEF over
<1>7. queue' \in Seq(Hot!Items)
  BY <1>1, <1>4, <1>6, Split
<1>8. w \in [Rows -> Hot!Versions] /\ \A s \in Rows : db[s] <= w[s]
  <2>1. \A s \in Rows : db[s] \in Int /\ written[s] \in Int
    BY <1>0 DEF Hot!Versions
  <2> QED BY <1>0, <1>2, <2>1
<1>9. Ordered(Elements(upserts'), queue', db', written')
  BY <1>1, <1>4, <1>5, <1>6, DroppedInOrder
<1>10. Hot!TypeOK'
  <2>1. maps' \in [Rows -> Hot!Versions] /\ dropped' \in Nat
    <3>1. maps \in [Rows -> Hot!Versions] /\ dropped \in Nat /\ dropped' = dropped + over
      BY <1>0, <1>1 DEF Hot!TypeOK
    <3> QED BY <1>1, <1>2, <1>6, <3>1
  <2> QED BY <1>0, <1>1, <1>7, <1>8, <2>1 DEF Hot!TypeOK
<1>11. ASSUME failures' = 0, dropped' = 0
       PROVE  OnItsWay(Elements(upserts) \cup Elements(queue))'
  <2>1. failures = 0 /\ dropped = 0 /\ over = 0
    BY <1>0, <1>1, <1>6, <1>11
  <2>2. OnItsWay(Elements(upserts) \cup Elements(queue))
    BY <2>1 DEF HotInv
  <2>3. queue' = long
    <3>1. over + 1 = 1
      BY <2>1
    <3>2. SubSeq(long, 1, Len(long)) = long
      BY <1>4
    <3> QED BY <1>1, <3>1, <3>2
  <2>4. Elements(upserts') \cup Elements(queue') = (Elements(upserts) \cup Elements(queue)) \cup {item}
    BY <1>1, <1>4, <2>3
  <2>5. ASSUME NEW s \in Rows
        PROVE  db[s] = w[s] \/ \E e \in (Elements(upserts) \cup Elements(queue)) \cup {item} :
                                 e.row = s /\ e.version = w[s]
    <3>1. CASE s = r
      BY <1>0, <1>3, <3>1
    <3>2. CASE s # r
      <4>1. w[s] = written[s]
        BY <1>0, <3>2
      <4> QED BY <2>2, <4>1 DEF OnItsWay
    <3> QED BY <3>1, <3>2
  <2> HIDE DEF w
  <2> QED BY <1>1, <1>3, <2>2, <2>4, <2>5 DEF OnItsWay
<1> HIDE DEF w
<1> QED BY <1>0, <1>1, <1>8, <1>9, <1>10, <1>11 DEF HotInv

LEMMA LoadsKeep ==
  ASSUME HotInv, ~flushed, NEW i \in DOMAIN loads, Hot!ReadRows(i) \/ Hot!Refresh(i) \/ Hot!RefreshFails(i)
  PROVE  HotInv'
<1>0. /\ Hot!TypeOK /\ maps \in [Rows -> Hot!Versions] /\ drainTimer \in BOOLEAN
      /\ refreshing \in BOOLEAN
      /\ db \in [Rows -> Hot!Versions] /\ failures \in 0..MaxFailures
  BY DEF HotInv, Hot!TypeOK
<1>1. CASE Hot!ReadRows(i)
  <2>1. loads' \in Seq([Rows -> Hot!Versions] \cup {Hot!Unread})
    BY <1>0, <1>1, LoadTypes DEF Hot!ReadRows
  <2> QED BY <1>0, <1>1, <2>1, NothingWritten DEF Hot!ReadRows
<1>2. CASE Hot!Refresh(i)
  <2>1. loads' \in Seq([Rows -> Hot!Versions] \cup {Hot!Unread})
    BY <1>0, <1>2, LoadTypes DEF Hot!Refresh
  <2>2. maps' \in [Rows -> Hot!Versions]
    BY <1>0, <1>2, LoadTypes DEF Hot!Refresh
  <2>3. failures' = failures /\ failures' \in 0..MaxFailures /\ failures' >= failures
    BY <1>0, <1>2, GatewayAssumption DEF Hot!Refresh
  <2> QED BY <1>0, <1>2, <2>1, <2>2, <2>3, DrainsKeep DEF Hot!Refresh
<1>3. CASE Hot!RefreshFails(i)
  <2>1. loads' \in Seq([Rows -> Hot!Versions] \cup {Hot!Unread})
    BY <1>0, <1>3, LoadTypes DEF Hot!RefreshFails
  <2>2. failures' \in 0..MaxFailures /\ failures' >= failures
    BY <1>0, <1>3, GatewayAssumption DEF Hot!RefreshFails
  <2> QED BY <1>0, <1>3, <2>1, <2>2, DrainsKeep DEF Hot!RefreshFails
<1> QED BY <1>1, <1>2, <1>3

LEMMA InitHotInv == Hot!Init => HotInv
<1> SUFFICES ASSUME Hot!Init PROVE HotInv
  OBVIOUS
<1>1. Elements(<< >>) = {} /\ Ascending(<< >>)
  BY DEF Elements, Ascending
<1>2. Hot!TypeOK
  <2>1. 0 \in Hot!Versions
    BY GatewayAssumption DEF Hot!Versions
  <2>2. /\ queue \in Seq(Hot!Items) /\ upserts \in Seq(Hot!Items)
        /\ loads \in Seq([Rows -> Hot!Versions] \cup {Hot!Unread})
    BY EmptySeq DEF Hot!Init
  <2>3. failures \in 0..MaxFailures /\ dropped \in Nat
    <3>1. failures = 0 /\ dropped = 0
      BY DEF Hot!Init
    <3> QED BY <3>1, GatewayAssumption
  <2>4. drainTimer \in BOOLEAN /\ refreshing \in BOOLEAN /\ flushed \in BOOLEAN
    BY Zenon DEF Hot!Init
  <2>5. /\ maps \in [Rows -> Hot!Versions] /\ db \in [Rows -> Hot!Versions]
        /\ written \in [Rows -> Hot!Versions]
    BY <2>1 DEF Hot!Init
  <2> QED BY <2>2, <2>3, <2>4, <2>5 DEF Hot!Init, Hot!TypeOK
<1>3. Len(upserts) <= 1 /\ \A r \in Rows : db[r] <= written[r]
  <2>1. Len(upserts) <= 1
    <3>1. upserts = << >>
      BY DEF Hot!Init
    <3> QED BY <3>1
  <2>2. \A r \in Rows : db[r] = 0 /\ written[r] = 0
    BY DEF Hot!Init
  <2> QED BY <2>1, <2>2
<1>4. Ordered(Elements(upserts), queue, db, written)
  BY <1>1 DEF Hot!Init, Ordered
<1>5. OnItsWay(Elements(upserts) \cup Elements(queue))
  BY <1>1 DEF Hot!Init, OnItsWay
<1> QED BY <1>2, <1>3, <1>4, <1>5 DEF Hot!Init, HotInv

LEMMA NextHotInv ==
  ASSUME HotInv, ~flushed, Hot!Next \/ Hot!Shutdown
  PROVE  HotInv'
<1>0. /\ Hot!TypeOK /\ maps \in [Rows -> Hot!Versions] /\ drainTimer \in BOOLEAN
      /\ refreshing \in BOOLEAN
      /\ loads \in Seq([Rows -> Hot!Versions] \cup {Hot!Unread}) /\ failures \in 0..MaxFailures
      /\ failures >= failures
  <2>1. Hot!TypeOK /\ failures \in Nat
    BY HotNumbers
  <2>2. failures >= failures
    BY <2>1
  <2> QED BY <2>1, <2>2 DEF Hot!TypeOK
<1>1. CASE Hot!Upserts
  BY <1>1, UpsertsKeep DEF Hot!Upserts
<1>2. CASE Hot!DrainTimer
  <2>1. Hot!Drain /\ drainTimer' \in BOOLEAN
        /\ UNCHANGED <<maps, db, loads, refreshing, flushed, failures, dropped, written, alone>>
    BY <1>2 DEF Hot!DrainTimer
  <2> QED BY <1>0, <2>1, DrainsKeep
<1>3. CASE Hot!StartRefresh
  <2>1. loads' \in Seq([Rows -> Hot!Versions] \cup {Hot!Unread})
    BY <1>0, <1>3, AppendProperties DEF Hot!StartRefresh
  <2> QED BY <1>0, <1>3, <2>1, NothingWritten DEF Hot!StartRefresh
<1>4. CASE Hot!Loads
  BY <1>4, LoadsKeep DEF Hot!Loads
<1>5. CASE \E r \in Rows : Hot!Enqueue(r)
  BY <1>5, EnqueueHotKeeps
<1>6. CASE Hot!Shutdown
  <2>1. /\ Hot!Drain /\ drainTimer' \in BOOLEAN /\ refreshing' \in BOOLEAN
        /\ UNCHANGED <<maps, db, loads, failures, dropped, written>>
        /\ ShutdownReturns
    BY <1>6 DEF Hot!Shutdown, ShutdownReturns
  <2> QED BY <1>0, <2>1, DrainsKeep
<1> QED BY <1>1, <1>2, <1>3, <1>4, <1>5, <1>6 DEF Hot!Next, Hot!Background

\* A row goes back only by an upsert that is tried again.
LEMMA GoesBackOnlyByRetry ==
  ASSUME HotInv, Hot!Next \/ Hot!Shutdown
  PROVE  Hot!GoesBackByRetry
<1>1. CASE db' = db
  <2>1. \A r \in Rows : db[r] \in Int
    BY HotNumbers
  <2> QED BY <1>1, <2>1 DEF Hot!GoesBackByRetry
<1>2. ASSUME NEW i \in DOMAIN upserts, Hot!Persist(i) \/ Hot!PersistFails(i), db' # db
      PROVE  Hot!GoesBackByRetry
  <2>0. /\ Hot!TypeOK /\ Len(upserts) <= 1 /\ Ordered(Elements(upserts), queue, db, written)
        /\ db \in [Rows -> Hot!Versions]
    BY DEF HotInv, Hot!TypeOK
  <2> DEFINE u == upserts[i]
  <2>1. u \in Hot!Items /\ u \in Elements(upserts)
    BY <2>0, OneUpsert
  <2>2. db' = [db EXCEPT ![u.row] = u.version]
    BY <1>2 DEF Hot!Persist, Hot!PersistFails, Hot!Stored
  <2> HIDE DEF u
  <2>3. u.attempts = 0 => db[u.row] < u.version
    BY <2>0, <2>1 DEF Ordered
  <2>4. u.row \in Rows /\ u.version \in Int /\ u.attempts \in Nat /\ \A r \in Rows : db[r] \in Int
    BY <2>0, <2>1 DEF Hot!Items, Hot!Versions
  <2>5. \A r \in Rows : db'[r] < db[r] => u.row = r /\ u.attempts > 0
    BY <2>0, <2>2, <2>3, <2>4
  <2> QED BY <2>5 DEF Hot!GoesBackByRetry, u
<1> QED BY <1>1, <1>2 DEF Hot!Next, Hot!Background, Hot!Upserts, Hot!DrainTimer, Hot!StartRefresh, Hot!Loads,
                          Hot!ReadRows, Hot!Refresh, Hot!RefreshFails, Hot!Enqueue, Hot!Shutdown

LEMMA HotUnchanged ==
  ASSUME HotInv, UNCHANGED hotVars
  PROVE  HotInv' /\ Hot!GoesBackByRetry
<1>1. OnItsWay(Elements(upserts) \cup Elements(queue))' = OnItsWay(Elements(upserts) \cup Elements(queue))
  BY DEF hotVars, OnItsWay
<1>2. HotInv'
  BY <1>1 DEF hotVars, HotInv, Hot!TypeOK
<1>3. Hot!GoesBackByRetry
  <2>1. db' = db /\ \A r \in Rows : db[r] \in Int
    BY HotNumbers DEF hotVars
  <2> QED BY <2>1 DEF Hot!GoesBackByRetry
<1> QED BY <1>2, <1>3

LEMMA HotFlushes == HotInv => Hot!LoneShutdownFlushes
<1>1. Elements(<< >>) = {}
  BY DEF Elements
<1> QED BY <1>1 DEF HotInv, OnItsWay, Hot!LoneShutdownFlushes

-----------------------------------------------------------------------------
(* The hot state in the process.                                            *)

\* Before the exit a step of the process is one of the hot state, or leaves it
\* alone.
LEMMA StepOfHotState ==
  ASSUME [Next]_vars
  PROVE  (~flushed /\ (Hot!Next \/ Hot!Shutdown)) \/ UNCHANGED hotVars
<1>1. ASSUME Next PROVE ~flushed
  BY <1>1 DEF Next, Exited
<1>2. ASSUME NEW s \in Streams, Serve(s) PROVE UNCHANGED hotVars
  BY <1>2 DEF Serve
<1>3. ASSUME NEW s \in Streams, Evaluate(s) PROVE Hot!Next
  BY <1>3 DEF Evaluate, Hot!Next
<1>4. ASSUME Write PROVE Hot!Next
  BY <1>4 DEF Write, Hot!Next
<1>5. ASSUME Signal PROVE UNCHANGED hotVars
  BY <1>5 DEF Signal
<1>6. ASSUME Drained \/ GraceExpires PROVE Hot!Shutdown
  BY <1>6 DEF Drained, GraceExpires
<1>7. CASE UNCHANGED vars
  BY <1>7 DEF vars
<1> QED BY <1>1, <1>2, <1>3, <1>4, <1>5, <1>6, <1>7 DEF Next

LEMMA HotInvHolds == Spec => []HotInv
<1>1. Init => HotInv
  BY InitHotInv DEF Init
<1>2. HotInv /\ [Next]_vars => HotInv'
  BY StepOfHotState, NextHotInv, HotUnchanged
<1> QED BY <1>1, <1>2, PTL DEF Spec

(* shutdown() (industry-hot-state.ts:379) awaits one drain: when it is      *)
(* called once and no other drain runs, the writes of the requests that are *)
(* still evaluated included, none of them is left unsaved at the exit.      *)
THEOREM LoneShutdownFlushesAll == Spec => []LoneShutdownFlushes
<1>1. HotInv => LoneShutdownFlushes
  BY HotFlushes DEF LoneShutdownFlushes
<1> QED BY <1>1, HotInvHolds, PTL

(* One drain at a time (industry-hot-state.ts:327) writes each row in the   *)
(* order of its writes: only an upsert that is tried again goes back.       *)
THEOREM OnlyRetriesGoBackInProcess == Spec => OnlyRetriesGoBack
<1>1. HotInv /\ [Next]_vars => [Hot!GoesBackByRetry]_hotVars
  BY StepOfHotState, GoesBackOnlyByRetry
<1> QED BY <1>1, HotInvHolds, PTL DEF Spec, OnlyRetriesGoBack
=============================================================================
