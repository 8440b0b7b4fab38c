------------------------------ MODULE HotState ------------------------------
(***************************************************************************)
(* The industry hot state, src/database/industry-hot-state.ts: the rows    *)
(* the policy strategies read are kept in memory; a write changes memory   *)
(* at once and is queued for the database; a refresh replaces memory by    *)
(* what it loaded.  A row is the number of the write it comes from.        *)
(***************************************************************************)
EXTENDS Integers, Sequences, SequencesExt

CONSTANTS
  Rows,
  MaxQueue,     \* MASTYF_AI_INDUSTRY_QUEUE_MAX
  MaxAttempts,  \* MAX_ATTEMPTS
  MaxWrites,    \* bound: writes of one row
  MaxLoads,     \* bound: refreshes under way at once
  MaxFailures   \* bound: upserts and loads that fail

VARIABLES
  maps,         \* the rows in memory
  db,           \* the rows in PostgreSQL
  queue,        \* the writes that wait
  upserts,      \* the awaited upserts, one for each drain that is running
  drainTimer,
  loads,        \* the awaited loadAlls
  refreshing,   \* the refresh interval is running
  flushed,      \* a call of shutdown has returned
  failures, dropped,
  written,      \* history: the writes of each row
  alone         \* history: shutdown was called once, and no drain was running

vars == <<maps, db, queue, upserts, drainTimer, loads, refreshing, flushed,
          failures, dropped, written, alone>>

Versions == 0..MaxWrites
Items == [row : Rows, version : Versions, attempts : 0..MaxAttempts - 1]
Unread == [r \in Rows |-> -1]

TypeOK ==
  /\ maps \in [Rows -> Versions] /\ db \in [Rows -> Versions]
  /\ queue \in Seq(Items) /\ upserts \in Seq(Items)
  /\ drainTimer \in BOOLEAN /\ refreshing \in BOOLEAN /\ flushed \in BOOLEAN
  /\ loads \in Seq([Rows -> Versions] \cup {Unread})
  /\ failures \in 0..MaxFailures /\ dropped \in Nat
  /\ written \in [Rows -> Versions]
  /\ alone \in {"no call", "yes", "no"}

Init ==
  /\ maps = [r \in Rows |-> 0] /\ db = [r \in Rows |-> 0]
  /\ queue = << >> /\ upserts = << >>
  /\ drainTimer = FALSE /\ loads = << >> /\ refreshing = TRUE /\ flushed = FALSE
  /\ failures = 0 /\ dropped = 0
  /\ written = [r \in Rows |-> 0]
  /\ alone = "no call"

-----------------------------------------------------------------------------
(* drain.  One drain runs at a time and takes the writes in their order.    *)

draining == upserts # << >>

\* Fault: a drain does not ask whether another is running.
DrainAnyway ==
  IF queue = << >> THEN UNCHANGED <<queue, upserts>>
  ELSE /\ upserts' = Append(upserts, Head(queue))
       /\ queue' = Tail(queue)

Drain ==
  IF draining \/ queue = << >> THEN UNCHANGED <<queue, upserts>>
  ELSE /\ upserts' = Append(upserts, Head(queue))
       /\ queue' = Tail(queue)

\* Fault: the shutdown awaits one write of the loop.
ContinueBehind(i, q) ==
  /\ flushed' = (alone # "no call")
  /\ IF q = << >>
     THEN upserts' = RemoveAt(upserts, i) /\ queue' = q
     ELSE upserts' = [upserts EXCEPT ![i] = Head(q)] /\ queue' = Tail(q)

\* The loop goes on with the writes of q, or ends; if a shutdown awaits it,
\* that call then returns.
Continue(i, q) ==
  IF q = << >>
  THEN /\ upserts' = RemoveAt(upserts, i) /\ queue' = q
       /\ flushed' = (alone # "no call")
  ELSE /\ upserts' = [upserts EXCEPT ![i] = Head(q)] /\ queue' = Tail(q)
       /\ UNCHANGED flushed

Stored(item) == [db EXCEPT ![item.row] = item.version]

Persist(i) ==
  /\ db' = Stored(upserts[i])
  /\ Continue(i, queue)
  /\ UNCHANGED <<maps, drainTimer, loads, refreshing, failures, dropped, written, alone>>

\* The upsert fails, or its answer is lost.  It is tried again behind the
\* writes that came after it, and given up after MaxAttempts.
PersistFails(i) ==
  LET again == [upserts[i] EXCEPT !.attempts = upserts[i].attempts + 1]
  IN  /\ failures < MaxFailures /\ failures' = failures + 1
      /\ db' \in {db, Stored(upserts[i])}
      /\ IF again.attempts < MaxAttempts
         THEN Continue(i, Append(queue, again)) /\ UNCHANGED dropped
         ELSE Continue(i, queue) /\ dropped' = dropped + 1
      /\ UNCHANGED <<maps, drainTimer, loads, refreshing, written, alone>>

DrainTimer ==
  /\ drainTimer /\ drainTimer' = FALSE
  /\ Drain
  /\ UNCHANGED <<maps, db, loads, refreshing, flushed, failures, dropped, written, alone>>

-----------------------------------------------------------------------------
\* enqueue: the oldest writes are dropped when the queue is too long.
Enqueue(r) ==
  LET item == [row |-> r, version |-> written[r] + 1, attempts |-> 0]
      long == Append(queue, item)
      over == IF Len(long) > MaxQueue THEN Len(long) - MaxQueue ELSE 0
  IN  /\ written[r] < MaxWrites
      /\ written' = [written EXCEPT ![r] = written[r] + 1]
      /\ maps' = [maps EXCEPT ![r] = written[r] + 1]
      /\ queue' = SubSeq(long, over + 1, Len(long))
      /\ dropped' = dropped + over
      /\ drainTimer' = TRUE
      /\ UNCHANGED <<db, upserts, loads, refreshing, flushed, failures, alone>>

-----------------------------------------------------------------------------
(* refresh, started by an interval that does not wait for the last one.     *)

StartRefresh ==
  /\ refreshing /\ Len(loads) < MaxLoads
  /\ loads' = Append(loads, Unread)
  /\ UNCHANGED <<maps, db, queue, upserts, drainTimer, refreshing, flushed,
                 failures, dropped, written, alone>>

\* The database answers the queries of a loadAll.
ReadRows(i) ==
  /\ loads[i] = Unread
  /\ loads' = [loads EXCEPT ![i] = db]
  /\ UNCHANGED <<maps, db, queue, upserts, drainTimer, refreshing, flushed,
                 failures, dropped, written, alone>>

\* Fault: only rows that are not in memory are taken over.
RefreshMissing(i) ==
  /\ loads[i] # Unread
  /\ maps' = [r \in Rows |-> IF maps[r] = 0 THEN loads[i][r] ELSE maps[r]]
  /\ loads' = RemoveAt(loads, i)
  /\ Drain
  /\ UNCHANGED <<db, drainTimer, refreshing, flushed, failures, dropped, written, alone>>

\* Memory is replaced by what was read; the interval drains afterwards.
Refresh(i) ==
  /\ loads[i] # Unread
  /\ maps' = loads[i]
  /\ loads' = RemoveAt(loads, i)
  /\ Drain
  /\ UNCHANGED <<db, drainTimer, refreshing, flushed, failures, dropped, written, alone>>

\* A load that fails leaves memory as it is.
RefreshFails(i) ==
  /\ failures < MaxFailures /\ failures' = failures + 1
  /\ loads' = RemoveAt(loads, i)
  /\ Drain
  /\ UNCHANGED <<maps, db, drainTimer, refreshing, flushed, dropped, written, alone>>

-----------------------------------------------------------------------------
\* shutdown: stops the timers and drains.  Its drain returns at once if there
\* is nothing to do, or if another drain is doing it.
Shutdown ==
  /\ refreshing' = FALSE /\ drainTimer' = FALSE
  /\ Drain
  /\ flushed' = (flushed \/ draining \/ queue = << >>)
  /\ alone' = IF alone = "no call" /\ ~draining THEN "yes" ELSE "no"
  /\ UNCHANGED <<maps, db, loads, failures, dropped, written>>

Upserts == \E i \in DOMAIN upserts : Persist(i) \/ PersistFails(i)
Loads == \E i \in DOMAIN loads : ReadRows(i) \/ Refresh(i) \/ RefreshFails(i)

Background == Upserts \/ DrainTimer \/ StartRefresh \/ Loads

Next == Background \/ \E r \in Rows : Enqueue(r)

Spec == Init /\ [][Next]_vars

\* Timers fire, and the database answers in the end.
Fairness ==
  /\ WF_vars(Upserts) /\ WF_vars(DrainTimer)
  /\ WF_vars(StartRefresh) /\ WF_vars(Loads)

-----------------------------------------------------------------------------
(* Writes of a row reach the database in their order, whatever starts a     *)
(* drain: the timer, a refresh or a shutdown.  A row goes back to an older  *)
(* write only by an upsert that is tried again (industry-hot-state.ts:340). *)
GoesBackByRetry ==
  \A r \in Rows : db'[r] < db[r] =>
    \E i \in DOMAIN upserts : upserts[i].row = r /\ upserts[i].attempts > 0
OnlyRetriesGoBack == [][GoesBackByRetry]_vars

(* A shutdown that had the queue to itself has saved every write, also      *)
(* those queued while it ran, when it returns.                              *)
LoneShutdownFlushes ==
  flushed /\ alone = "yes" /\ failures = 0 /\ dropped = 0 =>
    \A r \in Rows : db[r] = written[r]

(* Once the writes have stopped, memory and database agree; and they agree  *)
(* on the last writes unless one failed or was dropped.  Refreshes that     *)
(* overtake writes, or each other, hide a write only for a while.           *)
Agree == flushed \/ (maps = db /\ (failures + dropped = 0 => db = written))
Converges == <>[]Agree
=============================================================================
