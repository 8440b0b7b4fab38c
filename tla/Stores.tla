------------------------------- MODULE Stores -------------------------------
(***************************************************************************)
(* The queues, counters and files beside the proxies: the receipt ledger,  *)
(* the audit write queue, the exporters' dead letters, the semantic audit, *)
(* the rate limiter, and the hot state that AgentGateway composes with the *)
(* streams.  They share no state in the program, so that each behaviour is *)
(* one of theirs; here they share the variables of the same name.          *)
(***************************************************************************)
EXTENDS Integers, Sequences, FiniteSets

CONSTANTS
  Processes,                            \* of the proxies
  Calls, Genesis, Torn, LedgerFaults,
  MaxQueue, BatchSize, Costed, LastJob, MaxFailures,
  Events, Unknown, MaxAttempts, Newest,
  Jobs, Global, TenantOf, SlotMax, TenantMax, DepthMax, Concurrency, Threshold,
  MaxFaults,                            \* of the semantic audit and of the limiter
  Checks, Weights, Limits,
  Rows, HotQueue, HotAttempts, MaxWrites, MaxLoads, HotFailures

ASSUME StoresAssumption ==
  /\ BatchSize \in Nat \ {0} /\ MaxQueue \in Nat /\ LastJob \in Nat
  /\ MaxAttempts \in Nat \ {0} /\ Newest \in Nat
  /\ SlotMax \in Nat /\ TenantMax \in Nat /\ DepthMax \in Nat
  /\ Concurrency \in Nat /\ Threshold \in Nat /\ MaxFaults \in Nat
  /\ Weights \subseteq Nat /\ Limits \in [{"region", "global"} -> Nat]
  /\ HotQueue \in Nat /\ HotAttempts \in Nat \ {0}
  /\ MaxWrites \in Nat /\ HotFailures \in Nat

VARIABLES
  part,         \* the store this behaviour is about
  file, faults, queue, batch, mode, calls, \* of more than one of them
  unended, proc, recorded, acked, damaged,
  handed, draining, immediate, costs, accepted, failed, closing, late,
  tries, state, text, flush, reached, lost, disturbed,
  slots, at, step, timer, processing, circuit, leaked, miscounted,
  redis, lock, local, unbounded,
  maps, db, upserts, drainTimer, loads, refreshing, flushed, failures, dropped,
  written, alone

Ledger == INSTANCE ReceiptLedger WITH Writers <- Processes, MaxFaults <- LedgerFaults
Audit == INSTANCE AuditQueue
Dlq == INSTANCE ExporterDlq WITH Flushes <- Processes
Semantic == INSTANCE SemanticAudit
Limiter == INSTANCE RateLimiter WITH Calls <- Checks
Hot == INSTANCE HotState WITH
  MaxQueue <- HotQueue, MaxAttempts <- HotAttempts, MaxFailures <- HotFailures

ledgerVars == <<unended, proc, recorded, acked, damaged>>
auditVars == <<handed, draining, immediate, costs, accepted, failed, closing, late>>
dlqVars == <<tries, state, text, flush, reached, lost, disturbed>>
semanticVars == <<slots, at, step, timer, processing, circuit, leaked, miscounted>>
limiterVars == <<redis, lock, local, unbounded>>
hotVars == <<maps, db, upserts, drainTimer, loads, refreshing, flushed, failures,
             dropped, written, alone>>
vars == <<part, file, faults, queue, batch, mode, calls,
          ledgerVars, auditVars, dlqVars, semanticVars, limiterVars, hotVars>>

\* The variables that a store does not have.
LedgerRest == <<auditVars, dlqVars, semanticVars, limiterVars, hotVars, queue, batch, mode, calls>>
AuditRest == <<ledgerVars, dlqVars, semanticVars, limiterVars, hotVars, file, faults, mode>>
DlqRest == <<ledgerVars, auditVars, semanticVars, limiterVars, hotVars, faults, queue,
             batch, mode, calls>>
SemanticRest == <<ledgerVars, auditVars, dlqVars, limiterVars, hotVars, file, calls>>
LimiterRest == <<ledgerVars, auditVars, dlqVars, semanticVars, hotVars, file, queue, batch>>
HotRest == <<ledgerVars, auditVars, dlqVars, semanticVars, limiterVars, file, faults,
             batch, mode, calls>>

\* ... which are zero.
NoLedger == unended = 0 /\ proc = 0 /\ recorded = 0 /\ acked = 0 /\ damaged = 0
NoAudit ==
  /\ handed = 0 /\ draining = 0 /\ immediate = 0 /\ costs = 0
  /\ accepted = 0 /\ failed = 0 /\ closing = 0 /\ late = 0
NoDlq ==
  /\ tries = 0 /\ state = 0 /\ text = 0 /\ flush = 0
  /\ reached = 0 /\ lost = 0 /\ disturbed = 0
NoSemantic ==
  /\ slots = 0 /\ at = 0 /\ step = 0 /\ timer = 0
  /\ processing = 0 /\ circuit = 0 /\ leaked = 0 /\ miscounted = 0
NoLimiter == redis = 0 /\ lock = 0 /\ local = 0 /\ unbounded = 0
NoHot ==
  /\ maps = 0 /\ db = 0 /\ upserts = 0 /\ drainTimer = 0 /\ loads = 0 /\ refreshing = 0
  /\ flushed = 0 /\ failures = 0 /\ dropped = 0 /\ written = 0 /\ alone = 0

Init ==
  \/ /\ part = "ledger" /\ Ledger!Init
     /\ NoAudit /\ NoDlq /\ NoSemantic /\ NoLimiter /\ NoHot
     /\ queue = 0 /\ batch = 0 /\ mode = 0 /\ calls = 0
  \/ /\ part = "audit" /\ Audit!Init
     /\ NoLedger /\ NoDlq /\ NoSemantic /\ NoLimiter /\ NoHot
     /\ file = 0 /\ faults = 0 /\ mode = 0
  \/ /\ part = "dlq" /\ Dlq!Init
     /\ NoLedger /\ NoAudit /\ NoSemantic /\ NoLimiter /\ NoHot
     /\ faults = 0 /\ queue = 0 /\ batch = 0 /\ mode = 0 /\ calls = 0
  \/ /\ part = "semantic" /\ Semantic!Init
     /\ NoLedger /\ NoAudit /\ NoDlq /\ NoLimiter /\ NoHot
     /\ file = 0 /\ calls = 0
  \/ /\ part = "limiter" /\ Limiter!Init
     /\ NoLedger /\ NoAudit /\ NoDlq /\ NoSemantic /\ NoHot
     /\ file = 0 /\ queue = 0 /\ batch = 0
  \/ /\ part = "hot" /\ Hot!Init
     /\ NoLedger /\ NoAudit /\ NoDlq /\ NoSemantic /\ NoLimiter
     /\ file = 0 /\ faults = 0 /\ batch = 0 /\ mode = 0 /\ calls = 0

\* The process has exited once the hot state is flushed.
HotNext == ~flushed /\ (Hot!Next \/ Hot!Shutdown)

LedgerDoes(A) == part = "ledger" /\ A /\ UNCHANGED <<part, LedgerRest>>
AuditDoes(A) == part = "audit" /\ A /\ UNCHANGED <<part, AuditRest>>
DlqDoes(A) == part = "dlq" /\ A /\ UNCHANGED <<part, DlqRest>>
SemanticDoes(A) == part = "semantic" /\ A /\ UNCHANGED <<part, SemanticRest>>
LimiterDoes(A) == part = "limiter" /\ A /\ UNCHANGED <<part, LimiterRest>>
HotDoes(A) == part = "hot" /\ A /\ UNCHANGED <<part, HotRest>>

Next ==
  \/ LedgerDoes(Ledger!Next) \/ AuditDoes(Audit!Next) \/ DlqDoes(Dlq!Next)
  \/ SemanticDoes(Semantic!Next) \/ LimiterDoes(Limiter!Next) \/ HotDoes(HotNext)

Spec == Init /\ [][Next]_vars

\* The fairness of each part, for its own steps.
Fairness ==
  /\ WF_vars(AuditDoes(Audit!Drain))
  /\ \A c \in {"drain", "flush"} : WF_vars(AuditDoes(Audit!WriteJob(c)))
  /\ \A p \in Processes : WF_vars(SemanticDoes(Semantic!TimerFires(p)))
  /\ \A j \in Jobs : WF_vars(SemanticDoes(Semantic!Audit(j)))
  /\ \A c \in Checks : WF_vars(LimiterDoes(Limiter!SetExpiry(c)))
  /\ \A k \in {"region", "global"} : WF_vars(LimiterDoes(Limiter!WindowEnds(k)))
  /\ WF_vars(HotDoes(~flushed /\ Hot!Upserts)) /\ WF_vars(HotDoes(~flushed /\ Hot!DrainTimer))
  /\ WF_vars(HotDoes(~flushed /\ Hot!StartRefresh)) /\ WF_vars(HotDoes(~flushed /\ Hot!Loads))

-----------------------------------------------------------------------------
(* The fields and records of every part stay in their types.                *)
TypesOK ==
  /\ part = "ledger" => Ledger!TypeOK
  /\ part = "audit" => Audit!TypeOK
  /\ part = "dlq" => Dlq!TypeOK
  /\ part = "semantic" => Semantic!TypeOK
  /\ part = "limiter" => Limiter!TypeOK
  /\ part = "hot" => Hot!TypeOK

(* A ledger that accepts receipts goes on at the end of a file that verifies.*)
AcceptsOnlyAtTheEnd == part = "ledger" => Ledger!AcceptsOnlyAtTheEnd

(* A ledger file that verifies holds every receipt that was returned.       *)
ValidMeansComplete == part = "ledger" => Ledger!ValidMeansComplete

(* The audit queue writes calls in the order in which it accepted them.     *)
WrittenInOrder == part = "audit" => Audit!WrittenInOrder

(* A shutdown loses at most the batch that the drain has taken.             *)
ExitLosesOneBatch == part = "audit" => Audit!ExitLosesOneBatch

(* An accepted job is written, or its write has failed, in the end.         *)
AcceptedIsWritten == []<>(part = "audit" => Audit!AllWritten)

(* An event stays in the file until a send of it returns, unless it was not *)
(* kept, or a rewrite overtakes it or is cut short.                         *)
KeptUntilSent == part = "dlq" => Dlq!KeptUntilSent

(* An event whose send has returned is not sent again, unless flushes       *)
(* overlap or die.                                                          *)
SentOnce == part = "dlq" => Dlq!SentOnce

(* The slots counted in Redis are those held, and those a fault has leaked. *)
SlotsAccounted == part = "semantic" => Semantic!SlotsAccounted

(* A half-open circuit that refuses calls has a probe in flight.            *)
NoStuckProbe == part = "semantic" => Semantic!NoStuckProbe

(* A queued audit is over, dropped or lost in the end.                      *)
QueuesEmpty == []<>(part = "semantic" => Semantic!NothingQueued)

(* A proxy without Redis stays within the limit by its own count.           *)
FallbackWithinLimit == [][part = "limiter" => Limiter!FallbackGrantsInLimit]_vars

(* Every window that a call of weight one began ends.                       *)
BoundedWindowEnds == []<>(part = "limiter" => Limiter!NothingBounded)

(* Memory and database agree on the last writes in the end.                 *)
Converges == <>[](part = "hot" => Hot!Agree)
=============================================================================
