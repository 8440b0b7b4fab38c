--------------------------- MODULE ProxyCallProofs ---------------------------
(***************************************************************************)
(* What becomes of each call of the stdio proxy, for every policy, set of  *)
(* calls and number of calls in flight: its receipt, its future in the     *)
(* correlation table, its pending transition, and the doubt it leaves.     *)
(* Then the run() loop: with one message in flight at a time the pending   *)
(* dictionary holds nothing but the entry of the call in flight, so the    *)
(* outcome that is committed is that of the transition that was evaluated, *)
(* and the loop implements the sequential monitor.                         *)
(***************************************************************************)
EXTENDS StdioProxyProofs

-----------------------------------------------------------------------------
(* The inductive invariant: how a call stands with the child, the table and *)
(* the ledger.                                                              *)

Taken == inbox \cup executed

\* A call the child holds was forwarded.
Sent ==
    /\ \A c \in Taken : pc[c] \notin {"idle", "auditing"}
    /\ child = "absent" => Taken = {}

\* A receipt is of a call that is over, and says what was seen of it.
Told ==
    \A i \in DOMAIN receipts :
        /\ pc[receipts[i].call] = "done"
        /\ UniqueIds /\ receipts[i].obs = "RESPONSE_RECEIVED" => receipts[i].call \in answered
        /\ receipts[i].obs = "NOT_SENT" => receipts[i].call \notin Taken

Once == \A i, j \in DOMAIN receipts : receipts[i].call = receipts[j].call => i = j

\* A tool call the child holds is awaited, raised over a lost pipe, or known to
\* the engine as sent, with a receipt of the same outcome unless it raised.
Kept ==
    \A c \in Taken : req[c].kind = "tool" =>
        \/ pc[c] \in {"draining", "waiting"}
        \/ pc[c] = "raised" /\ ~stdinOpen
        \/ \E i \in DOMAIN outcomes :
              /\ outcomes[i].call = c /\ outcomes[i].obs # "NOT_SENT"
              /\ \/ pc[c] = "raised"
                 \/ \E k \in DOMAIN receipts :
                       receipts[k].call = c /\ receipts[k].obs = outcomes[i].obs

\* A registered call waits under its own id, or has raised.
Registered ==
    \A id \in RequestIds : table[id] # NoCall =>
        /\ fut[table[id]] = "pending"
        /\ pc[table[id]] \in {"draining", "waiting", "raised"}
        /\ req[table[id]].id = id

\* With unique ids, what the dispatcher hears of a call is of that call.
Heard ==
    UniqueIds =>
        /\ \A c, d \in Calls :
              pc[c] # "idle" /\ pc[d] # "idle" /\ req[c].id = req[d].id => c = d
        /\ \A i \in DOMAIN stdout :
              stdout[i] # Garbage => \E c \in answered : req[c].id = stdout[i].id
        /\ \A c \in Calls : fut[c] \in {"result", "error"} => c \in answered

CallInv == Sent /\ Told /\ Once /\ Kept /\ Registered /\ Heard

-----------------------------------------------------------------------------
(* The end of a call.                                                       *)

\* The log t is the log s with one more entry, of call c with observation obs.
Logged(s, t, c, obs) ==
    \E n \in Nat :
        /\ DOMAIN t = DOMAIN s \cup {n}
        /\ \A i \in DOMAIN s : i \in Nat /\ i < n /\ t[i] = s[i]
        /\ t[n].call = c /\ t[n].obs = obs

\* Call c returns with the observation obs on record, or raises.
Records(c, obs) ==
    \/ pc' = [pc EXCEPT ![c] = "done"] /\ Logged(receipts, receipts', c, obs)
    \/ pc' = [pc EXCEPT ![c] = "raised"] /\ receipts' = receipts

\* Call c ends: the engine is told what was observed, then it is recorded.
Ends(c, obs) == Logged(outcomes, outcomes', c, obs) /\ Records(c, obs)

LEMMA LogAppend ==
    ASSUME NEW S, NEW s \in Seq(S), NEW x
    PROVE  Logged(s, Append(s, x), x.call, x.obs)
<1> DEFINE t == Append(s, x)
<1>1. Len(s) \in Nat /\ DOMAIN s = 1 .. Len(s)
  BY LenProperties
<1>2. /\ DOMAIN t = 1 .. Len(s) + 1
      /\ \A i \in 1 .. Len(s) : t[i] = s[i]
      /\ t[Len(s) + 1] = x
  BY <1>1
<1>3. DOMAIN t = DOMAIN s \cup {Len(s) + 1} /\ Len(s) + 1 \in Nat
  BY <1>1, <1>2
<1>4. \A i \in DOMAIN s : i \in Nat /\ i < Len(s) + 1 /\ t[i] = s[i]
  BY <1>1, <1>2
<1> HIDE DEF t
<1>5. Logged(s, t, x.call, x.obs)
  BY <1>2, <1>3, <1>4 DEF Logged
<1> QED BY <1>5 DEF t

LEMMA ReceiptTypes ==
    ASSUME TypeOK, NEW i \in DOMAIN receipts
    PROVE  receipts[i].call \in Calls /\ receipts[i].obs \in Observations
<1>1. receipts \in Seq(Receipts) /\ i \in 1 .. Len(receipts)
  BY LenProperties DEF TypeOK
<1>2. receipts[i] \in Receipts
  BY <1>1, ElementOfSeq
<1> QED BY <1>2 DEF Receipts

LEMMA OutcomeTypes ==
    ASSUME TypeOK, NEW i \in DOMAIN outcomes
    PROVE  outcomes[i].call \in Calls /\ outcomes[i].obs \in Observations
<1>1. outcomes \in Seq(Outcomes) /\ i \in 1 .. Len(outcomes)
  BY LenProperties DEF TypeOK
<1>2. outcomes[i] \in Outcomes
  BY <1>1, ElementOfSeq
<1> QED BY <1>2 DEF Outcomes

LEMMA RecordEnds ==
    ASSUME TypeOK, NEW c \in Calls, NEW decision, NEW obs, NEW snap,
           RecordAndReturn(c, decision, obs, snap)
    PROVE  Records(c, IF decision = "ALLOW" THEN obs ELSE "NOT_SENT")
<1> DEFINE rec == Receipt(c, decision, obs, snap)
<1>1. rec.call = c /\ rec.obs = IF decision = "ALLOW" THEN obs ELSE "NOT_SENT"
  BY DEF Receipt
<1>2. receipts \in Seq(Receipts)
  BY DEF TypeOK
<1>3. CASE receipts' = Append(receipts, rec) /\ pc' = [pc EXCEPT ![c] = "done"]
  <2> HIDE DEF rec
  <2>1. Logged(receipts, receipts', rec.call, rec.obs)
    BY <1>2, <1>3, LogAppend
  <2> QED BY <1>1, <1>3, <2>1 DEF Records
<1>4. CASE receipts' = receipts /\ Raise(c)
  BY <1>4 DEF Raise, Records
<1> QED BY <1>3, <1>4 DEF RecordAndReturn

LEMMA CommitLogs ==
    ASSUME TypeOK, NEW c \in Calls, NEW r, NEW e, NEW obs, Commit(c, r, e, obs)
    PROVE  Logged(outcomes, outcomes', c, obs)
<1> DEFINE o == [call |-> c, obs |-> obs]
<1>1. o.call = c /\ o.obs = obs /\ outcomes \in Seq(Outcomes) /\ outcomes' = Append(outcomes, o)
  BY DEF Commit, TypeOK
<1> HIDE DEF o
<1> QED BY <1>1, LogAppend

LEMMA ConcludeEnds ==
    ASSUME TypeOK, NEW c \in Calls, NEW r, NEW e, NEW obs, Conclude(c, r, e, obs)
    PROVE  \/ r.kind = "tool" /\ Ends(c, obs)
           \/ /\ r.kind = "plain" /\ pc' = [pc EXCEPT ![c] = "done"]
              /\ UNCHANGED <<receipts, outcomes>>
<1>1. CASE r.kind = "tool" /\ ConcludeTool(c, r, e, obs)
  <2>1. PICK snap : RecordAndReturn(c, "ALLOW", obs, snap)
    BY <1>1 DEF ConcludeTool
  <2>2. Records(c, IF "ALLOW" = "ALLOW" THEN obs ELSE "NOT_SENT")
    BY <2>1, RecordEnds
  <2>3. Logged(outcomes, outcomes', c, obs)
    BY <1>1, CommitLogs DEF ConcludeTool
  <2> QED BY <1>1, <2>2, <2>3 DEF Ends
<1> QED BY <1>1 DEF Conclude

LEMMA RefuseEnds ==
    ASSUME TypeOK, NEW c \in Calls, NEW r, NEW e, NEW d, Refuse(c, r, e, d)
    PROVE  Ends(c, "NOT_SENT")
<1>1. PICK snap : RecordAndReturn(c, d, "NOT_SENT", snap)
  BY DEF Refuse
<1>2. Records(c, IF d = "ALLOW" THEN "NOT_SENT" ELSE "NOT_SENT")
  BY <1>1, RecordEnds
<1>3. Logged(outcomes, outcomes', c, "NOT_SENT")
  BY CommitLogs DEF Refuse
<1> QED BY <1>2, <1>3 DEF Ends

\* The receipts stay true and single when a call ends.
LEMMA EndKeepsReceipts ==
    ASSUME TypeOK, Told, Once, NEW c \in Calls, NEW obs, pc[c] # "done", Ends(c, obs),
           UNCHANGED <<inbox, executed, answered>>,
           UniqueIds /\ obs = "RESPONSE_RECEIVED" => c \in answered,
           obs = "NOT_SENT" => c \notin Taken
    PROVE  Told' /\ Once'
<1>1. \A i \in DOMAIN receipts : receipts[i].call # c
  BY DEF Told
<1>2. Taken' = Taken
  BY DEF Taken
<1>3. pc' \in [Calls -> {pc'[d] : d \in Calls}] /\ \A d \in Calls \ {c} : pc'[d] = pc[d]
  BY DEF Ends, Records, TypeOK
<1>4. \A i \in DOMAIN receipts : receipts[i].call \in Calls
  BY ReceiptTypes
<1>5. CASE receipts' = receipts
  BY <1>1, <1>2, <1>3, <1>4, <1>5 DEF Told, Once
<1>6. CASE pc' = [pc EXCEPT ![c] = "done"] /\ Logged(receipts, receipts', c, obs)
  <2>1. pc'[c] = "done"
    BY <1>6 DEF TypeOK
  <2>2. PICK n \in Nat :
             /\ DOMAIN receipts' = DOMAIN receipts \cup {n}
             /\ \A i \in DOMAIN receipts : i \in Nat /\ i < n /\ receipts'[i] = receipts[i]
             /\ receipts'[n].call = c /\ receipts'[n].obs = obs
    BY <1>6 DEF Logged
  <2>3. Told'
    BY <1>1, <1>2, <1>3, <1>4, <2>1, <2>2 DEF Told
  <2>4. Once'
    BY <1>1, <2>2 DEF Once
  <2> QED BY <2>3, <2>4
<1> QED BY <1>5, <1>6 DEF Ends, Records

\* They stay so when no receipt is written.
LEMMA StepKeepsReceipts ==
    ASSUME TypeOK, Told, Once, NEW c \in Calls, pc[c] # "done",
           receipts' = receipts, answered \subseteq answered', Taken' \subseteq Taken \cup {c},
           \A d \in Calls \ {c} : pc'[d] = pc[d]
    PROVE  Told' /\ Once'
<1>1. \A i \in DOMAIN receipts : receipts[i].call \in Calls \ {c}
  BY ReceiptTypes DEF Told
<1> QED BY <1>1 DEF Told, Once

-----------------------------------------------------------------------------
(* The steps of process_message.                                            *)

\* What receiving a message, or coming back from the auditor, has in common.
Decides(c, r) ==
    /\ pc[c] \in {"idle", "auditing"} /\ r \in Requests
    /\ req' = [req EXCEPT ![c] = r]
    /\ UniqueIds => \A d \in Calls \ {c} : pc[d] # "idle" => req[d].id # r.id
    /\ UNCHANGED <<child, stdinOpen, executed, answered, stdout, ledgerOk>>

LEMMA AcceptDecides ==
    ASSUME TypeOK, NEW c \in Calls, NEW r \in Requests, Accept(c, r)
    PROVE  Decides(c, r)
BY DEF Accept, Decides

LEMMA AuditDecides ==
    ASSUME TypeOK, CallInv, NEW c \in Calls, pc[c] = "auditing", UNCHANGED AfterAudit
    PROVE  Decides(c, req[c])
<1>1. req[c] \in Requests /\ req' = [req EXCEPT ![c] = req[c]]
  BY DEF TypeOK, Requests, AfterAudit
<1> QED BY <1>1 DEF Decides, AfterAudit, CallInv, Heard

\* The ids stay unique, and what was heard stays heard.
LEMMA DecisionKeepsHeard ==
    ASSUME TypeOK, Sent, Heard, NEW c \in Calls, NEW r, Decides(c, r),
           \A d \in Calls \ {c} : pc'[d] = pc[d],
           \A d \in Calls : fut'[d] \in {"result", "error"} => fut'[d] = fut[d]
    PROVE  Heard'
<1>1. c \notin answered
  BY DEF Sent, Taken, Decides, TypeOK
<1>2. req'[c] = r /\ \A d \in Calls \ {c} : req'[d] = req[d]
  BY DEF Decides, TypeOK
<1>3. answered \subseteq Calls /\ answered' = answered /\ stdout' = stdout
  BY DEF TypeOK, Decides
<1> SUFFICES ASSUME UniqueIds PROVE Heard'
  BY DEF Heard
<1>4. \A a, b \in Calls :
        pc'[a] # "idle" /\ pc'[b] # "idle" /\ req'[a].id = req'[b].id => a = b
  <2> SUFFICES ASSUME NEW a \in Calls, NEW b \in Calls,
                      pc'[a] # "idle", pc'[b] # "idle", req'[a].id = req'[b].id
               PROVE  a = b
    OBVIOUS
  <2>1. CASE a # c /\ b # c
    BY <2>1, <1>2 DEF Heard
  <2>2. CASE a = c /\ b # c
    BY <2>2, <1>2 DEF Decides
  <2>3. CASE a # c /\ b = c
    BY <2>3, <1>2 DEF Decides
  <2> QED BY <2>1, <2>2, <2>3
<1>5. \A i \in DOMAIN stdout' :
        stdout'[i] # Garbage => \E a \in answered' : req'[a].id = stdout'[i].id
  BY <1>1, <1>2, <1>3 DEF Heard
<1>6. \A a \in Calls : fut'[a] \in {"result", "error"} => a \in answered'
  BY <1>3 DEF Heard
<1> QED BY <1>4, <1>5, <1>6 DEF Heard

\* An end moves no other call, and what was logged stays logged.
LEMMA EndLeaves ==
    ASSUME TypeOK, NEW c \in Calls, NEW obs, Ends(c, obs)
    PROVE  /\ pc'[c] \in {"done", "raised"} /\ \A d \in Calls \ {c} : pc'[d] = pc[d]
           /\ \A i \in DOMAIN receipts : i \in DOMAIN receipts' /\ receipts'[i] = receipts[i]
           /\ \A i \in DOMAIN outcomes : i \in DOMAIN outcomes' /\ outcomes'[i] = outcomes[i]
<1>1. pc'[c] \in {"done", "raised"} /\ \A d \in Calls \ {c} : pc'[d] = pc[d]
  BY DEF Ends, Records, TypeOK
<1>2. \A i \in DOMAIN outcomes : i \in DOMAIN outcomes' /\ outcomes'[i] = outcomes[i]
  BY DEF Ends, Logged
<1>3. \A i \in DOMAIN receipts : i \in DOMAIN receipts' /\ receipts'[i] = receipts[i]
  BY DEF Ends, Records, Logged
<1> QED BY <1>1, <1>2, <1>3

\* A call that is refused was never given to the child.
LEMMA RefuseKeeps ==
    ASSUME TypeOK, CallInv, NEW c \in Calls, NEW r, Decides(c, r), Ends(c, "NOT_SENT"),
           UNCHANGED <<fut, table, inbox>>
    PROVE  CallInv'
<1>1. c \notin Taken /\ Taken' = Taken /\ pc[c] # "done"
  BY DEF CallInv, Sent, Taken, Decides
<1>2. /\ \A d \in Calls \ {c} : pc'[d] = pc[d] /\ req'[d] = req[d]
      /\ \A i \in DOMAIN receipts : i \in DOMAIN receipts' /\ receipts'[i] = receipts[i]
      /\ \A i \in DOMAIN outcomes : i \in DOMAIN outcomes' /\ outcomes'[i] = outcomes[i]
  BY EndLeaves DEF Decides, TypeOK
<1>3. Taken \subseteq Calls
  BY DEF Taken, TypeOK
<1>4. Told' /\ Once'
  BY <1>1, EndKeepsReceipts DEF CallInv, Decides
<1>5. Sent'
  BY <1>1, <1>2, <1>3 DEF CallInv, Sent, Decides
<1>6. Kept'
  BY <1>1, <1>2, <1>3 DEF CallInv, Kept, Decides
<1>7. Registered'
  BY <1>2 DEF CallInv, Registered, Decides, TypeOK
<1>8. Heard'
  BY <1>2, DecisionKeepsHeard DEF CallInv
<1> QED BY <1>4, <1>5, <1>6, <1>7, <1>8 DEF CallInv

\* A call that is forwarded waits, ends at once without a child, or raises.
LEMMA ForwardKeeps ==
    ASSUME TypeOK, CallInv, NEW c \in Calls, NEW r, NEW e, Decides(c, r), Forward(c, r, e)
    PROVE  CallInv'
<1>1. c \notin Taken /\ pc[c] # "done" /\ Taken \subseteq Calls
  BY DEF CallInv, Sent, Taken, Decides, TypeOK
<1>2. req'[c] = r /\ \A d \in Calls \ {c} : req'[d] = req[d]
  BY DEF Decides, TypeOK
<1>3. r.id \in RequestIds /\ r.kind \in {"tool", "plain"}
  BY DEF Decides, Requests, ToolRequests, PlainRequests
<1>4. \A id \in RequestIds : table[id] # c
  BY ProxyAssumption DEF CallInv, Registered, Decides
<1>5. CASE ForwardNoProcess(c, r, e)
  <2>1. Taken = {} /\ Taken' = {} /\ UNCHANGED <<inbox, executed, answered, fut, table>>
    BY <1>5 DEF ForwardNoProcess, CallInv, Sent, Taken, Decides
  <2>2. \/ Ends(c, "SENT_CHILD_NO_RESPONSE")
        \/ pc' = [pc EXCEPT ![c] = "done"] /\ receipts' = receipts
    BY <1>5, ConcludeEnds DEF ForwardNoProcess
  <2>3. \A d \in Calls \ {c} : pc'[d] = pc[d]
    BY <2>2, EndLeaves DEF TypeOK
  <2>4. Told' /\ Once'
    <3>1. CASE Ends(c, "SENT_CHILD_NO_RESPONSE")
      BY <1>1, <2>1, <3>1, EndKeepsReceipts DEF CallInv
    <3>2. CASE receipts' = receipts
      BY <1>1, <2>1, <2>3, <3>2, StepKeepsReceipts DEF CallInv
    <3> QED BY <2>2, <3>1, <3>2
  <2>5. Sent' /\ Kept'
    BY <2>1 DEF Sent, Kept
  <2>6. Registered'
    BY <1>2, <1>4, <2>1, <2>3 DEF CallInv, Registered, TypeOK
  <2>7. Heard'
    BY <2>1, <2>3, DecisionKeepsHeard DEF CallInv
  <2> QED BY <2>4, <2>5, <2>6, <2>7 DEF CallInv
<1>6. ASSUME NEW x \in {"draining", "waiting", "raised"}, pc' = [pc EXCEPT ![c] = x],
             fut' = [fut EXCEPT ![c] = "pending"], table' = [table EXCEPT ![r.id] = c],
             Taken' \subseteq Taken \cup {c}, receipts' = receipts, outcomes' = outcomes,
             child # "absent",
             x = "raised" => ~stdinOpen
      PROVE  CallInv'
  <2>1. pc'[c] = x /\ \A d \in Calls \ {c} : pc'[d] = pc[d]
    BY <1>6 DEF TypeOK
  <2>2. Told' /\ Once'
    BY <1>1, <1>6, <2>1, StepKeepsReceipts DEF CallInv, Decides
  <2>3. Sent'
    BY <1>1, <1>6, <2>1 DEF CallInv, Sent, Decides
  <2>4. Kept'
    <3>1. CASE x = "raised"
      BY <1>1, <1>2, <1>6, <2>1, <3>1 DEF CallInv, Kept, Decides
    <3>2. CASE x # "raised"
      BY <1>1, <1>2, <1>6, <2>1, <3>2 DEF CallInv, Kept, Decides
    <3> QED BY <3>1, <3>2
  <2>5. Registered'
    <3> SUFFICES ASSUME NEW id \in RequestIds, table'[id] # NoCall
                 PROVE  /\ fut'[table'[id]] = "pending"
                        /\ pc'[table'[id]] \in {"draining", "waiting", "raised"}
                        /\ req'[table'[id]].id = id
      BY DEF Registered
    <3>1. CASE id = r.id
      BY <1>2, <1>6, <2>1, <3>1 DEF TypeOK
    <3>2. CASE id # r.id
      <4>1. table'[id] = table[id] /\ table[id] \in Calls \ {c}
        BY <1>4, <1>6, <3>2 DEF TypeOK
      <4> QED BY <1>2, <1>6, <2>1, <4>1 DEF CallInv, Registered, TypeOK
    <3> QED BY <3>1, <3>2
  <2>6. Heard'
    <3>1. \A d \in Calls : fut'[d] \in {"result", "error"} => fut'[d] = fut[d]
      BY <1>6 DEF TypeOK
    <3> QED BY <2>1, <3>1, DecisionKeepsHeard DEF CallInv
  <2> QED BY <2>2, <2>3, <2>4, <2>5, <2>6 DEF CallInv
<1>7. CASE ForwardToLostPipe(c, r, e)
  <2>1. Taken' = Taken
    BY <1>7 DEF ForwardToLostPipe, Taken, Decides
  <2> QED BY <1>6, <1>7, <2>1 DEF ForwardToLostPipe, Raise
<1>8. CASE ForwardToPipe(c, r, e)
  <2>1. Taken' \subseteq Taken \cup {c}
    BY <1>8 DEF ForwardToPipe, Taken, Decides
  <2>2. PICK x \in {"draining", "waiting"} : pc' = [pc EXCEPT ![c] = x]
    BY <1>8 DEF ForwardToPipe
  <2> QED BY <1>6, <1>8, <2>1, <2>2 DEF ForwardToPipe
<1> QED BY <1>5, <1>7, <1>8 DEF Forward

LEMMA ReceiveKeeps ==
    ASSUME TypeOK, CallInv, NEW c \in Calls, Receive(c)
    PROVE  CallInv'
<1>1. PICK id \in RequestIds :
        \/ \E t \in Tools, cbac \in BOOLEAN : ReceiveDenied(c, id, t, cbac)
        \/ \E t \in Tools : ReceiveForAudit(c, id, t)
        \/ \E t \in Tools : ReceivePermitted(c, id, t)
        \/ ReceivePlain(c, id)
  BY DEF Receive
<1>2. ASSUME NEW t \in Tools, NEW cbac \in BOOLEAN, ReceiveDenied(c, id, t, cbac)
      PROVE  CallInv'
  <2>1. ToolRequest(id, t) \in Requests
    BY ToolRequestType DEF Requests
  <2>2. Decides(c, ToolRequest(id, t)) /\ UNCHANGED <<fut, table, inbox>>
    BY <1>2, <2>1, AcceptDecides DEF ReceiveDenied
  <2>3. Ends(c, "NOT_SENT")
    BY <1>2, RefuseEnds DEF ReceiveDenied
  <2> QED BY <2>2, <2>3, RefuseKeeps
<1>3. ASSUME NEW t \in Tools, ReceiveForAudit(c, id, t)
      PROVE  CallInv'
  <2>1. ToolRequest(id, t) \in Requests
    BY ToolRequestType DEF Requests
  <2>2. Decides(c, ToolRequest(id, t)) /\ pc' = [pc EXCEPT ![c] = "auditing"]
        /\ UNCHANGED <<fut, table, inbox, receipts, outcomes>>
    BY <1>3, <2>1, AcceptDecides DEF ReceiveForAudit
  <2>3. c \notin Taken /\ Taken' = Taken /\ pc[c] # "done" /\ Taken \subseteq Calls
    BY <2>2 DEF CallInv, Sent, Taken, Decides, TypeOK
  <2>4. /\ pc'[c] = "auditing"
        /\ \A d \in Calls \ {c} : pc'[d] = pc[d] /\ req'[d] = req[d]
    BY <2>2 DEF Decides, TypeOK
  <2>5. Told' /\ Once'
    BY <2>2, <2>3, <2>4, StepKeepsReceipts DEF CallInv, Decides
  <2>6. Sent' /\ Kept'
    BY <2>2, <2>3, <2>4 DEF CallInv, Sent, Kept, Decides
  <2>7. Registered'
    BY <2>2, <2>4 DEF CallInv, Registered, Decides, TypeOK
  <2>8. Heard'
    BY <2>2, <2>4, DecisionKeepsHeard DEF CallInv
  <2> QED BY <2>5, <2>6, <2>7, <2>8 DEF CallInv
<1>4. ASSUME NEW t \in Tools, ReceivePermitted(c, id, t)
      PROVE  CallInv'
  <2>1. ToolRequest(id, t) \in Requests
    BY ToolRequestType DEF Requests
  <2>2. Decides(c, ToolRequest(id, t))
    BY <1>4, <2>1, AcceptDecides DEF ReceivePermitted
  <2> QED BY <1>4, <2>2, ForwardKeeps DEF ReceivePermitted
<1>5. CASE ReceivePlain(c, id)
  <2> DEFINE r == [kind |-> "plain", id |-> id]
  <2>1. r \in Requests
    BY DEF Requests, PlainRequests
  <2>2. Accept(c, r) /\ Forward(c, r, eng)
    BY <1>5 DEF ReceivePlain
  <2> HIDE DEF r
  <2> QED BY <2>1, <2>2, AcceptDecides, ForwardKeeps
<1> QED BY <1>1, <1>2, <1>3, <1>4, <1>5

LEMMA AuditedKeeps ==
    ASSUME TypeOK, CallInv, NEW c \in Calls, Audited(c)
    PROVE  CallInv'
<1>1. PICK v \in Verdicts : AuditPermits(c, v) \/ AuditRefuses(c, v)
  BY DEF Audited
<1>2. pc[c] = "auditing" /\ UNCHANGED AfterAudit
  BY <1>1 DEF AuditPermits, AuditRefuses, AfterAudit
<1>3. Decides(c, req[c])
  BY <1>2, AuditDecides
<1>4. CASE AuditPermits(c, v)
  BY <1>3, <1>4, ForwardKeeps DEF AuditPermits
<1>5. CASE AuditRefuses(c, v)
  <2>1. Ends(c, "NOT_SENT")
    BY <1>5, RefuseEnds DEF AuditRefuses
  <2> QED BY <1>3, <1>5, <2>1, RefuseKeeps DEF AuditRefuses
<1> QED BY <1>1, <1>4, <1>5

LEMMA DrainedKeeps ==
    ASSUME TypeOK, CallInv, NEW c \in Calls, Drained(c)
    PROVE  CallInv'
<1>1. /\ pc[c] = "draining"
      /\ UNCHANGED <<req, fut, table, child, stdinOpen, inbox, executed, answered, stdout,
                     ledgerOk, receipts, outcomes>>
  BY DEF Drained, DrainReturns, DrainRaises, childVars
<1>2. PICK x \in {"waiting", "raised"} : pc' = [pc EXCEPT ![c] = x] /\ (x = "raised" => ~stdinOpen)
  BY DEF Drained, DrainReturns, DrainRaises, Raise
<1>3. pc'[c] = x /\ (\A d \in Calls \ {c} : pc'[d] = pc[d]) /\ Taken' = Taken /\ Taken \subseteq Calls
  BY <1>1, <1>2 DEF TypeOK, Taken
<1>4. Told' /\ Once'
  BY <1>1, <1>3, StepKeepsReceipts DEF CallInv
<1>5. Sent' /\ Kept'
  BY <1>1, <1>2, <1>3 DEF CallInv, Sent, Kept
<1>6. Registered'
  BY <1>1, <1>3 DEF CallInv, Registered, TypeOK
<1>7. Heard'
  BY <1>1, <1>3 DEF CallInv, Heard
<1> QED BY <1>4, <1>5, <1>6, <1>7 DEF CallInv

\* A call that resumes says what it saw, and leaves the table.
LEMMA ResumeKeeps ==
    ASSUME TypeOK, CallInv, NEW c \in Calls, Resume(c)
    PROVE  CallInv'
<1>1. /\ pc[c] = "waiting" /\ UNCHANGED <<req, fut, dispatcher, childVars, ledgerOk>>
      /\ req[c] \in Requests
  BY ResumeConcludes DEF TypeOK, Requests
<1>2. PICK obs \in {"RESPONSE_RECEIVED", "SENT_CHILD_NO_RESPONSE"} :
        /\ Conclude(c, req[c], eng, obs)
        /\ obs = "RESPONSE_RECEIVED" => fut[c] = "result"
  BY DEF Resume, ResumeAnswered, ResumeLost, TimeOut
<1>3. \/ req[c].kind = "tool" /\ Ends(c, obs)
      \/ /\ req[c].kind = "plain" /\ pc' = [pc EXCEPT ![c] = "done"]
         /\ UNCHANGED <<receipts, outcomes>>
  BY <1>2, ConcludeEnds
<1>4. UNCHANGED <<inbox, executed, answered, stdout, child, stdinOpen>> /\ Taken' = Taken /\ Taken \subseteq Calls
  BY <1>1 DEF childVars, Taken, TypeOK
<1>5. /\ \A d \in Calls \ {c} : pc'[d] = pc[d]
      /\ pc'[c] \in {"done", "raised"}
      /\ \A i \in DOMAIN receipts : i \in DOMAIN receipts' /\ receipts'[i] = receipts[i]
      /\ \A i \in DOMAIN outcomes : i \in DOMAIN outcomes' /\ outcomes'[i] = outcomes[i]
  <2>1. CASE Ends(c, obs)
    BY <2>1, EndLeaves
  <2>2. CASE pc' = [pc EXCEPT ![c] = "done"] /\ UNCHANGED <<receipts, outcomes>>
    BY <2>2 DEF TypeOK
  <2> QED BY <1>3, <2>1, <2>2
<1>6. Told' /\ Once'
  <2>1. CASE Ends(c, obs)
    <3>1. UniqueIds /\ obs = "RESPONSE_RECEIVED" => c \in answered
      BY <1>2 DEF CallInv, Heard
    <3> QED BY <1>1, <1>2, <1>4, <2>1, <3>1, EndKeepsReceipts DEF CallInv
  <2>2. CASE receipts' = receipts
    BY <1>1, <1>4, <1>5, <2>2, StepKeepsReceipts DEF CallInv
  <2> QED BY <1>3, <2>1, <2>2
<1>7. Sent'
  BY <1>4, <1>5 DEF CallInv, Sent
<1>8. Kept'
  <2>1. ASSUME req[c].kind = "tool"
        PROVE  \E i \in DOMAIN outcomes' :
                  /\ outcomes'[i].call = c /\ outcomes'[i].obs # "NOT_SENT"
                  /\ \/ pc'[c] = "raised"
                     \/ \E k \in DOMAIN receipts' :
                           receipts'[k].call = c /\ receipts'[k].obs = outcomes'[i].obs
    <3>1. Ends(c, obs)
      BY <1>3, <2>1
    <3>2. PICK i \in DOMAIN outcomes' : outcomes'[i].call = c /\ outcomes'[i].obs = obs
      BY <3>1 DEF Ends, Logged
    <3>3. \/ pc'[c] = "raised"
          \/ \E k \in DOMAIN receipts' : receipts'[k].call = c /\ receipts'[k].obs = obs
      BY <3>1 DEF Ends, Records, Logged, TypeOK
    <3> QED BY <1>2, <3>2, <3>3
  <2>2. \A d \in Taken' \ {c} : pc'[d] = pc[d] /\ req'[d] = req[d] /\ d \in Taken
    BY <1>1, <1>4, <1>5
  <2> QED BY <1>1, <1>4, <1>5, <2>1, <2>2 DEF CallInv, Kept

<1>9. Registered'
  <2>1. req[c].id \in RequestIds
    BY <1>1 DEF Requests, ToolRequests, PlainRequests
  <2>2. \A id \in RequestIds : table'[id] # NoCall => table'[id] = table[id] /\ table[id] # c
    <3>1. CASE ResumeAnswered(c)
      BY <3>1 DEF ResumeAnswered, CallInv, Registered
    <3>2. CASE ResumeLost(c)
      BY <2>1, <3>2 DEF ResumeLost, Release, CallInv, Registered, TypeOK
    <3>3. CASE TimeOut(c)
      BY <2>1, <3>3 DEF TimeOut, Release, CallInv, Registered, TypeOK
    <3> QED BY <3>1, <3>2, <3>3 DEF Resume
  <2> QED BY <1>1, <1>5, <2>2 DEF CallInv, Registered, TypeOK
<1>10. Heard'
  BY <1>1, <1>4, <1>5 DEF CallInv, Heard
<1> QED BY <1>6, <1>7, <1>8, <1>9, <1>10 DEF CallInv

-----------------------------------------------------------------------------
(* The dispatcher, the child and the rest.                                  *)

LEMMA DispatcherEndsKeeps ==
    ASSUME TypeOK, CallInv, DispatcherEnds, UNCHANGED <<pc, req, answered>>
    PROVE  /\ Registered'
           /\ \A c \in Calls : fut'[c] \in {"result", "error"} => fut'[c] = fut[c]
BY DEF DispatcherEnds, Registered, TypeOK

LEMMA DispatchKeeps ==
    ASSUME TypeOK, CallInv, Dispatch
    PROVE  CallInv'
<1>1. UNCHANGED <<pc, req, child, stdinOpen, inbox, executed, answered, ledgerOk,
                receipts, outcomes>>
  BY DEF Dispatch, DispatchMessage, DispatchGarbage, DispatchEof, childVars
<1>2. Sent' /\ Told' /\ Once' /\ Kept'
  BY <1>1 DEF CallInv, Sent, Told, Once, Kept, Taken
<1>3. \A i \in DOMAIN stdout' : \E j \in DOMAIN stdout : stdout'[i] = stdout[j]
  <2>1. stdout' = stdout \/ (stdout # << >> /\ stdout' = Tail(stdout))
    BY DEF Dispatch, DispatchMessage, DispatchGarbage, DispatchEof, childVars
  <2>2. stdout \in Seq(Messages \cup {Garbage})
    BY DEF TypeOK
  <2> QED BY <2>1, <2>2
<1>4. CASE DispatchGarbage \/ DispatchEof
  <2>1. DispatcherEnds
    BY <1>4 DEF DispatchGarbage, DispatchEof
  <2>2. Registered' /\ \A c \in Calls : fut'[c] \in {"result", "error"} => fut'[c] = fut[c]
    BY <1>1, <2>1, DispatcherEndsKeeps
  <2>3. Heard'
    BY <1>1, <1>3, <2>2 DEF CallInv, Heard
  <2> QED BY <1>2, <2>2, <2>3 DEF CallInv
<1>5. CASE DispatchMessage
  <2> DEFINE msg == Head(stdout)
             c == table[msg.id]
  <2>1. stdout \in Seq(Messages \cup {Garbage}) /\ stdout # << >> /\ msg # Garbage
    BY <1>5 DEF DispatchMessage, TypeOK
  <2>2. 1 \in DOMAIN stdout /\ msg = stdout[1] /\ msg \in Messages
    BY <2>1
  <2>3. msg.id \in RequestIds /\ msg.kind \in {"result", "error"}
    BY <2>2 DEF Messages
  <2>4. CASE c = NoCall /\ UNCHANGED <<fut, table>>
    <3>1. Registered'
      BY <1>1, <2>4 DEF CallInv, Registered
    <3>2. Heard'
      BY <1>1, <1>3, <2>4 DEF CallInv, Heard
    <3> QED BY <1>2, <3>1, <3>2 DEF CallInv
  <2>5. CASE /\ c # NoCall
             /\ fut' = [fut EXCEPT ![c] = IF @ = "pending" THEN msg.kind ELSE @]
             /\ table' = [table EXCEPT ![msg.id] = NoCall]
    <3>1. c \in Calls /\ req[c].id = msg.id /\ pc[c] # "idle"
      BY <2>3, <2>5 DEF CallInv, Registered, TypeOK
    <3>2. Registered'
      <4> SUFFICES ASSUME NEW id \in RequestIds, table'[id] # NoCall
                   PROVE  /\ fut'[table'[id]] = "pending"
                          /\ pc'[table'[id]] \in {"draining", "waiting", "raised"}
                          /\ req'[table'[id]].id = id
        BY DEF Registered
      <4>1. id # msg.id /\ table'[id] = table[id] /\ table[id] \in Calls
        BY <2>3, <2>5 DEF TypeOK
      <4>2. req[table[id]].id = id /\ fut[table[id]] = "pending"
            /\ pc[table[id]] \in {"draining", "waiting", "raised"}
        BY <4>1 DEF CallInv, Registered
      <4>3. table[id] # c
        BY <3>1, <4>1, <4>2
      <4>4. fut'[table[id]] = fut[table[id]]
        BY <2>5, <4>1, <4>3 DEF TypeOK
      <4> QED BY <1>1, <4>1, <4>2, <4>4
    <3>3. Heard'
      <4> SUFFICES ASSUME UniqueIds PROVE Heard'
        BY DEF Heard
      <4>1. PICK d \in answered : req[d].id = msg.id
        BY <2>1, <2>2 DEF CallInv, Heard
      <4>2. d \in Calls /\ pc[d] # "idle"
        BY <4>1 DEF TypeOK
      <4>3. c \in answered
        BY <3>1, <4>1, <4>2 DEF CallInv, Heard
      <4>4. \A a \in Calls : fut'[a] \in {"result", "error"} => a \in answered'
        BY <1>1, <2>5, <3>1, <4>3 DEF CallInv, Heard, TypeOK
      <4> HIDE DEF msg, c
      <4> QED BY <1>1, <1>3, <4>4 DEF CallInv, Heard
    <3> QED BY <1>2, <3>2, <3>3 DEF CallInv
  <2> QED BY <1>5, <2>4, <2>5 DEF DispatchMessage
<1> QED BY <1>4, <1>5 DEF Dispatch

LEMMA ChildKeeps ==
    ASSUME TypeOK, CallInv, NEW c \in Calls, Child(c)
    PROVE  CallInv'
<1>1. CASE ChildExecutes(c)
  <2>1. Taken' = Taken /\ UNCHANGED <<pc, req, fut, table, child, stdinOpen, answered, stdout,
                                      ledgerOk, receipts, outcomes>>
    BY <1>1 DEF ChildExecutes, Taken, callVars
  <2> QED BY <2>1 DEF CallInv, Sent, Told, Once, Kept, Registered, Heard
<1>2. ASSUME NEW kind \in {"result", "error"}, ChildAnswers(c, kind)
      PROVE  CallInv'
  <2>1. /\ Taken' = Taken /\ answered' = answered \cup {c}
        /\ stdout' = Append(stdout, [id |-> req[c].id, kind |-> kind])
        /\ UNCHANGED <<pc, req, fut, table, child, stdinOpen, inbox, executed, ledgerOk,
                       receipts, outcomes>>
    BY <1>2 DEF ChildAnswers, Taken, callVars
  <2>2. Sent' /\ Told' /\ Once' /\ Kept' /\ Registered'
    BY <2>1 DEF CallInv, Sent, Told, Once, Kept, Registered
  <2>3. \A i \in DOMAIN stdout' :
          \/ stdout'[i].id = req[c].id
          \/ i \in DOMAIN stdout /\ stdout'[i] = stdout[i]
    <3> DEFINE line == [id |-> req[c].id, kind |-> kind]
    <3>1. line.id = req[c].id /\ stdout' = Append(stdout, line) /\ stdout \in Seq(Messages \cup {Garbage})
      BY <2>1 DEF TypeOK
    <3> HIDE DEF line
    <3> QED BY <3>1
  <2>4. Heard'
    BY <2>1, <2>3 DEF CallInv, Heard
  <2> QED BY <2>2, <2>4 DEF CallInv
<1> QED BY <1>1, <1>2 DEF Child

LEMMA OthersKeep ==
    ASSUME TypeOK, CallInv, Start \/ Close \/ ChildEmitsGarbage \/ ChildDies \/ StdinLost
    PROVE  CallInv'
<1>1. UNCHANGED <<pc, req, executed, answered, ledgerOk, receipts, outcomes>> /\ inbox' \subseteq inbox
  BY DEF Start, Close, ChildEmitsGarbage, ChildDies, StdinLost, callVars
<1>2. Taken' \subseteq Taken /\ (stdinOpen' => stdinOpen \/ Taken = {})
      /\ (child' = "absent" => child = "absent")
  BY <1>1 DEF Start, Close, ChildEmitsGarbage, ChildDies, StdinLost, Taken, CallInv, Sent, TypeOK
<1>3. Sent' /\ Told' /\ Once'
  BY <1>1, <1>2 DEF CallInv, Sent, Told, Once
<1>4. Kept'
  BY <1>1, <1>2 DEF CallInv, Kept, TypeOK
<1>5. \A i \in DOMAIN stdout' : stdout'[i] = Garbage \/ (i \in DOMAIN stdout /\ stdout'[i] = stdout[i])
  <2>1. stdout' = stdout \/ stdout' = Append(stdout, Garbage)
    BY DEF Start, Close, ChildEmitsGarbage, ChildDies, StdinLost
  <2>2. stdout \in Seq(Messages \cup {Garbage})
    BY DEF TypeOK
  <2> HIDE DEF Garbage
  <2> QED BY <2>1, <2>2
<1>6. Registered' /\ \A c \in Calls : fut'[c] \in {"result", "error"} => fut'[c] = fut[c]
  <2>1. CASE UNCHANGED <<fut, table>>
    BY <1>1, <2>1 DEF CallInv, Registered
  <2>2. CASE DispatcherEnds
    BY <1>1, <2>2, DispatcherEndsKeeps
  <2> QED BY <2>1, <2>2 DEF Start, Close, ChildEmitsGarbage, ChildDies, StdinLost, callVars
<1>7. Heard'
  BY <1>1, <1>5, <1>6 DEF CallInv, Heard
<1> QED BY <1>3, <1>4, <1>6, <1>7 DEF CallInv

LEMMA InitCallInv == Init => CallInv
BY DEF Init, CallInv, Sent, Told, Once, Kept, Registered, Heard, Taken

LEMMA StepCallInv == TypeOK /\ CallInv /\ [Next]_vars => CallInv'
<1> SUFFICES ASSUME TypeOK, CallInv, [Next]_vars PROVE CallInv'
  OBVIOUS
<1>1. CASE UNCHANGED vars
  BY <1>1 DEF vars, callVars, childVars, CallInv, Sent, Told, Once, Kept, Registered, Heard, Taken
<1>2. ASSUME NEW c \in Calls, Receive(c) \/ Audited(c) \/ Drained(c) \/ Resume(c) \/ Child(c)
      PROVE  CallInv'
  BY <1>2, ReceiveKeeps, AuditedKeeps, DrainedKeeps, ResumeKeeps, ChildKeeps
<1> QED BY <1>1, <1>2, DispatchKeeps, OthersKeep DEF Next

LEMMA AlwaysCallInv == Spec => [](TypeOK /\ CallInv)
<1>1. Init => TypeOK /\ CallInv
  BY InitTypeOK, InitCallInv
<1>2. TypeOK /\ CallInv /\ [Next]_vars => TypeOK' /\ CallInv'
  BY StepTypeOK, StepCallInv, ProxyAssumption, PolicyAssumption
<1> QED BY <1>1, <1>2, PTL DEF Spec

(* If clients do not reuse a request id, no receipt claims a response that  *)
(* the child did not give to this very call, and none denies a call that    *)
(* the child was given (mcp_stdio_proxy.py:205), in every interleaving.     *)
THEOREM ReceiptsAreTruthful == UniqueIds => (Spec => []ReceiptsTruthful)
<1>1. UniqueIds /\ CallInv => ReceiptsTruthful
  BY DEF CallInv, Told, ReceiptsTruthful, RecordedAs, Taken
<1> SUFFICES ASSUME UniqueIds PROVE Spec => []ReceiptsTruthful
  OBVIOUS
<1>2. CallInv => ReceiptsTruthful
  BY <1>1
<1> QED BY <1>2, AlwaysCallInv, PTL

(* A tool call that the child has taken up is awaited, or the engine was     *)
(* told that it was sent and its one receipt says the same; without receipt *)
(* only if process_message raised while it was written or recorded          *)
(* (mcp_stdio_proxy.py:203-205, ledger.py:287), also when ids are reused,   *)
(* and answers come late or never.                                          *)
THEOREM NoExecutionIsForgotten == Spec => []NoForgottenExecution
<1>1. TypeOK /\ CallInv => NoForgottenExecution
  <2> SUFFICES ASSUME TypeOK, CallInv, NEW c \in Calls
               PROVE  /\ c \in executed /\ req[c].kind = "tool" =>
                            \/ c \in Forwarded
                            \/ pc[c] = "raised" /\ ~stdinOpen
                            \/ \E obs \in {"RESPONSE_RECEIVED", "SENT_CHILD_NO_RESPONSE"} :
                                  OutcomeIs(c, obs) /\ (RecordedAs(c, obs) \/ pc[c] = "raised")
                      /\ \A i, j \in DOMAIN receipts :
                            receipts[i].call = c /\ receipts[j].call = c => i = j
    BY DEF NoForgottenExecution
  <2>1. \A i \in DOMAIN outcomes : outcomes[i].obs \in Observations
    BY OutcomeTypes
  <2>2. \A i, j \in DOMAIN receipts : receipts[i].call = c /\ receipts[j].call = c => i = j
    BY DEF CallInv, Once
  <2>3. ASSUME c \in executed, req[c].kind = "tool", c \notin Forwarded,
               ~(pc[c] = "raised" /\ ~stdinOpen)
        PROVE  \E obs \in {"RESPONSE_RECEIVED", "SENT_CHILD_NO_RESPONSE"} :
                  OutcomeIs(c, obs) /\ (RecordedAs(c, obs) \/ pc[c] = "raised")
    <3>1. PICK i \in DOMAIN outcomes :
             /\ outcomes[i].call = c /\ outcomes[i].obs # "NOT_SENT"
             /\ \/ pc[c] = "raised"
                \/ \E k \in DOMAIN receipts :
                      receipts[k].call = c /\ receipts[k].obs = outcomes[i].obs
      BY <2>3 DEF CallInv, Kept, Taken, Forwarded
    <3>2. outcomes[i].obs \in {"RESPONSE_RECEIVED", "SENT_CHILD_NO_RESPONSE"}
      BY <2>1, <3>1 DEF Observations
    <3>3. OutcomeIs(c, outcomes[i].obs)
      BY <3>1 DEF OutcomeIs
    <3>4. RecordedAs(c, outcomes[i].obs) \/ pc[c] = "raised"
      BY <3>1 DEF RecordedAs
    <3> QED BY <3>2, <3>3, <3>4
  <2> QED BY <2>2, <2>3
<1> QED BY <1>1, AlwaysCallInv, PTL

-----------------------------------------------------------------------------
(* What a call leaves in the engine: whose the pending transitions are, and *)
(* which certainty an outcome touches.                                      *)

\* A pending map has one entry per id.
Keyed(pend) == \A i, j \in DOMAIN pend : pend[i].id = pend[j].id => i = j

Ids(pend) == {pend[i].id : i \in DOMAIN pend}

\* The elements that removing one leaves, in their order.
LEMMA RemoveAtElements ==
    ASSUME NEW S, NEW s \in Seq(S), NEW m \in 1 .. Len(s)
    PROVE  /\ DOMAIN RemoveAt(s, m) = 1 .. Len(s) - 1
           /\ \A i \in 1 .. Len(s) - 1 :
                 /\ i < m => RemoveAt(s, m)[i] = s[i]
                 /\ i >= m => RemoveAt(s, m)[i] = s[i + 1]
<1> DEFINE n == Len(s)
           a == SubSeq(s, 1, m - 1)
           b == SubSeq(s, m + 1, n)
<1>1. n \in Nat /\ \A i \in 1 .. n : s[i] \in S
  BY LenProperties, ElementOfSeq
<1>2. a \in Seq(S) /\ Len(a) = m - 1 /\ \A i \in 1 .. m - 1 : a[i] = s[i]
  <2>1. 1 \in Int /\ m - 1 \in Int /\ \A i \in 1 .. m - 1 : s[i] \in S
    BY <1>1
  <2>2. /\ a \in Seq(S)
        /\ Len(a) = IF 1 <= m - 1 THEN (m - 1) - 1 + 1 ELSE 0
        /\ \A i \in 1 .. (m - 1) - 1 + 1 : a[i] = s[1 + i - 1]
    BY <2>1, SubSeqProperties
  <2>3. m \in Nat /\ m >= 1
    BY <1>1
  <2> HIDE DEF a
  <2> QED BY <2>2, <2>3
<1>3. b \in Seq(S) /\ Len(b) = n - m /\ \A i \in 1 .. n - m : b[i] = s[m + i]
  <2>1. m + 1 \in Int /\ n \in Int /\ \A i \in m + 1 .. n : s[i] \in S
    BY <1>1
  <2>2. /\ b \in Seq(S)
        /\ Len(b) = IF m + 1 <= n THEN n - (m + 1) + 1 ELSE 0
        /\ \A i \in 1 .. n - (m + 1) + 1 : b[i] = s[(m + 1) + i - 1]
    BY <2>1, SubSeqProperties
  <2>3. m \in Nat /\ m <= n
    BY <1>1
  <2>4. \A i \in 1 .. n - m : (m + 1) + i - 1 = m + i
    BY <1>1, <2>3
  <2> HIDE DEF b
  <2> QED BY <1>1, <2>2, <2>3, <2>4
<1>4. /\ a \o b \in Seq(S) /\ Len(a \o b) = Len(a) + Len(b)
      /\ \A i \in 1 .. Len(a) + Len(b) :
            (a \o b)[i] = IF i <= Len(a) THEN a[i] ELSE b[i - Len(a)]
  BY <1>2, <1>3, ConcatProperties
<1>5. RemoveAt(s, m) = a \o b
  BY DEF RemoveAt
<1>6. DOMAIN (a \o b) = 1 .. n - 1
  <2>1. DOMAIN (a \o b) = 1 .. Len(a \o b)
    BY <1>4, LenProperties
  <2>2. m \in Nat /\ (m - 1) + (n - m) = n - 1
    BY <1>1
  <2>3. Len(a \o b) = n - 1
    <3> HIDE DEF a, b, n
    <3> QED BY <1>2, <1>3, <1>4, <2>2
  <2> QED BY <2>1, <2>3
<1>7. ASSUME NEW i \in 1 .. n - 1
      PROVE  /\ i < m => (a \o b)[i] = s[i]
             /\ i >= m => (a \o b)[i] = s[i + 1]
  <2>1. i \in 1 .. Len(a) + Len(b) /\ m \in Nat /\ i \in Nat
    <3>1. m \in Nat /\ i \in Nat /\ (m - 1) + (n - m) = n - 1
      BY <1>1
    <3> HIDE DEF a, b, n
    <3> QED BY <1>2, <1>3, <3>1
  <2>2. i < m => i <= Len(a) /\ i \in 1 .. m - 1
    BY <1>1, <1>2, <2>1
  <2>3. i >= m => ~(i <= Len(a)) /\ i - Len(a) \in 1 .. n - m /\ m + (i - Len(a)) = i + 1
    BY <1>1, <1>2, <2>1
  <2> HIDE DEF a, b, n
  <2>4. i < m => (a \o b)[i] = s[i]
    BY <1>2, <1>4, <2>1, <2>2
  <2>5. i >= m => (a \o b)[i] = s[i + 1]
    BY <1>3, <1>4, <2>1, <2>3
  <2> QED BY <2>4, <2>5
<1> HIDE DEF a, b
<1> QED BY <1>5, <1>6, <1>7

LEMMA StoreKeyed ==
    ASSUME NEW pend \in Seq(PendingEntry), NEW e \in PendingEntry, Keyed(pend)
    PROVE  Keyed(Store(pend, e)) /\ Ids(Store(pend, e)) \subseteq Ids(pend) \cup {e.id}
<1>1. CASE \E i \in DOMAIN pend : pend[i].id = e.id
  <2>1. Store(pend, e) = [i \in DOMAIN pend |-> IF pend[i].id = e.id THEN e ELSE pend[i]]
    BY <1>1 DEF Store
  <2>2. /\ DOMAIN Store(pend, e) = DOMAIN pend
        /\ \A i \in DOMAIN pend : Store(pend, e)[i].id = pend[i].id
    BY <2>1
  <2> QED BY <2>2 DEF Keyed, Ids
<1>2. CASE ~\E i \in DOMAIN pend : pend[i].id = e.id
  <2>1. Store(pend, e) = Append(pend, e)
    BY <1>2 DEF Store
  <2>2. /\ DOMAIN Store(pend, e) = 1 .. Len(pend) + 1
        /\ \A i \in 1 .. Len(pend) : Store(pend, e)[i] = pend[i]
        /\ Store(pend, e)[Len(pend) + 1] = e
        /\ DOMAIN pend = 1 .. Len(pend) /\ Len(pend) \in Nat
    BY <2>1, AppendProperties, LenProperties
  <2> QED BY <1>2, <2>2 DEF Keyed, Ids
<1> QED BY <1>1, <1>2

\* evaluate adds at most an entry under the request's own id.
LEMMA EvaluateKeyed ==
    ASSUME NEW E \in Engine, NEW id \in RequestIds, NEW t \in Tools, Keyed(E.pend)
    PROVE  /\ Keyed(Evaluate(E, id, t).pend)
           /\ Ids(Evaluate(E, id, t).pend) \subseteq Ids(E.pend) \cup {id}
<1>1. CASE Movers(E, t) = {}
  BY <1>1 DEF Evaluate
<1>2. CASE Movers(E, t) # {}
  <2> DEFINE w == LastMover(E, t)
             e == [id |-> id, wf |-> w, to |-> Move[w][<<E.state[w], t>>], tool |-> t]
  <2>1. w \in Workflow /\ Move[w][<<E.state[w], t>>] # Stay
    BY <1>2, LastMoverExists, PolicyAssumption DEF Movers
  <2>2. E.state[w] \in States
    BY <2>1 DEF Engine
  <2>3. Move[w][<<E.state[w], t>>] \in States
    BY <2>1, <2>2, PolicyAssumption
  <2>4. e \in PendingEntry /\ e.id = id
    BY <2>1, <2>3 DEF PendingEntry
  <2>5. Evaluate(E, id, t) = [E EXCEPT !.pend = Store(E.pend, e)]
    BY <1>2 DEF Evaluate
  <2> HIDE DEF e, w
  <2>6. E.pend \in Seq(PendingEntry) /\ Evaluate(E, id, t).pend = Store(E.pend, e)
    BY <2>5 DEF Engine
  <2> QED BY <2>4, <2>6, StoreKeyed
<1> QED BY <1>1, <1>2

\* commit_outcome leaves nothing under the request's id.
LEMMA DiscardKeyed ==
    ASSUME NEW E \in Engine, NEW id \in RequestIds, NEW t \in Tools, Keyed(E.pend)
    PROVE  /\ Keyed(Discard(E, id, t).pend)
           /\ Ids(Discard(E, id, t).pend) \subseteq Ids(E.pend) \ {id}
<1> DEFINE p == E.pend
           m == FirstMatch(p, id, t)
<1>1. p \in Seq(PendingEntry) /\ DOMAIN p = 1 .. Len(p) /\ Len(p) \in Nat
  BY LenProperties DEF Engine
<1>2. CASE Matches(p, id, t) = {}
  <2>1. Discard(E, id, t) = E /\ \A i \in DOMAIN p : p[i].id # id
    BY <1>2 DEF Discard, Matches
  <2> QED BY <2>1 DEF Ids
<1>3. CASE Matches(p, id, t) # {}
  <2>1. m \in Matches(p, id, t) /\ m \in 1 .. Len(p)
    BY <1>1, <1>3, FirstMatchExists
  <2>2. Discard(E, id, t).pend = RemoveAt(p, m)
    BY <1>3 DEF Discard, Engine
  <2>3. \A i \in DOMAIN p : p[i].id = id => i = m
    BY <2>1 DEF Matches, Keyed
  <2> DEFINE q == RemoveAt(p, m)
  <2> HIDE DEF m
  <2>4. /\ DOMAIN q = 1 .. Len(p) - 1
        /\ \A i \in 1 .. Len(p) - 1 :
              (i < m => q[i] = p[i]) /\ (i >= m => q[i] = p[i + 1])
    BY <1>1, <2>1, RemoveAtElements
  <2> HIDE DEF p, q
  <2>5. \A i \in DOMAIN q : \E j \in DOMAIN p \ {m} :
           q[i] = p[j] /\ j = IF i < m THEN i ELSE i + 1
    BY <1>1, <2>1, <2>4
  <2>6. \A i \in DOMAIN q : q[i].id # id /\ q[i].id \in Ids(p)
    BY <2>3, <2>5 DEF Ids
  <2>7. \A i, j \in DOMAIN q : q[i].id = q[j].id => i = j
    <3> SUFFICES ASSUME NEW i \in DOMAIN q, NEW j \in DOMAIN q, q[i].id = q[j].id
                 PROVE  i = j
      OBVIOUS
    <3>1. PICK k \in DOMAIN p \ {m} : q[i] = p[k] /\ k = IF i < m THEN i ELSE i + 1
      BY <2>5
    <3>2. PICK l \in DOMAIN p \ {m} : q[j] = p[l] /\ l = IF j < m THEN j ELSE j + 1
      BY <2>5
    <3>3. k = l
      BY <3>1, <3>2 DEF Keyed, p
    <3> QED BY <1>1, <2>1, <2>4, <3>1, <3>2, <3>3
  <2> QED BY <2>2, <2>6, <2>7 DEF Keyed, Ids, q, p
<1> QED BY <1>2, <1>3

LEMMA OwnerType ==
    ASSUME NEW pend \in Seq(PendingEntry), NEW id, NEW t, NumWorkflows > 0
    PROVE  Owner(pend, id, t) \in Workflow
<1>1. 1 \in Workflow
  BY PolicyAssumption DEF Workflow
<1>2. Matches(pend, id, t) # {} => pend[FirstMatch(pend, id, t)] \in PendingEntry
  BY FirstMatchExists, ElementOfSeq
<1> QED BY <1>1, <1>2 DEF Owner, PendingEntry

\* What a call's outcome leaves: no entry of its id, and doubt if it was lost.
Settles(E, F, id, obs) ==
    /\ F \in Engine
    /\ Keyed(F.pend) /\ Ids(F.pend) \subseteq Ids(E.pend) \ {id}
    /\ obs = "NOT_SENT" => F.cert = E.cert
    /\ obs = "SENT_CHILD_NO_RESPONSE" /\ NumWorkflows > 0 =>
          \E w \in Workflow : F.cert[w] = "UNKNOWN"

LEMMA CommitSettles ==
    ASSUME NEW E \in Engine, NEW id \in RequestIds, NEW t \in Tools, NEW obs \in Observations,
           Keyed(E.pend)
    PROVE  Settles(E, CommitOutcome(E, id, t, obs), id, obs)
<1> DEFINE F == CommitOutcome(E, id, t, obs)
<1> SUFFICES Settles(E, F, id, obs)
  OBVIOUS
<1>1. CASE obs = "RESPONSE_RECEIVED"
  <2>1. F = Confirm(E, id, t)
    BY <1>1 DEF CommitOutcome
  <2> HIDE DEF F
  <2>2. Confirmed(E, F, id, t)
    BY <2>1, ConfirmType
  <2>3. F \in Engine /\ F.pend = Discard(E, id, t).pend
    BY <2>2 DEF Confirmed
  <2> QED BY <1>1, <2>3, DiscardKeyed DEF Settles
<1>2. CASE obs = "SENT_CHILD_NO_RESPONSE"
  <2>1. F = Lose(E, id, t)
    BY <1>2 DEF CommitOutcome
  <2> HIDE DEF F
  <2>2. Lost(E, F, id, t)
    BY <2>1, LoseType
  <2>3. NumWorkflows > 0 => \E w \in Workflow : F.cert[w] = "UNKNOWN"
    BY <2>2, OwnerType DEF Lost, Engine
  <2>4. F \in Engine /\ F.pend = Discard(E, id, t).pend
    BY <2>2 DEF Lost
  <2> QED BY <1>2, <2>3, <2>4, DiscardKeyed DEF Settles
<1>3. CASE obs = "NOT_SENT"
  <2>1. F = Discard(E, id, t)
    BY <1>3 DEF CommitOutcome
  <2> HIDE DEF F
  <2> QED BY <1>3, <2>1, DiscardType, DiscardKeyed DEF Settles
<1> QED BY <1>1, <1>2, <1>3 DEF Observations

-----------------------------------------------------------------------------
(* The second invariant: every pending transition belongs to a call that is *)
(* not over, and a lost call leaves a doubt.                                *)

\* The tool calls that may still commit an outcome, or raised before it.
Live ==
    {c \in Calls : pc[c] \in {"auditing", "draining", "waiting", "raised"} /\ req[c].kind = "tool"}

PendOwned ==
    /\ Keyed(eng.pend)
    /\ \A x \in Ids(eng.pend) : \E c \in Live : req[c].id = x

EngInv == PendOwned /\ LostCallLeavesDoubt

\* Call c makes a step for request r, with e the engine state so far.
Turns(c, r, e) ==
    /\ r \in Requests
    /\ pc[c] = "idle" \/ req[c] = r
    /\ req' = [req EXCEPT ![c] = r] /\ ledgerOk' = ledgerOk
    /\ e \in Engine /\ e.cert = eng.cert
    /\ Keyed(e.pend) /\ Ids(e.pend) \subseteq Ids(eng.pend) \cup {r.id}
    /\ r.kind = "plain" => e = eng

\* The outcome of a tool call leaves the engine as the invariant asks.
LEMMA OutcomeKeeps ==
    ASSUME TypeOK, EngInv, NEW c \in Calls, NEW r, NEW e, Turns(c, r, e),
           NEW obs \in Observations, Ends(c, obs), Settles(e, eng', r.id, obs)
    PROVE  EngInv'
<1>1. req'[c] = r /\ \A d \in Calls \ {c} : pc'[d] = pc[d] /\ req'[d] = req[d]
  BY EndLeaves DEF Turns, TypeOK
<1>2. PendOwned'
  <2>1. \A x \in Ids(eng'.pend) : x \in Ids(eng.pend) /\ x # r.id
    BY DEF Settles, Turns
  <2>2. \A x \in Ids(eng'.pend) : \E d \in Calls \ {c} : d \in Live /\ req[d].id = x
    BY <2>1 DEF Turns, EngInv, PendOwned, Live
  <2>3. \A d \in Calls \ {c} : d \in Live => d \in Live' /\ req'[d] = req[d]
    BY <1>1 DEF Live
  <2> QED BY <2>2, <2>3 DEF Settles, PendOwned
<1>3. LostCallLeavesDoubt'
  <2>1. PICK n \in Nat :
           /\ DOMAIN outcomes' = DOMAIN outcomes \cup {n}
           /\ \A i \in DOMAIN outcomes : i \in Nat /\ i < n /\ outcomes'[i] = outcomes[i]
           /\ outcomes'[n].call = c /\ outcomes'[n].obs = obs
    BY DEF Ends, Logged
  <2> SUFFICES ASSUME NumWorkflows > 0, NEW i \in DOMAIN outcomes',
                      outcomes'[i].obs = "SENT_CHILD_NO_RESPONSE",
                      \A j \in DOMAIN outcomes' : j > i => outcomes'[j].obs # "RESPONSE_RECEIVED"
               PROVE  \E w \in Workflow : eng'.cert[w] = "UNKNOWN"
    BY DEF LostCallLeavesDoubt
  <2>2. CASE obs = "SENT_CHILD_NO_RESPONSE"
    BY <2>2 DEF Settles
  <2>3. CASE obs # "SENT_CHILD_NO_RESPONSE"
    <3>1. i \in DOMAIN outcomes /\ n > i /\ n \in DOMAIN outcomes'
      BY <2>1, <2>3
    <3>2. obs # "RESPONSE_RECEIVED"
      BY <2>1, <3>1
    <3>3. outcomes[i].obs = "SENT_CHILD_NO_RESPONSE"
          /\ \A j \in DOMAIN outcomes : j > i => outcomes[j].obs # "RESPONSE_RECEIVED"
      BY <2>1, <3>1
    <3>4. \E w \in Workflow : eng.cert[w] = "UNKNOWN"
      BY <3>1, <3>3 DEF EngInv, LostCallLeavesDoubt
    <3>5. obs = "NOT_SENT"
      BY <2>3, <3>2 DEF Observations
    <3> QED BY <3>4, <3>5 DEF Settles, Turns
  <2> QED BY <2>2, <2>3
<1> QED BY <1>2, <1>3 DEF EngInv

\* A call that only waits, or raises, keeps its pending transition.
LEMMA CarryKeeps ==
    ASSUME TypeOK, EngInv, NEW c \in Calls, NEW r, NEW e, Turns(c, r, e),
           NEW x \in {"auditing", "draining", "waiting", "raised"},
           pc' = [pc EXCEPT ![c] = x], eng' = e, outcomes' = outcomes
    PROVE  EngInv'
<1>1. pc'[c] = x /\ req'[c] = r /\ \A d \in Calls \ {c} : pc'[d] = pc[d] /\ req'[d] = req[d]
  BY DEF Turns, TypeOK
<1>2. \A d \in Live : d \in Live' /\ req'[d] = req[d]
  BY <1>1 DEF Live, Turns
<1>3. r.kind = "tool" => c \in Live'
  BY <1>1 DEF Live
<1>4. r.kind \in {"tool", "plain"}
  BY DEF Turns, Requests, ToolRequests, PlainRequests
<1>5. PendOwned'
  BY <1>1, <1>2, <1>3, <1>4 DEF EngInv, PendOwned, Turns
<1>6. LostCallLeavesDoubt'
  BY DEF EngInv, LostCallLeavesDoubt, Turns
<1> QED BY <1>5, <1>6 DEF EngInv

\* Nothing changes for the engine when no tool call ends.
LEMMA BystanderKeeps ==
    ASSUME EngInv, eng' = eng, outcomes' = outcomes,
           \A c \in Live : c \in Live' /\ req'[c] = req[c]
    PROVE  EngInv'
BY DEF EngInv, PendOwned, LostCallLeavesDoubt

LEMMA ConcludeKeepsEngine ==
    ASSUME TypeOK, EngInv, NEW c \in Calls, NEW r, NEW e, Turns(c, r, e),
           NEW obs \in Observations, Conclude(c, r, e, obs)
    PROVE  EngInv'
<1>1. CASE r.kind = "tool"
  <2>1. ConcludeTool(c, r, e, obs) /\ Ends(c, obs)
    BY <1>1, ConcludeEnds DEF Conclude
  <2>2. r.id \in RequestIds /\ r.tool \in Tools
    BY <1>1 DEF Turns, Requests, ToolRequests, PlainRequests
  <2>3. Settles(e, CommitOutcome(e, r.id, r.tool, obs), r.id, obs)
    BY <2>2, CommitSettles DEF Turns
  <2>4. eng' = CommitOutcome(e, r.id, r.tool, obs)
    BY <2>1 DEF ConcludeTool, Commit
  <2>5. Settles(e, eng', r.id, obs)
    BY <2>3, <2>4
  <2> QED BY <2>1, <2>5, OutcomeKeeps
<1>2. CASE r.kind = "plain"
  <2>1. eng' = eng /\ outcomes' = outcomes /\ pc' = [pc EXCEPT ![c] = "done"]
    BY <1>2 DEF Conclude
  <2>2. \A d \in Live : d # c
    BY <1>2 DEF Live, Turns
  <2>3. \A d \in Live : d \in Live' /\ req'[d] = req[d]
    BY <2>1, <2>2 DEF Live, Turns, TypeOK
  <2> QED BY <2>1, <2>3, BystanderKeeps DEF Turns
<1> QED BY <1>1, <1>2 DEF Turns, Requests, ToolRequests, PlainRequests

LEMMA RefuseKeepsEngine ==
    ASSUME TypeOK, EngInv, NEW c \in Calls, NEW r \in ToolRequests, NEW e, Turns(c, r, e),
           NEW d, Refuse(c, r, e, d)
    PROVE  EngInv'
<1>1. r.id \in RequestIds /\ r.tool \in Tools
  BY DEF ToolRequests
<1>2. Settles(e, CommitOutcome(e, r.id, r.tool, "NOT_SENT"), r.id, "NOT_SENT")
  BY <1>1, CommitSettles DEF Turns, Observations
<1>3. eng' = CommitOutcome(e, r.id, r.tool, "NOT_SENT")
  BY DEF Refuse, Commit
<1>4. Settles(e, eng', r.id, "NOT_SENT")
  BY <1>2, <1>3
<1> QED BY <1>4, RefuseEnds, OutcomeKeeps DEF Observations

LEMMA ForwardKeepsEngine ==
    ASSUME TypeOK, EngInv, NEW c \in Calls, NEW r, NEW e, Turns(c, r, e), Forward(c, r, e)
    PROVE  EngInv'
<1>1. CASE ForwardNoProcess(c, r, e)
  BY <1>1, ConcludeKeepsEngine DEF ForwardNoProcess, Observations
<1>2. CASE ForwardToLostPipe(c, r, e)
  <2>1. pc' = [pc EXCEPT ![c] = "raised"] /\ eng' = e /\ outcomes' = outcomes
    BY <1>2 DEF ForwardToLostPipe, Raise
  <2> QED BY <2>1, CarryKeeps
<1>3. CASE ForwardToPipe(c, r, e)
  <2>1. PICK x \in {"draining", "waiting"} : pc' = [pc EXCEPT ![c] = x]
    BY <1>3 DEF ForwardToPipe
  <2>2. eng' = e /\ outcomes' = outcomes
    BY <1>3 DEF ForwardToPipe
  <2> QED BY <2>1, <2>2, CarryKeeps
<1> QED BY <1>1, <1>2, <1>3 DEF Forward

\* A new tool call steps with the engine its evaluation left.
LEMMA EvaluateTurns ==
    ASSUME TypeOK, EngInv, NEW c \in Calls, NEW id \in RequestIds, NEW t \in Tools,
           Accept(c, ToolRequest(id, t))
    PROVE  Turns(c, ToolRequest(id, t), Evaluate(eng, id, t))
<1>1. ToolRequest(id, t) \in ToolRequests /\ ToolRequest(id, t).id = id
      /\ ToolRequest(id, t).kind = "tool"
  BY ToolRequestType DEF ToolRequest
<1>2. eng \in Engine /\ Keyed(eng.pend)
  BY DEF TypeOK, EngInv, PendOwned
<1>3. /\ Evaluate(eng, id, t) \in Engine /\ Evaluate(eng, id, t).cert = eng.cert
      /\ Keyed(Evaluate(eng, id, t).pend)
      /\ Ids(Evaluate(eng, id, t).pend) \subseteq Ids(eng.pend) \cup {id}
  BY <1>2, EvaluateType, EvaluateKeyed
<1> QED BY <1>1, <1>3 DEF Turns, Accept, Requests

\* Any later step of a call, and any other request, finds the engine as it is.
LEMMA PresentTurns ==
    ASSUME TypeOK, EngInv, NEW c \in Calls, NEW r \in Requests,
           pc[c] = "idle" \/ req[c] = r, req' = [req EXCEPT ![c] = r], ledgerOk' = ledgerOk
    PROVE  Turns(c, r, eng)
BY DEF Turns, TypeOK, EngInv, PendOwned

LEMMA ReceiveKeepsEngine ==
    ASSUME TypeOK, EngInv, NEW c \in Calls, Receive(c)
    PROVE  EngInv'
<1>1. PICK id \in RequestIds :
        \/ \E t \in Tools, cbac \in BOOLEAN : ReceiveDenied(c, id, t, cbac)
        \/ \E t \in Tools : ReceiveForAudit(c, id, t)
        \/ \E t \in Tools : ReceivePermitted(c, id, t)
        \/ ReceivePlain(c, id)
  BY DEF Receive
<1>2. ASSUME NEW t \in Tools, NEW cbac \in BOOLEAN, ReceiveDenied(c, id, t, cbac)
      PROVE  EngInv'
  <2>1. Turns(c, ToolRequest(id, t), Evaluate(eng, id, t))
    BY <1>2, EvaluateTurns DEF ReceiveDenied
  <2> QED BY <1>2, <2>1, ToolRequestType, RefuseKeepsEngine DEF ReceiveDenied
<1>3. ASSUME NEW t \in Tools, ReceiveForAudit(c, id, t)
      PROVE  EngInv'
  <2>1. Turns(c, ToolRequest(id, t), Evaluate(eng, id, t))
    BY <1>3, EvaluateTurns DEF ReceiveForAudit
  <2>2. /\ pc' = [pc EXCEPT ![c] = "auditing"] /\ outcomes' = outcomes
        /\ eng' = Evaluate(eng, id, t)
    BY <1>3 DEF ReceiveForAudit
  <2> QED BY <2>1, <2>2, CarryKeeps
<1>4. ASSUME NEW t \in Tools, ReceivePermitted(c, id, t)
      PROVE  EngInv'
  <2>1. Turns(c, ToolRequest(id, t), Evaluate(eng, id, t))
    BY <1>4, EvaluateTurns DEF ReceivePermitted
  <2> QED BY <1>4, <2>1, ForwardKeepsEngine DEF ReceivePermitted
<1>5. CASE ReceivePlain(c, id)
  <2> DEFINE r == [kind |-> "plain", id |-> id]
  <2>1. r \in Requests
    BY DEF Requests, PlainRequests
  <2>2. Accept(c, r) /\ Forward(c, r, eng)
    BY <1>5 DEF ReceivePlain
  <2> HIDE DEF r
  <2>3. Turns(c, r, eng)
    BY <2>1, <2>2, PresentTurns DEF Accept
  <2> QED BY <2>2, <2>3, ForwardKeepsEngine
<1> QED BY <1>1, <1>2, <1>3, <1>4, <1>5

LEMMA LaterKeepsEngine ==
    ASSUME TypeOK, EngInv, NEW c \in Calls, Audited(c) \/ Drained(c) \/ Resume(c)
    PROVE  EngInv'
<1>1. CASE Audited(c)
  <2>1. PICK v \in Verdicts : AuditPermits(c, v) \/ AuditRefuses(c, v)
    BY <1>1 DEF Audited
  <2>2. pc[c] = "auditing" /\ UNCHANGED <<req, ledgerOk>>
    BY <2>1 DEF AuditPermits, AuditRefuses, AfterAudit
  <2>3. req[c] \in ToolRequests /\ req' = [req EXCEPT ![c] = req[c]]
    BY <2>2 DEF TypeOK
  <2>4. Turns(c, req[c], eng)
    BY <2>2, <2>3, PresentTurns DEF Requests
  <2> QED BY <2>1, <2>3, <2>4, ForwardKeepsEngine, RefuseKeepsEngine DEF AuditPermits, AuditRefuses
<1>2. CASE Drained(c)
  <2>1. /\ pc[c] = "draining" /\ UNCHANGED <<eng, req, outcomes>>
        /\ \E x \in {"waiting", "raised"} : pc' = [pc EXCEPT ![c] = x]
    BY <1>2 DEF Drained, DrainReturns, DrainRaises, Raise
  <2>2. \A d \in Live : d \in Live' /\ req'[d] = req[d]
    BY <2>1 DEF Live, TypeOK
  <2> QED BY <2>1, <2>2, BystanderKeeps
<1>3. CASE Resume(c)
  <2>1. pc[c] = "waiting" /\ UNCHANGED <<req, ledgerOk>>
    BY <1>3, ResumeConcludes
  <2>2. PICK obs \in Observations : Conclude(c, req[c], eng, obs)
    BY <1>3, ResumeConcludes
  <2>3. req[c] \in Requests /\ req' = [req EXCEPT ![c] = req[c]]
    BY <2>1 DEF TypeOK, Requests
  <2>4. Turns(c, req[c], eng)
    BY <2>1, <2>3, PresentTurns
  <2> QED BY <2>2, <2>4, ConcludeKeepsEngine
<1> QED BY <1>1, <1>2, <1>3

LEMMA StepEngInv == TypeOK /\ EngInv /\ [Next]_vars => EngInv'
<1> SUFFICES ASSUME TypeOK, EngInv, [Next]_vars PROVE EngInv'
  OBVIOUS
<1>1. CASE \/ UNCHANGED vars \/ Dispatch \/ Start \/ Close
           \/ ChildEmitsGarbage \/ ChildDies \/ StdinLost \/ \E c \in Calls : Child(c)
  <2>1. UNCHANGED <<eng, pc, req, outcomes>>
    BY <1>1 DEF vars, callVars, Dispatch, DispatchMessage, DispatchGarbage, DispatchEof, Start,
         Close, ChildEmitsGarbage, ChildDies, StdinLost, Child, ChildExecutes, ChildAnswers
  <2>2. Live' = Live
    BY <2>1 DEF Live
  <2> QED BY <2>1, <2>2, BystanderKeeps
<1> QED BY <1>1, ReceiveKeepsEngine, LaterKeepsEngine DEF Next

LEMMA AlwaysEngInv == Spec => [](TypeOK /\ CallInv /\ EngInv)
<1>1. Init => EngInv
  BY DEF Init, InitEngine, EngInv, PendOwned, Keyed, Ids, LostCallLeavesDoubt
<1> QED BY <1>1, StepEngInv, InitTypeOK, StepTypeOK, AlwaysCallInv, ProxyAssumption, PTL DEF Spec

(* Every pending transition of the engine and every entry of the proxy's    *)
(* correlation table belongs to a call that is still open or that raised:   *)
(* nothing is left for a later call of the same tool to commit              *)
(* (workflow/engine.py commit_outcome), also when ids are reused.           *)
THEOREM NothingIsStranded == Spec => []NothingStranded
<1>1. TypeOK /\ CallInv /\ EngInv => NothingStranded
  <2> SUFFICES ASSUME TypeOK, CallInv, EngInv PROVE NothingStranded
    OBVIOUS
  <2>1. \A c \in Live : c \in InFlight \cup {d \in Calls : pc[d] = "raised"} /\ req[c].kind = "tool"
    BY DEF Live, InFlight
  <2>2. \A i \in DOMAIN eng.pend : \E c \in Live : req[c].id = eng.pend[i].id
    BY DEF EngInv, PendOwned, Ids
  <2>3. \A id \in RequestIds : table[id] # NoCall =>
          /\ table[id] \in Forwarded \cup {d \in Calls : pc[d] = "raised"}
          /\ req[table[id]].id = id
    BY DEF CallInv, Registered, TypeOK, Forwarded
  <2> QED BY <2>1, <2>2, <2>3 DEF NothingStranded
<1> QED BY <1>1, AlwaysEngInv, PTL

(* While the last thing the engine was told of any sent call is a missing   *)
(* response (commit_outcome, mcp_stdio_proxy.py:203), some workflow's       *)
(* certainty is UNKNOWN, whatever other calls did in between and whichever  *)
(* receipts could be written.                                               *)
THEOREM LostCallsLeaveDoubt == Spec => []LostCallLeavesDoubt
<1>1. EngInv => LostCallLeavesDoubt
  BY DEF EngInv
<1> QED BY <1>1, AlwaysEngInv, PTL

-----------------------------------------------------------------------------
(* The engine when one call is pending *)

\* The pending dictionary after a permitted call of t was evaluated.
OwnEntry(E, id, t) ==
    IF Movers(E, t) = {} THEN << >>
    ELSE LET w == LastMover(E, t) IN
         << [id |-> id, wf |-> w, to |-> Move[w][<<E.state[w], t>>], tool |-> t] >>

SameView(E, F) ==
    E.state = F.state /\ E.cert = F.cert /\ E.count = F.count /\ E.hist = F.hist

\* What the rules say does not depend on the pending transitions.
LEMMA ViewDecides ==
    ASSUME NEW E, NEW F, SameView(E, F), NEW t, NEW id
    PROVE  /\ Permits(E, t) = Permits(F, t)
           /\ Movers(E, t) = Movers(F, t)
           /\ LastMover(E, t) = LastMover(F, t)
           /\ OwnEntry(E, id, t) = OwnEntry(F, id, t)
<1>1. \A w : Forbids(E, w, t) = Forbids(F, w, t)
  BY DEF SameView, Forbids
<1>2. Movers(E, t) = Movers(F, t)
  BY <1>1 DEF Movers, SameView
<1>3. Permits(E, t) = Permits(F, t)
  BY <1>1 DEF Permits
<1>4. LastMover(E, t) = LastMover(F, t)
  BY <1>2 DEF LastMover
<1> QED BY <1>2, <1>3, <1>4 DEF OwnEntry, SameView

\* Evaluating on an empty dictionary leaves the call's own entry.
LEMMA EvaluateAlone ==
    ASSUME NEW E \in Engine, NEW id \in RequestIds, NEW t \in Tools, E.pend = << >>
    PROVE  Evaluate(E, id, t).pend = OwnEntry(E, id, t)
<1>1. CASE Movers(E, t) = {}
  BY <1>1 DEF Evaluate, OwnEntry
<1>2. CASE Movers(E, t) # {}
  <2> DEFINE w == LastMover(E, t)
             e == [id |-> id, wf |-> w, to |-> Move[w][<<E.state[w], t>>], tool |-> t]
  <2>1. Evaluate(E, id, t) = [E EXCEPT !.pend = Store(E.pend, e)]
    BY <1>2 DEF Evaluate
  <2>2. OwnEntry(E, id, t) = << e >>
    BY <1>2 DEF OwnEntry
  <2> HIDE DEF w, e
  <2>3. Store(<< >>, e) = << e >>
    BY DEF Store
  <2> QED BY <2>1, <2>2, <2>3 DEF Engine
<1> QED BY <1>1, <1>2

\* A permitted call's movers are the workflows with an edge on its tool, and
\* the engine's choice among them is the monitor's.
LEMMA PermittedMovers ==
    ASSUME NEW E, NEW t, Permits(E, t)
    PROVE  Movers(E, t) = {w \in Workflow : Move[w][<<E.state[w], t>>] # Stay}
<1>1. \A w \in Workflow : \A v \in 1 .. w : v \in Workflow
  BY PolicyAssumption DEF Workflow
<1> QED BY <1>1 DEF Permits, Movers

\* When the call's own entry is all there is, the outcome is its owner's.
LEMMA OwnerAlone ==
    ASSUME NEW E \in Engine, NEW id \in RequestIds, NEW t \in Tools,
           E.pend = OwnEntry(E, id, t)
    PROVE  /\ Movers(E, t) = {} => /\ Matches(E.pend, id, t) = {}
                                   /\ Owner(E.pend, id, t) = 1
           /\ Movers(E, t) # {} =>
                LET w == LastMover(E, t) IN
                /\ Matches(E.pend, id, t) # {}
                /\ FirstMatch(E.pend, id, t) = 1
                /\ Owner(E.pend, id, t) = w
                /\ E.pend[FirstMatch(E.pend, id, t)].to = Move[w][<<E.state[w], t>>]
           /\ Discard(E, id, t).pend = << >>
<1>1. CASE Movers(E, t) = {}
  <2>1. E.pend = << >>
    BY <1>1 DEF OwnEntry
  <2>2. Matches(<< >>, id, t) = {}
    BY DEF Matches
  <2> QED BY <1>1, <2>1, <2>2 DEF Owner, Discard
<1>2. CASE Movers(E, t) # {}
  <2> DEFINE w == LastMover(E, t)
             e == [id |-> id, wf |-> w, to |-> Move[w][<<E.state[w], t>>], tool |-> t]
  <2>1. E.pend = << e >> /\ e.id = id
    BY <1>2 DEF OwnEntry
  <2>2. e.wf = w /\ e.to = Move[w][<<E.state[w], t>>]
    OBVIOUS
  <2> HIDE DEF e, w
  <2>3. Matches(E.pend, id, t) = {1}
    BY <2>1 DEF Matches
  <2>4. FirstMatch(E.pend, id, t) = 1
    BY <2>3, 1 <= 1 DEF FirstMatch
  <2>5. Owner(E.pend, id, t) = w /\ E.pend[1].to = Move[w][<<E.state[w], t>>]
    BY <2>1, <2>2, <2>3, <2>4 DEF Owner
  <2>6. RemoveAt(<< e >>, 1) = << >>
    <3>1. RemoveAt(<< e >>, 1) = SubSeq(<< e >>, 1, 0) \o SubSeq(<< e >>, 2, 1)
      BY DEF RemoveAt
    <3>2. SubSeq(<< e >>, 1, 0) = << >> /\ SubSeq(<< e >>, 2, 1) = << >>
      BY SubSeqEmpty
    <3> QED BY <3>1, <3>2
  <2>7. Discard(E, id, t) = [E EXCEPT !.pend = RemoveAt(E.pend, 1)]
    BY <2>3, <2>4 DEF Discard
  <2>8. Discard(E, id, t).pend = << >>
    BY <2>1, <2>6, <2>7 DEF Engine
  <2> QED BY <1>2, <2>3, <2>4, <2>5, <2>8 DEF w
<1> QED BY <1>1, <1>2

-----------------------------------------------------------------------------
(* An outcome committed alone is a step of the monitor. *)

LEMMA MonitorPermits ==
    ASSUME TypeOK, NEW t \in Tools, Permits(eng, t)
    PROVE  Monitor!Permitted(t)
<1> SUFFICES ASSUME NEW w \in Workflow
             PROVE  /\ <<eng.cert[w], t>> \notin DenyInCertainty[w]
                    /\ <<eng.state[w], t>> \notin DenyInState[w]
                    /\ \A i \in DOMAIN eng.hist : <<eng.hist[i], t>> \notin CannotFollow[w]
                    /\ \A s \in States : <<t, s>> \in RequiresState[w] => eng.state[w] = s
                    /\ \A rule \in MaxOccurrences[w] : rule[1] = t => eng.count[t] < rule[2]
  BY DEF Monitor!Permitted, Monitor!Workflow, Workflow
<1>1. ~Forbids(eng, w, t)
  BY DEF Permits
<1>2. \A rule \in MaxOccurrences[w] : rule[1] = t => ~(eng.count[t] >= rule[2])
  BY <1>1 DEF Forbids
<1>3. \A rule \in MaxOccurrences[w] : rule[1] = t => eng.count[t] < rule[2]
  <2>1. eng.count[t] \in Nat /\ \A rule \in MaxOccurrences[w] : rule[2] \in Nat
    BY PolicyAssumption DEF TypeOK, Engine
  <2> QED BY <1>2, <2>1
<1> QED BY <1>1, <1>3 DEF Forbids

\* The owner of a permitted call alone is the workflow that answers for it.
LEMMA OwnerAnswers ==
    ASSUME TypeOK, NumWorkflows # 0, NEW t \in Tools, Permits(eng, t)
    PROVE  /\ Movers(eng, t) = {} => 1 \in Workflow /\ Monitor!Answers(1, t)
                                     /\ \A w \in Workflow : ~Monitor!Follows(w, t)
           /\ Movers(eng, t) # {} => /\ LastMover(eng, t) \in Workflow
                                     /\ Monitor!Follows(LastMover(eng, t), t)
                                     /\ Monitor!Answers(LastMover(eng, t), t)
<1>1. Movers(eng, t) = {w \in Workflow : Move[w][<<eng.state[w], t>>] # Stay}
  BY PermittedMovers
<1>2. CASE Movers(eng, t) = {}
  <2>1. 1 \in Workflow
    BY PolicyAssumption DEF Workflow
  <2> QED BY <1>1, <1>2, <2>1
          DEF Monitor!Answers, Monitor!NoneFollows, Monitor!Follows, Monitor!Workflow, Workflow
<1>3. CASE Movers(eng, t) # {}
  <2> DEFINE w == LastMover(eng, t)
  <2>1. w \in Movers(eng, t) /\ \A v \in Movers(eng, t) : v <= w
    BY <1>3, LastMoverExists, PolicyAssumption
  <2>2. w \in Workflow /\ Move[w][<<eng.state[w], t>>] # Stay
    BY <1>1, <2>1
  <2> HIDE DEF w
  <2>3. ASSUME NEW v \in Workflow, v > w PROVE Move[v][<<eng.state[v], t>>] = Stay
    <3>1. v \in Int /\ w \in Int
      BY <2>2 DEF Workflow
    <3> QED BY <1>1, <2>1, <2>3, <3>1
  <2>4. Monitor!Follows(w, t)
    BY <2>2, <2>3 DEF Monitor!Follows, Monitor!Workflow, Workflow
  <2> QED BY <1>3, <2>2, <2>4 DEF Monitor!Answers, w
<1> QED BY <1>2, <1>3

LEMMA ConfirmImplements ==
    ASSUME TypeOK, NEW e \in Engine, SameView(eng, e), NEW id \in RequestIds, NEW t \in Tools,
           Permits(eng, t), e.pend = OwnEntry(eng, id, t), eng' = Confirm(e, id, t)
    PROVE  Monitor!Confirm(t) /\ eng'.pend = << >>
<1> DEFINE w == Owner(e.pend, id, t)
<1>1. /\ Movers(e, t) = Movers(eng, t) /\ LastMover(e, t) = LastMover(eng, t)
      /\ e.pend = OwnEntry(e, id, t)
  BY ViewDecides
<1>2. Confirmed(e, eng', id, t)
  BY ConfirmType
<1>3. eng'.pend = << >>
  BY <1>1, <1>2, OwnerAlone DEF Confirmed
<1>4. Monitor!Permitted(t)
  BY MonitorPermits
<1>5. e.state = eng.state /\ e.cert = eng.cert /\ e.count = eng.count /\ e.hist = eng.hist
  BY DEF SameView
<1>6. CASE NumWorkflows = 0
  <2>1. Workflow = {}
    BY <1>6 DEF Workflow
  <2>2. e.state = << >> /\ e.cert = << >>
    BY <2>1 DEF Engine
  <2>3. Movers(e, t) = {}
    BY <2>1 DEF Movers
  <2>4. Matches(e.pend, id, t) = {}
    BY <1>1, <2>3, OwnerAlone
  <2>5. eng'.state = eng.state
    BY <1>2, <1>5, <2>4 DEF Confirmed
  <2>6. eng'.cert = eng.cert
    BY <1>2, <1>5, <2>2 DEF Confirmed
  <2> QED BY <1>2, <1>3, <1>4, <1>5, <1>6, <2>5, <2>6 DEF Confirmed, Monitor!Confirm
<1>7. CASE NumWorkflows # 0
  <2>1. CASE Movers(eng, t) = {}
    <3>1. w = 1 /\ Matches(e.pend, id, t) = {}
      BY <1>1, <2>1, OwnerAlone
    <3>2. 1 \in Workflow /\ Monitor!Answers(1, t) /\ ~Monitor!Follows(1, t)
      BY <1>7, <2>1, OwnerAnswers
    <3>3. eng'.state = eng.state /\ eng'.cert = [eng.cert EXCEPT ![1] = "KNOWN"]
      BY <1>2, <1>5, <3>1 DEF Confirmed
    <3> QED BY <1>2, <1>3, <1>4, <1>5, <3>2, <3>3
            DEF Confirmed, Monitor!Confirm, Monitor!Workflow, Workflow
  <2>2. CASE Movers(eng, t) # {}
    <3> DEFINE m == LastMover(eng, t)
    <3>1. /\ w = m /\ Matches(e.pend, id, t) # {}
          /\ e.pend[FirstMatch(e.pend, id, t)].to = Move[m][<<e.state[m], t>>]
      BY <1>1, <2>2, OwnerAlone
    <3>2. m \in Workflow /\ Monitor!Follows(m, t) /\ Monitor!Answers(m, t)
      BY <1>7, <2>2, OwnerAnswers
    <3> HIDE DEF m
    <3>3. /\ eng'.state = [eng.state EXCEPT ![m] = Move[m][<<eng.state[m], t>>]]
          /\ eng'.cert = [eng.cert EXCEPT ![m] = "KNOWN"]
      BY <1>2, <1>5, <3>1 DEF Confirmed
    <3> QED BY <1>2, <1>3, <1>4, <1>5, <3>2, <3>3
            DEF Confirmed, Monitor!Confirm, Monitor!Workflow, Workflow
  <2> QED BY <2>1, <2>2
<1> QED BY <1>6, <1>7

LEMMA LoseImplements ==
    ASSUME TypeOK, NEW e \in Engine, SameView(eng, e), NEW id \in RequestIds, NEW t \in Tools,
           Permits(eng, t), e.pend = OwnEntry(eng, id, t), eng' = Lose(e, id, t)
    PROVE  [Monitor!Lose(t)]_(Monitor!vars) /\ eng'.pend = << >>
<1> DEFINE w == Owner(e.pend, id, t)
<1>1. /\ Movers(e, t) = Movers(eng, t) /\ LastMover(e, t) = LastMover(eng, t)
      /\ e.pend = OwnEntry(e, id, t)
  BY ViewDecides
<1>2. Lost(e, eng', id, t)
  BY LoseType
<1>3. eng'.pend = << >>
  BY <1>1, <1>2, OwnerAlone DEF Lost
<1>4. Monitor!Permitted(t)
  BY MonitorPermits
<1>5. e.state = eng.state /\ e.cert = eng.cert /\ e.count = eng.count /\ e.hist = eng.hist
  BY DEF SameView
<1>6. CASE NumWorkflows = 0
  <2>1. e.cert = << >>
    BY <1>6 DEF Workflow, Engine
  <2>2. eng'.cert = eng.cert
    BY <1>2, <1>5, <2>1 DEF Lost
  <2> QED BY <1>2, <1>3, <1>5, <2>2 DEF Lost, Monitor!vars
<1>7. CASE NumWorkflows # 0
  <2>1. w \in Workflow /\ Monitor!Answers(w, t)
    BY <1>1, <1>7, OwnerAlone, OwnerAnswers
  <2>2. eng'.cert = [eng.cert EXCEPT ![w] = "UNKNOWN"]
    BY <1>2, <1>5 DEF Lost
  <2> QED BY <1>2, <1>3, <1>4, <1>5, <2>1, <2>2 DEF Lost, Monitor!Lose, Monitor!Workflow, Workflow
<1> QED BY <1>6, <1>7

LEMMA DiscardImplements ==
    ASSUME TypeOK, NEW e \in Engine, SameView(eng, e), NEW id \in RequestIds, NEW t \in Tools,
           e.pend = OwnEntry(eng, id, t), eng' = Discard(e, id, t)
    PROVE  UNCHANGED Monitor!vars /\ eng'.pend = << >>
<1>1. e.pend = OwnEntry(e, id, t)
  BY ViewDecides
<1>2. eng'.pend = << >>
  BY <1>1, OwnerAlone
<1>3. /\ eng'.state = e.state /\ eng'.cert = e.cert
      /\ eng'.count = e.count /\ eng'.hist = e.hist
  BY DiscardType
<1> QED BY <1>2, <1>3 DEF SameView, Monitor!vars

-----------------------------------------------------------------------------
(* The invariant                                                           *)
(*                                                                         *)
(* That a confirmed call was permitted in the state it advances needs      *)
(* three facts together: only one call is in flight; the call in flight is *)
(* permitted now, not only when it was evaluated; and the pending          *)
(* dictionary holds its entry, computed from the present state, and no     *)
(* other.                                                                  *)

Alone ==
    /\ \A c, d \in InFlight : c = d
    /\ InFlight = {} /\ loop = "accepting" => eng.pend = << >>
    /\ \A c \in InFlight :
          /\ req[c].kind = "plain" => eng.pend = << >>
          /\ req[c].kind = "tool" =>
                /\ Permits(eng, req[c].tool)
                /\ eng.pend = OwnEntry(eng, req[c].id, req[c].tool)

\* Engine state e is eng after the evaluation of request r, if it had one.
Carries(e, r) ==
    /\ r.kind = "plain" => e = eng /\ eng.pend = << >>
    /\ r.kind = "tool" => /\ SameView(eng, e)
                          /\ Permits(eng, r.tool)
                          /\ e.pend = OwnEntry(eng, r.id, r.tool)

LEMMA CommitAlone ==
    ASSUME TypeOK, NEW e \in Engine, SameView(eng, e), NEW id \in RequestIds, NEW t \in Tools,
           Permits(eng, t), e.pend = OwnEntry(eng, id, t), NEW obs \in Observations,
           eng' = CommitOutcome(e, id, t, obs)
    PROVE  [Monitor!Next]_(Monitor!vars) /\ eng'.pend = << >>
<1>1. CASE obs = "RESPONSE_RECEIVED"
  <2>1. eng' = Confirm(e, id, t)
    BY <1>1 DEF CommitOutcome
  <2>2. Monitor!Confirm(t) /\ eng'.pend = << >>
    BY <2>1, ConfirmImplements
  <2> QED BY <2>2 DEF Monitor!Next
<1>2. CASE obs = "SENT_CHILD_NO_RESPONSE"
  <2>1. eng' = Lose(e, id, t)
    BY <1>2 DEF CommitOutcome
  <2>2. [Monitor!Lose(t)]_(Monitor!vars) /\ eng'.pend = << >>
    BY <2>1, LoseImplements
  <2> QED BY <2>2 DEF Monitor!Next
<1>3. CASE obs = "NOT_SENT"
  <2>1. eng' = Discard(e, id, t)
    BY <1>3 DEF CommitOutcome
  <2> QED BY <2>1, DiscardImplements
<1> QED BY <1>1, <1>2, <1>3 DEF Observations

LEMMA ConcludeAlone ==
    ASSUME TypeOK, NEW c \in Calls, NEW r \in Requests, NEW e \in Engine, Carries(e, r),
           NEW obs \in Observations, Conclude(c, r, e, obs)
    PROVE  [Monitor!Next]_(Monitor!vars) /\ eng'.pend = << >>
<1>1. CASE r.kind = "plain"
  BY <1>1 DEF Conclude, Carries, Monitor!vars
<1>2. CASE r.kind = "tool"
  <2> DEFINE id == r.id
             t == r.tool
  <2>1. id \in RequestIds /\ t \in Tools
    BY <1>2 DEF Requests, ToolRequests, PlainRequests
  <2>2. eng' = CommitOutcome(e, id, t, obs)
    BY <1>2 DEF Conclude, ConcludeTool, Commit
  <2>3. SameView(eng, e) /\ Permits(eng, t) /\ e.pend = OwnEntry(eng, id, t)
    BY <1>2 DEF Carries
  <2> HIDE DEF id, t
  <2> QED BY <2>1, <2>2, <2>3, CommitAlone
<1> QED BY <1>1, <1>2 DEF Requests, ToolRequests, PlainRequests

\* The call that ends was the only one.
LEMMA EndsAlone ==
    ASSUME TypeOK, Alone, NEW c \in Calls, c \in InFlight \/ InFlight = {},
           \E x \in {"done", "raised"} : pc' = [pc EXCEPT ![c] = x],
           eng'.pend = << >> \/ loop' # "accepting"
    PROVE  Alone'
<1>1. InFlight' = {}
  BY DEF Alone, InFlight, TypeOK
<1> QED BY <1>1 DEF Alone

\* The call that moves on stays the only one, with its own entry pending.
LEMMA MovesAlone ==
    ASSUME TypeOK, Alone, NEW c \in Calls, c \in InFlight \/ InFlight = {},
           NEW r \in Requests, Carries(eng', r), req'[c] = r,
           NEW x \in {"auditing", "draining", "waiting"}, pc' = [pc EXCEPT ![c] = x]
    PROVE  Alone'
<1>1. InFlight' = {c}
  BY DEF Alone, InFlight, TypeOK
<1>2. r.kind = "plain" => eng'.pend = << >>
  BY DEF Carries
<1>3. r.kind = "tool" => Permits(eng', r.tool) /\ eng'.pend = OwnEntry(eng', r.id, r.tool)
  BY ViewDecides DEF Carries
<1> QED BY <1>1, <1>2, <1>3 DEF Alone

LEMMA ForwardAlone ==
    ASSUME TypeOK, Alone, ProxyAssumption, RunLoop, NEW c \in Calls, c \in InFlight \/ InFlight = {},
           NEW r \in Requests, NEW e \in Engine, Carries(e, r), req'[c] = r, Forward(c, r, e)
    PROVE  Alone' /\ [Monitor!Next]_(Monitor!vars)
<1>1. CASE ForwardNoProcess(c, r, e)
  <2> DEFINE obs == "SENT_CHILD_NO_RESPONSE"
  <2>1. Conclude(c, r, e, obs) /\ obs \in Observations
    BY <1>1 DEF ForwardNoProcess, Observations
  <2> HIDE DEF obs
  <2>2. [Monitor!Next]_(Monitor!vars) /\ eng'.pend = << >>
    BY <2>1, ConcludeAlone
  <2>3. \E x \in {"done", "raised"} : pc' = [pc EXCEPT ![c] = x]
    BY <2>1, ConcludeEffect DEF Carries
  <2> QED BY <2>2, <2>3, EndsAlone
<1>2. CASE ForwardToLostPipe(c, r, e)
  <2>1. eng' = e /\ pc' = [pc EXCEPT ![c] = "raised"] /\ loop' = "stopped"
    BY <1>2 DEF ForwardToLostPipe, Raise
  <2>2. UNCHANGED Monitor!vars
    BY <2>1 DEF Carries, SameView, Monitor!vars, Requests, ToolRequests, PlainRequests
  <2> QED BY <2>1, <2>2, EndsAlone
<1>3. CASE ForwardToPipe(c, r, e)
  <2>1. eng' = e /\ \E x \in {"draining", "waiting"} : pc' = [pc EXCEPT ![c] = x]
    BY <1>3 DEF ForwardToPipe
  <2>2. UNCHANGED Monitor!vars
    BY <2>1 DEF Carries, SameView, Monitor!vars, Requests, ToolRequests, PlainRequests
  <2> QED BY <2>1, <2>2, MovesAlone
<1> QED BY <1>1, <1>2, <1>3 DEF Forward

LEMMA RefuseAlone ==
    ASSUME TypeOK, Alone, NEW c \in Calls, c \in InFlight \/ InFlight = {},
           NEW r \in ToolRequests, NEW e \in Engine, SameView(eng, e),
           e.pend = OwnEntry(eng, r.id, r.tool), NEW d \in Decisions, Refuse(c, r, e, d)
    PROVE  Alone' /\ [Monitor!Next]_(Monitor!vars)
<1> DEFINE id == r.id
           t == r.tool
<1>1. id \in RequestIds /\ t \in Tools /\ e.pend = OwnEntry(eng, id, t)
  BY DEF ToolRequests
<1>2. eng' = Discard(e, id, t)
  BY DEF Refuse, Commit, CommitOutcome
<1>3. \E x \in {"done", "raised"} : pc' = [pc EXCEPT ![c] = x]
  BY RefuseEffect
<1> HIDE DEF id, t
<1>4. UNCHANGED Monitor!vars /\ eng'.pend = << >>
  BY <1>1, <1>2, DiscardImplements
<1> QED BY <1>3, <1>4, EndsAlone

-----------------------------------------------------------------------------
(* Every step *)

\* The run() loop reads a message only when nothing is in flight.
LEMMA AcceptAlone ==
    ASSUME ProxyAssumption, RunLoop, Alone, NEW c, NEW r, Accept(c, r)
    PROVE  InFlight = {} /\ eng.pend = << >>
<1>1. Cardinality(InFlight) \in Nat /\ Cardinality(InFlight) < 1 /\ IsFiniteSet(InFlight)
  BY OnToolFinite DEF Accept, RunLoop
<1>2. InFlight = {}
  BY <1>1, FS_EmptySet
<1> QED BY <1>2 DEF Alone, Accept

\* A tools/call evaluated with nothing pending.
LEMMA EvaluatedAlone ==
    ASSUME TypeOK, eng.pend = << >>, NEW id \in RequestIds, NEW t \in Tools
    PROVE  LET e == Evaluate(eng, id, t)
               r == ToolRequest(id, t)
           IN  /\ e \in Engine /\ SameView(eng, e) /\ e.pend = OwnEntry(eng, id, t)
               /\ r \in ToolRequests /\ r \in Requests
               /\ r.id = id /\ r.tool = t /\ r.kind = "tool"
<1>1. /\ Evaluate(eng, id, t) \in Engine /\ SameView(eng, Evaluate(eng, id, t))
  BY EvaluateType DEF TypeOK, SameView
<1>2. Evaluate(eng, id, t).pend = OwnEntry(eng, id, t)
  BY EvaluateAlone DEF TypeOK
<1> QED BY <1>1, <1>2, ToolRequestType DEF ToolRequest, Requests

LEMMA ReceiveAlone ==
    ASSUME TypeOK, Alone, ProxyAssumption, RunLoop, NEW c \in Calls, Receive(c)
    PROVE  Alone' /\ [Monitor!Next]_(Monitor!vars)
<1>1. PICK id \in RequestIds :
        \/ \E t \in Tools, cbac \in BOOLEAN : ReceiveDenied(c, id, t, cbac)
        \/ \E t \in Tools : ReceiveForAudit(c, id, t)
        \/ \E t \in Tools : ReceivePermitted(c, id, t)
        \/ ReceivePlain(c, id)
  BY DEF Receive
<1>2. ASSUME NEW t \in Tools, NEW cbac \in BOOLEAN, ReceiveDenied(c, id, t, cbac)
      PROVE  Alone' /\ [Monitor!Next]_(Monitor!vars)
  <2> DEFINE r == ToolRequest(id, t)
             e == Evaluate(eng, id, t)
             d == Arbitrate(cbac, FlowAllowed(t), Permits(eng, t), "NONE")
  <2>1. Accept(c, r) /\ Refuse(c, r, e, d)
    BY <1>2 DEF ReceiveDenied
  <2>2. InFlight = {} /\ eng.pend = << >>
    BY <2>1, AcceptAlone
  <2>3. /\ e \in Engine /\ SameView(eng, e) /\ e.pend = OwnEntry(eng, id, t)
        /\ r \in ToolRequests /\ r.id = id /\ r.tool = t
    BY <2>2, EvaluatedAlone
  <2>4. d \in Decisions
    BY ArbitrateType DEF FlowAllowed, Permits
  <2> HIDE DEF r, e, d
  <2> QED BY <2>1, <2>2, <2>3, <2>4, RefuseAlone
<1>3. ASSUME NEW t \in Tools, ReceiveForAudit(c, id, t)
      PROVE  Alone' /\ [Monitor!Next]_(Monitor!vars)
  <2> DEFINE r == ToolRequest(id, t)
             e == Evaluate(eng, id, t)
  <2>1. /\ Accept(c, r) /\ eng' = e /\ pc' = [pc EXCEPT ![c] = "auditing"]
        /\ Permits(eng, t)
    BY <1>3 DEF ReceiveForAudit
  <2>2. InFlight = {} /\ eng.pend = << >>
    BY <2>1, AcceptAlone
  <2>3. /\ e \in Engine /\ SameView(eng, e) /\ e.pend = OwnEntry(eng, id, t)
        /\ r \in Requests /\ r.id = id /\ r.tool = t /\ r.kind = "tool"
    BY <2>2, EvaluatedAlone
  <2> HIDE DEF r, e
  <2>4. Carries(eng', r)
    BY <2>1, <2>3 DEF Carries
  <2>5. req'[c] = r
    BY <2>1 DEF Accept, TypeOK
  <2>6. UNCHANGED Monitor!vars
    BY <2>1, <2>3 DEF SameView, Monitor!vars
  <2> QED BY <2>1, <2>2, <2>3, <2>4, <2>5, <2>6, MovesAlone
<1>4. ASSUME NEW t \in Tools, ReceivePermitted(c, id, t)
      PROVE  Alone' /\ [Monitor!Next]_(Monitor!vars)
  <2> DEFINE r == ToolRequest(id, t)
             e == Evaluate(eng, id, t)
  <2>1. Accept(c, r) /\ Forward(c, r, e) /\ Permits(eng, t)
    BY <1>4 DEF ReceivePermitted
  <2>2. InFlight = {} /\ eng.pend = << >>
    BY <2>1, AcceptAlone
  <2>3. /\ e \in Engine /\ SameView(eng, e) /\ e.pend = OwnEntry(eng, id, t)
        /\ r \in Requests /\ r.id = id /\ r.tool = t /\ r.kind = "tool"
    BY <2>2, EvaluatedAlone
  <2> HIDE DEF r, e
  <2>4. Carries(e, r)
    BY <2>1, <2>3 DEF Carries
  <2>5. req'[c] = r
    BY <2>1 DEF Accept, TypeOK
  <2> QED BY <2>1, <2>2, <2>3, <2>4, <2>5, ForwardAlone
<1>5. CASE ReceivePlain(c, id)
  <2> DEFINE r == [kind |-> "plain", id |-> id]
  <2>1. Accept(c, r) /\ Forward(c, r, eng)
    BY <1>5 DEF ReceivePlain
  <2>2. r \in Requests /\ r.kind = "plain"
    BY DEF Requests, PlainRequests
  <2> HIDE DEF r
  <2>3. InFlight = {} /\ eng.pend = << >>
    BY <2>1, AcceptAlone
  <2>4. Carries(eng, r) /\ eng \in Engine
    BY <2>2, <2>3 DEF Carries, TypeOK
  <2>5. req'[c] = r
    BY <2>1 DEF Accept, TypeOK
  <2> QED BY <2>1, <2>2, <2>3, <2>4, <2>5, ForwardAlone
<1> QED BY <1>1, <1>2, <1>3, <1>4, <1>5

\* The request of a call in flight is carried by the engine as it stands.
LEMMA InFlightCarries ==
    ASSUME TypeOK, Alone, NEW c \in Calls, c \in InFlight
    PROVE  req[c] \in Requests /\ eng \in Engine /\ Carries(eng, req[c])
<1>1. req[c] \in Requests /\ eng \in Engine
  BY DEF InFlight, TypeOK, Requests
<1> QED BY <1>1 DEF Carries, SameView, Alone

LEMMA AuditedAlone ==
    ASSUME TypeOK, Alone, ProxyAssumption, RunLoop, NEW c \in Calls, Audited(c)
    PROVE  Alone' /\ [Monitor!Next]_(Monitor!vars)
<1>1. PICK v \in Verdicts : AuditPermits(c, v) \/ AuditRefuses(c, v)
  BY DEF Audited
<1>2. pc[c] = "auditing" /\ req' = req
  BY <1>1 DEF AuditPermits, AuditRefuses, AfterAudit
<1>3. c \in InFlight /\ req[c] \in ToolRequests
  BY <1>2 DEF InFlight, TypeOK
<1>4. req[c] \in Requests /\ eng \in Engine /\ Carries(eng, req[c])
  BY <1>3, InFlightCarries
<1>5. CASE AuditPermits(c, v)
  <2>1. Forward(c, req[c], eng)
    BY <1>5 DEF AuditPermits
  <2> QED BY <1>2, <1>3, <1>4, <2>1, ForwardAlone
<1>6. CASE AuditRefuses(c, v)
  <2> DEFINE d == Arbitrate(TRUE, TRUE, TRUE, v)
  <2>1. Refuse(c, req[c], eng, d)
    BY <1>6 DEF AuditRefuses
  <2>2. d \in Decisions
    BY ArbitrateType
  <2> HIDE DEF d
  <2>3. SameView(eng, eng) /\ eng.pend = OwnEntry(eng, req[c].id, req[c].tool)
    BY <1>3, <1>4 DEF Carries, ToolRequests
  <2> QED BY <1>3, <1>4, <2>1, <2>2, <2>3, RefuseAlone
<1> QED BY <1>1, <1>5, <1>6

LEMMA DrainedAlone ==
    ASSUME TypeOK, Alone, RunLoop, NEW c \in Calls, Drained(c)
    PROVE  Alone' /\ [Monitor!Next]_(Monitor!vars)
<1>1. pc[c] = "draining" /\ req' = req /\ eng' = eng /\ c \in InFlight
  BY DEF Drained, DrainReturns, DrainRaises, InFlight
<1>2. UNCHANGED Monitor!vars
  BY <1>1 DEF Monitor!vars
<1>3. CASE DrainReturns(c)
  <2>1. pc' = [pc EXCEPT ![c] = "waiting"]
    BY <1>3 DEF DrainReturns
  <2>2. req[c] \in Requests /\ Carries(eng', req[c])
    BY <1>1, InFlightCarries
  <2> QED BY <1>1, <1>2, <2>1, <2>2, MovesAlone
<1>4. CASE DrainRaises(c)
  <2>1. pc' = [pc EXCEPT ![c] = "raised"] /\ loop' = "stopped"
    BY <1>4 DEF DrainRaises, Raise
  <2> QED BY <1>1, <1>2, <2>1, EndsAlone
<1> QED BY <1>3, <1>4 DEF Drained

LEMMA ResumeAlone ==
    ASSUME TypeOK, Alone, ProxyAssumption, NEW c \in Calls, Resume(c)
    PROVE  Alone' /\ [Monitor!Next]_(Monitor!vars)
<1>1. PICK obs \in Observations : Conclude(c, req[c], eng, obs)
  BY ResumeConcludes
<1>2. c \in InFlight
  BY ResumeConcludes DEF InFlight
<1>3. req[c] \in Requests /\ eng \in Engine /\ Carries(eng, req[c])
  BY <1>2, InFlightCarries
<1>4. [Monitor!Next]_(Monitor!vars) /\ eng'.pend = << >>
  BY <1>1, <1>3, ConcludeAlone
<1>5. \E x \in {"done", "raised"} : pc' = [pc EXCEPT ![c] = x]
  BY <1>1, <1>3, ConcludeEffect
<1> QED BY <1>2, <1>4, <1>5, EndsAlone

LEMMA StepAlone ==
    ASSUME TypeOK, Alone, ProxyAssumption, RunLoop, [Next]_vars
    PROVE  Alone' /\ [Monitor!Next]_(Monitor!vars)
<1>1. ASSUME NEW c \in Calls, Receive(c) PROVE Alone' /\ [Monitor!Next]_(Monitor!vars)
  BY <1>1, ReceiveAlone
<1>2. ASSUME NEW c \in Calls, Audited(c) PROVE Alone' /\ [Monitor!Next]_(Monitor!vars)
  BY <1>2, AuditedAlone
<1>3. ASSUME NEW c \in Calls, Drained(c) PROVE Alone' /\ [Monitor!Next]_(Monitor!vars)
  BY <1>3, DrainedAlone
<1>4. ASSUME NEW c \in Calls, Resume(c) PROVE Alone' /\ [Monitor!Next]_(Monitor!vars)
  BY <1>4, ResumeAlone
<1>5. CASE eng' = eng /\ pc' = pc /\ req' = req /\ (loop' = loop \/ loop' = "closed")
  BY <1>5 DEF Alone, InFlight, OwnEntry, Monitor!vars
<1>6. CASE Dispatch
  BY <1>5, <1>6 DEF Dispatch, DispatchMessage, DispatchGarbage, DispatchEof
<1>7. CASE \E c \in Calls : Child(c)
  BY <1>5, <1>7 DEF Child, ChildExecutes, ChildAnswers, callVars
<1>8. CASE Start \/ Close \/ ChildEmitsGarbage \/ ChildDies \/ StdinLost
  BY <1>5, <1>8 DEF Start, Close, ChildEmitsGarbage, ChildDies, StdinLost, callVars
<1>9. CASE UNCHANGED vars
  BY <1>5, <1>9 DEF vars, callVars
<1> QED BY <1>1, <1>2, <1>3, <1>4, <1>6, <1>7, <1>8, <1>9 DEF Next

LEMMA InitAlone == Init => Alone /\ Monitor!Init
BY DEF Init, InitEngine, Alone, InFlight, Monitor!Init, Monitor!Workflow, Workflow

\* The run() loop implements the sequential monitor: for every policy, what
\* the engine commits (state, certainty, counts, history) is what a monitor
\* that decides, executes and commits each call in one step would commit.
\* Nothing of it survives a second call in flight: the TLC run
\* proxy_stale_move shows the counterexample.
THEOREM RunLoopImplementsMonitor == RunLoop => (Spec => MonitorSpec)
<1> SUFFICES ASSUME RunLoop PROVE Spec => MonitorSpec
  OBVIOUS
<1>1. Init => TypeOK /\ Alone /\ Monitor!Init
  BY InitTypeOK, InitAlone
<1>2. TypeOK /\ Alone /\ [Next]_vars => TypeOK' /\ Alone' /\ [Monitor!Next]_(Monitor!vars)
  BY StepTypeOK, StepAlone, ProxyAssumption
<1> QED BY <1>1, <1>2, PTL DEF Spec, MonitorSpec, Monitor!Spec

-----------------------------------------------------------------------------
(* The receipt of a confirmed call: the snapshot taken when the call was    *)
(* evaluated is the one that would be taken now.                            *)

\* Nothing has changed since r was evaluated.
Fresh(e, r) == r.kind = "tool" => r.snap = Snapshot(e, r.tool)

SnapshotsFresh == \A c \in InFlight : Fresh(eng, req[c])

\* A snapshot does not depend on the pending transitions.
LEMMA ViewSnapshot ==
    ASSUME NEW E, NEW F, SameView(E, F), NEW t
    PROVE  Snapshot(E, t) = Snapshot(F, t)
<1>1. \A w : Forbids(E, w, t) = Forbids(F, w, t)
  BY DEF SameView, Forbids
<1>2. FirstDenier(E, t) = FirstDenier(F, t)
  BY <1>1 DEF FirstDenier
<1>3. \A id : /\ Permits(E, t) = Permits(F, t) /\ Movers(E, t) = Movers(F, t)
              /\ LastMover(E, t) = LastMover(F, t)
  BY ViewDecides
<1> QED BY <1>2, <1>3 DEF Snapshot, SameView

LEMMA EndsFresh ==
    ASSUME TypeOK, Alone, NEW c \in Calls, c \in InFlight \/ InFlight = {},
           \E x \in {"done", "raised"} : pc' = [pc EXCEPT ![c] = x]
    PROVE  SnapshotsFresh'
<1>1. InFlight' = {}
  BY DEF Alone, InFlight, TypeOK
<1> QED BY <1>1 DEF SnapshotsFresh

LEMMA MovesFresh ==
    ASSUME TypeOK, Alone, NEW c \in Calls, c \in InFlight \/ InFlight = {},
           Fresh(eng', req'[c]),
           NEW x \in {"auditing", "draining", "waiting"}, pc' = [pc EXCEPT ![c] = x]
    PROVE  SnapshotsFresh'
<1>1. InFlight' = {c}
  BY DEF Alone, InFlight, TypeOK
<1> QED BY <1>1 DEF SnapshotsFresh

LEMMA ForwardFresh ==
    ASSUME TypeOK, Alone, ProxyAssumption, NEW c \in Calls, c \in InFlight \/ InFlight = {},
           NEW r \in Requests, NEW e \in Engine, r.kind = "plain" => e = eng,
           Fresh(e, r), req'[c] = r, Forward(c, r, e)
    PROVE  SnapshotsFresh'
<1>1. CASE ForwardNoProcess(c, r, e)
  <2> DEFINE obs == "SENT_CHILD_NO_RESPONSE"
  <2>1. Conclude(c, r, e, obs) /\ obs \in Observations
    BY <1>1 DEF ForwardNoProcess, Observations
  <2> HIDE DEF obs
  <2>2. \E x \in {"done", "raised"} : pc' = [pc EXCEPT ![c] = x]
    BY <2>1, ConcludeEffect
  <2> QED BY <2>2, EndsFresh
<1>2. CASE ForwardToLostPipe(c, r, e)
  BY <1>2, EndsFresh DEF ForwardToLostPipe, Raise
<1>3. CASE ForwardToPipe(c, r, e)
  <2>1. eng' = e /\ \E x \in {"draining", "waiting"} : pc' = [pc EXCEPT ![c] = x]
    BY <1>3 DEF ForwardToPipe
  <2> QED BY <2>1, MovesFresh
<1> QED BY <1>1, <1>2, <1>3 DEF Forward

\* A tools/call that has just been evaluated.
LEMMA EvaluatedFresh ==
    ASSUME TypeOK, NEW id \in RequestIds, NEW t \in Tools
    PROVE  LET e == Evaluate(eng, id, t)
               r == ToolRequest(id, t)
           IN  /\ e \in Engine /\ Fresh(e, r)
               /\ r \in ToolRequests /\ r \in Requests /\ r.kind = "tool"
<1>1. Evaluate(eng, id, t) \in Engine /\ SameView(eng, Evaluate(eng, id, t))
  BY EvaluateType DEF TypeOK, SameView
<1>2. Snapshot(eng, t) = Snapshot(Evaluate(eng, id, t), t)
  BY <1>1, ViewSnapshot
<1> QED BY <1>1, <1>2, ToolRequestType DEF ToolRequest, Requests, Fresh

LEMMA ReceiveFresh ==
    ASSUME TypeOK, Alone, ProxyAssumption, RunLoop, NEW c \in Calls, Receive(c)
    PROVE  SnapshotsFresh'
<1>1. PICK id \in RequestIds :
        \/ \E t \in Tools, cbac \in BOOLEAN : ReceiveDenied(c, id, t, cbac)
        \/ \E t \in Tools : ReceiveForAudit(c, id, t)
        \/ \E t \in Tools : ReceivePermitted(c, id, t)
        \/ ReceivePlain(c, id)
  BY DEF Receive
<1>2. ASSUME NEW t \in Tools, NEW cbac \in BOOLEAN, ReceiveDenied(c, id, t, cbac)
      PROVE  SnapshotsFresh'
  <2> DEFINE r == ToolRequest(id, t)
             e == Evaluate(eng, id, t)
             d == Arbitrate(cbac, FlowAllowed(t), Permits(eng, t), "NONE")
  <2>1. Accept(c, r) /\ Refuse(c, r, e, d)
    BY <1>2 DEF ReceiveDenied
  <2>2. e \in Engine /\ r \in ToolRequests
    BY EvaluatedFresh
  <2>3. d \in Decisions
    BY ArbitrateType DEF FlowAllowed, Permits
  <2> HIDE DEF r, e, d
  <2>4. InFlight = {}
    BY <2>1, AcceptAlone
  <2>5. \E x \in {"done", "raised"} : pc' = [pc EXCEPT ![c] = x]
    BY <2>1, <2>2, <2>3, RefuseEffect
  <2> QED BY <2>4, <2>5, EndsFresh
<1>3. ASSUME NEW t \in Tools, ReceiveForAudit(c, id, t)
      PROVE  SnapshotsFresh'
  <2> DEFINE r == ToolRequest(id, t)
             e == Evaluate(eng, id, t)
  <2>1. Accept(c, r) /\ eng' = e /\ pc' = [pc EXCEPT ![c] = "auditing"]
    BY <1>3 DEF ReceiveForAudit
  <2>2. Fresh(e, r)
    BY EvaluatedFresh
  <2> HIDE DEF r, e
  <2>3. InFlight = {} /\ req'[c] = r
    BY <2>1, AcceptAlone DEF Accept, TypeOK
  <2> QED BY <2>1, <2>2, <2>3, MovesFresh
<1>4. ASSUME NEW t \in Tools, ReceivePermitted(c, id, t)
      PROVE  SnapshotsFresh'
  <2> DEFINE r == ToolRequest(id, t)
             e == Evaluate(eng, id, t)
  <2>1. Accept(c, r) /\ Forward(c, r, e)
    BY <1>4 DEF ReceivePermitted
  <2>2. e \in Engine /\ Fresh(e, r) /\ r \in Requests /\ r.kind = "tool"
    BY EvaluatedFresh
  <2> HIDE DEF r, e
  <2>3. InFlight = {} /\ req'[c] = r
    BY <2>1, AcceptAlone DEF Accept, TypeOK
  <2> QED BY <2>1, <2>2, <2>3, ForwardFresh
<1>5. CASE ReceivePlain(c, id)
  <2> DEFINE r == [kind |-> "plain", id |-> id]
  <2>1. Accept(c, r) /\ Forward(c, r, eng)
    BY <1>5 DEF ReceivePlain
  <2>2. r \in Requests /\ Fresh(eng, r)
    BY DEF Requests, PlainRequests, Fresh
  <2> HIDE DEF r
  <2>3. InFlight = {} /\ req'[c] = r /\ eng \in Engine
    BY <2>1, AcceptAlone DEF Accept, TypeOK
  <2> QED BY <2>1, <2>2, <2>3, ForwardFresh
<1> QED BY <1>1, <1>2, <1>3, <1>4, <1>5

LEMMA StepFresh ==
    ASSUME TypeOK, Alone, SnapshotsFresh, ProxyAssumption, RunLoop, [Next]_vars
    PROVE  SnapshotsFresh'
<1>1. ASSUME NEW c \in Calls, Receive(c) PROVE SnapshotsFresh'
  BY <1>1, ReceiveFresh
<1>2. ASSUME NEW c \in Calls, Audited(c) PROVE SnapshotsFresh'
  <2>1. PICK v \in Verdicts : AuditPermits(c, v) \/ AuditRefuses(c, v)
    BY <1>2 DEF Audited
  <2>2. /\ c \in InFlight /\ req' = req /\ req[c] \in ToolRequests /\ req[c] \in Requests
        /\ eng \in Engine
    BY <2>1 DEF AuditPermits, AuditRefuses, AfterAudit, InFlight, TypeOK, Requests
  <2>3. CASE AuditPermits(c, v)
    BY <2>2, <2>3, ForwardFresh DEF AuditPermits, SnapshotsFresh
  <2>4. CASE AuditRefuses(c, v)
    <3> DEFINE d == Arbitrate(TRUE, TRUE, TRUE, v)
    <3>1. Refuse(c, req[c], eng, d) /\ d \in Decisions
      BY <2>4, ArbitrateType DEF AuditRefuses
    <3> HIDE DEF d
    <3>2. \E x \in {"done", "raised"} : pc' = [pc EXCEPT ![c] = x]
      BY <2>2, <3>1, RefuseEffect
    <3> QED BY <2>2, <3>2, EndsFresh
  <2> QED BY <2>1, <2>3, <2>4
<1>3. ASSUME NEW c \in Calls, Drained(c) PROVE SnapshotsFresh'
  <2>1. pc[c] = "draining" /\ req' = req /\ eng' = eng /\ c \in InFlight
    BY <1>3 DEF Drained, DrainReturns, DrainRaises, InFlight
  <2>2. CASE DrainReturns(c)
    <3>1. pc' = [pc EXCEPT ![c] = "waiting"] /\ Fresh(eng', req'[c])
      BY <2>1, <2>2 DEF DrainReturns, SnapshotsFresh
    <3> QED BY <2>1, <3>1, MovesFresh
  <2>3. CASE DrainRaises(c)
    BY <2>1, <2>3, EndsFresh DEF DrainRaises, Raise
  <2> QED BY <1>3, <2>2, <2>3 DEF Drained
<1>4. ASSUME NEW c \in Calls, Resume(c) PROVE SnapshotsFresh'
  <2>1. PICK obs \in Observations : Conclude(c, req[c], eng, obs)
    BY <1>4, ResumeConcludes
  <2>2. c \in InFlight
    BY <1>4, ResumeConcludes DEF InFlight
  <2>3. req[c] \in Requests /\ eng \in Engine
    BY <2>2, InFlightCarries
  <2>4. \E x \in {"done", "raised"} : pc' = [pc EXCEPT ![c] = x]
    BY <2>1, <2>3, ConcludeEffect
  <2> QED BY <2>2, <2>4, EndsFresh
<1>5. CASE eng' = eng /\ pc' = pc /\ req' = req
  BY <1>5 DEF SnapshotsFresh, InFlight
<1>6. CASE Dispatch
  BY <1>5, <1>6 DEF Dispatch, DispatchMessage, DispatchGarbage, DispatchEof
<1>7. CASE \E c \in Calls : Child(c)
  BY <1>5, <1>7 DEF Child, ChildExecutes, ChildAnswers, callVars
<1>8. CASE Start \/ Close \/ ChildEmitsGarbage \/ ChildDies \/ StdinLost
  BY <1>5, <1>8 DEF Start, Close, ChildEmitsGarbage, ChildDies, StdinLost, callVars
<1>9. CASE UNCHANGED vars
  BY <1>5, <1>9 DEF vars, callVars
<1> QED BY <1>1, <1>2, <1>3, <1>4, <1>6, <1>7, <1>8, <1>9 DEF Next

\* Of the last receipt: only a confirmed call claims a response.
LEMMA NewReceipt ==
    ASSUME TypeOK, NEW c \in Calls, NEW d \in Decisions, NEW obs \in Observations,
           NEW snap \in Snapshots, RecordAndReturn(c, d, obs, snap),
           NEW i \in DOMAIN receipts' \ DOMAIN receipts
    PROVE  /\ receipts'[i].snap = snap
           /\ receipts'[i].obs = "RESPONSE_RECEIVED" => obs = "RESPONSE_RECEIVED"
<1> DEFINE x == Receipt(c, d, obs, snap)
<1>1. receipts \in Seq(Receipts) /\ x \in Receipts
  BY DEF TypeOK, Receipt, Receipts, Observations
<1>2. receipts' = Append(receipts, x)
  BY DEF RecordAndReturn
<1>3. x.snap = snap /\ (x.obs = "RESPONSE_RECEIVED" => obs = "RESPONSE_RECEIVED")
  BY DEF Receipt
<1> HIDE DEF x
<1>4. /\ Append(receipts, x) \in Seq(Receipts) /\ Len(Append(receipts, x)) = Len(receipts) + 1
      /\ Append(receipts, x)[Len(receipts) + 1] = x
  BY <1>1, AppendProperties
<1>5. DOMAIN receipts' = 1 .. Len(receipts) + 1 /\ DOMAIN receipts = 1 .. Len(receipts)
      /\ Len(receipts) \in Nat
  BY <1>1, <1>2, <1>4, LenProperties
<1>6. i = Len(receipts) + 1
  BY <1>5
<1> QED BY <1>2, <1>3, <1>4, <1>6

LEMMA ConcludeReceipt ==
    ASSUME TypeOK, NEW c \in Calls, NEW r \in Requests, NEW e, NEW obs \in Observations,
           Conclude(c, r, e, obs),
           NEW i \in DOMAIN receipts' \ DOMAIN receipts, receipts'[i].obs = "RESPONSE_RECEIVED"
    PROVE  /\ r.kind = "tool" /\ r \in ToolRequests /\ receipts'[i].snap = r.snap
           /\ eng' = Confirm(e, r.id, r.tool)
<1>1. r.kind = "tool" /\ r \in ToolRequests
  BY DEF Conclude, Requests, PlainRequests, ToolRequests
<1> DEFINE snap == [r.snap EXCEPT !.after = IF obs = "RESPONSE_RECEIVED" THEN @ ELSE r.snap.before]
<1>2. RecordAndReturn(c, "ALLOW", obs, snap) /\ eng' = CommitOutcome(e, r.id, r.tool, obs)
  BY <1>1 DEF Conclude, ConcludeTool, Commit
<1>3. snap \in Snapshots /\ (obs = "RESPONSE_RECEIVED" => snap = r.snap)
  BY <1>1 DEF ToolRequests, Snapshots
<1> HIDE DEF snap
<1>4. receipts'[i].snap = snap /\ obs = "RESPONSE_RECEIVED"
  BY <1>2, <1>3, NewReceipt DEF Decisions
<1>5. eng' = Confirm(e, r.id, r.tool)
  BY <1>2, <1>4 DEF CommitOutcome
<1> QED BY <1>1, <1>3, <1>4, <1>5

LEMMA RefuseReceipt ==
    ASSUME TypeOK, NEW c \in Calls, NEW r \in ToolRequests, NEW e, NEW d \in Decisions,
           Refuse(c, r, e, d), NEW i \in DOMAIN receipts' \ DOMAIN receipts
    PROVE  receipts'[i].obs # "RESPONSE_RECEIVED"
<1> DEFINE snap == [r.snap EXCEPT !.after = r.snap.before]
<1>1. RecordAndReturn(c, d, "NOT_SENT", snap) /\ snap \in Snapshots
  BY DEF Refuse, ToolRequests, Snapshots
<1> HIDE DEF snap
<1> QED BY <1>1, NewReceipt DEF Observations

LEMMA ForwardReceipt ==
    ASSUME TypeOK, NEW c \in Calls, NEW r \in Requests, NEW e, Forward(c, r, e),
           NEW i \in DOMAIN receipts' \ DOMAIN receipts
    PROVE  receipts'[i].obs # "RESPONSE_RECEIVED"
<1>1. CASE ForwardNoProcess(c, r, e)
  <2> SUFFICES ASSUME receipts'[i].obs = "RESPONSE_RECEIVED" PROVE FALSE
    OBVIOUS
  <2>1. Conclude(c, r, e, "SENT_CHILD_NO_RESPONSE")
    BY <1>1 DEF ForwardNoProcess
  <2>2. r.kind = "tool" /\ r \in ToolRequests
    BY <2>1 DEF Conclude, Requests, PlainRequests, ToolRequests
  <2> DEFINE snap == [r.snap EXCEPT !.after = r.snap.before]
  <2>3. RecordAndReturn(c, "ALLOW", "SENT_CHILD_NO_RESPONSE", snap) /\ snap \in Snapshots
    BY <2>1, <2>2 DEF Conclude, ConcludeTool, ToolRequests, Snapshots
  <2> HIDE DEF snap
  <2> QED BY <2>3, NewReceipt DEF Decisions, Observations
<1>2. CASE ForwardToLostPipe(c, r, e) \/ ForwardToPipe(c, r, e)
  BY <1>2 DEF ForwardToLostPipe, ForwardToPipe
<1> QED BY <1>1, <1>2 DEF Forward

\* A response is claimed by the call that resumes with it.
LEMMA ClaimedByResume ==
    ASSUME TypeOK, [Next]_vars, NEW i \in DOMAIN receipts' \ DOMAIN receipts,
           receipts'[i].obs = "RESPONSE_RECEIVED"
    PROVE  \E c \in Calls, obs \in Observations : Resume(c) /\ Conclude(c, req[c], eng, obs)
<1>1. ASSUME NEW c \in Calls, Receive(c) PROVE FALSE
  <2>1. PICK id \in RequestIds :
          \/ \E t \in Tools, cbac \in BOOLEAN : ReceiveDenied(c, id, t, cbac)
          \/ \E t \in Tools : ReceiveForAudit(c, id, t)
          \/ \E t \in Tools : ReceivePermitted(c, id, t)
          \/ ReceivePlain(c, id)
    BY <1>1 DEF Receive
  <2>2. ASSUME NEW t \in Tools, NEW cbac \in BOOLEAN, ReceiveDenied(c, id, t, cbac) PROVE FALSE
    <3> DEFINE r == ToolRequest(id, t)
               e == Evaluate(eng, id, t)
               d == Arbitrate(cbac, FlowAllowed(t), Permits(eng, t), "NONE")
    <3>1. Refuse(c, r, e, d)
      BY <2>2 DEF ReceiveDenied
    <3>2. r \in ToolRequests
      BY EvaluatedFresh
    <3>3. d \in Decisions
      BY ArbitrateType DEF FlowAllowed, Permits
    <3> HIDE DEF r, e, d
    <3> QED BY <3>1, <3>2, <3>3, RefuseReceipt
  <2>3. ASSUME NEW t \in Tools, ReceiveForAudit(c, id, t) PROVE FALSE
    BY <2>3 DEF ReceiveForAudit
  <2>4. ASSUME NEW t \in Tools, ReceivePermitted(c, id, t) PROVE FALSE
    <3> DEFINE r == ToolRequest(id, t)
               e == Evaluate(eng, id, t)
    <3>1. Forward(c, r, e)
      BY <2>4 DEF ReceivePermitted
    <3>2. r \in Requests
      BY EvaluatedFresh
    <3> HIDE DEF r, e
    <3> QED BY <3>1, <3>2, ForwardReceipt
  <2>5. CASE ReceivePlain(c, id)
    <3> DEFINE r == [kind |-> "plain", id |-> id]
    <3>1. Forward(c, r, eng) /\ r \in Requests
      BY <2>5 DEF ReceivePlain, Requests, PlainRequests
    <3> HIDE DEF r
    <3> QED BY <3>1, ForwardReceipt
  <2> QED BY <2>1, <2>2, <2>3, <2>4, <2>5
<1>2. ASSUME NEW c \in Calls, Audited(c) PROVE FALSE
  <2>1. PICK v \in Verdicts : AuditPermits(c, v) \/ AuditRefuses(c, v)
    BY <1>2 DEF Audited
  <2>2. req[c] \in ToolRequests /\ req[c] \in Requests
    BY <2>1 DEF AuditPermits, AuditRefuses, TypeOK, Requests
  <2>3. CASE AuditPermits(c, v)
    BY <2>2, <2>3, ForwardReceipt DEF AuditPermits
  <2>4. CASE AuditRefuses(c, v)
    <3> DEFINE d == Arbitrate(TRUE, TRUE, TRUE, v)
    <3>1. Refuse(c, req[c], eng, d) /\ d \in Decisions
      BY <2>4, ArbitrateType DEF AuditRefuses
    <3> HIDE DEF d
    <3> QED BY <2>2, <3>1, RefuseReceipt
  <2> QED BY <2>1, <2>3, <2>4
<1>3. ASSUME NEW c \in Calls, Drained(c) PROVE FALSE
  BY <1>3 DEF Drained, DrainReturns, DrainRaises
<1>4. ASSUME NEW c \in Calls, Resume(c)
      PROVE  \E obs \in Observations : Conclude(c, req[c], eng, obs)
  BY <1>4, ResumeConcludes
<1>5. CASE Dispatch
  BY <1>5 DEF Dispatch, DispatchMessage, DispatchGarbage, DispatchEof
<1>6. CASE \E c \in Calls : Child(c)
  BY <1>6 DEF Child, ChildExecutes, ChildAnswers
<1>7. CASE Start \/ Close \/ ChildEmitsGarbage \/ ChildDies \/ StdinLost
  BY <1>7 DEF Start, Close, ChildEmitsGarbage, ChildDies, StdinLost
<1>8. CASE UNCHANGED vars
  BY <1>8 DEF vars
<1> QED BY <1>1, <1>2, <1>3, <1>4, <1>5, <1>6, <1>7, <1>8 DEF Next

\* With one workflow, a confirmed call leaves it where its snapshot says.
LEMMA ConfirmedAsNamed ==
    ASSUME TypeOK, NumWorkflows = 1, NEW id \in RequestIds, NEW t \in Tools, Permits(eng, t),
           eng.pend = OwnEntry(eng, id, t), eng' = Confirm(eng, id, t)
    PROVE  Snapshot(eng, t).wf = 1 /\ eng'.state[1] = Snapshot(eng, t).after
<1>1. Confirmed(eng, eng', id, t) /\ eng \in Engine
  BY ConfirmType DEF TypeOK
<1>2. Workflow = {1} /\ DOMAIN eng.state = {1}
  BY <1>1 DEF Workflow, Engine
<1>3. CASE Movers(eng, t) = {}
  <2>1. eng'.state = eng.state
    BY <1>1, <1>3, OwnerAlone DEF Confirmed
  <2> QED BY <1>3, <2>1 DEF Snapshot
<1>4. CASE Movers(eng, t) # {}
  <2>1. LastMover(eng, t) = 1
    <3>1. LastMover(eng, t) \in Movers(eng, t)
      BY <1>4, LastMoverExists, PolicyAssumption
    <3> QED BY <1>2, <3>1 DEF Movers
  <2>2. eng'.state = [eng.state EXCEPT ![1] = Move[1][<<eng.state[1], t>>]]
    BY <1>1, <1>4, <2>1, OwnerAlone DEF Confirmed
  <2> QED BY <1>2, <1>4, <2>1, <2>2 DEF Snapshot
<1> QED BY <1>3, <1>4

LEMMA StepNamesState ==
    ASSUME TypeOK, Alone, SnapshotsFresh, NumWorkflows \in {0, 1}, [Next]_vars,
           NEW i \in DOMAIN receipts' \ DOMAIN receipts,
           receipts'[i].obs = "RESPONSE_RECEIVED", receipts'[i].snap.wf # 0
    PROVE  eng'.state[receipts'[i].snap.wf] = receipts'[i].snap.after
<1>1. PICK c \in Calls, obs \in Observations : Resume(c) /\ Conclude(c, req[c], eng, obs)
  BY ClaimedByResume
<1> DEFINE r == req[c]
<1>2. c \in InFlight
  BY <1>1, ResumeConcludes DEF InFlight
<1>3. r \in Requests
  BY <1>2, InFlightCarries
<1>4. Fresh(eng, r) /\ (r.kind = "tool" => Permits(eng, r.tool) /\ eng.pend = OwnEntry(eng, r.id, r.tool))
  BY <1>2 DEF SnapshotsFresh, Alone
<1>5. Conclude(c, r, eng, obs)
  BY <1>1
<1> HIDE DEF r
<1>6. /\ r.kind = "tool" /\ r \in ToolRequests /\ receipts'[i].snap = r.snap
      /\ eng' = Confirm(eng, r.id, r.tool)
  BY <1>3, <1>5, ConcludeReceipt
<1>7. receipts'[i].snap = Snapshot(eng, r.tool) /\ r.id \in RequestIds /\ r.tool \in Tools
  BY <1>4, <1>6 DEF Fresh, ToolRequests
<1>8. CASE NumWorkflows = 0
  BY <1>7, <1>8 DEF Snapshot
<1>9. CASE NumWorkflows = 1
  BY <1>4, <1>6, <1>7, <1>9, ConfirmedAsNamed
<1> QED BY <1>8, <1>9

\* With one message in flight at a time, the receipt of a confirmed call
\* names the state that its workflow is then in (receipts written after the
\* commit, but from a snapshot taken before the call was forwarded).  It takes
\* a policy with at most one workflow: with more, a permission names the first
\* workflow and the target of the last transition found, whosever it is.
THEOREM ReceiptsNameState ==
    RunLoop /\ NumWorkflows \in {0, 1} => (Spec => ReceiptNamesState)
<1> SUFFICES ASSUME RunLoop, NumWorkflows \in {0, 1} PROVE Spec => ReceiptNamesState
  OBVIOUS
<1> DEFINE Named ==
      \A i \in DOMAIN receipts' \ DOMAIN receipts :
          LET r == receipts'[i] IN
          r.obs = "RESPONSE_RECEIVED" /\ r.snap.wf # 0 =>
              eng'.state[r.snap.wf] = r.snap.after
<1>1. Init => TypeOK /\ Alone /\ SnapshotsFresh
  BY InitTypeOK, InitAlone DEF Init, SnapshotsFresh, InFlight
<1>2. TypeOK /\ Alone /\ SnapshotsFresh /\ [Next]_vars =>
        TypeOK' /\ Alone' /\ SnapshotsFresh' /\ Named
  BY StepTypeOK, StepAlone, StepFresh, StepNamesState, ProxyAssumption
<1> HIDE DEF Named
<1>3. Spec => [][Named]_vars
  BY <1>1, <1>2, PTL DEF Spec
<1> QED BY <1>3 DEF ReceiptNamesState, Named
=============================================================================
