------------------------- MODULE ExtProcStreamProofs -------------------------
(***************************************************************************)
(* Proofs about ExtProcStream for every number of streams and every length *)
(* of their promise chains.  All actions but the shutdown's change one     *)
(* stream, so the inductive invariant says of each stream what its closure *)
(* and its place among the undecided calls have to do with each other.     *)
(***************************************************************************)
EXTENDS ExtProcStream, TLAPS

Closures ==
  [sent : {"absent", "nothing", "body", "whole", "trailers"},
   chain : Seq(Messages), halfClosed : BOOLEAN, deciding : BOOLEAN,
   requestStarted : BOOLEAN, requestForwarded : BOOLEAN, terminated : BOOLEAN,
   verdict : Verdicts, told : {"none", "continue", "deny"},
   closed : {"open", "clean", "destroyed"}]

(* The end of a stream is the last message of its chain.                    *)
EndIsLast(st) ==
  \A i \in DOMAIN st.chain : st.chain[i] = "end" => i = Len(st.chain) /\ st.halfClosed

(* A request whose handling has not started has its parts on the chain.     *)
PartsAreAhead(st) ==
  ~st.requestStarted /\ ~st.terminated =>
    st.sent \in {"absent", "nothing"} \/ \E i \in DOMAIN st.chain : st.chain[i] \in RequestParts

(* A stream that was closed cleanly is over.                                *)
CleanIsOver(st) ==
  st.closed = "clean" =>
    /\ ~st.deciding
    /\ \/ st.verdict = "denied"
       \/ /\ st.chain = << >>
          /\ st.sent = "nothing" \/ st.verdict \in {"bodiless", "allowed"}

(* Which calls a shutdown would destroy.                                    *)
SetIsRight(st, in) ==
  /\ st.halfClosed => ~in
  /\ st.sent # "absent" /\ st.closed = "open" /\ ~st.halfClosed /\ st.verdict = "none" => in
  /\ in => st.sent # "absent" /\ st.closed = "open" /\ st.verdict \in {"none", "bodiless"}

StreamOK(st, in) ==
  /\ st \in Closures
  /\ st.sent = "absent" => st = Unopened
  /\ st.requestForwarded => st.verdict # "none"
  /\ st.verdict = "denied" => st.terminated
  /\ EndIsLast(st) /\ PartsAreAhead(st) /\ CleanIsOver(st) /\ SetIsRight(st, in)

IInv ==
  /\ DOMAIN stream = Streams /\ stream = [s \in Streams |-> stream[s]]
  /\ undecided \subseteq Streams
  /\ \A s \in Streams : StreamOK(stream[s], s \in undecided)

-----------------------------------------------------------------------------
(* What one stream's step needs to show.                                    *)

\* A step that leaves one stream well, and the others and their places in
\* the set as they were, keeps the invariant.
LEMMA OneStream ==
  ASSUME IInv, NEW s \in Streams, NEW r, NEW left \in SUBSET Streams,
         stream' = [stream EXCEPT ![s] = r], undecided' = left,
         left \ {s} = undecided \ {s}, StreamOK(r, s \in left)
  PROVE  IInv'
<1>1. /\ DOMAIN stream' = Streams /\ stream' = [q \in Streams |-> stream'[q]]
      /\ stream'[s] = r /\ \A q \in Streams \ {s} : stream'[q] = stream[q]
  BY DEF IInv
<1>2. \A q \in Streams : StreamOK(stream'[q], q \in undecided')
  <2> SUFFICES ASSUME NEW q \in Streams PROVE StreamOK(stream'[q], q \in undecided')
    OBVIOUS
  <2>1. CASE q = s
    BY <1>1, <2>1
  <2>2. CASE q # s
    <3>1. (q \in undecided') = (q \in undecided) /\ stream'[q] = stream[q]
      BY <1>1, <2>2
    <3> QED BY <3>1 DEF IInv
  <2> QED BY <2>1, <2>2
<1> QED BY <1>1, <1>2 DEF IInv, StreamOK, Closures, EndIsLast, PartsAreAhead, CleanIsOver, SetIsRight

\* The chain of a stream without its first message.
LEMMA TailOfChain ==
  ASSUME NEW chain \in Seq(Messages), chain # << >>
  PROVE  /\ Tail(chain) \in Seq(Messages) /\ Len(Tail(chain)) = Len(chain) - 1
         /\ DOMAIN Tail(chain) = 1 .. (Len(chain) - 1)
         /\ \A i \in DOMAIN Tail(chain) : i + 1 \in DOMAIN chain /\ Tail(chain)[i] = chain[i + 1]
         /\ \A i \in DOMAIN chain : i # 1 => i - 1 \in DOMAIN Tail(chain) /\ Tail(chain)[i - 1] = chain[i]
         /\ chain[1] = Head(chain) /\ 1 \in DOMAIN chain /\ DOMAIN chain = 1 .. Len(chain)
OBVIOUS

\* A closure from which a message was taken keeps the end of the chain last.
LEMMA TakenKeepsEnd ==
  ASSUME NEW st \in Closures, NEW r \in Closures, EndIsLast(st), st.chain # << >>,
         r.chain = Tail(st.chain), r.halfClosed = st.halfClosed
  PROVE  EndIsLast(r)
<1>1. st.chain \in Seq(Messages)
  BY DEF Closures
<1> SUFFICES ASSUME NEW i \in DOMAIN r.chain, r.chain[i] = "end"
             PROVE  i = Len(r.chain) /\ r.halfClosed
  BY DEF EndIsLast
<1>2. i + 1 \in DOMAIN st.chain /\ st.chain[i + 1] = "end"
  BY <1>1, TailOfChain
<1>3. i + 1 = Len(st.chain) /\ st.halfClosed
  BY <1>2 DEF EndIsLast
<1>4. i \in 1 .. (Len(st.chain) - 1) /\ Len(r.chain) = Len(st.chain) - 1
  BY <1>1, TailOfChain
<1> QED BY <1>1, <1>3, <1>4

\* deny leaves the stream terminated and out of the set.
LEMMA DenyKeeps ==
  ASSUME IInv, NEW s \in Streams, NEW st, StreamOK(st, s \in undecided),
         st.sent # "absent", ~st.deciding, Deny(s, st)
  PROVE  IInv'
<1>1. CASE st.terminated
  <2>1. stream' = [stream EXCEPT ![s] = st] /\ undecided' = undecided /\ undecided \in SUBSET Streams
    BY <1>1 DEF Deny, IInv
  <2> QED BY <2>1, OneStream
<1>2. CASE ~st.terminated
  <2>1. PICK told \in {st.told, "deny"} :
          stream' = [stream EXCEPT ![s] =
            [st EXCEPT !.terminated = TRUE, !.verdict = "denied", !.told = told, !.closed = "clean"]]
    BY <1>2 DEF Deny
  <2>2. undecided' = undecided \ {s} /\ undecided \ {s} \in SUBSET Streams
    BY <1>2 DEF Deny, IInv
  <2>3. PICK r : r = [st EXCEPT !.terminated = TRUE, !.verdict = "denied", !.told = told, !.closed = "clean"]
    OBVIOUS
  <2>4. st \in Closures /\ told \in {"none", "continue", "deny"}
    BY DEF StreamOK, Closures
  <2>5. /\ r \in Closures /\ r.sent = st.sent /\ r.chain = st.chain /\ r.halfClosed = st.halfClosed
        /\ r.deciding = st.deciding /\ r.terminated /\ r.verdict = "denied" /\ r.closed = "clean"
    BY <2>3, <2>4 DEF Closures, Verdicts
  <2>6. StreamOK(r, s \in undecided \ {s})
    BY <2>5 DEF StreamOK, EndIsLast, PartsAreAhead, CleanIsOver, SetIsRight
  <2>7. stream' = [stream EXCEPT ![s] = r]
    BY <2>1, <2>3
  <2> QED BY <2>2, <2>6, <2>7, OneStream
<1> QED BY <1>1, <1>2

\* write tells Envoy to continue, or the stream is destroyed.
LEMMA WriteKeeps ==
  ASSUME IInv, NEW s \in Streams, NEW st, NEW left \in {undecided, undecided \ {s}},
         StreamOK(st, s \in left), st.sent # "absent", Write(s, st, left)
  PROVE  IInv'
<1>0. left \in SUBSET Streams /\ left \ {s} = undecided \ {s}
  BY DEF IInv
<1>1. CASE st.terminated
  <2>1. stream' = [stream EXCEPT ![s] = st] /\ undecided' = left
    BY <1>1 DEF Write
  <2> QED BY <1>0, <2>1, OneStream
<1>2. CASE ~st.terminated /\ stream' = [stream EXCEPT ![s] = [st EXCEPT !.told = "continue"]]
                          /\ undecided' = left
  <2>1. PICK r : r = [st EXCEPT !.told = "continue"]
    OBVIOUS
  <2>2. st \in Closures
    BY DEF StreamOK
  <2>3. /\ r \in Closures /\ r.sent = st.sent /\ r.chain = st.chain /\ r.halfClosed = st.halfClosed
        /\ r.deciding = st.deciding /\ r.requestStarted = st.requestStarted
        /\ r.requestForwarded = st.requestForwarded /\ r.terminated = st.terminated
        /\ r.verdict = st.verdict /\ r.closed = st.closed
    BY <2>1, <2>2 DEF Closures
  <2>4. StreamOK(r, s \in left)
    BY <2>3 DEF StreamOK, EndIsLast, PartsAreAhead, CleanIsOver, SetIsRight
  <2> QED BY <1>0, <1>2, <2>1, <2>4, OneStream
<1>3. CASE ~st.terminated /\ stream' = [stream EXCEPT ![s] = Destroyed(st)] /\ undecided' = left \ {s}
  <2>1. PICK r : r = Destroyed(st)
    OBVIOUS
  <2>2. st \in Closures
    BY DEF StreamOK
  <2>3. /\ r \in Closures /\ r.sent = st.sent /\ r.chain = st.chain /\ r.halfClosed = st.halfClosed
        /\ r.requestForwarded = st.requestForwarded /\ r.terminated
        /\ r.verdict = st.verdict /\ r.closed = "destroyed"
    BY <2>1, <2>2 DEF Destroyed, Closures
  <2>4. StreamOK(r, s \in left \ {s})
    BY <2>3 DEF StreamOK, EndIsLast, PartsAreAhead, CleanIsOver, SetIsRight
  <2>5. left \ {s} \in SUBSET Streams /\ (left \ {s}) \ {s} = undecided \ {s}
    BY <1>0
  <2> QED BY <1>3, <2>1, <2>4, <2>5, OneStream
<1> QED BY <1>1, <1>2, <1>3 DEF Write
-----------------------------------------------------------------------------
(* Envoy's actions.                                                         *)

LEMMA UnopenedType == Unopened \in Closures
<1>1. << >> \in Seq(Messages)
  OBVIOUS
<1> QED BY <1>1 DEF Unopened, Closures, Verdicts

LEMMA OpenKeeps ==
  ASSUME IInv, NEW s \in Streams, Open(s)
  PROVE  IInv'
<1>1. PICK r : r = [stream[s] EXCEPT !.sent = "nothing"]
  OBVIOUS
<1>2. stream' = [stream EXCEPT ![s] = r] /\ undecided' = undecided \cup {s}
  BY <1>1 DEF Open
<1>3. stream[s] = Unopened /\ Unopened \in Closures
  BY UnopenedType DEF IInv, StreamOK, Open
<1>4. /\ r \in Closures /\ r.sent = "nothing" /\ r.chain = << >> /\ ~r.halfClosed
      /\ ~r.requestForwarded /\ r.verdict = "none" /\ r.closed = "open"
  <2>1. PICK st \in Closures : st = stream[s] /\ st = Unopened
    BY <1>3
  <2>2. /\ r \in Closures /\ r.sent = "nothing" /\ r.chain = st.chain /\ r.halfClosed = st.halfClosed
        /\ r.requestForwarded = st.requestForwarded /\ r.verdict = st.verdict
        /\ r.closed = st.closed
    BY <1>1, <2>1 DEF Closures
  <2> QED BY <2>1, <2>2 DEF Unopened
<1>5. StreamOK(r, s \in undecided \cup {s})
  BY <1>4 DEF StreamOK, EndIsLast, PartsAreAhead, CleanIsOver, SetIsRight
<1>6. undecided \cup {s} \in SUBSET Streams
  BY DEF IInv
<1> QED BY <1>2, <1>5, <1>6, OneStream

LEMMA SendKeeps ==
  ASSUME IInv, NEW s \in Streams, NEW m \in Messages, Send(s, m)
  PROVE  IInv'
<1> DEFINE st == stream[s]
           after == SentAfter(s, m)
           longer == Append(st.chain, m)
<1>1. /\ st \in Closures /\ st.chain \in Seq(Messages) /\ StreamOK(st, s \in undecided)
      /\ st.sent # "absent" /\ st.closed = "open" /\ ~st.halfClosed
  BY DEF IInv, StreamOK, Closures, Send, Live
<1>2. m # "end" /\ (m \notin RequestParts => after = st.sent)
      /\ after \in {"nothing", "body", "whole", "trailers"}
  BY <1>1 DEF Send, Sends, SentAfter, Closures, Messages, RequestParts
<1>3. /\ longer \in Seq(Messages) /\ Len(longer) = Len(st.chain) + 1
      /\ longer[Len(st.chain) + 1] = m /\ Len(st.chain) + 1 \in DOMAIN longer
      /\ \A i \in DOMAIN longer : i # Len(st.chain) + 1 => i \in DOMAIN st.chain
      /\ \A i \in DOMAIN st.chain : i \in DOMAIN longer /\ longer[i] = st.chain[i]
  BY <1>1
<1>4. PICK r : r = [st EXCEPT !.sent = after, !.chain = longer]
  OBVIOUS
<1>5. stream' = [stream EXCEPT ![s] = r] /\ undecided' = undecided
  BY <1>4 DEF Send
<1> HIDE DEF st, after, longer
<1>6. /\ r \in Closures /\ r.sent = after /\ r.chain = longer /\ r.halfClosed = st.halfClosed
      /\ r.deciding = st.deciding /\ r.requestStarted = st.requestStarted
      /\ r.requestForwarded = st.requestForwarded /\ r.terminated = st.terminated
      /\ r.verdict = st.verdict /\ r.closed = st.closed
  BY <1>1, <1>2, <1>3, <1>4 DEF Closures
<1>7. EndIsLast(r)
  BY <1>1, <1>2, <1>3, <1>6 DEF StreamOK, EndIsLast
<1>8. PartsAreAhead(r)
  <2>1. CASE m \in RequestParts
    BY <1>3, <1>6, <2>1 DEF PartsAreAhead
  <2>2. CASE m \notin RequestParts
    BY <1>1, <1>2, <1>3, <1>6, <2>2 DEF StreamOK, PartsAreAhead
  <2> QED BY <2>1, <2>2
<1>9. StreamOK(r, s \in undecided)
  BY <1>1, <1>2, <1>6, <1>7, <1>8 DEF StreamOK, CleanIsOver, SetIsRight
<1>10. undecided \in SUBSET Streams
  BY DEF IInv
<1> QED BY <1>5, <1>9, <1>10, OneStream

LEMMA HalfCloseKeeps ==
  ASSUME IInv, NEW s \in Streams, HalfClose(s)
  PROVE  IInv'
<1> DEFINE st == stream[s]
           longer == Append(st.chain, "end")
<1>1. /\ st \in Closures /\ st.chain \in Seq(Messages) /\ StreamOK(st, s \in undecided)
      /\ st.sent # "absent" /\ st.closed = "open" /\ ~st.halfClosed
  BY DEF IInv, StreamOK, Closures, HalfClose, Live
<1>2. /\ longer \in Seq(Messages) /\ Len(longer) = Len(st.chain) + 1
      /\ \A i \in DOMAIN longer : i # Len(st.chain) + 1 => i \in DOMAIN st.chain
      /\ \A i \in DOMAIN st.chain : i \in DOMAIN longer /\ longer[i] = st.chain[i]
  BY <1>1 DEF Messages
<1>3. PICK r : r = [st EXCEPT !.halfClosed = TRUE, !.chain = longer]
  OBVIOUS
<1>4. stream' = [stream EXCEPT ![s] = r] /\ undecided' = undecided \ {s}
  BY <1>3 DEF HalfClose
<1> HIDE DEF st, longer
<1>5. /\ r \in Closures /\ r.sent = st.sent /\ r.chain = longer /\ r.halfClosed
      /\ r.deciding = st.deciding /\ r.requestStarted = st.requestStarted
      /\ r.requestForwarded = st.requestForwarded /\ r.terminated = st.terminated
      /\ r.verdict = st.verdict /\ r.closed = st.closed
  BY <1>1, <1>2, <1>3 DEF Closures
<1>6. EndIsLast(r) /\ PartsAreAhead(r)
  BY <1>1, <1>2, <1>5 DEF StreamOK, EndIsLast, PartsAreAhead
<1>7. StreamOK(r, s \in undecided \ {s})
  BY <1>1, <1>5, <1>6 DEF StreamOK, CleanIsOver, SetIsRight
<1>8. undecided \ {s} \in SUBSET Streams
  BY DEF IInv
<1> QED BY <1>4, <1>7, <1>8, OneStream

LEMMA AbortKeeps ==
  ASSUME IInv, NEW s \in Streams, Abort(s)
  PROVE  IInv'
<1>1. PICK r : r = Destroyed(stream[s])
  OBVIOUS
<1>2. stream' = [stream EXCEPT ![s] = r] /\ undecided' = undecided \ {s}
  BY <1>1 DEF Abort
<1>3. StreamOK(stream[s], s \in undecided) /\ stream[s] \in Closures /\ stream[s].sent # "absent"
  BY DEF IInv, StreamOK, Abort, Live
<1>4. /\ r \in Closures /\ r.sent = stream[s].sent /\ r.chain = stream[s].chain
      /\ r.halfClosed = stream[s].halfClosed /\ r.requestForwarded = stream[s].requestForwarded
      /\ r.terminated /\ r.verdict = stream[s].verdict /\ r.closed = "destroyed"
  BY <1>1, <1>3 DEF Destroyed, Closures
<1>5. StreamOK(r, s \in undecided \ {s})
  BY <1>3, <1>4 DEF StreamOK, EndIsLast, PartsAreAhead, CleanIsOver, SetIsRight
<1>6. undecided \ {s} \in SUBSET Streams
  BY DEF IInv
<1> QED BY <1>2, <1>5, <1>6, OneStream
-----------------------------------------------------------------------------
(* The handlers and the decision.                                           *)

\* The chain has come to a message: the stream was opened and is not over.
LEMMA AtTurn ==
  ASSUME IInv, NEW s \in Streams, NEW m, Turn(s, m)
  PROVE  /\ stream[s] \in Closures /\ StreamOK(stream[s], s \in undecided)
         /\ stream[s].chain \in Seq(Messages) /\ stream[s].chain # << >>
         /\ stream[s].chain[1] = m /\ stream[s].sent # "absent" /\ stream[s].closed # "clean"
         /\ ~stream[s].deciding /\ ~stream[s].terminated /\ stream[s].verdict # "denied"
<1>1. stream[s] \in Closures /\ StreamOK(stream[s], s \in undecided)
  BY DEF IInv, StreamOK
<1>2. stream[s].chain \in Seq(Messages)
  BY <1>1 DEF Closures
<1> QED BY <1>1, <1>2 DEF Turn, StreamOK, CleanIsOver, Unopened

\* The fields of a closure from which a message was taken.
LEMMA BegunFields ==
  ASSUME NEW s, stream[s] \in Closures, stream[s].chain # << >>
  PROVE  /\ Begun(s) \in Closures /\ Begun(s).chain = Tail(stream[s].chain)
         /\ Begun(s).sent = stream[s].sent /\ Begun(s).halfClosed = stream[s].halfClosed
         /\ Begun(s).deciding = stream[s].deciding /\ Begun(s).requestStarted
         /\ Begun(s).requestForwarded = stream[s].requestForwarded
         /\ Begun(s).terminated = stream[s].terminated
         /\ Begun(s).verdict = stream[s].verdict /\ Begun(s).closed = stream[s].closed
<1>1. Tail(stream[s].chain) \in Seq(Messages)
  BY TailOfChain DEF Closures
<1> QED BY <1>1 DEF Begun, Closures

LEMMA TakenFields ==
  ASSUME NEW s, stream[s] \in Closures, stream[s].chain # << >>
  PROVE  /\ Taken(s) \in Closures /\ Taken(s).chain = Tail(stream[s].chain)
         /\ Taken(s).sent = stream[s].sent /\ Taken(s).halfClosed = stream[s].halfClosed
         /\ Taken(s).deciding = stream[s].deciding
         /\ Taken(s).requestStarted = stream[s].requestStarted
         /\ Taken(s).requestForwarded = stream[s].requestForwarded
         /\ Taken(s).terminated = stream[s].terminated
         /\ Taken(s).verdict = stream[s].verdict /\ Taken(s).closed = stream[s].closed
<1>1. Tail(stream[s].chain) \in Seq(Messages)
  BY TailOfChain DEF Closures
<1> QED BY <1>1 DEF Taken, Closures

\* A part of the request is taken from the chain.
LEMMA BegunOK ==
  ASSUME IInv, NEW s \in Streams, NEW m, Turn(s, m)
  PROVE  /\ StreamOK(Begun(s), s \in undecided) /\ Begun(s) \in Closures
         /\ Begun(s).sent # "absent" /\ ~Begun(s).deciding /\ ~Begun(s).terminated
         /\ Begun(s).closed # "clean"
<1>1. PICK r : r = Begun(s)
  OBVIOUS
<1>2. /\ r \in Closures /\ r.chain = Tail(stream[s].chain)
      /\ r.sent = stream[s].sent /\ r.halfClosed = stream[s].halfClosed
      /\ r.deciding = stream[s].deciding /\ r.requestStarted
      /\ r.requestForwarded = stream[s].requestForwarded /\ r.terminated = stream[s].terminated
      /\ r.verdict = stream[s].verdict /\ r.closed = stream[s].closed
  BY <1>1, AtTurn, BegunFields
<1>3. EndIsLast(r)
  BY <1>2, AtTurn, TakenKeepsEnd DEF StreamOK
<1>4. StreamOK(r, s \in undecided)
  BY <1>2, <1>3, AtTurn DEF StreamOK, PartsAreAhead, CleanIsOver, SetIsRight
<1> QED BY <1>1, <1>2, <1>4, AtTurn

\* Something else is taken, or a message of a terminated stream.
LEMMA TakenOK ==
  ASSUME NEW s \in Streams, StreamOK(stream[s], s \in undecided), stream[s].chain # << >>,
         stream[s].terminated \/ stream[s].chain[1] \notin RequestParts
  PROVE  StreamOK(Taken(s), s \in undecided) /\ Taken(s).sent # "absent"
<1>0. stream[s] \in Closures /\ stream[s].chain \in Seq(Messages) /\ stream[s].sent # "absent"
  BY DEF StreamOK, Closures, Unopened
<1>1. PICK r : r = Taken(s)
  OBVIOUS
<1>2. /\ r \in Closures /\ r.chain = Tail(stream[s].chain)
      /\ r.sent = stream[s].sent /\ r.halfClosed = stream[s].halfClosed
      /\ r.deciding = stream[s].deciding /\ r.requestStarted = stream[s].requestStarted
      /\ r.requestForwarded = stream[s].requestForwarded /\ r.terminated = stream[s].terminated
      /\ r.verdict = stream[s].verdict /\ r.closed = stream[s].closed
  BY <1>0, <1>1, TakenFields
<1>3. EndIsLast(r)
  BY <1>0, <1>2, TakenKeepsEnd DEF StreamOK
<1>4. PartsAreAhead(r)
  <2> SUFFICES ASSUME ~r.requestStarted, ~r.terminated, r.sent \notin {"absent", "nothing"}
               PROVE  \E i \in DOMAIN r.chain : r.chain[i] \in RequestParts
    BY DEF PartsAreAhead
  <2>1. PICK i \in DOMAIN stream[s].chain : stream[s].chain[i] \in RequestParts
    BY <1>2 DEF StreamOK, PartsAreAhead
  <2>2. i # 1
    BY <1>2, <2>1
  <2>3. i - 1 \in DOMAIN Tail(stream[s].chain) /\ Tail(stream[s].chain)[i - 1] = stream[s].chain[i]
    BY <1>0, <2>2, TailOfChain
  <2> QED BY <1>2, <2>1, <2>3
<1>5. CleanIsOver(r)
  BY <1>2 DEF StreamOK, CleanIsOver
<1>6. StreamOK(r, s \in undecided)
  BY <1>0, <1>2, <1>3, <1>4, <1>5 DEF StreamOK, SetIsRight
<1> QED BY <1>0, <1>1, <1>2, <1>6

LEMMA HandleBegins ==
  ASSUME IInv, NEW s \in Streams, HandleRequestHeaders(s) \/ HandleChunk(s)
  PROVE  IInv'
<1>1. Turn(s, "headers") \/ Turn(s, "chunk")
  BY DEF HandleRequestHeaders, HandleChunk
<1>2. stream' = [stream EXCEPT ![s] = Begun(s)] /\ undecided' = undecided
  BY DEF HandleRequestHeaders, HandleChunk
<1>3. StreamOK(Begun(s), s \in undecided) /\ undecided \in SUBSET Streams
  BY <1>1, BegunOK DEF IInv
<1> QED BY <1>2, <1>3, OneStream

LEMMA HandleHeadersOnlyKeeps ==
  ASSUME IInv, NEW s \in Streams, HandleHeadersOnly(s)
  PROVE  IInv'
<1> DEFINE b == Begun(s)
<1>1. Turn(s, "headersOnly")
  BY DEF HandleHeadersOnly
<1>2. /\ StreamOK(b, s \in undecided) /\ b \in Closures
      /\ b.sent # "absent" /\ ~b.deciding /\ ~b.terminated /\ b.closed # "clean"
  BY <1>1, BegunOK
<1>3. PICK r : r = [b EXCEPT !.requestForwarded = TRUE, !.verdict = "bodiless"]
  OBVIOUS
<1>4. Write(s, r, undecided)
  BY <1>3 DEF HandleHeadersOnly
<1> HIDE DEF b
<1>5. /\ r \in Closures /\ r.sent = b.sent /\ r.chain = b.chain /\ r.halfClosed = b.halfClosed
      /\ r.deciding = b.deciding /\ r.requestStarted = b.requestStarted
      /\ r.requestForwarded /\ r.terminated = b.terminated
      /\ r.verdict = "bodiless" /\ r.closed = b.closed
  BY <1>2, <1>3 DEF Closures, Verdicts
<1>6. StreamOK(r, s \in undecided)
  BY <1>2, <1>5 DEF StreamOK, EndIsLast, PartsAreAhead, CleanIsOver, SetIsRight
<1> QED BY <1>2, <1>4, <1>5, <1>6, WriteKeeps

LEMMA HandleBodyEndKeeps ==
  ASSUME IInv, NEW s \in Streams, HandleBodyEnd(s)
  PROVE  IInv'
<1> DEFINE b == Begun(s)
<1>1. Turn(s, "lastChunk") \/ Turn(s, "trailers")
  BY DEF HandleBodyEnd
<1>2. /\ StreamOK(b, s \in undecided) /\ b \in Closures
      /\ b.sent # "absent" /\ ~b.terminated /\ b.closed # "clean"
  BY <1>1, BegunOK
<1>3. PICK r : r = [b EXCEPT !.deciding = TRUE]
  OBVIOUS
<1>4. stream' = [stream EXCEPT ![s] = r] /\ undecided' = undecided
  BY <1>3 DEF HandleBodyEnd
<1> HIDE DEF b
<1>5. /\ r \in Closures /\ r.sent = b.sent /\ r.chain = b.chain /\ r.halfClosed = b.halfClosed
      /\ r.requestStarted = b.requestStarted
      /\ r.requestForwarded = b.requestForwarded /\ r.terminated = b.terminated
      /\ r.verdict = b.verdict /\ r.closed = b.closed
  BY <1>2, <1>3 DEF Closures
<1>6. StreamOK(r, s \in undecided) /\ undecided \in SUBSET Streams
  BY <1>2, <1>5 DEF IInv, StreamOK, EndIsLast, PartsAreAhead, CleanIsOver, SetIsRight
<1> QED BY <1>4, <1>6, OneStream

LEMMA HandleEndKeeps ==
  ASSUME IInv, NEW s \in Streams, HandleEnd(s)
  PROVE  IInv'
<1>1. Turn(s, "end")
  BY DEF HandleEnd
<1>2. /\ stream[s] \in Closures /\ StreamOK(stream[s], s \in undecided)
      /\ stream[s].chain \in Seq(Messages) /\ stream[s].chain # << >>
      /\ stream[s].chain[1] = "end" /\ ~stream[s].deciding /\ ~stream[s].terminated
      /\ stream[s].verdict # "denied" /\ stream[s].sent # "absent"
  BY <1>1, AtTurn
<1>3. "end" \notin RequestParts
  BY DEF RequestParts
<1>4. StreamOK(Taken(s), s \in undecided) /\ Taken(s).sent # "absent" /\ ~Taken(s).deciding
  BY <1>2, <1>3, TakenOK, TakenFields
<1>5. CASE stream[s].requestStarted /\ ~stream[s].requestForwarded
  BY <1>4, <1>5, DenyKeeps DEF HandleEnd
<1>6. CASE ~(stream[s].requestStarted /\ ~stream[s].requestForwarded)
  <2> DEFINE t == Taken(s)
  <2>1. PICK r : r = [t EXCEPT !.closed = "clean"]
    OBVIOUS
  <2>2. stream' = [stream EXCEPT ![s] = r] /\ undecided' = undecided
    BY <1>6, <2>1 DEF HandleEnd
  <2>3. /\ t \in Closures /\ t.chain = Tail(stream[s].chain) /\ t.sent = stream[s].sent
        /\ t.deciding = stream[s].deciding /\ t.verdict = stream[s].verdict
        /\ t.halfClosed = stream[s].halfClosed /\ StreamOK(t, s \in undecided)
    BY <1>2, <1>4, TakenFields
  <2> HIDE DEF t
  <2>4. /\ r \in Closures /\ r.sent = t.sent /\ r.chain = t.chain /\ r.halfClosed = t.halfClosed
        /\ r.deciding = t.deciding /\ r.requestStarted = t.requestStarted
        /\ r.requestForwarded = t.requestForwarded /\ r.terminated = t.terminated
        /\ r.verdict = t.verdict /\ r.closed = "clean"
    BY <2>1, <2>3 DEF Closures
  <2>5. Len(stream[s].chain) = 1 /\ stream[s].halfClosed
    BY <1>2, TailOfChain DEF StreamOK, EndIsLast
  <2>6. r.chain = << >>
    <3>1. r.chain \in Seq(Messages) /\ Len(r.chain) = 0
      BY <1>2, <2>3, <2>4, <2>5, TailOfChain
    <3> QED BY <3>1
  <2>7. stream[s].sent = "nothing" \/ stream[s].verdict \in {"bodiless", "allowed"}
    <3>1. CASE stream[s].requestForwarded
      BY <1>2, <3>1 DEF StreamOK, Closures, Verdicts
    <3>2. CASE ~stream[s].requestStarted
      <4>1. \A i \in DOMAIN stream[s].chain : stream[s].chain[i] \notin RequestParts
        BY <1>2, <1>3, <2>5, TailOfChain
      <4> QED BY <1>2, <3>2, <4>1 DEF StreamOK, PartsAreAhead
    <3> QED BY <1>6, <3>1, <3>2
  <2>8. s \notin undecided
    BY <1>2, <2>5 DEF StreamOK, SetIsRight
  <2>9. StreamOK(r, s \in undecided) /\ undecided \in SUBSET Streams
    BY <1>2, <2>3, <2>4, <2>5, <2>6, <2>7, <2>8
       DEF IInv, StreamOK, EndIsLast, PartsAreAhead, CleanIsOver, SetIsRight
  <2> QED BY <2>2, <2>9, OneStream
<1> QED BY <1>5, <1>6

LEMMA HandleKeeps ==
  ASSUME IInv, NEW s \in Streams, Handle(s)
  PROVE  IInv'
<1>1. CASE SkipTerminated(s)
  <2>1. StreamOK(stream[s], s \in undecided) /\ stream[s].chain # << >> /\ stream[s].terminated
    BY <1>1 DEF IInv, SkipTerminated
  <2>2. StreamOK(Taken(s), s \in undecided) /\ undecided \in SUBSET Streams
    BY <2>1, TakenOK DEF IInv
  <2> QED BY <1>1, <2>2, OneStream DEF SkipTerminated
<1>2. CASE HandleBigChunk(s)
  BY <1>2, BegunOK, DenyKeeps DEF HandleBigChunk
<1>3. CASE HandleLateTrailers(s)
  BY <1>3, BegunOK, WriteKeeps DEF HandleLateTrailers
<1>4. CASE HandleResponse(s)
  <2>1. "response" \notin RequestParts /\ Turn(s, "response")
    BY <1>4 DEF HandleResponse, RequestParts
  <2>2. StreamOK(Taken(s), s \in undecided) /\ Taken(s).sent # "absent"
    BY <2>1, AtTurn, TakenOK
  <2> QED BY <1>4, <2>2, WriteKeeps DEF HandleResponse
<1> QED BY <1>1, <1>2, <1>3, <1>4, HandleBegins, HandleHeadersOnlyKeeps, HandleBodyEndKeeps,
           HandleEndKeeps DEF Handle

LEMMA DecideKeeps ==
  ASSUME IInv, NEW s \in Streams, Decide(s)
  PROVE  IInv'
<1> DEFINE st == stream[s]
<1>1. /\ st \in Closures /\ StreamOK(st, s \in undecided) /\ st.deciding
      /\ st.sent # "absent" /\ st.closed # "clean"
  BY DEF IInv, StreamOK, CleanIsOver, Unopened, Decide, Allow, Refuse, TimeOut
<1>2. CASE Refuse(s) \/ TimeOut(s)
  <2>1. PICK r : r = [st EXCEPT !.deciding = FALSE]
    OBVIOUS
  <2>2. Deny(s, r)
    BY <1>2, <2>1 DEF Refuse, TimeOut
  <2> HIDE DEF st
  <2>3. /\ r \in Closures /\ r.sent = st.sent /\ r.chain = st.chain /\ r.halfClosed = st.halfClosed
        /\ ~r.deciding /\ r.requestStarted = st.requestStarted
        /\ r.requestForwarded = st.requestForwarded /\ r.terminated = st.terminated
        /\ r.verdict = st.verdict /\ r.closed = st.closed
    BY <1>1, <2>1 DEF Closures
  <2>4. StreamOK(r, s \in undecided)
    BY <1>1, <2>3 DEF StreamOK, EndIsLast, PartsAreAhead, CleanIsOver, SetIsRight
  <2> QED BY <1>1, <2>2, <2>3, <2>4, DenyKeeps
<1>3. CASE Allow(s)
  <2>1. PICK r : r = [st EXCEPT !.deciding = FALSE, !.requestForwarded = TRUE, !.verdict = "allowed"]
    OBVIOUS
  <2>2. Write(s, r, undecided \ {s})
    BY <1>3, <2>1 DEF Allow
  <2> HIDE DEF st
  <2>3. /\ r \in Closures /\ r.sent = st.sent /\ r.chain = st.chain /\ r.halfClosed = st.halfClosed
        /\ ~r.deciding /\ r.requestStarted = st.requestStarted
        /\ r.requestForwarded /\ r.terminated = st.terminated
        /\ r.verdict = "allowed" /\ r.closed = st.closed
    BY <1>1, <2>1 DEF Closures, Verdicts
  <2>4. StreamOK(r, s \in undecided \ {s})
    BY <1>1, <2>3 DEF StreamOK, EndIsLast, PartsAreAhead, CleanIsOver, SetIsRight
  <2> QED BY <1>1, <2>2, <2>3, <2>4, WriteKeeps
<1> QED BY <1>2, <1>3 DEF Decide
-----------------------------------------------------------------------------
(* The shutdown, and the theorems.                                          *)

LEMMA DestroyKeeps ==
  ASSUME IInv, DestroyUndecidedCalls
  PROVE  IInv'
<1>1. /\ stream' = [s \in Streams |-> IF s \in undecided THEN Destroyed(stream[s]) ELSE stream[s]]
      /\ undecided' = {}
  BY DEF DestroyUndecidedCalls
<1>2. \A s \in Streams : StreamOK(stream'[s], FALSE)
  <2> SUFFICES ASSUME NEW s \in Streams PROVE StreamOK(stream'[s], FALSE)
    OBVIOUS
  <2>1. StreamOK(stream[s], s \in undecided) /\ stream[s] \in Closures
    BY DEF IInv, StreamOK
  <2>2. CASE s \in undecided
    <3>1. PICK r : r = Destroyed(stream[s]) /\ r = stream'[s]
      BY <1>1, <2>2
    <3>2. /\ r \in Closures /\ r.sent = stream[s].sent /\ r.chain = stream[s].chain
          /\ r.halfClosed = stream[s].halfClosed /\ r.requestForwarded = stream[s].requestForwarded
          /\ r.terminated /\ r.verdict = stream[s].verdict /\ r.closed = "destroyed"
      BY <2>1, <3>1 DEF Destroyed, Closures
    <3>3. stream[s].sent # "absent"
      BY <2>1, <2>2 DEF StreamOK, SetIsRight
    <3>4. StreamOK(r, FALSE)
      BY <2>1, <3>2, <3>3 DEF StreamOK, EndIsLast, PartsAreAhead, CleanIsOver, SetIsRight
    <3> QED BY <3>1, <3>4
  <2>3. CASE s \notin undecided
    <3>1. stream'[s] = stream[s] /\ (s \in undecided) = FALSE
      BY <1>1, <2>3
    <3> QED BY <2>1, <3>1
  <2> QED BY <2>2, <2>3
<1>3. DOMAIN stream' = Streams /\ stream' = [s \in Streams |-> stream'[s]]
  BY <1>1
<1>4. \A s \in Streams : (s \in undecided') = FALSE
  BY <1>1
<1> QED BY <1>1, <1>2, <1>3, <1>4 DEF IInv, StreamOK, Closures, EndIsLast, PartsAreAhead, CleanIsOver, SetIsRight

LEMMA InitIInv == Init => IInv
<1> SUFFICES ASSUME Init PROVE IInv
  OBVIOUS
<1>1. StreamOK(Unopened, FALSE)
  BY UnopenedType DEF StreamOK, Unopened, EndIsLast, PartsAreAhead, CleanIsOver, SetIsRight
<1>2. /\ stream = [s \in Streams |-> Unopened] /\ undecided = {}
      /\ \A s \in Streams : stream[s] = Unopened /\ (s \in undecided) = FALSE
  BY DEF Init
<1> QED BY <1>1, <1>2 DEF IInv

LEMMA NextIInv == IInv /\ [Next]_vars => IInv'
<1> SUFFICES ASSUME IInv, [Next]_vars PROVE IInv'
  OBVIOUS
<1>1. ASSUME NEW s \in Streams, Envoy(s) PROVE IInv'
  BY <1>1, OpenKeeps, HalfCloseKeeps, AbortKeeps, SendKeeps DEF Envoy
<1>2. ASSUME NEW s \in Streams, Handle(s) PROVE IInv'
  BY <1>2, HandleKeeps
<1>3. ASSUME NEW s \in Streams, Decide(s) PROVE IInv'
  BY <1>3, DecideKeeps
<1>4. CASE UNCHANGED vars
  BY <1>4 DEF vars, IInv, StreamOK, Closures, EndIsLast, PartsAreAhead, CleanIsOver, SetIsRight
<1> QED BY <1>1, <1>2, <1>3, <1>4, DestroyKeeps DEF Next

(* The types of the streams hold for every number of them.                  *)
THEOREM StreamTypeCorrect == Spec => []TypeOK
<1>1. IInv => TypeOK
  <2> SUFFICES ASSUME IInv PROVE TypeOK
    OBVIOUS
  <2>1. stream \in [Streams -> Closures]
    BY DEF IInv, StreamOK
  <2> QED BY <2>1 DEF IInv, TypeOK, Closures
<1> QED BY <1>1, InitIInv, NextIInv, PTL DEF Spec

(* "A clean close means proceed" (server.ts:36): no stream is closed so     *)
(* before its request was allowed and handled, for any number of streams,   *)
(* and whatever is sent, aborted, half-closed or shut down meanwhile.       *)
THEOREM CleanClosesAreDecided == Spec => []CleanCloseIsDecided
<1>1. IInv => CleanCloseIsDecided
  BY DEF IInv, StreamOK, CleanIsOver, CleanCloseIsDecided
<1> QED BY <1>1, InitIInv, NextIInv, PTL DEF Spec

(* The set that destroyUndecidedCalls (server.ts:561) works on is the calls *)
(* without a verdict that Envoy has not half-closed, and bodiless ones.     *)
THEOREM ShutdownFindsTheUndecided == Spec => []ShutdownFindsUndecided
<1>1. IInv => ShutdownFindsUndecided
  BY DEF IInv, StreamOK, SetIsRight, ShutdownFindsUndecided, Live
<1> QED BY <1>1, InitIInv, NextIInv, PTL DEF Spec
=============================================================================
