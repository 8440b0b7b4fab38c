---------------------------- MODULE ExtProcStream ----------------------------
(***************************************************************************)
(* The ext_proc streams of the agent gateway, src/agent-gateway/server.ts. *)
(* Envoy opens one stream per HTTP request, sends the request's headers,   *)
(* body and trailers, and holds the request until it is told to continue;  *)
(* a stream that is closed cleanly lets the request through as well.  The  *)
(* handlers of a stream run one after the other on a promise chain, which  *)
(* waits while a decision is awaited; the stream's own events do not.      *)
(***************************************************************************)
EXTENDS Integers, Sequences

CONSTANTS
  Streams,
  MaxBacklog    \* bound: messages on a stream's promise chain

VARIABLES
  stream,       \* each stream's closure, and what Envoy sees of it
  undecided     \* the calls a shutdown destroys

vars == <<stream, undecided>>

RequestParts == {"headers", "headersOnly", "chunk", "bigChunk", "lastChunk", "trailers"}
Messages == RequestParts \cup {"response", "end"}
Verdicts == {"none", "bodiless", "allowed", "denied"}

\* sent: how far Envoy is with the request; verdict: what was decided;
\* told: what was written to Envoy; closed: how the stream was closed.
Unopened ==
  [sent |-> "absent", chain |-> << >>, halfClosed |-> FALSE, deciding |-> FALSE,
   requestStarted |-> FALSE, requestForwarded |-> FALSE, terminated |-> FALSE,
   verdict |-> "none", told |-> "none", closed |-> "open"]

TypeOK ==
  /\ stream \in [Streams ->
       [sent : {"absent", "nothing", "body", "whole", "trailers"},
        chain : Seq(Messages), halfClosed : BOOLEAN, deciding : BOOLEAN,
        requestStarted : BOOLEAN, requestForwarded : BOOLEAN, terminated : BOOLEAN,
        verdict : Verdicts, told : {"none", "continue", "deny"},
        closed : {"open", "clean", "destroyed"}]]
  /\ undecided \subseteq Streams

Init ==
  /\ stream = [s \in Streams |-> Unopened]
  /\ undecided = {}

Live(s) == stream[s].sent # "absent" /\ stream[s].closed = "open"

-----------------------------------------------------------------------------
(* Envoy.                                                                   *)

Open(s) ==
  /\ stream[s].sent = "absent"
  /\ stream' = [stream EXCEPT ![s].sent = "nothing"]
  /\ undecided' = undecided \cup {s}

\* The parts of a request come in their order; the response only after the
\* request was let through.
Sends(s, m) ==
  \/ m \in {"headers", "headersOnly"} /\ stream[s].sent = "nothing"
  \/ m \in {"chunk", "bigChunk", "lastChunk"} /\ stream[s].sent = "body"
  \/ m = "trailers" /\ stream[s].sent \in {"body", "whole"}
  \/ m = "response" /\ stream[s].told = "continue"

SentAfter(s, m) ==
  IF m = "headers" THEN "body"
  ELSE IF m \in {"headersOnly", "lastChunk"} THEN "whole"
  ELSE IF m = "trailers" THEN "trailers"
  ELSE stream[s].sent

Send(s, m) ==
  /\ Live(s) /\ ~stream[s].halfClosed /\ Sends(s, m)
  /\ Len(stream[s].chain) < MaxBacklog
  /\ stream' = [stream EXCEPT ![s].sent = SentAfter(s, m),
                              ![s].chain = Append(stream[s].chain, m)]
  /\ UNCHANGED undecided

\* Fault: the close is handled at once, beside the chain.
HalfCloseAtOnce(s) ==
  /\ Live(s) /\ ~stream[s].halfClosed
  /\ stream' = [stream EXCEPT ![s].halfClosed = TRUE,
                  ![s].chain = <<"end">> \o stream[s].chain]
  /\ undecided' = undecided \ {s}

\* The 'end' event takes the call out of the set and extends the chain.
HalfClose(s) ==
  /\ Live(s) /\ ~stream[s].halfClosed
  /\ stream' = [stream EXCEPT ![s].halfClosed = TRUE,
                              ![s].chain = Append(stream[s].chain, "end")]
  /\ undecided' = undecided \ {s}

Destroyed(st) == [st EXCEPT !.terminated = TRUE, !.closed = "destroyed"]

\* The 'error' event.
Abort(s) ==
  /\ Live(s)
  /\ stream' = [stream EXCEPT ![s] = Destroyed(stream[s])]
  /\ undecided' = undecided \ {s}

-----------------------------------------------------------------------------
(* The handlers of one message.                                             *)

\* The chain has come to m, with `terminated` not yet set.
Turn(s, m) ==
  /\ stream[s].chain # << >> /\ Head(stream[s].chain) = m
  /\ ~stream[s].deciding /\ ~stream[s].terminated

\* The closure once m is off the chain; a part of a request starts one.
Taken(s) == [stream[s] EXCEPT !.chain = Tail(stream[s].chain)]
Begun(s) == [stream[s] EXCEPT !.chain = Tail(stream[s].chain), !.requestStarted = TRUE]

\* What is left of st if it writes: a call that cannot be written to is
\* destroyed, and its 'error' event takes it out of the set.
Write(s, st, left) ==
  IF st.terminated
  THEN /\ stream' = [stream EXCEPT ![s] = st]
       /\ undecided' = left
  ELSE \/ /\ stream' = [stream EXCEPT ![s] = [st EXCEPT !.told = "continue"]]
          /\ undecided' = left
       \/ /\ stream' = [stream EXCEPT ![s] = Destroyed(st)]
          /\ undecided' = left \ {s}

\* Fault: a deny closes the stream and leaves the call in the set.
DenyUnsettled(s, st) ==
  IF st.terminated
  THEN stream' = [stream EXCEPT ![s] = st] /\ UNCHANGED undecided
  ELSE /\ \E told \in {st.told, "deny"} :
            stream' = [stream EXCEPT ![s] =
              [st EXCEPT !.terminated = TRUE, !.verdict = "denied",
                         !.told = told, !.closed = "clean"]]
       /\ UNCHANGED undecided

\* deny: settled first, then written if that works, then closed cleanly.
Deny(s, st) ==
  IF st.terminated
  THEN stream' = [stream EXCEPT ![s] = st] /\ UNCHANGED undecided
  ELSE /\ \E told \in {st.told, "deny"} :
            stream' = [stream EXCEPT ![s] =
              [st EXCEPT !.terminated = TRUE, !.verdict = "denied",
                         !.told = told, !.closed = "clean"]]
       /\ undecided' = undecided \ {s}

\* The rest of the chain of a terminated stream.
SkipTerminated(s) ==
  /\ stream[s].chain # << >> /\ ~stream[s].deciding /\ stream[s].terminated
  /\ stream' = [stream EXCEPT ![s] = Taken(s)]
  /\ UNCHANGED undecided

HandleRequestHeaders(s) ==
  /\ Turn(s, "headers")
  /\ stream' = [stream EXCEPT ![s] = Begun(s)]
  /\ UNCHANGED undecided

\* No body will come: the request goes on, and is not marked as settled.
HandleHeadersOnly(s) ==
  /\ Turn(s, "headersOnly")
  /\ Write(s, [Begun(s) EXCEPT !.requestForwarded = TRUE, !.verdict = "bodiless"], undecided)

HandleChunk(s) ==
  /\ Turn(s, "chunk")
  /\ stream' = [stream EXCEPT ![s] = Begun(s)]
  /\ UNCHANGED undecided

\* The chunk with which the body exceeds MAX_BODY_BYTES.
HandleBigChunk(s) ==
  /\ Turn(s, "bigChunk")
  /\ Deny(s, Begun(s))

\* The end of the body is what starts the decision.
HandleBodyEnd(s) ==
  /\ Turn(s, "lastChunk") \/ Turn(s, "trailers")
  /\ ~stream[s].requestForwarded
  /\ stream' = [stream EXCEPT ![s] = [Begun(s) EXCEPT !.deciding = TRUE]]
  /\ UNCHANGED undecided

\* Trailers after the end of the body get an answer of their own.
HandleLateTrailers(s) ==
  /\ Turn(s, "trailers")
  /\ stream[s].requestForwarded
  /\ Write(s, Begun(s), undecided)

HandleResponse(s) ==
  /\ Turn(s, "response")
  /\ Write(s, Taken(s), undecided)

HandleEnd(s) ==
  /\ Turn(s, "end")
  /\ IF stream[s].requestStarted /\ ~stream[s].requestForwarded
     THEN Deny(s, Taken(s))
     ELSE /\ stream' = [stream EXCEPT ![s] = [Taken(s) EXCEPT !.closed = "clean"]]
          /\ UNCHANGED undecided

Handle(s) ==
  \/ SkipTerminated(s) \/ HandleRequestHeaders(s) \/ HandleHeadersOnly(s)
  \/ HandleChunk(s) \/ HandleBigChunk(s) \/ HandleBodyEnd(s) \/ HandleLateTrailers(s)
  \/ HandleResponse(s) \/ HandleEnd(s)

-----------------------------------------------------------------------------
(* The awaited decision.                                                    *)

\* The engine allows the request: it is settled and forwarded, if the stream
\* still stands.
Allow(s) ==
  /\ stream[s].deciding
  /\ Write(s, [stream[s] EXCEPT !.deciding = FALSE, !.requestForwarded = TRUE,
                                !.verdict = "allowed"],
           undecided \ {s})

\* The engine denies it or throws.
Refuse(s) ==
  /\ stream[s].deciding
  /\ Deny(s, [stream[s] EXCEPT !.deciding = FALSE])

\* Fault: a decision that takes too long lets the chain go on.
TimeOutIgnored(s) ==
  /\ stream[s].deciding
  /\ stream' = [stream EXCEPT ![s].deciding = FALSE]
  /\ UNCHANGED undecided

\* The decision is not there in time.
TimeOut(s) ==
  /\ stream[s].deciding
  /\ Deny(s, [stream[s] EXCEPT !.deciding = FALSE])

-----------------------------------------------------------------------------
\* Every call without a verdict gets an error, of which Envoy denies.
DestroyUndecidedCalls ==
  /\ stream' = [s \in Streams |-> IF s \in undecided THEN Destroyed(stream[s]) ELSE stream[s]]
  /\ undecided' = {}

Envoy(s) == Open(s) \/ HalfClose(s) \/ Abort(s) \/ \E m \in Messages : Send(s, m)
Decide(s) == Allow(s) \/ Refuse(s) \/ TimeOut(s)

Next ==
  \/ \E s \in Streams : Envoy(s) \/ Handle(s) \/ Decide(s)
  \/ DestroyUndecidedCalls

Spec == Init /\ [][Next]_vars

\* Node runs what is on the chain, and its timers fire.
Fairness == \A s \in Streams : WF_vars(Handle(s)) /\ WF_vars(TimeOut(s))

-----------------------------------------------------------------------------
(* "A clean close means proceed" (server.ts:36): a stream that was closed   *)
(* cleanly and not by a deny either carried no request, or its request was  *)
(* allowed and every message of it was handled, whenever Envoy half-closed  *)
(* and whatever was being decided then.                                     *)
CleanCloseIsDecided ==
  \A s \in Streams :
    stream[s].closed = "clean" /\ stream[s].verdict # "denied" =>
      /\ stream[s].chain = << >> /\ ~stream[s].deciding
      /\ stream[s].sent = "nothing" \/ stream[s].verdict \in {"bodiless", "allowed"}

(* What a shutdown destroys (server.ts:561): every open call that Envoy has *)
(* not half-closed and that has no verdict, and no call with one, save the  *)
(* requests without a body, which are never marked as settled.              *)
ShutdownFindsUndecided ==
  \A s \in Streams :
    /\ Live(s) /\ ~stream[s].halfClosed /\ stream[s].verdict = "none" => s \in undecided
    /\ s \in undecided => Live(s) /\ stream[s].verdict \in {"none", "bodiless"}

(* A request that was sent to its end is decided in the end, or its stream  *)
(* is gone: by the decision's own timeout, whatever the engine does.        *)
WholeIsDecided ==
  \A s \in Streams :
    stream[s].sent \in {"whole", "trailers"} ~>
      (stream[s].verdict # "none" \/ stream[s].closed # "open")
=============================================================================
