----------------------------- MODULE ExporterDlq -----------------------------
(***************************************************************************)
(* The dead-letter queue of the SIEM exporters, exporters/exporter-dlq.ts: *)
(* an event that could not be sent is appended to a file that all proxies  *)
(* of a user share, and a proxy that starts sends what is in the file and  *)
(* writes back what is still pending.  Reading, appending and writing the  *)
(* file are synchronous; the sends between them are awaited.               *)
(***************************************************************************)
EXTENDS Integers, Sequences, SequencesExt

CONSTANTS
  Events,       \* an event for one exporter
  Unknown,      \* events whose exporter a flush does not know
  Flushes,      \* calls of flushExporterDlq
  MaxAttempts,  \* MASTYF_AI_EXPORTER_MAX_RETRIES
  Newest        \* how many entries a flush loads

VARIABLES
  tries,        \* failed sends of each event, in sendWithRetry
  state,        \* of each event: "new", "sending" or "over"
  file,         \* pending.jsonl: the entries that can be read
  text,         \* its end, and how many of its lines cannot be read
  flush,        \* each call: what is left of its list, and what remains
  reached,      \* history: how the sends that reached the collector ended
  lost,         \* history: entries that were not kept, were overtaken or cut
  disturbed     \* history: two flushes have run at once, or one has died

vars == <<tries, state, file, text, flush, reached, lost, disturbed>>

Unstarted == [running |-> FALSE, over |-> FALSE, loaded |-> << >>, todo |-> << >>, remaining |-> << >>]

\* The file ends in a newline, in a whole entry without one, or in a part of
\* an entry, which is a line that cannot be read.
Endings == {"newline", "entry", "part"}
Whole == [ending |-> "newline", junk |-> 0]

\* No send has reached the collector; all that did threw; one has returned;
\* one reached it after another had returned.
Outcomes == {"none", "threw", "returned", "again"}

TypeOK ==
  /\ tries \in [Events -> 0..MaxAttempts]
  /\ state \in [Events -> {"new", "sending", "over"}]
  /\ file \in Seq(Events)
  /\ text \in [ending : Endings, junk : Nat]
  /\ flush \in [Flushes -> [running : BOOLEAN, over : BOOLEAN,
                            loaded : Seq(Events), todo : Seq(Events),
                            remaining : Seq(Events)]]
  /\ reached \in [Events -> Outcomes]
  /\ lost \subseteq Events /\ disturbed \in BOOLEAN

Init ==
  /\ tries = [e \in Events |-> 0] /\ state = [e \in Events |-> "new"]
  /\ file = << >> /\ text = Whole
  /\ flush = [f \in Flushes |-> Unstarted]
  /\ reached = [e \in Events |-> "none"] /\ lost = {} /\ disturbed = FALSE

-----------------------------------------------------------------------------
(* appendExporterDlq                                                        *)

\* One more line, of which at least this much is written.
NewLine(e) ==
  /\ text.ending = "newline"
  /\ \/ /\ file' = Append(file, e)
        /\ text' \in {text, [text EXCEPT !.ending = "entry"]}
        /\ UNCHANGED lost
     \/ /\ text' = [ending |-> "part", junk |-> text.junk + 1]
        /\ lost' = lost \cup {e}
        /\ UNCHANGED file

\* What is written goes on the last line, which cannot be read any more.
Glued(e) ==
  /\ text.ending # "newline"
  /\ IF text.ending = "part"
     THEN /\ lost' = lost \cup {e}
          /\ UNCHANGED file
     ELSE /\ lost' = lost \cup {e, file[Len(file)]}
          /\ file' = SubSeq(file, 1, Len(file) - 1)
  /\ \E ending \in {"newline", "part"} :
       text' = [ending |-> ending,
                junk |-> text.junk + (IF text.ending = "part" THEN 0 ELSE 1)]

\* Switched off, or an append that throws (export ignores it), perhaps after
\* a part of the line was written; so may the process end in it.
AppendEntry(e) ==
  \/ NewLine(e) \/ Glued(e)
  \/ lost' = lost \cup {e} /\ UNCHANGED <<file, text>>

-----------------------------------------------------------------------------
(* sendWithRetry                                                            *)

Export(e) ==
  /\ state[e] = "new"
  /\ state' = [state EXCEPT ![e] = "sending"]
  /\ UNCHANGED <<tries, file, text, flush, reached, lost, disturbed>>

Returned(e) == reached[e] \in {"returned", "again"}
Reaches(e, how) ==
  reached' = [reached EXCEPT ![e] = IF Returned(e) THEN "again" ELSE how]

SendWorks(e) ==
  /\ state[e] = "sending"
  /\ Reaches(e, "returned")
  /\ state' = [state EXCEPT ![e] = "over"]
  /\ UNCHANGED <<tries, file, text, flush, lost, disturbed>>

\* The send throws; a time-out does so also if the collector got the event.
SendFails(e) ==
  /\ state[e] = "sending"
  /\ Reaches(e, "threw") \/ UNCHANGED reached
  /\ tries' = [tries EXCEPT ![e] = tries[e] + 1]
  /\ IF tries[e] + 1 < MaxAttempts
     THEN UNCHANGED <<state, file, text, lost>>
     ELSE /\ state' = [state EXCEPT ![e] = "over"]
          /\ AppendEntry(e)
  /\ UNCHANGED <<flush, disturbed>>

-----------------------------------------------------------------------------
(* flushExporterDlq                                                         *)

\* How many entries are read: a line that cannot be read may be among the
\* newest ones, instead of an entry.
Readable == {n \in 0..Len(file) : n <= Newest /\ (n = Len(file) \/ n + text.junk >= Newest)}

Load(f) ==
  /\ ~flush[f].running /\ ~flush[f].over
  /\ \E n \in Readable :
       LET newest == SubSeq(file, Len(file) - n + 1, Len(file))
       IN  flush' = [flush EXCEPT ![f] =
             [running |-> n # 0, over |-> n = 0,
              loaded |-> newest, todo |-> newest, remaining |-> << >>]]
  /\ disturbed' = (disturbed \/ \E g \in Flushes : flush[g].running)
  /\ UNCHANGED <<tries, state, file, text, reached, lost>>

\* Fault: an entry that fails again is not kept.
PutAsideNone(f) ==
  flush' = [flush EXCEPT ![f].todo = Tail(flush[f].todo)]

PutAside(f) ==
  flush' = [flush EXCEPT ![f].todo = Tail(flush[f].todo),
                         ![f].remaining = Append(flush[f].remaining, Head(flush[f].todo))]

\* No sender, or a sender that throws, if the collector got the event or not.
EntryRemains(f) ==
  /\ flush[f].running /\ flush[f].todo # << >>
  /\ \/ UNCHANGED reached
     \/ Head(flush[f].todo) \notin Unknown /\ Reaches(Head(flush[f].todo), "threw")
  /\ PutAside(f)
  /\ UNCHANGED <<tries, state, file, text, lost, disturbed>>

EntrySent(f) ==
  /\ flush[f].running /\ flush[f].todo # << >>
  /\ Head(flush[f].todo) \notin Unknown
  /\ Reaches(Head(flush[f].todo), "returned")
  /\ flush' = [flush EXCEPT ![f].todo = Tail(flush[f].todo)]
  /\ UNCHANGED <<tries, state, file, text, lost, disturbed>>

\* Fault: what was sent is written back as well.
RewrittenAll(f) == file

Rewritten(f) == flush[f].remaining

FlushOver(f) == flush' = [flush EXCEPT ![f] = [Unstarted EXCEPT !.over = TRUE]]

\* The entries that go with the old file: the flush has not loaded them.
Overtaken(f) == ToSet(file) \ ToSet(flush[f].loaded)

\* The file is replaced, with whatever was appended since.
Rewrite(f) ==
  /\ flush[f].running /\ flush[f].todo = << >>
  /\ file' = Rewritten(f) /\ text' = Whole
  /\ lost' = lost \cup Overtaken(f)
  /\ FlushOver(f)
  /\ UNCHANGED <<tries, state, reached, disturbed>>

\* ... but it is emptied first: the process ends, or the write throws, when n
\* entries are written.
RewriteCut(f) ==
  /\ flush[f].running /\ flush[f].todo = << >>
  /\ \E n \in 0..Len(Rewritten(f)) :
       /\ file' = SubSeq(Rewritten(f), 1, n)
       /\ \/ n < Len(Rewritten(f)) /\ text' \in {Whole, [ending |-> "part", junk |-> 1]}
          \/ n > 0 /\ text' = [ending |-> "entry", junk |-> 0]
       /\ lost' = lost \cup Overtaken(f) \cup (ToSet(Rewritten(f)) \ ToSet(file'))
  /\ FlushOver(f)
  /\ UNCHANGED <<tries, state, reached, disturbed>>

\* The process ends before the file is opened for writing, or opening throws.
FlushDies(f) ==
  /\ flush[f].running
  /\ FlushOver(f)
  /\ disturbed' = TRUE
  /\ UNCHANGED <<tries, state, file, text, reached, lost>>

Next ==
  \/ \E e \in Events : Export(e) \/ SendWorks(e) \/ SendFails(e)
  \/ \E f \in Flushes :
       Load(f) \/ EntryRemains(f) \/ EntrySent(f) \/ Rewrite(f) \/ RewriteCut(f) \/ FlushDies(f)

Spec == Init /\ [][Next]_vars

-----------------------------------------------------------------------------
(* An event whose attempts are over is in the file until a send of it has   *)
(* returned, through flushes that overlap, whose sends throw, or which die  *)
(* before they write.  What may be lost is an entry that was not kept (the  *)
(* queue is off, or the append throws or is cut), one that a rewrite        *)
(* overtakes (appended while that flush was sending, or not among the       *)
(* newest, exporter-dlq.ts:34), one that a rewrite cut short has not        *)
(* written yet (:50), and one on whose line an append goes on.              *)
KeptUntilSent ==
  \A e \in Events :
    state[e] = "over" => Returned(e) \/ e \in lost \/ e \in ToSet(file)

(* Once a send of an event has returned, no other reaches its collector.    *)
(* Sends that threw after the event had arrived (a time-out) are repeated,  *)
(* and two flushes that overlap, or one that dies before it writes, may     *)
(* send an event again, as those of proxies that share the file can.        *)
SentOnce == ~disturbed => \A e \in Events : reached[e] # "again"
=============================================================================
