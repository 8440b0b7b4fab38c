---------------------------- MODULE ReceiptLedger ----------------------------
(***************************************************************************)
(* The receipt ledger, mastyf_gateway/receipts/ledger.py: an append-only   *)
(* file of chained receipts, written by the processes that were given its  *)
(* path, each with the head of the chain in memory.  A process recovers    *)
(* its head by verifying the file and refuses every receipt if that fails. *)
(* The hash of a receipt is the call that recorded it: no two agree.       *)
(***************************************************************************)
EXTENDS Integers, Sequences

CONSTANTS
  Writers,      \* processes with the same ledger path
  Calls,        \* calls of record()
  Genesis,      \* GENESIS_PREVIOUS_HASH
  Torn,         \* a part of a receipt's JSON
  MaxFaults     \* bound: crashes and appends that fail

VARIABLES
  file,         \* the lines, each the pieces of text that make it up
  unended,      \* the last line has no newline
  proc,         \* the ledger object of each process
  recorded,     \* the calls made
  acked,        \* history: the calls that returned a receipt
  damaged,      \* history: an append left text that the chain cannot bear
  faults

vars == <<file, unended, proc, recorded, acked, damaged, faults>>

Receipts == [seq : Nat, prev : Calls \cup {Genesis}, hash : Calls]
Down == [up |-> FALSE, next |-> 0, head |-> Genesis, corrupted |-> FALSE]

TypeOK ==
  /\ file \in Seq(Seq(Receipts \cup {Torn}))
  /\ unended \in BOOLEAN /\ damaged \in BOOLEAN
  /\ proc \in [Writers -> [up : BOOLEAN, next : Nat, head : Calls \cup {Genesis},
                           corrupted : BOOLEAN]]
  /\ recorded \subseteq Calls /\ acked \subseteq recorded
  /\ faults \in Nat

Init ==
  /\ file = << >> /\ unended = FALSE
  /\ proc = [w \in Writers |-> Down]
  /\ recorded = {} /\ acked = {} /\ damaged = FALSE /\ faults = 0

-----------------------------------------------------------------------------
(* _verify_file                                                             *)

\* Fault: what follows the first receipt of a line is ignored.
WholeAtFirst(line) == line[1] \in Receipts

\* The text of a line is one receipt.
Whole(line) == Len(line) = 1 /\ line[1] \in Receipts

HashAt(i) == IF i = 0 THEN Genesis ELSE file[i][1].hash

Valid ==
  \A i \in DOMAIN file :
    /\ Whole(file[i])
    /\ file[i][1].seq = i - 1
    /\ file[i][1].prev = HashAt(i - 1)

\* __init__ and _recover_state
Recovered ==
  IF Valid
  THEN [up |-> TRUE, next |-> Len(file), head |-> HashAt(Len(file)), corrupted |-> FALSE]
  ELSE [up |-> TRUE, next |-> 0, head |-> Genesis, corrupted |-> TRUE]

Start(w) ==
  /\ ~proc[w].up
  /\ proc' = [proc EXCEPT ![w] = Recovered]
  /\ UNCHANGED <<file, unended, recorded, acked, damaged, faults>>

-----------------------------------------------------------------------------
(* record, and what an append that is cut off may leave behind.             *)

\* The file with a piece written at its end.
Extended(piece) ==
  IF unended
  THEN [file EXCEPT ![Len(file)] = Append(file[Len(file)], piece)]
  ELSE Append(file, <<piece>>)

Candidate(w, c) == [seq |-> proc[w].next, prev |-> proc[w].head, hash |-> c]

\* Another process that is up has a head of its own.
Alone(w) == \A q \in Writers \ {w} : ~proc[q].up

\* The ledger object once the receipt is on disk.
Advanced(w, c) == [up |-> TRUE, next |-> proc[w].next + 1, head |-> c, corrupted |-> FALSE]

\* Fault: memory is advanced before the append.
AdvancedFirst(w, c) == proc' = [proc EXCEPT ![w] = Advanced(w, c)]

\* Memory changes only once the line is on disk.
Kept(w, c) == UNCHANGED proc

Record(w, c) ==
  /\ proc[w].up /\ ~proc[w].corrupted /\ c \notin recorded
  /\ file' = Extended(Candidate(w, c)) /\ unended' = FALSE
  /\ proc' = [proc EXCEPT ![w] = Advanced(w, c)]
  /\ recorded' = recorded \cup {c} /\ acked' = acked \cup {c}
  /\ damaged' = (damaged \/ unended \/ ~Alone(w))
  /\ UNCHANGED faults

\* Nothing, a part, all but the newline, or all of it reaches the file.
CutAppend(w, c) ==
  \/ UNCHANGED <<file, unended>>
  \/ file' = Extended(Torn) /\ unended' = TRUE
  \/ file' = Extended(Candidate(w, c)) /\ unended' = TRUE
  \/ file' = Extended(Candidate(w, c)) /\ unended' = FALSE

\* write, flush or fsync raises: the memory of the process stays as it was.
RecordRaises(w, c) ==
  /\ proc[w].up /\ ~proc[w].corrupted /\ c \notin recorded
  /\ faults < MaxFaults /\ faults' = faults + 1
  /\ CutAppend(w, c)
  /\ recorded' = recorded \cup {c}
  /\ Kept(w, c)
  /\ damaged' = (damaged \/ file' # file)
  /\ UNCHANGED acked

\* The process dies in the append, or between two.
Crash(w) ==
  /\ proc[w].up
  /\ faults < MaxFaults /\ faults' = faults + 1
  /\ proc' = [proc EXCEPT ![w] = Down]
  /\ \/ UNCHANGED <<file, unended, recorded, damaged>>
     \/ \E c \in Calls \ recorded :
          /\ ~proc[w].corrupted
          /\ CutAppend(w, c)
          /\ recorded' = recorded \cup {c}
          /\ damaged' = (damaged \/ (file' # file /\ (unended \/ ~Alone(w))))
  /\ UNCHANGED acked

Next ==
  \E w \in Writers :
    \/ Start(w) \/ Crash(w)
    \/ \E c \in Calls : Record(w, c) \/ RecordRaises(w, c)

Spec == Init /\ [][Next]_vars

-----------------------------------------------------------------------------
(* Unless an append raised and left text, continued a line that was cut at  *)
(* its newline, or was made beside another process, a ledger that accepts   *)
(* receipts has a file that verifies and goes on at its end, through every  *)
(* crash and recovery (ledger.py:116).                                      *)
AcceptsOnlyAtTheEnd ==
  ~damaged =>
    \A w \in Writers :
      proc[w].up /\ ~proc[w].corrupted =>
        /\ Valid
        /\ proc[w].next = Len(file) /\ proc[w].head = HashAt(Len(file))

(* A file that verifies holds every receipt that was returned, at its own   *)
(* place: whatever failed, crashed or interleaved, a loss is detected.      *)
ValidMeansComplete ==
  Valid => \A c \in acked : \E i \in DOMAIN file : file[i] = << file[i][1] >> /\ file[i][1].hash = c
=============================================================================
