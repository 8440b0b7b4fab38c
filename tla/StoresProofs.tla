----------------------------- MODULE StoresProofs -----------------------------
(***************************************************************************)
(* Proofs about the queues, counters and files of Stores, for every value  *)
(* of the constants.  Each part has an inductive invariant of its own; a   *)
(* behaviour of Stores is about one part, whose steps keep it.             *)
(***************************************************************************)
EXTENDS Stores, QueueLemmas, FiniteSetTheorems

-----------------------------------------------------------------------------
(* The receipt ledger.                                                      *)

(* A line without an end exists.                                            *)
UnendedExists == unended => file # << >>

(* The receipt of every call that returned is somewhere in the file.        *)
AckedInFile ==
  \A c \in acked : \E i \in DOMAIN file : \E k \in DOMAIN file[i] : file[i][k].hash = c

LedgerInv == Ledger!TypeOK /\ UnendedExists /\ AckedInFile /\ Ledger!AcceptsOnlyAtTheEnd

-----------------------------------------------------------------------------
(* What _verify_file and _recover_state return, and what an append does.    *)

\* The head of a file that verifies is the hash of a call, or Genesis.
LEMMA ValidHead ==
  ASSUME Ledger!TypeOK, Ledger!Valid
  PROVE  Ledger!HashAt(Len(file)) \in Calls \cup {Genesis}
<1>1. CASE Len(file) = 0
  BY <1>1 DEF Ledger!HashAt
<1>2. CASE Len(file) # 0
  <2>1. Len(file) \in DOMAIN file
    BY <1>2 DEF Ledger!TypeOK
  <2>2. file[Len(file)][1] \in Ledger!Receipts
    BY <2>1 DEF Ledger!Valid, Ledger!Whole
  <2> QED BY <2>2, <1>2 DEF Ledger!HashAt, Ledger!Receipts
<1> QED BY <1>1, <1>2

\* A recovered ledger object has the types of one.
LEMMA RecoveredType ==
  ASSUME Ledger!TypeOK
  PROVE  Ledger!Recovered \in [up : BOOLEAN, next : Nat, head : Calls \cup {Genesis}, corrupted : BOOLEAN]
<1>1. CASE Ledger!Valid
  <2>1. Len(file) \in Nat
    BY DEF Ledger!TypeOK
  <2> QED BY <1>1, <2>1, ValidHead DEF Ledger!Recovered
<1>2. CASE ~Ledger!Valid
  BY <1>2 DEF Ledger!Recovered
<1> QED BY <1>1, <1>2

\* A piece written at the end of the file: the file keeps its type and every
\* piece that was in it, and has the new one.
LEMMA ExtendedFile ==
  ASSUME Ledger!TypeOK, UnendedExists, NEW piece \in Ledger!Receipts \cup {Torn}
  PROVE  /\ Ledger!Extended(piece) \in Seq(Seq(Ledger!Receipts \cup {Torn}))
         /\ Ledger!Extended(piece) # << >>
         /\ \A i \in DOMAIN file : \A k \in DOMAIN file[i] :
              /\ i \in DOMAIN Ledger!Extended(piece) /\ k \in DOMAIN Ledger!Extended(piece)[i]
              /\ Ledger!Extended(piece)[i][k] = file[i][k]
         /\ \E i \in DOMAIN Ledger!Extended(piece) : \E k \in DOMAIN Ledger!Extended(piece)[i] :
              Ledger!Extended(piece)[i][k] = piece
<1> DEFINE Text == Ledger!Receipts \cup {Torn}
           Line == Append(file[Len(file)], piece)
<1>0. file \in Seq(Seq(Text)) /\ piece \in Text
  BY DEF Ledger!TypeOK
<1> HIDE DEF Text
<1>1. CASE unended
  <2>1. Len(file) \in DOMAIN file /\ Len(file) \in Nat
    BY <1>0, <1>1 DEF UnendedExists
  <2>2. file[Len(file)] \in Seq(Text)
    BY <1>0, <2>1
  <2>3. /\ Line \in Seq(Text) /\ Len(Line) = Len(file[Len(file)]) + 1
        /\ Line[Len(Line)] = piece
        /\ \A k \in DOMAIN file[Len(file)] : k \in DOMAIN Line /\ Line[k] = file[Len(file)][k]
    BY <1>0, <2>2
  <2> HIDE DEF Line
  <2>4. Ledger!Extended(piece) = [file EXCEPT ![Len(file)] = Line]
    BY <1>1 DEF Ledger!Extended, Line
  <2>5. /\ Ledger!Extended(piece) \in Seq(Seq(Text))
        /\ DOMAIN Ledger!Extended(piece) = DOMAIN file
        /\ Len(Ledger!Extended(piece)) = Len(file)
        /\ Ledger!Extended(piece)[Len(file)] = Line
        /\ \A i \in DOMAIN file : i # Len(file) => Ledger!Extended(piece)[i] = file[i]
    BY <1>0, <2>1, <2>3, <2>4
  <2>6. Len(Line) \in DOMAIN Line
    BY <2>2, <2>3
  <2>7. Ledger!Extended(piece) # << >>
    BY <2>1, <2>5
  <2> QED BY <2>1, <2>3, <2>5, <2>6, <2>7 DEF Text
<1>2. CASE ~unended
  <2>1. Ledger!Extended(piece) = Append(file, <<piece>>)
    BY <1>2 DEF Ledger!Extended
  <2>2. <<piece>> \in Seq(Text) /\ DOMAIN <<piece>> = {1} /\ <<piece>>[1] = piece
    BY <1>0
  <2>3. /\ Ledger!Extended(piece) \in Seq(Seq(Text))
        /\ Len(Ledger!Extended(piece)) = Len(file) + 1
        /\ Ledger!Extended(piece)[Len(file) + 1] = <<piece>>
        /\ \A i \in DOMAIN file : i \in DOMAIN Ledger!Extended(piece) /\ Ledger!Extended(piece)[i] = file[i]
    BY <1>0, <2>1, <2>2
  <2>4. Len(file) + 1 \in DOMAIN Ledger!Extended(piece) /\ Ledger!Extended(piece) # << >>
    BY <1>0, <2>3
  <2> QED BY <2>2, <2>3, <2>4 DEF Text
<1> QED BY <1>1, <1>2

\* What a record of the next receipt is.
LEMMA CandidateType ==
  ASSUME Ledger!TypeOK, NEW w \in Processes, NEW c \in Calls
  PROVE  Ledger!Candidate(w, c) \in Ledger!Receipts
<1>1. proc[w].next \in Nat /\ proc[w].head \in Calls \cup {Genesis}
  BY DEF Ledger!TypeOK
<1> QED BY <1>1 DEF Ledger!Candidate, Ledger!Receipts

\* An append that is cut off keeps every piece of the file, and its type.
LEMMA CutAppendKeeps ==
  ASSUME Ledger!TypeOK, UnendedExists, AckedInFile, NEW w \in Processes, NEW c \in Calls, Ledger!CutAppend(w, c),
         acked' = acked
  PROVE  /\ file' \in Seq(Seq(Ledger!Receipts \cup {Torn})) /\ unended' \in BOOLEAN
         /\ UnendedExists' /\ AckedInFile'
<1>1. CASE UNCHANGED <<file, unended>>
  BY <1>1 DEF Ledger!TypeOK, UnendedExists, AckedInFile
<1>2. ASSUME NEW piece \in Ledger!Receipts \cup {Torn}, file' = Ledger!Extended(piece), unended' \in BOOLEAN
      PROVE  /\ file' \in Seq(Seq(Ledger!Receipts \cup {Torn})) /\ unended' \in BOOLEAN
             /\ UnendedExists' /\ AckedInFile'
  <2> HIDE DEF Ledger!Receipts
  <2> QED BY <1>2, ExtendedFile DEF UnendedExists, AckedInFile
<1>3. /\ Ledger!Candidate(w, c) \in Ledger!Receipts \cup {Torn}
      /\ Torn \in Ledger!Receipts \cup {Torn}
  BY CandidateType
<1> QED BY <1>1, <1>2, <1>3 DEF Ledger!CutAppend

-----------------------------------------------------------------------------
(* The actions.                                                             *)

\* A process that starts trusts what it has verified.
LEMMA StartKeeps ==
  ASSUME LedgerInv, NEW w \in Processes, Ledger!Start(w)
  PROVE  LedgerInv'
<1>1. Ledger!TypeOK'
  BY RecoveredType DEF LedgerInv, Ledger!TypeOK, Ledger!Start, Ledger!Receipts
<1>2. UnendedExists' /\ AckedInFile'
  BY DEF LedgerInv, UnendedExists, AckedInFile, Ledger!Start
<1>3. Ledger!AcceptsOnlyAtTheEnd'
  <2> SUFFICES ASSUME ~damaged', NEW q \in Processes, proc'[q].up, ~proc'[q].corrupted
               PROVE  /\ Ledger!Valid'
                      /\ proc'[q].next = Len(file') /\ proc'[q].head = Ledger!HashAt(Len(file))'
    BY DEF Ledger!AcceptsOnlyAtTheEnd
  <2>1. /\ Ledger!Valid' = Ledger!Valid /\ Ledger!HashAt(Len(file))' = Ledger!HashAt(Len(file))
        /\ ~damaged
    BY DEF Ledger!Start, Ledger!Valid, Ledger!Whole, Ledger!HashAt
  <2>2. CASE q = w
    <3>1. proc'[q] = Ledger!Recovered
      BY <2>2 DEF LedgerInv, Ledger!TypeOK, Ledger!Start
    <3>2. Ledger!Valid
      BY <3>1 DEF Ledger!Recovered
    <3> QED BY <2>1, <3>1, <3>2 DEF Ledger!Recovered, Ledger!Start
  <2>3. CASE q # w
    <3>1. proc'[q] = proc[q]
      BY <2>3 DEF LedgerInv, Ledger!TypeOK, Ledger!Start
    <3> QED BY <2>1, <3>1 DEF LedgerInv, Ledger!AcceptsOnlyAtTheEnd, Ledger!Start
  <2> QED BY <2>2, <2>3
<1> QED BY <1>1, <1>2, <1>3 DEF LedgerInv

\* The file verifies with one more receipt that goes on at its end.
LEMMA ValidGoesOn ==
  ASSUME Ledger!TypeOK, Ledger!Valid, NEW w \in Processes, NEW c \in Calls,
         proc[w].next = Len(file), proc[w].head = Ledger!HashAt(Len(file)),
         file' = Append(file, <<Ledger!Candidate(w, c)>>)
  PROVE  Ledger!Valid' /\ Len(file') = Len(file) + 1 /\ Ledger!HashAt(Len(file))' = c
<1> DEFINE r == Ledger!Candidate(w, c)
<1>1. /\ r \in Ledger!Receipts /\ r.seq = Len(file) /\ r.prev = Ledger!HashAt(Len(file))
      /\ r.hash = c
  BY CandidateType DEF Ledger!Candidate
<1> HIDE DEF r
<1>2. /\ file \in Seq(Seq(Ledger!Receipts \cup {Torn})) /\ Len(file) \in Nat
      /\ <<r>> \in Seq(Ledger!Receipts \cup {Torn})
  BY <1>1 DEF Ledger!TypeOK
<1>3. /\ file' = Append(file, <<r>>) /\ Len(file') = Len(file) + 1
      /\ DOMAIN file' = 1 .. (Len(file) + 1) /\ DOMAIN file = 1 .. Len(file)
      /\ file'[Len(file) + 1] = <<r>>
      /\ \A i \in DOMAIN file : file'[i] = file[i]
  BY <1>2 DEF r
<1>4. Len(<<r>>) = 1 /\ <<r>>[1] = r
  OBVIOUS
<1>5. ASSUME NEW i \in 1 .. (Len(file) + 1)
      PROVE  /\ Ledger!Whole(file'[i]) /\ file'[i][1].seq = i - 1
             /\ file'[i][1].prev = Ledger!HashAt(i - 1)'
  <2>1. Ledger!HashAt(i - 1)' = Ledger!HashAt(i - 1)
    BY <1>2, <1>3 DEF Ledger!HashAt
  <2>2. CASE i \in DOMAIN file
    BY <1>3, <2>1, <2>2 DEF Ledger!Valid
  <2>3. CASE i = Len(file) + 1
    <3>1. file'[i] = <<r>> /\ i - 1 = Len(file)
      BY <1>2, <1>3, <2>3
    <3> QED BY <1>1, <1>4, <2>1, <3>1 DEF Ledger!Whole
  <2> QED BY <1>2, <1>3, <2>2, <2>3
<1>6. Ledger!Valid'
  BY <1>3, <1>5 DEF Ledger!Valid, Ledger!Whole
<1>7. Ledger!HashAt(Len(file))' = c
  <2>1. Ledger!HashAt(Len(file))' = file'[Len(file')][1].hash
    BY <1>2, <1>3 DEF Ledger!HashAt
  <2> QED BY <1>1, <1>3, <1>4, <2>1
<1> QED BY <1>3, <1>6, <1>7

\* A record that damages nothing finds the file ended and no other process.
LEMMA RecordKeeps ==
  ASSUME LedgerInv, NEW w \in Processes, NEW c \in Calls, Ledger!Record(w, c)
  PROVE  LedgerInv'
<1>1. Ledger!TypeOK /\ UnendedExists
  BY DEF LedgerInv
<1>2. Ledger!Candidate(w, c) \in Ledger!Receipts \cup {Torn} /\ Ledger!Candidate(w, c).hash = c
  BY <1>1, CandidateType DEF Ledger!Candidate
<1>3. Ledger!TypeOK'
  <2>1. file' \in Seq(Seq(Ledger!Receipts \cup {Torn}))
    BY <1>1, <1>2, ExtendedFile DEF Ledger!Record
  <2>2. proc' \in [Processes -> [up : BOOLEAN, next : Nat, head : Calls \cup {Genesis},
                              corrupted : BOOLEAN]]
    <3> DEFINE Types == [up : BOOLEAN, next : Nat, head : Calls \cup {Genesis}, corrupted : BOOLEAN]
    <3>1. proc \in [Processes -> Types] /\ proc[w].next \in Nat
      BY <1>1 DEF Ledger!TypeOK
    <3>2. proc[w].next + 1 \in Nat
      BY <3>1
    <3>3. Ledger!Advanced(w, c) \in Types
      BY <3>2 DEF Ledger!Advanced
    <3> HIDE DEF Types
    <3>4. proc' \in [Processes -> Types]
      BY <3>1, <3>3 DEF Ledger!Record
    <3> QED BY <3>4 DEF Types
  <2> QED BY <1>1, <2>1, <2>2 DEF Ledger!TypeOK, Ledger!Record
<1>4. UnendedExists' /\ AckedInFile'
  <2>1. file' = Ledger!Extended(Ledger!Candidate(w, c)) /\ acked' = acked \cup {c} /\ ~unended'
    BY DEF Ledger!Record
  <2>2. AckedInFile
    BY DEF LedgerInv
  <2> HIDE DEF Ledger!Receipts
  <2>3. \A i \in DOMAIN file : \A k \in DOMAIN file[i] :
          /\ i \in DOMAIN file' /\ k \in DOMAIN file'[i] /\ file'[i][k] = file[i][k]
    BY <1>1, <1>2, <2>1, ExtendedFile
  <2>4. \E i \in DOMAIN file' : \E k \in DOMAIN file'[i] : file'[i][k].hash = c
    BY <1>1, <1>2, <2>1, ExtendedFile
  <2> QED BY <2>1, <2>2, <2>3, <2>4 DEF UnendedExists, AckedInFile
<1>5. Ledger!AcceptsOnlyAtTheEnd'
  <2> SUFFICES ASSUME ~damaged', NEW q \in Processes, proc'[q].up, ~proc'[q].corrupted
               PROVE  /\ Ledger!Valid'
                      /\ proc'[q].next = Len(file') /\ proc'[q].head = Ledger!HashAt(Len(file))'
    BY DEF Ledger!AcceptsOnlyAtTheEnd
  <2>1. ~damaged /\ ~unended /\ Ledger!Alone(w)
    BY DEF Ledger!Record
  <2>2. q = w
    <3>1. q # w => proc'[q] = proc[q]
      BY <1>1 DEF Ledger!TypeOK, Ledger!Record
    <3> QED BY <2>1, <3>1 DEF Ledger!Alone
  <2>3. /\ Ledger!Valid /\ proc[w].next = Len(file) /\ proc[w].head = Ledger!HashAt(Len(file))
    BY <2>1 DEF LedgerInv, Ledger!AcceptsOnlyAtTheEnd, Ledger!Record
  <2>4. file' = Append(file, <<Ledger!Candidate(w, c)>>)
    BY <2>1 DEF Ledger!Record, Ledger!Extended
  <2>5. Ledger!Valid' /\ Len(file') = Len(file) + 1 /\ Ledger!HashAt(Len(file))' = c
    BY <1>1, <2>3, <2>4, ValidGoesOn
  <2>6. proc'[w].next = proc[w].next + 1 /\ proc'[w].head = c
    BY <1>1 DEF Ledger!TypeOK, Ledger!Record, Ledger!Advanced
  <2> QED BY <2>2, <2>3, <2>5, <2>6
<1> QED BY <1>3, <1>4, <1>5 DEF LedgerInv

\* An append that raises keeps memory, and damages a file that it changes.
LEMMA RecordRaisesKeeps ==
  ASSUME LedgerInv, NEW w \in Processes, NEW c \in Calls, Ledger!RecordRaises(w, c)
  PROVE  LedgerInv'
<1>1. /\ file' \in Seq(Seq(Ledger!Receipts \cup {Torn})) /\ unended' \in BOOLEAN
      /\ UnendedExists' /\ AckedInFile'
  BY CutAppendKeeps DEF LedgerInv, Ledger!RecordRaises
<1>2. Ledger!TypeOK'
  BY <1>1 DEF LedgerInv, Ledger!TypeOK, Ledger!RecordRaises, Ledger!Kept
<1>3. Ledger!AcceptsOnlyAtTheEnd'
  <2>1. CASE file' = file
    BY <2>1
       DEF LedgerInv, Ledger!AcceptsOnlyAtTheEnd, Ledger!RecordRaises, Ledger!Kept,
           Ledger!Valid, Ledger!Whole, Ledger!HashAt
  <2>2. CASE file' # file
    BY <2>2 DEF Ledger!AcceptsOnlyAtTheEnd, Ledger!RecordRaises
  <2> QED BY <2>1, <2>2
<1> QED BY <1>1, <1>2, <1>3 DEF LedgerInv

\* A crash leaves either the file or nobody who accepts receipts.
LEMMA CrashKeeps ==
  ASSUME LedgerInv, NEW w \in Processes, Ledger!Crash(w)
  PROVE  LedgerInv'
<1>1. proc' \in [Processes -> [up : BOOLEAN, next : Nat, head : Calls \cup {Genesis},
                            corrupted : BOOLEAN]]
      /\ ~proc'[w].up /\ (\A q \in Processes \ {w} : proc'[q] = proc[q]) /\ faults' \in Nat
  BY DEF LedgerInv, Ledger!TypeOK, Ledger!Crash, Ledger!Down
<1>2. CASE UNCHANGED <<file, unended, recorded, damaged>>
  <2>1. UNCHANGED acked
    BY DEF Ledger!Crash
  <2>2. Ledger!TypeOK' /\ UnendedExists' /\ AckedInFile'
    BY <1>1, <1>2, <2>1 DEF LedgerInv, Ledger!TypeOK, UnendedExists, AckedInFile
  <2>3. Ledger!AcceptsOnlyAtTheEnd'
    BY <1>1, <1>2
       DEF LedgerInv, Ledger!AcceptsOnlyAtTheEnd, Ledger!Valid, Ledger!Whole,
           Ledger!HashAt
  <2> QED BY <2>2, <2>3 DEF LedgerInv
<1>3. ASSUME NEW c \in Calls \ recorded, Ledger!CutAppend(w, c), recorded' = recorded \cup {c},
             damaged' = (damaged \/ (file' # file /\ (unended \/ ~Ledger!Alone(w))))
      PROVE  LedgerInv'
  <2>1. UNCHANGED acked
    BY DEF Ledger!Crash
  <2>2. /\ file' \in Seq(Seq(Ledger!Receipts \cup {Torn})) /\ unended' \in BOOLEAN
        /\ UnendedExists' /\ AckedInFile'
    BY <1>3, <2>1, CutAppendKeeps DEF LedgerInv
  <2>3. Ledger!TypeOK'
    BY <1>1, <1>3, <2>1, <2>2 DEF LedgerInv, Ledger!TypeOK
  <2>4. Ledger!AcceptsOnlyAtTheEnd'
    <3>1. CASE file' = file
      <4>1. /\ Ledger!Valid' = Ledger!Valid
            /\ Ledger!HashAt(Len(file))' = Ledger!HashAt(Len(file)) /\ Len(file') = Len(file)
        BY <3>1 DEF Ledger!Valid, Ledger!Whole, Ledger!HashAt
      <4> QED BY <1>1, <1>3, <4>1, <3>1 DEF LedgerInv, Ledger!AcceptsOnlyAtTheEnd
    <3>2. CASE file' # file
      BY <1>1, <1>3, <3>2 DEF Ledger!AcceptsOnlyAtTheEnd, Ledger!Alone
    <3> QED BY <3>1, <3>2
  <2> QED BY <2>2, <2>3, <2>4 DEF LedgerInv
<1> QED BY <1>2, <1>3 DEF Ledger!Crash

LEMMA InitLedgerInv == Ledger!Init => LedgerInv
<1> SUFFICES ASSUME Ledger!Init PROVE LedgerInv
  OBVIOUS
<1>1. file = << >> /\ acked = {} /\ ~unended /\ ~damaged
  BY DEF Ledger!Init
<1>2. << >> \in Seq(Seq(Ledger!Receipts \cup {Torn}))
  OBVIOUS
<1>3. Ledger!TypeOK
  BY <1>2 DEF Ledger!Init, Ledger!TypeOK, Ledger!Down
<1>4. \A w \in Processes : ~proc[w].up
  BY DEF Ledger!Init, Ledger!Down
<1> QED BY <1>1, <1>3, <1>4
           DEF LedgerInv, UnendedExists, AckedInFile, Ledger!AcceptsOnlyAtTheEnd

LEMMA NextLedgerInv == LedgerInv /\ [Ledger!Next]_<<file, faults, ledgerVars>> => LedgerInv'
<1> SUFFICES ASSUME LedgerInv, [Ledger!Next]_<<file, faults, ledgerVars>> PROVE LedgerInv'
  OBVIOUS
<1>1. ASSUME NEW w \in Processes, Ledger!Start(w) PROVE LedgerInv'
  BY <1>1, StartKeeps
<1>2. ASSUME NEW w \in Processes, Ledger!Crash(w) PROVE LedgerInv'
  BY <1>2, CrashKeeps
<1>3. ASSUME NEW w \in Processes, NEW c \in Calls, Ledger!Record(w, c) PROVE LedgerInv'
  BY <1>3, RecordKeeps
<1>4. ASSUME NEW w \in Processes, NEW c \in Calls, Ledger!RecordRaises(w, c) PROVE LedgerInv'
  BY <1>4, RecordRaisesKeeps
<1>5. CASE UNCHANGED <<file, faults, ledgerVars>>
  BY <1>5
     DEF ledgerVars, LedgerInv, Ledger!TypeOK, UnendedExists, AckedInFile,
         Ledger!AcceptsOnlyAtTheEnd, Ledger!Valid, Ledger!Whole, Ledger!HashAt
<1> QED BY <1>1, <1>2, <1>3, <1>4, <1>5 DEF Ledger!Next

\* In a file that verifies a line is one receipt, so none is glued to another.
LEMMA ValidIsComplete == LedgerInv => Ledger!ValidMeansComplete
<1> SUFFICES ASSUME LedgerInv, Ledger!Valid, NEW c \in acked
             PROVE  \E i \in DOMAIN file : file[i] = << file[i][1] >> /\ file[i][1].hash = c
  BY DEF Ledger!ValidMeansComplete
<1>1. PICK i \in DOMAIN file : \E k \in DOMAIN file[i] : file[i][k].hash = c
  BY DEF LedgerInv, AckedInFile
<1>2. PICK k \in DOMAIN file[i] : file[i][k].hash = c
  BY <1>1
<1>3. Len(file[i]) = 1
  BY DEF Ledger!Valid, Ledger!Whole
<1>4. file[i] \in Seq(Ledger!Receipts \cup {Torn})
  BY DEF LedgerInv, Ledger!TypeOK
<1>5. file[i] = << file[i][1] >> /\ k = 1
  BY <1>3, <1>4
<1> QED BY <1>2, <1>5

-----------------------------------------------------------------------------
(* The audit write queue.                                                   *)

Ascending(s) == \A i, j \in DOMAIN s : i < j => s[i] < s[j]
Below(A, B) == \A x \in A, y \in B : x < y

\* A larger element at the end.
LEMMA AppendAscending ==
  ASSUME NEW S, NEW s \in Seq(S), NEW e \in S, Ascending(s), Below(Elements(s), {e})
  PROVE  Ascending(Append(s, e))
<1> DEFINE t == Append(s, e)
<1>1. Len(s) \in Nat /\ DOMAIN s = 1..Len(s)
  BY LenProperties
<1>2. Len(t) = Len(s) + 1 /\ t[Len(s) + 1] = e /\ t \in Seq(S)
  BY AppendProperties
<1>3. \A i \in 1..Len(s) : t[i] = s[i]
  BY AppendProperties
<1>4. DOMAIN t = 1..Len(t)
  BY <1>2, LenProperties
<1>5. \A i \in DOMAIN s : s[i] < e
  BY DEF Below, Elements
<1> HIDE DEF t
<1>6. \A i, j \in DOMAIN t : i < j => i \in DOMAIN s /\ (j \in DOMAIN s \/ j = Len(s) + 1)
  BY <1>1, <1>2, <1>4
<1>7. Ascending(t)
  BY <1>1, <1>2, <1>3, <1>5, <1>6 DEF Ascending
<1> QED BY <1>7 DEF t

\* What each step of a consumer needs to know of the queue's two halves.
LEMMA BatchTaken ==
  ASSUME Audit!TypeOK, queue # << >>
  PROVE  /\ Audit!NextBatch.jobs \in Seq(Audit!JobNumbers) /\ Audit!NextBatch.jobs # << >>
         /\ Audit!NextBatch.writing = "call"
         /\ Len(Audit!NextBatch.jobs) <= BatchSize
         /\ Audit!Unbatched \in Seq(Audit!JobNumbers) /\ Len(Audit!Unbatched) <= Len(queue)
         /\ Elements(queue) = Elements(Audit!NextBatch.jobs) \cup Elements(Audit!Unbatched)
         /\ Ascending(queue) =>
              /\ Ascending(Audit!NextBatch.jobs) /\ Ascending(Audit!Unbatched)
              /\ Below(Elements(Audit!NextBatch.jobs), Elements(Audit!Unbatched))
<1>1. /\ queue \in Seq(Audit!JobNumbers) /\ Len(queue) \in Nat /\ Len(queue) # 0
      /\ DOMAIN queue = 1..Len(queue)
  BY LenProperties, EmptySeq DEF Audit!TypeOK
<1> DEFINE n == Audit!BatchLength
<1>2. n \in 1..Len(queue) /\ n <= BatchSize
  BY <1>1, StoresAssumption DEF Audit!BatchLength
<1> HIDE DEF n
<1> DEFINE a == SubSeq(queue, 1, n)
           b == SubSeq(queue, n + 1, Len(queue))
<1>3. /\ a \in Seq(Audit!JobNumbers) /\ Len(a) = n /\ DOMAIN a = 1..n /\ \A i \in 1..n : a[i] = queue[i]
      /\ b \in Seq(Audit!JobNumbers) /\ Len(b) = Len(queue) - n /\ DOMAIN b = 1..(Len(queue) - n)
      /\ \A i \in 1..(Len(queue) - n) : b[i] = queue[n + i]
      /\ Elements(queue) = Elements(a) \cup Elements(b)
  <2>1. n \in 0..Len(queue)
    BY <1>2
  <2>7. queue \in Seq(Audit!JobNumbers)
    BY <1>1
  <2>2. a \in Seq(Audit!JobNumbers) /\ Len(a) = n /\ b \in Seq(Audit!JobNumbers) /\ Len(b) = Len(queue) - n
    BY <2>1, <2>7, SplitParts
  <2>6. DOMAIN a = 1..n /\ DOMAIN b = 1..(Len(queue) - n)
    BY <2>2, LenProperties
  <2>3. \A i \in 1..n : a[i] = queue[i]
    BY <1>1, <2>1, Split
  <2>4. \A i \in 1..(Len(queue) - n) : b[i] = queue[n + i]
    BY <1>1, <2>1, Split
  <2>5. Elements(queue) = Elements(a) \cup Elements(b)
    BY <1>1, <2>1, Split
  <2> QED BY <2>2, <2>3, <2>4, <2>5, <2>6
<1>4. Audit!NextBatch = [jobs |-> a, writing |-> "call"] /\ Audit!Unbatched = b
  BY DEF Audit!NextBatch, Audit!Unbatched, n
<1> HIDE DEF a, b
<1>5. a # << >> /\ Len(a) <= BatchSize /\ Len(b) <= Len(queue)
  <2>1. a # << >>
    BY <1>2, <1>3
  <2>2. Len(a) <= BatchSize /\ Len(b) <= Len(queue)
    BY <1>1, <1>2, <1>3
  <2> QED BY <2>1, <2>2
<1>6. ASSUME Ascending(queue)
      PROVE  Ascending(a) /\ Ascending(b) /\ Below(Elements(a), Elements(b))
  <2>1. Ascending(a)
    BY <1>1, <1>2, <1>3, <1>6 DEF Ascending
  <2>2. Ascending(b)
    <3> SUFFICES ASSUME NEW i \in DOMAIN b, NEW j \in DOMAIN b, i < j
                 PROVE  b[i] < b[j]
      BY DEF Ascending
    <3>0. /\ n \in Nat /\ i \in 1..(Len(queue) - n) /\ j \in 1..(Len(queue) - n)
          /\ DOMAIN queue = 1..Len(queue) /\ Len(queue) \in Nat
      BY <1>1, <1>2, <1>3
    <3>1. n + i \in DOMAIN queue /\ n + j \in DOMAIN queue /\ n + i < n + j
      BY <3>0
    <3>2. b[i] = queue[n + i] /\ b[j] = queue[n + j]
      BY <1>3, <3>0
    <3> QED BY <1>6, <3>1, <3>2 DEF Ascending
  <2>3. Below(Elements(a), Elements(b))
    <3> SUFFICES ASSUME NEW i \in DOMAIN a, NEW j \in DOMAIN b
                 PROVE  a[i] < b[j]
      BY DEF Below, Elements
    <3>1. /\ a[i] = queue[i] /\ b[j] = queue[n + j]
          /\ i \in DOMAIN queue /\ n + j \in DOMAIN queue /\ i < n + j
      BY <1>1, <1>2, <1>3
    <3> QED BY <1>6, <3>1 DEF Ascending
  <2> QED BY <2>1, <2>2, <2>3
<1> QED BY <1>3, <1>4, <1>5, <1>6

Draining == batch["drain"]
\* What the drain has taken and not yet written.
Unwritten ==
  Elements(IF Draining.writing = "cost" THEN Tail(Draining.jobs) ELSE Draining.jobs)

\* One drain at a time.
OneDrain ==
  /\ immediate => draining /\ Draining.jobs = << >>
  /\ Draining.jobs # << >> => draining
  /\ Len(Draining.jobs) <= BatchSize

\* Before a shutdown the jobs come in their order: those written, the drain's, those queued.
InOrder ==
  closing = "no" =>
    /\ Ascending(calls) /\ Ascending(Draining.jobs) /\ Ascending(queue)
    /\ Below(Elements(calls), Unwritten) /\ Below(Elements(calls), Elements(queue))
    /\ Below(Elements(Draining.jobs), Elements(queue))
    /\ Elements(calls) \cup Elements(Draining.jobs) \cup Elements(queue) \subseteq 1..handed

\* An accepted job is somewhere, and the flush leaves only late ones in the queue.
NoneLost ==
  /\ closing = "no" => batch["flush"].jobs = << >>
  /\ closing \in {"flushed", "exited"} =>
       batch["flush"].jobs = << >> /\ Elements(queue) \subseteq late
  /\ accepted \subseteq Elements(calls) \cup failed \cup late \cup Elements(Draining.jobs)
                       \cup Elements(queue) \cup Elements(batch["flush"].jobs)
  /\ \A c \in Audit!Consumers : batch[c].writing = "cost" => Head(batch[c].jobs) \in Elements(calls)

AuditInv == Audit!TypeOK /\ OneDrain /\ InOrder /\ NoneLost

\* A batch with a job is being written.
LEMMA InBatch ==
  ASSUME Audit!TypeOK, NEW c \in Audit!Consumers, batch[c].writing # "nothing"
  PROVE  /\ batch[c].jobs \in Seq(Audit!JobNumbers) /\ batch[c].jobs # << >>
         /\ Head(batch[c].jobs) \in Audit!JobNumbers /\ Tail(batch[c].jobs) \in Seq(Audit!JobNumbers)
         /\ Elements(batch[c].jobs) = {Head(batch[c].jobs)} \cup Elements(Tail(batch[c].jobs))
         /\ Len(Tail(batch[c].jobs)) < Len(batch[c].jobs)
         /\ Len(batch[c].jobs) > 1 <=> Tail(batch[c].jobs) # << >>
         /\ Ascending(batch[c].jobs) =>
              /\ Ascending(Tail(batch[c].jobs))
              /\ Below({Head(batch[c].jobs)}, Elements(Tail(batch[c].jobs)))
<1> DEFINE s == batch[c].jobs
<1>1. s \in Seq(Audit!JobNumbers) /\ s # << >>
  BY DEF Audit!TypeOK
<1> HIDE DEF s
<1>2. /\ Head(s) \in Audit!JobNumbers /\ Tail(s) \in Seq(Audit!JobNumbers) /\ Len(Tail(s)) = Len(s) - 1
      /\ Elements(s) = {Head(s)} \cup Elements(Tail(s))
      /\ Head(s) = s[1] /\ DOMAIN Tail(s) = 1..(Len(s) - 1)
      /\ \A i \in DOMAIN Tail(s) : i + 1 \in DOMAIN s /\ Tail(s)[i] = s[i + 1]
  BY <1>1, TailElements
<1>3. Len(s) \in Nat /\ Len(s) # 0 /\ DOMAIN s = 1..Len(s)
  BY <1>1, LenProperties, EmptySeq
<1>4. Len(Tail(s)) < Len(s)
  BY <1>2, <1>3
<1>5. Len(s) > 1 <=> Tail(s) # << >>
  <2>1. Tail(s) = << >> => Len(Tail(s)) = 0
    BY EmptySeq
  <2>2. Tail(s) # << >> => Len(Tail(s)) # 0
    BY <1>2, EmptySeq
  <2> QED BY <1>2, <1>3, <2>1, <2>2
<1>6. ASSUME Ascending(s)
      PROVE  Ascending(Tail(s)) /\ Below({Head(s)}, Elements(Tail(s)))
  <2>1. \A i \in DOMAIN Tail(s) : i \in Nat /\ 1 < i + 1 /\ 1 \in DOMAIN s
    BY <1>2, <1>3
  <2>2. Below({Head(s)}, Elements(Tail(s)))
    BY <1>2, <1>6, <2>1 DEF Below, Elements, Ascending
  <2>3. \A i, j \in DOMAIN Tail(s) : i < j => i + 1 < j + 1
    BY <1>2, <1>3
  <2>4. Ascending(Tail(s))
    BY <1>2, <1>6, <2>3 DEF Ascending
  <2> QED BY <2>2, <2>4
<1> QED BY <1>1, <1>2, <1>4, <1>5, <1>6 DEF s

\* The drain is through with a job.
LEMMA DrainAdvances ==
  ASSUME Audit!TypeOK, Draining.writing # "nothing", Audit!JobOver("drain")
  PROVE  /\ batch'["drain"].jobs = Tail(Draining.jobs)
         /\ batch'["drain"].writing = IF Tail(Draining.jobs) = << >> THEN "nothing" ELSE "call"
         /\ batch'["flush"] = batch["flush"]
         /\ batch' \in [Audit!Consumers -> [jobs : Seq(Audit!JobNumbers), writing : {"nothing", "call", "cost"}]]
         /\ queue' = queue /\ closing' = closing
         /\ \/ Tail(Draining.jobs) # << >> /\ draining' = draining /\ immediate' = immediate
            \/ /\ Tail(Draining.jobs) = << >>
               /\ draining' = (queue # << >>) /\ immediate' = (queue # << >>)
<1>1. /\ "drain" \in Audit!Consumers /\ "flush" \in Audit!Consumers /\ "flush" # "drain"
      /\ Tail(Draining.jobs) \in Seq(Audit!JobNumbers)
      /\ (Len(Draining.jobs) > 1 <=> Tail(Draining.jobs) # << >>)
      /\ batch \in [Audit!Consumers -> [jobs : Seq(Audit!JobNumbers), writing : {"nothing", "call", "cost"}]]
  BY InBatch DEF Audit!Consumers, Draining, Audit!TypeOK
<1>2. CASE Len(Draining.jobs) > 1
  <2>1. /\ batch' = [batch EXCEPT !["drain"] = [jobs |-> Tail(Draining.jobs), writing |-> "call"]]
        /\ UNCHANGED <<queue, draining, immediate, closing>>
    BY <1>2 DEF Audit!JobOver, Draining
  <2> QED BY <1>1, <1>2, <2>1
<1>3. CASE ~(Len(Draining.jobs) > 1)
  <2>1. /\ batch' = [batch EXCEPT !["drain"] = Audit!Idle]
        /\ draining' = (queue # << >>) /\ immediate' = (queue # << >>)
        /\ UNCHANGED <<queue, closing>>
    BY <1>3 DEF Audit!JobOver, Audit!DrainOver, Draining
  <2>2. Audit!Idle \in [jobs : Seq(Audit!JobNumbers), writing : {"nothing", "call", "cost"}]
    BY EmptySeq DEF Audit!Idle
  <2>3. Audit!Idle.jobs = << >> /\ Audit!Idle.writing = "nothing"
    BY DEF Audit!Idle
  <2> QED BY <1>1, <1>3, <2>1, <2>2, <2>3
<1> QED BY <1>2, <1>3

\* The flush is through with a job.
LEMMA FlushAdvances ==
  ASSUME Audit!TypeOK, batch["flush"].writing # "nothing", Audit!JobOver("flush")
  PROVE  /\ batch'["drain"] = batch["drain"] /\ draining' = draining /\ immediate' = immediate
         /\ batch' \in [Audit!Consumers -> [jobs : Seq(Audit!JobNumbers), writing : {"nothing", "call", "cost"}]]
         /\ \/ /\ Tail(batch["flush"].jobs) # << >>
               /\ batch'["flush"] = [jobs |-> Tail(batch["flush"].jobs), writing |-> "call"]
               /\ queue' = queue /\ closing' = closing
            \/ /\ Tail(batch["flush"].jobs) = << >>
               /\ queue = << >> /\ batch'["flush"] = Audit!Idle /\ queue' = queue
               /\ closing' = "flushed"
            \/ /\ Tail(batch["flush"].jobs) = << >>
               /\ queue # << >> /\ batch'["flush"] = Audit!NextBatch /\ queue' = Audit!Unbatched
               /\ closing' = closing
<1>1. /\ "drain" \in Audit!Consumers /\ "flush" \in Audit!Consumers /\ "flush" # "drain"
      /\ Tail(batch["flush"].jobs) \in Seq(Audit!JobNumbers)
      /\ (Len(batch["flush"].jobs) > 1 <=> Tail(batch["flush"].jobs) # << >>)
      /\ batch \in [Audit!Consumers -> [jobs : Seq(Audit!JobNumbers), writing : {"nothing", "call", "cost"}]]
  BY InBatch DEF Audit!Consumers, Audit!TypeOK
<1>2. CASE Len(batch["flush"].jobs) > 1
  <2>1. /\ batch' = [batch EXCEPT !["flush"] = [jobs |-> Tail(batch["flush"].jobs), writing |-> "call"]]
        /\ UNCHANGED <<queue, draining, immediate, closing>>
    BY <1>2 DEF Audit!JobOver
  <2> QED BY <1>1, <1>2, <2>1
<1>3. CASE ~(Len(batch["flush"].jobs) > 1) /\ queue = << >>
  <2>1. /\ batch' = [batch EXCEPT !["flush"] = Audit!Idle] /\ closing' = "flushed"
        /\ UNCHANGED <<queue, draining, immediate>>
    BY <1>1, <1>3 DEF Audit!JobOver, Audit!FlushOver
  <2>2. Audit!Idle \in [jobs : Seq(Audit!JobNumbers), writing : {"nothing", "call", "cost"}]
    BY EmptySeq DEF Audit!Idle
  <2> QED BY <1>1, <1>3, <2>1, <2>2
<1>4. CASE ~(Len(batch["flush"].jobs) > 1) /\ queue # << >>
  <2>1. /\ batch' = [batch EXCEPT !["flush"] = Audit!NextBatch] /\ queue' = Audit!Unbatched
        /\ UNCHANGED <<draining, immediate, closing>>
    BY <1>1, <1>4 DEF Audit!JobOver, Audit!FlushOver
  <2>2. Audit!NextBatch \in [jobs : Seq(Audit!JobNumbers), writing : {"nothing", "call", "cost"}]
    BY <1>4, BatchTaken DEF Audit!NextBatch
  <2> QED BY <1>1, <1>4, <2>1, <2>2
<1> QED BY <1>2, <1>3, <1>4

LEMMA InitAuditInv == Audit!Init => AuditInv
<1> SUFFICES ASSUME Audit!Init PROVE AuditInv
  OBVIOUS
<1>1. Audit!TypeOK
  <2>1. << >> \in Seq(Audit!JobNumbers) /\ Len(<< >>) = 0
    BY EmptySeq
  <2>2. 0 <= MaxQueue /\ 0 \in 0..LastJob
    BY StoresAssumption
  <2> QED BY <2>1, <2>2 DEF Audit!Init, Audit!TypeOK, Audit!Idle, Audit!Consumers
<1>2. /\ Draining.jobs = << >> /\ batch["flush"].jobs = << >> /\ Draining.writing = "nothing"
      /\ Elements(<< >>) = {}
  BY DEF Audit!Init, Audit!Idle, Audit!Consumers, Draining, Elements
<1>3. OneDrain
  BY <1>2, StoresAssumption DEF Audit!Init, OneDrain
<1>4. InOrder
  BY <1>2 DEF Audit!Init, InOrder, Ascending, Below, Unwritten
<1>5. NoneLost
  <2>1. \A c \in Audit!Consumers : batch[c].writing = "nothing"
    BY DEF Audit!Init, Audit!Idle
  <2> QED BY <1>2, <2>1 DEF Audit!Init, NoneLost
<1> QED BY <1>1, <1>3, <1>4, <1>5 DEF AuditInv

LEMMA EnqueueKeeps == AuditInv /\ Audit!Enqueue => AuditInv'
<1> SUFFICES ASSUME AuditInv, Audit!Enqueue PROVE AuditInv'
  OBVIOUS
<1> DEFINE job == handed + 1
<1>0. /\ Audit!TypeOK /\ OneDrain /\ InOrder /\ NoneLost /\ queue \in Seq(Audit!JobNumbers)
      /\ Len(queue) \in Nat
      /\ job \in Audit!JobNumbers /\ job > handed /\ handed \in Nat /\ handed' = job
      /\ 1..handed \subseteq 1..job /\ job \in 1..job
  BY StoresAssumption DEF AuditInv, Audit!TypeOK, Audit!Enqueue, Audit!JobNumbers
<1>1. /\ batch' = batch /\ calls' = calls /\ costs' = costs /\ failed' = failed
      /\ closing' = closing
  BY DEF Audit!Enqueue
<1>2. CASE Len(queue) >= MaxQueue
  <2>1. UNCHANGED <<queue, accepted, late, draining, immediate>>
    BY <1>2 DEF Audit!Enqueue
  <2>2. Audit!TypeOK'
    BY <1>0, <1>1, <2>1 DEF Audit!TypeOK, Audit!Enqueue, Audit!JobNumbers
  <2>3. InOrder'
    BY <1>0, <1>1, <2>1 DEF InOrder, Unwritten, Draining
  <2> QED BY <1>0, <1>1, <2>1, <2>2, <2>3 DEF AuditInv, OneDrain, NoneLost, Draining
<1>3. CASE ~(Len(queue) >= MaxQueue)
  <2>1. /\ queue' = Append(queue, job) /\ accepted' = accepted \cup {job}
        /\ late' = (IF closing = "flushed" THEN late \cup {job} ELSE late)
        /\ Audit!ScheduleDrain
    BY <1>3 DEF Audit!Enqueue
  <2>2. /\ queue' \in Seq(Audit!JobNumbers) /\ Len(queue') = Len(queue) + 1
        /\ Elements(queue') = Elements(queue) \cup {job}
    <3>1. Append(queue, job) \in Seq(Audit!JobNumbers) /\ Len(Append(queue, job)) = Len(queue) + 1
      BY <1>0, AppendProperties
    <3>2. Elements(Append(queue, job)) = Elements(queue) \cup {job}
      BY <1>0, AppendElements
    <3> QED BY <2>1, <3>1, <3>2
  <2>3. Audit!TypeOK'
    <3>1. Len(queue') <= MaxQueue
      BY <1>0, <1>3, <2>2, StoresAssumption
    <3>2. draining' \in BOOLEAN /\ immediate' \in BOOLEAN
      BY <1>0, <2>1 DEF Audit!ScheduleDrain, Audit!TypeOK
    <3>3. accepted' \subseteq Audit!JobNumbers /\ late' \subseteq accepted'
      BY <1>0, <2>1 DEF Audit!TypeOK
    <3>4. handed' \in 0..LastJob
      BY <1>0 DEF Audit!JobNumbers
    <3> QED BY <1>0, <1>1, <2>2, <3>1, <3>2, <3>3, <3>4 DEF Audit!TypeOK
  <2>4. OneDrain'
    BY <1>0, <1>1, <2>1 DEF OneDrain, Audit!ScheduleDrain, Draining
  <2>5. InOrder'
    <3> SUFFICES ASSUME closing = "no"
                 PROVE  /\ Ascending(calls) /\ Ascending(Draining.jobs) /\ Ascending(queue')
                        /\ Below(Elements(calls), Unwritten)
                        /\ Below(Elements(calls), Elements(queue'))
                        /\ Below(Elements(Draining.jobs), Elements(queue'))
                        /\ Elements(calls) \cup Elements(Draining.jobs) \cup Elements(queue')
                             \subseteq 1..job
      BY <1>0, <1>1 DEF InOrder, Unwritten, Draining
    <3>1. /\ Ascending(calls) /\ Ascending(Draining.jobs) /\ Ascending(queue)
          /\ Below(Elements(calls), Unwritten) /\ Below(Elements(calls), Elements(queue))
          /\ Below(Elements(Draining.jobs), Elements(queue))
          /\ Elements(calls) \cup Elements(Draining.jobs) \cup Elements(queue) \subseteq 1..handed
      BY <1>0 DEF InOrder
    <3>2. \A x \in 1..handed : x < job
      BY <1>0
    <3>3. /\ Below(Elements(calls), Elements(queue'))
          /\ Below(Elements(Draining.jobs), Elements(queue'))
      BY <2>2, <3>1, <3>2 DEF Below
    <3>4. Ascending(queue')
      <4>1. Below(Elements(queue), {job})
        BY <3>1, <3>2 DEF Below
      <4>2. Ascending(Append(queue, job))
        BY <1>0, <3>1, <4>1, AppendAscending
      <4> QED BY <2>1, <4>2
    <3>5. Elements(calls) \cup Elements(Draining.jobs) \cup Elements(queue') \subseteq 1..job
      BY <1>0, <2>2, <3>1
    <3> QED BY <3>1, <3>3, <3>4, <3>5
  <2>6. NoneLost'
    BY <1>0, <1>1, <2>1, <2>2 DEF NoneLost, Draining, Audit!Enqueue
  <2> QED BY <2>3, <2>4, <2>5, <2>6 DEF AuditInv
<1> QED BY <1>2, <1>3

LEMMA DrainKeeps == AuditInv /\ Audit!Drain => AuditInv'
<1> SUFFICES ASSUME AuditInv, Audit!Drain PROVE AuditInv'
  OBVIOUS
<1>0. /\ Audit!TypeOK /\ OneDrain /\ InOrder /\ NoneLost /\ immediate /\ draining
      /\ Draining.jobs = << >>
      /\ "drain" \in Audit!Consumers /\ "flush" \in Audit!Consumers /\ "flush" # "drain"
      /\ batch \in [Audit!Consumers -> [jobs : Seq(Audit!JobNumbers), writing : {"nothing", "call", "cost"}]]
  BY DEF AuditInv, OneDrain, Audit!Drain, Audit!Consumers, Audit!TypeOK
<1>1. UNCHANGED <<handed, calls, costs, accepted, failed, closing, late>> /\ immediate' = FALSE
  BY DEF Audit!Drain
<1>2. CASE queue = << >>
  <2>1. draining' = FALSE /\ queue' = queue /\ batch' = batch
    BY <1>2 DEF Audit!Drain
  <2> QED BY <1>0, <1>1, <2>1
       DEF AuditInv, Audit!TypeOK, OneDrain, InOrder, NoneLost, Draining, Unwritten
<1>3. CASE queue # << >>
  <2>1. /\ batch' = [batch EXCEPT !["drain"] = Audit!NextBatch] /\ queue' = Audit!Unbatched
        /\ draining' = draining
    BY <1>3 DEF Audit!Drain
  <2>2. /\ Audit!NextBatch.jobs \in Seq(Audit!JobNumbers) /\ Audit!NextBatch.jobs # << >>
        /\ Audit!NextBatch.writing = "call"
        /\ Len(Audit!NextBatch.jobs) <= BatchSize
        /\ Audit!Unbatched \in Seq(Audit!JobNumbers) /\ Len(Audit!Unbatched) <= Len(queue)
        /\ Elements(queue) = Elements(Audit!NextBatch.jobs) \cup Elements(Audit!Unbatched)
        /\ Ascending(queue) =>
             /\ Ascending(Audit!NextBatch.jobs) /\ Ascending(Audit!Unbatched)
             /\ Below(Elements(Audit!NextBatch.jobs), Elements(Audit!Unbatched))
    BY <1>0, <1>3, BatchTaken
  <2>3. batch'["drain"] = Audit!NextBatch /\ batch'["flush"] = batch["flush"]
    BY <1>0, <2>1
  <2>4. Audit!TypeOK'
    <3>1. Audit!NextBatch \in [jobs : Seq(Audit!JobNumbers), writing : {"nothing", "call", "cost"}]
      BY <2>2 DEF Audit!NextBatch
    <3>2. batch' \in [Audit!Consumers -> [jobs : Seq(Audit!JobNumbers), writing : {"nothing", "call", "cost"}]]
      BY <1>0, <2>1, <3>1
    <3>3. Len(queue') <= MaxQueue
      <4>1. Len(queue) \in Nat /\ Len(Audit!Unbatched) \in Nat
        BY <1>0, <2>2, LenProperties DEF Audit!TypeOK
      <4> QED BY <1>0, <2>1, <2>2, <4>1, StoresAssumption DEF Audit!TypeOK
    <3>4. \A c \in Audit!Consumers : batch'[c].writing = "nothing" <=> batch'[c].jobs = << >>
      BY <1>0, <2>2, <2>3 DEF Audit!TypeOK, Audit!Consumers
    <3> QED BY <1>0, <1>1, <2>1, <2>2, <3>2, <3>3, <3>4 DEF Audit!TypeOK
  <2>5. OneDrain'
    BY <1>0, <1>1, <2>1, <2>2, <2>3 DEF OneDrain, Draining
  <2>6. Unwritten' = Elements(Audit!NextBatch.jobs)
    BY <2>2, <2>3 DEF Unwritten, Draining
  <2>7. InOrder'
    BY <1>0, <1>1, <2>1, <2>2, <2>3, <2>6 DEF InOrder, Below, Draining
  <2>8. NoneLost'
    <3>1. Elements(Draining.jobs) = {}
      BY <1>0 DEF Elements
    <3> QED BY <1>0, <1>1, <2>1, <2>2, <2>3, <3>1 DEF NoneLost, Draining
  <2> QED BY <2>4, <2>5, <2>7, <2>8 DEF AuditInv
<1> QED BY <1>2, <1>3

LEMMA ShutdownKeeps == AuditInv /\ Audit!Shutdown => AuditInv'
<1> SUFFICES ASSUME AuditInv, Audit!Shutdown PROVE AuditInv'
  OBVIOUS
<1>0. /\ Audit!TypeOK /\ OneDrain /\ InOrder /\ NoneLost /\ closing = "no"
      /\ batch["flush"].jobs = << >>
      /\ "drain" \in Audit!Consumers /\ "flush" \in Audit!Consumers /\ "flush" # "drain"
      /\ batch \in [Audit!Consumers -> [jobs : Seq(Audit!JobNumbers), writing : {"nothing", "call", "cost"}]]
  BY DEF AuditInv, NoneLost, Audit!Shutdown, Audit!Consumers, Audit!TypeOK
<1>1. UNCHANGED <<handed, draining, immediate, calls, costs, accepted, failed, late>>
  BY DEF Audit!Shutdown
<1>2. CASE queue = << >>
  <2>1. closing' = "flushed" /\ queue' = queue /\ batch' = batch
    BY <1>2 DEF Audit!Shutdown
  <2>2. Elements(queue) = {}
    BY <1>2 DEF Elements
  <2> QED BY <1>0, <1>1, <2>1, <2>2
       DEF AuditInv, Audit!TypeOK, OneDrain, InOrder, NoneLost, Draining
<1>3. CASE queue # << >>
  <2>1. /\ batch' = [batch EXCEPT !["flush"] = Audit!NextBatch] /\ queue' = Audit!Unbatched
        /\ closing' = "flushing"
    BY <1>3 DEF Audit!Shutdown
  <2>2. /\ Audit!NextBatch.jobs \in Seq(Audit!JobNumbers) /\ Audit!NextBatch.jobs # << >>
        /\ Audit!NextBatch.writing = "call"
        /\ Audit!Unbatched \in Seq(Audit!JobNumbers) /\ Len(Audit!Unbatched) <= Len(queue)
        /\ Elements(queue) = Elements(Audit!NextBatch.jobs) \cup Elements(Audit!Unbatched)
    BY <1>0, <1>3, BatchTaken
  <2>3. batch'["flush"] = Audit!NextBatch /\ batch'["drain"] = batch["drain"]
    BY <1>0, <2>1
  <2>4. Audit!TypeOK'
    <3>1. Audit!NextBatch \in [jobs : Seq(Audit!JobNumbers), writing : {"nothing", "call", "cost"}]
      BY <2>2 DEF Audit!NextBatch
    <3>2. batch' \in [Audit!Consumers -> [jobs : Seq(Audit!JobNumbers), writing : {"nothing", "call", "cost"}]]
      BY <1>0, <2>1, <3>1
    <3>3. Len(queue') <= MaxQueue
      <4>1. Len(queue) \in Nat /\ Len(Audit!Unbatched) \in Nat
        BY <1>0, <2>2, LenProperties DEF Audit!TypeOK
      <4> QED BY <1>0, <2>1, <2>2, <4>1, StoresAssumption DEF Audit!TypeOK
    <3>4. \A c \in Audit!Consumers : batch'[c].writing = "nothing" <=> batch'[c].jobs = << >>
      BY <1>0, <2>2, <2>3 DEF Audit!TypeOK, Audit!Consumers
    <3> QED BY <1>0, <1>1, <2>1, <2>2, <3>2, <3>3, <3>4 DEF Audit!TypeOK
  <2>5. OneDrain'
    BY <1>0, <1>1, <2>1, <2>3 DEF OneDrain, Draining
  <2>6. InOrder'
    BY <2>1 DEF InOrder
  <2>7. NoneLost'
    <3>1. \A c \in Audit!Consumers : batch'[c].writing = "cost" => Head(batch'[c].jobs) \in Elements(calls)
      BY <1>0, <2>2, <2>3 DEF NoneLost, Audit!Consumers
    <3>2. Elements(batch["flush"].jobs) = {}
      BY <1>0 DEF Elements
    <3>3. accepted \subseteq Elements(calls) \cup failed \cup late \cup Elements(Draining.jobs)
                          \cup Elements(queue') \cup Elements(Audit!NextBatch.jobs)
      BY <1>0, <2>1, <2>2, <3>2 DEF NoneLost
    <3> QED BY <1>1, <2>1, <2>3, <3>1, <3>3 DEF NoneLost, Draining
  <2> QED BY <2>4, <2>5, <2>6, <2>7 DEF AuditInv
<1> QED BY <1>2, <1>3

\* The drain writes a call whose cost comes next.
LEMMA CostFollows ==
  ASSUME AuditInv, NEW c \in Audit!Consumers, batch[c].writing = "call",
         calls' = Append(calls, Head(batch[c].jobs)),
         batch' = [batch EXCEPT ![c] = [jobs |-> batch[c].jobs, writing |-> "cost"]],
         UNCHANGED <<queue, draining, immediate, closing, handed, costs, accepted, failed, late>>
  PROVE  AuditInv'
<1> DEFINE s == batch[c].jobs
           job == Head(s)
<1>0. /\ Audit!TypeOK /\ OneDrain /\ InOrder /\ NoneLost /\ calls \in Seq(Audit!JobNumbers)
      /\ batch \in [Audit!Consumers -> [jobs : Seq(Audit!JobNumbers), writing : {"nothing", "call", "cost"}]]
      /\ "drain" \in Audit!Consumers /\ "flush" \in Audit!Consumers /\ "flush" # "drain"
  BY DEF AuditInv, Audit!TypeOK, Audit!Consumers
<1>1. /\ s \in Seq(Audit!JobNumbers) /\ s # << >> /\ job \in Audit!JobNumbers /\ Tail(s) \in Seq(Audit!JobNumbers)
      /\ Elements(s) = {job} \cup Elements(Tail(s))
      /\ Ascending(s) => Ascending(Tail(s)) /\ Below({job}, Elements(Tail(s)))
  BY <1>0, InBatch
<1>2. /\ \A d \in Audit!Consumers : batch'[d].jobs = batch[d].jobs
      /\ \A d \in Audit!Consumers \ {c} : batch'[d] = batch[d]
      /\ batch'[c].writing = "cost"
      /\ batch' \in [Audit!Consumers -> [jobs : Seq(Audit!JobNumbers), writing : {"nothing", "call", "cost"}]]
  BY <1>0, <1>1
<1>3. /\ calls' \in Seq(Audit!JobNumbers) /\ Elements(calls') = Elements(calls) \cup {job}
  <2>1. Append(calls, job) \in Seq(Audit!JobNumbers)
    BY <1>0, <1>1, AppendProperties
  <2>2. Elements(Append(calls, job)) = Elements(calls) \cup {job}
    BY <1>0, <1>1, AppendElements
  <2> QED BY <2>1, <2>2
<1>4. Audit!TypeOK'
  <2>1. \A d \in Audit!Consumers : batch'[d].writing = "nothing" <=> batch'[d].jobs = << >>
    BY <1>0, <1>1, <1>2 DEF Audit!TypeOK
  <2> QED BY <1>0, <1>2, <1>3, <2>1 DEF Audit!TypeOK
<1>5. OneDrain'
  BY <1>0, <1>2 DEF OneDrain, Draining
<1>6. InOrder'
  <2> SUFFICES ASSUME closing = "no" PROVE InOrder'
    BY DEF InOrder
  <2>1. c = "drain"
    BY <1>0, <1>1 DEF NoneLost, Audit!Consumers
  <2>2. /\ Ascending(calls) /\ Ascending(s) /\ Ascending(queue)
        /\ Below(Elements(calls), Elements(s)) /\ Below(Elements(calls), Elements(queue))
        /\ Below(Elements(s), Elements(queue))
        /\ Elements(calls) \cup Elements(s) \cup Elements(queue) \subseteq 1..handed
    BY <1>0, <2>1 DEF InOrder, Unwritten, Draining
  <2>3. Ascending(calls')
    <3>1. Below(Elements(calls), {job})
      BY <1>1, <2>2 DEF Below
    <3>2. Ascending(Append(calls, job))
      BY <1>0, <1>1, <2>2, <3>1, AppendAscending
    <3> QED BY <3>2
  <2>4. Unwritten' = Elements(Tail(s))
    BY <1>0, <1>2, <2>1 DEF Unwritten, Draining
  <2>5. Below(Elements(calls'), Elements(Tail(s))) /\ Below(Elements(calls'), Elements(queue))
    BY <1>1, <1>3, <2>2 DEF Below
  <2>6. Draining'.jobs = s
    BY <1>2, <2>1 DEF Draining
  <2>7. Elements(calls') \cup Elements(s) \cup Elements(queue) \subseteq 1..handed
    BY <1>1, <1>3, <2>2
  <2> QED BY <2>2, <2>3, <2>4, <2>5, <2>6, <2>7 DEF InOrder
<1>7. NoneLost'
  BY <1>0, <1>2, <1>3 DEF NoneLost, Draining
<1> QED BY <1>4, <1>5, <1>6, <1>7 DEF AuditInv

\* The job at the head of a batch is written, or has failed.
Settled(c) ==
  \/ batch[c].writing = "call" /\ calls' = Append(calls, Head(batch[c].jobs)) /\ failed' = failed
  \/ batch[c].writing = "cost" /\ calls' = calls /\ failed' = failed
  \/ calls' = calls /\ failed' = failed \cup {Head(batch[c].jobs)}

LEMMA SettledEffect ==
  ASSUME AuditInv, NEW c \in Audit!Consumers, batch[c].writing # "nothing", Settled(c)
  PROVE  /\ calls' \in Seq(Audit!JobNumbers) /\ failed' \subseteq Audit!JobNumbers /\ failed \subseteq failed'
         /\ Elements(calls) \subseteq Elements(calls')
         /\ Elements(calls') \subseteq Elements(calls) \cup {Head(batch[c].jobs)}
         /\ Head(batch[c].jobs) \in Elements(calls') \cup failed'
         /\ calls' = calls \/ (batch[c].writing = "call" /\ calls' = Append(calls, Head(batch[c].jobs)))
<1>1. Audit!TypeOK /\ NoneLost /\ calls \in Seq(Audit!JobNumbers) /\ failed \subseteq Audit!JobNumbers
  BY DEF AuditInv, Audit!TypeOK
<1>2. Head(batch[c].jobs) \in Audit!JobNumbers
  BY <1>1, InBatch
<1>3. CASE batch[c].writing = "call" /\ calls' = Append(calls, Head(batch[c].jobs)) /\ failed' = failed
  <2>1. Append(calls, Head(batch[c].jobs)) \in Seq(Audit!JobNumbers)
    BY <1>1, <1>2, AppendProperties
  <2>2. Elements(Append(calls, Head(batch[c].jobs))) = Elements(calls) \cup {Head(batch[c].jobs)}
    BY <1>1, <1>2, AppendElements
  <2> QED BY <1>1, <1>3, <2>1, <2>2
<1>4. CASE batch[c].writing = "cost" /\ calls' = calls /\ failed' = failed
  BY <1>1, <1>4 DEF NoneLost
<1>5. CASE calls' = calls /\ failed' = failed \cup {Head(batch[c].jobs)}
  BY <1>1, <1>2, <1>5
<1> QED BY <1>3, <1>4, <1>5 DEF Settled

LEMMA DrainJobKeeps ==
  ASSUME AuditInv, Draining.writing # "nothing", Audit!JobOver("drain"), Settled("drain"),
         UNCHANGED <<handed, accepted, late>>, costs' \subseteq Audit!JobNumbers
  PROVE  AuditInv'
<1> DEFINE s == Draining.jobs
           job == Head(s)
<1>0. /\ Audit!TypeOK /\ OneDrain /\ InOrder /\ NoneLost /\ calls \in Seq(Audit!JobNumbers)
      /\ "drain" \in Audit!Consumers /\ "flush" \in Audit!Consumers /\ "flush" # "drain"
      /\ batch["drain"] = Draining
  BY DEF AuditInv, Audit!TypeOK, Audit!Consumers, Draining
<1>1. /\ s \in Seq(Audit!JobNumbers) /\ s # << >> /\ job \in Audit!JobNumbers /\ Tail(s) \in Seq(Audit!JobNumbers)
      /\ Elements(s) = {job} \cup Elements(Tail(s)) /\ Len(Tail(s)) < Len(s)
      /\ Ascending(s) => Ascending(Tail(s)) /\ Below({job}, Elements(Tail(s)))
  BY <1>0, InBatch
<1>2. /\ batch'["drain"].jobs = Tail(s)
      /\ batch'["drain"].writing = (IF Tail(s) = << >> THEN "nothing" ELSE "call")
      /\ batch'["flush"] = batch["flush"]
      /\ batch' \in [Audit!Consumers -> [jobs : Seq(Audit!JobNumbers), writing : {"nothing", "call", "cost"}]]
      /\ queue' = queue /\ closing' = closing
      /\ \/ Tail(s) # << >> /\ draining' = draining /\ immediate' = immediate
         \/ /\ Tail(s) = << >>
            /\ draining' = (queue # << >>) /\ immediate' = (queue # << >>)
  BY <1>0, DrainAdvances
<1>3. /\ calls' \in Seq(Audit!JobNumbers) /\ failed' \subseteq Audit!JobNumbers /\ failed \subseteq failed'
      /\ Elements(calls) \subseteq Elements(calls')
      /\ Elements(calls') \subseteq Elements(calls) \cup {job}
      /\ job \in Elements(calls') \cup failed'
      /\ calls' = calls \/ (Draining.writing = "call" /\ calls' = Append(calls, job))
  BY <1>0, SettledEffect
<1>4. Audit!TypeOK'
  <2>1. \A d \in Audit!Consumers : batch'[d].writing = "nothing" <=> batch'[d].jobs = << >>
    BY <1>0, <1>2 DEF Audit!TypeOK, Audit!Consumers
  <2>2. draining' \in BOOLEAN /\ immediate' \in BOOLEAN
    BY <1>0, <1>2 DEF Audit!TypeOK
  <2> QED BY <1>0, <1>2, <1>3, <2>1, <2>2 DEF Audit!TypeOK
<1>5. OneDrain'
  <2>1. Len(Tail(s)) \in Nat /\ Len(s) \in Nat
    BY <1>1, LenProperties
  <2>2. Len(Tail(s)) <= BatchSize
    BY <1>0, <1>1, <2>1, StoresAssumption DEF OneDrain
  <2>3. draining /\ (immediate => Draining.jobs = << >>) /\ ~immediate
    BY <1>0, <1>1 DEF OneDrain
  <2>4. Draining'.jobs = Tail(s)
    BY <1>2 DEF Draining
  <2>5. /\ immediate' => draining' /\ Tail(s) = << >>
        /\ Tail(s) # << >> => draining'
    <3>1. CASE Tail(s) # << >>
      <4>1. draining' = draining /\ immediate' = immediate
        BY <1>2, <3>1
      <4> QED BY <2>3, <3>1, <4>1, Zenon
    <3>2. CASE Tail(s) = << >>
      <4>1. draining' = (queue # << >>) /\ immediate' = (queue # << >>)
        BY <1>2, <3>2
      <4> QED BY <3>2, <4>1, Zenon
    <3> QED BY <3>1, <3>2
  <2> QED BY <2>2, <2>4, <2>5 DEF OneDrain
<1>6. InOrder'
  <2> SUFFICES ASSUME closing = "no" PROVE InOrder'
    BY <1>2 DEF InOrder
  <2>2. /\ Ascending(calls) /\ Ascending(s) /\ Ascending(queue)
        /\ Below(Elements(calls), Unwritten) /\ Below(Elements(calls), Elements(queue))
        /\ Below(Elements(s), Elements(queue))
        /\ Elements(calls) \cup Elements(s) \cup Elements(queue) \subseteq 1..handed
    BY <1>0 DEF InOrder
  <2>3. /\ Elements(Tail(s)) \subseteq Unwritten
        /\ (Draining.writing = "call" => Unwritten = Elements(s))
    BY <1>1 DEF Unwritten
  <2>4. Ascending(calls')
    <3>1. CASE calls' = calls
      BY <2>2, <3>1
    <3>2. CASE Draining.writing = "call" /\ calls' = Append(calls, job)
      <4>1. Below(Elements(calls), {job})
        BY <1>1, <2>2, <2>3, <3>2 DEF Below
      <4>2. Ascending(Append(calls, job))
        BY <1>0, <1>1, <2>2, <4>1, AppendAscending
      <4> QED BY <3>2, <4>2
    <3> QED BY <1>3, <3>1, <3>2
  <2>5. Unwritten' = Elements(Tail(s)) /\ Draining'.jobs = Tail(s)
    BY <1>2 DEF Unwritten, Draining
  <2>6. /\ Below(Elements(calls'), Elements(Tail(s))) /\ Below(Elements(calls'), Elements(queue))
        /\ Below(Elements(Tail(s)), Elements(queue))
    BY <1>1, <1>3, <2>2, <2>3 DEF Below
  <2>7. Elements(calls') \cup Elements(Tail(s)) \cup Elements(queue) \subseteq 1..handed
    BY <1>1, <1>3, <2>2
  <2> QED BY <1>1, <1>2, <2>2, <2>4, <2>5, <2>6, <2>7 DEF InOrder
<1>7. NoneLost'
  <2>1. accepted \subseteq Elements(calls') \cup failed' \cup late \cup Elements(Tail(s))
                        \cup Elements(queue) \cup Elements(batch["flush"].jobs)
    BY <1>0, <1>1, <1>3 DEF NoneLost
  <2>2. \A d \in Audit!Consumers : batch'[d].writing = "cost" => Head(batch'[d].jobs) \in Elements(calls')
    BY <1>0, <1>2, <1>3 DEF NoneLost, Audit!Consumers
  <2> QED BY <1>0, <1>2, <2>1, <2>2 DEF NoneLost, Draining
<1> QED BY <1>4, <1>5, <1>6, <1>7 DEF AuditInv

LEMMA FlushJobKeeps ==
  ASSUME AuditInv, batch["flush"].writing # "nothing", Audit!JobOver("flush"), Settled("flush"),
         closing # "exited", UNCHANGED <<handed, accepted, late>>, costs' \subseteq Audit!JobNumbers
  PROVE  AuditInv'
<1> DEFINE s == batch["flush"].jobs
           job == Head(s)
<1>0. /\ Audit!TypeOK /\ OneDrain /\ InOrder /\ NoneLost
      /\ "drain" \in Audit!Consumers /\ "flush" \in Audit!Consumers /\ "flush" # "drain"
  BY DEF AuditInv, Audit!Consumers
<1>1. /\ s \in Seq(Audit!JobNumbers) /\ s # << >> /\ job \in Audit!JobNumbers /\ Tail(s) \in Seq(Audit!JobNumbers)
      /\ Elements(s) = {job} \cup Elements(Tail(s))
  BY <1>0, InBatch
<1>2. closing = "flushing"
  BY <1>0, <1>1 DEF NoneLost, Audit!TypeOK
<1>3. /\ calls' \in Seq(Audit!JobNumbers) /\ failed' \subseteq Audit!JobNumbers /\ failed \subseteq failed'
      /\ Elements(calls) \subseteq Elements(calls')
      /\ job \in Elements(calls') \cup failed'
  BY <1>0, SettledEffect
<1>4. /\ batch'["drain"] = batch["drain"] /\ draining' = draining /\ immediate' = immediate
      /\ batch' \in [Audit!Consumers -> [jobs : Seq(Audit!JobNumbers), writing : {"nothing", "call", "cost"}]]
      /\ \/ /\ Tail(s) # << >>
            /\ batch'["flush"] = [jobs |-> Tail(s), writing |-> "call"]
            /\ queue' = queue /\ closing' = closing
         \/ /\ Tail(s) = << >>
            /\ queue = << >> /\ batch'["flush"] = Audit!Idle /\ queue' = queue
            /\ closing' = "flushed"
         \/ /\ Tail(s) = << >>
            /\ queue # << >> /\ batch'["flush"] = Audit!NextBatch /\ queue' = Audit!Unbatched
            /\ closing' = closing
  BY <1>0, FlushAdvances
<1>5. /\ batch'["flush"].writing = "nothing" <=> batch'["flush"].jobs = << >>
      /\ batch'["flush"].writing # "cost"
      /\ queue' \in Seq(Audit!JobNumbers) /\ Len(queue') <= MaxQueue
      /\ closing' \in {"flushing", "flushed"}
      /\ Elements(Tail(s)) \cup Elements(queue) = Elements(batch'["flush"].jobs) \cup Elements(queue')
      /\ closing' = "flushed" => batch'["flush"].jobs = << >> /\ Elements(queue') = {}
  <2>1. CASE Tail(s) # << >>
    <3>0. /\ batch'["flush"] = [jobs |-> Tail(s), writing |-> "call"]
          /\ queue' = queue /\ closing' = closing
      BY <1>4, <2>1
    <3>1. batch'["flush"].jobs = Tail(s) /\ batch'["flush"].writing = "call"
          /\ queue' = queue /\ closing' = "flushing"
      BY <1>2, <3>0
    <3>2. queue \in Seq(Audit!JobNumbers) /\ Len(queue) <= MaxQueue
      BY <1>0 DEF Audit!TypeOK
    <3> QED BY <2>1, <3>1, <3>2
  <2>2. CASE Tail(s) = << >> /\ queue = << >>
    BY <1>0, <1>2, <1>4, <2>2 DEF Audit!TypeOK, Audit!Idle, Elements
  <2>3. CASE Tail(s) = << >> /\ queue # << >>
    <3>1. /\ Audit!NextBatch.jobs # << >> /\ Audit!NextBatch.writing = "call"
          /\ Audit!Unbatched \in Seq(Audit!JobNumbers) /\ Len(Audit!Unbatched) <= Len(queue)
          /\ Elements(queue) = Elements(Audit!NextBatch.jobs) \cup Elements(Audit!Unbatched)
      BY <1>0, <2>3, BatchTaken
    <3>2. Len(queue) \in Nat /\ Len(Audit!Unbatched) \in Nat /\ Len(queue) <= MaxQueue
      BY <1>0, <3>1, LenProperties DEF Audit!TypeOK
    <3>3. Len(Audit!Unbatched) <= MaxQueue
      BY <3>1, <3>2, StoresAssumption
    <3>4. Elements(Tail(s)) = {}
      BY <2>3 DEF Elements
    <3> QED BY <1>2, <1>4, <2>3, <3>1, <3>3, <3>4
  <2> QED BY <2>1, <2>2, <2>3
<1>6. Audit!TypeOK'
  <2>1. \A d \in Audit!Consumers : batch'[d].writing = "nothing" <=> batch'[d].jobs = << >>
    BY <1>0, <1>4, <1>5 DEF Audit!TypeOK, Audit!Consumers
  <2> QED BY <1>0, <1>3, <1>4, <1>5, <2>1 DEF Audit!TypeOK
<1>7. OneDrain'
  BY <1>0, <1>4 DEF OneDrain, Draining
<1>8. InOrder'
  BY <1>5 DEF InOrder
<1>9. NoneLost'
  <2>1. accepted \subseteq Elements(calls') \cup failed' \cup late \cup Elements(Draining.jobs)
                        \cup Elements(queue') \cup Elements(batch'["flush"].jobs)
    BY <1>0, <1>1, <1>3, <1>5 DEF NoneLost
  <2>2. \A d \in Audit!Consumers : batch'[d].writing = "cost" => Head(batch'[d].jobs) \in Elements(calls')
    BY <1>0, <1>3, <1>4, <1>5 DEF NoneLost, Audit!Consumers
  <2> QED BY <1>4, <1>5, <2>1, <2>2 DEF NoneLost, Draining
<1> QED BY <1>6, <1>7, <1>8, <1>9 DEF AuditInv

LEMMA WriteJobKeeps ==
  ASSUME AuditInv, NEW c \in Audit!Consumers, Audit!WriteJob(c)
  PROVE  AuditInv'
<1>0. /\ Audit!TypeOK /\ batch[c].writing # "nothing" /\ closing # "exited"
      /\ costs \subseteq Audit!JobNumbers
  BY DEF AuditInv, Audit!TypeOK, Audit!WriteJob, Audit!AddCallRecord,
         Audit!AddCostRecord, Audit!WriteFails
<1>1. Head(batch[c].jobs) \in Audit!JobNumbers
  BY <1>0, InBatch
<1>2. ASSUME Audit!JobOver(c), Settled(c), UNCHANGED <<handed, accepted, late>>, costs' \subseteq Audit!JobNumbers
      PROVE  AuditInv'
  <2>1. CASE c = "drain"
    BY <1>0, <1>2, <2>1, DrainJobKeeps DEF Draining
  <2>2. CASE c = "flush"
    BY <1>0, <1>2, <2>2, FlushJobKeeps
  <2> QED BY <2>1, <2>2 DEF Audit!Consumers
<1>3. CASE Audit!AddCallRecord(c) /\ Head(batch[c].jobs) \in Costed
  BY <1>3, CostFollows DEF Audit!AddCallRecord
<1>4. CASE Audit!AddCallRecord(c) /\ Head(batch[c].jobs) \notin Costed
  BY <1>0, <1>2, <1>4 DEF Audit!AddCallRecord, Settled
<1>5. CASE Audit!AddCostRecord(c)
  BY <1>0, <1>1, <1>2, <1>5 DEF Audit!AddCostRecord, Settled
<1>6. CASE Audit!WriteFails(c)
  BY <1>0, <1>2, <1>6 DEF Audit!WriteFails, Settled
<1> QED BY <1>3, <1>4, <1>5, <1>6 DEF Audit!WriteJob

LEMMA NextAuditInv == AuditInv /\ [Audit!Next]_<<queue, batch, calls, auditVars>> => AuditInv'
<1> SUFFICES ASSUME AuditInv, [Audit!Next]_<<queue, batch, calls, auditVars>> PROVE AuditInv'
  OBVIOUS
<1>1. CASE Audit!Exit
  <2>1. closing = "flushed" /\ closing' = "exited"
        /\ UNCHANGED <<handed, queue, draining, immediate, batch, calls, costs, accepted, failed, late>>
    BY <1>1 DEF Audit!Exit
  <2> QED BY <2>1 DEF AuditInv, Audit!TypeOK, OneDrain, InOrder, NoneLost, Draining
<1>2. CASE UNCHANGED <<queue, batch, calls, auditVars>>
  BY <1>2
     DEF auditVars, AuditInv, Audit!TypeOK, OneDrain, InOrder, NoneLost, Draining,
         Unwritten
<1> QED BY <1>1, <1>2, EnqueueKeeps, DrainKeeps, ShutdownKeeps, WriteJobKeeps DEF Audit!Next

LEMMA AuditProperties == AuditInv => Audit!WrittenInOrder /\ Audit!ExitLosesOneBatch
<1> SUFFICES ASSUME AuditInv PROVE Audit!WrittenInOrder /\ Audit!ExitLosesOneBatch
  OBVIOUS
<1>1. Audit!WrittenInOrder
  BY DEF AuditInv, InOrder, Ascending, Audit!WrittenInOrder
<1>2. Audit!ExitLosesOneBatch
  <2>1. /\ Audit!ToSet(calls) = Elements(calls)
        /\ Audit!ToSet(batch["drain"].jobs) = Elements(batch["drain"].jobs)
    BY DEF Audit!ToSet, Elements
  <2>2. closing = "exited" => Elements(batch["flush"].jobs) = {}
    BY DEF AuditInv, NoneLost, Elements
  <2> QED BY <2>1, <2>2
             DEF AuditInv, NoneLost, OneDrain, Audit!ExitLosesOneBatch, Audit!Written,
                 Draining
<1> QED BY <1>1, <1>2

-----------------------------------------------------------------------------
(* The exporters' dead letters.                                             *)

\* What a flush holds.
Held(f) == Elements(flush[f].todo) \cup Elements(flush[f].remaining)

\* A flush's sends of what it has loaded have returned, or it holds it yet.
HeldOrSent ==
  \A f \in Processes :
    /\ flush[f].running => \A e \in Elements(flush[f].loaded) : Dlq!Returned(e) \/ e \in Held(f)
    /\ ~flush[f].running => flush[f].todo = << >> /\ flush[f].remaining = << >>

Kept ==
  \A e \in Events : state[e] = "over" => Dlq!Returned(e) \/ e \in lost \/ e \in Elements(file)

\* An attempt is made while there is one left.
AttemptsLeft ==
  \A e \in Events :
    /\ state[e] = "sending" => tries[e] < MaxAttempts
    /\ state[e] = "new" => tries[e] = 0

\* While flushes follow one another, an entry that waits has not been sent.
OneFlush == \A f, g \in Processes : flush[f].running /\ flush[g].running => f = g
UnsentHeld ==
  \A f \in Processes :
    /\ NoRepeat(flush[f].todo) /\ NoRepeat(flush[f].remaining)
    /\ Elements(flush[f].todo) \cap Elements(flush[f].remaining) = {}
    /\ \A e \in Held(f) : ~Dlq!Returned(e)
NotYetIn ==
  \A e \in Events :
    state[e] # "over" => ~Dlq!Returned(e) /\ e \notin Elements(file) /\ \A f \in Processes : e \notin Held(f)
UnsentInFile ==
  \A e \in Elements(file) : ~Dlq!Returned(e) \/ \E f \in Processes : flush[f].running
SentBefore ==
  /\ OneFlush /\ UnsentHeld /\ NotYetIn /\ UnsentInFile
  /\ NoRepeat(file)
  /\ \A e \in Events : reached[e] # "again"

\* An entry without a newline is there.
EndsInEntry == text.ending = "entry" => file # << >>

DlqInv ==
  /\ Dlq!TypeOK /\ AttemptsLeft /\ HeldOrSent /\ Kept /\ EndsInEntry
  /\ (~disturbed => SentBefore)

TextType == [ending : Dlq!Endings, junk : Nat]

FlushRecords == [running : BOOLEAN, over : BOOLEAN, loaded : Seq(Events), todo : Seq(Events),
                 remaining : Seq(Events)]

LEMMA InitDlqInv == Dlq!Init => DlqInv
<1> SUFFICES ASSUME Dlq!Init PROVE DlqInv
  OBVIOUS
<1>0. /\ Elements(<< >>) = {} /\ NoRepeat(<< >>) /\ << >> \in Seq(Events)
      /\ \A f \in Processes : flush[f] = Dlq!Unstarted
  BY EmptySeq DEF Elements, NoRepeat, Dlq!Init
<1>1. /\ Dlq!Unstarted \in FlushRecords /\ Dlq!Unstarted.running = FALSE
      /\ Dlq!Unstarted.todo = << >>
      /\ Dlq!Unstarted.remaining = << >>
  BY <1>0 DEF Dlq!Unstarted, FlushRecords
<1>2. Dlq!TypeOK
  <2>1. flush \in [Processes -> FlushRecords]
    BY <1>1 DEF Dlq!Init
  <2>2. 0 \in 0..MaxAttempts
    BY StoresAssumption
  <2>3. Dlq!Whole \in TextType
    BY DEF Dlq!Whole, TextType, Dlq!Endings
  <2> QED BY <1>0, <2>1, <2>2, <2>3 DEF Dlq!Init, Dlq!TypeOK, FlushRecords, TextType, Dlq!Outcomes
<1>3. AttemptsLeft /\ Kept /\ EndsInEntry
  BY StoresAssumption DEF Dlq!Init, AttemptsLeft, Kept, EndsInEntry, Dlq!Whole
<1>4. HeldOrSent
  BY <1>0, <1>1 DEF HeldOrSent
<1>5. SentBefore
  BY <1>0, <1>1 DEF Dlq!Init, SentBefore, OneFlush, UnsentHeld, NotYetIn, UnsentInFile, Held, Dlq!Returned
<1> QED BY <1>2, <1>3, <1>4, <1>5 DEF DlqInv

\* A send that reaches the collector.
LEMMA ReachEffect ==
  ASSUME Dlq!TypeOK, NEW e \in Events, NEW how \in {"threw", "returned"}, Dlq!Reaches(e, how)
  PROVE  /\ reached' \in [Events -> Dlq!Outcomes]
         /\ \A d \in Events : Dlq!Returned(d) => Dlq!Returned(d)'
         /\ \A d \in Events \ {e} : reached'[d] = reached[d] /\ (Dlq!Returned(d)' <=> Dlq!Returned(d))
         /\ ~Dlq!Returned(e) => reached'[e] = how
         /\ how = "returned" => Dlq!Returned(e)'
BY DEF Dlq!TypeOK, Dlq!Reaches, Dlq!Returned, Dlq!Outcomes

\* What only threw has not returned.
LEMMA ThrewEffect ==
  ASSUME Dlq!TypeOK, NEW e \in Events, Dlq!Reaches(e, "threw") \/ UNCHANGED reached
  PROVE  /\ reached' \in [Events -> Dlq!Outcomes]
         /\ \A d \in Events : Dlq!Returned(d)' <=> Dlq!Returned(d)
         /\ ~Dlq!Returned(e) =>
              \A d \in Events : reached[d] # "again" => reached'[d] # "again"
BY DEF Dlq!TypeOK, Dlq!Reaches, Dlq!Returned, Dlq!Outcomes

LEMMA ExportKeeps ==
  ASSUME DlqInv, NEW e \in Events, Dlq!Export(e)
  PROVE  DlqInv'
<1>0. /\ state[e] = "new" /\ state' = [state EXCEPT ![e] = "sending"]
      /\ UNCHANGED <<tries, file, text, flush, reached, lost, disturbed>>
      /\ Dlq!TypeOK /\ AttemptsLeft /\ HeldOrSent /\ Kept /\ EndsInEntry
  BY DEF Dlq!Export, DlqInv
<1>1. \A d : Dlq!Returned(d)' <=> Dlq!Returned(d)
  BY <1>0 DEF Dlq!Returned
<1>2. Dlq!TypeOK' /\ AttemptsLeft' /\ HeldOrSent' /\ Kept' /\ EndsInEntry'
  BY <1>0, <1>1, StoresAssumption DEF Dlq!TypeOK, AttemptsLeft, HeldOrSent, Kept, Held, EndsInEntry
<1>3. ASSUME SentBefore PROVE SentBefore'
  BY <1>0, <1>1, <1>3 DEF Dlq!TypeOK, SentBefore, OneFlush, UnsentHeld, NotYetIn, UnsentInFile, Held
<1> QED BY <1>0, <1>2, <1>3 DEF DlqInv

LEMMA SendWorksKeeps ==
  ASSUME DlqInv, NEW e \in Events, Dlq!SendWorks(e)
  PROVE  DlqInv'
<1>0. /\ state[e] = "sending" /\ state' = [state EXCEPT ![e] = "over"]
      /\ Dlq!Reaches(e, "returned")
      /\ UNCHANGED <<tries, file, text, flush, lost, disturbed>>
      /\ Dlq!TypeOK /\ AttemptsLeft /\ HeldOrSent /\ Kept /\ EndsInEntry
  BY DEF Dlq!SendWorks, DlqInv
<1>1. /\ reached' \in [Events -> Dlq!Outcomes] /\ Dlq!Returned(e)'
      /\ \A d \in Events : Dlq!Returned(d) => Dlq!Returned(d)'
      /\ \A d \in Events \ {e} : reached'[d] = reached[d] /\ (Dlq!Returned(d)' <=> Dlq!Returned(d))
      /\ ~Dlq!Returned(e) => reached'[e] = "returned"
  BY <1>0, ReachEffect
<1>2. Dlq!TypeOK'
  BY <1>0, <1>1 DEF Dlq!TypeOK
<1>3. AttemptsLeft' /\ Kept' /\ EndsInEntry'
  BY <1>0, <1>1 DEF Dlq!TypeOK, AttemptsLeft, Kept, EndsInEntry
<1>4. HeldOrSent'
  <2>1. \A f \in Processes : Elements(flush[f].loaded) \subseteq Events
    <3>1. \A f \in Processes : flush[f].loaded \in Seq(Events)
      BY <1>0 DEF Dlq!TypeOK
    <3> QED BY <3>1, ElementOfSeq, LenProperties DEF Elements
  <2> QED BY <1>0, <1>1, <2>1 DEF HeldOrSent, Held
<1>5. ASSUME SentBefore PROVE SentBefore'
  <2>1. ~Dlq!Returned(e) /\ e \notin Elements(file) /\ \A f \in Processes : e \notin Held(f)
    BY <1>0, <1>5 DEF SentBefore, NotYetIn
  <2>2. /\ Elements(file) \subseteq Events
        /\ \A f \in Processes : Held(f) \subseteq Events
    <3>1. file \in Seq(Events)
          /\ \A f \in Processes : flush[f].todo \in Seq(Events) /\ flush[f].remaining \in Seq(Events)
      BY <1>0 DEF Dlq!TypeOK
    <3> QED BY <3>1, ElementOfSeq, LenProperties DEF Elements, Held
  <2>3. \A f \in Processes : Held(f)' = Held(f)
    BY <1>0 DEF Held
  <2>4. OneFlush' /\ NoRepeat(file')
    BY <1>0, <1>5 DEF SentBefore, OneFlush
  <2>5. UnsentHeld'
    BY <1>0, <1>1, <1>5, <2>1, <2>2, <2>3 DEF SentBefore, UnsentHeld
  <2>6. NotYetIn'
    BY <1>0, <1>1, <1>5, <2>3 DEF SentBefore, NotYetIn, Dlq!TypeOK
  <2>7. UnsentInFile'
    BY <1>0, <1>1, <1>5, <2>1, <2>2 DEF SentBefore, UnsentInFile
  <2>8. \A d \in Events : reached'[d] # "again"
    BY <1>1, <1>5, <2>1 DEF SentBefore
  <2> QED BY <2>4, <2>5, <2>6, <2>7, <2>8 DEF SentBefore
<1> QED BY <1>0, <1>2, <1>3, <1>4, <1>5 DEF DlqInv

\* An append leaves the other entries in the file, or says that they are lost.
LEMMA AppendEntryEffect ==
  ASSUME Dlq!TypeOK, EndsInEntry, NEW e \in Events, Dlq!AppendEntry(e)
  PROVE  /\ file' \in Seq(Events) /\ text' \in TextType /\ lost' \subseteq Events /\ lost \subseteq lost'
         /\ EndsInEntry'
         /\ Elements(file') \subseteq Elements(file) \cup {e}
         /\ Elements(file) \cup {e} \subseteq Elements(file') \cup lost'
         /\ NoRepeat(file) /\ e \notin Elements(file) => NoRepeat(file')
<1>0. /\ file \in Seq(Events) /\ text \in TextType /\ lost \subseteq Events
      /\ text.junk \in Nat /\ text.ending \in Dlq!Endings
  BY DEF Dlq!TypeOK, TextType
<1>1. CASE Dlq!NewLine(e) /\ file' = Append(file, e)
  <2>1. /\ text' \in {text, [text EXCEPT !.ending = "entry"]} /\ lost' = lost
    BY <1>1 DEF Dlq!NewLine
  <2>2. text' \in TextType
    BY <1>0, <2>1 DEF TextType, Dlq!Endings
  <2>3. /\ Append(file, e) \in Seq(Events) /\ Elements(Append(file, e)) = Elements(file) \cup {e}
        /\ Append(file, e) # << >>
    BY <1>0, AppendElements, AppendProperties
  <2>4. NoRepeat(file) /\ e \notin Elements(file) => NoRepeat(Append(file, e))
    BY <1>0, AppendNoRepeat
  <2> QED BY <1>0, <1>1, <2>1, <2>2, <2>3, <2>4 DEF EndsInEntry
<1>2. CASE file' = file /\ lost' = lost \cup {e} /\ text' \in TextType /\ text'.ending # "entry"
  BY <1>0, <1>2 DEF EndsInEntry
<1>3. CASE Dlq!NewLine(e) /\ file' = file /\ lost' = lost \cup {e}
           /\ text' = [ending |-> "part", junk |-> text.junk + 1]
  <2>1. text' \in TextType /\ text'.ending # "entry"
    BY <1>0, <1>3 DEF TextType, Dlq!Endings
  <2> QED BY <1>2, <1>3, <2>1
<1>4. CASE Dlq!Glued(e)
  <2>1. PICK ending \in {"newline", "part"} :
          text' = [ending |-> ending, junk |-> text.junk + (IF text.ending = "part" THEN 0 ELSE 1)]
    BY <1>4 DEF Dlq!Glued
  <2>2. text' \in TextType /\ text'.ending # "entry"
    BY <1>0, <2>1 DEF TextType, Dlq!Endings
  <2>3. CASE text.ending = "part"
    BY <1>2, <1>4, <2>2, <2>3 DEF Dlq!Glued
  <2>4. CASE text.ending # "part"
    <3>1. /\ lost' = lost \cup {e, file[Len(file)]} /\ file' = SubSeq(file, 1, Len(file) - 1)
          /\ file # << >>
      BY <1>0, <1>4, <2>4 DEF Dlq!Glued, EndsInEntry, Dlq!Endings
    <3>2. Len(file) \in Nat /\ Len(file) # 0
      BY <1>0, <3>1, EmptySeq, LenProperties
    <3> DEFINE n == Len(file) - 1
               b == SubSeq(file, 1, n)
    <3>3. n \in 0..Len(file) /\ n + 1 = Len(file)
      BY <3>2
    <3> HIDE DEF n
    <3>4. /\ b \in Seq(Events) /\ Elements(b) \subseteq Elements(file)
          /\ NoRepeat(file) => NoRepeat(b)
          /\ Elements(file) = Elements(b) \cup {file[Len(file)]}
      BY <1>0, <3>3, EarlierPart
    <3>5. file' = b
      BY <3>1 DEF n
    <3> HIDE DEF b
    <3>6. file[Len(file)] \in Events
      BY <1>0, <3>2, ElementOfSeq
    <3> QED BY <1>0, <2>2, <3>1, <3>4, <3>5, <3>6 DEF EndsInEntry
  <2> QED BY <2>3, <2>4
<1>5. CASE lost' = lost \cup {e} /\ UNCHANGED <<file, text>>
  BY <1>0, <1>5 DEF EndsInEntry
<1> QED BY <1>1, <1>3, <1>4, <1>5 DEF Dlq!AppendEntry, Dlq!NewLine

LEMMA SendFailsKeeps ==
  ASSUME DlqInv, NEW e \in Events, Dlq!SendFails(e)
  PROVE  DlqInv'
<1>0. /\ state[e] = "sending" /\ tries' = [tries EXCEPT ![e] = tries[e] + 1]
      /\ Dlq!Reaches(e, "threw") \/ UNCHANGED reached
      /\ UNCHANGED <<flush, disturbed>>
      /\ Dlq!TypeOK /\ AttemptsLeft /\ HeldOrSent /\ Kept /\ EndsInEntry
      /\ tries[e] \in 0..MaxAttempts /\ tries[e] < MaxAttempts
  BY DEF Dlq!SendFails, DlqInv, AttemptsLeft, Dlq!TypeOK
<1>1. tries' \in [Events -> 0..MaxAttempts]
  BY <1>0, StoresAssumption DEF Dlq!TypeOK
<1>2. /\ reached' \in [Events -> Dlq!Outcomes]
      /\ \A d \in Events : Dlq!Returned(d)' <=> Dlq!Returned(d)
      /\ ~Dlq!Returned(e) => \A d \in Events : reached[d] # "again" => reached'[d] # "again"
  BY <1>0, ThrewEffect
<1>3. /\ Elements(file) \subseteq Events
      /\ \A f \in Processes : Held(f) \subseteq Events /\ Elements(flush[f].loaded) \subseteq Events
  <2>1. file \in Seq(Events)
        /\ \A f \in Processes : /\ flush[f].todo \in Seq(Events) /\ flush[f].remaining \in Seq(Events)
                                /\ flush[f].loaded \in Seq(Events)
    BY <1>0 DEF Dlq!TypeOK
  <2> QED BY <2>1, ElementOfSeq, LenProperties DEF Elements, Held
<1>4. \A f \in Processes : Held(f)' = Held(f)
  BY <1>0 DEF Held
<1>5. HeldOrSent'
  BY <1>0, <1>2, <1>3, <1>4 DEF HeldOrSent
<1>6. ASSUME SentBefore
      PROVE  /\ OneFlush' /\ UnsentHeld' /\ ~Dlq!Returned(e) /\ e \notin Elements(file)
             /\ \A d \in Events : reached'[d] # "again"
  <2>1. ~Dlq!Returned(e) /\ e \notin Elements(file)
    BY <1>0, <1>6 DEF SentBefore, NotYetIn
  <2>2. OneFlush' /\ UnsentHeld'
    BY <1>0, <1>2, <1>3, <1>4, <1>6 DEF SentBefore, OneFlush, UnsentHeld
  <2> QED BY <1>2, <1>6, <2>1, <2>2 DEF SentBefore
<1>7. CASE tries[e] + 1 < MaxAttempts
  <2>1. UNCHANGED <<state, file, text, lost>>
    BY <1>7 DEF Dlq!SendFails
  <2>2. Dlq!TypeOK' /\ AttemptsLeft' /\ Kept' /\ EndsInEntry'
    BY <1>0, <1>1, <1>2, <1>7, <2>1 DEF Dlq!TypeOK, AttemptsLeft, Kept, EndsInEntry
  <2>3. ASSUME SentBefore PROVE SentBefore'
    <3>1. NotYetIn' /\ UnsentInFile' /\ NoRepeat(file')
      BY <1>0, <1>2, <1>3, <1>4, <2>1, <2>3 DEF SentBefore, NotYetIn, UnsentInFile
    <3> QED BY <1>6, <2>3, <3>1 DEF SentBefore
  <2> QED BY <1>0, <1>5, <2>2, <2>3 DEF DlqInv
<1>8. CASE ~(tries[e] + 1 < MaxAttempts)
  <2>1. state' = [state EXCEPT ![e] = "over"] /\ Dlq!AppendEntry(e)
    BY <1>8 DEF Dlq!SendFails
  <2>2. /\ file' \in Seq(Events) /\ text' \in TextType /\ lost' \subseteq Events /\ lost \subseteq lost'
        /\ EndsInEntry'
        /\ Elements(file') \subseteq Elements(file) \cup {e}
        /\ Elements(file) \cup {e} \subseteq Elements(file') \cup lost'
        /\ NoRepeat(file) /\ e \notin Elements(file) => NoRepeat(file')
    BY <1>0, <2>1, AppendEntryEffect
  <2>3. Dlq!TypeOK' /\ AttemptsLeft'
    BY <1>0, <1>1, <1>2, <2>1, <2>2 DEF Dlq!TypeOK, AttemptsLeft, TextType
  <2>4. Kept'
    BY <1>0, <1>2, <2>1, <2>2 DEF Kept, Dlq!TypeOK
  <2>5. ASSUME SentBefore PROVE SentBefore'
    <3>1. NoRepeat(file')
      BY <1>6, <2>2, <2>5 DEF SentBefore
    <3>2. NotYetIn'
      BY <1>0, <1>2, <1>4, <2>1, <2>2, <2>5 DEF SentBefore, NotYetIn, Dlq!TypeOK
    <3>3. UnsentInFile'
      BY <1>0, <1>2, <1>3, <1>6, <2>2, <2>5 DEF SentBefore, UnsentInFile
    <3> QED BY <1>6, <2>5, <3>1, <3>2, <3>3 DEF SentBefore
  <2> QED BY <1>0, <1>5, <2>2, <2>3, <2>4, <2>5 DEF DlqInv
<1> QED BY <1>7, <1>8

LEMMA LoadKeeps ==
  ASSUME DlqInv, NEW f \in Processes, Dlq!Load(f)
  PROVE  DlqInv'
<1>n. PICK n \in Dlq!Readable : flush' = [flush EXCEPT ![f] =
             [running |-> n # 0, over |-> n = 0,
              loaded |-> SubSeq(file, Len(file) - n + 1, Len(file)),
              todo |-> SubSeq(file, Len(file) - n + 1, Len(file)), remaining |-> << >>]]
  BY DEF Dlq!Load
<1> DEFINE older  == Len(file) - n
           newest == SubSeq(file, older + 1, Len(file))
           r == [running |-> n # 0, over |-> n = 0,
                 loaded |-> newest, todo |-> newest, remaining |-> << >>]
<1>0. /\ ~flush[f].running /\ flush' = [flush EXCEPT ![f] = r]
      /\ disturbed' = (disturbed \/ \E g \in Processes : flush[g].running)
      /\ UNCHANGED <<tries, state, file, text, reached, lost>>
      /\ Dlq!TypeOK /\ AttemptsLeft /\ HeldOrSent /\ Kept /\ EndsInEntry
      /\ file \in Seq(Events) /\ flush \in [Processes -> FlushRecords]
  BY <1>n DEF Dlq!Load, DlqInv, Dlq!TypeOK, FlushRecords
<1>o. older \in 0..Len(file) /\ Len(file) \in Nat /\ n \in 0..Len(file)
  BY <1>0, LenProperties DEF Dlq!Readable
<1>1. /\ newest \in Seq(Events) /\ Elements(newest) \subseteq Elements(file)
      /\ NoRepeat(file) => NoRepeat(newest)
  <2> HIDE DEF older
  <2> QED BY <1>0, <1>o, LaterPart
<1>2. n = 0 => newest = << >>
  <2>1. n = 0 => older = Len(file)
    BY <1>o
  <2>2. n = 0 => Len(newest) = 0
    BY <1>0, <1>o, <2>1, Split
  <2> QED BY <1>1, <2>2, EmptySeq
<1>e. \A d : Dlq!Returned(d)' <=> Dlq!Returned(d)
  BY <1>0 DEF Dlq!Returned
<1> HIDE DEF newest
<1>3. r \in FlushRecords
  BY <1>1, EmptySeq DEF FlushRecords
<1>4. /\ r.running = (n # 0) /\ r.todo = newest /\ r.loaded = newest /\ r.remaining = << >>
  OBVIOUS
<1> HIDE DEF r
<1>5. /\ flush' \in [Processes -> FlushRecords] /\ flush'[f] = r
      /\ \A g \in Processes \ {f} : flush'[g] = flush[g]
  BY <1>0, <1>3
<1>6. Dlq!TypeOK'
  <2>1. disturbed' \in BOOLEAN
    BY <1>0 DEF Dlq!TypeOK
  <2> QED BY <1>0, <1>5, <2>1 DEF Dlq!TypeOK, FlushRecords
<1>7. AttemptsLeft' /\ Kept' /\ EndsInEntry'
  BY <1>0, <1>e DEF AttemptsLeft, Kept, EndsInEntry
<1>8. HeldOrSent'
  BY <1>0, <1>2, <1>4, <1>5, <1>e DEF HeldOrSent, Held
<1>9. ASSUME ~disturbed', SentBefore PROVE SentBefore'
  <2>1. ~\E g \in Processes : flush[g].running
    BY <1>0, <1>9
  <2>2. /\ Elements(<< >>) = {} /\ NoRepeat(<< >>)
    BY DEF Elements, NoRepeat
  <2>3. \A e \in Elements(file) : ~Dlq!Returned(e)
    BY <1>9, <2>1 DEF SentBefore, UnsentInFile
  <2>4. Held(f)' = Elements(newest) /\ \A g \in Processes \ {f} : Held(g)' = Held(g)
    BY <1>4, <1>5, <2>2 DEF Held
  <2>5. OneFlush'
    BY <1>5, <2>1 DEF OneFlush
  <2>6. UnsentHeld'
    BY <1>0, <1>1, <1>4, <1>5, <1>9, <1>e, <2>2, <2>3, <2>4 DEF SentBefore, UnsentHeld
  <2>7. NotYetIn'
    BY <1>0, <1>1, <1>9, <1>e, <2>4 DEF SentBefore, NotYetIn
  <2>8. UnsentInFile'
    BY <1>0, <1>e, <2>3 DEF UnsentInFile
  <2> QED BY <1>0, <1>9, <2>5, <2>6, <2>7, <2>8 DEF SentBefore
<1> QED BY <1>0, <1>6, <1>7, <1>8, <1>9 DEF DlqInv

\* The first entry of a flush's list.
LEMMA NextEntry ==
  ASSUME DlqInv, NEW f \in Processes, flush[f].running, flush[f].todo # << >>
  PROVE  /\ flush \in [Processes -> FlushRecords] /\ flush[f] \in FlushRecords
         /\ flush[f].todo \in Seq(Events) /\ flush[f].remaining \in Seq(Events)
         /\ Head(flush[f].todo) \in Events /\ Tail(flush[f].todo) \in Seq(Events)
         /\ Elements(flush[f].todo) = {Head(flush[f].todo)} \cup Elements(Tail(flush[f].todo))
         /\ NoRepeat(flush[f].todo) =>
              NoRepeat(Tail(flush[f].todo)) /\ Head(flush[f].todo) \notin Elements(Tail(flush[f].todo))
<1>1. /\ flush \in [Processes -> FlushRecords] /\ flush[f] \in FlushRecords
  BY DEF DlqInv, Dlq!TypeOK, FlushRecords
<1>2. flush[f].todo \in Seq(Events) /\ flush[f].remaining \in Seq(Events)
  BY <1>1 DEF FlushRecords
<1> QED BY <1>1, <1>2, TailElements, TailNoRepeat

LEMMA EntryRemainsKeeps ==
  ASSUME DlqInv, NEW f \in Processes, Dlq!EntryRemains(f)
  PROVE  DlqInv'
<1> DEFINE s == flush[f].todo
           h == Head(s)
           left == Append(flush[f].remaining, h)
<1>0. /\ flush[f].running /\ s # << >>
      /\ flush' = [flush EXCEPT ![f].todo = Tail(s), ![f].remaining = left]
      /\ Dlq!Reaches(h, "threw") \/ UNCHANGED reached
      /\ UNCHANGED <<tries, state, file, text, lost, disturbed>>
      /\ Dlq!TypeOK /\ AttemptsLeft /\ HeldOrSent /\ Kept /\ EndsInEntry
  BY DEF Dlq!EntryRemains, Dlq!PutAside, DlqInv
<1>1. /\ flush \in [Processes -> FlushRecords] /\ flush[f] \in FlushRecords
      /\ s \in Seq(Events) /\ flush[f].remaining \in Seq(Events)
      /\ h \in Events /\ Tail(s) \in Seq(Events) /\ Elements(s) = {h} \cup Elements(Tail(s))
      /\ NoRepeat(s) => NoRepeat(Tail(s)) /\ h \notin Elements(Tail(s))
  BY <1>0, NextEntry
<1>2. left \in Seq(Events) /\ Elements(left) = Elements(flush[f].remaining) \cup {h}
  BY <1>1, AppendElements, AppendProperties
<1>3. NoRepeat(flush[f].remaining) /\ h \notin Elements(flush[f].remaining) => NoRepeat(left)
  BY <1>1, AppendNoRepeat
<1> HIDE DEF left
<1>4. /\ flush' \in [Processes -> FlushRecords]
      /\ flush'[f].running = flush[f].running /\ flush'[f].loaded = flush[f].loaded
      /\ flush'[f].todo = Tail(s) /\ flush'[f].remaining = left
      /\ \A g \in Processes \ {f} : flush'[g] = flush[g]
  <2>1. [flush[f] EXCEPT !.todo = Tail(s), !.remaining = left] \in FlushRecords
    BY <1>1, <1>2 DEF FlushRecords
  <2>2. flush' = [flush EXCEPT ![f] = [flush[f] EXCEPT !.todo = Tail(s), !.remaining = left]]
    BY <1>0, <1>1
  <2> QED BY <1>1, <2>1, <2>2 DEF FlushRecords
<1> HIDE DEF s, h
<1>t. /\ reached' \in [Events -> Dlq!Outcomes]
      /\ \A d \in Events : Dlq!Returned(d)' <=> Dlq!Returned(d)
      /\ ~Dlq!Returned(h) => \A d \in Events : reached[d] # "again" => reached'[d] # "again"
  BY <1>0, <1>1, ThrewEffect
<1>v. /\ Elements(file) \subseteq Events
      /\ \A g \in Processes : Elements(flush[g].loaded) \subseteq Events /\ Held(g) \subseteq Events
  <2>1. file \in Seq(Events)
    BY <1>0 DEF Dlq!TypeOK
  <2>2. \A g \in Processes : /\ flush[g].loaded \in Seq(Events) /\ flush[g].todo \in Seq(Events)
                             /\ flush[g].remaining \in Seq(Events)
    BY <1>1 DEF FlushRecords
  <2> QED BY <2>1, <2>2, ElementOfSeq, LenProperties DEF Elements, Held
<1>5. Dlq!TypeOK' /\ AttemptsLeft' /\ Kept' /\ EndsInEntry'
  BY <1>0, <1>4, <1>t DEF Dlq!TypeOK, AttemptsLeft, Kept, FlushRecords, EndsInEntry
<1>6. \A g \in Processes : Held(g)' = Held(g)
  <2>1. Held(f)' = Held(f)
    BY <1>1, <1>2, <1>4 DEF Held, s
  <2> QED BY <1>4, <2>1 DEF Held
<1>7. HeldOrSent'
  BY <1>0, <1>4, <1>6, <1>t, <1>v DEF HeldOrSent
<1>8. ASSUME SentBefore PROVE SentBefore'
  <2>1. /\ NoRepeat(s) /\ NoRepeat(flush[f].remaining)
        /\ Elements(s) \cap Elements(flush[f].remaining) = {}
    BY <1>8 DEF SentBefore, UnsentHeld, s
  <2>2. NoRepeat(Tail(s)) /\ NoRepeat(left) /\ Elements(Tail(s)) \cap Elements(left) = {}
    BY <1>1, <1>2, <1>3, <2>1
  <2>3. UnsentHeld'
    <3>1. \A g \in Processes : \A e \in Held(g)' : ~Dlq!Returned(e)'
      BY <1>0, <1>6, <1>8, <1>t, <1>v DEF SentBefore, UnsentHeld
    <3>2. \A g \in Processes :
            /\ NoRepeat(flush'[g].todo) /\ NoRepeat(flush'[g].remaining)
            /\ Elements(flush'[g].todo) \cap Elements(flush'[g].remaining) = {}
      BY <1>4, <1>8, <2>2 DEF SentBefore, UnsentHeld
    <3> QED BY <3>1, <3>2 DEF UnsentHeld
  <2>4. \A g \in Processes : flush'[g].running = flush[g].running
    BY <1>4
  <2>5. OneFlush' /\ NotYetIn' /\ UnsentInFile'
    BY <1>0, <1>6, <1>8, <1>t, <1>v, <2>4 DEF SentBefore, OneFlush, NotYetIn, UnsentInFile
  <2>6. \A d \in Events : reached'[d] # "again"
    <3>1. h \in Held(f)
      BY <1>1 DEF Held, s
    <3> QED BY <1>8, <1>t, <3>1 DEF SentBefore, UnsentHeld
  <2> QED BY <1>0, <1>8, <2>3, <2>5, <2>6 DEF SentBefore
<1> QED BY <1>0, <1>5, <1>7, <1>8 DEF DlqInv

LEMMA EntrySentKeeps ==
  ASSUME DlqInv, NEW f \in Processes, Dlq!EntrySent(f)
  PROVE  DlqInv'
<1> DEFINE s == flush[f].todo
           h == Head(s)
<1>0. /\ flush[f].running /\ s # << >>
      /\ flush' = [flush EXCEPT ![f].todo = Tail(s)]
      /\ Dlq!Reaches(h, "returned")
      /\ UNCHANGED <<tries, state, file, text, lost, disturbed>>
      /\ Dlq!TypeOK /\ AttemptsLeft /\ HeldOrSent /\ Kept /\ EndsInEntry
  BY DEF Dlq!EntrySent, DlqInv
<1>1. /\ flush \in [Processes -> FlushRecords] /\ flush[f] \in FlushRecords
      /\ s \in Seq(Events) /\ flush[f].remaining \in Seq(Events)
      /\ h \in Events /\ Tail(s) \in Seq(Events) /\ Elements(s) = {h} \cup Elements(Tail(s))
      /\ NoRepeat(s) => NoRepeat(Tail(s)) /\ h \notin Elements(Tail(s))
  BY <1>0, NextEntry
<1>2. /\ reached' \in [Events -> Dlq!Outcomes] /\ \A d \in Events : d = h => Dlq!Returned(d)'
      /\ \A d \in Events : Dlq!Returned(d) => Dlq!Returned(d)'
      /\ \A d \in Events \ {h} : reached'[d] = reached[d] /\ (Dlq!Returned(d)' <=> Dlq!Returned(d))
      /\ ~Dlq!Returned(h) => reached'[h] = "returned"
  <2> HIDE DEF s, h
  <2>1. PICK e \in Events : e = h
    BY <1>1
  <2>2. Dlq!Reaches(e, "returned")
    BY <1>0, <2>1
  <2>3. /\ reached' \in [Events -> Dlq!Outcomes] /\ Dlq!Returned(e)'
        /\ \A d \in Events : Dlq!Returned(d) => Dlq!Returned(d)'
        /\ \A d \in Events \ {e} : reached'[d] = reached[d] /\ (Dlq!Returned(d)' <=> Dlq!Returned(d))
        /\ ~Dlq!Returned(e) => reached'[e] = "returned"
    BY <1>0, <2>2, ReachEffect
  <2> QED BY <2>1, <2>3
<1>3. /\ flush' \in [Processes -> FlushRecords]
      /\ flush'[f].running = flush[f].running /\ flush'[f].loaded = flush[f].loaded
      /\ flush'[f].todo = Tail(s) /\ flush'[f].remaining = flush[f].remaining
      /\ \A g \in Processes \ {f} : flush'[g] = flush[g]
  <2>1. [flush[f] EXCEPT !.todo = Tail(s)] \in FlushRecords
    BY <1>1 DEF FlushRecords
  <2>2. flush' = [flush EXCEPT ![f] = [flush[f] EXCEPT !.todo = Tail(s)]]
    BY <1>0, <1>1
  <2> QED BY <1>1, <2>1, <2>2 DEF FlushRecords
<1>4. /\ Elements(file) \subseteq Events
      /\ \A g \in Processes : Elements(flush[g].loaded) \subseteq Events /\ Held(g) \subseteq Events
  <2>1. file \in Seq(Events)
    BY <1>0 DEF Dlq!TypeOK
  <2>2. \A g \in Processes : /\ flush[g].loaded \in Seq(Events) /\ flush[g].todo \in Seq(Events)
                             /\ flush[g].remaining \in Seq(Events)
    BY <1>1 DEF FlushRecords
  <2> QED BY <2>1, <2>2, ElementOfSeq, LenProperties DEF Elements, Held
<1> HIDE DEF s, h
<1>5. Dlq!TypeOK' /\ AttemptsLeft' /\ Kept' /\ EndsInEntry'
  BY <1>0, <1>1, <1>2, <1>3 DEF Dlq!TypeOK, AttemptsLeft, Kept, FlushRecords, EndsInEntry
<1>6. /\ Held(f) = Held(f)' \cup {h} /\ Held(f)' \subseteq Held(f)
      /\ \A g \in Processes \ {f} : Held(g)' = Held(g)
  BY <1>1, <1>3 DEF Held, s
<1>7. HeldOrSent'
  <2> SUFFICES ASSUME NEW g \in Processes
               PROVE  /\ flush'[g].running => \A e \in Elements(flush'[g].loaded) :
                                                Dlq!Returned(e)' \/ e \in Held(g)'
                      /\ ~flush'[g].running => flush'[g].todo = << >> /\ flush'[g].remaining = << >>
    BY DEF HeldOrSent
  <2>1. \A e \in Events : Dlq!Returned(e) => Dlq!Returned(e)'
    BY <1>2
  <2>2. CASE g = f
    BY <1>0, <1>2, <1>3, <1>4, <1>6, <2>1, <2>2 DEF HeldOrSent
  <2>3. CASE g # f
    BY <1>0, <1>3, <1>4, <1>6, <2>1, <2>3 DEF HeldOrSent
  <2> QED BY <2>2, <2>3
<1>8. ASSUME SentBefore PROVE SentBefore'
  <2>1. /\ NoRepeat(s) /\ NoRepeat(flush[f].remaining) /\ ~Dlq!Returned(h)
        /\ Elements(s) \cap Elements(flush[f].remaining) = {}
    BY <1>1, <1>8 DEF SentBefore, UnsentHeld, Held, s
  <2>2. /\ NoRepeat(Tail(s)) /\ h \notin Held(f)'
        /\ Elements(Tail(s)) \cap Elements(flush[f].remaining) = {}
    BY <1>1, <1>3, <2>1 DEF Held
  <2>3. \A g \in Processes \ {f} : Held(g) = {}
    <3>1. \A g \in Processes \ {f} : ~flush[g].running
      BY <1>0, <1>8 DEF SentBefore, OneFlush
    <3> QED BY <1>0, <3>1 DEF HeldOrSent, Held, Elements
  <2>4. UnsentHeld'
    <3> SUFFICES ASSUME NEW g \in Processes
                 PROVE  /\ NoRepeat(flush'[g].todo) /\ NoRepeat(flush'[g].remaining)
                        /\ Elements(flush'[g].todo) \cap Elements(flush'[g].remaining) = {}
                        /\ \A e \in Held(g)' : ~Dlq!Returned(e)'
      BY DEF UnsentHeld
    <3>1. CASE g = f
      BY <1>2, <1>3, <1>4, <1>6, <1>8, <2>1, <2>2, <3>1 DEF SentBefore, UnsentHeld
    <3>2. CASE g # f
      BY <1>3, <1>6, <1>8, <2>3, <3>2 DEF SentBefore, UnsentHeld
    <3> QED BY <3>1, <3>2
  <2>5. \A g \in Processes : flush'[g].running = flush[g].running
    BY <1>3
  <2>6. state[h] = "over"
    <3>1. h \in Held(f)
      BY <1>6
    <3> QED BY <1>1, <1>8, <3>1 DEF SentBefore, NotYetIn
  <2>7. NotYetIn'
    BY <1>0, <1>2, <1>6, <1>8, <2>6 DEF SentBefore, NotYetIn
  <2>8. OneFlush' /\ UnsentInFile'
    BY <1>0, <1>8, <2>5 DEF SentBefore, OneFlush, UnsentInFile
  <2>9. \A e \in Events : reached'[e] # "again"
    BY <1>2, <1>8, <2>1 DEF SentBefore
  <2> QED BY <1>0, <1>8, <2>4, <2>7, <2>8, <2>9 DEF SentBefore
<1> QED BY <1>0, <1>5, <1>7, <1>8 DEF DlqInv

\* A flush that is over holds nothing.
LEMMA FlushEnds ==
  ASSUME DlqInv, NEW f \in Processes, Dlq!FlushOver(f)
  PROVE  /\ flush' \in [Processes -> FlushRecords] /\ ~flush'[f].running
         /\ flush'[f].todo = << >> /\ flush'[f].remaining = << >> /\ Held(f)' = {}
         /\ \A g \in Processes \ {f} : flush'[g] = flush[g] /\ Held(g)' = Held(g)
<1>1. flush \in [Processes -> FlushRecords]
  BY DEF DlqInv, Dlq!TypeOK, FlushRecords
<1> DEFINE r == [Dlq!Unstarted EXCEPT !.over = TRUE]
<1>2. r \in FlushRecords /\ ~r.running /\ r.todo = << >> /\ r.remaining = << >>
  BY EmptySeq DEF Dlq!Unstarted, FlushRecords
<1> HIDE DEF r
<1>3. /\ flush' \in [Processes -> FlushRecords] /\ flush'[f] = r
      /\ \A g \in Processes \ {f} : flush'[g] = flush[g]
  BY <1>1, <1>2 DEF r, Dlq!FlushOver
<1>4. Held(f)' = {}
  <2>1. Elements(<< >>) = {}
    BY DEF Elements
  <2>2. flush'[f].todo = << >> /\ flush'[f].remaining = << >>
    BY <1>2, <1>3
  <2>3. Held(f)' = Elements(flush'[f].todo) \cup Elements(flush'[f].remaining)
    BY DEF Held
  <2> QED BY <2>1, <2>2, <2>3
<1>5. \A g \in Processes \ {f} : Held(g)' = Held(g)
  BY <1>3 DEF Held
<1> QED BY <1>2, <1>3, <1>4, <1>5

\* A rewrite, whole or cut: the file holds entries that the flush held, and
\* what else it had loaded has been sent.
LEMMA RewrittenKeeps ==
  ASSUME DlqInv, NEW f \in Processes, flush[f].running, flush[f].todo = << >>, Dlq!FlushOver(f),
         file' \in Seq(Events), Elements(file') \subseteq Elements(flush[f].remaining),
         NoRepeat(flush[f].remaining) => NoRepeat(file'),
         text' \in TextType, EndsInEntry',
         lost' = lost \cup (Elements(file) \ Elements(flush[f].loaded))
                      \cup (Elements(flush[f].remaining) \ Elements(file')),
         UNCHANGED <<tries, state, reached, disturbed>>
  PROVE  DlqInv'
<1>0. Dlq!TypeOK /\ AttemptsLeft /\ HeldOrSent /\ Kept
  BY DEF DlqInv
<1>1. /\ flush' \in [Processes -> FlushRecords] /\ ~flush'[f].running
      /\ flush'[f].todo = << >> /\ flush'[f].remaining = << >> /\ Held(f)' = {}
      /\ \A g \in Processes \ {f} : flush'[g] = flush[g] /\ Held(g)' = Held(g)
  BY FlushEnds
<1>2. /\ file \in Seq(Events) /\ Elements(file) \subseteq Events
      /\ flush[f].remaining \in Seq(Events) /\ Elements(flush[f].remaining) \subseteq Events
      /\ lost \subseteq Events
  <2>1. file \in Seq(Events) /\ flush[f].remaining \in Seq(Events) /\ lost \subseteq Events
    BY <1>0 DEF Dlq!TypeOK
  <2> QED BY <2>1, ElementOfSeq, LenProperties DEF Elements
<1>3. Held(f) = Elements(flush[f].remaining)
  BY DEF Held, Elements
<1>e. \A d : Dlq!Returned(d)' <=> Dlq!Returned(d)
  BY DEF Dlq!Returned
<1>4. Dlq!TypeOK' /\ AttemptsLeft'
  BY <1>0, <1>1, <1>2 DEF Dlq!TypeOK, AttemptsLeft, FlushRecords, TextType
<1>5. HeldOrSent'
  BY <1>0, <1>1, <1>e DEF HeldOrSent
<1>6. Kept'
  <2>1. \A e \in Elements(file) : Dlq!Returned(e) \/ e \in lost' \/ e \in Elements(file')
    BY <1>0, <1>3 DEF HeldOrSent
  <2> QED BY <1>0, <1>e, <2>1 DEF Kept
<1>7. ASSUME SentBefore PROVE SentBefore'
  <2>1. NoRepeat(file') /\ \A e \in Elements(file') : ~Dlq!Returned(e)
    BY <1>3, <1>7 DEF SentBefore, UnsentHeld
  <2>2. UnsentHeld'
    <3>1. NoRepeat(<< >>) /\ Elements(<< >>) = {}
      BY DEF NoRepeat, Elements
    <3> QED BY <1>1, <1>7, <1>e, <3>1 DEF SentBefore, UnsentHeld
  <2>3. NotYetIn'
    BY <1>0, <1>1, <1>3, <1>7, <1>e DEF SentBefore, NotYetIn
  <2>4. OneFlush' /\ UnsentInFile'
    BY <1>1, <1>7, <1>e, <2>1 DEF SentBefore, OneFlush, UnsentInFile
  <2> QED BY <1>7, <2>1, <2>2, <2>3, <2>4 DEF SentBefore
<1> QED BY <1>4, <1>5, <1>6, <1>7 DEF DlqInv

LEMMA RewriteKeeps ==
  ASSUME DlqInv, NEW f \in Processes, Dlq!Rewrite(f)
  PROVE  DlqInv'
<1>1. /\ flush[f].running /\ flush[f].todo = << >> /\ Dlq!FlushOver(f)
      /\ file' = flush[f].remaining /\ text' = Dlq!Whole
      /\ lost' = lost \cup (Elements(file) \ Elements(flush[f].loaded))
      /\ UNCHANGED <<tries, state, reached, disturbed>>
  BY DEF Dlq!Rewrite, Dlq!Rewritten, Dlq!Overtaken, Dlq!ToSet, Elements
<1>2. flush[f].remaining \in Seq(Events)
  BY DEF DlqInv, Dlq!TypeOK
<1>3. text' \in TextType /\ EndsInEntry'
  BY <1>1 DEF Dlq!Whole, TextType, Dlq!Endings, EndsInEntry
<1> QED BY <1>1, <1>2, <1>3, RewrittenKeeps

LEMMA RewriteCutKeeps ==
  ASSUME DlqInv, NEW f \in Processes, Dlq!RewriteCut(f)
  PROVE  DlqInv'
<1> DEFINE s == flush[f].remaining
<1>1. /\ flush[f].running /\ flush[f].todo = << >> /\ Dlq!FlushOver(f)
      /\ UNCHANGED <<tries, state, reached, disturbed>>
      /\ \E n \in 0..Len(s) :
           /\ file' = SubSeq(s, 1, n)
           /\ \/ n < Len(s) /\ text' \in {Dlq!Whole, [ending |-> "part", junk |-> 1]}
              \/ n > 0 /\ text' = [ending |-> "entry", junk |-> 0]
           /\ lost' = lost \cup (Elements(file) \ Elements(flush[f].loaded))
                           \cup (Elements(s) \ Elements(file'))
  BY DEF Dlq!RewriteCut, Dlq!Rewritten, Dlq!Overtaken, Dlq!ToSet, Elements
<1>2. s \in Seq(Events)
  BY DEF DlqInv, Dlq!TypeOK
<1> HIDE DEF s
<1>3. PICK n \in 0..Len(s) :
        /\ file' = SubSeq(s, 1, n)
        /\ \/ n < Len(s) /\ text' \in {Dlq!Whole, [ending |-> "part", junk |-> 1]}
           \/ n > 0 /\ text' = [ending |-> "entry", junk |-> 0]
        /\ lost' = lost \cup (Elements(file) \ Elements(flush[f].loaded))
                        \cup (Elements(s) \ Elements(file'))
  BY <1>1
<1>4. /\ SubSeq(s, 1, n) \in Seq(Events) /\ Elements(SubSeq(s, 1, n)) \subseteq Elements(s)
      /\ NoRepeat(s) => NoRepeat(SubSeq(s, 1, n))
      /\ n # 0 => SubSeq(s, 1, n) # << >>
  BY <1>2, EarlierPart
<1>5. text' \in TextType /\ (text'.ending = "entry" => n # 0)
  BY <1>3 DEF Dlq!Whole, TextType, Dlq!Endings
<1>6. EndsInEntry'
  BY <1>3, <1>4, <1>5 DEF EndsInEntry
<1>7. /\ file' \in Seq(Events) /\ Elements(file') \subseteq Elements(s)
      /\ NoRepeat(s) => NoRepeat(file')
  BY <1>3, <1>4
<1> QED BY <1>1, <1>3, <1>5, <1>6, <1>7, RewrittenKeeps DEF s

LEMMA FlushDiesKeeps ==
  ASSUME DlqInv, NEW f \in Processes, Dlq!FlushDies(f)
  PROVE  DlqInv'
<1>0. /\ Dlq!FlushOver(f) /\ disturbed' = TRUE
      /\ UNCHANGED <<tries, state, file, text, reached, lost>>
      /\ Dlq!TypeOK /\ AttemptsLeft /\ HeldOrSent /\ Kept /\ EndsInEntry
  BY DEF Dlq!FlushDies, DlqInv
<1>1. /\ flush' \in [Processes -> FlushRecords] /\ ~flush'[f].running
      /\ flush'[f].todo = << >> /\ flush'[f].remaining = << >> /\ Held(f)' = {}
      /\ \A g \in Processes \ {f} : flush'[g] = flush[g] /\ Held(g)' = Held(g)
  BY <1>0, FlushEnds
<1>e. \A d : Dlq!Returned(d)' <=> Dlq!Returned(d)
  BY <1>0 DEF Dlq!Returned
<1>2. Dlq!TypeOK' /\ AttemptsLeft' /\ Kept' /\ EndsInEntry'
  BY <1>0, <1>1, <1>e DEF Dlq!TypeOK, AttemptsLeft, FlushRecords, Kept, EndsInEntry
<1>3. HeldOrSent'
  BY <1>0, <1>1, <1>e DEF HeldOrSent
<1> QED BY <1>0, <1>2, <1>3 DEF DlqInv

LEMMA NextDlqInv == DlqInv /\ [Dlq!Next]_<<file, dlqVars>> => DlqInv'
<1> SUFFICES ASSUME DlqInv, [Dlq!Next]_<<file, dlqVars>> PROVE DlqInv'
  OBVIOUS
<1>1. ASSUME NEW e \in Events, Dlq!Export(e) \/ Dlq!SendWorks(e) \/ Dlq!SendFails(e) PROVE DlqInv'
  BY <1>1, ExportKeeps, SendWorksKeeps, SendFailsKeeps
<1>2. ASSUME NEW f \in Processes, Dlq!Load(f) \/ Dlq!EntryRemains(f) \/ Dlq!EntrySent(f) \/ Dlq!Rewrite(f)
               \/ Dlq!RewriteCut(f) \/ Dlq!FlushDies(f)
      PROVE  DlqInv'
  BY <1>2, LoadKeeps, EntryRemainsKeeps, EntrySentKeeps, RewriteKeeps, RewriteCutKeeps, FlushDiesKeeps
<1>3. CASE UNCHANGED <<file, dlqVars>>
  BY <1>3
     DEF dlqVars, DlqInv, Dlq!TypeOK, AttemptsLeft, HeldOrSent, Kept, SentBefore,
         OneFlush, UnsentHeld, NotYetIn, UnsentInFile, Held, EndsInEntry, Dlq!Returned
<1> QED BY <1>1, <1>2, <1>3 DEF Dlq!Next

LEMMA DlqProperties == DlqInv => Dlq!KeptUntilSent /\ Dlq!SentOnce
BY DEF DlqInv, Kept, Dlq!KeptUntilSent, Dlq!SentOnce, SentBefore, Dlq!ToSet, Elements

-----------------------------------------------------------------------------
(* The semantic audit.                                                      *)

\* The numbers of elements that the instance and this module count are the same.
LEMMA SameCardinality == ASSUME NEW S PROVE Semantic!Cardinality(S) = Cardinality(S)
BY DEF Cardinality, Semantic!Cardinality

Steps == Semantic!Running \cup {"new", "reading", "acquiring", "queued", "over", "lost"}
Circuits == [state : {"closed", "open", "half-open"}, failures : Nat, probe : BOOLEAN, due : BOOLEAN]

\* The jobs a process has queued or batched are its own, and each is there once.
WaitingJobs(p) == Elements(queue[p]) \cup Elements(batch[p])
Waiting ==
  \A p \in Processes :
    /\ \A j \in WaitingJobs(p) : j \in Jobs /\ at[j] = p /\ step[j] = "queued"
    /\ NoRepeat(queue[p]) /\ NoRepeat(batch[p])
    /\ Elements(queue[p]) \cap Elements(batch[p]) = {}

\* Slots are asked for where Redis has them.
OnlyRedisAcquires ==
  \A j \in Jobs : step[j] \in {"reading", "acquiring"} => mode[at[j]] # "local"

\* Finitely many jobs have come so far.
FinitelyMany == IsFiniteSet({j \in Jobs : step[j] # "new"})

SemanticInv ==
  Semantic!TypeOK /\ Waiting /\ OnlyRedisAcquires /\ FinitelyMany /\ Semantic!SlotsAccounted /\ Semantic!NoStuckProbe

-----------------------------------------------------------------------------
(* A chunk and what is left of its batch.                                   *)

LEMMA ChunkOfJobs ==
  ASSUME NEW s \in Seq(Jobs), NoRepeat(s)
  PROVE  /\ Semantic!AfterChunk(s) \in Seq(Jobs) /\ NoRepeat(Semantic!AfterChunk(s))
         /\ Elements(s) = Semantic!Chunk(s) \cup Elements(Semantic!AfterChunk(s))
         /\ Semantic!Chunk(s) \cap Elements(Semantic!AfterChunk(s)) = {}
<1> DEFINE n == Concurrency
           b == SubSeq(s, n + 1, Len(s))
<1>1. Len(s) \in Nat /\ DOMAIN s = 1..Len(s) /\ n \in Nat /\ Semantic!AfterChunk(s) = b
  BY StoresAssumption, LenProperties DEF Semantic!AfterChunk
<1> HIDE DEF n
<1>2. Semantic!Chunk(s) = {s[i] : i \in DOMAIN s \cap (1..n)}
  BY DEF Semantic!Chunk, n
<1>3. CASE n <= Len(s)
  <2>1. n \in 0..Len(s)
    BY <1>1, <1>3
  <2>2. b \in Seq(Jobs) /\ NoRepeat(b)
    BY <2>1, LaterPart
  <2>3. DOMAIN b = 1..(Len(s) - n) /\ \A i \in 1..(Len(s) - n) : b[i] = s[n + i]
    BY <2>1, Split
  <2> HIDE DEF b
  <2>4. \A i \in DOMAIN b : n + i \in DOMAIN s /\ b[i] = s[n + i] /\ n + i \notin 1..n
    <3>1. \A i \in 1..(Len(s) - n) : n + i \in 1..Len(s) /\ n + i \notin 1..n
      BY <1>1, <1>3
    <3> QED BY <1>1, <2>3, <3>1
  <2>5. \A i \in DOMAIN s : i \notin 1..n => i - n \in DOMAIN b /\ b[i - n] = s[i]
    <3>1. \A i \in 1..Len(s) : i \notin 1..n => i - n \in 1..(Len(s) - n) /\ n + (i - n) = i
      BY <1>1, <1>3
    <3> QED BY <1>1, <2>3, <3>1
  <2>6. Elements(s) = Semantic!Chunk(s) \cup Elements(b)
    <3>1. Elements(b) \subseteq Elements(s) /\ Semantic!Chunk(s) \subseteq Elements(s)
      BY <1>2, <2>4 DEF Elements
    <3>2. Elements(s) \subseteq Semantic!Chunk(s) \cup Elements(b)
      BY <1>2, <2>5 DEF Elements
    <3> QED BY <3>1, <3>2
  <2>7. Semantic!Chunk(s) \cap Elements(b) = {}
    BY <1>2, <2>4 DEF Elements, NoRepeat
  <2> QED BY <1>1, <2>2, <2>6, <2>7
<1>4. CASE ~(n <= Len(s))
  <2>1. b = << >>
    BY <1>1, <1>4
  <2>2. \A i \in DOMAIN s : i \in 1..n
    BY <1>1, <1>4
  <2>3. Elements(s) = Semantic!Chunk(s)
    BY <1>2, <2>2 DEF Elements
  <2>4. Elements(<< >>) = {} /\ NoRepeat(<< >>) /\ << >> \in Seq(Jobs)
    BY EmptySeq DEF Elements, NoRepeat
  <2> QED BY <1>1, <2>1, <2>3, <2>4
<1> QED BY <1>1, <1>3, <1>4

(* The circuit's functions.                                                 *)

LEMMA CircuitTypes ==
  ASSUME NEW c \in Circuits
  PROVE  /\ Semantic!Ticked(c) \in Circuits /\ Semantic!Begun(c) \in Circuits
         /\ Semantic!Succeeded(c) \in Circuits
         /\ Semantic!Failed(c) \in Circuits
         /\ Semantic!Ticked(c).state = "half-open" /\ Semantic!Ticked(c).probe =>
              c.state = "half-open" /\ c.probe
         /\ Semantic!Succeeded(c).state # "half-open" /\ Semantic!Failed(c).state # "half-open"
<1>1. Semantic!Ticked(c) \in Circuits
  BY DEF Semantic!Ticked, Circuits
<1>2. Semantic!Begun(c) \in Circuits
  BY DEF Semantic!Begun, Circuits
<1>3. Semantic!Succeeded(c) \in Circuits /\ Semantic!Succeeded(c).state # "half-open"
  BY DEF Semantic!Succeeded, Circuits, Semantic!Fresh
<1>4. Semantic!Failed(c) \in Circuits /\ Semantic!Failed(c).state # "half-open"
  <2>1. c.failures + 1 \in Nat
    BY DEF Circuits
  <2> QED BY <2>1 DEF Semantic!Failed, Circuits
<1>5. Semantic!Ticked(c).state = "half-open" /\ Semantic!Ticked(c).probe =>
        c.state = "half-open" /\ c.probe
  BY DEF Semantic!Ticked, Circuits
<1> QED BY <1>1, <1>2, <1>3, <1>4, <1>5

\* The circuit a job finds.
LEMMA CircuitFound ==
  ASSUME Semantic!TypeOK, NEW j \in Jobs
  PROVE  /\ at[j] \in Processes /\ TenantOf[j] \in Semantic!Tenants
         /\ circuit \in [Processes -> [Semantic!Tenants -> Circuits]]
         /\ circuit[at[j]][TenantOf[j]] \in Circuits /\ Semantic!CircuitOf(j) \in Circuits
         /\ Semantic!CircuitOf(j).state = "half-open" /\ Semantic!CircuitOf(j).probe =>
              circuit[at[j]][TenantOf[j]].state = "half-open" /\ circuit[at[j]][TenantOf[j]].probe
<1>1. /\ at[j] \in Processes /\ TenantOf[j] \in Semantic!Tenants
      /\ circuit \in [Processes -> [Semantic!Tenants -> Circuits]]
  BY DEF Semantic!TypeOK, Semantic!Tenants, Circuits
<1>2. circuit[at[j]][TenantOf[j]] \in Circuits
  BY <1>1
<1> QED BY <1>1, <1>2, CircuitTypes DEF Semantic!CircuitOf

\* A circuit that changes.
LEMMA BecomesType ==
  ASSUME Semantic!TypeOK, NEW j \in Jobs, NEW c \in Circuits, Semantic!Becomes(j, c)
  PROVE  /\ circuit' \in [Processes -> [Semantic!Tenants -> Circuits]]
         /\ circuit'[at[j]][TenantOf[j]] = c
         /\ \A p \in Processes, t \in Semantic!Tenants :
              ~(p = at[j] /\ t = TenantOf[j]) => circuit'[p][t] = circuit[p][t]
<1>1. /\ at[j] \in Processes /\ TenantOf[j] \in Semantic!Tenants
      /\ circuit \in [Processes -> [Semantic!Tenants -> Circuits]]
  BY CircuitFound
<1>2. circuit' = [circuit EXCEPT ![at[j]] = [circuit[at[j]] EXCEPT ![TenantOf[j]] = c]]
  BY <1>1 DEF Semantic!Becomes
<1>3. [circuit[at[j]] EXCEPT ![TenantOf[j]] = c] \in [Semantic!Tenants -> Circuits]
  BY <1>1
<1> QED BY <1>1, <1>2, <1>3

\* Calls go on, and a circuit that is half open has its probe among them.
LEMMA ProbeKept ==
  ASSUME SemanticInv, at' = at, NEW j \in Jobs, NEW c \in Circuits, Semantic!Becomes(j, c),
         \A k \in Jobs \ {j} : step[k] = "calling" => step'[k] = "calling",
         c.state = "half-open" /\ c.probe =>
           \/ step'[j] = "calling"
           \/ /\ step[j] # "calling"
              /\ circuit[at[j]][TenantOf[j]].state = "half-open"
              /\ circuit[at[j]][TenantOf[j]].probe
  PROVE  Semantic!NoStuckProbe'
<1>1. /\ Semantic!TypeOK /\ Semantic!NoStuckProbe /\ at[j] \in Processes
      /\ TenantOf[j] \in Semantic!Tenants
  BY CircuitFound DEF SemanticInv
<1>2. /\ circuit'[at[j]][TenantOf[j]] = c
      /\ \A p \in Processes, t \in Semantic!Tenants :
           ~(p = at[j] /\ t = TenantOf[j]) => circuit'[p][t] = circuit[p][t]
  BY <1>1, BecomesType
<1> SUFFICES ASSUME NEW p \in Processes, NEW t \in Semantic!Tenants,
                    circuit'[p][t].state = "half-open", circuit'[p][t].probe
             PROVE  \E k \in Jobs : at[k] = p /\ TenantOf[k] = t /\ step'[k] = "calling"
  BY DEF Semantic!NoStuckProbe
<1>3. CASE p = at[j] /\ t = TenantOf[j]
  <2>1. CASE step'[j] = "calling"
    BY <1>3, <2>1
  <2>2. CASE /\ step[j] # "calling" /\ circuit[p][t].state = "half-open" /\ circuit[p][t].probe
    <3>1. PICK k \in Jobs : at[k] = p /\ TenantOf[k] = t /\ step[k] = "calling"
      BY <1>1, <2>2 DEF Semantic!NoStuckProbe
    <3> QED BY <2>2, <3>1
  <2> QED BY <1>2, <1>3, <2>1, <2>2
<1>4. CASE ~(p = at[j] /\ t = TenantOf[j])
  <2>1. PICK k \in Jobs : at[k] = p /\ TenantOf[k] = t /\ step[k] = "calling"
    BY <1>1, <1>2, <1>4 DEF Semantic!NoStuckProbe
  <2> QED BY <1>4, <2>1
<1> QED BY <1>3, <1>4

LEMMA ProbesGoOn ==
  ASSUME Semantic!NoStuckProbe, at' = at, circuit' = circuit,
         \A k \in Jobs : step[k] = "calling" => step'[k] = "calling"
  PROVE  Semantic!NoStuckProbe'
BY DEF Semantic!NoStuckProbe

-----------------------------------------------------------------------------
(* The slots.                                                               *)

LEMMA HoldersFinite ==
  ASSUME SemanticInv, NEW k \in Semantic!Keys
  PROVE  IsFiniteSet(Semantic!Holders(k)) /\ Cardinality(Semantic!Holders(k)) \in Nat
<1>1. Semantic!Holders(k) \subseteq {j \in Jobs : step[j] # "new"}
  BY DEF Semantic!Holders, Semantic!Holds, Semantic!Running
<1> QED BY <1>1, FS_Subset, FS_CardinalityType DEF SemanticInv, FinitelyMany

\* At most one job has come.
LEMMA OneMore ==
  ASSUME SemanticInv, NEW j \in Jobs, \A k \in Jobs \ {j} : step'[k] # "new" => step[k] # "new"
  PROVE  FinitelyMany'
<1> DEFINE S == {k \in Jobs : step[k] # "new"}
           T == {k \in Jobs : step'[k] # "new"}
<1>1. IsFiniteSet(S)
  BY DEF SemanticInv, FinitelyMany
<1>2. T \subseteq S \cup {j}
  OBVIOUS
<1> HIDE DEF S, T
<1>3. IsFiniteSet(S \cup {j})
  BY <1>1, FS_AddElement
<1>4. IsFiniteSet(T)
  BY <1>2, <1>3, FS_Subset
<1> QED BY <1>4 DEF FinitelyMany, T

LEMMA LimitType == \A k \in Semantic!Keys : Semantic!Limit(k) \in Nat
BY StoresAssumption DEF Semantic!Limit

\* Nobody takes or leaves a slot.
LEMMA SameHolders ==
  ASSUME Semantic!SlotsAccounted, UNCHANGED <<slots, leaked, miscounted>>,
         \A k \in Jobs : Semantic!Holds(k)' = Semantic!Holds(k)
  PROVE  Semantic!SlotsAccounted'
<1>1. \A key \in Semantic!Keys : Semantic!Holders(key)' = Semantic!Holders(key)
  BY DEF Semantic!Holders
<1>2. SUFFICES ASSUME ~miscounted, NEW k \in Semantic!Keys
      PROVE  /\ slots[k] = Cardinality(Semantic!Holders(k)') + leaked[k]
             /\ slots[k] <= Semantic!Limit(k)
  BY SameCardinality DEF Semantic!SlotsAccounted
<1>3. slots[k] = Cardinality(Semantic!Holders(k)) + leaked[k] /\ slots[k] <= Semantic!Limit(k)
  BY <1>2, SameCardinality DEF Semantic!SlotsAccounted
<1>4. Semantic!Holders(k)' = Semantic!Holders(k)
  BY <1>1
<1> QED BY <1>3, <1>4

\* A job takes a slot of each of its keys.
LEMMA SlotTaken ==
  ASSUME SemanticInv, NEW j \in Jobs, ~Semantic!Holds(j), Semantic!Holds(j)', UNCHANGED <<leaked, miscounted>>,
         Semantic!Fits(j), slots' = Semantic!More(slots, j), \A k \in Jobs \ {j} : Semantic!Holds(k)' = Semantic!Holds(k)
  PROVE  Semantic!SlotsAccounted'
<1>1. SUFFICES ASSUME ~miscounted, NEW k \in Semantic!Keys
      PROVE  /\ slots'[k] = Cardinality(Semantic!Holders(k)') + leaked[k]
             /\ slots'[k] <= Semantic!Limit(k)
  BY SameCardinality DEF Semantic!SlotsAccounted
<1>2. /\ slots[k] = Cardinality(Semantic!Holders(k)) + leaked[k] /\ slots[k] <= Semantic!Limit(k)
      /\ slots[k] \in Nat /\ leaked[k] \in Nat /\ Semantic!Limit(k) \in Nat
      /\ IsFiniteSet(Semantic!Holders(k)) /\ Cardinality(Semantic!Holders(k)) \in Nat
  BY <1>1, HoldersFinite, LimitType, SameCardinality
     DEF SemanticInv, Semantic!SlotsAccounted, Semantic!TypeOK
<1>3. CASE k \in Semantic!KeysOf(j)
  <2>1. Semantic!Holders(k)' = Semantic!Holders(k) \cup {j} /\ j \notin Semantic!Holders(k)
    BY <1>3 DEF Semantic!Holders
  <2>2. Cardinality(Semantic!Holders(k) \cup {j}) = Cardinality(Semantic!Holders(k)) + 1
    BY <1>2, <2>1, FS_AddElement
  <2>3. Cardinality(Semantic!Holders(k)') = Cardinality(Semantic!Holders(k)) + 1
    BY <2>1, <2>2, Zenon
  <2>4. slots'[k] = slots[k] + 1 /\ slots[k] < Semantic!Limit(k)
    BY <1>3 DEF Semantic!More, Semantic!Fits
  <2> QED BY <1>2, <2>3, <2>4
<1>4. CASE k \notin Semantic!KeysOf(j)
  <2>1. Semantic!Holders(k)' = Semantic!Holders(k)
    BY <1>4 DEF Semantic!Holders
  <2>2. slots'[k] = slots[k]
    BY <1>4 DEF Semantic!More
  <2> QED BY <1>2, <2>1, <2>2
<1> QED BY <1>3, <1>4

\* A job that holds slots is over: they are given back, or leak.
LEMMA SlotLeft ==
  ASSUME SemanticInv, NEW j \in Jobs, Semantic!Holds(j), ~Semantic!Holds(j)', UNCHANGED miscounted,
         \A k \in Jobs \ {j} : Semantic!Holds(k)' = Semantic!Holds(k),
         \/ slots' = Semantic!Fewer(j) /\ leaked' = leaked
         \/ slots' = slots /\ leaked' = Semantic!More(leaked, j)
  PROVE  Semantic!SlotsAccounted'
<1>1. SUFFICES ASSUME ~miscounted, NEW k \in Semantic!Keys
      PROVE  /\ slots'[k] = Cardinality(Semantic!Holders(k)') + leaked'[k]
             /\ slots'[k] <= Semantic!Limit(k)
  BY SameCardinality DEF Semantic!SlotsAccounted
<1>2. /\ slots[k] = Cardinality(Semantic!Holders(k)) + leaked[k] /\ slots[k] <= Semantic!Limit(k)
      /\ slots[k] \in Nat /\ leaked[k] \in Nat /\ Semantic!Limit(k) \in Nat
      /\ IsFiniteSet(Semantic!Holders(k)) /\ Cardinality(Semantic!Holders(k)) \in Nat
  BY <1>1, HoldersFinite, LimitType, SameCardinality
     DEF SemanticInv, Semantic!SlotsAccounted, Semantic!TypeOK
<1>3. CASE k \in Semantic!KeysOf(j)
  <2>1. Semantic!Holders(k)' = Semantic!Holders(k) \ {j} /\ j \in Semantic!Holders(k)
    BY <1>3 DEF Semantic!Holders
  <2>2. Cardinality(Semantic!Holders(k) \ {j}) = Cardinality(Semantic!Holders(k)) - 1
    BY <1>2, <2>1, FS_RemoveElement
  <2>3. Cardinality(Semantic!Holders(k)') = Cardinality(Semantic!Holders(k)) - 1
    BY <2>1, <2>2, Zenon
  <2>4. Cardinality(Semantic!Holders(k) \ {j}) \in Nat
    BY <1>2, FS_RemoveElement, FS_CardinalityType
  <2>5. slots[k] > 0
    BY <1>2, <2>2, <2>4
  <2>6. \/ slots'[k] = slots[k] - 1 /\ leaked'[k] = leaked[k]
        \/ slots'[k] = slots[k] /\ leaked'[k] = leaked[k] + 1
    BY <1>3, <2>5 DEF Semantic!More, Semantic!Fewer
  <2> QED BY <1>2, <2>3, <2>6
<1>4. CASE k \notin Semantic!KeysOf(j)
  <2>1. Semantic!Holders(k)' = Semantic!Holders(k)
    BY <1>4 DEF Semantic!Holders
  <2>2. slots'[k] = slots[k] /\ leaked'[k] = leaked[k]
    BY <1>4 DEF Semantic!More, Semantic!Fewer
  <2> QED BY <1>2, <2>1, <2>2
<1> QED BY <1>3, <1>4

\* Counts stay counts.
LEMMA CountTypes ==
  ASSUME Semantic!TypeOK, NEW j \in Jobs
  PROVE  /\ Semantic!More(slots, j) \in [Semantic!Keys -> Nat]
         /\ Semantic!More(leaked, j) \in [Semantic!Keys -> Nat]
         /\ Semantic!Fewer(j) \in [Semantic!Keys -> Nat]
BY DEF Semantic!TypeOK, Semantic!More, Semantic!Fewer

-----------------------------------------------------------------------------
(* The steps of a job.                                                      *)

LEMMA GoesEffect ==
  ASSUME Semantic!TypeOK, NEW j \in Jobs, NEW s \in Steps, Semantic!Goes(j, s)
  PROVE  /\ step' \in [Jobs -> Steps] /\ step'[j] = s
         /\ \A k \in Jobs \ {j} : step'[k] = step[k]
<1>1. step \in [Jobs -> Steps]
  BY DEF Semantic!TypeOK, Steps
<1> HIDE DEF Steps
<1> QED BY <1>1 DEF Semantic!Goes

\* The queues of one process change.
LEMMA OthersWait ==
  ASSUME Waiting, UNCHANGED at, NEW p \in Processes,
         \A r \in Processes \ {p} : queue'[r] = queue[r] /\ batch'[r] = batch[r],
         \A k \in Jobs : step[k] = "queued" /\ at[k] # p => step'[k] = "queued",
         \A k \in WaitingJobs(p)' : k \in Jobs /\ at[k] = p /\ step'[k] = "queued",
         NoRepeat(queue'[p]), NoRepeat(batch'[p]),
         Elements(queue'[p]) \cap Elements(batch'[p]) = {}
  PROVE  Waiting'
<1> SUFFICES ASSUME NEW r \in Processes \ {p}
             PROVE  /\ \A k \in WaitingJobs(r)' : k \in Jobs /\ at[k] = r /\ step'[k] = "queued"
                    /\ NoRepeat(queue'[r]) /\ NoRepeat(batch'[r])
                    /\ Elements(queue'[r]) \cap Elements(batch'[r]) = {}
  BY DEF Waiting
<1>1. queue'[r] = queue[r] /\ batch'[r] = batch[r] /\ WaitingJobs(r)' = WaitingJobs(r)
  BY DEF WaitingJobs
<1>2. /\ \A k \in WaitingJobs(r) : k \in Jobs /\ at[k] = r /\ step[k] = "queued"
      /\ NoRepeat(queue[r]) /\ NoRepeat(batch[r])
      /\ Elements(queue[r]) \cap Elements(batch[r]) = {}
  BY DEF Waiting
<1>3. \A k \in WaitingJobs(r) : step'[k] = "queued"
  BY <1>2
<1> QED BY <1>1, <1>2, <1>3

LEMMA WaitingStays ==
  ASSUME Waiting, UNCHANGED <<at, step, queue, batch>> PROVE Waiting'
<1>1. \A r \in Processes : WaitingJobs(r)' = WaitingJobs(r)
  BY DEF WaitingJobs
<1> QED BY <1>1 DEF Waiting

\* A job that is not in a queue moves on.
LEMMA QueuesStay ==
  ASSUME Waiting, NEW j \in Jobs, step[j] # "queued", \A k \in Jobs \ {j} : step'[k] = step[k],
         UNCHANGED <<at, queue, batch>>
  PROVE  Waiting'
<1>1. \A p \in Processes : WaitingJobs(p)' = WaitingJobs(p)
  BY DEF WaitingJobs
<1> QED BY <1>1 DEF Waiting

LEMMA MovesOn ==
  ASSUME SemanticInv, NEW j \in Jobs, NEW s \in Steps, Semantic!Goes(j, s), step[j] # "queued",
         s # "new", s \in {"reading", "acquiring"} => mode[at[j]] # "local",
         Semantic!Holds(j)' = Semantic!Holds(j),
         UNCHANGED <<mode, slots, at, queue, batch, leaked, miscounted>>
  PROVE  /\ Waiting' /\ OnlyRedisAcquires' /\ FinitelyMany' /\ Semantic!SlotsAccounted'
         /\ step' \in [Jobs -> Steps]
<1>1. /\ step' \in [Jobs -> Steps] /\ step'[j] = s /\ \A k \in Jobs \ {j} : step'[k] = step[k]
      /\ Semantic!TypeOK /\ Waiting /\ OnlyRedisAcquires /\ Semantic!SlotsAccounted
  BY GoesEffect DEF SemanticInv
<1>2. Waiting'
  BY <1>1, QueuesStay
<1>3. OnlyRedisAcquires'
  BY <1>1 DEF OnlyRedisAcquires
<1>4. FinitelyMany'
  BY <1>1, OneMore
<1>5. Semantic!SlotsAccounted'
  <2>1. \A k \in Jobs : Semantic!Holds(k)' = Semantic!Holds(k)
    BY <1>1 DEF Semantic!Holds
  <2> QED BY <1>1, <2>1, SameHolders
<1> QED BY <1>1, <1>2, <1>3, <1>4, <1>5

\* A job joins its process's queue.
LEMMA PushedEffect ==
  ASSUME SemanticInv, NEW j \in Jobs, step[j] # "queued", Semantic!Pushed(j), UNCHANGED <<at, batch>>
  PROVE  /\ queue' \in [Processes -> Seq(Jobs)] /\ timer' \in [Processes -> BOOLEAN]
         /\ step' \in [Jobs -> Steps] /\ step'[j] = "queued"
         /\ \A k \in Jobs \ {j} : step'[k] = step[k]
         /\ Waiting'
<1>1. /\ Semantic!TypeOK /\ Waiting /\ at[j] \in Processes /\ "queued" \in Steps
      /\ queue \in [Processes -> Seq(Jobs)] /\ timer \in [Processes -> BOOLEAN]
  BY DEF SemanticInv, Semantic!TypeOK, Steps
<1>2. /\ step' \in [Jobs -> Steps] /\ step'[j] = "queued"
      /\ \A k \in Jobs \ {j} : step'[k] = step[k]
  BY <1>1, GoesEffect DEF Semantic!Pushed
<1>a. PICK p \in Processes : p = at[j]
  BY <1>1
<1> DEFINE q == Append(queue[p], j)
<1>3. /\ q \in Seq(Jobs) /\ Elements(q) = Elements(queue[p]) \cup {j}
  BY <1>1, AppendElements, AppendProperties
<1>4. j \notin WaitingJobs(p)
  BY <1>1, <1>a DEF Waiting
<1>5. NoRepeat(q)
  BY <1>1, <1>4, AppendNoRepeat DEF Waiting, WaitingJobs
<1> HIDE DEF q
<1>6. /\ queue' \in [Processes -> Seq(Jobs)] /\ queue'[p] = q
      /\ \A r \in Processes \ {p} : queue'[r] = queue[r]
      /\ timer' \in [Processes -> BOOLEAN]
  BY <1>1, <1>3, <1>a DEF Semantic!Pushed, q
<1>7. Waiting'
  <2>1. WaitingJobs(p)' = WaitingJobs(p) \cup {j}
    BY <1>3, <1>6 DEF WaitingJobs
  <2>2. Elements(q) \cap Elements(batch[p]) = {}
    BY <1>1, <1>3, <1>4 DEF Waiting, WaitingJobs
  <2>3. /\ \A k \in WaitingJobs(p) : k \in Jobs /\ at[k] = p /\ step[k] = "queued"
        /\ NoRepeat(batch[p])
    BY <1>1 DEF Waiting
  <2>4. \A k \in WaitingJobs(p)' : k \in Jobs /\ at[k] = p /\ step'[k] = "queued"
    BY <1>2, <1>4, <1>a, <2>1, <2>3
  <2>5. \A k \in Jobs : step[k] = "queued" /\ at[k] # p => step'[k] = "queued"
    BY <1>2
  <2> QED BY <1>1, <1>5, <1>6, <2>2, <2>3, <2>4, <2>5, OthersWait
<1> QED BY <1>2, <1>6, <1>7

\* ... and may drop its oldest job, which holds no slot.
LEMMA PushedLocallyEffect ==
  ASSUME SemanticInv, NEW j \in Jobs, step[j] = "new", mode[at[j]] = "local", Semantic!PushedLocally(j),
         UNCHANGED <<at, batch, mode>>
  PROVE  /\ queue' \in [Processes -> Seq(Jobs)] /\ timer' \in [Processes -> BOOLEAN]
         /\ step' \in [Jobs -> Steps] /\ step'[j] = "queued"
         /\ \A k \in Jobs \ {j} : step'[k] = step[k] \/ (step[k] = "queued" /\ step'[k] = "over")
         /\ \A k \in Jobs : Semantic!Holds(k)' = Semantic!Holds(k)
         /\ Waiting'
<1>a. PICK p \in Processes : p = at[j]
  BY DEF SemanticInv, Semantic!TypeOK
<1> DEFINE full == Len(queue[p]) >= DepthMax /\ queue[p] # << >>
           h == Head(queue[p])
           s == IF full THEN Tail(queue[p]) ELSE queue[p]
           q == Append(s, j)
<1>1. /\ Semantic!TypeOK /\ Waiting /\ p \in Processes /\ step \in [Jobs -> Steps]
      /\ queue \in [Processes -> Seq(Jobs)] /\ timer \in [Processes -> BOOLEAN]
      /\ queue[p] \in Seq(Jobs)
  BY DEF SemanticInv, Semantic!TypeOK, Steps
<1>2. /\ queue' = [queue EXCEPT ![p] = q] /\ timer' = [timer EXCEPT ![p] = TRUE]
      /\ step' = [k \in Jobs |->
           IF k = j THEN "queued" ELSE IF full /\ k = h THEN "over" ELSE step[k]]
  BY <1>a DEF Semantic!PushedLocally
<1>3. /\ s \in Seq(Jobs) /\ NoRepeat(s) /\ Elements(s) \subseteq Elements(queue[p])
      /\ full => h \in Elements(queue[p]) /\ h \notin Elements(s)
  <2>1. NoRepeat(queue[p])
    BY <1>1 DEF Waiting
  <2>2. CASE full
    <3>1. /\ Tail(queue[p]) \in Seq(Jobs)
          /\ Elements(queue[p]) = {h} \cup Elements(Tail(queue[p]))
          /\ NoRepeat(Tail(queue[p])) /\ h \notin Elements(Tail(queue[p]))
      BY <1>1, <2>1, <2>2, TailElements, TailNoRepeat
    <3>2. s = Tail(queue[p])
      BY <2>2
    <3> HIDE DEF s, h, full
    <3> QED BY <3>1, <3>2
  <2>3. CASE ~full
    <3>1. s = queue[p]
      BY <2>3
    <3> HIDE DEF s, full
    <3> QED BY <1>1, <2>1, <2>3, <3>1
  <2> QED BY <2>2, <2>3
<1>4. j \notin WaitingJobs(p)
  BY <1>1 DEF Waiting
<1> HIDE DEF s, full, h
<1>5. /\ q \in Seq(Jobs) /\ Elements(q) = Elements(s) \cup {j}
  BY <1>3, AppendElements, AppendProperties
<1>6. NoRepeat(q)
  BY <1>3, <1>4, AppendNoRepeat DEF WaitingJobs
<1> HIDE DEF q
<1>7. /\ queue' \in [Processes -> Seq(Jobs)] /\ queue'[p] = q
      /\ \A r \in Processes \ {p} : queue'[r] = queue[r]
      /\ timer' \in [Processes -> BOOLEAN]
  BY <1>1, <1>2, <1>5
<1>8. full => at[h] = p /\ step[h] = "queued"
  BY <1>1, <1>3 DEF Waiting, WaitingJobs
<1>9. /\ step' \in [Jobs -> Steps] /\ step'[j] = "queued"
      /\ \A k \in Jobs \ {j} : step'[k] = step[k] \/ (full /\ k = h /\ step'[k] = "over")
  BY <1>1, <1>2 DEF Steps
<1>10. \A k \in Jobs : Semantic!Holds(k)' = Semantic!Holds(k)
  BY <1>a, <1>8, <1>9 DEF Semantic!Holds, Semantic!Running
<1>11. Waiting'
  <2>1. WaitingJobs(p)' = Elements(s) \cup {j} \cup Elements(batch[p])
    BY <1>5, <1>7 DEF WaitingJobs
  <2>2. Elements(q) \cap Elements(batch[p]) = {}
    BY <1>1, <1>3, <1>4, <1>5 DEF Waiting, WaitingJobs
  <2>3. \A k \in Elements(s) \cup Elements(batch[p]) : k \in WaitingJobs(p) /\ (full => k # h)
    BY <1>1, <1>3 DEF Waiting, WaitingJobs
  <2>4. /\ \A k \in WaitingJobs(p) : k \in Jobs /\ at[k] = p /\ step[k] = "queued"
        /\ NoRepeat(batch[p])
    BY <1>1 DEF Waiting
  <2>5. \A k \in WaitingJobs(p)' : k \in Jobs /\ at[k] = p /\ step'[k] = "queued"
    <3>1. \A k \in Elements(s) \cup Elements(batch[p]) :
            k \in Jobs /\ at[k] = p /\ step'[k] = "queued"
      BY <1>4, <1>9, <2>3, <2>4
    <3> QED BY <1>a, <1>9, <2>1, <3>1
  <2>6. \A k \in Jobs : step[k] = "queued" /\ at[k] # p => step'[k] = "queued"
    BY <1>8, <1>9
  <2> QED BY <1>1, <1>6, <1>7, <2>2, <2>4, <2>5, <2>6, OthersWait
<1> QED BY <1>7, <1>8, <1>9, <1>10, <1>11

LEMMA EnqueueSemanticKeeps ==
  ASSUME SemanticInv, NEW j \in Jobs, Semantic!Enqueue(j)
  PROVE  SemanticInv'
<1>0. /\ Semantic!TypeOK /\ step[j] = "new" /\ Semantic!Becomes(j, Semantic!CircuitOf(j))
      /\ UNCHANGED <<mode, slots, at, batch, processing, faults, leaked, miscounted>>
      /\ Semantic!CircuitOf(j) \in Circuits
      /\ circuit' \in [Processes -> [Semantic!Tenants -> Circuits]]
      /\ Semantic!SlotsAccounted /\ OnlyRedisAcquires
  BY CircuitFound, BecomesType DEF SemanticInv, Semantic!Enqueue
<1>1. ASSUME /\ queue' \in [Processes -> Seq(Jobs)] /\ timer' \in [Processes -> BOOLEAN]
             /\ step' \in [Jobs -> Steps]
             /\ \A k \in Jobs \ {j} : step'[k] = step[k] \/ step[k] = "queued"
      PROVE  Semantic!TypeOK' /\ Semantic!NoStuckProbe'
  <2>1. Semantic!TypeOK'
    BY <1>0, <1>1 DEF Semantic!TypeOK, Steps, Circuits
  <2>2. Semantic!NoStuckProbe'
    BY <1>0, <1>1, CircuitFound, ProbeKept
  <2> QED BY <2>1, <2>2
<1>2. ASSUME NEW s \in {"over", "reading"}, Semantic!Goes(j, s), UNCHANGED <<queue, timer>>,
             s = "reading" => mode[at[j]] # "local"
      PROVE  SemanticInv'
  <2>1. s \in Steps /\ step'[j] = s /\ Semantic!Holds(j)' = Semantic!Holds(j)
    BY <1>0, <1>2, GoesEffect DEF Steps, Semantic!Holds, Semantic!Running
  <2>2. /\ Waiting' /\ OnlyRedisAcquires' /\ FinitelyMany' /\ Semantic!SlotsAccounted'
        /\ step' \in [Jobs -> Steps]
    BY <1>0, <1>2, <2>1, MovesOn
  <2>3. \A k \in Jobs \ {j} : step'[k] = step[k]
    BY <1>0, <1>2, <2>1, GoesEffect
  <2>4. queue' \in [Processes -> Seq(Jobs)] /\ timer' \in [Processes -> BOOLEAN]
    BY <1>0, <1>2 DEF Semantic!TypeOK
  <2> QED BY <1>1, <2>2, <2>3, <2>4 DEF SemanticInv
<1>3. ASSUME mode[at[j]] = "local", Semantic!PushedLocally(j)
      PROVE  SemanticInv'
  <2>1. /\ queue' \in [Processes -> Seq(Jobs)] /\ timer' \in [Processes -> BOOLEAN]
        /\ step' \in [Jobs -> Steps] /\ step'[j] = "queued"
        /\ \A k \in Jobs \ {j} : step'[k] = step[k] \/ (step[k] = "queued" /\ step'[k] = "over")
        /\ \A k \in Jobs : Semantic!Holds(k)' = Semantic!Holds(k)
        /\ Waiting'
    BY <1>0, <1>3, PushedLocallyEffect
  <2>2. Semantic!TypeOK' /\ Semantic!NoStuckProbe'
    BY <1>1, <2>1
  <2>3. Semantic!SlotsAccounted'
    BY <1>0, <2>1, SameHolders
  <2>4. OnlyRedisAcquires'
    BY <1>0, <2>1 DEF OnlyRedisAcquires
  <2>5. FinitelyMany'
    BY <2>1, OneMore
  <2> QED BY <2>1, <2>2, <2>3, <2>4, <2>5 DEF SemanticInv
<1>4. \/ Semantic!Goes(j, "over") /\ UNCHANGED <<queue, timer>>
      \/ mode[at[j]] = "local" /\ Semantic!PushedLocally(j)
      \/ mode[at[j]] # "local" /\ Semantic!Goes(j, "reading") /\ UNCHANGED <<queue, timer>>
  BY DEF Semantic!Enqueue
<1> QED BY <1>2, <1>3, <1>4

LEMMA ReadDepthKeeps ==
  ASSUME SemanticInv, NEW j \in Jobs, Semantic!ReadDepth(j)
  PROVE  SemanticInv'
<1>0. /\ Semantic!TypeOK /\ step[j] = "reading" /\ mode[at[j]] # "local" /\ Semantic!NoStuckProbe
      /\ UNCHANGED <<mode, slots, at, queue, batch, timer, processing, circuit, leaked, miscounted>>
  BY DEF SemanticInv, OnlyRedisAcquires, Semantic!ReadDepth
<1>1. PICK s \in {"over", "acquiring"} : Semantic!Goes(j, s)
  BY DEF Semantic!ReadDepth
<1>2. faults' \in 0..MaxFaults
  BY <1>0, StoresAssumption DEF Semantic!ReadDepth, Semantic!TypeOK
<1>3. s \in Steps /\ step'[j] = s /\ Semantic!Holds(j)' = Semantic!Holds(j)
  BY <1>0, <1>1, GoesEffect DEF Steps, Semantic!Holds, Semantic!Running
<1>4. /\ Waiting' /\ OnlyRedisAcquires' /\ FinitelyMany' /\ Semantic!SlotsAccounted'
      /\ step' \in [Jobs -> Steps]
  BY <1>0, <1>1, <1>3, MovesOn
<1>5. Semantic!TypeOK'
  BY <1>0, <1>2, <1>4 DEF Semantic!TypeOK, Steps
<1>6. Semantic!NoStuckProbe'
  <2>1. \A k \in Jobs : step[k] = "calling" => step'[k] = "calling"
    BY <1>0, <1>1, <1>3, GoesEffect
  <2> QED BY <1>0, <2>1, ProbesGoOn
<1> QED BY <1>4, <1>5, <1>6 DEF SemanticInv

\* A job that asks for slots joins the queue.
LEMMA AcquiredKeeps ==
  ASSUME SemanticInv, NEW j \in Jobs, step[j] = "acquiring", Semantic!Pushed(j),
         UNCHANGED <<mode, at, batch, processing, circuit, leaked>>, faults' \in 0..MaxFaults,
         \/ Semantic!Fits(j) /\ slots' = Semantic!More(slots, j) /\ miscounted' = miscounted
         \/ slots' = slots /\ miscounted' = TRUE
  PROVE  SemanticInv'
<1>0. /\ Semantic!TypeOK /\ mode[at[j]] # "local" /\ Semantic!NoStuckProbe /\ OnlyRedisAcquires
      /\ Semantic!SlotsAccounted
  BY DEF SemanticInv, OnlyRedisAcquires
<1>1. /\ queue' \in [Processes -> Seq(Jobs)] /\ timer' \in [Processes -> BOOLEAN]
      /\ step' \in [Jobs -> Steps] /\ step'[j] = "queued"
      /\ \A k \in Jobs \ {j} : step'[k] = step[k]
      /\ Waiting'
  BY PushedEffect
<1>2. Semantic!TypeOK'
  <2>1. slots' \in [Semantic!Keys -> Nat] /\ miscounted' \in BOOLEAN
    BY <1>0, CountTypes DEF Semantic!TypeOK
  <2> QED BY <1>0, <1>1, <2>1 DEF Semantic!TypeOK, Steps
<1>3. OnlyRedisAcquires'
  BY <1>0, <1>1 DEF OnlyRedisAcquires
<1>4. FinitelyMany'
  BY <1>1, OneMore
<1>5. Semantic!SlotsAccounted'
  <2>1. CASE Semantic!Fits(j) /\ slots' = Semantic!More(slots, j) /\ miscounted' = miscounted
    <3>1. /\ ~Semantic!Holds(j) /\ Semantic!Holds(j)'
          /\ \A k \in Jobs \ {j} : Semantic!Holds(k)' = Semantic!Holds(k)
      BY <1>0, <1>1 DEF Semantic!Holds, Semantic!Running
    <3> QED BY <2>1, <3>1, SlotTaken
  <2>2. CASE miscounted' = TRUE
    BY <2>2 DEF Semantic!SlotsAccounted
  <2> QED BY <2>1, <2>2
<1>6. Semantic!NoStuckProbe'
  <2>1. \A k \in Jobs : step[k] = "calling" => step'[k] = "calling"
    BY <1>1
  <2> QED BY <1>0, <2>1, ProbesGoOn
<1> QED BY <1>1, <1>2, <1>3, <1>4, <1>5, <1>6 DEF SemanticInv

\* ... or does not.
LEMMA NotAcquiredKeeps ==
  ASSUME SemanticInv, NEW j \in Jobs, step[j] = "acquiring", Semantic!Goes(j, "over"),
         UNCHANGED <<mode, at, queue, batch, timer, processing, circuit, miscounted>>,
         faults' \in 0..MaxFaults,
         \/ slots' = slots /\ leaked' = leaked
         \/ Semantic!Fits(j) /\ slots' = Semantic!More(slots, j) /\ leaked' = Semantic!More(leaked, j)
  PROVE  SemanticInv'
<1>0. /\ Semantic!TypeOK /\ Semantic!NoStuckProbe /\ Semantic!SlotsAccounted /\ OnlyRedisAcquires
      /\ Waiting
  BY DEF SemanticInv
<1>1. /\ step' \in [Jobs -> Steps] /\ step'[j] = "over"
      /\ \A k \in Jobs \ {j} : step'[k] = step[k]
  BY <1>0, GoesEffect DEF Steps
<1>2. Waiting'
  BY <1>0, <1>1, QueuesStay
<1>3. OnlyRedisAcquires' /\ FinitelyMany'
  BY <1>0, <1>1, OneMore DEF OnlyRedisAcquires
<1>4. Semantic!TypeOK'
  <2>1. slots' \in [Semantic!Keys -> Nat] /\ leaked' \in [Semantic!Keys -> Nat]
    BY <1>0, CountTypes DEF Semantic!TypeOK
  <2> QED BY <1>0, <1>1, <2>1 DEF Semantic!TypeOK, Steps
<1>5. \A k \in Jobs : Semantic!Holds(k)' = Semantic!Holds(k)
  BY <1>0, <1>1 DEF Semantic!Holds, Semantic!Running
<1>6. Semantic!SlotsAccounted'
  <2>1. CASE slots' = slots /\ leaked' = leaked
    BY <1>0, <1>5, <2>1, SameHolders
  <2>2. CASE Semantic!Fits(j) /\ slots' = Semantic!More(slots, j) /\ leaked' = Semantic!More(leaked, j)
    <3> SUFFICES ASSUME ~miscounted, NEW k \in Semantic!Keys
                 PROVE  /\ slots'[k] = Cardinality(Semantic!Holders(k)') + leaked'[k]
                        /\ slots'[k] <= Semantic!Limit(k)
      BY SameCardinality DEF Semantic!SlotsAccounted
    <3>1. /\ slots[k] = Cardinality(Semantic!Holders(k)) + leaked[k]
          /\ slots[k] <= Semantic!Limit(k)
          /\ slots[k] \in Nat /\ leaked[k] \in Nat /\ Semantic!Limit(k) \in Nat
          /\ Cardinality(Semantic!Holders(k)) \in Nat
      BY <1>0, HoldersFinite, LimitType, SameCardinality
         DEF Semantic!SlotsAccounted, Semantic!TypeOK
    <3>2. Semantic!Holders(k)' = Semantic!Holders(k)
      BY <1>5 DEF Semantic!Holders
    <3>3. Cardinality(Semantic!Holders(k)') = Cardinality(Semantic!Holders(k))
      BY <3>2, Zenon
    <3>4. \/ slots'[k] = slots[k] + 1 /\ leaked'[k] = leaked[k] + 1 /\ slots[k] < Semantic!Limit(k)
          \/ slots'[k] = slots[k] /\ leaked'[k] = leaked[k]
      BY <2>2 DEF Semantic!More, Semantic!Fits
    <3> QED BY <3>1, <3>3, <3>4
  <2> QED BY <2>1, <2>2
<1>7. Semantic!NoStuckProbe'
  <2>1. \A k \in Jobs : step[k] = "calling" => step'[k] = "calling"
    BY <1>1
  <2> QED BY <1>0, <2>1, ProbesGoOn
<1> QED BY <1>2, <1>3, <1>4, <1>6, <1>7 DEF SemanticInv

LEMMA AcquireKeeps ==
  ASSUME SemanticInv, NEW j \in Jobs, Semantic!Acquire(j) \/ Semantic!AcquireFails(j)
  PROVE  SemanticInv'
<1>0. /\ faults \in 0..MaxFaults /\ step[j] = "acquiring"
      /\ UNCHANGED <<mode, at, batch, processing, circuit>>
  BY DEF SemanticInv, Semantic!TypeOK, Semantic!Acquire, Semantic!AcquireFails
<1>1. CASE Semantic!Acquire(j) /\ Semantic!Fits(j)
  <2>1. /\ slots' = Semantic!More(slots, j) /\ Semantic!Pushed(j)
        /\ UNCHANGED <<faults, leaked, miscounted>>
    BY <1>1 DEF Semantic!Acquire
  <2>2. faults' \in 0..MaxFaults
    BY <1>0, <2>1
  <2> QED BY <1>0, <1>1, <2>1, <2>2, AcquiredKeeps
<1>2. CASE Semantic!Acquire(j) /\ ~Semantic!Fits(j)
  <2>1. Semantic!Goes(j, "over") /\ UNCHANGED <<slots, queue, timer, faults, leaked, miscounted>>
    BY <1>2 DEF Semantic!Acquire
  <2>2. faults' \in 0..MaxFaults
    BY <1>0, <2>1
  <2> QED BY <1>0, <2>1, <2>2, NotAcquiredKeeps
<1>3. CASE Semantic!AcquireFails(j)
  <2>1. faults' \in 0..MaxFaults
    BY <1>0, <1>3, StoresAssumption DEF Semantic!AcquireFails
  <2>2. PICK counted \in {FALSE, Semantic!Fits(j)} :
          /\ slots' = IF counted THEN Semantic!More(slots, j) ELSE slots
          /\ IF mode[at[j]] = "strict"
             THEN /\ Semantic!Goes(j, "over")
                  /\ leaked' = IF counted THEN Semantic!More(leaked, j) ELSE leaked
                  /\ UNCHANGED <<queue, timer, miscounted>>
             ELSE /\ Semantic!Pushed(j)
                  /\ miscounted' = (miscounted \/ ~counted)
                  /\ UNCHANGED leaked
    BY <1>3 DEF Semantic!AcquireFails
  <2>3. CASE mode[at[j]] = "strict"
    <3>1. \/ slots' = slots /\ leaked' = leaked
          \/ Semantic!Fits(j) /\ slots' = Semantic!More(slots, j) /\ leaked' = Semantic!More(leaked, j)
      BY <2>2, <2>3
    <3> QED BY <1>0, <2>1, <2>2, <2>3, <3>1, NotAcquiredKeeps
  <2>4. CASE mode[at[j]] # "strict"
    <3>1. CASE counted
      <4>1. Semantic!Fits(j) /\ slots' = Semantic!More(slots, j)
        BY <2>2, <3>1
      <4>2. miscounted' = miscounted
        <5>1. miscounted' = (miscounted \/ ~counted) /\ miscounted \in BOOLEAN
          BY <2>2, <2>4 DEF SemanticInv, Semantic!TypeOK
        <5> QED BY <3>1, <5>1, Zenon
      <4> QED BY <1>0, <2>1, <2>2, <2>4, <4>1, <4>2, AcquiredKeeps
    <3>2. CASE ~counted
      <4>1. slots' = slots /\ miscounted' = TRUE
        BY <2>2, <2>4, <3>2
      <4> QED BY <1>0, <2>1, <2>2, <2>4, <4>1, AcquiredKeeps
    <3> QED BY <3>1, <3>2
  <2> QED BY <2>3, <2>4
<1> QED BY <1>1, <1>2, <1>3

-----------------------------------------------------------------------------
(* A drain and its jobs.                                                    *)

\* The timer takes the queue; the jobs of its first chunk begin.
LEMMA TimerFiresKeeps ==
  ASSUME SemanticInv, NEW p \in Processes, Semantic!TimerFires(p)
  PROVE  SemanticInv'
<1>0. /\ Semantic!TypeOK /\ Waiting /\ OnlyRedisAcquires /\ FinitelyMany
      /\ Semantic!SlotsAccounted /\ Semantic!NoStuckProbe
      /\ UNCHANGED <<mode, slots, at, circuit, faults, leaked, miscounted>>
      /\ timer' \in [Processes -> BOOLEAN]
  BY DEF SemanticInv, Semantic!TimerFires, Semantic!TypeOK
<1>1. CASE processing[p] \/ queue[p] = << >>
  <2>1. UNCHANGED <<step, queue, batch, processing>>
    BY <1>1 DEF Semantic!TimerFires
  <2>2. Semantic!TypeOK' /\ OnlyRedisAcquires' /\ FinitelyMany' /\ Semantic!NoStuckProbe'
    BY <1>0, <2>1 DEF Semantic!TypeOK, OnlyRedisAcquires, FinitelyMany, Semantic!NoStuckProbe
  <2>3. Waiting'
    BY <1>0, <2>1, WaitingStays
  <2>4. Semantic!SlotsAccounted'
    <3>1. \A k \in Jobs : Semantic!Holds(k)' = Semantic!Holds(k)
      BY <1>0, <2>1 DEF Semantic!Holds
    <3> QED BY <1>0, <3>1, SameHolders
  <2> QED BY <2>2, <2>3, <2>4 DEF SemanticInv
<1>2. CASE ~(processing[p] \/ queue[p] = << >>)
  <2> DEFINE c == Semantic!Chunk(queue[p])
             rest == Semantic!AfterChunk(queue[p])
  <2>1. /\ processing' = [processing EXCEPT ![p] = TRUE]
        /\ queue' = [queue EXCEPT ![p] = << >>] /\ batch' = [batch EXCEPT ![p] = rest]
        /\ step' = [j \in Jobs |-> IF j \in c THEN "asking" ELSE step[j]]
    BY <1>2 DEF Semantic!TimerFires
  <2>2. queue[p] \in Seq(Jobs) /\ NoRepeat(queue[p])
    BY <1>0 DEF Semantic!TypeOK, Waiting
  <2>3. /\ rest \in Seq(Jobs) /\ NoRepeat(rest)
        /\ Elements(queue[p]) = c \cup Elements(rest) /\ c \cap Elements(rest) = {}
    BY <2>2, ChunkOfJobs
  <2> HIDE DEF c, rest
  <2>4. \A j \in c : j \in Jobs /\ at[j] = p /\ step[j] = "queued"
    BY <1>0, <2>3 DEF Waiting, WaitingJobs
  <2>5. /\ step' \in [Jobs -> Steps] /\ \A j \in c : step'[j] = "asking"
        /\ \A j \in Jobs \ c : step'[j] = step[j]
    BY <1>0, <2>1, <2>4 DEF Semantic!TypeOK, Steps, Semantic!Running
  <2>6. /\ queue' \in [Processes -> Seq(Jobs)] /\ batch' \in [Processes -> Seq(Jobs)]
        /\ processing' \in [Processes -> BOOLEAN]
        /\ queue'[p] = << >> /\ batch'[p] = rest
        /\ \A r \in Processes \ {p} : queue'[r] = queue[r] /\ batch'[r] = batch[r]
    BY <1>0, <2>1, <2>3 DEF Semantic!TypeOK
  <2>7. Semantic!TypeOK'
    BY <1>0, <2>5, <2>6 DEF Semantic!TypeOK, Steps
  <2>8. OnlyRedisAcquires' /\ FinitelyMany'
    <3>1. {j \in Jobs : step'[j] # "new"} = {j \in Jobs : step[j] # "new"}
      BY <2>4, <2>5
    <3> QED BY <1>0, <2>5, <3>1 DEF OnlyRedisAcquires, FinitelyMany
  <2>9. Semantic!SlotsAccounted'
    <3>1. \A k \in Jobs : Semantic!Holds(k)' = Semantic!Holds(k)
      BY <1>0, <2>4, <2>5 DEF Semantic!Holds, Semantic!Running
    <3> QED BY <1>0, <3>1, SameHolders
  <2>10. Semantic!NoStuckProbe'
    <3>1. \A k \in Jobs : step[k] = "calling" => step'[k] = "calling"
      BY <2>4, <2>5
    <3> QED BY <1>0, <3>1, ProbesGoOn
  <2>11. Waiting'
    <3>1. Elements(<< >>) = {} /\ NoRepeat(<< >>)
      BY DEF Elements, NoRepeat
    <3>2. WaitingJobs(p)' = Elements(rest)
      BY <2>6, <3>1 DEF WaitingJobs
    <3>3. \A k \in Elements(rest) : k \in Jobs /\ at[k] = p /\ step[k] = "queued"
      BY <1>0, <2>3 DEF Waiting, WaitingJobs
    <3>4. \A k \in WaitingJobs(p)' : k \in Jobs /\ at[k] = p /\ step'[k] = "queued"
      BY <2>3, <2>5, <3>2, <3>3
    <3>5. \A k \in Jobs : step[k] = "queued" /\ at[k] # p => step'[k] = "queued"
      BY <2>4, <2>5
    <3> QED BY <1>0, <2>3, <2>6, <3>1, <3>4, <3>5, OthersWait
  <2> QED BY <2>7, <2>8, <2>9, <2>10, <2>11 DEF SemanticInv
<1> QED BY <1>1, <1>2

\* A job of a chunk is over, and the next chunk may begin.
LEMMA JobOverEffect ==
  ASSUME SemanticInv, NEW j \in Jobs, step[j] = "releasing", Semantic!JobOver(j),
         UNCHANGED <<mode, at, queue>>
  PROVE  /\ batch' \in [Processes -> Seq(Jobs)] /\ timer' \in [Processes -> BOOLEAN]
         /\ processing' \in [Processes -> BOOLEAN]
         /\ step' \in [Jobs -> Steps] /\ step'[j] = "over"
         /\ \A k \in Jobs \ {j} : step'[k] = step[k] \/ (step[k] = "queued" /\ step'[k] = "asking")
         /\ Waiting'
<1>0. /\ Semantic!TypeOK /\ Waiting /\ at[j] \in Processes /\ step \in [Jobs -> Steps]
      /\ batch \in [Processes -> Seq(Jobs)] /\ timer \in [Processes -> BOOLEAN]
      /\ processing \in [Processes -> BOOLEAN] /\ "over" \in Steps
  BY DEF SemanticInv, Semantic!TypeOK, Steps
<1>a. PICK p \in Processes : p = at[j]
  BY <1>0
<1>1. \/ Semantic!Goes(j, "over") /\ UNCHANGED <<batch, processing, timer>>
      \/ /\ Semantic!Goes(j, "over") /\ UNCHANGED batch
         /\ processing' = [processing EXCEPT ![p] = FALSE] /\ Semantic!Rearmed(p)
      \/ /\ step' = [k \in Jobs |-> IF k = j THEN "over"
                                    ELSE IF k \in Semantic!Chunk(batch[p]) THEN "asking" ELSE step[k]]
         /\ batch' = [batch EXCEPT ![p] = Semantic!AfterChunk(batch[p])]
         /\ UNCHANGED <<processing, timer>>
  BY <1>a DEF Semantic!JobOver
<1>2. CASE Semantic!Goes(j, "over") /\ UNCHANGED batch /\ (\/ UNCHANGED <<processing, timer>>
                                                 \/ /\ processing' = [processing EXCEPT ![p] = FALSE]
                                                    /\ Semantic!Rearmed(p))
  <2>1. /\ step' \in [Jobs -> Steps] /\ step'[j] = "over"
        /\ \A k \in Jobs \ {j} : step'[k] = step[k]
    BY <1>0, <1>2, GoesEffect
  <2>2. Waiting'
    BY <1>0, <1>2, <2>1, QueuesStay
  <2>3. processing' \in [Processes -> BOOLEAN]
    BY <1>0, <1>2
  <2>4. timer' \in [Processes -> BOOLEAN]
    BY <1>0, <1>2 DEF Semantic!Rearmed
  <2> QED BY <1>0, <1>2, <2>1, <2>2, <2>3, <2>4
<1>3. ASSUME step' = [k \in Jobs |-> IF k = j THEN "over"
                                    ELSE IF k \in Semantic!Chunk(batch[p]) THEN "asking" ELSE step[k]],
             batch' = [batch EXCEPT ![p] = Semantic!AfterChunk(batch[p])],
             UNCHANGED <<processing, timer>>
      PROVE  /\ batch' \in [Processes -> Seq(Jobs)] /\ timer' \in [Processes -> BOOLEAN]
             /\ processing' \in [Processes -> BOOLEAN]
             /\ step' \in [Jobs -> Steps] /\ step'[j] = "over"
             /\ \A k \in Jobs \ {j} : step'[k] = step[k] \/ (step[k] = "queued" /\ step'[k] = "asking")
             /\ Waiting'
  <2> DEFINE c == Semantic!Chunk(batch[p])
             rest == Semantic!AfterChunk(batch[p])
  <2>1. batch[p] \in Seq(Jobs) /\ NoRepeat(batch[p])
    BY <1>0 DEF Waiting
  <2>2. /\ rest \in Seq(Jobs) /\ NoRepeat(rest)
        /\ Elements(batch[p]) = c \cup Elements(rest) /\ c \cap Elements(rest) = {}
    BY <2>1, ChunkOfJobs
  <2>3. /\ step' = [k \in Jobs |-> IF k = j THEN "over" ELSE IF k \in c THEN "asking" ELSE step[k]]
        /\ batch' = [batch EXCEPT ![p] = rest]
    BY <1>3
  <2> HIDE DEF c, rest
  <2>4. \A k \in WaitingJobs(p) : k \in Jobs /\ at[k] = p /\ step[k] = "queued"
    BY <1>0 DEF Waiting
  <2>5. \A k \in c : k \in WaitingJobs(p) /\ k # j
    BY <2>2, <2>4 DEF WaitingJobs
  <2>6. /\ step'[j] = "over" /\ \A k \in c : step'[k] = "asking"
        /\ \A k \in Jobs : k # j /\ k \notin c => step'[k] = step[k]
    BY <2>3, <2>4, <2>5
  <2>7. step' \in [Jobs -> Steps]
    BY <1>0, <2>3 DEF Steps, Semantic!Running
  <2>8. /\ batch' \in [Processes -> Seq(Jobs)] /\ batch'[p] = rest
        /\ \A r \in Processes \ {p} : batch'[r] = batch[r]
    BY <1>0, <2>2, <2>3
  <2>9. Waiting'
    <3>1. WaitingJobs(p)' = Elements(queue[p]) \cup Elements(rest)
      BY <2>8 DEF WaitingJobs
    <3>2. \A k \in WaitingJobs(p)' : k \in WaitingJobs(p) /\ k \notin c /\ k # j
      BY <1>0, <2>2, <2>4, <3>1 DEF Waiting, WaitingJobs
    <3>3. \A k \in WaitingJobs(p)' : k \in Jobs /\ at[k] = p /\ step'[k] = "queued"
      BY <2>4, <2>6, <3>2
    <3>4. \A k \in Jobs : step[k] = "queued" /\ at[k] # p => step'[k] = "queued"
      BY <2>4, <2>5, <2>6
    <3>5. NoRepeat(queue'[p]) /\ Elements(queue'[p]) \cap Elements(batch'[p]) = {}
      BY <1>0, <2>2, <2>8 DEF Waiting
    <3> QED BY <1>0, <2>2, <2>8, <3>3, <3>4, <3>5, OthersWait
  <2>10. \A k \in Jobs \ {j} : step'[k] = step[k] \/ (step[k] = "queued" /\ step'[k] = "asking")
    BY <2>4, <2>5, <2>6
  <2> QED BY <1>0, <1>3, <2>6, <2>7, <2>8, <2>9, <2>10
<1> QED BY <1>1, <1>2, <1>3

\* A job gives its slots back, or fails to.
LEMMA ReleaseKeeps ==
  ASSUME SemanticInv, NEW j \in Jobs, Semantic!Release(j) \/ Semantic!ReleaseFails(j)
  PROVE  SemanticInv'
<1>0. /\ Semantic!TypeOK /\ OnlyRedisAcquires /\ Semantic!SlotsAccounted /\ Semantic!NoStuckProbe
      /\ step[j] = "releasing" /\ Semantic!JobOver(j)
      /\ UNCHANGED <<mode, at, queue, circuit, miscounted>>
  BY DEF SemanticInv, Semantic!Release, Semantic!ReleaseFails
<1>1. /\ batch' \in [Processes -> Seq(Jobs)] /\ timer' \in [Processes -> BOOLEAN]
      /\ processing' \in [Processes -> BOOLEAN]
      /\ step' \in [Jobs -> Steps] /\ step'[j] = "over"
      /\ \A k \in Jobs \ {j} : step'[k] = step[k] \/ (step[k] = "queued" /\ step'[k] = "asking")
      /\ Waiting'
  BY <1>0, JobOverEffect
<1>2. \/ ~Semantic!Holds(j) /\ slots' = slots /\ leaked' = leaked
      \/ Semantic!Holds(j) /\ slots' = Semantic!Fewer(j) /\ leaked' = leaked
      \/ Semantic!Holds(j) /\ slots' = slots /\ leaked' = Semantic!More(leaked, j)
  BY DEF Semantic!Release, Semantic!ReleaseFails
<1>3. faults' \in 0..MaxFaults
  BY <1>0, StoresAssumption DEF Semantic!Release, Semantic!ReleaseFails, Semantic!TypeOK
<1>4. slots' \in [Semantic!Keys -> Nat] /\ leaked' \in [Semantic!Keys -> Nat]
  BY <1>0, <1>2, CountTypes DEF Semantic!TypeOK
<1>5. Semantic!TypeOK'
  BY <1>0, <1>1, <1>3, <1>4 DEF Semantic!TypeOK, Steps
<1>6. OnlyRedisAcquires' /\ FinitelyMany'
  BY <1>0, <1>1, OneMore DEF OnlyRedisAcquires
<1>7. Semantic!NoStuckProbe'
  <2>1. \A k \in Jobs : step[k] = "calling" => step'[k] = "calling"
    BY <1>0, <1>1
  <2> QED BY <1>0, <2>1, ProbesGoOn
<1>8. Semantic!SlotsAccounted'
  <2>1. \A k \in Jobs \ {j} : Semantic!Holds(k)' = Semantic!Holds(k)
    BY <1>0, <1>1 DEF Semantic!Holds, Semantic!Running
  <2>2. ~Semantic!Holds(j)'
    BY <1>1 DEF Semantic!Holds, Semantic!Running
  <2>3. CASE Semantic!Holds(j)
    BY <1>0, <1>2, <2>1, <2>2, <2>3, SlotLeft
  <2>4. CASE ~Semantic!Holds(j)
    <3>1. slots' = slots /\ leaked' = leaked
      BY <1>2, <2>4
    <3>2. ASSUME NEW k \in Jobs PROVE Semantic!Holds(k)' = Semantic!Holds(k)
      <4>1. CASE k = j
        <5>1. Semantic!Holds(j)' = FALSE /\ Semantic!Holds(j) = FALSE
          BY <2>2, <2>4 DEF Semantic!Holds
        <5> QED BY <4>1, <5>1, Zenon
      <4> QED BY <2>1, <4>1
    <3> QED BY <1>0, <3>1, <3>2, SameHolders
  <2> QED BY <2>3, <2>4
<1> QED BY <1>1, <1>5, <1>6, <1>7, <1>8 DEF SemanticInv

\* An audit before its end.
LEMMA AuditingKeeps ==
  ASSUME SemanticInv, NEW j \in Jobs, Semantic!RateLimited(j) \/ Semantic!Begin(j) \/ Semantic!CallEnds(j)
  PROVE  SemanticInv'
<1>0. /\ Semantic!TypeOK /\ Semantic!NoStuckProbe /\ step[j] \in {"asking", "calling"}
      /\ UNCHANGED <<mode, slots, at, queue, batch, timer, processing, faults, leaked, miscounted>>
      /\ Semantic!CircuitOf(j) \in Circuits
  BY CircuitFound DEF SemanticInv, Semantic!RateLimited, Semantic!Begin, Semantic!CallEnds
<1>1. ASSUME NEW s \in {"calling", "releasing"}, Semantic!Goes(j, s),
             circuit' \in [Processes -> [Semantic!Tenants -> Circuits]], Semantic!NoStuckProbe'
      PROVE  SemanticInv'
  <2>1. s \in Steps /\ step'[j] = s /\ Semantic!Holds(j)' = Semantic!Holds(j)
    BY <1>0, <1>1, GoesEffect DEF Steps, Semantic!Holds, Semantic!Running
  <2>2. /\ Waiting' /\ OnlyRedisAcquires' /\ FinitelyMany' /\ Semantic!SlotsAccounted'
        /\ step' \in [Jobs -> Steps]
    BY <1>0, <1>1, <2>1, MovesOn
  <2>3. Semantic!TypeOK'
    BY <1>0, <1>1, <2>2 DEF Semantic!TypeOK, Steps, Circuits
  <2> QED BY <1>1, <2>2, <2>3 DEF SemanticInv
<1>2. ASSUME NEW s \in {"calling", "releasing"}, Semantic!Goes(j, s), NEW c \in Circuits, Semantic!Becomes(j, c),
             c.state = "half-open" /\ c.probe =>
               \/ s = "calling"
               \/ /\ step[j] # "calling"
                  /\ circuit[at[j]][TenantOf[j]].state = "half-open"
                  /\ circuit[at[j]][TenantOf[j]].probe
      PROVE  SemanticInv'
  <2>1. step'[j] = s /\ \A k \in Jobs \ {j} : step'[k] = step[k]
    BY <1>0, <1>2, GoesEffect DEF Steps, Semantic!Running
  <2>2. Semantic!NoStuckProbe'
    BY <1>0, <1>2, <2>1, ProbeKept
  <2>3. circuit' \in [Processes -> [Semantic!Tenants -> Circuits]]
    BY <1>0, <1>2, BecomesType
  <2> QED BY <1>1, <1>2, <2>2, <2>3
<1>3. CASE Semantic!RateLimited(j)
  <2>1. Semantic!Goes(j, "releasing") /\ circuit' = circuit /\ step[j] = "asking"
    BY <1>3 DEF Semantic!RateLimited, Semantic!RefusedBeforeBegin
  <2>2. \A k \in Jobs : step[k] = "calling" => step'[k] = "calling"
    BY <1>0, <2>1, GoesEffect DEF Steps, Semantic!Running
  <2>3. Semantic!NoStuckProbe'
    BY <1>0, <2>1, <2>2, ProbesGoOn
  <2>4. circuit' \in [Processes -> [Semantic!Tenants -> Circuits]]
    BY <1>0, <2>1 DEF Semantic!TypeOK, Circuits
  <2> QED BY <1>1, <2>1, <2>3, <2>4
<1>4. CASE Semantic!Begin(j)
  <2>1. CASE Semantic!Blocks(Semantic!CircuitOf(j))
    <3>1. /\ Semantic!Goes(j, "releasing") /\ Semantic!Becomes(j, Semantic!CircuitOf(j))
          /\ step[j] = "asking"
      BY <1>4, <2>1 DEF Semantic!Begin
    <3> QED BY <1>0, <1>2, <3>1, CircuitFound
  <2>2. CASE ~Semantic!Blocks(Semantic!CircuitOf(j))
    <3>1. /\ Semantic!Goes(j, "calling")
          /\ Semantic!Becomes(j, Semantic!Begun(Semantic!CircuitOf(j)))
      BY <1>4, <2>2 DEF Semantic!Begin
    <3>2. Semantic!Begun(Semantic!CircuitOf(j)) \in Circuits
      BY <1>0, CircuitTypes
    <3> QED BY <1>2, <3>1, <3>2
  <2> QED BY <2>1, <2>2
<1>5. CASE Semantic!CallEnds(j)
  <2>1. PICK c \in {Semantic!Succeeded(Semantic!CircuitOf(j)), Semantic!Failed(Semantic!CircuitOf(j))} : Semantic!Goes(j, "releasing") /\ Semantic!Becomes(j, c)
    BY <1>5 DEF Semantic!CallEnds
  <2>2. c \in Circuits /\ c.state # "half-open"
    BY <1>0, CircuitTypes
  <2> QED BY <1>2, <2>1, <2>2
<1> QED BY <1>3, <1>4, <1>5

-----------------------------------------------------------------------------
(* Crashes, backoffs and expiries.                                          *)

LEMMA JobsCrashKeeps ==
  ASSUME SemanticInv, NEW p \in Processes, Semantic!Crash(p)
  PROVE  SemanticInv'
<1> DEFINE dead == {j \in Jobs : at[j] = p /\ step[j] \notin {"new", "over", "lost"}}
<1>0. /\ Semantic!TypeOK /\ Waiting /\ OnlyRedisAcquires /\ FinitelyMany
      /\ Semantic!SlotsAccounted /\ Semantic!NoStuckProbe
      /\ step' = [j \in Jobs |-> IF j \in dead THEN "lost" ELSE step[j]]
      /\ leaked' = [k \in Semantic!Keys |-> leaked[k] + Cardinality(dead \cap Semantic!Holders(k))]
      /\ queue' = [queue EXCEPT ![p] = << >>] /\ batch' = [batch EXCEPT ![p] = << >>]
      /\ timer' = [timer EXCEPT ![p] = FALSE] /\ processing' = [processing EXCEPT ![p] = FALSE]
      /\ circuit' = [circuit EXCEPT ![p] = [t \in Semantic!Tenants |-> Semantic!Fresh]]
      /\ UNCHANGED <<mode, slots, at, miscounted>>
  BY SameCardinality DEF SemanticInv, Semantic!Crash
<1>1. faults' \in 0..MaxFaults
  BY <1>0, StoresAssumption DEF Semantic!Crash, Semantic!TypeOK
<1>2. /\ dead \subseteq Jobs
      /\ \A j \in Jobs : j \in dead <=> at[j] = p /\ step[j] \notin {"new", "over", "lost"}
  OBVIOUS
<1> HIDE DEF dead
<1>3. /\ step' \in [Jobs -> Steps] /\ \A j \in dead : step'[j] = "lost"
      /\ \A j \in Jobs \ dead : step'[j] = step[j]
  BY <1>0, <1>2 DEF Semantic!TypeOK, Steps
<1>4. /\ queue' \in [Processes -> Seq(Jobs)] /\ batch' \in [Processes -> Seq(Jobs)]
      /\ queue'[p] = << >> /\ batch'[p] = << >>
      /\ \A r \in Processes \ {p} : queue'[r] = queue[r] /\ batch'[r] = batch[r]
  BY <1>0, EmptySeq DEF Semantic!TypeOK
<1>5. timer' \in [Processes -> BOOLEAN] /\ processing' \in [Processes -> BOOLEAN]
  BY <1>0 DEF Semantic!TypeOK
<1>6. /\ circuit' \in [Processes -> [Semantic!Tenants -> Circuits]]
      /\ \A t \in Semantic!Tenants : circuit'[p][t] = Semantic!Fresh
      /\ \A r \in Processes \ {p}, t \in Semantic!Tenants : circuit'[r][t] = circuit[r][t]
  <2>1. Semantic!Fresh \in Circuits
    BY DEF Semantic!Fresh, Circuits
  <2>2. [t \in Semantic!Tenants |-> Semantic!Fresh] \in [Semantic!Tenants -> Circuits]
    BY <2>1
  <2>3. circuit \in [Processes -> [Semantic!Tenants -> Circuits]]
    BY <1>0 DEF Semantic!TypeOK, Circuits
  <2> QED BY <1>0, <2>2, <2>3
<1>7. \A k \in Semantic!Keys : /\ IsFiniteSet(dead \cap Semantic!Holders(k)) /\ Cardinality(dead \cap Semantic!Holders(k)) \in Nat
                      /\ IsFiniteSet(Semantic!Holders(k) \ dead)
                      /\ Cardinality(Semantic!Holders(k) \ dead) \in Nat
                      /\ Cardinality(Semantic!Holders(k)) =
                           Cardinality(Semantic!Holders(k) \ dead) + Cardinality(dead \cap Semantic!Holders(k))
  <2> SUFFICES ASSUME NEW k \in Semantic!Keys
               PROVE  /\ IsFiniteSet(dead \cap Semantic!Holders(k))
                      /\ Cardinality(dead \cap Semantic!Holders(k)) \in Nat
                      /\ IsFiniteSet(Semantic!Holders(k) \ dead)
                      /\ Cardinality(Semantic!Holders(k) \ dead) \in Nat
                      /\ Cardinality(Semantic!Holders(k)) =
                           Cardinality(Semantic!Holders(k) \ dead) + Cardinality(dead \cap Semantic!Holders(k))
    OBVIOUS
  <2> DEFINE S == Semantic!Holders(k)
  <2>1. IsFiniteSet(S)
    BY HoldersFinite
  <2> HIDE DEF S
  <2>2. IsFiniteSet(dead \cap S) /\ IsFiniteSet(S \ dead)
    BY <2>1, FS_Subset
  <2>3. /\ Cardinality(dead \cap S) \in Nat /\ Cardinality(S \ dead) \in Nat
        /\ Cardinality(S) \in Nat
    BY <2>1, <2>2, FS_CardinalityType
  <2>4. Cardinality(S \ dead) = Cardinality(S) - Cardinality(S \cap dead)
    BY <2>1, FS_Difference
  <2>5. S \cap dead = dead \cap S
    OBVIOUS
  <2>6. Cardinality(S \cap dead) = Cardinality(dead \cap S)
    BY <2>5, Zenon
  <2>7. Cardinality(S) = Cardinality(S \ dead) + Cardinality(dead \cap S)
    BY <2>3, <2>4, <2>6
  <2> QED BY <2>2, <2>3, <2>7 DEF S
<1>8. leaked' \in [Semantic!Keys -> Nat]
  <2> DEFINE died(k) == Cardinality(dead \cap Semantic!Holders(k))
  <2>1. \A k \in Semantic!Keys : died(k) \in Nat
    BY <1>7
  <2>2. /\ leaked' = [k \in Semantic!Keys |-> leaked[k] + died(k)]
        /\ leaked \in [Semantic!Keys -> Nat]
    BY <1>0 DEF Semantic!TypeOK
  <2> HIDE DEF died
  <2>3. \A k \in Semantic!Keys : leaked[k] + died(k) \in Nat
    BY <2>1, <2>2
  <2> QED BY <2>2, <2>3
<1>9. Semantic!TypeOK'
  BY <1>0, <1>1, <1>3, <1>4, <1>5, <1>6, <1>8 DEF Semantic!TypeOK, Steps, Circuits
<1>10. Waiting'
  <2>1. Elements(<< >>) = {} /\ NoRepeat(<< >>)
    BY DEF Elements, NoRepeat
  <2>2. WaitingJobs(p)' = {}
    BY <1>4, <2>1 DEF WaitingJobs
  <2>3. \A k \in Jobs : step[k] = "queued" /\ at[k] # p => step'[k] = "queued"
    BY <1>2, <1>3
  <2> QED BY <1>0, <1>4, <2>1, <2>2, <2>3, OthersWait
<1>11. OnlyRedisAcquires'
  BY <1>0, <1>3 DEF OnlyRedisAcquires
<1>12. FinitelyMany'
  <2>1. {j \in Jobs : step'[j] # "new"} = {j \in Jobs : step[j] # "new"}
    BY <1>2, <1>3
  <2> QED BY <1>0, <2>1 DEF FinitelyMany
<1>13. Semantic!SlotsAccounted'
  <2> SUFFICES ASSUME ~miscounted, NEW k \in Semantic!Keys
               PROVE  /\ slots[k] = Cardinality(Semantic!Holders(k)') + leaked'[k]
                      /\ slots[k] <= Semantic!Limit(k)
    BY <1>0, SameCardinality DEF Semantic!SlotsAccounted
  <2>1. /\ slots[k] = Cardinality(Semantic!Holders(k)) + leaked[k]
        /\ slots[k] <= Semantic!Limit(k) /\ leaked[k] \in Nat
    BY <1>0, SameCardinality DEF Semantic!SlotsAccounted, Semantic!TypeOK
  <2>2. Semantic!Holders(k)' = Semantic!Holders(k) \ dead
    <3>1. \A j \in dead : ~Semantic!Holds(j)'
      BY <1>3 DEF Semantic!Holds, Semantic!Running
    <3>2. \A j \in Jobs \ dead : Semantic!Holds(j)' = Semantic!Holds(j)
      BY <1>0, <1>3 DEF Semantic!Holds
    <3> QED BY <1>2, <3>1, <3>2 DEF Semantic!Holders
  <2>3. Cardinality(Semantic!Holders(k)') = Cardinality(Semantic!Holders(k) \ dead)
    BY <2>2, Zenon
  <2>4. leaked'[k] = leaked[k] + Cardinality(dead \cap Semantic!Holders(k))
    BY <1>0
  <2>5. /\ Cardinality(dead \cap Semantic!Holders(k)) \in Nat
        /\ Cardinality(Semantic!Holders(k) \ dead) \in Nat
        /\ Cardinality(Semantic!Holders(k)) =
             Cardinality(Semantic!Holders(k) \ dead) + Cardinality(dead \cap Semantic!Holders(k))
    BY <1>7, Zenon
  <2> DEFINE a == Cardinality(Semantic!Holders(k))
             b == Cardinality(Semantic!Holders(k) \ dead)
             c == Cardinality(dead \cap Semantic!Holders(k))
             d == Cardinality(Semantic!Holders(k)')
  <2>6. a = b + c /\ b \in Nat /\ c \in Nat
    BY <2>5
  <2>7. d = b
    BY <2>3
  <2>8. leaked'[k] = leaked[k] + c /\ slots[k] = a + leaked[k] /\ leaked[k] \in Nat
    BY <2>1, <2>4
  <2> HIDE DEF a, b, c, d
  <2>9. slots[k] = d + leaked'[k]
    BY <2>6, <2>7, <2>8
  <2> QED BY <2>1, <2>9 DEF d
<1>14. Semantic!NoStuckProbe'
  <2> SUFFICES ASSUME NEW r \in Processes, NEW t \in Semantic!Tenants,
                      circuit'[r][t].state = "half-open", circuit'[r][t].probe
               PROVE  \E k \in Jobs : at[k] = r /\ TenantOf[k] = t /\ step'[k] = "calling"
    BY <1>0 DEF Semantic!NoStuckProbe
  <2>1. r # p
    BY <1>6 DEF Semantic!Fresh
  <2>2. PICK k \in Jobs : at[k] = r /\ TenantOf[k] = t /\ step[k] = "calling"
    BY <1>0, <1>6, <2>1 DEF Semantic!NoStuckProbe
  <2> QED BY <1>2, <1>3, <2>1, <2>2
<1> QED BY <1>9, <1>10, <1>11, <1>12, <1>13, <1>14 DEF SemanticInv

LEMMA BackoffEndsKeeps ==
  ASSUME SemanticInv, NEW p \in Processes, NEW t \in Semantic!Tenants, Semantic!BackoffEnds(p, t)
  PROVE  SemanticInv'
<1> DEFINE c == [circuit[p][t] EXCEPT !.due = TRUE]
           cs == [circuit[p] EXCEPT ![t] = c]
<1>0. /\ Semantic!TypeOK /\ Waiting /\ OnlyRedisAcquires /\ FinitelyMany
      /\ Semantic!SlotsAccounted /\ Semantic!NoStuckProbe
      /\ circuit[p][t].state = "open" /\ circuit \in [Processes -> [Semantic!Tenants -> Circuits]]
      /\ UNCHANGED <<mode, slots, at, step, queue, batch, timer, processing, faults, leaked, miscounted>>
  BY DEF SemanticInv, Semantic!BackoffEnds, Semantic!TypeOK, Circuits
<1>1. c \in Circuits /\ c.state = "open"
  <2>1. circuit[p][t] \in Circuits
    BY <1>0
  <2> QED BY <1>0, <2>1 DEF Circuits
<1>2. circuit' = [circuit EXCEPT ![p] = cs]
  BY <1>0 DEF Semantic!BackoffEnds
<1> HIDE DEF c
<1>3. /\ cs \in [Semantic!Tenants -> Circuits] /\ cs[t] = c
      /\ \A u \in Semantic!Tenants \ {t} : cs[u] = circuit[p][u]
  BY <1>0, <1>1
<1> HIDE DEF cs
<1>4. /\ circuit' \in [Processes -> [Semantic!Tenants -> Circuits]] /\ circuit'[p] = cs
      /\ \A r \in Processes \ {p} : circuit'[r] = circuit[r]
  BY <1>0, <1>2, <1>3
<1>5. Semantic!TypeOK'
  BY <1>0, <1>4 DEF Semantic!TypeOK, Circuits
<1>6. OnlyRedisAcquires' /\ FinitelyMany'
  BY <1>0 DEF OnlyRedisAcquires, FinitelyMany
<1>7. Semantic!SlotsAccounted'
  <2>1. \A k \in Jobs : Semantic!Holds(k)' = Semantic!Holds(k)
    BY <1>0 DEF Semantic!Holds
  <2> QED BY <1>0, <2>1, SameHolders
<1>8. Waiting'
  BY <1>0, WaitingStays
<1>9. Semantic!NoStuckProbe'
  <2>1. \A r \in Processes, u \in Semantic!Tenants :
          circuit'[r][u].state = "half-open" => circuit'[r][u] = circuit[r][u]
    BY <1>1, <1>3, <1>4
  <2> QED BY <1>0, <2>1 DEF Semantic!NoStuckProbe
<1> QED BY <1>5, <1>6, <1>7, <1>8, <1>9 DEF SemanticInv

LEMMA ExpireKeeps ==
  ASSUME SemanticInv, NEW key \in Semantic!Keys, Semantic!Expire(key)
  PROVE  SemanticInv'
<1>0. /\ Semantic!TypeOK /\ Waiting /\ OnlyRedisAcquires /\ FinitelyMany
      /\ Semantic!SlotsAccounted /\ Semantic!NoStuckProbe
      /\ Semantic!Holders(key) = {}
      /\ slots' = [slots EXCEPT ![key] = 0] /\ leaked' = [leaked EXCEPT ![key] = 0]
      /\ UNCHANGED <<mode, at, step, queue, batch, timer, processing, circuit, faults, miscounted>>
  BY DEF SemanticInv, Semantic!Expire
<1>1. Semantic!TypeOK'
  <2>1. slots' \in [Semantic!Keys -> Nat] /\ leaked' \in [Semantic!Keys -> Nat]
    BY <1>0 DEF Semantic!TypeOK
  <2> QED BY <1>0, <2>1 DEF Semantic!TypeOK
<1>2. OnlyRedisAcquires' /\ FinitelyMany' /\ Semantic!NoStuckProbe'
  BY <1>0 DEF OnlyRedisAcquires, FinitelyMany, Semantic!NoStuckProbe
<1>3. Waiting'
  BY <1>0, WaitingStays
<1>4. Semantic!SlotsAccounted'
  <2> SUFFICES ASSUME ~miscounted, NEW k \in Semantic!Keys
               PROVE  /\ slots'[k] = Cardinality(Semantic!Holders(k)') + leaked'[k]
                      /\ slots'[k] <= Semantic!Limit(k)
    BY <1>0, SameCardinality DEF Semantic!SlotsAccounted
  <2>1. Semantic!Holders(k)' = Semantic!Holders(k)
    BY <1>0 DEF Semantic!Holders, Semantic!Holds
  <2>2. CASE k = key
    <3>1. slots'[k] = 0 /\ leaked'[k] = 0 /\ Semantic!Limit(k) \in Nat
      BY <1>0, <2>2, LimitType DEF Semantic!TypeOK
    <3>2. Semantic!Holders(k)' = {}
      BY <1>0, <2>1, <2>2
    <3>3. Cardinality(Semantic!Holders(k)') = Cardinality({})
      BY <3>2, Zenon
    <3> QED BY <3>1, <3>3, FS_EmptySet
  <2>3. CASE k # key
    <3>1. slots'[k] = slots[k] /\ leaked'[k] = leaked[k]
      BY <1>0, <2>3 DEF Semantic!TypeOK
    <3>2. slots[k] = Cardinality(Semantic!Holders(k)) + leaked[k] /\ slots[k] <= Semantic!Limit(k)
      BY <1>0, SameCardinality DEF Semantic!SlotsAccounted
    <3>3. Cardinality(Semantic!Holders(k)') = Cardinality(Semantic!Holders(k))
      BY <2>1, Zenon
    <3> QED BY <3>1, <3>2, <3>3
  <2> QED BY <2>2, <2>3
<1> QED BY <1>1, <1>2, <1>3, <1>4 DEF SemanticInv

-----------------------------------------------------------------------------
(* The semantic audit's invariant.                                          *)

LEMMA InitSemanticInv == Semantic!Init => SemanticInv
<1> SUFFICES ASSUME Semantic!Init PROVE SemanticInv
  OBVIOUS
<1>1. \A p \in Processes : queue[p] = << >> /\ batch[p] = << >>
  BY DEF Semantic!Init
<1>2. \A j \in Jobs : step[j] = "new"
  BY DEF Semantic!Init
<1>3. Semantic!TypeOK
  <2>1. queue \in [Processes -> Seq(Jobs)] /\ batch \in [Processes -> Seq(Jobs)]
    BY EmptySeq DEF Semantic!Init
  <2>2. circuit \in [Processes -> [Semantic!Tenants -> Circuits]]
    <3>1. Semantic!Fresh \in Circuits
      BY DEF Semantic!Fresh, Circuits
    <3> QED BY <3>1 DEF Semantic!Init
  <2>3. slots \in [Semantic!Keys -> Nat] /\ leaked \in [Semantic!Keys -> Nat]
    BY DEF Semantic!Init
  <2>4. timer \in [Processes -> BOOLEAN] /\ processing \in [Processes -> BOOLEAN]
    BY DEF Semantic!Init
  <2>5. step \in [Jobs -> Steps]
    <3>1. "new" \in Steps
      BY DEF Steps
    <3> QED BY <3>1 DEF Semantic!Init
  <2>7. faults \in 0..MaxFaults /\ miscounted \in BOOLEAN
    <3>1. faults = 0 /\ miscounted = FALSE
      BY DEF Semantic!Init
    <3>2. faults \in 0..MaxFaults
      BY <3>1, StoresAssumption
    <3>3. miscounted \in BOOLEAN
      BY <3>1, Zenon
    <3> QED BY <3>2, <3>3
  <2>6. mode \in [Processes -> {"local", "redis", "strict"}] /\ at \in [Jobs -> Processes]
    BY DEF Semantic!Init
  <2> QED BY <2>1, <2>2, <2>3, <2>4, <2>5, <2>6, <2>7 DEF Semantic!TypeOK, Circuits, Steps
<1>4. Waiting
  <2>1. Elements(<< >>) = {} /\ NoRepeat(<< >>)
    BY DEF Elements, NoRepeat
  <2>2. \A p \in Processes : WaitingJobs(p) = {}
    BY <1>1, <2>1 DEF WaitingJobs
  <2> QED BY <1>1, <2>1, <2>2 DEF Waiting
<1>5. OnlyRedisAcquires
  BY <1>2 DEF OnlyRedisAcquires
<1>6. FinitelyMany
  <2>1. {j \in Jobs : step[j] # "new"} = {}
    BY <1>2
  <2> QED BY <2>1, FS_EmptySet DEF FinitelyMany
<1>7. Semantic!SlotsAccounted
  <2> SUFFICES ASSUME NEW k \in Semantic!Keys
               PROVE  /\ slots[k] = Cardinality(Semantic!Holders(k)) + leaked[k]
                      /\ slots[k] <= Semantic!Limit(k)
    BY SameCardinality DEF Semantic!SlotsAccounted
  <2>1. Semantic!Holders(k) = {}
    BY <1>2 DEF Semantic!Holders, Semantic!Holds, Semantic!Running
  <2>2. Cardinality(Semantic!Holders(k)) = Cardinality({})
    BY <2>1, Zenon
  <2>3. slots[k] = 0 /\ leaked[k] = 0
    BY DEF Semantic!Init
  <2> QED BY <2>2, <2>3, LimitType, FS_EmptySet
<1>8. Semantic!NoStuckProbe
  BY DEF Semantic!Init, Semantic!Fresh, Semantic!NoStuckProbe
<1> QED BY <1>3, <1>4, <1>5, <1>6, <1>7, <1>8 DEF SemanticInv

LEMMA NextSemanticInv == SemanticInv /\ [Semantic!Next]_<<faults, queue, batch, mode, semanticVars>> => SemanticInv'
<1> SUFFICES ASSUME SemanticInv, [Semantic!Next]_<<faults, queue, batch, mode, semanticVars>> PROVE SemanticInv'
  OBVIOUS
<1>1. ASSUME NEW j \in Jobs, Semantic!Enqueue(j) PROVE SemanticInv'
  BY <1>1, EnqueueSemanticKeeps
<1>2. ASSUME NEW j \in Jobs, Semantic!ReadDepth(j) PROVE SemanticInv'
  BY <1>2, ReadDepthKeeps
<1>3. ASSUME NEW j \in Jobs, Semantic!Acquire(j) \/ Semantic!AcquireFails(j) PROVE SemanticInv'
  BY <1>3, AcquireKeeps
<1>4. ASSUME NEW j \in Jobs, Semantic!Audit(j) PROVE SemanticInv'
  BY <1>4, AuditingKeeps, ReleaseKeeps DEF Semantic!Audit
<1>5. ASSUME NEW p \in Processes, Semantic!TimerFires(p) PROVE SemanticInv'
  BY <1>5, TimerFiresKeeps
<1>6. ASSUME NEW p \in Processes, Semantic!Crash(p) PROVE SemanticInv'
  BY <1>6, JobsCrashKeeps
<1>7. ASSUME NEW p \in Processes, NEW t \in Semantic!Tenants, Semantic!BackoffEnds(p, t) PROVE SemanticInv'
  BY <1>7, BackoffEndsKeeps
<1>8. ASSUME NEW k \in Semantic!Keys, Semantic!Expire(k) PROVE SemanticInv'
  BY <1>8, ExpireKeeps
<1>9. CASE UNCHANGED <<faults, queue, batch, mode, semanticVars>>
  <2>1. Waiting /\ UNCHANGED <<at, step, queue, batch>>
    BY <1>9 DEF semanticVars, SemanticInv
  <2>2. Waiting'
    BY <2>1, WaitingStays
  <2>3. Semantic!SlotsAccounted'
    <3>1. \A k \in Jobs : Semantic!Holds(k)' = Semantic!Holds(k)
      BY <1>9 DEF semanticVars, Semantic!Holds
    <3> QED BY <1>9, <3>1, SameHolders DEF semanticVars, SemanticInv
  <2>4. Semantic!TypeOK' /\ OnlyRedisAcquires' /\ FinitelyMany' /\ Semantic!NoStuckProbe'
    BY <1>9
       DEF semanticVars, SemanticInv, Semantic!TypeOK, OnlyRedisAcquires, FinitelyMany,
           Semantic!NoStuckProbe
  <2> QED BY <2>2, <2>3, <2>4 DEF SemanticInv
<1> QED BY <1>1, <1>2, <1>3, <1>4, <1>5, <1>6, <1>7, <1>8, <1>9 DEF Semantic!Next

-----------------------------------------------------------------------------
(* The rate limiter.                                                        *)

\* A process's count has every call that it granted.
GrantsCounted ==
  \A p \in Processes, k \in Limiter!Keys : local[p][k].granted <= local[p][k].count

LimiterInv == Limiter!TypeOK /\ GrantsCounted

\* Types of a call and what it asks for.
LEMMA CallTypes ==
  ASSUME Limiter!TypeOK, NEW c \in Checks
  PROVE  /\ calls[c].pc \in {"new", "lock", "incr", "expire", "answer", "over"}
         /\ calls[c].key \in Limiter!Keys /\ calls[c].at \in Processes
         /\ calls[c].allowed \in BOOLEAN
         /\ calls[c].weight \in Weights /\ Limiter!Delta(c) \in Nat
<1>1. /\ calls[c].pc \in {"new", "lock", "incr", "expire", "answer", "over"}
      /\ calls[c].key \in Limiter!Keys /\ calls[c].at \in Processes
      /\ calls[c].allowed \in BOOLEAN
      /\ calls[c].weight \in Weights
  BY DEF Limiter!TypeOK
<1> QED BY <1>1, StoresAssumption DEF Limiter!Delta

CallRecords == [pc : {"new", "lock", "incr", "expire", "answer", "over"}, key : Limiter!Keys,
                at : Processes, weight : Weights, allowed : BOOLEAN]

\* A call that goes on keeps its type.
LEMMA AnsweredType ==
  ASSUME Limiter!TypeOK, NEW c \in Checks, NEW allowed \in BOOLEAN, Limiter!Answered(c, allowed)
  PROVE  calls' \in [Checks -> CallRecords]
<1> DEFINE pc == IF calls[c].key = "region" /\ mode.spanning THEN "new" ELSE "over"
           key == IF mode.spanning THEN "global" ELSE "region"
           all == calls[c].allowed /\ allowed
           r == [calls[c] EXCEPT !.pc = pc, !.key = key, !.allowed = all]
<1>1. calls \in [Checks -> CallRecords] /\ calls[c].allowed \in BOOLEAN
  BY DEF Limiter!TypeOK, CallRecords
<1>2. calls' = [calls EXCEPT ![c].pc = pc, ![c].key = key, ![c].allowed = all]
  BY DEF Limiter!Answered
<1>3. pc \in {"new", "over"} /\ key \in Limiter!Keys /\ all \in BOOLEAN
  BY DEF Limiter!Keys
<1> HIDE DEF pc, key, all
<1>4. r \in CallRecords
  BY <1>1, <1>3 DEF CallRecords
<1>5. calls' = [calls EXCEPT ![c] = r]
  BY <1>1, <1>2
<1> QED BY <1>1, <1>4, <1>5

LEMMA GoesType ==
  ASSUME Limiter!TypeOK, NEW c \in Checks, NEW pc \in {"incr", "answer"}, Limiter!Goes(c, pc)
  PROVE  calls' \in [Checks -> CallRecords]
<1>1. calls \in [Checks -> CallRecords]
  BY DEF Limiter!TypeOK, CallRecords
<1>2. [calls[c] EXCEPT !.pc = pc] \in CallRecords
  BY <1>1 DEF CallRecords
<1> QED BY <1>1, <1>2 DEF Limiter!Goes

\* A count of one key.
LEMMA CountType ==
  ASSUME Limiter!TypeOK, NEW k \in Limiter!Keys, NEW n \in Nat
  PROVE  [redis EXCEPT ![k].count = redis[k].count + n]
           \in [Limiter!Keys -> [count : Nat, expires : BOOLEAN]]
<1>1. /\ redis \in [Limiter!Keys -> [count : Nat, expires : BOOLEAN]]
      /\ redis[k].count + n \in Nat
      /\ redis[k] \in [count : Nat, expires : BOOLEAN]
  BY DEF Limiter!TypeOK
<1>2. [redis[k] EXCEPT !.count = redis[k].count + n] \in [count : Nat, expires : BOOLEAN]
  BY <1>1
<1> QED BY <1>1, <1>2

\* The process of the call counts it; the other counts stay.
LEMMA MirroredEffect ==
  ASSUME LimiterInv, NEW c \in Checks, NEW allowed \in BOOLEAN, Limiter!Mirrored(c, allowed)
  PROVE  /\ local' \in [Processes -> [Limiter!Keys -> [count : Nat, granted : Nat]]]
         /\ GrantsCounted'
         /\ local'[calls[c].at][calls[c].key].granted =
              local[calls[c].at][calls[c].key].granted + (IF allowed THEN Limiter!Delta(c) ELSE 0)
         /\ local'[calls[c].at][calls[c].key].count =
              local[calls[c].at][calls[c].key].count + Limiter!Delta(c)
<1> DEFINE p == calls[c].at
           k == calls[c].key
           r == [count   |-> local[p][k].count + Limiter!Delta(c),
                 granted |-> local[p][k].granted + (IF allowed THEN Limiter!Delta(c) ELSE 0)]
<1>1. /\ p \in Processes /\ k \in Limiter!Keys /\ Limiter!Delta(c) \in Nat
      /\ local \in [Processes -> [Limiter!Keys -> [count : Nat, granted : Nat]]]
      /\ GrantsCounted
  BY CallTypes DEF LimiterInv, Limiter!TypeOK
<1>2. local' = [local EXCEPT ![p][k] = r]
  BY DEF Limiter!Mirrored
<1> HIDE DEF p, k
<1>3. /\ local[p][k].count \in Nat /\ local[p][k].granted \in Nat
      /\ local[p][k].granted <= local[p][k].count
  BY <1>1 DEF GrantsCounted
<1>4. r \in [count : Nat, granted : Nat] /\ r.granted <= r.count
  BY <1>1, <1>3
<1>5. /\ r.count = local[p][k].count + Limiter!Delta(c)
      /\ r.granted = local[p][k].granted + (IF allowed THEN Limiter!Delta(c) ELSE 0)
  OBVIOUS
<1> HIDE DEF r
<1>6. /\ local' \in [Processes -> [Limiter!Keys -> [count : Nat, granted : Nat]]]
      /\ local'[p][k] = r
      /\ \A q \in Processes, l \in Limiter!Keys : ~(q = p /\ l = k) => local'[q][l] = local[q][l]
  BY <1>1, <1>2, <1>4
<1>7. GrantsCounted'
  BY <1>1, <1>4, <1>6 DEF GrantsCounted
<1> QED BY <1>5, <1>6, <1>7 DEF p, k

LEMMA InitLimiterInv == Limiter!Init => LimiterInv
<1> SUFFICES ASSUME Limiter!Init PROVE LimiterInv
  OBVIOUS
<1>1. Limiter!TypeOK
  <2>1. Limiter!Ended \in [count : Nat, granted : Nat]
    BY DEF Limiter!Ended
  <2>2. calls \in [Checks -> CallRecords]
    BY DEF Limiter!Init, CallRecords, Limiter!Keys
  <2> QED BY <2>1, <2>2, StoresAssumption
             DEF Limiter!Init, Limiter!TypeOK, CallRecords, Limiter!Keys
<1>2. GrantsCounted
  BY DEF Limiter!Init, GrantsCounted, Limiter!Ended
<1> QED BY <1>1, <1>2 DEF LimiterInv

LEMMA CheckKeeps ==
  ASSUME LimiterInv, NEW c \in Checks, Limiter!Check(c)
  PROVE  LimiterInv'
<1>0. /\ Limiter!TypeOK /\ GrantsCounted
      /\ redis \in [Limiter!Keys -> [count : Nat, expires : BOOLEAN]]
      /\ calls[c].key \in Limiter!Keys /\ Limiter!Delta(c) \in Nat /\ calls[c].allowed \in BOOLEAN
      /\ calls \in [Checks -> CallRecords]
  BY CallTypes DEF LimiterInv, Limiter!TypeOK, CallRecords
<1>1. CASE Limiter!TakeLock(c)
  <2>1. calls' \in [Checks -> CallRecords]
    BY <1>0, <1>1, AnsweredType, GoesType DEF Limiter!TakeLock
  <2>2. lock' \subseteq Limiter!Keys /\ UNCHANGED <<mode, redis, local, faults, unbounded>>
    BY <1>0, <1>1 DEF Limiter!TakeLock, Limiter!TypeOK
  <2> QED BY <1>0, <2>1, <2>2 DEF LimiterInv, Limiter!TypeOK, GrantsCounted, CallRecords
<1>2. CASE Limiter!LockFails(c)
  <2>1. calls' \in [Checks -> CallRecords]
    BY <1>0, <1>2, GoesType DEF Limiter!LockFails
  <2>2. faults' \in 0..MaxFaults /\ UNCHANGED <<mode, redis, lock, local, unbounded>>
    BY <1>0, <1>2, StoresAssumption DEF Limiter!LockFails, Limiter!TypeOK
  <2> QED BY <1>0, <2>1, <2>2 DEF LimiterInv, Limiter!TypeOK, GrantsCounted, CallRecords
<1>3. CASE Limiter!Increment(c)
  <2> DEFINE pc == IF Limiter!NeedsExpiry(Limiter!Counted(c)) THEN "expire" ELSE "answer"
             allowed == calls[c].allowed /\ Limiter!Counted(c) <= Limits[calls[c].key]
  <2>1. /\ redis' \in [Limiter!Keys -> [count : Nat, expires : BOOLEAN]]
        /\ unbounded' \subseteq Limiter!Keys /\ UNCHANGED <<mode, lock, local, faults>>
        /\ calls' = [calls EXCEPT ![c].pc = pc, ![c].allowed = allowed]
    BY <1>0, <1>3, CountType DEF Limiter!Increment, Limiter!TypeOK
  <2>2. pc \in {"expire", "answer"} /\ allowed \in BOOLEAN
    OBVIOUS
  <2> HIDE DEF pc, allowed
  <2>3. [calls[c] EXCEPT !.pc = pc, !.allowed = allowed] \in CallRecords
    BY <1>0, <2>2 DEF CallRecords
  <2>4. calls' = [calls EXCEPT ![c] = [calls[c] EXCEPT !.pc = pc, !.allowed = allowed]]
    BY <1>0, <2>1
  <2>5. calls' \in [Checks -> CallRecords]
    BY <1>0, <2>3, <2>4
  <2> QED BY <1>0, <2>1, <2>5 DEF LimiterInv, Limiter!TypeOK, GrantsCounted, CallRecords
<1>4. CASE Limiter!SetExpiry(c)
  <2>1. calls' \in [Checks -> CallRecords]
    BY <1>0, <1>4, GoesType DEF Limiter!SetExpiry
  <2>2. UNCHANGED <<mode, lock, local, faults, unbounded>>
    BY <1>4 DEF Limiter!SetExpiry
  <2>3. redis' \in [Limiter!Keys -> [count : Nat, expires : BOOLEAN]]
    <3> DEFINE b == redis[calls[c].key].count > 0
    <3>1. redis' = [redis EXCEPT ![calls[c].key].expires = b]
      BY <1>4 DEF Limiter!SetExpiry
    <3>2. b \in BOOLEAN
      OBVIOUS
    <3> HIDE DEF b
    <3> QED BY <1>0, <3>1, <3>2
  <2> QED BY <1>0, <2>1, <2>2, <2>3 DEF LimiterInv, Limiter!TypeOK, GrantsCounted, CallRecords
<1>5. CASE Limiter!Return(c)
  <2>1. /\ local' \in [Processes -> [Limiter!Keys -> [count : Nat, granted : Nat]]]
        /\ GrantsCounted'
    BY <1>0, <1>5, MirroredEffect DEF Limiter!Return
  <2>2. calls' \in [Checks -> CallRecords]
    BY <1>0, <1>5, AnsweredType DEF Limiter!Return
  <2>3. UNCHANGED <<mode, redis, lock, faults, unbounded>>
    BY <1>5 DEF Limiter!Return
  <2> QED BY <1>0, <2>1, <2>2, <2>3 DEF LimiterInv, Limiter!TypeOK, CallRecords
<1>6. CASE Limiter!RedisFails(c)
  <2> DEFINE allowed == ~mode.strict /\ Limiter!GrantedAlone(c)
  <2>1. /\ faults < MaxFaults /\ faults' = faults + 1 /\ UNCHANGED <<mode, lock>>
        /\ IF mode.strict THEN UNCHANGED local ELSE Limiter!Mirrored(c, allowed)
        /\ Limiter!Answered(c, allowed)
    BY <1>6 DEF Limiter!RedisFails
  <2>2. /\ redis' \in [Limiter!Keys -> [count : Nat, expires : BOOLEAN]]
        /\ unbounded' \subseteq Limiter!Keys
    <3>1. unbounded \subseteq Limiter!Keys
      BY <1>0 DEF Limiter!TypeOK
    <3>2. \/ UNCHANGED redis
          \/ redis' = [redis EXCEPT ![calls[c].key].count = redis[calls[c].key].count + Limiter!Delta(c)]
      BY <1>6 DEF Limiter!RedisFails
    <3>3. redis' \in [Limiter!Keys -> [count : Nat, expires : BOOLEAN]]
      BY <1>0, <3>2, CountType
    <3>4. unbounded' = unbounded \/ unbounded' = unbounded \cup {calls[c].key}
      BY <1>6 DEF Limiter!RedisFails
    <3> QED BY <1>0, <3>1, <3>3, <3>4
  <2>3. allowed \in BOOLEAN
    OBVIOUS
  <2> HIDE DEF allowed
  <2>4. calls' \in [Checks -> CallRecords]
    BY <1>0, <2>1, <2>3, AnsweredType
  <2>5. local' \in [Processes -> [Limiter!Keys -> [count : Nat, granted : Nat]]] /\ GrantsCounted'
    <3>1. CASE mode.strict
      BY <1>0, <2>1, <3>1 DEF Limiter!TypeOK, GrantsCounted
    <3>2. CASE ~mode.strict
      BY <2>1, <2>3, <3>2, MirroredEffect
    <3> QED BY <3>1, <3>2
  <2>6. faults' \in 0..MaxFaults
    BY <1>0, <2>1, StoresAssumption DEF Limiter!TypeOK
  <2> QED BY <1>0, <2>1, <2>2, <2>4, <2>5, <2>6 DEF LimiterInv, Limiter!TypeOK, CallRecords
<1> QED BY <1>1, <1>2, <1>3, <1>4, <1>5, <1>6 DEF Limiter!Check

LEMMA NextLimiterInv == LimiterInv /\ [Limiter!Next]_<<faults, mode, calls, limiterVars>> => LimiterInv'
<1> SUFFICES ASSUME LimiterInv, [Limiter!Next]_<<faults, mode, calls, limiterVars>> PROVE LimiterInv'
  OBVIOUS
<1>1. ASSUME NEW k \in Limiter!Keys, Limiter!WindowEnds(k) PROVE LimiterInv'
  BY <1>1 DEF LimiterInv, Limiter!TypeOK, GrantsCounted, Limiter!WindowEnds
<1>2. ASSUME NEW k \in Limiter!Keys, Limiter!LockEnds(k) PROVE LimiterInv'
  BY <1>2 DEF LimiterInv, Limiter!TypeOK, GrantsCounted, Limiter!LockEnds
<1>3. ASSUME NEW p \in Processes, NEW k \in Limiter!Keys, Limiter!LocalWindowEnds(p, k) PROVE LimiterInv'
  <2>1. local \in [Processes -> [Limiter!Keys -> [count : Nat, granted : Nat]]] /\ GrantsCounted
    BY DEF LimiterInv, Limiter!TypeOK
  <2>2. /\ Limiter!Ended \in [count : Nat, granted : Nat]
        /\ Limiter!Ended.granted <= Limiter!Ended.count
    BY DEF Limiter!Ended
  <2>3. /\ local' = [local EXCEPT ![p][k] = Limiter!Ended]
        /\ UNCHANGED <<mode, redis, lock, calls, faults, unbounded>>
    BY <1>3 DEF Limiter!LocalWindowEnds
  <2>4. /\ local' \in [Processes -> [Limiter!Keys -> [count : Nat, granted : Nat]]]
        /\ \A q \in Processes, l \in Limiter!Keys :
             local'[q][l] = local[q][l] \/ local'[q][l] = Limiter!Ended
    BY <2>1, <2>2, <2>3
  <2>5. GrantsCounted'
    BY <2>1, <2>2, <2>4 DEF GrantsCounted
  <2> QED BY <2>3, <2>4, <2>5 DEF LimiterInv, Limiter!TypeOK
<1>4. CASE UNCHANGED <<faults, mode, calls, limiterVars>>
  BY <1>4 DEF limiterVars, LimiterInv, Limiter!TypeOK, GrantsCounted
<1> QED BY <1>1, <1>2, <1>3, <1>4, CheckKeeps DEF Limiter!Next

\* A grant by the process's own count.
LEMMA FallbackInLimit == LimiterInv => Limiter!FallbackGrantsInLimit
<1> SUFFICES ASSUME LimiterInv, NEW c \in Checks, Limiter!RedisFails(c),
                    local'[calls[c].at][calls[c].key].granted >
                      local[calls[c].at][calls[c].key].granted
             PROVE  local'[calls[c].at][calls[c].key].granted <= Limits[calls[c].key]
  BY DEF Limiter!FallbackGrantsInLimit
<1> DEFINE allowed == ~mode.strict /\ Limiter!GrantedAlone(c)
           was == local[calls[c].at][calls[c].key]
<1>1. /\ calls[c].key \in Limiter!Keys /\ calls[c].at \in Processes /\ Limiter!Delta(c) \in Nat
      /\ was.count \in Nat /\ was.granted \in Nat /\ was.granted <= was.count
      /\ Limits[calls[c].key] \in Nat
  <2>1. calls[c].key \in Limiter!Keys /\ calls[c].at \in Processes /\ Limiter!Delta(c) \in Nat
    BY CallTypes DEF LimiterInv
  <2>2. was.count \in Nat /\ was.granted \in Nat /\ was.granted <= was.count
    BY <2>1 DEF LimiterInv, Limiter!TypeOK, GrantsCounted
  <2> QED BY <2>1, <2>2, StoresAssumption DEF Limiter!Keys
<1>2. ~mode.strict /\ Limiter!Mirrored(c, allowed)
  <2>1. IF mode.strict THEN UNCHANGED local ELSE Limiter!Mirrored(c, allowed)
    BY DEF Limiter!RedisFails
  <2>2. local' = local => FALSE
    BY <1>1
  <2> QED BY <2>1, <2>2
<1>3. allowed \in BOOLEAN
  OBVIOUS
<1>4. local'[calls[c].at][calls[c].key].granted = was.granted + (IF allowed THEN Limiter!Delta(c) ELSE 0)
  <2> HIDE DEF allowed
  <2> QED BY <1>2, <1>3, MirroredEffect
<1>5. allowed
  <2> HIDE DEF allowed
  <2> QED BY <1>1, <1>4
<1>6. was.count + Limiter!Delta(c) <= Limits[calls[c].key]
  BY <1>5 DEF Limiter!GrantedAlone
<1> HIDE DEF allowed, was
<1> QED BY <1>1, <1>4, <1>5, <1>6

-----------------------------------------------------------------------------
(* The types of the hot state; its properties are in AgentGatewayProofs.    *)

\* An element less, and an element that changes.
LEMMA RemoveAtType ==
  ASSUME NEW S, NEW s \in Seq(S), NEW i \in DOMAIN s
  PROVE  /\ Hot!RemoveAt(s, i) \in Seq(S) /\ s[i] \in S
         /\ \A x \in S : [s EXCEPT ![i] = x] \in Seq(S)
<1>1. Len(s) \in Nat /\ DOMAIN s = 1..Len(s)
  BY LenProperties
<1>2. i \in 1..Len(s) /\ i \in Nat /\ i - 1 \in 0..Len(s) /\ i \in 0..Len(s)
  BY <1>1
<1>3. SubSeq(s, 1, i - 1) \in Seq(S) /\ SubSeq(s, i + 1, Len(s)) \in Seq(S)
  BY <1>2, Split
<1> QED BY <1>1, <1>2, <1>3, ConcatProperties, ElementOfSeq, ExceptSeq DEF Hot!RemoveAt

LEMMA ContinueTypes ==
  ASSUME Hot!TypeOK, NEW i \in DOMAIN upserts, NEW q \in Seq(Hot!Items), Hot!Continue(i, q)
  PROVE  upserts' \in Seq(Hot!Items) /\ queue' \in Seq(Hot!Items) /\ flushed' \in BOOLEAN
<1>1. upserts \in Seq(Hot!Items) /\ flushed \in BOOLEAN
  BY DEF Hot!TypeOK
<1>2. CASE q = << >>
  <2>1. flushed' \in BOOLEAN
    BY <1>2, Zenon DEF Hot!Continue
  <2>2. queue' = q /\ upserts' = Hot!RemoveAt(upserts, i)
    BY <1>2 DEF Hot!Continue
  <2> QED BY <1>1, <2>1, <2>2, RemoveAtType
<1>3. CASE q # << >>
  <2>1. queue' = Tail(q) /\ upserts' = [upserts EXCEPT ![i] = Head(q)] /\ flushed' = flushed
    BY <1>3 DEF Hot!Continue
  <2>2. Tail(q) \in Seq(Hot!Items) /\ Head(q) \in Hot!Items
    BY <1>3, TailElements
  <2> QED BY <1>1, <2>1, <2>2, RemoveAtType
<1> QED BY <1>2, <1>3

LEMMA DrainTypes ==
  ASSUME Hot!TypeOK, Hot!Drain
  PROVE  upserts' \in Seq(Hot!Items) /\ queue' \in Seq(Hot!Items)
<1>1. upserts \in Seq(Hot!Items) /\ queue \in Seq(Hot!Items)
  BY DEF Hot!TypeOK
<1>2. CASE Hot!draining \/ queue = << >>
  BY <1>1, <1>2 DEF Hot!Drain
<1>3. CASE ~(Hot!draining \/ queue = << >>)
  <2>1. Head(queue) \in Hot!Items /\ Tail(queue) \in Seq(Hot!Items)
    BY <1>1, <1>3, TailElements
  <2>2. upserts' = Append(upserts, Head(queue)) /\ queue' = Tail(queue)
    BY <1>3 DEF Hot!Drain
  <2> QED BY <1>1, <2>1, <2>2, AppendProperties
<1> QED BY <1>2, <1>3

LEMMA UpsertsTyped ==
  ASSUME Hot!TypeOK, NEW i \in DOMAIN upserts, Hot!Persist(i) \/ Hot!PersistFails(i)
  PROVE  Hot!TypeOK'
<1>0. /\ queue \in Seq(Hot!Items) /\ upserts \in Seq(Hot!Items) /\ db \in [Rows -> Hot!Versions]
      /\ failures \in 0..HotFailures /\ dropped \in Nat
      /\ UNCHANGED <<maps, drainTimer, loads, refreshing, written, alone>>
  BY DEF Hot!TypeOK, Hot!Persist, Hot!PersistFails
<1> DEFINE u == upserts[i]
           again == [u EXCEPT !.attempts = u.attempts + 1]
<1>1. u \in Hot!Items
  BY <1>0, RemoveAtType
<1>2. db' \in [Rows -> Hot!Versions]
  <2>1. db' = db \/ db' = [db EXCEPT ![u.row] = u.version]
    BY DEF Hot!Persist, Hot!PersistFails, Hot!Stored
  <2> HIDE DEF u
  <2>2. u.version \in Hot!Versions
    BY <1>1 DEF Hot!Items
  <2> QED BY <1>0, <2>1, <2>2
<1>3. PICK q \in Seq(Hot!Items) :
        /\ Hot!Continue(i, q)
        /\ \/ dropped' = dropped /\ failures' = failures
           \/ dropped' \in {dropped, dropped + 1} /\ failures' = failures + 1 /\ failures < HotFailures
  <2>1. CASE Hot!Persist(i)
    BY <1>0, <2>1 DEF Hot!Persist
  <2>2. CASE Hot!PersistFails(i)
    <3>1. /\ failures < HotFailures /\ failures' = failures + 1
          /\ IF again.attempts < HotAttempts
             THEN Hot!Continue(i, Append(queue, again)) /\ UNCHANGED dropped
             ELSE Hot!Continue(i, queue) /\ dropped' = dropped + 1
      BY <2>2 DEF Hot!PersistFails
    <3> HIDE DEF u
    <3>2. CASE again.attempts < HotAttempts
      <4>1. u.attempts + 1 \in 0..HotAttempts - 1
        <5>1. again.attempts = u.attempts + 1 /\ u.attempts \in 0..HotAttempts - 1
          BY <1>1 DEF Hot!Items
        <5> QED BY <3>2, <5>1, StoresAssumption
      <4>2. again \in Hot!Items
        BY <1>1, <4>1 DEF Hot!Items
      <4> HIDE DEF again
      <4>3. Append(queue, again) \in Seq(Hot!Items)
        BY <1>0, <4>2, AppendProperties
      <4> QED BY <3>1, <3>2, <4>3
    <3>3. CASE ~(again.attempts < HotAttempts)
      BY <1>0, <3>1, <3>3
    <3> QED BY <3>2, <3>3
  <2> QED BY <2>1, <2>2
<1>4. upserts' \in Seq(Hot!Items) /\ queue' \in Seq(Hot!Items) /\ flushed' \in BOOLEAN
  BY <1>3, ContinueTypes
<1>5. failures' \in 0..HotFailures /\ dropped' \in Nat
  BY <1>0, <1>3, StoresAssumption
<1> HIDE DEF u
<1> QED BY <1>0, <1>2, <1>4, <1>5 DEF Hot!TypeOK

LEMMA LoadsTyped ==
  ASSUME Hot!TypeOK, NEW i \in DOMAIN loads, Hot!ReadRows(i) \/ Hot!Refresh(i) \/ Hot!RefreshFails(i)
  PROVE  Hot!TypeOK'
<1> DEFINE S == [Rows -> Hot!Versions] \cup {Hot!Unread}
<1>1. /\ Hot!RemoveAt(loads, i) \in Seq(S) /\ loads[i] \in S
      /\ [loads EXCEPT ![i] = db] \in Seq(S)
  <2>1. loads \in Seq(S) /\ db \in S
    BY DEF Hot!TypeOK
  <2> HIDE DEF S
  <2> QED BY <2>1, RemoveAtType
<1>2. loads' \in Seq(S)
  BY <1>1 DEF Hot!ReadRows, Hot!Refresh, Hot!RefreshFails
<1>3. maps' \in [Rows -> Hot!Versions]
  BY <1>1 DEF Hot!ReadRows, Hot!Refresh, Hot!RefreshFails, Hot!TypeOK
<1>4. upserts' \in Seq(Hot!Items) /\ queue' \in Seq(Hot!Items)
  BY DrainTypes DEF Hot!ReadRows, Hot!Refresh, Hot!RefreshFails, Hot!TypeOK
<1>5. failures' \in 0..HotFailures
  <2>1. /\ failures \in 0..HotFailures
        /\ (failures' = failures \/ (failures < HotFailures /\ failures' = failures + 1))
    BY DEF Hot!ReadRows, Hot!Refresh, Hot!RefreshFails, Hot!TypeOK
  <2> QED BY <2>1, StoresAssumption
<1> QED BY <1>2, <1>3, <1>4, <1>5 DEF Hot!ReadRows, Hot!Refresh, Hot!RefreshFails, Hot!TypeOK

LEMMA EnqueueTyped ==
  ASSUME Hot!TypeOK, NEW r \in Rows, Hot!Enqueue(r)
  PROVE  Hot!TypeOK'
<1> DEFINE item == [row |-> r, version |-> written[r] + 1, attempts |-> 0]
           long == Append(queue, item)
           over == IF Len(long) > HotQueue THEN Len(long) - HotQueue ELSE 0
<1>0. /\ queue \in Seq(Hot!Items) /\ written \in [Rows -> Hot!Versions]
      /\ maps \in [Rows -> Hot!Versions]
      /\ dropped \in Nat
  BY DEF Hot!TypeOK
<1>1. /\ written[r] < MaxWrites /\ written' = [written EXCEPT ![r] = written[r] + 1]
      /\ maps' = [maps EXCEPT ![r] = written[r] + 1]
      /\ queue' = SubSeq(long, over + 1, Len(long))
      /\ dropped' = dropped + over
      /\ drainTimer' = TRUE
      /\ UNCHANGED <<db, upserts, loads, refreshing, flushed, failures, alone>>
  BY DEF Hot!Enqueue
<1>2. written[r] + 1 \in Hot!Versions
  BY <1>0, <1>1, StoresAssumption DEF Hot!Versions
<1>3. item \in Hot!Items
  <2>1. 0 \in 0..HotAttempts - 1
    BY StoresAssumption
  <2> QED BY <1>2, <2>1 DEF Hot!Items
<1> HIDE DEF item
<1>4. long \in Seq(Hot!Items) /\ Len(long) \in Nat
  BY <1>0, <1>3, AppendProperties, LenProperties
<1> HIDE DEF long
<1>5. over \in 0..Len(long) /\ over \in Nat
  BY <1>4, StoresAssumption
<1> HIDE DEF over
<1>6. queue' \in Seq(Hot!Items)
  BY <1>1, <1>4, <1>5, Split
<1>7. maps' \in [Rows -> Hot!Versions] /\ written' \in [Rows -> Hot!Versions]
  BY <1>0, <1>1, <1>2
<1>8. dropped' \in Nat /\ drainTimer' \in BOOLEAN
  <2>1. dropped' \in Nat
    BY <1>0, <1>1, <1>5
  <2> QED BY <1>1, <2>1
<1> QED BY <1>1, <1>6, <1>7, <1>8 DEF Hot!TypeOK

LEMMA InitHotTypes == Hot!Init => Hot!TypeOK
<1> SUFFICES ASSUME Hot!Init PROVE Hot!TypeOK
  OBVIOUS
<1>1. 0 \in Hot!Versions
  BY StoresAssumption DEF Hot!Versions
<1>2. /\ queue \in Seq(Hot!Items) /\ upserts \in Seq(Hot!Items)
      /\ loads \in Seq([Rows -> Hot!Versions] \cup {Hot!Unread})
  BY EmptySeq DEF Hot!Init
<1>3. failures \in 0..HotFailures /\ dropped \in Nat
  <2>1. failures = 0 /\ dropped = 0
    BY DEF Hot!Init
  <2> QED BY <2>1, StoresAssumption
<1>4. drainTimer \in BOOLEAN /\ refreshing \in BOOLEAN /\ flushed \in BOOLEAN
  BY Zenon DEF Hot!Init
<1>5. /\ maps \in [Rows -> Hot!Versions] /\ db \in [Rows -> Hot!Versions]
      /\ written \in [Rows -> Hot!Versions]
  BY <1>1 DEF Hot!Init
<1> QED BY <1>2, <1>3, <1>4, <1>5 DEF Hot!Init, Hot!TypeOK

LEMMA HotTyped ==
  ASSUME Hot!TypeOK, Hot!Next \/ Hot!Shutdown
  PROVE  Hot!TypeOK'
<1>1. CASE Hot!Upserts
  BY <1>1, UpsertsTyped DEF Hot!Upserts
<1>2. CASE Hot!DrainTimer
  BY <1>2, DrainTypes DEF Hot!DrainTimer, Hot!TypeOK
<1>3. CASE Hot!StartRefresh
  <2>1. loads' \in Seq([Rows -> Hot!Versions] \cup {Hot!Unread})
    BY <1>3, AppendProperties DEF Hot!StartRefresh, Hot!TypeOK
  <2> QED BY <1>3, <2>1 DEF Hot!StartRefresh, Hot!TypeOK
<1>4. CASE Hot!Loads
  BY <1>4, LoadsTyped DEF Hot!Loads
<1>5. CASE \E r \in Rows : Hot!Enqueue(r)
  BY <1>5, EnqueueTyped
<1>6. CASE Hot!Shutdown
  <2>1. flushed' \in BOOLEAN
    BY <1>6, Zenon DEF Hot!Shutdown
  <2>2. alone' \in {"no call", "yes", "no"}
    BY <1>6 DEF Hot!Shutdown
  <2>3. upserts' \in Seq(Hot!Items) /\ queue' \in Seq(Hot!Items)
    BY <1>6, DrainTypes DEF Hot!Shutdown
  <2> QED BY <1>6, <2>1, <2>2, <2>3 DEF Hot!Shutdown, Hot!TypeOK
<1> QED BY <1>1, <1>2, <1>3, <1>4, <1>5, <1>6 DEF Hot!Next, Hot!Background

LEMMA NextHotTypes == Hot!TypeOK /\ [HotNext]_<<queue, hotVars>> => Hot!TypeOK'
<1>1. Hot!TypeOK /\ UNCHANGED <<queue, hotVars>> => Hot!TypeOK'
  BY DEF hotVars, Hot!TypeOK
<1> QED BY <1>1, HotTyped DEF HotNext

-----------------------------------------------------------------------------
(* The parts together: a step is one of the part the behaviour is about.    *)

LEMMA PartStays == [Next]_vars => part' = part
BY DEF Next, vars, LedgerDoes, AuditDoes, DlqDoes, SemanticDoes, LimiterDoes, HotDoes

LEMMA LedgerStep ==
  ASSUME part = "ledger", [Next]_vars
  PROVE  [Ledger!Next]_<<file, faults, ledgerVars>>
BY DEF Next, vars, LedgerDoes, AuditDoes, DlqDoes, SemanticDoes, LimiterDoes, HotDoes,
       ledgerVars

LEMMA AuditStep ==
  ASSUME part = "audit", [Next]_vars
  PROVE  [Audit!Next]_<<queue, batch, calls, auditVars>>
BY DEF Next, vars, LedgerDoes, AuditDoes, DlqDoes, SemanticDoes, LimiterDoes, HotDoes, auditVars

LEMMA DlqStep ==
  ASSUME part = "dlq", [Next]_vars
  PROVE  [Dlq!Next]_<<file, dlqVars>>
BY DEF Next, vars, LedgerDoes, AuditDoes, DlqDoes, SemanticDoes, LimiterDoes, HotDoes, dlqVars

LEMMA SemanticStep ==
  ASSUME part = "semantic", [Next]_vars
  PROVE  [Semantic!Next]_<<faults, queue, batch, mode, semanticVars>>
BY DEF Next, vars, LedgerDoes, AuditDoes, DlqDoes, SemanticDoes, LimiterDoes, HotDoes,
       semanticVars

LEMMA LimiterStep ==
  ASSUME part = "limiter", [Next]_vars
  PROVE  [Limiter!Next]_<<faults, mode, calls, limiterVars>>
BY DEF Next, vars, LedgerDoes, AuditDoes, DlqDoes, SemanticDoes, LimiterDoes, HotDoes,
       limiterVars

LEMMA HotStep ==
  ASSUME part = "hot", [Next]_vars
  PROVE  [HotNext]_<<queue, hotVars>>
BY DEF Next, vars, LedgerDoes, AuditDoes, DlqDoes, SemanticDoes, LimiterDoes, HotDoes, hotVars

\* The inductive invariant of each part, where the behaviour is about it.
StoresInv ==
  /\ part = "ledger" => LedgerInv
  /\ part = "audit" => AuditInv
  /\ part = "dlq" => DlqInv
  /\ part = "semantic" => SemanticInv
  /\ part = "limiter" => LimiterInv
  /\ part = "hot" => Hot!TypeOK

LEMMA InitStoresInv == Init => StoresInv
BY InitLedgerInv, InitAuditInv, InitDlqInv, InitSemanticInv, InitLimiterInv, InitHotTypes
   DEF Init, StoresInv

LEMMA NextStoresInv == StoresInv /\ [Next]_vars => StoresInv'
<1> SUFFICES ASSUME StoresInv, [Next]_vars PROVE StoresInv'
  OBVIOUS
<1>1. part' = "ledger" => LedgerInv'
  BY PartStays, LedgerStep, NextLedgerInv DEF StoresInv
<1>2. part' = "audit" => AuditInv'
  BY PartStays, AuditStep, NextAuditInv DEF StoresInv
<1>3. part' = "dlq" => DlqInv'
  BY PartStays, DlqStep, NextDlqInv DEF StoresInv
<1>4. part' = "semantic" => SemanticInv'
  BY PartStays, SemanticStep, NextSemanticInv DEF StoresInv
<1>5. part' = "limiter" => LimiterInv'
  BY PartStays, LimiterStep, NextLimiterInv DEF StoresInv
<1>6. part' = "hot" => Hot!TypeOK'
  BY PartStays, HotStep, NextHotTypes DEF StoresInv
<1> QED BY <1>1, <1>2, <1>3, <1>4, <1>5, <1>6 DEF StoresInv

LEMMA StoresInvHolds == Spec => []StoresInv
BY InitStoresInv, NextStoresInv, PTL DEF Spec

-----------------------------------------------------------------------------
(* The theorems.                                                            *)

(* The records of every store keep their types: the counters of the         *)
(* semantic audit, decremented by scripts that may find them lost, and      *)
(* those of the limiter and of the hot state never leave Nat.               *)
THEOREM StoresTypeCorrect == Spec => []TypesOK
<1>1. StoresInv => TypesOK
  BY DEF StoresInv, TypesOK, LedgerInv, AuditInv, DlqInv, SemanticInv, LimiterInv
<1> QED BY <1>1, StoresInvHolds, PTL

(* A process that still accepts receipts (receipts/ledger.py:116) has the   *)
(* end of a file that verifies, through every crash in the middle of a      *)
(* line, restart and recovery: any number of processes, lines and faults,   *)
(* until an append raises or two processes have the file.                   *)
THEOREM LedgerAcceptsAtTheEnd == Spec => []AcceptsOnlyAtTheEnd
<1>1. StoresInv => AcceptsOnlyAtTheEnd
  BY DEF StoresInv, AcceptsOnlyAtTheEnd, LedgerInv
<1> QED BY <1>1, StoresInvHolds, PTL

(* A file that _verify_file (receipts/ledger.py:222) accepts misses no      *)
(* receipt that record() returned, however many processes wrote to it.      *)
THEOREM LedgerValidIsComplete == Spec => []ValidMeansComplete
<1>1. StoresInv => ValidMeansComplete
  BY ValidIsComplete DEF StoresInv, ValidMeansComplete
<1> QED BY <1>1, StoresInvHolds, PTL

(* The drain and the flush of the audit queue (audit-write-queue.ts:136,    *)
(* 183) write the calls in the order in which they were accepted, and none  *)
(* twice, until the process is shut down.                                   *)
THEOREM AuditWritesInOrder == Spec => []WrittenInOrder
<1>1. StoresInv => WrittenInOrder
  BY AuditProperties DEF StoresInv, WrittenInOrder
<1> QED BY <1>1, StoresInvHolds, PTL

(* A process that leaves through the flush of a shutdown while a drain is   *)
(* awaited loses no accepted call but those the drain holds.                *)
THEOREM AuditExitLosesOneBatch == Spec => []ExitLosesOneBatch
<1>1. StoresInv => ExitLosesOneBatch
  BY AuditProperties DEF StoresInv, ExitLosesOneBatch
<1> QED BY <1>1, StoresInvHolds, PTL

(* An event whose attempts are over is in the dead letters until a send of  *)
(* it has returned, whatever flushes overlap, meet senders that throw, or   *)
(* die before they write.  The exceptions are entries that were not kept    *)
(* (exporter-dlq.ts:25, 27), that a rewrite overtakes (:34), or that a      *)
(* rewrite cut short (:50) or an append to a cut line has destroyed.        *)
THEOREM DlqKeepsUntilSent == Spec => []KeptUntilSent
<1>1. StoresInv => KeptUntilSent
  BY DlqProperties DEF StoresInv, KeptUntilSent
<1> QED BY <1>1, StoresInvHolds, PTL

(* While no two flushes run at once and none dies before it writes, no      *)
(* event reaches its collector again after a send of it has returned; one   *)
(* whose sends threw after it had arrived is sent again.                    *)
THEOREM DlqSendsOnce == Spec => []SentOnce
<1>1. StoresInv => SentOnce
  BY DlqProperties DEF StoresInv, SentOnce
<1> QED BY <1>1, StoresInvHolds, PTL

(* The counts in Redis are the slots that jobs hold and those that a fault  *)
(* leaked, within their limits, whatever the interleaving of the scripts,   *)
(* unless a job passes uncounted (redis-semantic-queue.ts:46).              *)
THEOREM SemanticSlotsAccounted == Spec => []SlotsAccounted
<1>1. StoresInv => SlotsAccounted
  BY DEF StoresInv, SlotsAccounted, SemanticInv
<1> QED BY <1>1, StoresInvHolds, PTL

(* The half-open circuit of a tenant refuses calls only while its probe is  *)
(* in flight: no failure, timeout or crash leaves the probe taken.          *)
THEOREM SemanticProbeNeverStuck == Spec => []NoStuckProbe
<1>1. StoresInv => NoStuckProbe
  BY DEF StoresInv, NoStuckProbe, SemanticInv
<1> QED BY <1>1, StoresInvHolds, PTL

(* A proxy that grants a call on its own count, Redis away, has granted no  *)
(* more than the limit in the window of that count.                         *)
THEOREM LimiterFallbackInLimit == Spec => FallbackWithinLimit
<1>1. StoresInv => (part = "limiter" => Limiter!FallbackGrantsInLimit)
  BY FallbackInLimit DEF StoresInv
<1> QED BY <1>1, StoresInvHolds, PTL DEF Spec, FallbackWithinLimit
=============================================================================
