----------------------------- MODULE QueueLemmas -----------------------------
(***************************************************************************)
(* What the queues of the program are made of: sequences that are appended *)
(* to, cut at the front, and hold no element twice.                        *)
(***************************************************************************)
EXTENDS Integers, Sequences, SequenceTheorems, TLAPS

\* The members of a sequence.
Elements(s) == {s[i] : i \in DOMAIN s}

\* A sequence and an element more.
LEMMA AppendElements ==
  ASSUME NEW S, NEW s \in Seq(S), NEW e \in S
  PROVE  Elements(Append(s, e)) = Elements(s) \cup {e}
<1>1. Len(s) \in Nat /\ DOMAIN s = 1..Len(s)
  BY LenProperties
<1>2. /\ Append(s, e) \in Seq(S) /\ Len(Append(s, e)) = Len(s) + 1
      /\ \A i \in 1..Len(s) : Append(s, e)[i] = s[i]
      /\ Append(s, e)[Len(s) + 1] = e
  BY AppendProperties
<1>3. DOMAIN Append(s, e) = 1..(Len(s) + 1)
  BY <1>2, LenProperties
<1> DEFINE t == Append(s, e)
<1> HIDE DEF t
<1>4. \A i \in DOMAIN t : t[i] \in Elements(s) \cup {e}
  BY <1>1, <1>2, <1>3 DEF Elements, t
<1>5. \A i \in DOMAIN s : i \in DOMAIN t /\ t[i] = s[i]
  BY <1>1, <1>2, <1>3 DEF t
<1>6. Len(s) + 1 \in DOMAIN t /\ t[Len(s) + 1] = e
  BY <1>1, <1>2, <1>3 DEF t
<1>7. Elements(t) = Elements(s) \cup {e}
  BY <1>4, <1>5, <1>6 DEF Elements
<1> QED BY <1>7 DEF t

\* Its first element and the others.
LEMMA TailElements ==
  ASSUME NEW S, NEW s \in Seq(S), s # << >>
  PROVE  /\ Head(s) \in S /\ Tail(s) \in Seq(S) /\ Len(Tail(s)) = Len(s) - 1
         /\ Elements(s) = {Head(s)} \cup Elements(Tail(s))
         /\ Head(s) = s[1] /\ DOMAIN Tail(s) = 1..(Len(s) - 1)
         /\ \A i \in DOMAIN Tail(s) : i + 1 \in DOMAIN s /\ Tail(s)[i] = s[i + 1]
<1>1. Len(s) \in Nat /\ Len(s) # 0 /\ DOMAIN s = 1..Len(s)
  BY LenProperties, EmptySeq
<1>2. /\ Head(s) \in S /\ Tail(s) \in Seq(S) /\ Len(Tail(s)) = Len(s) - 1
      /\ \A i \in 1..Len(Tail(s)) : Tail(s)[i] = s[i + 1]
  BY HeadTailProperties
<1>3. DOMAIN Tail(s) = 1..(Len(s) - 1)
  BY <1>2, LenProperties
<1>4. Head(s) = s[1]
  BY <1>1
<1>5. \A i \in DOMAIN Tail(s) : i + 1 \in DOMAIN s /\ Tail(s)[i] = s[i + 1]
  BY <1>1, <1>2, <1>3
<1>6. \A i \in DOMAIN s : i # 1 => i - 1 \in DOMAIN Tail(s) /\ Tail(s)[i - 1] = s[i]
  BY <1>1, <1>2, <1>3
<1> DEFINE t == Tail(s)
<1> HIDE DEF t
<1>7. Elements(s) = {Head(s)} \cup Elements(t)
  <2>1. \A i \in DOMAIN s : s[i] \in {Head(s)} \cup Elements(t)
    BY <1>4, <1>6 DEF Elements, t
  <2>2. \A i \in DOMAIN t : t[i] \in Elements(s)
    BY <1>5 DEF Elements, t
  <2>3. Head(s) \in Elements(s)
    BY <1>1, <1>4 DEF Elements
  <2>4. Elements(s) \subseteq {Head(s)} \cup Elements(t)
    BY <2>1 DEF Elements
  <2>5. Elements(t) \subseteq Elements(s)
    BY <2>2 DEF Elements
  <2> QED BY <2>3, <2>4, <2>5
<1> QED BY <1>2, <1>3, <1>4, <1>5, <1>7 DEF t

\* A sequence cut in two.
LEMMA Split ==
  ASSUME NEW S, NEW s \in Seq(S), NEW n \in 0..Len(s)
  PROVE  /\ SubSeq(s, 1, n) \in Seq(S) /\ Len(SubSeq(s, 1, n)) = n
         /\ DOMAIN SubSeq(s, 1, n) = 1..n /\ \A i \in 1..n : SubSeq(s, 1, n)[i] = s[i]
         /\ SubSeq(s, n + 1, Len(s)) \in Seq(S) /\ Len(SubSeq(s, n + 1, Len(s))) = Len(s) - n
         /\ DOMAIN SubSeq(s, n + 1, Len(s)) = 1..(Len(s) - n)
         /\ \A i \in 1..(Len(s) - n) : SubSeq(s, n + 1, Len(s))[i] = s[n + i]
         /\ Elements(s) = Elements(SubSeq(s, 1, n)) \cup Elements(SubSeq(s, n + 1, Len(s)))
<1>1. Len(s) \in Nat /\ DOMAIN s = 1..Len(s) /\ n \in Nat /\ n <= Len(s)
      /\ \A i \in 1..Len(s) : s[i] \in S
  BY LenProperties, ElementOfSeq
<1> DEFINE a == SubSeq(s, 1, n)
           b == SubSeq(s, n + 1, Len(s))
<1>2. a \in Seq(S) /\ Len(a) = n /\ \A i \in 1..n : a[i] = s[i]
  <2>1. \A i \in 1..n : s[i] \in S
    BY <1>1
  <2>2. /\ a \in Seq(S) /\ Len(a) = (IF 1 <= n THEN n - 1 + 1 ELSE 0)
        /\ \A i \in 1..(n - 1 + 1) : a[i] = s[1 + i - 1]
    BY <1>1, <2>1, SubSeqProperties
  <2> HIDE DEF a
  <2> QED BY <1>1, <2>2
<1>3. b \in Seq(S) /\ Len(b) = Len(s) - n /\ \A i \in 1..(Len(s) - n) : b[i] = s[n + i]
  <2>1. n + 1 \in Int /\ Len(s) \in Int /\ \A i \in (n + 1)..Len(s) : s[i] \in S
    BY <1>1
  <2>2. /\ b \in Seq(S) /\ Len(b) = (IF n + 1 <= Len(s) THEN Len(s) - (n + 1) + 1 ELSE 0)
        /\ \A i \in 1..(Len(s) - (n + 1) + 1) : b[i] = s[n + 1 + i - 1]
    BY <2>1, SubSeqProperties
  <2> HIDE DEF b
  <2>3. Len(b) = Len(s) - n
    <3>1. Len(b) = (IF n + 1 <= Len(s) THEN Len(s) - (n + 1) + 1 ELSE 0)
      BY <2>2
    <3>2. Len(s) \in Nat /\ n \in Nat /\ n <= Len(s)
      BY <1>1
    <3> QED BY <3>1, <3>2
  <2>4. \A i \in 1..(Len(s) - n) : i \in 1..(Len(s) - (n + 1) + 1) /\ n + 1 + i - 1 = n + i
    BY <1>1
  <2> QED BY <2>2, <2>3, <2>4
<1>4. DOMAIN a = 1..n /\ DOMAIN b = 1..(Len(s) - n)
  BY <1>2, <1>3, LenProperties
<1> HIDE DEF a, b
<1>5. Elements(s) = Elements(a) \cup Elements(b)
  <2>1. \A i \in DOMAIN a : i \in DOMAIN s /\ a[i] = s[i]
    BY <1>1, <1>2, <1>4
  <2>2. \A i \in DOMAIN b : n + i \in DOMAIN s /\ b[i] = s[n + i]
    BY <1>1, <1>3, <1>4
  <2>3. \A i \in DOMAIN s : i \notin DOMAIN a => i - n \in DOMAIN b /\ b[i - n] = s[i]
    BY <1>1, <1>3, <1>4
  <2>4. Elements(a) \subseteq Elements(s) /\ Elements(b) \subseteq Elements(s)
    BY <2>1, <2>2 DEF Elements
  <2>5. Elements(s) \subseteq Elements(a) \cup Elements(b)
    BY <2>1, <2>3 DEF Elements
  <2> QED BY <2>4, <2>5
<1> QED BY <1>2, <1>3, <1>4, <1>5 DEF a, b

\* ... of which the types and lengths alone.
LEMMA SplitParts ==
  ASSUME NEW S, NEW s \in Seq(S), NEW n \in 0..Len(s)
  PROVE  /\ SubSeq(s, 1, n) \in Seq(S) /\ Len(SubSeq(s, 1, n)) = n
         /\ SubSeq(s, n + 1, Len(s)) \in Seq(S) /\ Len(SubSeq(s, n + 1, Len(s))) = Len(s) - n
BY Split

\* No element is in a sequence twice.
NoRepeat(s) == \A i, j \in DOMAIN s : s[i] = s[j] => i = j

\* A new element at the end.
LEMMA AppendNoRepeat ==
  ASSUME NEW S, NEW s \in Seq(S), NEW e \in S, NoRepeat(s), e \notin Elements(s)
  PROVE  NoRepeat(Append(s, e))
<1> DEFINE t == Append(s, e)
<1>1. Len(s) \in Nat /\ DOMAIN s = 1..Len(s)
  BY LenProperties
<1>2. /\ t \in Seq(S) /\ Len(t) = Len(s) + 1 /\ t[Len(s) + 1] = e
      /\ \A i \in 1..Len(s) : t[i] = s[i]
  BY AppendProperties
<1>3. DOMAIN t = 1..(Len(s) + 1)
  BY <1>2, LenProperties
<1>4. \A i \in DOMAIN s : s[i] # e
  BY DEF Elements
<1> HIDE DEF t
<1>5. \A i \in DOMAIN t : i \in DOMAIN s \/ i = Len(s) + 1
  BY <1>1, <1>3
<1>6. NoRepeat(t)
  BY <1>1, <1>2, <1>4, <1>5 DEF NoRepeat
<1> QED BY <1>6 DEF t

\* Without the first element.
LEMMA TailNoRepeat ==
  ASSUME NEW S, NEW s \in Seq(S), s # << >>, NoRepeat(s)
  PROVE  NoRepeat(Tail(s)) /\ Head(s) \notin Elements(Tail(s))
<1>1. /\ Head(s) = s[1] /\ DOMAIN Tail(s) = 1..(Len(s) - 1)
      /\ \A i \in DOMAIN Tail(s) : i + 1 \in DOMAIN s /\ Tail(s)[i] = s[i + 1]
  BY TailElements
<1>2. Len(s) \in Nat /\ Len(s) # 0 /\ DOMAIN s = 1..Len(s)
  BY LenProperties, EmptySeq
<1>3. 1 \in DOMAIN s /\ \A i, j \in DOMAIN Tail(s) : i + 1 # 1 /\ (i + 1 = j + 1 => i = j)
  BY <1>1, <1>2
<1>4. NoRepeat(Tail(s))
  BY <1>1, <1>3 DEF NoRepeat
<1>5. \A i \in DOMAIN Tail(s) : Tail(s)[i] # Head(s)
  BY <1>1, <1>3 DEF NoRepeat
<1> QED BY <1>4, <1>5 DEF Elements

\* What comes after the first n elements.
LEMMA LaterPart ==
  ASSUME NEW S, NEW s \in Seq(S), NEW n \in 0..Len(s)
  PROVE  /\ SubSeq(s, n + 1, Len(s)) \in Seq(S)
         /\ Elements(SubSeq(s, n + 1, Len(s))) \subseteq Elements(s)
         /\ NoRepeat(s) => NoRepeat(SubSeq(s, n + 1, Len(s)))
<1> DEFINE b == SubSeq(s, n + 1, Len(s))
<1>1. /\ b \in Seq(S) /\ DOMAIN b = 1..(Len(s) - n)
      /\ \A i \in 1..(Len(s) - n) : b[i] = s[n + i]
  BY Split
<1>2. Elements(b) \subseteq Elements(s)
  BY Split
<1> HIDE DEF b
<1>3. Len(s) \in Nat /\ DOMAIN s = 1..Len(s)
  BY LenProperties
<1>4. \A i \in DOMAIN b : n + i \in DOMAIN s /\ b[i] = s[n + i]
  <2>1. \A i \in 1..(Len(s) - n) : n + i \in 1..Len(s)
    BY <1>3
  <2> QED BY <1>1, <1>3, <2>1
<1>5. \A i, j \in DOMAIN b : n + i = n + j => i = j
  BY <1>1, <1>3
<1>6. NoRepeat(s) => NoRepeat(b)
  BY <1>4, <1>5 DEF NoRepeat
<1> QED BY <1>1, <1>2, <1>6 DEF b


\* The first elements of a sequence, and all but its last one.
LEMMA EarlierPart ==
  ASSUME NEW S, NEW s \in Seq(S), NEW n \in 0..Len(s)
  PROVE  /\ SubSeq(s, 1, n) \in Seq(S)
         /\ Elements(SubSeq(s, 1, n)) \subseteq Elements(s)
         /\ NoRepeat(s) => NoRepeat(SubSeq(s, 1, n))
         /\ n + 1 = Len(s) => Elements(s) = Elements(SubSeq(s, 1, n)) \cup {s[Len(s)]}
         /\ n = 0 => SubSeq(s, 1, n) = << >>
         /\ n # 0 => SubSeq(s, 1, n) # << >>
<1> DEFINE b == SubSeq(s, 1, n)
<1>1. /\ b \in Seq(S) /\ Len(b) = n /\ DOMAIN b = 1..n
      /\ \A i \in 1..n : b[i] = s[i]
  BY Split
<1>2. Len(s) \in Nat /\ DOMAIN s = 1..Len(s)
  BY LenProperties
<1> HIDE DEF b
<1>3. \A i \in DOMAIN b : i \in DOMAIN s /\ b[i] = s[i]
  BY <1>1, <1>2
<1>4. Elements(b) \subseteq Elements(s) /\ (NoRepeat(s) => NoRepeat(b))
  BY <1>3 DEF Elements, NoRepeat
<1>5. ASSUME n + 1 = Len(s) PROVE Elements(s) = Elements(b) \cup {s[Len(s)]}
  <2>1. DOMAIN s = DOMAIN b \cup {Len(s)} /\ Len(s) \in DOMAIN s
    BY <1>1, <1>2, <1>5
  <2>2. ASSUME NEW x \in Elements(s) PROVE x \in Elements(b) \cup {s[Len(s)]}
    <3>1. PICK i \in DOMAIN s : x = s[i]
      BY <2>2 DEF Elements
    <3>2. CASE i \in DOMAIN b
      BY <1>3, <3>1, <3>2 DEF Elements
    <3> QED BY <2>1, <3>1, <3>2
  <2>3. s[Len(s)] \in Elements(s)
    BY <2>1 DEF Elements
  <2> QED BY <1>4, <2>2, <2>3
<1>6. (n = 0 => b = << >>) /\ (n # 0 => b # << >>)
  BY <1>1, EmptySeq
<1> QED BY <1>1, <1>4, <1>5, <1>6 DEF b

=============================================================================
