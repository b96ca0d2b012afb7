---------------------------- MODULE TransportProofs ----------------------------
(* Theorems about Transport, for anything a server may say, any pieces it    *)
(* arrives in and any sizes of a read.                                       *)
EXTENDS Web, SequenceTheorems, WellFoundedInduction, TLAPS

-----------------------------------------------------------------------------
(* Induction.  A set of numbers has a least one, so whatever holds of 0 and, *)
(* with a number, of the next one, holds of all.                             *)

LEMMA LeastNumber ==
    ASSUME NEW T, T \subseteq Nat, T # {}
    PROVE  \E x \in T : \A y \in T : x <= y
<1>1. PICK R : R = OpToRel(<, Nat)
  OBVIOUS
<1>2. IsWellFoundedOn(R, Nat)
  BY <1>1, NatLessThanWellFounded
<1>3. PICK x \in T : \A y \in T : ~ (<<y, x>> \in R)
  BY <1>2, WFMin
<1>4. \A y, z \in Nat : <<y, z>> \in R <=> y < z
  BY <1>1 DEF OpToRel
<1>5. \A y \in T : ~(y < x)
  BY <1>3, <1>4
<1> QED
  BY <1>5

LEMMA AllNumbers ==
    ASSUME NEW T, 0 \in T, \A k \in Nat : k \in T => k + 1 \in T
    PROVE  Nat \subseteq T
<1>1. PICK Rest : Rest = {k \in Nat : k \notin T}
  OBVIOUS
<1>2. Rest = {}
  <2>1. SUFFICES ASSUME Rest # {}
                 PROVE  FALSE
    OBVIOUS
  <2>2. PICK x \in Rest : \A y \in Rest : x <= y
    BY <1>1, <2>1, LeastNumber
  <2>3. x \in Nat /\ x \notin T /\ x # 0
    BY <1>1, <2>2
  <2>4. x - 1 \in Nat /\ (x - 1) + 1 = x /\ ~(x <= x - 1)
    BY <2>3
  <2>5. x - 1 \in T
    BY <1>1, <2>2, <2>4
  <2> QED
    BY <2>3, <2>4, <2>5
<1> QED
  BY <1>1, <1>2

LEMMA Single ==
    ASSUME NEW S, NEW e \in S
    PROVE  /\ <<e>> \in Seq(S) /\ Len(<<e>>) = 1 /\ <<e>>[1] = e
<1>1. <<e>> \in [1 .. 1 -> S]
  OBVIOUS
<1> QED
  BY <1>1, SeqDef

-----------------------------------------------------------------------------
(* The loop of the negotiation.  What Scan makes of a piece from one place   *)
(* on follows from what it makes of it from a later place on.                *)

\* A byte is a string; the provers do not know of a literal that it is one.
Symbol  == STRING \cup {"IAC", "0", "DONT", "WONT"}
Bytes   == Seq(Symbol)
Answers == Seq(Symbol \X Symbol)
Found   == [out : Bytes, answers : Answers, pending : BOOLEAN]

ScanEnd(iac) == [out |-> << >>, answers |-> << >>, pending |-> iac]

Entry(d, f, i) ==
    IF i > Len(d) THEN ScanEnd(FALSE)
    ELSE IF d[i] # "IAC" THEN [f[i + 1] EXCEPT !.out = <<d[i]>> \o @]
    ELSE IF i = Len(d) THEN ScanEnd(TRUE)
    ELSE LET c == Line!Command(d, i + 1)
         IN  [f[c.next] EXCEPT !.out = c.out \o @, !.answers = c.answers \o @]

LEMMA ScanChosen ==
    ASSUME NEW d
    PROVE  Line!Scan(d) = CHOOSE f : f = [i \in 1 .. Len(d) + 2 |-> Entry(d, f, i)]
  BY DEF Line!Scan, Entry, ScanEnd

LEMMA AfterSubFacts ==
    ASSUME NEW d \in Bytes, NEW i \in Nat, i >= 1, i <= Len(d) + 1
    PROVE  /\ Line!AfterSub(d, i) \in Nat
           /\ i <= Line!AfterSub(d, i) /\ Line!AfterSub(d, i) <= Len(d) + 1
<1>1. PICK n : n = Len(d) /\ n \in Nat
  BY LenProperties DEF Bytes
<1>2. PICK ends : ends = {k \in i .. n - 1 : d[k] = "IAC" /\ d[k + 1] = "SE"}
  OBVIOUS
<1>3. Line!AfterSub(d, i) = IF ends = {} THEN n + 1 ELSE Line!Min(ends) + 2
  BY <1>1, <1>2 DEF Line!AfterSub
<1>4. CASE ends = {}
  BY <1>1, <1>3, <1>4
<1>5. CASE ends # {}
  <2>1. ends \subseteq Nat /\ \A k \in ends : i <= k /\ k <= n - 1
    BY <1>1, <1>2
  <2>2. PICK m \in ends : \A k \in ends : m <= k
    BY <1>5, <2>1, LeastNumber
  <2>3. Line!Min(ends) \in ends
    BY <2>2 DEF Line!Min
  <2>4. Line!Min(ends) \in Nat /\ i <= Line!Min(ends) /\ Line!Min(ends) <= n - 1
    BY <2>1, <2>3
  <2> QED
    BY <1>1, <1>3, <1>5, <2>4
<1> QED
  BY <1>4, <1>5

\* What a command yields, and where it ends.
LEMMA CommandFacts ==
    ASSUME NEW d \in Bytes, NEW i \in 1 .. Len(d)
    PROVE  /\ Line!Command(d, i).out \in Bytes /\ Line!Command(d, i).answers \in Answers
           /\ Line!Command(d, i).next \in Nat
           /\ i < Line!Command(d, i).next /\ Line!Command(d, i).next <= Len(d) + 2
<1>1. PICK n : n = Len(d) /\ n \in Nat
  BY LenProperties DEF Bytes
<1>2. i \in Nat /\ 1 <= i /\ i <= n
  BY <1>1
<1>3. << >> \in Bytes /\ <<"IAC">> \in Bytes /\ << >> \in Answers
  <2>1. "IAC" \in Symbol
    BY DEF Symbol
  <2> QED
    BY <2>1, Single, EmptySeq DEF Bytes, Answers
<1>4. Line!OptionAt(d, i + 1) \in Symbol
  <2>1. CASE i + 1 <= n
    <3>1. i + 1 \in 1 .. Len(d)
      BY <1>1, <1>2, <2>1
    <3> QED
      BY <1>1, <2>1, <3>1, ElementOfSeq DEF Line!OptionAt, Bytes
  <2>2. CASE ~(i + 1 <= n)
    <3>1. "0" \in Symbol
      BY DEF Symbol
    <3> QED
      BY <1>1, <2>2, <3>1 DEF Line!OptionAt
  <2> QED
    BY <2>1, <2>2
<1>5. Line!Answer(d[i], Line!OptionAt(d, i + 1)) \in Answers
  <2>1. PICK opt \in Symbol : opt = Line!OptionAt(d, i + 1)
    BY <1>4
  <2>2. << <<"DONT", opt>> >> \in Answers /\ << <<"WONT", opt>> >> \in Answers
    <3>1. <<"DONT", opt>> \in Symbol \X Symbol /\ <<"WONT", opt>> \in Symbol \X Symbol
      BY <2>1 DEF Symbol
    <3> QED
      BY <3>1, Single DEF Answers
  <2> QED
    BY <1>3, <2>1, <2>2 DEF Line!Answer
<1>6. /\ Line!AfterSub(d, i + 1) \in Nat
      /\ i + 1 <= Line!AfterSub(d, i + 1) /\ Line!AfterSub(d, i + 1) <= n + 1
  <2>1. i + 1 \in Nat /\ i + 1 >= 1 /\ i + 1 <= Len(d) + 1
    BY <1>1, <1>2
  <2> QED
    BY <1>1, <2>1, AfterSubFacts
<1>7. PICK after : after = Line!AfterSub(d, i + 1)
  OBVIOUS
<1>8. PICK told \in Answers : told = Line!Answer(d[i], Line!OptionAt(d, i + 1))
  BY <1>5
<1>9. Line!Command(d, i) =
         IF d[i] = "IAC" THEN [out |-> <<"IAC">>, answers |-> << >>, next |-> i + 1]
         ELSE IF d[i] \in Line!Refused
              THEN [out |-> << >>, answers |-> told, next |-> i + 2]
         ELSE IF d[i] = "SB" THEN [out |-> << >>, answers |-> << >>, next |-> after]
         ELSE [out |-> << >>, answers |-> << >>, next |-> i + 1]
  BY <1>7, <1>8 DEF Line!Command
<1>10. Line!Command(d, i).out \in Bytes /\ Line!Command(d, i).answers \in Answers
  BY <1>3, <1>8, <1>9
<1>11. Line!Command(d, i).next \in {i + 1, i + 2, after}
  BY <1>9
<1> QED
  BY <1>1, <1>2, <1>6, <1>7, <1>10, <1>11

LEMMA EntryLocal ==
    ASSUME NEW d \in Bytes, NEW i \in 1 .. Len(d), NEW f, NEW g,
           \A j \in i + 1 .. Len(d) + 2 : f[j] = g[j]
    PROVE  Entry(d, f, i) = Entry(d, g, i)
<1>1. PICK n : n = Len(d) /\ n \in Nat /\ i \in 1 .. n
  BY LenProperties DEF Bytes
<1>2. i \in Nat /\ i <= n
  BY <1>1
<1>3. f[i + 1] = g[i + 1]
  <2>1. i + 1 \in i + 1 .. n + 2
    BY <1>1, <1>2
  <2> QED
    BY <1>1, <2>1
<1>4. CASE i = n
  BY <1>1, <1>2, <1>3, <1>4 DEF Entry
<1>5. CASE i # n
  <2>1. i + 1 \in 1 .. n
    BY <1>1, <1>2, <1>5
  <2>2. PICK c : c = Line!Command(d, i + 1)
    OBVIOUS
  <2>3. c.next \in Nat /\ i + 1 < c.next /\ c.next <= n + 2
    BY <1>1, <2>1, <2>2, CommandFacts
  <2>4. c.next \in i + 1 .. n + 2
    BY <1>1, <1>2, <2>3
  <2>5. f[c.next] = g[c.next]
    BY <1>1, <2>4
  <2> QED
    BY <1>1, <1>2, <1>3, <1>5, <2>2, <2>5 DEF Entry
<1> QED
  BY <1>4, <1>5

\* The loop's meaning is well defined: each place refers to later ones only.
LEMMA ScanDefined ==
    ASSUME NEW d \in Bytes
    PROVE  Line!Scan(d) = [i \in 1 .. Len(d) + 2 |-> Entry(d, Line!Scan(d), i)]
<1>1. PICK n : n = Len(d) /\ n \in Nat
  BY LenProperties DEF Bytes
<1>2. PICK T : T = {k \in Nat : k <= n =>
                       \E f : \A i \in n + 1 - k .. n + 2 : f[i] = Entry(d, f, i)}
  OBVIOUS
<1>3. \A i \in n + 1 .. n + 2 : \A f : Entry(d, f, i) = ScanEnd(FALSE)
  <2>1. \A i \in n + 1 .. n + 2 : i > Len(d)
    BY <1>1
  <2> QED
    BY <2>1 DEF Entry
<1>4. 0 \in T
  <2>1. PICK f : f = [i \in 1 .. n + 2 |-> ScanEnd(FALSE)]
    OBVIOUS
  <2>2. \A i \in n + 1 .. n + 2 : f[i] = Entry(d, f, i)
    <3>1. \A i \in n + 1 .. n + 2 : i \in 1 .. n + 2
      BY <1>1
    <3> QED
      BY <1>3, <2>1, <3>1
  <2>3. n + 1 - 0 = n + 1
    BY <1>1
  <2> QED
    BY <1>2, <2>2, <2>3
<1>5. ASSUME NEW k \in Nat, k \in T
      PROVE  k + 1 \in T
  <2> SUFFICES ASSUME k + 1 <= n
               PROVE  \E g : \A i \in n + 1 - (k + 1) .. n + 2 : g[i] = Entry(d, g, i)
    BY <1>2
  <2>1. PICK m : m = n + 1 - (k + 1) /\ m \in 1 .. n /\ m + 1 = n + 1 - k /\ m \in Nat
    BY <1>1
  <2>2. PICK f : \A i \in m + 1 .. n + 2 : f[i] = Entry(d, f, i)
    <3>1. k <= n
      BY <1>1
    <3> QED
      BY <1>2, <1>5, <2>1, <3>1
  <2>3. PICK g : g = [i \in 1 .. n + 2 |-> IF i = m THEN Entry(d, f, m) ELSE f[i]]
    OBVIOUS
  <2>4. /\ g[m] = Entry(d, f, m)
        /\ \A i \in m + 1 .. n + 2 : g[i] = f[i]
    <3>1. m \in 1 .. n + 2 /\ \A i \in m + 1 .. n + 2 : i \in 1 .. n + 2 /\ i # m
      BY <1>1, <2>1
    <3> QED
      BY <2>3, <3>1
  <2>5. \A i \in m .. n : Entry(d, g, i) = Entry(d, f, i)
    <3> SUFFICES ASSUME NEW i \in m .. n
                 PROVE  Entry(d, g, i) = Entry(d, f, i)
      OBVIOUS
    <3>1. i \in 1 .. Len(d) /\ \A j \in i + 1 .. n + 2 : j \in m + 1 .. n + 2
      BY <1>1, <2>1
    <3>2. \A j \in i + 1 .. Len(d) + 2 : g[j] = f[j]
      BY <1>1, <2>4, <3>1
    <3> QED
      BY <3>1, <3>2, EntryLocal
  <2>6. ASSUME NEW i \in m .. n + 2
        PROVE  g[i] = Entry(d, g, i)
    <3>1. CASE i = m
      <4>1. m \in m .. n
        BY <2>1
      <4> QED
        BY <2>4, <2>5, <3>1, <4>1
    <3>2. CASE i # m /\ i <= n
      <4>1. i \in m + 1 .. n + 2 /\ i \in m .. n
        BY <1>1, <2>1, <3>2
      <4> QED
        BY <2>2, <2>4, <2>5, <4>1
    <3>3. CASE i # m /\ ~(i <= n)
      <4>1. i \in m + 1 .. n + 2 /\ i \in n + 1 .. n + 2
        BY <1>1, <2>1, <3>3
      <4> QED
        BY <1>3, <2>2, <2>4, <4>1
    <3> QED
      BY <3>1, <3>2, <3>3
  <2> QED
    BY <2>1, <2>6
<1>6. PICK f : \A i \in 1 .. n + 2 : f[i] = Entry(d, f, i)
  <2>1. n \in T
    BY <1>1, <1>4, <1>5, AllNumbers
  <2>2. n + 1 - n = 1 /\ n <= n
    BY <1>1
  <2> QED
    BY <1>2, <2>1, <2>2
<1>7. PICK g : g = [i \in 1 .. n + 2 |-> f[i]]
  OBVIOUS
<1>8. ASSUME NEW i \in 1 .. n + 2
      PROVE  f[i] = Entry(d, g, i)
  <2>1. CASE i <= n
    <3>1. i \in 1 .. Len(d) /\ \A j \in i + 1 .. n + 2 : j \in 1 .. n + 2
      BY <1>1, <2>1
    <3>2. \A j \in i + 1 .. Len(d) + 2 : f[j] = g[j]
      BY <1>1, <1>7, <3>1
    <3> QED
      BY <1>6, <3>1, <3>2, EntryLocal
  <2>2. CASE ~(i <= n)
    <3>1. i \in n + 1 .. n + 2
      BY <1>1, <2>2
    <3> QED
      BY <1>3, <1>6, <3>1
  <2> QED
    BY <2>1, <2>2
<1>9. g = [i \in 1 .. n + 2 |-> Entry(d, g, i)]
  BY <1>7, <1>8
<1> QED
  BY <1>1, <1>9, ScanChosen

LEMMA ScanTypes ==
    ASSUME NEW d \in Bytes, NEW i \in 1 .. Len(d) + 2
    PROVE  Line!Scan(d)[i] \in Found
<1>1. PICK n : n = Len(d) /\ n \in Nat /\ i \in 1 .. n + 2
  BY LenProperties DEF Bytes
<1>2. PICK f : f = Line!Scan(d) /\ \A j \in 1 .. n + 2 : f[j] = Entry(d, f, j)
  BY <1>1, ScanDefined
<1>3. PICK T : T = {k \in Nat : k <= n => \A j \in n + 1 - k .. n + 2 : f[j] \in Found}
  OBVIOUS
<1>4. \A iac \in BOOLEAN : ScanEnd(iac) \in Found
  BY EmptySeq DEF ScanEnd, Found, Bytes, Answers
<1>5. 0 \in T
  <2>1. \A j \in n + 1 - 0 .. n + 2 : j \in 1 .. n + 2 /\ j > n
    BY <1>1
  <2>2. \A j \in n + 1 - 0 .. n + 2 : f[j] = ScanEnd(FALSE)
    BY <1>1, <1>2, <2>1 DEF Entry
  <2> QED
    BY <1>3, <1>4, <2>2
<1>6. ASSUME NEW k \in Nat, k \in T
      PROVE  k + 1 \in T
  <2> SUFFICES ASSUME k + 1 <= n
               PROVE  \A j \in n + 1 - (k + 1) .. n + 2 : f[j] \in Found
    BY <1>3
  <2>1. PICK m : m = n + 1 - (k + 1) /\ m \in 1 .. n /\ m + 1 = n + 1 - k /\ m \in Nat
    BY <1>1
  <2>2. \A j \in m + 1 .. n + 2 : f[j] \in Found
    <3>1. k <= n
      BY <1>1
    <3> QED
      BY <1>3, <1>6, <2>1, <3>1
  <2>3. f[m] \in Found
    <3>1. f[m] = Entry(d, f, m) /\ ~(m > Len(d)) /\ d[m] \in Symbol
      <4>1. m \in 1 .. n + 2 /\ m <= n /\ m \in 1 .. Len(d)
        BY <1>1, <2>1
      <4> QED
        BY <1>1, <1>2, <4>1, ElementOfSeq DEF Bytes
    <3>2. CASE d[m] # "IAC"
      <4>1. PICK r \in Found : r = f[m + 1]
        <5>1. m + 1 \in m + 1 .. n + 2
          BY <1>1, <2>1
        <5> QED
          BY <2>2, <5>1
      <4>2. <<d[m]>> \o r.out \in Bytes
        BY <3>1, <4>1, Single, ConcatProperties DEF Found, Bytes
      <4>3. f[m] = [r EXCEPT !.out = <<d[m]>> \o @]
        BY <3>1, <3>2, <4>1 DEF Entry
      <4> QED
        BY <4>1, <4>2, <4>3 DEF Found
    <3>3. CASE d[m] = "IAC" /\ m = n
      BY <1>1, <1>4, <2>1, <3>1, <3>3 DEF Entry
    <3>4. CASE d[m] = "IAC" /\ m # n
      <4>1. PICK c : c = Line!Command(d, m + 1) /\ c.out \in Bytes /\ c.answers \in Answers
                     /\ c.next \in Nat /\ m + 1 < c.next /\ c.next <= n + 2
        <5>1. m + 1 \in 1 .. Len(d)
          BY <1>1, <2>1, <3>4
        <5> QED
          BY <1>1, <5>1, CommandFacts
      <4>2. PICK r \in Found : r = f[c.next]
        <5>1. c.next \in m + 1 .. n + 2
          BY <1>1, <2>1, <4>1
        <5> QED
          BY <2>2, <5>1
      <4>3. c.out \o r.out \in Bytes /\ c.answers \o r.answers \in Answers
        BY <4>1, <4>2, ConcatProperties DEF Found, Bytes, Answers
      <4>4. f[m] = [r EXCEPT !.out = c.out \o @, !.answers = c.answers \o @]
        <5>1. m # Len(d)
          BY <1>1, <3>4
        <5> QED
          BY <3>1, <3>4, <4>1, <4>2, <5>1 DEF Entry
      <4> QED
        BY <4>2, <4>3, <4>4 DEF Found
    <3> QED
      BY <3>2, <3>3, <3>4
  <2>4. \A j \in m .. n + 2 : j = m \/ j \in m + 1 .. n + 2
    BY <1>1, <2>1
  <2> QED
    BY <2>1, <2>2, <2>3, <2>4
<1>7. n \in T
  BY <1>1, <1>5, <1>6, AllNumbers
<1>8. n + 1 - n = 1 /\ n <= n
  BY <1>1
<1> QED
  BY <1>1, <1>2, <1>3, <1>7, <1>8

LEMMA PieceTypes ==
    ASSUME NEW d \in Bytes, d # << >>, NEW iac \in BOOLEAN
    PROVE  Line!Piece(d, iac) \in Found
<1>1. PICK n : n = Len(d) /\ n \in Nat /\ n >= 1
  BY EmptySeq, LenProperties DEF Bytes
<1>2. PICK c : c = Line!Command(d, 1) /\ c.out \in Bytes /\ c.answers \in Answers
               /\ c.next \in Nat /\ 1 < c.next /\ c.next <= n + 2
  <2>1. 1 \in 1 .. Len(d)
    BY <1>1
  <2> QED
    BY <1>1, <2>1, CommandFacts
<1>3. 1 \in 1 .. n + 2 /\ c.next \in 1 .. n + 2
  BY <1>1, <1>2
<1>4. PICK r \in Found : r = Line!Scan(d)[c.next]
  BY <1>1, <1>3, ScanTypes
<1>5. c.out \o r.out \in Bytes /\ c.answers \o r.answers \in Answers
  BY <1>2, <1>4, ConcatProperties DEF Found, Bytes, Answers
<1>6. [r EXCEPT !.out = c.out \o @, !.answers = c.answers \o @] \in Found
  BY <1>4, <1>5 DEF Found
<1>7. Line!Scan(d)[1] \in Found
  BY <1>1, <1>3, ScanTypes
<1> QED
  BY <1>2, <1>4, <1>6, <1>7 DEF Line!Piece

-----------------------------------------------------------------------------
(* Sequences of bytes that are cut and joined.                             *)

LEMMA BytesJoined ==
    ASSUME NEW s \in Bytes, NEW t \in Bytes
    PROVE  /\ s \o t \in Bytes /\ Len(s \o t) = Len(s) + Len(t)
           /\ s \o << >> = s /\ << >> \o s = s /\ << >> \in Bytes
           /\ Len(s) \in Nat
  BY ConcatProperties, ConcatEmptySeq, EmptySeq, LenProperties DEF Bytes

LEMMA BytesRegrouped ==
    ASSUME NEW s \in Bytes, NEW t \in Bytes, NEW u \in Bytes
    PROVE  (s \o t) \o u = s \o (t \o u)
  BY ConcatAssociative DEF Bytes

LEMMA BytesCut ==
    ASSUME NEW s \in Bytes, NEW i \in Nat, i >= 1, NEW j \in Nat, j <= Len(s)
    PROVE  /\ SubSeq(s, i, j) \in Bytes
           /\ Len(SubSeq(s, i, j)) = IF i <= j THEN j - i + 1 ELSE 0
           /\ \A k \in 1 .. j - i + 1 : SubSeq(s, i, j)[k] = s[i + k - 1]
<1>1. PICK n : n = Len(s) /\ n \in Nat /\ j <= n
  BY LenProperties DEF Bytes
<1>2. \A k \in i .. j : k \in 1 .. n
  BY <1>1
<1>3. \A k \in i .. j : s[k] \in Symbol
  BY <1>1, <1>2, ElementOfSeq DEF Bytes
<1> QED
  BY <1>3, SubSeqProperties DEF Bytes

LEMMA Halves ==
    ASSUME NEW s \in Bytes, NEW m \in Nat, m <= Len(s)
    PROVE  /\ SubSeq(s, 1, m) \in Bytes /\ SubSeq(s, m + 1, Len(s)) \in Bytes
           /\ SubSeq(s, 1, m) \o SubSeq(s, m + 1, Len(s)) = s
<1>1. PICK n : n = Len(s) /\ n \in Nat /\ m <= n
  BY LenProperties DEF Bytes
<1>2. SubSeq(s, 1, m) \in Bytes
  BY BytesCut
<1>3. SubSeq(s, m + 1, Len(s)) \in Bytes
  <2>1. m + 1 \in Nat /\ m + 1 >= 1 /\ n <= n
    BY <1>1
  <2> QED
    BY <1>1, <2>1, BytesCut
<1>4. 1 \in 1 .. Len(s) + 1 /\ m \in 1 - 1 .. Len(s) /\ Len(s) \in m .. Len(s)
  BY <1>1
<1>5. SubSeq(s, 1, m) \o SubSeq(s, m + 1, Len(s)) = SubSeq(s, 1, Len(s))
  BY <1>4, ConcatAdjacentSubSeq DEF Bytes
<1> QED
  BY <1>2, <1>3, <1>5, SubSeqFull DEF Bytes

\* What follows a beginning of which the whole is known.
LEMMA Remainder ==
    ASSUME NEW s \in Bytes, NEW j \in Nat, j <= Len(s), NEW a \in Bytes, NEW b \in Bytes,
           a \o b = SubSeq(s, 1, j)
    PROVE  Len(a) <= j /\ b = SubSeq(s, Len(a) + 1, j)
<1>1. PICK m, n : m = Len(a) /\ n = Len(b) /\ m \in Nat /\ n \in Nat
  BY LenProperties DEF Bytes
<1>2. m + n = j /\ \A k \in 1 .. j : (a \o b)[k] = s[k]
  <2>1. /\ Len(SubSeq(s, 1, j)) = IF 1 <= j THEN j - 1 + 1 ELSE 0
        /\ \A k \in 1 .. j - 1 + 1 : SubSeq(s, 1, j)[k] = s[1 + k - 1]
    BY BytesCut
  <2>2. Len(a \o b) = m + n
    BY <1>1, BytesJoined
  <2>3. Len(SubSeq(s, 1, j)) = j
    BY <2>1
  <2>4. \A k \in 1 .. j : k \in 1 .. j - 1 + 1 /\ 1 + k - 1 = k
    OBVIOUS
  <2>5. \A k \in 1 .. j : SubSeq(s, 1, j)[k] = s[k]
    BY <2>1, <2>4
  <2> QED
    BY <2>2, <2>3, <2>5
<1>3. PICK c : c = SubSeq(s, m + 1, j) /\ c \in Bytes /\ Len(c) = n
               /\ \A k \in 1 .. n : c[k] = s[m + k]
  <2>1. m + 1 \in Nat /\ m + 1 >= 1
    BY <1>1
  <2>2. /\ SubSeq(s, m + 1, j) \in Bytes
        /\ Len(SubSeq(s, m + 1, j)) = IF m + 1 <= j THEN j - (m + 1) + 1 ELSE 0
        /\ \A k \in 1 .. j - (m + 1) + 1 : SubSeq(s, m + 1, j)[k] = s[m + 1 + k - 1]
    BY <2>1, BytesCut
  <2>3. j - (m + 1) + 1 = n /\ (IF m + 1 <= j THEN j - (m + 1) + 1 ELSE 0) = n
    BY <1>1, <1>2
  <2>4. PICK c : c = SubSeq(s, m + 1, j)
    OBVIOUS
  <2>5. c \in Bytes /\ Len(c) = n
    BY <2>2, <2>3, <2>4
  <2>6. ASSUME NEW k \in 1 .. n
        PROVE  c[k] = s[m + k]
    <3>1. m + 1 + k - 1 = m + k /\ k \in 1 .. j - (m + 1) + 1
      BY <1>1, <2>3
    <3>2. c[k] = s[m + 1 + k - 1]
      BY <2>2, <2>4, <3>1
    <3> QED
      BY <3>1, <3>2
  <2> QED
    BY <2>4, <2>5, <2>6
<1>4. \A k \in 1 .. n : b[k] = s[m + k]
  <2> SUFFICES ASSUME NEW k \in 1 .. n
               PROVE  b[k] = s[m + k]
    OBVIOUS
  <2>1. m + k \in 1 .. j /\ m + k \in 1 .. m + n /\ ~(m + k <= m) /\ (m + k) - m = k
    BY <1>1, <1>2
  <2>2. \A i \in 1 .. m + n : (a \o b)[i] = IF i <= m THEN a[i] ELSE b[i - m]
    BY <1>1, ConcatProperties DEF Bytes
  <2>3. (a \o b)[m + k] = b[(m + k) - m]
    BY <2>1, <2>2
  <2> QED
    BY <1>2, <2>1, <2>3
<1>5. b = c
  <2>1. Len(b) = Len(c) /\ \A k \in 1 .. Len(b) : b[k] = c[k]
    BY <1>1, <1>3, <1>4
  <2>2. b \in Seq(Symbol) /\ c \in Seq(Symbol)
    BY <1>3 DEF Bytes
  <2> QED
    BY <2>1, <2>2, SeqEqual
<1>6. m <= j
  BY <1>1, <1>2
<1> QED
  BY <1>1, <1>3, <1>5, <1>6

Begins(a, b) == \E rest \in Bytes : b = a \o rest

LEMMA BeginsFacts ==
    ASSUME NEW a \in Bytes, NEW b \in Bytes, NEW c \in Bytes
    PROVE  /\ Begins(a, a) /\ Begins(<< >>, a) /\ Begins(a, a \o b)
           /\ Begins(a, b) => Begins(a, b \o c)
           /\ Begins(a \o b, c) => Begins(a, c)
           /\ Begins(a, b) => Line!IsPrefix(a, b)
<1>1. Begins(a, a) /\ Begins(<< >>, a) /\ Begins(a, a \o b)
  BY BytesJoined DEF Begins
<1>2. ASSUME Begins(a, b)
      PROVE  Begins(a, b \o c)
  <2>1. PICK rest \in Bytes : b = a \o rest
    BY <1>2 DEF Begins
  <2>2. b \o c = a \o (rest \o c) /\ rest \o c \in Bytes
    BY <2>1, ConcatAssociative, BytesJoined DEF Bytes
  <2> QED
    BY <2>2 DEF Begins
<1>3. ASSUME Begins(a \o b, c)
      PROVE  Begins(a, c)
  <2>1. PICK rest \in Bytes : c = (a \o b) \o rest
    BY <1>3 DEF Begins
  <2>2. c = a \o (b \o rest) /\ b \o rest \in Bytes
    BY <2>1, ConcatAssociative, BytesJoined DEF Bytes
  <2> QED
    BY <2>2 DEF Begins
<1>4. ASSUME Begins(a, b)
      PROVE  Line!IsPrefix(a, b)
  <2>1. PICK rest \in Bytes : b = a \o rest
    BY <1>4 DEF Begins
  <2>2. PICK m, n : m = Len(a) /\ n = Len(rest) /\ m \in Nat /\ n \in Nat
    BY BytesJoined
  <2>3. Len(b) = m + n /\ m <= m + n
    BY <2>1, <2>2, BytesJoined
  <2>4. SubSeq(b, 1, m) = SubSeq(a, 1, m)
    <3>1. CASE m = 0
      <4>1. 0 < 1
        OBVIOUS
      <4> QED
        BY <3>1, <4>1, SubSeqEmpty
    <3>2. CASE m # 0
      <4>1. 1 \in 1 .. m /\ m \in 1 .. m
        BY <2>2, <3>2
      <4> QED
        BY <2>1, <2>2, <4>1, SubSeqOfConcat1 DEF Bytes
    <3> QED
      BY <3>1, <3>2
  <2> QED
    BY <2>2, <2>3, <2>4 DEF Line!IsPrefix
<1> QED
  BY <1>1, <1>2, <1>3, <1>4

-----------------------------------------------------------------------------
(* The invariant.  While the options are negotiated, what was received and   *)
(* what waits are what the server has said.  Afterwards what the reader has, *)
(* what the wrapper holds and what waits are the data of the negotiation and *)
(* what was said since; all of it, until the connection breaks.             *)

Ahead  == got \o (wrapper.buf \o socket)
Stream == initial \o SubSeq(script, Len(heard) + 1, said)

LineTyped ==
    /\ script \in Bytes /\ said \in Nat /\ said <= Len(script)
    /\ line \in {"up", "fin", "reset"} /\ mode \in {"negotiating", "open"}
    /\ socket \in Bytes /\ got \in Bytes /\ heard \in Bytes
    /\ initial \in Bytes /\ out \in Bytes
    /\ wrapper \in [buf : Bytes, eof : BOOLEAN, open : BOOLEAN, closed : BOOLEAN]
    /\ pendingIac \in BOOLEAN

LineQuiet ==
    /\ heard \o socket = SubSeq(script, 1, said)
    /\ got = << >> /\ wrapper.buf = << >>
    /\ ~wrapper.eof /\ ~wrapper.closed /\ ~raised

LineRead ==
    /\ Len(heard) <= said
    /\ ~raised => /\ Begins(Ahead, Stream)
                  /\ line # "reset" => Ahead = Stream
                  /\ wrapper.eof /\ ~wrapper.closed /\ line # "reset" =>
                        line = "fin" /\ wrapper.buf = << >> /\ socket = << >>
    /\ raised => /\ Begins(got, Stream)
                 /\ ~wrapper.closed => line # "up"
                 /\ ~wrapper.closed /\ line = "fin" => got = Stream

LineInv == /\ LineTyped
           /\ mode = "negotiating" => LineQuiet
           /\ mode = "open" => LineRead

LEMMA StreamTypes ==
    ASSUME LineTyped
    PROVE  /\ Ahead \in Bytes /\ Stream \in Bytes
           /\ wrapper.buf \in Bytes /\ Len(heard) \in Nat
           /\ wrapper.eof \in BOOLEAN /\ wrapper.closed \in BOOLEAN
<1>1. wrapper.buf \in Bytes /\ wrapper.eof \in BOOLEAN /\ wrapper.closed \in BOOLEAN
  BY DEF LineTyped
<1>2. Len(heard) \in Nat
  BY BytesJoined DEF LineTyped
<1>3. Ahead \in Bytes
  BY <1>1, BytesJoined DEF LineTyped, Ahead
<1>4. SubSeq(script, Len(heard) + 1, said) \in Bytes
  <2>1. Len(heard) + 1 \in Nat /\ Len(heard) + 1 >= 1
    BY <1>2
  <2> QED
    BY <2>1, BytesCut DEF LineTyped
<1>5. Stream \in Bytes
  BY <1>4, BytesJoined DEF LineTyped, Stream
<1> QED
  BY <1>1, <1>2, <1>3, <1>5

LEMMA LineInit == Line!Init => LineInv
<1> SUFFICES ASSUME Line!Init
             PROVE  LineInv
  OBVIOUS
<1>1. /\ script \in Scripts /\ said = 0 /\ line = "up" /\ socket = << >>
      /\ mode = "negotiating" /\ pendingIac = FALSE /\ out = << >>
      /\ wrapper = [buf |-> << >>, eof |-> FALSE, open |-> TRUE, closed |-> FALSE]
      /\ got = << >> /\ raised = FALSE /\ heard = << >> /\ initial = << >>
  BY DEF Line!Init
<1>2. << >> \in Bytes
  BY EmptySeq DEF Bytes
<1>3. script \in Bytes
  <2>1. script \in Seq(STRING) /\ STRING \subseteq Symbol
    BY <1>1, LineAssumption DEF Symbol
  <2> QED
    BY <2>1, SeqMonotonic DEF Bytes
<1>4. LineTyped
  <2>1. Len(script) \in Nat
    BY <1>3, BytesJoined
  <2>2. said \in Nat /\ said <= Len(script)
    BY <1>1, <2>1
  <2>3. wrapper \in [buf : Bytes, eof : BOOLEAN, open : BOOLEAN, closed : BOOLEAN]
    BY <1>1, <1>2
  <2>4. /\ socket \in Bytes /\ got \in Bytes /\ heard \in Bytes
        /\ initial \in Bytes /\ out \in Bytes
    BY <1>1, <1>2
  <2>5. /\ line \in {"up", "fin", "reset"} /\ mode \in {"negotiating", "open"}
        /\ pendingIac \in BOOLEAN
    BY <1>1
  <2> QED
    BY <1>3, <2>2, <2>3, <2>4, <2>5 DEF LineTyped
<1>5. heard \o socket = SubSeq(script, 1, said)
  <2>1. SubSeq(script, 1, 0) = << >>
    BY SubSeqEmpty
  <2> QED
    BY <1>1, <1>2, <2>1, BytesJoined
<1>6. LineQuiet
  BY <1>1, <1>5 DEF LineQuiet
<1> QED
  BY <1>1, <1>4, <1>6 DEF LineInv

\* More arrives.
LEMMA ArriveStep ==
    ASSUME LineInv, NEW n \in Nat, Line!Arrive(n)
    PROVE  LineInv'
<1>1. /\ line = "up" /\ said < n /\ n <= Len(script) /\ said' = n
      /\ socket' = socket \o SubSeq(script, said + 1, n)
      /\ UNCHANGED <<script, line, mode, pendingIac, out, heard, initial, wrapper, got, raised>>
  BY DEF Line!Arrive, Line!telnet, Line!reader
<1>2. /\ script \in Bytes /\ said \in Nat /\ said <= Len(script) /\ socket \in Bytes
      /\ got \in Bytes /\ heard \in Bytes /\ initial \in Bytes
  BY DEF LineInv, LineTyped
<1>3. PICK more : more = SubSeq(script, said + 1, n) /\ more \in Bytes
  <2>1. said + 1 \in Nat /\ said + 1 >= 1
    BY <1>2
  <2> QED
    BY <1>1, <1>2, <2>1, BytesCut
<1>4. LineTyped'
  <2>1. socket' \in Bytes
    BY <1>1, <1>2, <1>3, BytesJoined
  <2> QED
    BY <1>1, <2>1 DEF LineInv, LineTyped
<1>5. ASSUME NEW i \in Nat, i >= 1, i <= said + 1
      PROVE  SubSeq(script, i, n) = SubSeq(script, i, said) \o more
  <2>1. PICK len : len = Len(script) /\ len \in Nat
    BY <1>2, BytesJoined
  <2>2. i \in 1 .. Len(script) + 1 /\ said \in i - 1 .. Len(script) /\ n \in said .. Len(script)
    BY <1>1, <1>2, <1>5, <2>1
  <2> QED
    BY <1>2, <1>3, <2>2, ConcatAdjacentSubSeq DEF Bytes
<1>6. CASE mode = "negotiating"
  <2>1. heard \o socket = SubSeq(script, 1, said)
    BY <1>6 DEF LineInv, LineQuiet
  <2>2. heard \o (socket \o more) = (heard \o socket) \o more
    BY <1>2, <1>3, BytesRegrouped
  <2>3. SubSeq(script, 1, n) = SubSeq(script, 1, said) \o more
    <3>1. 1 \in Nat /\ 1 >= 1 /\ 1 <= said + 1
      BY <1>2
    <3> QED
      BY <1>5, <3>1
  <2>4. LineQuiet'
    BY <1>1, <1>3, <1>6, <2>1, <2>2, <2>3 DEF LineInv, LineQuiet
  <2> QED
    BY <1>1, <1>4, <1>6, <2>4 DEF LineInv
<1>7. CASE mode = "open"
  <2>1. LineRead /\ Len(heard) \in Nat /\ Len(heard) <= said /\ Len(heard) <= n
    BY <1>1, <1>2, <1>7, BytesJoined DEF LineInv, LineRead
  <2>2. Stream' = Stream \o more
    <3>1. Len(heard) + 1 \in Nat /\ Len(heard) + 1 >= 1 /\ Len(heard) + 1 <= said + 1
      BY <1>2, <2>1
    <3>2. SubSeq(script, Len(heard) + 1, n) = SubSeq(script, Len(heard) + 1, said) \o more
      BY <1>5, <3>1
    <3>3. PICK since \in Bytes : since = SubSeq(script, Len(heard) + 1, said)
      BY <1>2, <3>1, BytesCut
    <3>4. initial \o (since \o more) = (initial \o since) \o more
      <4>1. initial \in Bytes /\ since \in Bytes /\ more \in Bytes
        BY <1>2, <1>3, <3>3
      <4> QED
        BY <4>1, BytesRegrouped
    <3> QED
      BY <1>1, <3>2, <3>3, <3>4 DEF Stream
  <2>3. Ahead' = Ahead \o more
    <3>1. PICK buf \in Bytes : buf = wrapper.buf
      BY StreamTypes DEF LineInv
    <3>2. /\ buf \o (socket \o more) = (buf \o socket) \o more
          /\ got \o ((buf \o socket) \o more) = (got \o (buf \o socket)) \o more
      <4>1. buf \in Bytes /\ socket \in Bytes /\ got \in Bytes /\ more \in Bytes
        BY <1>2, <1>3, <3>1
      <4>2. buf \o socket \in Bytes
        BY <4>1, BytesJoined
      <4> QED
        BY <4>1, <4>2, BytesRegrouped
    <3> QED
      BY <1>1, <1>3, <3>1, <3>2 DEF Ahead
  <2>4. ~raised => Begins(Ahead', Stream') /\ Ahead' = Stream'
    <3>1. ~raised => Ahead = Stream
      BY <1>1, <2>1 DEF LineRead
    <3>2. PICK all \in Bytes : all = Stream
      BY StreamTypes DEF LineInv
    <3>3. Begins(all \o more, all \o more)
      <4>1. all \o more \in Bytes
        BY <1>3, BytesJoined
      <4> QED
        BY <4>1, BeginsFacts
    <3> QED
      BY <2>2, <2>3, <3>1, <3>2, <3>3
  <2>5. raised => Begins(got, Stream')
    BY <1>2, <1>3, <2>1, <2>2, BeginsFacts, StreamTypes DEF LineInv, LineRead
  <2>6. LineRead'
    <3>1. ~raised /\ wrapper.eof => wrapper.closed
      BY <1>1, <2>1 DEF LineRead
    <3>2. raised => wrapper.closed
      BY <1>1, <2>1 DEF LineRead
    <3>3. Begins(Ahead, Stream)' <=> Begins(Ahead', Stream')
      BY DEF Begins
    <3>4. Begins(got, Stream)' <=> Begins(got, Stream')
      BY <1>1 DEF Begins
    <3> QED
      BY <1>1, <2>1, <2>4, <2>5, <3>1, <3>2, <3>3, <3>4 DEF LineRead
  <2> QED
    BY <1>1, <1>4, <1>7, <2>6 DEF LineInv
<1> QED
  BY <1>6, <1>7 DEF LineInv, LineTyped

LEMMA HangupStep ==
    ASSUME LineInv, Line!Hangup
    PROVE  LineInv'
<1>1. /\ \/ line = "up" /\ line' = "fin"
         \/ line # "reset" /\ line' = "reset"
      /\ UNCHANGED <<script, said, socket, mode, pendingIac, out, heard, initial,
                     wrapper, got, raised>>
  BY DEF Line!Hangup, Line!telnet, Line!reader
<1>2. LineTyped'
  BY <1>1 DEF LineInv, LineTyped
<1>3. LineQuiet => LineQuiet'
  BY <1>1 DEF LineQuiet
<1>4. LineRead => LineRead'
  <2>1. Ahead' = Ahead /\ Stream' = Stream
    BY <1>1 DEF Ahead, Stream
  <2>2. /\ Begins(Ahead, Stream)' <=> Begins(Ahead, Stream)
        /\ Begins(got, Stream)' <=> Begins(got, Stream)
    BY <1>1, <2>1 DEF Begins
  <2> QED
    BY <1>1, <2>1, <2>2 DEF LineRead
<1> QED
  BY <1>1, <1>2, <1>3, <1>4 DEF LineInv

\* A piece is negotiated.
LEMMA ReceiveStep ==
    ASSUME LineInv, Line!Receive
    PROVE  LineInv'
<1>1. PICK r : r = Line!Piece(socket, pendingIac)
  OBVIOUS
<1>2. /\ mode = "negotiating" /\ socket # << >>
      /\ out' = out \o r.out /\ pendingIac' = r.pending
      /\ heard' = heard \o socket /\ socket' = << >>
      /\ UNCHANGED <<script, said, line, mode, wrapper, got, raised, initial>>
  BY <1>1 DEF Line!Receive, Line!peer, Line!reader
<1>3. LineTyped /\ LineQuiet /\ socket \in Bytes /\ heard \in Bytes /\ out \in Bytes
      /\ pendingIac \in BOOLEAN
  BY <1>2 DEF LineInv, LineTyped
<1>4. r \in Found
  BY <1>1, <1>2, <1>3, PieceTypes
<1>5. r.out \in Bytes /\ r.pending \in BOOLEAN
  BY <1>4 DEF Found
<1>6. LineTyped'
  <2>1. out' \in Bytes /\ heard' \in Bytes /\ socket' \in Bytes
    BY <1>2, <1>3, <1>5, BytesJoined
  <2> QED
    BY <1>2, <1>3, <1>5, <2>1 DEF LineTyped
<1>7. LineQuiet'
  <2>1. heard' \o socket' = heard \o socket
    <3>1. PICK all \in Bytes : all = heard \o socket
      BY <1>3, BytesJoined
    <3>2. all \o << >> = all
      BY <3>1, BytesJoined
    <3> QED
      BY <1>2, <3>1, <3>2
  <2> QED
    BY <1>2, <1>3, <2>1 DEF LineQuiet
<1> QED
  BY <1>2, <1>6, <1>7 DEF LineInv

\* The wrapper takes over.
LEMMA OpenStep ==
    ASSUME LineInv, Line!Settle \/ Line!AnswerFails
    PROVE  LineInv'
<1>1. PICK buf : /\ mode = "negotiating" /\ mode' = "open"
                 /\ wrapper' = [wrapper EXCEPT !.buf = buf] /\ initial' = buf
                 /\ UNCHANGED <<script, said, line, got, raised, pendingIac, out, heard>>
                 /\ \/ buf = out /\ socket' = socket
                    \/ buf = << >> /\ socket' = << >> /\ line = "reset"
  BY DEF Line!Settle, Line!AnswerFails, Line!OpenWith, Line!peer, Line!reader
<1>2. LineTyped /\ LineQuiet
  BY <1>1 DEF LineInv
<1>3. buf \in Bytes /\ socket' \in Bytes /\ << >> \in Bytes
  BY <1>1, <1>2, EmptySeq DEF LineTyped, Bytes
<1>4. /\ wrapper' \in [buf : Bytes, eof : BOOLEAN, open : BOOLEAN, closed : BOOLEAN]
      /\ wrapper'.buf = buf /\ wrapper'.eof = wrapper.eof /\ wrapper'.closed = wrapper.closed
  BY <1>1, <1>2, <1>3 DEF LineTyped
<1>5. LineTyped'
  BY <1>1, <1>2, <1>3, <1>4 DEF LineTyped
<1>6. Len(heard) <= said /\ socket = SubSeq(script, Len(heard) + 1, said)
  <2>1. /\ script \in Bytes /\ said \in Nat /\ said <= Len(script)
        /\ heard \in Bytes /\ socket \in Bytes
        /\ heard \o socket = SubSeq(script, 1, said)
    BY <1>2 DEF LineTyped, LineQuiet
  <2> QED
    BY <2>1, Remainder
<1>7. Ahead' = buf \o socket'
  <2>1. buf \o socket' \in Bytes
    BY <1>3, BytesJoined
  <2>2. << >> \o (buf \o socket') = buf \o socket'
    BY <2>1, BytesJoined
  <2>3. got' = << >>
    BY <1>1, <1>2 DEF LineQuiet
  <2> QED
    BY <1>4, <2>2, <2>3 DEF Ahead
<1>8. Stream' = buf \o socket
  BY <1>1, <1>6 DEF Stream
<1>9. Begins(Ahead', Stream') /\ (line # "reset" => Ahead' = Stream')
  <2>1. Stream' \in Bytes
    BY <1>2, <1>3, <1>8, BytesJoined DEF LineTyped
  <2>2. CASE buf = out /\ socket' = socket
    <3>1. Ahead' = Stream'
      BY <1>7, <1>8, <2>2
    <3> QED
      BY <2>1, <3>1, BeginsFacts
  <2>3. CASE buf = << >> /\ socket' = << >> /\ line = "reset"
    <3>1. Ahead' = << >>
      BY <1>3, <1>7, <2>3, BytesJoined
    <3> QED
      BY <2>1, <2>3, <3>1, BeginsFacts
  <2> QED
    BY <1>1, <2>2, <2>3
<1>10. LineRead'
  <2>1. Begins(Ahead, Stream)' <=> Begins(Ahead', Stream')
    BY DEF Begins
  <2> QED
    BY <1>1, <1>2, <1>4, <1>6, <1>9, <2>1 DEF LineRead, LineQuiet
<1> QED
  BY <1>1, <1>5, <1>10 DEF LineInv

\* A step of the wrapper by which nothing is lost.
LEMMA ReadStep ==
    ASSUME LineInv, mode = "open", ~raised,
           UNCHANGED <<script, said, line, mode, pendingIac, out, heard, initial, raised>>,
           got' \in Bytes, socket' \in Bytes,
           wrapper' \in [buf : Bytes, eof : BOOLEAN, open : BOOLEAN, closed : BOOLEAN],
           Ahead' = Ahead,
           wrapper'.eof /\ ~wrapper'.closed /\ line # "reset" =>
              line = "fin" /\ wrapper'.buf = << >> /\ socket' = << >>
    PROVE  LineInv'
<1>1. LineTyped /\ LineRead
  BY DEF LineInv
<1>2. LineTyped'
  BY <1>1 DEF LineTyped
<1>3. Stream' = Stream
  BY DEF Stream
<1>4. Begins(Ahead, Stream)' <=> Begins(Ahead, Stream)
  BY <1>3 DEF Begins
<1>5. LineRead'
  BY <1>1, <1>3, <1>4 DEF LineRead
<1> QED
  BY <1>2, <1>5 DEF LineInv

\* The reader is told of the end, or of an error.
LEMMA RaiseStep ==
    ASSUME LineInv, mode = "open", ~raised, raised',
           UNCHANGED <<script, said, line, mode, pendingIac, out, heard, initial, got, socket>>,
           wrapper' \in [buf : Bytes, eof : BOOLEAN, open : BOOLEAN, closed : BOOLEAN],
           wrapper'.closed = wrapper.closed,
           ~wrapper.closed => line # "up",
           ~wrapper.closed /\ line = "fin" => wrapper.buf = << >> /\ socket = << >>
    PROVE  LineInv'
<1>1. LineTyped /\ LineRead
  BY DEF LineInv
<1>2. LineTyped'
  BY <1>1 DEF LineTyped
<1>3. Stream' = Stream
  BY DEF Stream
<1>4. wrapper.buf \in Bytes /\ socket \in Bytes /\ got \in Bytes /\ Stream \in Bytes
  BY <1>1, StreamTypes DEF LineTyped
<1>5. Begins(got, Stream)
  <2>1. PICK rest \in Bytes : rest = wrapper.buf \o socket
    BY <1>4, BytesJoined
  <2>2. Begins(got \o rest, Stream)
    BY <1>1, <2>1 DEF LineRead, Ahead
  <2> QED
    BY <1>4, <2>1, <2>2, BeginsFacts
<1>6. ~wrapper.closed /\ line = "fin" => got = Stream
  <2> SUFFICES ASSUME ~wrapper.closed, line = "fin"
               PROVE  got = Stream
    OBVIOUS
  <2>1. Ahead = Stream /\ wrapper.buf = << >> /\ socket = << >>
    BY <1>1 DEF LineRead
  <2>2. Ahead = got
    BY <1>4, <2>1, BytesJoined DEF Ahead
  <2> QED
    BY <2>1, <2>2
<1>7. Begins(got, Stream)' <=> Begins(got, Stream)
  BY <1>3 DEF Begins
<1>8. LineRead'
  BY <1>1, <1>3, <1>5, <1>6, <1>7 DEF LineRead
<1> QED
  BY <1>2, <1>8 DEF LineInv

\* The fields of the wrapper.
LEMMA WrapperFacts ==
    ASSUME LineTyped
    PROVE  /\ wrapper.buf \in Bytes /\ wrapper.eof \in BOOLEAN
           /\ wrapper.open \in BOOLEAN /\ wrapper.closed \in BOOLEAN
  BY DEF LineTyped

LEMMA InWaitingStep ==
    ASSUME LineInv, Line!InWaiting
    PROVE  LineInv'
<1>1. /\ mode = "open" /\ ~raised /\ wrapper.buf = << >>
      /\ UNCHANGED <<script, said, line, mode, pendingIac, out, heard, initial, got>>
  BY DEF Line!InWaiting, Line!peer, Line!telnet
<1>2. LineTyped /\ LineRead
  BY <1>1 DEF LineInv
<1>3. CASE /\ wrapper.eof \/ Line!Recv(Len(socket)) \in {"eof", "error"}
           /\ wrapper' = Line!Closed /\ raised' = TRUE /\ UNCHANGED socket
  <2>1. /\ wrapper' \in [buf : Bytes, eof : BOOLEAN, open : BOOLEAN, closed : BOOLEAN]
        /\ wrapper'.closed = wrapper.closed
    BY <1>2, <1>3 DEF LineTyped, Line!Closed
  <2>2. line \in {"up", "fin", "reset"}
    BY <1>2 DEF LineTyped
  <2>3. ~wrapper.closed => line # "up"
    BY <1>1, <1>2, <1>3, <2>2 DEF LineRead, Line!Recv
  <2>4. ~wrapper.closed /\ line = "fin" => wrapper.buf = << >> /\ socket = << >>
    BY <1>1, <1>2, <1>3 DEF LineRead, Line!Recv
  <2> QED
    BY <1>1, <1>3, <2>1, <2>3, <2>4, RaiseStep
<1>4. CASE /\ ~wrapper.eof /\ wrapper' = [wrapper EXCEPT !.buf = socket]
           /\ socket' = << >> /\ UNCHANGED raised
  <2>1. socket \in Bytes /\ got \in Bytes /\ << >> \in Bytes
    BY <1>2, EmptySeq DEF LineTyped, Bytes
  <2>2. /\ wrapper' \in [buf : Bytes, eof : BOOLEAN, open : BOOLEAN, closed : BOOLEAN]
        /\ wrapper'.buf = socket /\ ~wrapper'.eof
    BY <1>2, <1>4, <2>1 DEF LineTyped
  <2>3. socket \o << >> = socket /\ << >> \o socket = socket
    BY <2>1, BytesJoined
  <2>4. Ahead' = Ahead
    BY <1>1, <1>4, <2>2, <2>3 DEF Ahead
  <2> QED
    BY <1>1, <1>4, <2>1, <2>2, <2>4, ReadStep
<1> QED
  BY <1>3, <1>4 DEF Line!InWaiting

LEMMA ReadBufferedStep ==
    ASSUME LineInv, NEW n \in Nat, Line!ReadBuffered(n)
    PROVE  LineInv'
<1>1. PICK len : len = Len(wrapper.buf)
  OBVIOUS
<1>2. PICK m : m = IF n <= len THEN n ELSE len
  OBVIOUS
<1>3. /\ mode = "open" /\ ~raised /\ ~wrapper.eof
      /\ got' = got \o SubSeq(wrapper.buf, 1, m)
      /\ wrapper' = [wrapper EXCEPT !.buf =
            SubSeq(wrapper.buf, Len(SubSeq(wrapper.buf, 1, m)) + 1, len)]
      /\ UNCHANGED <<script, said, line, mode, pendingIac, out, heard, initial, socket, raised>>
  BY <1>1, <1>2 DEF Line!ReadBuffered, Line!peer, Line!telnet
<1>4. LineTyped /\ socket \in Bytes /\ got \in Bytes
  BY DEF LineInv, LineTyped
<1>5. PICK buf \in Bytes : buf = wrapper.buf
  BY <1>4, WrapperFacts
<1>6. len = Len(buf) /\ len \in Nat /\ m \in Nat /\ m <= len
  <2>1. len = Len(buf) /\ len \in Nat
    BY <1>1, <1>5, BytesJoined
  <2> QED
    BY <1>2, <2>1
<1>7. PICK front, rest : /\ front = SubSeq(buf, 1, m) /\ rest = SubSeq(buf, m + 1, len)
                         /\ front \in Bytes /\ rest \in Bytes /\ front \o rest = buf
  <2>1. buf \in Bytes /\ m \in Nat /\ m <= Len(buf)
    BY <1>5, <1>6
  <2>2. /\ SubSeq(buf, 1, m) \in Bytes /\ SubSeq(buf, m + 1, Len(buf)) \in Bytes
        /\ SubSeq(buf, 1, m) \o SubSeq(buf, m + 1, Len(buf)) = buf
    BY <2>1, Halves
  <2> QED
    BY <1>6, <2>2
<1>8. Len(front) = m
  <2>1. Len(SubSeq(buf, 1, m)) = IF 1 <= m THEN m - 1 + 1 ELSE 0
    BY <1>5, <1>6, BytesCut
  <2> QED
    BY <1>6, <1>7, <2>1
<1>9. got' = got \o front /\ wrapper' = [wrapper EXCEPT !.buf = rest]
  BY <1>3, <1>5, <1>7, <1>8
<1>10. /\ wrapper' \in [buf : Bytes, eof : BOOLEAN, open : BOOLEAN, closed : BOOLEAN]
       /\ wrapper'.buf = rest /\ wrapper'.eof = wrapper.eof
  BY <1>4, <1>7, <1>9 DEF LineTyped
<1>11. got' \in Bytes
  BY <1>4, <1>7, <1>9, BytesJoined
<1>12. Ahead' = Ahead
  <2>1. rest \o socket \in Bytes
    BY <1>4, <1>7, BytesJoined
  <2>2. (got \o front) \o (rest \o socket) = got \o (front \o (rest \o socket))
    <3>1. got \in Bytes /\ front \in Bytes
      BY <1>4, <1>7
    <3> QED
      BY <2>1, <3>1, BytesRegrouped
  <2>3. front \o (rest \o socket) = buf \o socket
    <3>1. front \in Bytes /\ rest \in Bytes /\ socket \in Bytes
      BY <1>4, <1>7
    <3>2. (front \o rest) \o socket = front \o (rest \o socket)
      BY <3>1, BytesRegrouped
    <3> QED
      BY <1>7, <3>2
  <2> QED
    BY <1>3, <1>5, <1>9, <1>10, <2>2, <2>3 DEF Ahead
<1> QED
  BY <1>3, <1>4, <1>10, <1>11, <1>12, ReadStep

LEMMA ReadSocketStep ==
    ASSUME LineInv, NEW n \in Nat, Line!ReadSocket(n)
    PROVE  LineInv'
<1>1. PICK want, len, m : /\ want = n - Len(wrapper.buf) /\ len = Len(socket)
                          /\ m = IF want <= len THEN want ELSE len
  OBVIOUS
<1>2. /\ mode = "open" /\ ~raised /\ ~wrapper.eof /\ want > 0
      /\ got' = (got \o wrapper.buf) \o SubSeq(socket, 1, m)
      /\ socket' = SubSeq(socket, want + 1, len)
      /\ wrapper' = [wrapper EXCEPT !.buf = << >>]
      /\ UNCHANGED <<script, said, line, mode, pendingIac, out, heard, initial, raised>>
  BY <1>1 DEF Line!ReadSocket, Line!peer, Line!telnet
<1>3. LineTyped /\ socket \in Bytes /\ got \in Bytes /\ << >> \in Bytes
  BY EmptySeq DEF LineInv, LineTyped, Bytes
<1>4. PICK buf \in Bytes : buf = wrapper.buf
  BY <1>3, WrapperFacts
<1>5. want \in Nat /\ len \in Nat /\ m \in Nat /\ m <= len
  <2>1. Len(wrapper.buf) \in Nat /\ len \in Nat
    BY <1>1, <1>3, <1>4, BytesJoined
  <2>2. want \in Nat
    BY <1>1, <1>2, <2>1
  <2> QED
    BY <1>1, <2>1, <2>2
<1>6. PICK front, rest : /\ front = SubSeq(socket, 1, m) /\ rest = SubSeq(socket, m + 1, len)
                         /\ front \in Bytes /\ rest \in Bytes /\ front \o rest = socket
  <2>1. socket \in Bytes /\ m \in Nat /\ m <= Len(socket)
    BY <1>1, <1>3, <1>5
  <2>2. /\ SubSeq(socket, 1, m) \in Bytes /\ SubSeq(socket, m + 1, Len(socket)) \in Bytes
        /\ SubSeq(socket, 1, m) \o SubSeq(socket, m + 1, Len(socket)) = socket
    BY <2>1, Halves
  <2> QED
    BY <1>1, <2>2
<1>7. socket' = rest
  <2>1. CASE want <= len
    <3>1. m = want
      BY <1>1, <2>1
    <3> QED
      BY <1>2, <1>6, <3>1
  <2>2. CASE ~(want <= len)
    <3>1. m = len /\ len < want + 1 /\ len < len + 1 /\ want + 1 \in Int /\ len + 1 \in Int
      <4>1. m = len
        BY <1>1, <2>2
      <4>2. want \in Nat /\ len \in Nat
        BY <1>5
      <4> QED
        BY <2>2, <4>1, <4>2
    <3>2. SubSeq(socket, want + 1, len) = << >> /\ SubSeq(socket, len + 1, len) = << >>
      BY <1>5, <3>1, SubSeqEmpty
    <3> QED
      BY <1>2, <1>6, <3>1, <3>2
  <2> QED
    BY <2>1, <2>2
<1>8. /\ wrapper' \in [buf : Bytes, eof : BOOLEAN, open : BOOLEAN, closed : BOOLEAN]
      /\ wrapper'.buf = << >> /\ wrapper'.eof = wrapper.eof
  BY <1>2, <1>3 DEF LineTyped
<1>9. got \o buf \in Bytes
  BY <1>3, <1>4, BytesJoined
<1>10. got' = (got \o buf) \o front /\ got' \in Bytes
  <2>1. got' = (got \o buf) \o front
    BY <1>2, <1>4, <1>6
  <2>2. (got \o buf) \o front \in Bytes
    BY <1>6, <1>9, BytesJoined
  <2> QED
    BY <2>1, <2>2
<1>11. Ahead' = Ahead
  <2>1. << >> \o rest = rest
    BY <1>6, BytesJoined
  <2>2. ((got \o buf) \o front) \o rest = (got \o buf) \o socket
    <3>1. front \in Bytes /\ rest \in Bytes
      BY <1>6
    <3>2. ((got \o buf) \o front) \o rest = (got \o buf) \o (front \o rest)
      BY <1>9, <3>1, BytesRegrouped
    <3> QED
      BY <1>6, <3>2
  <2>3. (got \o buf) \o socket = got \o (buf \o socket)
    BY <1>3, <1>4, BytesRegrouped
  <2> QED
    BY <1>4, <1>7, <1>8, <1>10, <2>1, <2>2, <2>3 DEF Ahead
<1>12. socket' \in Bytes
  BY <1>6, <1>7
<1> QED
  BY <1>2, <1>8, <1>10, <1>11, <1>12, ReadStep

LEMMA ReadLastStep ==
    ASSUME LineInv, NEW n \in Nat, Line!ReadLast(n)
    PROVE  LineInv'
<1>1. /\ mode = "open" /\ ~raised /\ Line!Recv(n) = "eof"
      /\ got' = got \o wrapper.buf
      /\ wrapper' = [wrapper EXCEPT !.buf = << >>, !.eof = TRUE]
      /\ UNCHANGED <<script, said, line, mode, pendingIac, out, heard, initial, socket, raised>>
  BY DEF Line!ReadLast, Line!peer, Line!telnet
<1>2. LineTyped /\ socket \in Bytes /\ got \in Bytes /\ << >> \in Bytes
      /\ line \in {"up", "fin", "reset"}
  BY EmptySeq DEF LineInv, LineTyped, Bytes
<1>3. socket = << >> /\ line = "fin"
  BY <1>1, <1>2 DEF Line!Recv
<1>4. PICK buf \in Bytes : buf = wrapper.buf
  BY <1>2, WrapperFacts
<1>5. /\ wrapper' \in [buf : Bytes, eof : BOOLEAN, open : BOOLEAN, closed : BOOLEAN]
      /\ wrapper'.buf = << >>
  BY <1>1, <1>2 DEF LineTyped
<1>6. got' = got \o buf /\ got \o buf \in Bytes
  BY <1>1, <1>2, <1>4, BytesJoined
<1>7. Ahead' = Ahead
  <2>1. /\ << >> \o << >> = << >> /\ buf \o << >> = buf
        /\ (got \o buf) \o << >> = got \o buf
    BY <1>2, <1>4, <1>6, BytesJoined
  <2> QED
    BY <1>1, <1>3, <1>4, <1>5, <1>6, <2>1 DEF Ahead
<1> QED
  BY <1>1, <1>2, <1>3, <1>5, <1>6, <1>7, ReadStep

LEMMA ReadRaisesStep ==
    ASSUME LineInv, NEW n \in Nat, Line!ReadRaises(n)
    PROVE  LineInv'
<1>1. /\ mode = "open" /\ ~raised /\ raised'
      /\ UNCHANGED <<script, said, line, mode, pendingIac, out, heard, initial, got, socket>>
  BY DEF Line!ReadRaises, Line!peer, Line!telnet
<1>2. LineTyped /\ LineRead /\ << >> \in Bytes /\ line \in {"up", "fin", "reset"}
  BY <1>1, EmptySeq DEF LineInv, LineTyped, Bytes
<1>3. \/ wrapper.eof /\ wrapper' = Line!Closed
      \/ /\ ~wrapper.eof
         /\ Line!Recv(n) = "error" \/ (wrapper.buf = << >> /\ Line!Recv(n) = "eof")
         /\ wrapper' \in {[wrapper EXCEPT !.buf = << >>], [Line!Closed EXCEPT !.buf = << >>]}
  BY DEF Line!ReadRaises
<1>4. /\ wrapper' \in [buf : Bytes, eof : BOOLEAN, open : BOOLEAN, closed : BOOLEAN]
      /\ wrapper'.closed = wrapper.closed
  <2>1. wrapper' \in {Line!Closed, [wrapper EXCEPT !.buf = << >>],
                      [Line!Closed EXCEPT !.buf = << >>]}
    BY <1>3
  <2> QED
    BY <1>2, <2>1 DEF LineTyped, Line!Closed
<1>5. ~wrapper.closed => line # "up"
  BY <1>1, <1>2, <1>3 DEF LineRead, Line!Recv
<1>6. ~wrapper.closed /\ line = "fin" => wrapper.buf = << >> /\ socket = << >>
  BY <1>1, <1>2, <1>3 DEF LineRead, Line!Recv
<1> QED
  BY <1>1, <1>4, <1>5, <1>6, RaiseStep

\* A writer fails, or somebody closes.
LEMMA OtherStep ==
    ASSUME LineInv, Line!WriteFails \/ Line!Close
    PROVE  LineInv'
<1>1. /\ mode = "open"
      /\ UNCHANGED <<script, said, line, mode, pendingIac, out, heard, initial, got, socket,
                     raised>>
  BY DEF Line!WriteFails, Line!Close, Line!peer, Line!telnet, Line!reader
<1>2. LineTyped /\ LineRead
  BY <1>1 DEF LineInv
<1>3. /\ wrapper' \in [buf : Bytes, eof : BOOLEAN, open : BOOLEAN, closed : BOOLEAN]
      /\ wrapper'.buf = wrapper.buf
      /\ \/ wrapper'.closed
         \/ wrapper'.closed = wrapper.closed /\ line = "reset"
  <2>1. CASE Line!WriteFails
    <3>1. wrapper' = [wrapper EXCEPT !.eof = TRUE, !.open = FALSE]
      BY <2>1 DEF Line!WriteFails, Line!Closed
    <3>2. line = "reset" \/ wrapper.closed
      BY <2>1 DEF Line!WriteFails
    <3>3. /\ wrapper' \in [buf : Bytes, eof : BOOLEAN, open : BOOLEAN, closed : BOOLEAN]
          /\ wrapper'.buf = wrapper.buf /\ wrapper'.closed = wrapper.closed
      BY <1>2, <3>1 DEF LineTyped
    <3> QED
      BY <3>2, <3>3
  <2>2. CASE Line!Close
    <3>1. wrapper' = [wrapper EXCEPT !.open = FALSE, !.closed = TRUE]
      BY <2>2 DEF Line!Close
    <3>2. /\ wrapper' \in [buf : Bytes, eof : BOOLEAN, open : BOOLEAN, closed : BOOLEAN]
          /\ wrapper'.buf = wrapper.buf /\ wrapper'.closed = TRUE
      BY <1>2, <3>1 DEF LineTyped
    <3> QED
      BY <3>2
  <2> QED
    BY <2>1, <2>2
<1>4. LineTyped'
  BY <1>1, <1>2, <1>3 DEF LineTyped
<1>5. Ahead' = Ahead /\ Stream' = Stream
  BY <1>1, <1>3 DEF Ahead, Stream
<1>6. /\ Begins(Ahead, Stream)' <=> Begins(Ahead, Stream)
      /\ Begins(got, Stream)' <=> Begins(got, Stream)
  BY <1>1, <1>5 DEF Begins
<1>7. LineRead'
  BY <1>1, <1>2, <1>3, <1>5, <1>6 DEF LineRead
<1> QED
  BY <1>1, <1>4, <1>7 DEF LineInv

LEMMA LineStep ==
    ASSUME LineInv, [Line!Next]_Line!vars
    PROVE  LineInv'
<1>1. CASE UNCHANGED Line!vars
  <2>1. UNCHANGED <<script, said, line, socket, mode, pendingIac, out, wrapper, got, raised,
                    heard, initial>>
    BY <1>1 DEF Line!vars
  <2>2. /\ Begins(Ahead, Stream)' <=> Begins(Ahead, Stream)
        /\ Begins(got, Stream)' <=> Begins(got, Stream)
        /\ Ahead' = Ahead /\ Stream' = Stream
    BY <2>1 DEF Begins, Ahead, Stream
  <2>3. LineTyped' /\ (LineQuiet => LineQuiet') /\ (LineRead => LineRead')
    BY <2>1, <2>2 DEF LineInv, LineTyped, LineQuiet, LineRead
  <2> QED
    BY <2>1, <2>3 DEF LineInv
<1>2. ASSUME NEW n \in 1 .. Len(script), Line!Arrive(n)
      PROVE  LineInv'
  <2>1. Len(script) \in Nat
    BY BytesJoined DEF LineInv, LineTyped
  <2>2. n \in Nat
    BY <2>1
  <2> QED
    BY <1>2, <2>2, ArriveStep
<1>3. ASSUME NEW n \in Sizes,
             \/ Line!ReadBuffered(n) \/ Line!ReadSocket(n)
             \/ Line!ReadLast(n) \/ Line!ReadRaises(n)
      PROVE  LineInv'
  <2>1. n \in Nat
    BY LineAssumption
  <2> QED
    BY <1>3, <2>1, ReadBufferedStep, ReadSocketStep, ReadLastStep, ReadRaisesStep
<1>4. CASE \/ Line!Hangup \/ Line!Receive \/ Line!Settle \/ Line!AnswerFails
           \/ Line!InWaiting \/ Line!WriteFails \/ Line!Close
  BY <1>4, HangupStep, ReceiveStep, OpenStep, InWaitingStep, OtherStep
<1> QED
  BY <1>1, <1>2, <1>3, <1>4 DEF Line!Next

-----------------------------------------------------------------------------
(* The protocol, one byte after the other.                                 *)

Base == [in |-> "data", out |-> << >>, answers |-> << >>]

Places == {"data", "iac", "sub", "subiac"} \cup Line!Refused
State  == [in : Places, out : Bytes, answers : Answers]

\* r runs through the bytes of d from its place 1 on.
Runs(r, d, n) == \A i \in 1 .. n : r[i + 1] = Line!Byte(r[i], d[i])

FoldEntry(b, f, s) == IF s = {} THEN Base
                      ELSE Line!Byte(f[s \ {Line!Max(s)}], b[Line!Max(s)])

LEMMA ProtocolChosen ==
    ASSUME NEW b
    PROVE  \E f : /\ f = CHOOSE g : g = [s \in SUBSET DOMAIN b |-> FoldEntry(b, g, s)]
                  /\ Line!Protocol(b) = f[DOMAIN b]
<1>1. Line!Protocol(b) =
        LET iter == CHOOSE g : g = [s \in SUBSET DOMAIN b |-> FoldEntry(b, g, s)]
        IN  iter[DOMAIN b]
  BY DEF Line!Protocol, Line!FoldLeft, Line!MapThenFoldSet, Base, FoldEntry
<1> QED
  BY <1>1

LEMMA GreatestOf ==
    ASSUME NEW k \in Nat, NEW s \in SUBSET (1 .. k), k \in s
    PROVE  Line!Max(s) = k
<1>1. \A y \in s : y \in Int /\ y <= k
  OBVIOUS
<1>2. PICK m : m = Line!Max(s)
  OBVIOUS
<1>3. m \in s /\ \A y \in s : m >= y
  BY <1>1, <1>2 DEF Line!Max
<1>4. m >= k /\ m \in Int /\ m <= k
  BY <1>1, <1>3
<1> QED
  BY <1>2, <1>4

LEMMA ByteFacts ==
    ASSUME NEW s \in State, NEW b \in Symbol
    PROVE  /\ s.in = "data" /\ b = "IAC" => Line!Byte(s, b) = [s EXCEPT !.in = "iac"]
           /\ s.in = "data" /\ b # "IAC" => Line!Byte(s, b) = [s EXCEPT !.out = Append(@, b)]
           /\ s.in = "iac" /\ b = "IAC" =>
                 Line!Byte(s, b) = [s EXCEPT !.in = "data", !.out = Append(@, b)]
           /\ s.in = "iac" /\ b = "SB" => Line!Byte(s, b) = [s EXCEPT !.in = "sub"]
           /\ s.in = "iac" /\ b \in Line!Refused => Line!Byte(s, b) = [s EXCEPT !.in = b]
           /\ s.in = "iac" /\ b \notin Line!Refused \cup {"IAC", "SB"} =>
                 Line!Byte(s, b) = [s EXCEPT !.in = "data"]
           /\ s.in = "sub" /\ b = "IAC" => Line!Byte(s, b) = [s EXCEPT !.in = "subiac"]
           /\ s.in = "sub" /\ b # "IAC" => Line!Byte(s, b) = s
           /\ s.in = "subiac" /\ b = "SE" => Line!Byte(s, b) = [s EXCEPT !.in = "data"]
           /\ s.in = "subiac" /\ b = "IAC" => Line!Byte(s, b) = s
           /\ s.in = "subiac" /\ b \notin {"IAC", "SE"} =>
                 Line!Byte(s, b) = [s EXCEPT !.in = "sub"]
           /\ s.in \in Line!Refused =>
                 Line!Byte(s, b) = [s EXCEPT !.in = "data",
                                             !.answers = @ \o Line!Answer(s.in, b)]
<1>1. CASE s.in = "data"
  BY <1>1 DEF Line!Byte, Line!Refused
<1>2. CASE s.in = "iac"
  BY <1>2 DEF Line!Byte, Line!Refused
<1>3. CASE s.in = "sub"
  BY <1>3 DEF Line!Byte, Line!Refused
<1>4. CASE s.in = "subiac"
  BY <1>4 DEF Line!Byte, Line!Refused
<1>5. CASE s.in \in Line!Refused
  BY <1>5 DEF Line!Byte, Line!Refused
<1> QED
  BY <1>1, <1>2, <1>3, <1>4, <1>5 DEF State, Places

LEMMA AnswerTypes ==
    ASSUME NEW cmd, NEW opt \in Symbol
    PROVE  Line!Answer(cmd, opt) \in Answers
<1>1. << <<"DONT", opt>> >> \in Answers /\ << <<"WONT", opt>> >> \in Answers
  <2>1. <<"DONT", opt>> \in Symbol \X Symbol /\ <<"WONT", opt>> \in Symbol \X Symbol
    BY DEF Symbol
  <2> QED
    BY <2>1, Single DEF Answers
<1>2. << >> \in Answers
  BY EmptySeq DEF Answers
<1> QED
  BY <1>1, <1>2 DEF Line!Answer

LEMMA ByteTypes ==
    ASSUME NEW s \in State, NEW b \in Symbol
    PROVE  Line!Byte(s, b) \in State
<1>1. s.in \in Places /\ s.out \in Bytes /\ s.answers \in Answers
  BY DEF State
<1>2. PICK more \in Bytes : more = Append(s.out, b)
  BY <1>1, AppendProperties DEF Bytes
<1>3. PICK told \in Answers : told = s.answers \o Line!Answer(s.in, b)
  BY <1>1, AnswerTypes, ConcatProperties DEF Answers
<1>4. /\ [s EXCEPT !.in = "data"] \in State
      /\ [s EXCEPT !.in = "iac"] \in State
      /\ [s EXCEPT !.in = "sub"] \in State
      /\ [s EXCEPT !.in = "subiac"] \in State
      /\ b \in Line!Refused => [s EXCEPT !.in = b] \in State
  BY DEF State, Places
<1>5. [s EXCEPT !.out = Append(@, b)] \in State
  BY <1>2 DEF State
<1>6. [s EXCEPT !.in = "data", !.out = Append(@, b)] \in State
  BY <1>2 DEF State, Places
<1>7. [s EXCEPT !.in = "data", !.answers = @ \o Line!Answer(s.in, b)] \in State
  BY <1>3 DEF State, Places
<1>8. CASE s.in = "data"
  BY <1>4, <1>5, <1>8, ByteFacts
<1>9. CASE s.in = "iac"
  <2>1. CASE b \in Line!Refused
    BY <1>4, <1>9, <2>1, ByteFacts
  <2>2. CASE b = "IAC" \/ b = "SB"
    BY <1>4, <1>6, <1>9, <2>2, ByteFacts
  <2>3. CASE b \notin Line!Refused \cup {"IAC", "SB"}
    BY <1>4, <1>9, <2>3, ByteFacts
  <2> QED
    BY <2>1, <2>2, <2>3
<1>10. CASE s.in = "sub"
  BY <1>4, <1>10, ByteFacts
<1>11. CASE s.in = "subiac"
  <2>1. CASE b \in {"SE", "IAC"}
    BY <1>4, <1>11, <2>1, ByteFacts
  <2>2. CASE b \notin {"SE", "IAC"}
    BY <1>4, <1>11, <2>2, ByteFacts
  <2> QED
    BY <2>1, <2>2
<1>12. CASE s.in \in Line!Refused
  BY <1>7, <1>12, ByteFacts
<1> QED
  BY <1>1, <1>8, <1>9, <1>10, <1>11, <1>12 DEF Places

\* A run stays among the states of the protocol.
LEMMA RunTypes ==
    ASSUME NEW d \in Bytes, NEW r, r[1] \in State, Runs(r, d, Len(d))
    PROVE  \A i \in 1 .. Len(d) + 1 : r[i] \in State
<1>1. PICK n : n = Len(d) /\ n \in Nat
  BY LenProperties DEF Bytes
<1>2. PICK T : T = {k \in Nat : k <= n => r[k + 1] \in State}
  OBVIOUS
<1>3. 0 \in T
  BY <1>1, <1>2
<1>4. ASSUME NEW k \in Nat, k \in T
      PROVE  k + 1 \in T
  <2> SUFFICES ASSUME k + 1 <= n
               PROVE  r[(k + 1) + 1] \in State
    BY <1>2
  <2>1. r[k + 1] \in State
    <3>1. k <= n
      BY <1>1
    <3> QED
      BY <1>2, <1>4, <3>1
  <2>2. k + 1 \in 1 .. Len(d)
    BY <1>1
  <2>3. d[k + 1] \in Symbol
    BY <2>2, ElementOfSeq DEF Bytes
  <2>4. r[(k + 1) + 1] = Line!Byte(r[k + 1], d[k + 1])
    BY <2>2 DEF Runs
  <2> QED
    BY <2>1, <2>3, <2>4, ByteTypes
<1>5. Nat \subseteq T
  BY <1>3, <1>4, AllNumbers
<1>6. ASSUME NEW i \in 1 .. n + 1
      PROVE  r[i] \in State
  <2>1. i - 1 \in Nat /\ i - 1 <= n /\ (i - 1) + 1 = i
    BY <1>1
  <2> QED
    BY <1>2, <1>5, <2>1
<1> QED
  BY <1>1, <1>6

\* A run is determined by where it starts.
LEMMA RunsAgree ==
    ASSUME NEW d, NEW n \in Nat, NEW q, NEW r, q[1] = r[1], Runs(q, d, n), Runs(r, d, n)
    PROVE  \A i \in 1 .. n + 1 : q[i] = r[i]
<1>2. PICK T : T = {k \in Nat : k <= n => q[k + 1] = r[k + 1]}
  OBVIOUS
<1>3. 0 \in T
  BY <1>2
<1>4. ASSUME NEW k \in Nat, k \in T
      PROVE  k + 1 \in T
  <2> SUFFICES ASSUME k + 1 <= n
               PROVE  q[(k + 1) + 1] = r[(k + 1) + 1]
    BY <1>2
  <2>1. q[k + 1] = r[k + 1]
    <3>1. k <= n
      OBVIOUS
    <3> QED
      BY <1>2, <1>4, <3>1
  <2>2. k + 1 \in 1 .. n
    OBVIOUS
  <2>3. q[(k + 1) + 1] = Line!Byte(q[k + 1], d[k + 1])
    BY <2>2 DEF Runs
  <2>4. r[(k + 1) + 1] = Line!Byte(r[k + 1], d[k + 1])
    BY <2>2 DEF Runs
  <2> QED
    BY <2>1, <2>3, <2>4
<1>5. Nat \subseteq T
  BY <1>3, <1>4, AllNumbers
<1>6. ASSUME NEW i \in 1 .. n + 1
      PROVE  q[i] = r[i]
  <2>1. i - 1 \in Nat /\ i - 1 <= n /\ (i - 1) + 1 = i
    OBVIOUS
  <2> QED
    BY <1>2, <1>5, <2>1
<1> QED
  BY <1>6

\* The fold is a run.
LEMMA ProtocolRuns ==
    ASSUME NEW b \in Bytes
    PROVE  \E r : r[1] = Base /\ Runs(r, b, Len(b)) /\ Line!Protocol(b) = r[Len(b) + 1]
<1>1. PICK n : n = Len(b) /\ n \in Nat /\ DOMAIN b = 1 .. n
  BY LenProperties DEF Bytes
<1>2. PICK T : T = {k \in Nat : k <= n =>
                       \E f : \A s \in SUBSET (1 .. k) : f[s] = FoldEntry(b, f, s)}
  OBVIOUS
<1>3. 0 \in T
  <2>1. PICK f : f = [s \in {{}} |-> Base]
    OBVIOUS
  <2>2. \A s \in SUBSET (1 .. 0) : s = {}
    OBVIOUS
  <2>3. \A s \in SUBSET (1 .. 0) : f[s] = FoldEntry(b, f, s)
    BY <2>1, <2>2 DEF FoldEntry
  <2> QED
    BY <1>2, <2>3
<1>4. ASSUME NEW k \in Nat, k \in T
      PROVE  k + 1 \in T
  <2> SUFFICES ASSUME k + 1 <= n
               PROVE  \E g : \A s \in SUBSET (1 .. k + 1) : g[s] = FoldEntry(b, g, s)
    BY <1>2
  <2>1. PICK f : \A s \in SUBSET (1 .. k) : f[s] = FoldEntry(b, f, s)
    <3>1. k <= n
      BY <1>1
    <3> QED
      BY <1>2, <1>4, <3>1
  <2>2. PICK g : g = [s \in SUBSET (1 .. k + 1) |->
                         IF k + 1 \in s THEN Line!Byte(f[s \ {k + 1}], b[k + 1]) ELSE f[s]]
    OBVIOUS
  <2>3. \A s \in SUBSET (1 .. k) : g[s] = f[s]
    <3>1. \A s \in SUBSET (1 .. k) : s \in SUBSET (1 .. k + 1) /\ k + 1 \notin s
      OBVIOUS
    <3> QED
      BY <2>2, <3>1
  <2>4. ASSUME NEW s \in SUBSET (1 .. k + 1)
        PROVE  g[s] = FoldEntry(b, g, s)
    <3>1. CASE k + 1 \in s
      <4>1. Line!Max(s) = k + 1
        BY <3>1, GreatestOf
      <4>2. s \ {k + 1} \in SUBSET (1 .. k)
        OBVIOUS
      <4>3. g[s] = Line!Byte(g[s \ {k + 1}], b[k + 1])
        BY <2>2, <2>3, <3>1, <4>2
      <4>4. s # {}
        BY <3>1
      <4> QED
        BY <4>1, <4>3, <4>4 DEF FoldEntry
    <3>2. CASE k + 1 \notin s
      <4>1. s \in SUBSET (1 .. k)
        BY <3>2
      <4>2. PICK m : m = Line!Max(s)
        OBVIOUS
      <4>3. s \ {m} \in SUBSET (1 .. k)
        BY <4>1
      <4>4. g[s] = f[s] /\ g[s \ {m}] = f[s \ {m}] /\ f[s] = FoldEntry(b, f, s)
        BY <2>1, <2>3, <4>1, <4>3
      <4> QED
        BY <4>2, <4>4 DEF FoldEntry
    <3> QED
      BY <3>1, <3>2
  <2> QED
    BY <2>4
<1>5. PICK f : \A s \in SUBSET (1 .. n) : f[s] = FoldEntry(b, f, s)
  <2>1. n \in T
    BY <1>1, <1>3, <1>4, AllNumbers
  <2>2. n <= n
    BY <1>1
  <2> QED
    BY <1>2, <2>1, <2>2
<1>6. PICK g : g = [s \in SUBSET (1 .. n) |-> FoldEntry(b, g, s)]
  <2>1. PICK g : g = [s \in SUBSET (1 .. n) |-> f[s]]
    OBVIOUS
  <2>2. ASSUME NEW s \in SUBSET (1 .. n)
        PROVE  f[s] = FoldEntry(b, g, s)
    <3>1. PICK m : m = Line!Max(s)
      OBVIOUS
    <3>2. s \ {m} \in SUBSET (1 .. n)
      OBVIOUS
    <3>3. g[s \ {m}] = f[s \ {m}] /\ f[s] = FoldEntry(b, f, s)
      BY <1>5, <2>1, <3>2
    <3> QED
      BY <3>1, <3>3 DEF FoldEntry
  <2>3. g = [s \in SUBSET (1 .. n) |-> FoldEntry(b, g, s)]
    BY <2>1, <2>2
  <2> QED
    BY <2>3
<1>7. PICK h : /\ h = [s \in SUBSET (1 .. n) |-> FoldEntry(b, h, s)]
               /\ Line!Protocol(b) = h[1 .. n]
  <2>1. PICK h : /\ h = CHOOSE e : e = [s \in SUBSET DOMAIN b |-> FoldEntry(b, e, s)]
                 /\ Line!Protocol(b) = h[DOMAIN b]
    BY ProtocolChosen
  <2>2. g = [s \in SUBSET DOMAIN b |-> FoldEntry(b, g, s)]
    BY <1>1, <1>6
  <2>3. h = [s \in SUBSET DOMAIN b |-> FoldEntry(b, h, s)]
    BY <2>1, <2>2
  <2> QED
    BY <1>1, <2>1, <2>3
<1>8. PICK r : r = [i \in 1 .. n + 1 |-> h[1 .. i - 1]]
  OBVIOUS
<1>9. \A i \in 1 .. n + 1 : 1 .. i - 1 \in SUBSET (1 .. n)
  BY <1>1
<1>10. r[1] = Base
  <2>1. 1 \in 1 .. n + 1 /\ 1 .. 1 - 1 = {}
    BY <1>1
  <2>2. h[{}] = FoldEntry(b, h, {})
    BY <1>7
  <2>3. r[1] = h[{}]
    BY <1>8, <2>1
  <2> QED
    BY <2>2, <2>3 DEF FoldEntry
<1>11. ASSUME NEW i \in 1 .. n
       PROVE  r[i + 1] = Line!Byte(r[i], b[i])
  <2>1. i \in Nat /\ i \in 1 .. n + 1 /\ i + 1 \in 1 .. n + 1 /\ i + 1 - 1 = i
    BY <1>1
  <2>2. 1 .. i \in SUBSET (1 .. n) /\ i \in 1 .. i /\ (1 .. i) \ {i} = 1 .. i - 1
    BY <1>1, <2>1
  <2>3. Line!Max(1 .. i) = i
    BY <2>1, <2>2, GreatestOf
  <2>4. h[1 .. i] = FoldEntry(b, h, 1 .. i) /\ 1 .. i # {}
    BY <1>7, <2>2
  <2>5. h[1 .. i] = Line!Byte(h[1 .. i - 1], b[i])
    BY <2>2, <2>3, <2>4 DEF FoldEntry
  <2>6. r[i + 1] = h[1 .. i] /\ r[i] = h[1 .. i - 1]
    BY <1>8, <2>1
  <2> QED
    BY <2>5, <2>6
<1>12. r[n + 1] = h[1 .. n]
  <2>1. n + 1 \in 1 .. n + 1 /\ (n + 1) - 1 = n
    BY <1>1
  <2>2. r[n + 1] = h[1 .. (n + 1) - 1]
    BY <1>8, <2>1
  <2> QED
    BY <2>1, <2>2
<1> QED
  BY <1>1, <1>7, <1>10, <1>11, <1>12 DEF Runs

LEMMA ProtocolTypes ==
    ASSUME NEW b \in Bytes
    PROVE  Line!Protocol(b) \in State
<1>1. PICK r : r[1] = Base /\ Runs(r, b, Len(b)) /\ Line!Protocol(b) = r[Len(b) + 1]
  BY ProtocolRuns
<1>2. Base \in State
  BY EmptySeq DEF Base, State, Places, Bytes, Answers
<1>3. PICK n : n = Len(b) /\ n \in Nat
  BY LenProperties DEF Bytes
<1>4. n + 1 \in 1 .. n + 1
  BY <1>3
<1> QED
  BY <1>1, <1>2, <1>3, <1>4, RunTypes

\* What has been said first can be forgotten but for the state it leads to.
LEMMA ProtocolContinues ==
    ASSUME NEW a \in Bytes, NEW d \in Bytes
    PROVE  \E r : /\ r[1] = Line!Protocol(a) /\ Runs(r, d, Len(d))
                  /\ Line!Protocol(a \o d) = r[Len(d) + 1]
<1>1. PICK m, n : m = Len(a) /\ n = Len(d) /\ m \in Nat /\ n \in Nat
  BY LenProperties DEF Bytes
<1>2. PICK b : b = a \o d
  OBVIOUS
<1>3. b \in Bytes /\ Len(b) = m + n
  BY <1>1, <1>2, BytesJoined
<1>4. \A i \in 1 .. m + n : b[i] = IF i <= m THEN a[i] ELSE d[i - m]
  BY <1>1, <1>2, ConcatProperties DEF Bytes
<1>5. PICK q : q[1] = Base /\ Runs(q, b, m + n) /\ Line!Protocol(b) = q[(m + n) + 1]
  BY <1>3, ProtocolRuns
<1>6. PICK p : p[1] = Base /\ Runs(p, a, m) /\ Line!Protocol(a) = p[m + 1]
  BY <1>1, ProtocolRuns
<1>7. q[m + 1] = Line!Protocol(a)
  <2>1. ASSUME NEW i \in 1 .. m
        PROVE  q[i + 1] = Line!Byte(q[i], a[i])
    <3>1. i \in 1 .. m + n /\ i <= m
      BY <1>1
    <3>2. b[i] = a[i]
      BY <1>4, <3>1
    <3> QED
      BY <1>5, <3>1, <3>2 DEF Runs
  <2>2. Runs(q, a, m)
    BY <2>1 DEF Runs
  <2>3. q[1] = p[1] /\ m + 1 \in 1 .. m + 1
    BY <1>1, <1>5, <1>6
  <2>4. \A i \in 1 .. m + 1 : q[i] = p[i]
    BY <1>1, <1>6, <2>2, <2>3, RunsAgree
  <2> QED
    BY <1>6, <2>3, <2>4
<1>8. PICK r : r = [i \in 1 .. n + 1 |-> q[m + i]]
  OBVIOUS
<1>9. ASSUME NEW i \in 1 .. n
      PROVE  r[i + 1] = Line!Byte(r[i], d[i])
  <2>1. /\ i \in 1 .. n + 1 /\ i + 1 \in 1 .. n + 1 /\ m + (i + 1) = (m + i) + 1
        /\ m + i \in 1 .. m + n /\ ~(m + i <= m) /\ (m + i) - m = i
    BY <1>1
  <2>2. b[m + i] = d[(m + i) - m]
    BY <1>4, <2>1
  <2>3. q[(m + i) + 1] = Line!Byte(q[m + i], b[m + i])
    BY <1>5, <2>1 DEF Runs
  <2>4. r[i + 1] = q[m + (i + 1)] /\ r[i] = q[m + i]
    BY <1>8, <2>1
  <2> QED
    BY <2>1, <2>2, <2>3, <2>4
<1>10. r[1] = q[m + 1] /\ r[n + 1] = q[(m + n) + 1]
  <2>1. 1 \in 1 .. n + 1 /\ n + 1 \in 1 .. n + 1 /\ m + (n + 1) = (m + n) + 1
    BY <1>1
  <2>2. r[1] = q[m + 1] /\ r[n + 1] = q[m + (n + 1)]
    BY <1>8, <2>1
  <2> QED
    BY <2>1, <2>2
<1> QED
  BY <1>1, <1>2, <1>5, <1>7, <1>9, <1>10 DEF Runs

\* A run that ends between two commands, or behind an IAC.
Settled(r, d, n) == /\ d \in Bytes /\ n = Len(d) /\ n \in Nat
                    /\ Runs(r, d, n)
                    /\ \A i \in 1 .. n + 1 : r[i] \in State
                    /\ r[n + 1].in \in {"data", "iac"}

LEMMA SettledAt ==
    ASSUME NEW r, NEW d, NEW n, Settled(r, d, n), NEW i \in 1 .. n
    PROVE  /\ i \in Nat /\ i \in 1 .. Len(d) /\ i + 1 \in 1 .. n + 1 /\ n \in Nat
           /\ d[i] \in Symbol /\ r[i] \in State /\ r[i + 1] \in State
           /\ r[i + 1] = Line!Byte(r[i], d[i])
<1>1. /\ i \in Nat /\ i \in 1 .. Len(d) /\ i \in 1 .. n + 1 /\ i + 1 \in 1 .. n + 1
      /\ n \in Nat
  BY DEF Settled
<1>2. d[i] \in Symbol
  BY <1>1, ElementOfSeq DEF Settled, Bytes
<1> QED
  BY <1>1, <1>2 DEF Settled, Runs

\* A subnegotiation lasts until the first IAC SE.
LEMMA SubPasses ==
    ASSUME NEW r, NEW d, NEW n, Settled(r, d, n), NEW j \in 1 .. n,
           r[j].in = "iac", d[j] = "SB",
           NEW m \in Nat, j + 1 <= m, m <= n + 1,
           \A e \in j + 1 .. m - 2 : ~(d[e] = "IAC" /\ d[e + 1] = "SE")
    PROVE  /\ r[m].in \in {"sub", "subiac"}
           /\ r[m].in = "subiac" <=> m > j + 1 /\ d[m - 1] = "IAC"
           /\ r[m].out = r[j].out /\ r[m].answers = r[j].answers
<1> DEFINE Within(k) == /\ r[k].in \in {"sub", "subiac"}
                        /\ r[k].in = "subiac" <=> (k > j + 1 /\ d[k - 1] = "IAC")
                        /\ r[k].out = r[j].out /\ r[k].answers = r[j].answers
<1>1. j \in Nat /\ n \in Nat
  BY SettledAt
<1>2. PICK T : T = {k \in Nat : j + 1 + k <= m => Within(j + 1 + k)}
  OBVIOUS
<1>3. 0 \in T
  <2>1. r[j + 1] = [r[j] EXCEPT !.in = "sub"] /\ r[j] \in State
    <3>1. r[j] \in State /\ d[j] \in Symbol /\ r[j + 1] = Line!Byte(r[j], d[j])
      BY SettledAt
    <3> QED
      BY <3>1, ByteFacts
  <2>2. r[j + 1].in = "sub" /\ r[j + 1].out = r[j].out /\ r[j + 1].answers = r[j].answers
    BY <2>1 DEF State
  <2>3. j + 1 + 0 = j + 1 /\ ~(j + 1 > j + 1)
    BY <1>1
  <2> QED
    BY <1>2, <2>2, <2>3
<1>4. ASSUME NEW k \in Nat, k \in T
      PROVE  k + 1 \in T
  <2> SUFFICES ASSUME j + 1 + (k + 1) <= m
               PROVE  Within(j + 1 + (k + 1))
    BY <1>2
  <2>1. PICK i : i = j + 1 + k /\ i + 1 = j + 1 + (k + 1) /\ i \in 1 .. n /\ i \in Nat
                 /\ i >= j + 1 /\ i + 1 <= m /\ (i + 1) - 1 = i /\ i + 1 > j + 1
    BY <1>1
  <2>2. Within(i)
    <3>1. j + 1 + k <= m
      BY <1>1, <2>1
    <3> QED
      BY <1>2, <1>4, <2>1, <3>1
  <2>3. d[i] \in Symbol /\ r[i] \in State /\ r[i + 1] = Line!Byte(r[i], d[i])
    BY <2>1, SettledAt
  <2>4. r[i].in = "subiac" => d[i] # "SE"
    <3> SUFFICES ASSUME r[i].in = "subiac", d[i] = "SE"
                 PROVE  FALSE
      OBVIOUS
    <3>1. i > j + 1 /\ d[i - 1] = "IAC"
      BY <2>2
    <3>2. i - 1 \in j + 1 .. m - 2 /\ (i - 1) + 1 = i
      BY <1>1, <2>1, <3>1
    <3> QED
      BY <3>1, <3>2
  <2>5. /\ r[i + 1].in \in {"sub", "subiac"}
        /\ r[i + 1].in = "subiac" <=> d[i] = "IAC"
        /\ r[i + 1].out = r[i].out /\ r[i + 1].answers = r[i].answers
    <3>1. CASE r[i].in = "sub" /\ d[i] = "IAC"
      <4>1. r[i + 1] = [r[i] EXCEPT !.in = "subiac"]
        BY <2>3, <3>1, ByteFacts
      <4> QED
        BY <2>3, <3>1, <4>1 DEF State
    <3>2. CASE r[i].in = "sub" /\ d[i] # "IAC"
      <4>1. r[i + 1] = r[i]
        BY <2>3, <3>2, ByteFacts
      <4> QED
        BY <3>2, <4>1
    <3>3. CASE r[i].in = "subiac" /\ d[i] = "IAC"
      <4>1. r[i + 1] = r[i]
        BY <2>3, <3>3, ByteFacts
      <4> QED
        BY <3>3, <4>1
    <3>4. CASE r[i].in = "subiac" /\ d[i] # "IAC"
      <4>1. r[i + 1] = [r[i] EXCEPT !.in = "sub"]
        BY <2>3, <2>4, <3>4, ByteFacts
      <4> QED
        BY <2>3, <3>4, <4>1 DEF State
    <3> QED
      BY <2>2, <3>1, <3>2, <3>3, <3>4
  <2> QED
    BY <2>1, <2>2, <2>5
<1>5. m - (j + 1) \in Nat /\ j + 1 + (m - (j + 1)) = m /\ m <= m
  BY <1>1
<1>6. m - (j + 1) \in T
  BY <1>3, <1>4, <1>5, AllNumbers
<1> QED
  BY <1>2, <1>5, <1>6

LEMMA AnswersRegrouped ==
    ASSUME NEW s \in Answers, NEW t \in Answers, NEW u \in Answers
    PROVE  (s \o t) \o u = s \o (t \o u)
  BY ConcatAssociative DEF Answers

\* A command brings the protocol from behind its IAC to where it ends.
Brings(r, n, j, c) ==
    /\ c.next \in Nat /\ j < c.next /\ c.next <= n + 1
    /\ r[c.next].in = "data"
    /\ r[c.next].out = r[j].out \o c.out
    /\ r[c.next].answers = r[j].answers \o c.answers

LEMMA CommandExact ==
    ASSUME NEW r, NEW d, NEW n, Settled(r, d, n), NEW j \in 1 .. n, r[j].in = "iac"
    PROVE  Brings(r, n, j, Line!Command(d, j))
<1> DEFINE c == Line!Command(d, j)
<1>1. /\ j \in Nat /\ n \in Nat /\ n = Len(d) /\ d[j] \in Symbol /\ r[j] \in State
      /\ r[j + 1] = Line!Byte(r[j], d[j])
  BY SettledAt DEF Settled
<1>2. PICK o \in Bytes, t \in Answers : o = r[j].out /\ t = r[j].answers
  BY <1>1 DEF State
<1>3. o \o << >> = o /\ t \o << >> = t
  BY <1>2, ConcatEmptySeq DEF Bytes, Answers
<1>4. j + 1 \in Nat /\ j < j + 1 /\ j + 1 <= n + 1
  BY <1>1
<1>5. CASE d[j] = "IAC"
  <2>1. c = [out |-> <<"IAC">>, answers |-> << >>, next |-> j + 1]
    BY <1>5 DEF Line!Command
  <2>2. r[j + 1] = [r[j] EXCEPT !.in = "data", !.out = Append(@, "IAC")]
    <3>1. r[j + 1] = [r[j] EXCEPT !.in = "data", !.out = Append(@, d[j])]
      BY <1>1, <1>5, ByteFacts
    <3> QED
      BY <1>5, <3>1
  <2>3. Append(o, "IAC") = o \o <<"IAC">>
    <3>1. "IAC" \in Symbol
      BY DEF Symbol
    <3> QED
      BY <1>2, <3>1, AppendIsConcat DEF Bytes
  <2>4. r[j + 1].in = "data" /\ r[j + 1].out = o \o <<"IAC">> /\ r[j + 1].answers = t
    BY <1>1, <1>2, <2>2, <2>3 DEF State
  <2>5. c.next = j + 1 /\ c.out = <<"IAC">> /\ c.answers = << >>
    BY <2>1
  <2> QED
    BY <1>2, <1>3, <1>4, <2>4, <2>5 DEF Brings
<1>6. CASE d[j] \in Line!Refused
  <2>1. c = [out |-> << >>, answers |-> Line!Answer(d[j], Line!OptionAt(d, j + 1)),
             next |-> j + 2]
    BY <1>6 DEF Line!Command, Line!Refused
  <2>2. r[j + 1] = [r[j] EXCEPT !.in = d[j]]
    BY <1>1, <1>6, ByteFacts
  <2>3. r[j + 1].in = d[j] /\ r[j + 1].out = o /\ r[j + 1].answers = t
    BY <1>1, <1>2, <2>2 DEF State
  <2>4. j # n
    BY <1>6, <2>3 DEF Settled, Line!Refused
  <2>5. /\ j + 1 \in 1 .. n /\ j + 1 <= Len(d) /\ (j + 1) + 1 = j + 2
        /\ j + 2 \in Nat /\ j < j + 2 /\ j + 2 <= n + 1
    BY <1>1, <2>4
  <2>6. /\ d[j + 1] \in Symbol /\ r[j + 1] \in State
        /\ r[j + 2] = Line!Byte(r[j + 1], d[j + 1])
    BY <2>5, SettledAt
  <2>7. r[j + 2] = [r[j + 1] EXCEPT !.in = "data",
                                    !.answers = @ \o Line!Answer(r[j + 1].in, d[j + 1])]
    BY <1>6, <2>3, <2>6, ByteFacts
  <2>8. PICK told \in Answers : told = Line!Answer(d[j], d[j + 1])
    BY <2>6, AnswerTypes
  <2>9. /\ r[j + 2].in = "data" /\ r[j + 2].out = o
        /\ r[j + 2].answers = t \o Line!Answer(d[j], d[j + 1])
    BY <2>3, <2>6, <2>7 DEF State
  <2>10. Line!OptionAt(d, j + 1) = d[j + 1]
    BY <2>5 DEF Line!OptionAt
  <2>11. /\ c.next = j + 2 /\ c.out = << >>
         /\ c.answers = Line!Answer(d[j], Line!OptionAt(d, j + 1))
    BY <2>1
  <2> QED
    BY <1>2, <1>3, <2>5, <2>9, <2>10, <2>11 DEF Brings
<1>7. CASE d[j] = "SB"
  <2>1. PICK ends : ends = {k \in j + 1 .. n - 1 : d[k] = "IAC" /\ d[k + 1] = "SE"}
    OBVIOUS
  <2>2. /\ c = [out |-> << >>, answers |-> << >>, next |-> Line!AfterSub(d, j + 1)]
        /\ Line!AfterSub(d, j + 1) = IF ends = {} THEN n + 1 ELSE Line!Min(ends) + 2
    BY <1>1, <1>7, <2>1 DEF Line!Command, Line!AfterSub, Line!Refused
  <2>3. ends # {}
    <3> SUFFICES ASSUME ends = {}
                 PROVE  FALSE
      OBVIOUS
    <3>1. \A e \in j + 1 .. (n + 1) - 2 : ~(d[e] = "IAC" /\ d[e + 1] = "SE")
      <4>1. (n + 1) - 2 = n - 1
        BY <1>1
      <4> QED
        BY <2>1, <4>1
    <3>2. n + 1 \in Nat /\ j + 1 <= n + 1 /\ n + 1 <= n + 1
      BY <1>1
    <3>3. r[n + 1].in \in {"sub", "subiac"}
      BY <1>7, <3>1, <3>2, SubPasses
    <3> QED
      BY <3>3 DEF Settled
  <2>4. PICK e \in ends : \A k \in ends : e <= k
    <3>1. ends \subseteq Nat
      BY <1>1, <2>1
    <3> QED
      BY <2>3, <3>1, LeastNumber
  <2>5. /\ e \in Nat /\ j + 1 <= e /\ e <= n - 1 /\ d[e] = "IAC" /\ d[e + 1] = "SE"
        /\ \A k \in ends : k \in Nat
    BY <1>1, <2>1, <2>4
  <2>6. Line!Min(ends) = e
    <3>1. PICK w : w = Line!Min(ends)
      OBVIOUS
    <3>2. w \in ends /\ \A k \in ends : w <= k
      BY <2>4, <3>1 DEF Line!Min
    <3>3. w \in Nat /\ w <= e /\ e <= w
      BY <2>4, <2>5, <3>2
    <3> QED
      BY <2>5, <3>1, <3>3
  <2>7. PICK m : m = e + 1 /\ m \in Nat /\ j + 1 <= m /\ m <= n + 1 /\ m > j + 1
                 /\ m - 1 = e /\ m - 2 = e - 1 /\ m \in 1 .. n /\ m + 1 = e + 2
                 /\ e + 2 \in Nat /\ j < e + 2 /\ e + 2 <= n + 1
    BY <1>1, <2>5
  <2>8. ASSUME NEW k \in j + 1 .. m - 2
        PROVE  ~(d[k] = "IAC" /\ d[k + 1] = "SE")
    <3>1. k \in j + 1 .. n - 1 /\ k \in Nat /\ ~(e <= k)
      BY <1>1, <2>5, <2>7
    <3> QED
      BY <2>1, <2>4, <3>1
  <2>9. /\ r[m].in \in {"sub", "subiac"}
        /\ r[m].in = "subiac" <=> m > j + 1 /\ d[m - 1] = "IAC"
        /\ r[m].out = r[j].out /\ r[m].answers = r[j].answers
    BY <1>7, <2>7, <2>8, SubPasses
  <2>10. r[m].in = "subiac" /\ r[m].out = o /\ r[m].answers = t /\ d[m] = "SE"
    BY <1>2, <2>5, <2>7, <2>9
  <2>11. d[m] \in Symbol /\ r[m] \in State /\ r[m + 1] = Line!Byte(r[m], d[m])
    BY <2>7, SettledAt
  <2>12. r[e + 2] = [r[m] EXCEPT !.in = "data"]
    BY <2>7, <2>10, <2>11, ByteFacts
  <2>13. r[e + 2].in = "data" /\ r[e + 2].out = o /\ r[e + 2].answers = t
    BY <2>10, <2>11, <2>12 DEF State
  <2>14. c.next = e + 2 /\ c.out = << >> /\ c.answers = << >>
    BY <2>2, <2>3, <2>6
  <2> QED
    BY <1>2, <1>3, <2>7, <2>13, <2>14 DEF Brings
<1>8. CASE d[j] \notin Line!Refused \cup {"IAC", "SB"}
  <2>1. c = [out |-> << >>, answers |-> << >>, next |-> j + 1]
    BY <1>8 DEF Line!Command
  <2>2. r[j + 1] = [r[j] EXCEPT !.in = "data"]
    BY <1>1, <1>8, ByteFacts
  <2>3. r[j + 1].in = "data" /\ r[j + 1].out = o /\ r[j + 1].answers = t
    BY <1>1, <1>2, <2>2 DEF State
  <2>4. c.next = j + 1 /\ c.out = << >> /\ c.answers = << >>
    BY <2>1
  <2> QED
    BY <1>2, <1>3, <1>4, <2>3, <2>4 DEF Brings
<1> QED
  BY <1>5, <1>6, <1>7, <1>8

\* What is still to come of a run, from a place where it reads data on, is what Scan
\* finds there.
Rest(r, d, n, i) ==
    LET found == Line!Scan(d)[i]
    IN  /\ r[n + 1].out = r[i].out \o found.out
        /\ r[n + 1].answers = r[i].answers \o found.answers
        /\ found.pending <=> r[n + 1].in = "iac"

LEMMA ScanExact ==
    ASSUME NEW r, NEW d, NEW n, Settled(r, d, n)
    PROVE  \A i \in 1 .. n + 1 : r[i].in = "data" => Rest(r, d, n, i)
<1>1. n = Len(d) /\ n \in Nat /\ d \in Bytes
  BY DEF Settled
<1>2. PICK f : f = Line!Scan(d) /\ \A j \in 1 .. n + 2 : f[j] = Entry(d, f, j)
  BY <1>1, ScanDefined
<1>3. \A j \in 1 .. n + 2 : f[j] \in Found
  BY <1>1, <1>2, ScanTypes
<1>4. \A j \in 1 .. n + 1 : r[j].out \in Bytes /\ r[j].answers \in Answers
  BY DEF Settled, State
<1>5. \A o \in Bytes : o \o << >> = o
  BY ConcatEmptySeq DEF Bytes
<1>6. \A t \in Answers : t \o << >> = t
  BY ConcatEmptySeq DEF Answers
<1> DEFINE C(j) == r[j].in = "data" => Rest(r, d, n, j)
<1>7. PICK T : T = {k \in Nat : k <= n => \A j \in n + 1 - k .. n + 1 : C(j)}
  OBVIOUS
<1>8. 0 \in T
  <2> SUFFICES ASSUME NEW j \in n + 1 - 0 .. n + 1, r[j].in = "data"
               PROVE  Rest(r, d, n, j)
    BY <1>7
  <2>1. j = n + 1 /\ j \in 1 .. n + 2 /\ j \in 1 .. n + 1 /\ j > n
    BY <1>1
  <2>2. f[j] = ScanEnd(FALSE)
    BY <1>1, <1>2, <2>1 DEF Entry
  <2>3. f[j].out = << >> /\ f[j].answers = << >> /\ f[j].pending = FALSE
    BY <2>2 DEF ScanEnd
  <2>4. r[j].out \o << >> = r[j].out /\ r[j].answers \o << >> = r[j].answers
    BY <1>4, <1>5, <1>6, <2>1
  <2> QED
    BY <1>2, <2>1, <2>3, <2>4 DEF Rest
<1>9. ASSUME NEW k \in Nat, k \in T
      PROVE  k + 1 \in T
  <2> SUFFICES ASSUME k + 1 <= n
               PROVE  \A j \in n + 1 - (k + 1) .. n + 1 : C(j)
    BY <1>7
  <2>1. PICK m : m = n + 1 - (k + 1) /\ m \in 1 .. n /\ m + 1 = n + 1 - k /\ m \in Nat
                 /\ m <= n /\ m \in 1 .. n + 1 /\ m \in 1 .. n + 2 /\ m + 1 \in 1 .. n + 1
                 /\ m + 1 \in 1 .. n + 2 /\ m + 1 \in m + 1 .. n + 1
    BY <1>1
  <2>2. \A j \in m + 1 .. n + 1 : C(j)
    <3>1. k <= n
      BY <1>1
    <3> QED
      BY <1>7, <1>9, <2>1, <3>1
  <2>3. C(m)
    <3> SUFFICES ASSUME r[m].in = "data"
                 PROVE  Rest(r, d, n, m)
      OBVIOUS
    <3>1. /\ d[m] \in Symbol /\ r[m] \in State /\ r[m + 1] = Line!Byte(r[m], d[m])
          /\ ~(m > Len(d)) /\ f[m] = Entry(d, f, m)
      BY <1>1, <1>2, <2>1, SettledAt
    <3>2. PICK o \in Bytes, t \in Answers : o = r[m].out /\ t = r[m].answers
      BY <1>4, <2>1
    <3>3. CASE d[m] # "IAC"
      <4>1. r[m + 1] = [r[m] EXCEPT !.out = Append(@, d[m])]
        BY <3>1, <3>3, ByteFacts
      <4>2. r[m + 1].in = "data" /\ r[m + 1].out = Append(o, d[m]) /\ r[m + 1].answers = t
        BY <3>1, <3>2, <4>1 DEF State
      <4>3. Rest(r, d, n, m + 1)
        BY <2>1, <2>2, <4>2
      <4>4. PICK x \in Found : x = f[m + 1]
        BY <1>3, <2>1
      <4>5. f[m] = [x EXCEPT !.out = <<d[m]>> \o @]
        BY <3>1, <3>3, <4>4 DEF Entry
      <4>6. f[m].out = <<d[m]>> \o x.out /\ f[m].answers = x.answers /\ f[m].pending = x.pending
        BY <4>4, <4>5 DEF Found
      <4>7. Append(o, d[m]) \o x.out = o \o (<<d[m]>> \o x.out)
        <5>1. PICK u \in Bytes : u = x.out
          BY <4>4 DEF Found
        <5>2. <<d[m]>> \in Bytes /\ Append(o, d[m]) = o \o <<d[m]>>
          BY <3>1, <3>2, Single, AppendIsConcat DEF Bytes
        <5>3. (o \o <<d[m]>>) \o u = o \o (<<d[m]>> \o u)
          BY <3>2, <5>1, <5>2, BytesRegrouped
        <5> QED
          BY <5>1, <5>2, <5>3
      <4>8. /\ r[n + 1].out = Append(o, d[m]) \o x.out /\ r[n + 1].answers = t \o x.answers
            /\ x.pending <=> r[n + 1].in = "iac"
        BY <1>2, <4>2, <4>3, <4>4 DEF Rest
      <4> QED
        BY <1>2, <3>2, <4>6, <4>7, <4>8 DEF Rest
    <3>4. CASE d[m] = "IAC" /\ m = n
      <4>1. r[m + 1] = [r[m] EXCEPT !.in = "iac"]
        BY <3>1, <3>4, ByteFacts
      <4>2. r[n + 1].in = "iac" /\ r[n + 1].out = o /\ r[n + 1].answers = t
        BY <3>1, <3>2, <3>4, <4>1 DEF State
      <4>3. f[m] = ScanEnd(TRUE)
        BY <1>1, <3>1, <3>4 DEF Entry
      <4>4. f[m].out = << >> /\ f[m].answers = << >> /\ f[m].pending = TRUE
        BY <4>3 DEF ScanEnd
      <4> QED
        BY <1>2, <1>5, <1>6, <3>2, <4>2, <4>4 DEF Rest
    <3>5. CASE d[m] = "IAC" /\ m # n
      <4>1. r[m + 1] = [r[m] EXCEPT !.in = "iac"]
        BY <3>1, <3>5, ByteFacts
      <4>2. r[m + 1].in = "iac" /\ r[m + 1].out = o /\ r[m + 1].answers = t
        BY <3>1, <3>2, <4>1 DEF State
      <4>3. m + 1 \in 1 .. n /\ m # Len(d)
        BY <1>1, <2>1, <3>5
      <4>4. PICK c : c = Line!Command(d, m + 1)
        OBVIOUS
      <4>5. /\ c.next \in Nat /\ m + 1 < c.next /\ c.next <= n + 1 /\ r[c.next].in = "data"
            /\ r[c.next].out = o \o c.out /\ r[c.next].answers = t \o c.answers
        <5>1. Brings(r, n, m + 1, c)
          BY <4>2, <4>3, <4>4, CommandExact
        <5> QED
          BY <4>2, <5>1 DEF Brings
      <4>6. c.next \in m + 1 .. n + 1 /\ c.next \in 1 .. n + 2
        BY <1>1, <2>1, <4>5
      <4>7. Rest(r, d, n, c.next)
        BY <2>2, <4>5, <4>6
      <4>8. PICK x \in Found : x = f[c.next]
        BY <1>3, <4>6
      <4>9. f[m] = [x EXCEPT !.out = c.out \o @, !.answers = c.answers \o @]
        BY <3>1, <3>5, <4>3, <4>4, <4>8 DEF Entry
      <4>10. /\ f[m].out = c.out \o x.out /\ f[m].answers = c.answers \o x.answers
             /\ f[m].pending = x.pending
        BY <4>8, <4>9 DEF Found
      <4>11. PICK u \in Bytes, v \in Bytes : u = c.out /\ v = x.out
        BY <1>1, <4>3, <4>4, <4>8, CommandFacts DEF Found
      <4>12. PICK p \in Answers, q \in Answers : p = c.answers /\ q = x.answers
        BY <1>1, <4>3, <4>4, <4>8, CommandFacts DEF Found
      <4>13. (o \o u) \o v = o \o (u \o v)
        BY <3>2, <4>11, BytesRegrouped
      <4>14. (t \o p) \o q = t \o (p \o q)
        BY <3>2, <4>12, AnswersRegrouped
      <4>15. /\ r[n + 1].out = (o \o u) \o v /\ r[n + 1].answers = (t \o p) \o q
             /\ x.pending <=> r[n + 1].in = "iac"
        BY <1>2, <4>5, <4>7, <4>8, <4>11, <4>12 DEF Rest
      <4> QED
        BY <1>2, <3>2, <4>10, <4>11, <4>12, <4>13, <4>14, <4>15 DEF Rest
    <3> QED
      BY <3>3, <3>4, <3>5
  <2>4. \A j \in m .. n + 1 : j = m \/ j \in m + 1 .. n + 1
    BY <1>1, <2>1
  <2> QED
    BY <2>1, <2>2, <2>3, <2>4
<1>10. n \in T
  BY <1>1, <1>8, <1>9, AllNumbers
<1>11. n + 1 - n = 1 /\ n <= n
  BY <1>1
<1> QED
  BY <1>7, <1>10, <1>11

\* A piece is dealt with as the protocol does, if it ends between two commands or
\* behind an IAC.
LEMMA PieceExact ==
    ASSUME NEW a \in Bytes, NEW d \in Bytes, d # << >>, NEW iac \in BOOLEAN,
           Line!Protocol(a).in \in {"data", "iac"}, iac <=> Line!Protocol(a).in = "iac",
           Line!Protocol(a \o d).in \in {"data", "iac"}
    PROVE  LET new == Line!Protocol(a \o d)
               p   == Line!Piece(d, iac)
           IN  /\ new.out = Line!Protocol(a).out \o p.out
               /\ new.answers = Line!Protocol(a).answers \o p.answers
               /\ p.pending <=> new.in = "iac"
<1>1. PICK n : n = Len(d) /\ n \in Nat /\ n >= 1
  BY EmptySeq, LenProperties DEF Bytes
<1>2. PICK r : /\ r[1] = Line!Protocol(a) /\ Runs(r, d, n)
               /\ Line!Protocol(a \o d) = r[n + 1]
  BY <1>1, ProtocolContinues
<1>3. Settled(r, d, n)
  <2>1. r[1] \in State
    BY <1>2, ProtocolTypes
  <2>2. \A i \in 1 .. n + 1 : r[i] \in State
    BY <1>1, <1>2, <2>1, RunTypes
  <2> QED
    BY <1>1, <1>2, <2>2 DEF Settled
<1>4. 1 \in 1 .. n /\ 1 \in 1 .. n + 1 /\ 1 \in 1 .. n + 2
  BY <1>1
<1>5. CASE ~iac
  <2>1. r[1].in = "data" /\ Line!Piece(d, iac) = Line!Scan(d)[1]
    BY <1>2, <1>5 DEF Line!Piece
  <2>2. Rest(r, d, n, 1)
    BY <1>3, <1>4, <2>1, ScanExact
  <2> QED
    BY <1>2, <2>1, <2>2 DEF Rest
<1>6. CASE iac
  <2>1. r[1].in = "iac"
    BY <1>2, <1>6
  <2>2. PICK o \in Bytes, t \in Answers : o = r[1].out /\ t = r[1].answers
    BY <1>2, ProtocolTypes DEF State
  <2>3. PICK c : c = Line!Command(d, 1)
    OBVIOUS
  <2>4. /\ c.next \in Nat /\ 1 < c.next /\ c.next <= n + 1 /\ r[c.next].in = "data"
        /\ r[c.next].out = o \o c.out /\ r[c.next].answers = t \o c.answers
    <3>1. Brings(r, n, 1, c)
      BY <1>3, <1>4, <2>1, <2>3, CommandExact
    <3> QED
      BY <2>2, <3>1 DEF Brings
  <2>5. c.next \in 1 .. n + 1 /\ c.next \in 1 .. n + 2
    BY <1>1, <2>4
  <2>6. Rest(r, d, n, c.next)
    BY <1>3, <2>4, <2>5, ScanExact
  <2>7. PICK x \in Found : x = Line!Scan(d)[c.next]
    BY <1>1, <2>5, ScanTypes
  <2>8. Line!Piece(d, iac) = [x EXCEPT !.out = c.out \o @, !.answers = c.answers \o @]
    BY <1>6, <2>3, <2>7 DEF Line!Piece
  <2>9. /\ Line!Piece(d, iac).out = c.out \o x.out
        /\ Line!Piece(d, iac).answers = c.answers \o x.answers
        /\ Line!Piece(d, iac).pending = x.pending
    BY <2>7, <2>8 DEF Found
  <2>10. PICK u \in Bytes, v \in Bytes : u = c.out /\ v = x.out
    BY <1>1, <1>4, <2>3, <2>7, CommandFacts DEF Found
  <2>11. PICK p \in Answers, q \in Answers : p = c.answers /\ q = x.answers
    BY <1>1, <1>4, <2>3, <2>7, CommandFacts DEF Found
  <2>12. (o \o u) \o v = o \o (u \o v)
    <3>1. o \in Bytes /\ u \in Bytes /\ v \in Bytes
      BY <2>2, <2>10
    <3> QED
      BY <3>1, BytesRegrouped
  <2>13. (t \o p) \o q = t \o (p \o q)
    BY <2>2, <2>11, AnswersRegrouped
  <2>14. /\ r[n + 1].out = (o \o u) \o v /\ r[n + 1].answers = (t \o p) \o q
         /\ x.pending <=> r[n + 1].in = "iac"
    BY <2>4, <2>6, <2>7, <2>10, <2>11 DEF Rest
  <2> QED
    BY <1>2, <2>2, <2>9, <2>10, <2>11, <2>12, <2>13, <2>14
<1> QED
  BY <1>5, <1>6

-----------------------------------------------------------------------------
(* The negotiation has made of what it heard what the protocol makes of it. *)

LineExact ==
    mode = "negotiating" /\ ~torn =>
        LET ref == Line!Protocol(heard)
        IN  /\ out = ref.out /\ answers = ref.answers
            /\ pendingIac <=> ref.in = "iac"
            /\ ref.in \in {"data", "iac"}

LEMMA ExactInit == Line!Init => LineExact
<1> SUFFICES ASSUME Line!Init
             PROVE  LineExact
  OBVIOUS
<1>1. << >> \in Bytes /\ Len(<< >>) = 0
  BY EmptySeq DEF Bytes
<1>2. Line!Protocol(<< >>) = Base
  <2>1. PICK r : /\ r[1] = Base
                 /\ Line!Protocol(<< >>) = r[Len(<< >>) + 1]
    BY <1>1, ProtocolRuns
  <2>2. Len(<< >>) + 1 = 1
    BY <1>1
  <2> QED
    BY <2>1, <2>2
<1>3. heard = << >> /\ out = << >> /\ answers = << >> /\ pendingIac = FALSE
  BY DEF Line!Init
<1> QED
  BY <1>2, <1>3 DEF LineExact, Base

LEMMA ExactReceive ==
    ASSUME LineInv, LineExact, Line!Receive
    PROVE  LineExact'
<1> SUFFICES ASSUME ~torn'
             PROVE  LET ref == Line!Protocol(heard')
                    IN  /\ out' = ref.out /\ answers' = ref.answers
                        /\ pendingIac' <=> ref.in = "iac"
                        /\ ref.in \in {"data", "iac"}
  BY DEF LineExact
<1>1. PICK p : p = Line!Piece(socket, pendingIac)
  OBVIOUS
<1>2. /\ mode = "negotiating" /\ socket # << >>
      /\ out' = out \o p.out /\ answers' = answers \o p.answers
      /\ pendingIac' = p.pending /\ heard' = heard \o socket
      /\ torn' = (torn \/ Line!Protocol(heard \o socket).in \notin {"data", "iac"})
  BY <1>1 DEF Line!Receive
<1>3. socket \in Bytes /\ heard \in Bytes /\ pendingIac \in BOOLEAN
  BY DEF LineInv, LineTyped
<1>4. ~torn /\ Line!Protocol(heard \o socket).in \in {"data", "iac"}
  BY <1>2
<1>5. /\ out = Line!Protocol(heard).out /\ answers = Line!Protocol(heard).answers
      /\ pendingIac <=> Line!Protocol(heard).in = "iac"
      /\ Line!Protocol(heard).in \in {"data", "iac"}
  BY <1>2, <1>4 DEF LineExact
<1>6. LET new == Line!Protocol(heard \o socket)
      IN  /\ new.out = Line!Protocol(heard).out \o p.out
          /\ new.answers = Line!Protocol(heard).answers \o p.answers
          /\ p.pending <=> new.in = "iac"
  BY <1>1, <1>2, <1>3, <1>4, <1>5, PieceExact
<1> QED
  BY <1>2, <1>4, <1>5, <1>6

LEMMA ExactStep ==
    ASSUME LineInv, LineExact, [Line!Next]_Line!vars
    PROVE  LineExact'
<1>1. CASE Line!Receive
  BY <1>1, ExactReceive
<1>2. CASE \/ UNCHANGED Line!vars \/ Line!Hangup
           \/ \E n \in 1 .. Len(script) : Line!Arrive(n)
  <2>1. UNCHANGED <<mode, heard, out, answers, pendingIac, torn>>
    BY <1>2 DEF Line!vars, Line!Hangup, Line!Arrive, Line!telnet
  <2> QED
    BY <2>1 DEF LineExact
<1>3. CASE Line!Settle \/ Line!AnswerFails
  BY <1>3 DEF Line!Settle, Line!AnswerFails, Line!OpenWith, LineExact
<1>4. CASE \/ Line!InWaiting \/ Line!WriteFails \/ Line!Close
           \/ \E n \in Sizes : \/ Line!ReadBuffered(n) \/ Line!ReadSocket(n)
                               \/ Line!ReadLast(n) \/ Line!ReadRaises(n)
  <2>1. mode = "open" /\ mode' = mode
    BY <1>4 DEF Line!InWaiting, Line!WriteFails, Line!Close, Line!ReadBuffered,
                Line!ReadSocket, Line!ReadLast, Line!ReadRaises
  <2> QED
    BY <2>1 DEF LineExact
<1> QED
  BY <1>1, <1>2, <1>3, <1>4 DEF Line!Next

-----------------------------------------------------------------------------
(* The theorems.                                                           *)

LEMMA LineStart == Init /\ part = "line" => Line!Init
  BY DEF Init

LEMMA LinePartStep ==
    ASSUME [Next]_allVars, part = "line"
    PROVE  part' = "line" /\ [Line!Next]_Line!vars
  BY DEF Next, allVars, lineVars, Line!vars

\* The inductive invariant holds in every behaviour of a line.
THEOREM LineInvariant == Spec => [](part = "line" => LineInv)
<1> DEFINE Inv == part = "line" => LineInv
<1>1. Init => Inv
  BY LineInit, LineStart
<1>2. Inv /\ [Next]_allVars => Inv'
  <2>1. [Next]_allVars => part' = part
    BY DEF Next, allVars
  <2> QED
    BY <2>1, LineStep, LinePartStep
<1> QED
  BY <1>1, <1>2, PTL DEF Spec

\* A reader gets what the negotiation returned and what followed, in order, whatever
\* is read in which pieces and whoever writes or closes (_SocketWrapper).
THEOREM ReadInOrderHolds == Spec => []ReadInOrder
<1>1. LineInv => Line!ReadInOrder
  <2> SUFFICES ASSUME LineInv, mode = "open"
               PROVE  Line!IsPrefix(got, Stream)
    BY DEF Line!ReadInOrder, Stream
  <2>1. /\ LineRead /\ got \in Bytes /\ socket \in Bytes /\ wrapper.buf \in Bytes
        /\ Stream \in Bytes
    BY StreamTypes DEF LineInv, LineTyped
  <2>2. Begins(got, Stream)
    <3>1. CASE raised
      BY <2>1, <3>1 DEF LineRead
    <3>2. CASE ~raised
      <4>1. PICK rest \in Bytes : rest = wrapper.buf \o socket
        BY <2>1, BytesJoined
      <4>2. Begins(got \o rest, Stream)
        BY <2>1, <3>2, <4>1 DEF LineRead, Ahead
      <4> QED
        BY <2>1, <4>1, <4>2, BeginsFacts
    <3> QED
      BY <3>1, <3>2
  <2> QED
    BY <2>1, <2>2, BeginsFacts
<1> QED
  BY <1>1, LineInvariant, PTL DEF ReadInOrder

\* If the server closes in order, the reader is told when it has every byte
\* (read, transport.py:344-350).
THEOREM NothingLostAtEndHolds == Spec => []NothingLostAtEnd
<1>1. LineInv => Line!NothingLostAtEnd
  <2> SUFFICES ASSUME LineInv, raised, line = "fin", ~wrapper.closed
               PROVE  got = Stream
    BY DEF Line!NothingLostAtEnd, Stream
  <2>1. mode \in {"negotiating", "open"}
    BY DEF LineInv, LineTyped
  <2>2. mode # "negotiating"
    BY DEF LineInv, LineQuiet
  <2> QED
    BY <2>1, <2>2 DEF LineInv, LineRead
<1> QED
  BY <1>1, LineInvariant, PTL DEF NothingLostAtEnd
\* Whatever pieces the input is cut into, the data that is kept and the answers that
\* are sent are those of the protocol, unless a piece ended inside an option or a
\* subnegotiation (_telnet_negotiate, transport.py:186-248).
THEOREM NegotiationExactHolds == Spec => []NegotiationExact
<1> DEFINE Exact == part = "line" => LineInv /\ LineExact
<1>1. Init => Exact
  BY LineInit, ExactInit, LineStart
<1>2. Exact /\ [Next]_allVars => Exact'
  <2>1. [Next]_allVars => part' = part
    BY DEF Next, allVars
  <2> QED
    BY <2>1, LineStep, ExactStep, LinePartStep
<1>3. Exact => NegotiationExact
  BY DEF NegotiationExact, Line!NegotiationExact, LineExact
<1> QED
  BY <1>1, <1>2, <1>3, PTL DEF Spec
=============================================================================
