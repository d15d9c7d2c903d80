--------------------------- MODULE EnvParam_proofs ---------------------------
(***************************************************************************)
(* Proofs about set_env_param, for any names, values and sectors.  The     *)
(* reading loop is followed by induction over the characters it reads.     *)
(***************************************************************************)
EXTENDS EnvParam, FiniteSetTheorems, SequenceTheorems, WellFoundedInduction, TLAPS

\* What names, values and sectors consist of.
Chars == STRING \cup {NUL, Eq}

\* The constants are made of characters.
LEMMA CharSeqs == Names \cup Values \cup Sectors \subseteq Seq(Chars)
<1>1. STRING \subseteq Chars
  BY DEF Chars
<1>2. \A s \in Seq(STRING) : s \in Seq(Chars)
  BY <1>1, SeqMonotonic
<1> QED
  BY <1>2, CharsAssumption

-----------------------------------------------------------------------------
(* Induction *)

\* Every set of numbers that is not empty has a least one.
LEMMA LeastNumber == ASSUME NEW T \in SUBSET Nat, T # {} PROVE \E x \in T : \A y \in T : x <= y
<1> DEFINE R == OpToRel(<, Nat)
<1>1. \A x, y \in Nat : y < x => <<y, x>> \in R
  BY DEF OpToRel
<1>2. IsWellFoundedOn(R, Nat)
  BY NatLessThanWellFounded, Zenon
<1> HIDE DEF R
<1>3. PICK x \in T : \A y \in T : ~ (<<y, x>> \in R)
  BY <1>2, WFMin
<1>4. \A y \in T : ~(y < x)
  BY <1>1, <1>3, Zenon
<1> QED
  BY <1>4

\* A set that holds 0 and with a number the next one, up to l, holds 0 .. l.
LEMMA UpTo ==
  ASSUME NEW l \in Nat, NEW S, 0 \in S, \A i \in 0 .. l - 1 : i \in S => i + 1 \in S
  PROVE  0 .. l \subseteq S
<1> SUFFICES ASSUME (0 .. l) \ S # {} PROVE FALSE
  OBVIOUS
<1>1. (0 .. l) \ S \in SUBSET Nat
  OBVIOUS
<1>2. PICK x \in (0 .. l) \ S : \A y \in (0 .. l) \ S : x <= y
  BY <1>1, LeastNumber
<1>3. x - 1 \in 0 .. l - 1 /\ x - 1 \notin (0 .. l) \ S
  BY <1>2
<1> QED
  BY <1>2, <1>3

-----------------------------------------------------------------------------
(* The reading loop *)

\* The i-th picture, from the ones before.
NextPicture(g, i, text, n, v) ==
  IF i = 0 THEN StartPicture ELSE Turn(g[i - 1], text[i], n, v)

\* The first k pictures.
FirstPictures(g, k, text, n, v) ==
  g = [i \in 0 .. k |-> NextPicture(g, i, text, n, v)]

\* The pictures are the ones the loop builds, one turn after the other.
LEMMA PicturesByTurns ==
  ASSUME NEW text \in Seq(Chars), NEW n, NEW v
  PROVE  /\ Pictures(text, n, v)[0] = StartPicture
         /\ \A i \in 1 .. Len(text) :
              Pictures(text, n, v)[i] = Turn(Pictures(text, n, v)[i - 1], text[i], n, v)
<1> DEFINE S == {k \in Nat : \E g : FirstPictures(g, k, text, n, v)}
<1>0. Len(text) \in Nat
  OBVIOUS
<1>1. 0 \in S
  <2> DEFINE g == [i \in 0 .. 0 |-> StartPicture]
  <2>1. \A i \in 0 .. 0 : NextPicture(g, i, text, n, v) = StartPicture
    BY DEF NextPicture
  <2>2. FirstPictures(g, 0, text, n, v)
    BY <2>1, Zenon DEF FirstPictures
  <2> QED
    BY <2>2
<1>2. ASSUME NEW k \in 0 .. Len(text) - 1, k \in S PROVE k + 1 \in S
  <2>1. PICK g : FirstPictures(g, k, text, n, v)
    BY <1>2
  <2> DEFINE h == [i \in 0 .. k + 1 |-> NextPicture(g, i, text, n, v)]
  <2>2. \A i \in 0 .. k : h[i] = g[i]
    BY <1>2, <2>1 DEF FirstPictures
  <2>3. \A i \in 0 .. k + 1 : NextPicture(h, i, text, n, v) = NextPicture(g, i, text, n, v)
    <3> HIDE DEF h
    <3> SUFFICES ASSUME NEW i \in 0 .. k + 1 PROVE i # 0 => h[i - 1] = g[i - 1]
      BY Zenon DEF NextPicture
    <3>1. i # 0 => i - 1 \in 0 .. k
      OBVIOUS
    <3> QED
      BY <3>1, <2>2
  <2>4. FirstPictures(h, k + 1, text, n, v)
    BY <2>3, Zenon DEF FirstPictures
  <2> QED
    BY <2>4
<1>3. \E g : FirstPictures(g, Len(text), text, n, v)
  <2>1. \A k \in 0 .. Len(text) - 1 : k \in S => k + 1 \in S
    BY <1>2, Zenon
  <2> HIDE DEF S
  <2>2. 0 .. Len(text) \subseteq S
    BY <1>0, <1>1, <2>1, UpTo, Zenon
  <2>3. Len(text) \in S
    BY <1>0, <2>2
  <2> QED
    BY <2>3, Zenon DEF S
<1> DEFINE P == CHOOSE g : FirstPictures(g, Len(text), text, n, v)
<1>4. Pictures(text, n, v) = P
  BY Zenon DEF Pictures, FirstPictures, NextPicture
<1>5. FirstPictures(P, Len(text), text, n, v)
  BY <1>3, Zenon
<1> HIDE DEF P
<1>6. \A i \in 0 .. Len(text) : P[i] = NextPicture(P, i, text, n, v)
  BY <1>5, Zenon DEF FirstPictures
<1> QED
  BY <1>0, <1>4, <1>6 DEF NextPicture

-----------------------------------------------------------------------------
(* Strings of a sector *)

\* A string may begin at i.
Begin(s, i) == i = 1 \/ s[i - 1] = NUL

\* The string that begins at i has the name m.
NameAt(s, i, m) ==
  /\ i + Len(m) <= Len(s)
  /\ s[i + Len(m)] = Eq
  /\ \A k \in 1 .. Len(m) : s[i + k - 1] = m[k]

\* The string that begins at i ends before e.
EndsBefore(s, i, e) ==
  /\ e \in i .. Len(s) + 1
  /\ e = Len(s) + 1 \/ s[e] = NUL
  /\ \A j \in i .. e - 1 : s[j] # NUL

\* Names and values are strings of characters without a NUL, names without a '='.
LEMMA NameChars ==
  ASSUME NEW m \in Names
  PROVE  m \in Seq(Chars) /\ Len(m) > 0 /\ \A k \in 1 .. Len(m) : m[k] # NUL /\ m[k] # Eq
<1>1. m \in Seq(Chars) /\ m # <<>>
  BY CharSeqs, NamesAssumption
<1>2. DOMAIN m = 1 .. Len(m) /\ Len(m) \in Nat /\ Len(m) > 0
  BY <1>1
<1>3. \A k \in DOMAIN m : m[k] \in SeqRange(m)
  BY DEF SeqRange
<1>4. NUL \notin SeqRange(m) /\ Eq \notin SeqRange(m)
  BY NamesAssumption
<1> QED
  BY <1>1, <1>2, <1>3, <1>4

\* What the CRC is followed by, with the NULs that fill the sector.
LEMMA Filled ==
  ASSUME NEW s \in Seq(Chars)
  PROVE  /\ s \o <<NUL>> \in Seq(Chars)
         /\ Len(s \o <<NUL>>) = Len(s) + 1
         /\ (s \o <<NUL>>)[Len(s) + 1] = NUL
         /\ \A i \in 1 .. Len(s) : (s \o <<NUL>>)[i] = s[i]
         /\ s \o <<NUL, NUL>> \in Seq(Chars)
         /\ Len(s \o <<NUL, NUL>>) = Len(s) + 2
         /\ (s \o <<NUL, NUL>>)[Len(s) + 1] = NUL
         /\ (s \o <<NUL, NUL>>)[Len(s) + 2] = NUL
         /\ \A i \in 1 .. Len(s) : (s \o <<NUL, NUL>>)[i] = s[i]
<1>0. NUL \in Chars
  BY DEF Chars
<1>1. <<NUL>> \in Seq(Chars) /\ <<NUL, NUL>> \in Seq(Chars) /\ Len(s) \in Nat
  BY <1>0
<1>2. Len(<<NUL>>) = 1 /\ Len(<<NUL, NUL>>) = 2
  OBVIOUS
<1>3. /\ s \o <<NUL>> \in Seq(Chars)
      /\ Len(s \o <<NUL>>) = Len(s) + 1
      /\ \A i \in 1 .. Len(s) + 1 :
           (s \o <<NUL>>)[i] = IF i <= Len(s) THEN s[i] ELSE <<NUL>>[i - Len(s)]
  BY <1>1, <1>2, ConcatProperties
<1>4. /\ s \o <<NUL, NUL>> \in Seq(Chars)
      /\ Len(s \o <<NUL, NUL>>) = Len(s) + 2
      /\ \A i \in 1 .. Len(s) + 2 :
           (s \o <<NUL, NUL>>)[i] = IF i <= Len(s) THEN s[i] ELSE <<NUL, NUL>>[i - Len(s)]
  BY <1>1, <1>2, ConcatProperties
<1>5. <<NUL>>[1] = NUL /\ <<NUL, NUL>>[1] = NUL /\ <<NUL, NUL>>[2] = NUL
  OBVIOUS
<1>6. (s \o <<NUL>>)[Len(s) + 1] = NUL
  <2>1. (Len(s) + 1) - Len(s) = 1 /\ Len(s) + 1 \in 1 .. Len(s) + 1 /\ ~(Len(s) + 1 <= Len(s))
    BY <1>1
  <2> QED
    BY <2>1, <1>3, <1>5
<1>7. (s \o <<NUL, NUL>>)[Len(s) + 1] = NUL
  <2>1. (Len(s) + 1) - Len(s) = 1 /\ Len(s) + 1 \in 1 .. Len(s) + 2 /\ ~(Len(s) + 1 <= Len(s))
    BY <1>1
  <2> QED
    BY <2>1, <1>4, <1>5
<1>8. (s \o <<NUL, NUL>>)[Len(s) + 2] = NUL
  <2>1. (Len(s) + 2) - Len(s) = 2 /\ Len(s) + 2 \in 1 .. Len(s) + 2 /\ ~(Len(s) + 2 <= Len(s))
    BY <1>1
  <2> QED
    BY <2>1, <1>4, <1>5
<1>9. \A i \in 1 .. Len(s) : i \in 1 .. Len(s) + 1 /\ i \in 1 .. Len(s) + 2 /\ i <= Len(s)
  BY <1>1
<1> QED
  BY <1>3, <1>4, <1>6, <1>7, <1>8, <1>9

\* The beginnings of the strings, in terms of the sector itself.
LEMMA StartsOf ==
  ASSUME NEW s \in Seq(Chars)
  PROVE  Starts(s) = {i \in 1 .. Len(s) : /\ Begin(s, i)
                                          /\ \A j \in 1 .. i : Begin(s, j) => s[j] # NUL}
<1> DEFINE text == s \o <<NUL, NUL>>
<1> DEFINE begins == {i \in 1 .. Len(text) : i = 1 \/ text[i - 1] = NUL}
<1> DEFINE own == {i \in 1 .. Len(s) : /\ Begin(s, i)
                                       /\ \A j \in 1 .. i : Begin(s, j) => s[j] # NUL}
<1>1. Starts(s) = {i \in begins : \A j \in begins : j <= i => text[j] # NUL}
  BY DEF Starts
<1>2. /\ Len(text) = Len(s) + 2 /\ Len(s) \in Nat
      /\ \A i \in 1 .. Len(s) : text[i] = s[i]
      /\ text[Len(s) + 1] = NUL /\ text[Len(s) + 2] = NUL
  BY Filled
<1> HIDE DEF text
<1>3. \A i \in 1 .. Len(s) : i \in begins <=> Begin(s, i)
  <2> SUFFICES ASSUME NEW i \in 1 .. Len(s) PROVE i = 1 \/ text[i - 1] = s[i - 1]
    BY <1>2 DEF Begin
  <2>1. i = 1 \/ i - 1 \in 1 .. Len(s)
    BY <1>2
  <2> QED
    BY <2>1, <1>2
<1>4. ASSUME NEW i \in Starts(s) PROVE i \in own
  <2>1. i \in begins /\ text[i] # NUL /\ i \in 1 .. Len(s) + 2
    BY <1>1, <1>2, <1>4
  <2>2. i \in 1 .. Len(s)
    BY <2>1, <1>2
  <2>3. ASSUME NEW j \in 1 .. i, Begin(s, j) PROVE s[j] # NUL
    <3>1. j \in 1 .. Len(s) /\ j <= i
      BY <2>2, <1>2
    <3>2. j \in begins
      BY <3>1, <2>3, <1>3
    <3> QED
      BY <3>1, <3>2, <1>1, <1>2, <1>4
  <2> QED
    BY <2>1, <2>2, <2>3, <1>3
<1>5. ASSUME NEW i \in own PROVE i \in Starts(s)
  <2>1. i \in 1 .. Len(s) /\ i \in begins
    BY <1>5, <1>3
  <2>2. ASSUME NEW j \in begins, j <= i PROVE text[j] # NUL
    <3>1. j \in 1 .. Len(s) /\ j \in 1 .. i
      BY <2>1, <2>2, <1>2
    <3> QED
      BY <3>1, <1>5, <1>3, <1>2
  <2> QED
    BY <2>1, <2>2, <1>1
<1> QED
  BY <1>4, <1>5

\* StringAt finds the first NUL.
LEMMA StringEnds ==
  ASSUME NEW s \in Seq(Chars), NEW i \in 1 .. Len(s)
  PROVE  \E e : /\ EndsBefore(s, i, e)
                /\ StringAt(s, i) \in Seq(Chars)
                /\ Len(StringAt(s, i)) = e - i
                /\ \A k \in 1 .. e - i : StringAt(s, i)[k] = s[i + k - 1]
<1> DEFINE text == s \o <<NUL>>
<1> DEFINE P(e) == text[e] = NUL /\ \A j \in i .. e - 1 : text[j] # NUL
<1> DEFINE end == CHOOSE e \in i .. Len(text) : P(e)
<1>1. /\ Len(text) = Len(s) + 1 /\ Len(s) \in Nat /\ text \in Seq(Chars)
      /\ \A k \in 1 .. Len(s) : text[k] = s[k]
      /\ text[Len(s) + 1] = NUL
  BY Filled
<1>2. StringAt(s, i) = SubSeq(text, i, end - 1)
  BY DEF StringAt
<1> HIDE DEF text
<1>3. \E e \in i .. Len(text) : P(e)
  <2> DEFINE T == {e \in i .. Len(text) : text[e] = NUL}
  <2>1. T \in SUBSET Nat
    BY <1>1
  <2>2. Len(s) + 1 \in T
    BY <1>1
  <2>3. PICK e \in T : \A y \in T : e <= y
    <3> HIDE DEF T
    <3> QED BY <2>1, <2>2, LeastNumber
  <2>4. \A j \in i .. e - 1 : j \in i .. Len(text) /\ ~(e <= j)
    BY <2>3, <1>1
  <2> QED
    BY <2>3, <2>4
<1> HIDE DEF P
<1>4. end \in i .. Len(text) /\ P(end)
  BY <1>3, Zenon
<1> HIDE DEF end
<1>5. EndsBefore(s, i, end)
  <2>1. end \in i .. Len(s) + 1
    BY <1>1, <1>4
  <2>2. end = Len(s) + 1 \/ s[end] = NUL
    BY <1>1, <1>4, <2>1 DEF P
  <2>3. \A j \in i .. end - 1 : j \in 1 .. Len(s)
    BY <1>1, <2>1
  <2>4. \A j \in i .. end - 1 : s[j] # NUL
    BY <1>1, <1>4, <2>3 DEF P
  <2> QED
    BY <2>1, <2>2, <2>4 DEF EndsBefore
<1>6. \A k \in i .. end - 1 : k \in 1 .. Len(s) /\ text[k] \in Chars
  BY <1>1, <1>4
<1>7. /\ SubSeq(text, i, end - 1) \in Seq(Chars)
      /\ Len(SubSeq(text, i, end - 1)) = IF i <= end - 1 THEN end - 1 - i + 1 ELSE 0
      /\ \A k \in 1 .. end - 1 - i + 1 : SubSeq(text, i, end - 1)[k] = text[i + k - 1]
  <2>1. i \in Int /\ end - 1 \in Int
    BY <1>1, <1>4
  <2> QED
    BY <1>6, <2>1, SubSeqProperties
<1>8. (IF i <= end - 1 THEN end - 1 - i + 1 ELSE 0) = end - i /\ end - 1 - i + 1 = end - i
  BY <1>1, <1>4
<1>9. \A k \in 1 .. end - i : i + k - 1 \in i .. end - 1
  BY <1>1, <1>4
<1> QED
  BY <1>1, <1>2, <1>5, <1>6, <1>7, <1>8, <1>9

\* The name of a string is what comes before its first '='.
LEMMA NameOfIs ==
  ASSUME NEW s \in Seq(Chars), NEW i \in 1 .. Len(s), NEW m \in Names
  PROVE  NameAt(s, i, m) <=> HasEq(StringAt(s, i)) /\ NameOf(StringAt(s, i)) = m
<1> DEFINE w == StringAt(s, i)
<1> DEFINE P(e) == w[e] = Eq /\ \A j \in 1 .. e - 1 : w[j] # Eq
<1> DEFINE first == CHOOSE e \in DOMAIN w : P(e)
<1>1. PICK e : /\ EndsBefore(s, i, e)
               /\ w \in Seq(Chars)
               /\ Len(w) = e - i
               /\ \A k \in 1 .. e - i : w[k] = s[i + k - 1]
  BY StringEnds, Zenon
<1>2. NameOf(w) = SubSeq(w, 1, first - 1) /\ (HasEq(w) <=> \E k \in DOMAIN w : w[k] = Eq)
  BY DEF NameOf, HasEq, SeqRange
<1> HIDE DEF w
<1>3. DOMAIN w = 1 .. Len(w) /\ e \in i .. Len(s) + 1 /\ Len(s) \in Nat /\ e - i \in Nat
  BY <1>1 DEF EndsBefore
<1>4. /\ m \in Seq(Chars) /\ Len(m) \in Nat
      /\ \A k \in 1 .. Len(m) : m[k] # NUL /\ m[k] # Eq
  BY NameChars
<1>5. ASSUME NameAt(s, i, m) PROVE HasEq(w) /\ NameOf(w) = m
  <2>1. Len(m) + 1 \in 1 .. e - i
    <3> SUFFICES ASSUME e <= i + Len(m) PROVE FALSE
      BY <1>3, <1>4
    <3>1. e - i + 1 \in 1 .. Len(m) + 1 /\ i + (e - i + 1) - 1 = e
      BY <1>3, <1>4
    <3>2. s[e] # NUL
      <4>1. CASE e = i + Len(m)
        BY <4>1, <1>5, <1>3, <1>4 DEF NameAt, NUL, Eq
      <4>2. CASE e # i + Len(m)
        <5>1. e - i + 1 \in 1 .. Len(m)
          BY <4>2, <3>1, <1>3, <1>4
        <5> QED
          BY <5>1, <3>1, <1>4, <1>5 DEF NameAt
      <4> QED
        BY <4>1, <4>2
    <3>3. e <= Len(s)
      BY <1>3, <1>4, <1>5 DEF NameAt
    <3> QED
      BY <3>2, <3>3, <1>1, <1>3 DEF EndsBefore
  <2>2. i + (Len(m) + 1) - 1 = i + Len(m)
    BY <1>4
  <2>3. w[Len(m) + 1] = Eq
    BY <2>1, <2>2, <1>1, <1>5 DEF NameAt
  <2>4. \A k \in 1 .. Len(m) : w[k] = m[k]
    <3>1. \A k \in 1 .. Len(m) : k \in 1 .. e - i
      BY <2>1, <1>3, <1>4
    <3> QED
      BY <3>1, <1>1, <1>5 DEF NameAt
  <2>5. Len(m) + 1 \in DOMAIN w
    BY <1>1, <1>3, <2>1
  <2>6. P(Len(m) + 1)
    <3>1. (Len(m) + 1) - 1 = Len(m)
      BY <1>4
    <3> QED
      BY <2>3, <2>4, <1>4, <3>1
  <2>7. \A x \in DOMAIN w : P(x) => x = Len(m) + 1
    <3> SUFFICES ASSUME NEW x \in DOMAIN w, P(x), x # Len(m) + 1 PROVE FALSE
      OBVIOUS
    <3>1. x \in Nat /\ x >= 1
      BY <1>3
    <3>2. CASE x < Len(m) + 1
      <4>1. x \in 1 .. Len(m)
        BY <3>1, <3>2, <1>4
      <4> QED
        BY <4>1, <2>4, <1>4
    <3>3. CASE x > Len(m) + 1
      <4>1. Len(m) + 1 \in 1 .. x - 1
        BY <3>1, <3>3, <1>4
      <4> QED
        BY <4>1, <2>3
    <3> QED
      BY <3>1, <3>2, <3>3, <1>4
  <2> HIDE DEF P
  <2>8. first \in DOMAIN w /\ P(first)
    BY <2>5, <2>6, Zenon
  <2>9. first = Len(m) + 1
    BY <2>7, <2>8, Zenon
  <2> HIDE DEF first
  <2>10. first - 1 = Len(m)
    BY <2>9, <1>4
  <2>11. /\ SubSeq(w, 1, Len(m)) \in Seq(Chars)
         /\ Len(SubSeq(w, 1, Len(m))) = Len(m)
         /\ \A k \in 1 .. Len(m) : SubSeq(w, 1, Len(m))[k] = w[k]
    <3>1. \A k \in 1 .. Len(m) : w[k] \in Chars
      BY <1>1, <1>3, <2>1, <1>4
    <3>2. /\ SubSeq(w, 1, Len(m)) \in Seq(Chars)
          /\ Len(SubSeq(w, 1, Len(m))) = IF 1 <= Len(m) THEN Len(m) - 1 + 1 ELSE 0
          /\ \A k \in 1 .. Len(m) - 1 + 1 : SubSeq(w, 1, Len(m))[k] = w[1 + k - 1]
      BY <3>1, <1>4, SubSeqProperties
    <3>3. /\ (IF 1 <= Len(m) THEN Len(m) - 1 + 1 ELSE 0) = Len(m) /\ Len(m) - 1 + 1 = Len(m)
          /\ \A k \in 1 .. Len(m) : 1 + k - 1 = k
      BY <1>4
    <3> QED
      BY <3>2, <3>3
  <2>12. SubSeq(w, 1, Len(m)) = m
    BY <2>4, <2>11, <1>4, SeqEqual
  <2> QED
    BY <2>3, <2>5, <2>10, <2>12, <1>2
<1>6. ASSUME HasEq(w), NameOf(w) = m PROVE NameAt(s, i, m)
  <2>1. \E x \in DOMAIN w : P(x)
    <3> DEFINE T == {k \in DOMAIN w : w[k] = Eq}
    <3>1. T \in SUBSET Nat /\ T # {}
      BY <1>2, <1>3, <1>6
    <3>2. PICK x \in T : \A y \in T : x <= y
      <4> HIDE DEF T
      <4> QED BY <3>1, LeastNumber
    <3>3. \A j \in 1 .. x - 1 : j \in DOMAIN w /\ ~(x <= j)
      BY <3>2, <1>3, <1>1
    <3> QED
      BY <3>2, <3>3
  <2>2. first \in DOMAIN w /\ P(first)
    <3> HIDE DEF P
    <3> QED BY <2>1, Zenon
  <2> HIDE DEF first
  <2>3. first \in 1 .. e - i /\ first - 1 \in Nat
    BY <2>2, <1>3, <1>1
  <2>4. /\ Len(SubSeq(w, 1, first - 1)) = first - 1
        /\ \A k \in 1 .. first - 1 : SubSeq(w, 1, first - 1)[k] = w[k]
    <3>1. \A k \in 1 .. first - 1 : w[k] \in Chars
      BY <1>1, <1>3, <2>3
    <3>2. /\ Len(SubSeq(w, 1, first - 1)) = IF 1 <= first - 1 THEN first - 1 - 1 + 1 ELSE 0
          /\ \A k \in 1 .. first - 1 - 1 + 1 : SubSeq(w, 1, first - 1)[k] = w[1 + k - 1]
      BY <3>1, <2>3, SubSeqProperties
    <3>3. /\ (IF 1 <= first - 1 THEN first - 1 - 1 + 1 ELSE 0) = first - 1
          /\ first - 1 - 1 + 1 = first - 1
          /\ \A k \in 1 .. first - 1 : 1 + k - 1 = k
      BY <2>3
    <3> QED
      BY <3>2, <3>3
  <2>5. Len(m) = first - 1 /\ \A k \in 1 .. Len(m) : m[k] = w[k]
    BY <2>4, <1>2, <1>6
  <2>6. i + Len(m) <= Len(s) /\ i + Len(m) = i + first - 1
    BY <2>3, <2>5, <1>3
  <2>7. s[i + Len(m)] = Eq
    BY <2>2, <2>3, <2>6, <1>1
  <2>8. \A k \in 1 .. Len(m) : k \in 1 .. e - i
    BY <2>3, <2>5, <1>3
  <2>9. \A k \in 1 .. Len(m) : s[i + k - 1] = m[k]
    BY <2>5, <2>8, <1>1
  <2> QED
    BY <2>6, <2>7, <2>9 DEF NameAt
<1> QED
  BY <1>5, <1>6 DEF w

\* An environment, in terms of where its strings begin.
EnvOK(s) ==
  /\ \A i \in Starts(s) : \E m \in Names : NameAt(s, i, m)
  /\ \A i, j \in Starts(s) : \A m \in Names : NameAt(s, i, m) /\ NameAt(s, j, m) => i = j
  /\ Cardinality(Starts(s)) <= MaxParams

\* A sector has finitely many strings.
LEMMA StartsFinite ==
  ASSUME NEW s \in Seq(Chars)
  PROVE  Starts(s) \subseteq 1 .. Len(s) /\ IsFiniteSet(Starts(s))
<1>1. Starts(s) \subseteq 1 .. Len(s) /\ Len(s) \in Int
  BY StartsOf
<1>2. IsFiniteSet(1 .. Len(s))
  BY <1>1, FS_Interval
<1> QED
  BY <1>1, <1>2, FS_Subset

\* The two descriptions of an environment are the same.
LEMMA EnvironmentIs == ASSUME NEW s \in Seq(Chars) PROVE Environment(s) <=> EnvOK(s)
<1> DEFINE f == [i \in Starts(s) |-> NameOf(StringAt(s, i))]
<1>1. /\ Starts(s) \subseteq 1 .. Len(s) /\ IsFiniteSet(Starts(s))
  BY StartsFinite
<1>2. \A i \in Starts(s), m \in Names :
        NameAt(s, i, m) <=> HasEq(StringAt(s, i)) /\ f[i] = m
  BY <1>1, NameOfIs
<1>3. f \in Surjection(Starts(s), NamesIn(s))
  BY Zenon DEF Surjection, NamesIn
<1>4. NamesIn(s) = {f[i] : i \in Starts(s)} /\ DOMAIN f = Starts(s)
  BY Zenon DEF NamesIn
<1>5. \A i \in Starts(s) : f[i] = NameOf(StringAt(s, i))
  BY Zenon
<1> HIDE DEF f
<1>6. Cardinality(Starts(s)) = Cardinality(NamesIn(s)) <=> f \in Injection(Starts(s), NamesIn(s))
  BY <1>1, <1>3, FS_Surjection
<1>7. f \in Injection(Starts(s), NamesIn(s)) <=> \A i, j \in Starts(s) : f[i] = f[j] => i = j
  BY <1>3, <1>4 DEF Surjection, Injection, IsInjective
<1>8. ASSUME Environment(s) PROVE EnvOK(s)
  <2>1. \A i \in Starts(s) : HasEq(StringAt(s, i)) /\ f[i] \in Names
    BY <1>8, <1>4 DEF Environment
  <2>2. \A i, j \in Starts(s) : f[i] = f[j] => i = j
    BY <1>8, <1>6, <1>7 DEF Environment
  <2> QED
    BY <2>1, <2>2, <1>2, <1>8 DEF EnvOK, Environment
<1>9. ASSUME EnvOK(s) PROVE Environment(s)
  <2>1. \A i \in Starts(s) : HasEq(StringAt(s, i)) /\ f[i] \in Names /\ NameAt(s, i, f[i])
    BY <1>9, <1>2 DEF EnvOK
  <2>2. \A i, j \in Starts(s) : f[i] = f[j] => i = j
    BY <2>1, <1>9 DEF EnvOK
  <2> QED
    BY <2>1, <2>2, <1>4, <1>6, <1>7, <1>9 DEF EnvOK, Environment
<1> QED
  BY <1>8, <1>9

-----------------------------------------------------------------------------
(* The strings that were built *)

\* Where strings begin before k.
BeginsBefore(b, k) == {p \in 1 .. k - 1 : Begin(b, p)}

\* Before k the picture consists of name=value strings with different names.
Strings(b, k) ==
  /\ Begin(b, k)
  /\ \A p \in BeginsBefore(b, k) : \E m \in Names : NameAt(b, p, m) /\ p + Len(m) < k
  /\ \A p, q \in BeginsBefore(b, k) : \A m \in Names : NameAt(b, p, m) /\ NameAt(b, q, m) => p = q

\* A string has one name.
LEMMA OneName ==
  ASSUME NEW b \in Seq(Chars), NEW p \in Nat \ {0}, NEW m \in Names, NEW x \in Names,
         NameAt(b, p, m), NameAt(b, p, x)
  PROVE  m = x
<1>1. /\ m \in Seq(Chars) /\ Len(m) \in Nat /\ \A k \in 1 .. Len(m) : m[k] # Eq
      /\ x \in Seq(Chars) /\ Len(x) \in Nat /\ \A k \in 1 .. Len(x) : x[k] # Eq
  BY NameChars
<1>2. ~(Len(m) < Len(x))
  <2> SUFFICES ASSUME Len(m) < Len(x) PROVE FALSE
    OBVIOUS
  <2>1. Len(m) + 1 \in 1 .. Len(x) /\ p + (Len(m) + 1) - 1 = p + Len(m)
    BY <1>1
  <2>2. b[p + Len(m)] = x[Len(m) + 1]
    BY <2>1 DEF NameAt
  <2> QED
    BY <2>1, <2>2, <1>1 DEF NameAt
<1>3. ~(Len(x) < Len(m))
  <2> SUFFICES ASSUME Len(x) < Len(m) PROVE FALSE
    OBVIOUS
  <2>1. Len(x) + 1 \in 1 .. Len(m) /\ p + (Len(x) + 1) - 1 = p + Len(x)
    BY <1>1
  <2>2. b[p + Len(x)] = m[Len(x) + 1]
    BY <2>1 DEF NameAt
  <2> QED
    BY <2>1, <2>2, <1>1 DEF NameAt
<1>4. Len(m) = Len(x)
  BY <1>1, <1>2, <1>3
<1>5. \A k \in 1 .. Len(m) : m[k] = x[k]
  BY <1>4 DEF NameAt
<1> QED
  BY <1>1, <1>4, <1>5, SeqEqual

\* A name is not changed by what is written behind it.
LEMMA NameKept ==
  ASSUME NEW b \in Seq(Chars), NEW c \in Seq(Chars), NEW k \in Nat,
         k - 1 <= Len(b), k - 1 <= Len(c), \A j \in 1 .. k - 1 : c[j] = b[j],
         NEW p \in Nat \ {0}, NEW m \in Names, p + Len(m) < k
  PROVE  NameAt(b, p, m) <=> NameAt(c, p, m)
<1>1. Len(m) \in Nat /\ Len(b) \in Nat /\ Len(c) \in Nat
  BY NameChars
<1>2. p + Len(m) \in 1 .. k - 1 /\ p + Len(m) <= Len(b) /\ p + Len(m) <= Len(c)
  BY <1>1
<1>3. \A j \in 1 .. Len(m) : p + j - 1 \in 1 .. k - 1
  BY <1>1
<1> QED
  BY <1>2, <1>3 DEF NameAt

\* The strings are not changed by what is written behind them.
LEMMA StringsKept ==
  ASSUME NEW b \in Seq(Chars), NEW c \in Seq(Chars), NEW k \in Nat \ {0}, Strings(b, k),
         k - 1 <= Len(b), k - 1 <= Len(c), \A j \in 1 .. k - 1 : c[j] = b[j]
  PROVE  /\ Strings(c, k)
         /\ BeginsBefore(c, k) = BeginsBefore(b, k)
         /\ \A p \in BeginsBefore(b, k), m \in Names : NameAt(c, p, m) <=> NameAt(b, p, m)
<1>1. \A p \in 1 .. k : p = 1 \/ p - 1 \in 1 .. k - 1
  OBVIOUS
<1>2. \A p \in 1 .. k : Begin(c, p) <=> Begin(b, p)
  BY <1>1 DEF Begin
<1>3. BeginsBefore(c, k) = BeginsBefore(b, k) /\ Begin(c, k)
  BY <1>2 DEF BeginsBefore, Strings
<1>4. ASSUME NEW p \in BeginsBefore(b, k), NEW m \in Names
      PROVE  NameAt(c, p, m) <=> NameAt(b, p, m)
  <2>1. p \in Nat \ {0}
    BY DEF BeginsBefore
  <2>2. PICK x \in Names : NameAt(b, p, x) /\ p + Len(x) < k
    BY DEF Strings
  <2>3. NameAt(c, p, x)
    BY <2>1, <2>2, NameKept
  <2> QED
    BY <2>1, <2>2, <2>3, OneName
<1>5. Strings(c, k)
  BY <1>3, <1>4 DEF Strings
<1> QED
  BY <1>3, <1>4, <1>5

\* One more string with a new name.
LEMMA StringAdded ==
  ASSUME NEW b \in Seq(Chars), NEW c \in Seq(Chars), NEW k \in Nat \ {0}, Strings(b, k),
         NEW l \in Nat, k + 1 < l,
         k - 1 <= Len(b), l - 1 <= Len(c), \A j \in 1 .. k - 1 : c[j] = b[j],
         \A j \in k .. l - 2 : c[j] # NUL, c[l - 1] = NUL,
         NEW m \in Names, NameAt(c, k, m), k + Len(m) < l,
         \A p \in BeginsBefore(b, k) : ~NameAt(b, p, m)
  PROVE  /\ Strings(c, l)
         /\ BeginsBefore(c, l) = BeginsBefore(b, k) \cup {k}
         /\ Cardinality(BeginsBefore(c, l)) = Cardinality(BeginsBefore(b, k)) + 1
         /\ \A p \in BeginsBefore(b, k), x \in Names : NameAt(c, p, x) <=> NameAt(b, p, x)
<1>1. /\ Strings(c, k)
      /\ BeginsBefore(c, k) = BeginsBefore(b, k)
      /\ \A p \in BeginsBefore(b, k), x \in Names : NameAt(c, p, x) <=> NameAt(b, p, x)
  <2>1. k - 1 <= Len(c)
    OBVIOUS
  <2> QED
    BY <2>1, StringsKept
<1>2. BeginsBefore(c, l) = BeginsBefore(c, k) \cup {k}
  <2>1. ASSUME NEW p \in k + 1 .. l - 1 PROVE ~Begin(c, p)
    <3>1. p # 1 /\ p - 1 \in k .. l - 2
      OBVIOUS
    <3> QED
      BY <3>1 DEF Begin
  <2>2. \A p \in 1 .. l - 1 : p \in 1 .. k - 1 \/ p = k \/ p \in k + 1 .. l - 1
    OBVIOUS
  <2>3. \A p \in 1 .. k - 1 : p \in 1 .. l - 1
    OBVIOUS
  <2>4. k \in 1 .. l - 1 /\ Begin(c, k)
    BY <1>1 DEF Strings
  <2> QED
    BY <2>1, <2>2, <2>3, <2>4 DEF BeginsBefore
<1>3. k \notin BeginsBefore(b, k) /\ IsFiniteSet(BeginsBefore(b, k))
  <2>1. IsFiniteSet(1 .. k - 1)
    BY FS_Interval
  <2>2. BeginsBefore(b, k) \in SUBSET (1 .. k - 1) /\ k \notin 1 .. k - 1
    BY DEF BeginsBefore
  <2> QED
    BY <2>1, <2>2, FS_Subset
<1>4. Cardinality(BeginsBefore(c, l)) = Cardinality(BeginsBefore(b, k)) + 1
  BY <1>1, <1>2, <1>3, FS_AddElement
<1>5. Begin(c, l)
  BY DEF Begin
<1>6. \A p \in BeginsBefore(c, l) : \E x \in Names : NameAt(c, p, x) /\ p + Len(x) < l
  <2>1. ASSUME NEW p \in BeginsBefore(c, k) PROVE \E x \in Names : NameAt(c, p, x) /\ p + Len(x) < l
    <3>1. PICK x \in Names : NameAt(c, p, x) /\ p + Len(x) < k
      BY <1>1 DEF Strings
    <3>2. Len(x) \in Nat /\ p \in Nat
      BY NameChars DEF BeginsBefore
    <3> QED
      BY <3>1, <3>2
  <2> QED
    BY <1>2, <2>1
<1>7. \A p \in BeginsBefore(c, k) : ~NameAt(c, p, m)
  BY <1>1
<1>8. k \in Nat \ {0} /\ \A x \in Names : NameAt(c, k, x) => x = m
  BY OneName
<1>9. ASSUME NEW p \in BeginsBefore(c, l), NEW q \in BeginsBefore(c, l), NEW x \in Names,
             NameAt(c, p, x), NameAt(c, q, x)
      PROVE  p = q
  <2>1. CASE p \in BeginsBefore(c, k) /\ q \in BeginsBefore(c, k)
    BY <2>1, <1>1, <1>9 DEF Strings
  <2>2. CASE p = k \/ q = k
    BY <2>2, <1>2, <1>7, <1>8, <1>9
  <2> QED
    BY <2>1, <2>2, <1>2
<1> QED
  BY <1>1, <1>2, <1>4, <1>5, <1>6, <1>9 DEF Strings

\* Strings with a NUL behind them are an environment.
LEMMA StringsAreEnv ==
  ASSUME NEW b \in Seq(Chars), NEW k \in 1 .. Len(b) + 1, Strings(b, k),
         k <= Len(b) => b[k] = NUL, Cardinality(BeginsBefore(b, k)) <= MaxParams
  PROVE  EnvOK(b)
<1>0. Len(b) \in Nat
  OBVIOUS
<1>1. \A p \in BeginsBefore(b, k) : p \in 1 .. Len(b) /\ b[p] # NUL
  <2> SUFFICES ASSUME NEW p \in BeginsBefore(b, k) PROVE b[p] # NUL
    BY <1>0 DEF BeginsBefore
  <2>1. PICK m \in Names : NameAt(b, p, m)
    BY DEF Strings
  <2>2. 1 \in 1 .. Len(m) /\ m[1] # NUL /\ p + 1 - 1 = p
    BY NameChars DEF BeginsBefore
  <2> QED
    BY <2>1, <2>2 DEF NameAt
<1>2. Starts(b) = BeginsBefore(b, k)
  <2>1. ASSUME NEW i \in Starts(b) PROVE i \in BeginsBefore(b, k)
    <3>1. i \in 1 .. Len(b) /\ Begin(b, i) /\ \A j \in 1 .. i : Begin(b, j) => b[j] # NUL
      BY <2>1, StartsOf
    <3>2. ~(k <= i)
      BY <3>1, <1>0 DEF Strings
    <3> QED
      BY <3>1, <3>2, <1>0 DEF BeginsBefore
  <2>2. ASSUME NEW i \in BeginsBefore(b, k) PROVE i \in Starts(b)
    <3>1. i \in 1 .. Len(b) /\ Begin(b, i) /\ i \in 1 .. k - 1
      BY <1>1 DEF BeginsBefore
    <3>2. \A j \in 1 .. i : Begin(b, j) => j \in BeginsBefore(b, k)
      BY <3>1, <1>0 DEF BeginsBefore
    <3> QED
      BY <3>1, <3>2, <1>1, StartsOf
  <2> QED
    BY <2>1, <2>2
<1> QED
  BY <1>2 DEF EnvOK, Strings

-----------------------------------------------------------------------------
(* Writing to the picture *)

\* What the loop keeps.
PictureType ==
  [buf : Seq(Chars), cur : Nat, idx : Nat, name : Nat, value : Nat,
   found : BOOLEAN, full : BOOLEAN, done : BOOLEAN]

\* b with c at k.
Write(b, k, c) == IF k > Len(b) THEN Append(b, c) ELSE [b EXCEPT ![k] = c]

\* d is b with one character changed or appended.
Written(d, b, k, c) ==
  /\ d \in Seq(Chars)
  /\ Len(d) = (IF k > Len(b) THEN k ELSE Len(b))
  /\ d[k] = c
  /\ \A j \in 1 .. Len(b) : j # k => d[j] = b[j]

\* A write within the buffer, or at its end, changes one character.
LEMMA WriteIs ==
  ASSUME NEW b \in Seq(Chars), NEW k \in 1 .. Len(b) + 1, NEW c \in Chars
  PROVE  Written(Write(b, k, c), b, k, c)
<1>0. Len(b) \in Nat
  OBVIOUS
<1>1. CASE k > Len(b)
  <2>1. k = Len(b) + 1
    BY <1>0, <1>1
  <2> QED
    BY <1>0, <1>1, <2>1, AppendProperties DEF Write, Written
<1>2. CASE ~(k > Len(b))
  <2>1. k \in 1 .. Len(b)
    BY <1>0, <1>2
  <2> QED
    BY <1>2, <2>1, ExceptSeq DEF Write, Written
<1> QED
  BY <1>1, <1>2

\* strcpy writes w and a NUL, and nothing before.
LEMMA StrCpyIs ==
  ASSUME NEW b \in Seq(Chars), NEW i \in 1 .. Len(b) + 1, NEW w \in Seq(Chars)
  PROVE  /\ StrCpy(b, i, w) \in Seq(Chars)
         /\ Len(StrCpy(b, i, w)) = (IF i + Len(w) > Len(b) THEN i + Len(w) ELSE Len(b))
         /\ \A j \in 1 .. i - 1 : StrCpy(b, i, w)[j] = b[j]
         /\ \A j \in 1 .. Len(w) : StrCpy(b, i, w)[i + j - 1] = w[j]
         /\ StrCpy(b, i, w)[i + Len(w)] = NUL
<1> DEFINE pre == SubSeq(b, 1, i - 1)
           post == SubSeq(b, i + Len(w) + 1, Len(b))
           one == pre \o w
           two == one \o <<NUL>>
<1>0. StrCpy(b, i, w) = two \o post
  BY DEF StrCpy
<1>1. /\ Len(b) \in Nat /\ Len(w) \in Nat /\ i \in Nat /\ i - 1 \in Int
      /\ i + Len(w) + 1 \in Int /\ \A j \in 1 .. Len(b) : b[j] \in Chars
  OBVIOUS
<1>2. pre \in Seq(Chars) /\ Len(pre) = i - 1 /\ \A j \in 1 .. i - 1 : pre[j] = b[j]
  <2>1. /\ pre \in Seq(Chars)
        /\ Len(pre) = IF 1 <= i - 1 THEN i - 1 - 1 + 1 ELSE 0
        /\ \A j \in 1 .. i - 1 - 1 + 1 : pre[j] = b[1 + j - 1]
    BY <1>1, SubSeqProperties
  <2>2. /\ (IF 1 <= i - 1 THEN i - 1 - 1 + 1 ELSE 0) = i - 1
        /\ i - 1 - 1 + 1 = i - 1
        /\ \A j \in 1 .. i - 1 : 1 + j - 1 = j
    BY <1>1
  <2> HIDE DEF pre
  <2> QED
    BY <2>1, <2>2
<1>3. /\ post \in Seq(Chars)
      /\ Len(post) = IF i + Len(w) + 1 <= Len(b) THEN Len(b) - (i + Len(w)) ELSE 0
  <2>1. /\ post \in Seq(Chars)
        /\ Len(post) = IF i + Len(w) + 1 <= Len(b) THEN Len(b) - (i + Len(w) + 1) + 1 ELSE 0
    BY <1>1, SubSeqProperties
  <2>2. Len(b) - (i + Len(w) + 1) + 1 = Len(b) - (i + Len(w))
    BY <1>1
  <2> HIDE DEF post
  <2> QED
    BY <2>1, <2>2
<1> HIDE DEF pre, post
<1>4. /\ one \in Seq(Chars) /\ Len(one) = (i - 1) + Len(w)
      /\ \A j \in 1 .. (i - 1) + Len(w) : one[j] = IF j <= i - 1 THEN pre[j] ELSE w[j - (i - 1)]
  <2>1. /\ one \in Seq(Chars) /\ Len(one) = Len(pre) + Len(w)
        /\ \A j \in 1 .. Len(pre) + Len(w) :
             one[j] = IF j <= Len(pre) THEN pre[j] ELSE w[j - Len(pre)]
    BY <1>2, ConcatProperties
  <2> QED
    BY <2>1, <1>2
<1> HIDE DEF one
<1>5. two \in Seq(Chars) /\ Len(two) = i + Len(w)
  <2>1. Len(one) + 1 = i + Len(w)
    BY <1>1, <1>4
  <2> QED
    BY <2>1, <1>4, Filled
<1>6. two[i + Len(w)] = NUL /\ \A j \in 1 .. i + Len(w) - 1 : two[j] = one[j]
  <2>1. Len(one) = i + Len(w) - 1 /\ Len(one) + 1 = i + Len(w)
    BY <1>1, <1>4
  <2> QED
    BY <2>1, <1>4, Filled
<1> HIDE DEF two
<1>7. /\ two \o post \in Seq(Chars)
      /\ Len(two \o post) = i + Len(w) + Len(post)
      /\ \A j \in 1 .. i + Len(w) + Len(post) :
           (two \o post)[j] = IF j <= i + Len(w) THEN two[j] ELSE post[j - (i + Len(w))]
  <2>1. /\ two \o post \in Seq(Chars)
        /\ Len(two \o post) = Len(two) + Len(post)
        /\ \A j \in 1 .. Len(two) + Len(post) :
             (two \o post)[j] = IF j <= Len(two) THEN two[j] ELSE post[j - Len(two)]
    <3>1. two \in Seq(Chars) /\ post \in Seq(Chars)
      BY <1>3, <1>5
    <3> QED
      BY <3>1, ConcatProperties
  <2> QED
    BY <2>1, <1>5
<1>8. \A j \in 1 .. i + Len(w) : j \in 1 .. i + Len(w) + Len(post) /\ j <= i + Len(w)
  <2>1. Len(post) \in Nat
    BY <1>3
  <2> QED
    BY <2>1, <1>1
<1>9. \A j \in 1 .. i + Len(w) : (two \o post)[j] = two[j]
  BY <1>7, <1>8
<1>10. i + Len(w) + Len(post) = IF i + Len(w) > Len(b) THEN i + Len(w) ELSE Len(b)
  <2>1. \A x, y, z \in Nat : z = (IF x + 1 <= y THEN y - x ELSE 0) =>
                              x + z = IF x > y THEN x ELSE y
    OBVIOUS
  <2>2. i + Len(w) \in Nat /\ Len(post) \in Nat
    BY <1>1, <1>3
  <2> QED
    BY <2>1, <2>2, <1>1, <1>3
<1>11. \A j \in 1 .. i - 1 : (two \o post)[j] = b[j]
  <2>1. \A j \in 1 .. i - 1 : /\ j \in 1 .. i + Len(w) /\ j \in 1 .. i + Len(w) - 1
                              /\ j \in 1 .. (i - 1) + Len(w) /\ j <= i - 1
    BY <1>1
  <2> QED
    BY <2>1, <1>2, <1>4, <1>6, <1>9
<1>12. \A j \in 1 .. Len(w) : (two \o post)[i + j - 1] = w[j]
  <2>1. \A j \in 1 .. Len(w) :
          /\ i + j - 1 \in 1 .. i + Len(w) /\ i + j - 1 \in 1 .. i + Len(w) - 1
          /\ i + j - 1 \in 1 .. (i - 1) + Len(w) /\ ~(i + j - 1 <= i - 1)
          /\ (i + j - 1) - (i - 1) = j
    BY <1>1
  <2> QED
    BY <2>1, <1>4, <1>6, <1>9
<1>13. (two \o post)[i + Len(w)] = NUL
  <2>1. i + Len(w) \in 1 .. i + Len(w)
    BY <1>1
  <2> QED
    BY <2>1, <1>6, <1>9
<1> QED
  BY <1>0, <1>7, <1>10, <1>11, <1>12, <1>13

\* *(curr_str++) = c
LEMMA PutIs ==
  ASSUME NEW st \in PictureType, NEW c \in Chars, st.cur \in 1 .. Len(st.buf) + 1
  PROVE  /\ Put(st, c) \in PictureType
         /\ Put(st, c).buf = Write(st.buf, st.cur, c) /\ Put(st, c).cur = st.cur + 1
         /\ Put(st, c).idx = st.idx /\ Put(st, c).name = st.name /\ Put(st, c).value = st.value
         /\ Put(st, c).found = st.found /\ Put(st, c).full = st.full /\ Put(st, c).done = st.done
<1>1. Write(st.buf, st.cur, c) \in Seq(Chars)
  BY WriteIs DEF PictureType, Written
<1>2. Put(st, c) = [st EXCEPT !.buf = Write(st.buf, st.cur, c), !.cur = st.cur + 1]
  BY DEF Put, Write, PictureType
<1>3. Put(st, c) \in PictureType
  <2> DEFINE b == Write(st.buf, st.cur, c)
             x == st.cur + 1
  <2>1. b \in Seq(Chars) /\ x \in Nat /\ Put(st, c) = [st EXCEPT !.buf = b, !.cur = x]
    BY <1>1, <1>2 DEF PictureType
  <2> HIDE DEF b, x
  <2> QED
    BY <2>1 DEF PictureType
<1>4. /\ Put(st, c).buf = Write(st.buf, st.cur, c) /\ Put(st, c).cur = st.cur + 1
      /\ Put(st, c).idx = st.idx /\ Put(st, c).name = st.name /\ Put(st, c).value = st.value
  BY <1>2 DEF PictureType
<1>5. /\ Put(st, c).found = st.found /\ Put(st, c).full = st.full /\ Put(st, c).done = st.done
  BY <1>2 DEF PictureType
<1> QED
  BY <1>3, <1>4, <1>5

\* curr_str_idx++, and a NUL for the next string.
LEMMA NextEntryIs ==
  ASSUME NEW st \in PictureType, st.cur \in 1 .. Len(st.buf) + 1
  PROVE  /\ NextEntry(st) \in PictureType
         /\ NextEntry(st).buf = Write(st.buf, st.cur, NUL)
         /\ NextEntry(st).idx = st.idx + 1 /\ NextEntry(st).name = st.cur
         /\ NextEntry(st).cur = st.cur /\ NextEntry(st).value = st.value
         /\ NextEntry(st).found = st.found /\ NextEntry(st).full = st.full
         /\ NextEntry(st).done = st.done
<1>1. Write(st.buf, st.cur, NUL) \in Seq(Chars)
  <2>1. NUL \in Chars
    BY DEF Chars
  <2> QED
    BY <2>1, WriteIs DEF PictureType, Written
<1>2. NextEntry(st) = [st EXCEPT !.idx = st.idx + 1, !.name = st.cur,
                                 !.buf = Write(st.buf, st.cur, NUL)]
  BY DEF NextEntry, Write, PictureType
<1>3. NextEntry(st) \in PictureType
  <2> DEFINE b == Write(st.buf, st.cur, NUL)
             x == st.idx + 1
             y == st.cur
  <2>1. /\ b \in Seq(Chars) /\ x \in Nat /\ y \in Nat
        /\ NextEntry(st) = [st EXCEPT !.idx = x, !.name = y, !.buf = b]
    BY <1>1, <1>2 DEF PictureType
  <2> HIDE DEF b, x, y
  <2> QED
    BY <2>1 DEF PictureType
<1> QED
  BY <1>2, <1>3 DEF PictureType

-----------------------------------------------------------------------------
(* One turn of the loop *)

\* A string of the environment begins at q.
Open(text, q) == Begin(text, q) /\ \A j \in 1 .. q : Begin(text, j) => text[j] # NUL

\* The loop has read i characters of text, the last ones of them since s, where
\* a string begins.  Before name_ptr there are strings with different names
\* that were read before s; the characters since s follow.  Until the parameter
\* is found, it is not among them and nothing lies behind them.
Going(text, n, st, i, s) ==
  /\ s \in 1 .. i + 1
  /\ Begin(text, s)
  /\ \A j \in 1 .. s - 1 : Begin(text, j) => text[j] # NUL
  /\ \A j \in s .. i : text[j] # NUL
  /\ st.name >= 1 /\ st.cur = st.name + (i + 1 - s)
  /\ st.name <= Len(st.buf) /\ st.cur <= Len(st.buf) + 1
  /\ \A j \in s .. i : st.buf[st.name + (j - s)] = text[j]
  /\ \A j \in s .. i : text[j] = Eq => st.name + (j - s) < st.value /\ st.value <= st.cur
  /\ Strings(st.buf, st.name)
  /\ \A p \in BeginsBefore(st.buf, st.name), m \in Names : NameAt(st.buf, p, m) =>
       \E q \in 1 .. s - 1 : Open(text, q) /\ NameAt(text, q, m)
  /\ Cardinality(BeginsBefore(st.buf, st.name)) = st.idx
  /\ st.idx <= MaxParams /\ (st.idx = MaxParams => st.cur = st.name)
  /\ ~st.found => /\ Len(st.buf) = (IF st.cur = st.name THEN st.cur ELSE st.cur - 1)
                  /\ \A p \in BeginsBefore(st.buf, st.name) : ~NameAt(st.buf, p, n)
  /\ ~st.full

\* The loop has ended: a NUL follows the strings.
Finished(n, st) ==
  /\ st.name \in 1 .. Len(st.buf) /\ st.buf[st.name] = NUL
  /\ Strings(st.buf, st.name)
  /\ Cardinality(BeginsBefore(st.buf, st.name)) = st.idx /\ st.idx <= MaxParams
  /\ ~st.full => st.cur = st.name /\ st.idx < MaxParams
  /\ ~st.full /\ ~st.found =>
       /\ Len(st.buf) = st.cur
       /\ \A p \in BeginsBefore(st.buf, st.name) : ~NameAt(st.buf, p, n)

\* The loop has ended because it ran over the end of the memory.
Overrun(st) == st.full /\ Len(st.buf) > ByteLimit

\* The loop ends before it reads another character.
Stop(st) == st.idx >= MaxParams \/ st.cur > ByteLimit

LoopInv(text, n, st, i) ==
  /\ st \in PictureType
  /\ st.done => Finished(n, st) \/ Overrun(st)
  /\ ~st.done => \E s : Going(text, n, st, i, s)

\* t is st after a turn that reads c, case by case.
IsTurn(t, st, c, n, v) ==
  /\ st.done => t = st
  /\ ~st.done /\ Stop(st) => t = [Put(st, NUL) EXCEPT !.full = TRUE, !.done = TRUE]
  /\ ~st.done /\ ~Stop(st) /\ c = Eq =>
       t = [Put(st, c) EXCEPT !.value = Put(st, c).cur]
  /\ ~st.done /\ ~Stop(st) /\ c # Eq /\ c # NUL => t = Put(st, c)
  /\ ~st.done /\ ~Stop(st) /\ c = NUL =>
       /\ Put(st, c).buf[Put(st, c).name] = NUL =>
            t = [Put(st, c) EXCEPT !.cur = @ - 1, !.done = TRUE]
       /\ Put(st, c).buf[Put(st, c).name] # NUL =>
            t = IF ~Matches(Put(st, c), n) THEN NextEntry(Put(st, c))
                ELSE IF v = Delete THEN Unset(Put(st, c))
                ELSE Overwrite(Put(st, c), v)

\* The turn is one of these cases.
LEMMA TurnCases ==
  ASSUME NEW st, NEW c, NEW n, NEW v
  PROVE  IsTurn(Turn(st, c, n, v), st, c, n, v)
<1>1. NUL # Eq
  BY DEF NUL, Eq
<1>2. st.done => Turn(st, c, n, v) = st
  BY Zenon DEF Turn, Stop
<1>3. ~st.done /\ Stop(st) =>
        Turn(st, c, n, v) = [Put(st, NUL) EXCEPT !.full = TRUE, !.done = TRUE]
  BY Zenon DEF Turn, Stop
<1> SUFFICES ASSUME ~st.done, ~Stop(st)
             PROVE  /\ c = Eq => Turn(st, c, n, v) = [Put(st, c) EXCEPT !.value = Put(st, c).cur]
                    /\ c # Eq /\ c # NUL => Turn(st, c, n, v) = Put(st, c)
                    /\ c = NUL /\ Put(st, c).buf[Put(st, c).name] = NUL =>
                         Turn(st, c, n, v) = [Put(st, c) EXCEPT !.cur = @ - 1, !.done = TRUE]
                    /\ c = NUL /\ Put(st, c).buf[Put(st, c).name] # NUL =>
                         Turn(st, c, n, v) = IF ~Matches(Put(st, c), n) THEN NextEntry(Put(st, c))
                                             ELSE IF v = Delete THEN Unset(Put(st, c))
                                             ELSE Overwrite(Put(st, c), v)
  BY <1>2, <1>3, Zenon DEF IsTurn
<1> DEFINE P == Put(st, c)
<1>4. Turn(st, c, n, v) =
        CASE c = Eq -> [P EXCEPT !.value = P.cur]
          [] c = NUL /\ P.buf[P.name] = NUL -> [P EXCEPT !.cur = @ - 1, !.done = TRUE]
          [] c = NUL /\ P.buf[P.name] # NUL ->
               IF ~Matches(P, n) THEN NextEntry(P)
               ELSE IF v = Delete THEN Unset(P)
               ELSE Overwrite(P, v)
          [] OTHER -> P
  BY Zenon DEF Turn, Stop
<1> HIDE DEF P
<1>5. c = Eq => Turn(st, c, n, v) = [P EXCEPT !.value = P.cur]
  BY <1>1, <1>4, Zenon
<1>6. c # Eq /\ c # NUL => Turn(st, c, n, v) = P
  BY <1>4, Zenon
<1>7. c = NUL /\ P.buf[P.name] = NUL => Turn(st, c, n, v) = [P EXCEPT !.cur = @ - 1, !.done = TRUE]
  BY <1>1, <1>4, Zenon
<1>8. c = NUL /\ P.buf[P.name] # NUL =>
        Turn(st, c, n, v) = IF ~Matches(P, n) THEN NextEntry(P)
                            ELSE IF v = Delete THEN Unset(P)
                            ELSE Overwrite(P, v)
  BY <1>1, <1>4, Zenon
<1> QED
  BY <1>5, <1>6, <1>7, <1>8, Zenon DEF P

\* The strings of the text have names, and different ones.
Named(text) ==
  /\ \A q \in 1 .. Len(text) : Open(text, q) => \E m \in Names : NameAt(text, q, m)
  /\ \A q, r \in 1 .. Len(text) : \A m \in Names :
       Open(text, q) /\ Open(text, r) /\ NameAt(text, q, m) /\ NameAt(text, r, m) => q = r

\* The strings of the sector are those of the text that is read.
LEMMA SourceStrings ==
  ASSUME NEW sec \in Seq(Chars), EnvOK(sec), NEW text, text = sec \o <<NUL, NUL>>
  PROVE  Named(text)
<1>1. /\ text \in Seq(Chars) /\ Len(text) = Len(sec) + 2 /\ Len(sec) \in Nat
      /\ \A i \in 1 .. Len(sec) : text[i] = sec[i]
      /\ text[Len(sec) + 1] = NUL /\ text[Len(sec) + 2] = NUL
  BY Filled
<1>2. ASSUME NEW q \in 1 .. Len(text), Open(text, q) PROVE q \in Starts(sec)
  <2>1. text[q] # NUL
    <3>1. q \in 1 .. q
      BY <1>1
    <3> QED
      BY <1>2, <3>1 DEF Open
  <2>2. q \in 1 .. Len(sec)
    BY <1>1, <2>1
  <2>3. \A j \in 1 .. q : /\ j \in 1 .. Len(sec)
                          /\ j = 1 \/ j - 1 \in 1 .. Len(sec)
    BY <1>1, <2>2
  <2>4. \A j \in 1 .. q : text[j] = sec[j] /\ (Begin(text, j) <=> Begin(sec, j))
    BY <1>1, <2>3 DEF Begin
  <2>5. q \in 1 .. q
    BY <2>2
  <2> QED
    BY <1>2, <2>2, <2>4, <2>5, StartsOf DEF Open
<1>3. ASSUME NEW q \in Starts(sec), NEW m \in Names PROVE NameAt(text, q, m) <=> NameAt(sec, q, m)
  <2>1. q \in 1 .. Len(sec)
    BY <1>3, StartsFinite
  <2>2. Len(m) \in Nat /\ Len(m) > 0 /\ \A k \in 1 .. Len(m) : m[k] # NUL
    BY NameChars
  <2>3. CASE q + Len(m) <= Len(sec)
    <3>1. q + Len(m) < Len(sec) + 1 /\ Len(sec) + 1 \in Nat
      BY <1>1, <2>3, <2>1, <2>2
    <3>2. /\ q \in Nat \ {0} /\ (Len(sec) + 1) - 1 <= Len(text) /\ (Len(sec) + 1) - 1 <= Len(sec)
          /\ \A j \in 1 .. (Len(sec) + 1) - 1 : text[j] = sec[j]
      BY <1>1, <2>1
    <3> QED
      BY <1>1, <3>1, <3>2, NameKept, Zenon
  <2>4. CASE q + Len(m) > Len(sec)
    <3>1. ~NameAt(sec, q, m)
      BY <1>1, <2>1, <2>2, <2>4 DEF NameAt
    <3>2. ~NameAt(text, q, m)
      <4> SUFFICES ASSUME NameAt(text, q, m) PROVE FALSE
        OBVIOUS
      <4>1. q + Len(m) <= Len(sec) + 2
        BY <1>1 DEF NameAt
      <4>2. q + Len(m) = Len(sec) + 1 \/ q + Len(m) = Len(sec) + 2
        BY <4>1, <1>1, <2>1, <2>2, <2>4
      <4>3. text[q + Len(m)] = NUL
        BY <1>1, <4>2
      <4> QED
        BY <4>3 DEF NameAt, NUL, Eq
    <3> QED
      BY <3>1, <3>2
  <2> QED
    BY <1>1, <2>1, <2>2, <2>3, <2>4
<1> QED
  BY <1>2, <1>3 DEF EnvOK, Named

\* A name ends before the next NUL.
LEMMA NameWithin ==
  ASSUME NEW b \in Seq(Chars), NEW p \in Nat \ {0}, NEW m \in Names, NameAt(b, p, m),
         NEW e \in Nat, p <= e, b[e] = NUL
  PROVE  p + Len(m) < e
<1>1. Len(m) \in Nat /\ \A k \in 1 .. Len(m) : m[k] # NUL
  BY NameChars
<1> SUFFICES ASSUME e <= p + Len(m) PROVE FALSE
  BY <1>1
<1>2. e # p + Len(m)
  BY DEF NameAt, NUL, Eq
<1>3. e - p + 1 \in 1 .. Len(m) /\ p + (e - p + 1) - 1 = e
  BY <1>1, <1>2
<1> QED
  BY <1>1, <1>3 DEF NameAt

\* What is known when a string was read: its name is new.
LEMMA StringRead ==
  ASSUME NEW text \in Seq(Chars), Named(text), NEW n, NEW st \in PictureType,
         NEW i \in 0 .. Len(text) - 1, NEW s, Going(text, n, st, i, s), text[i + 1] = NUL, s <= i
  PROVE  \E m \in Names :
           /\ NameAt(st.buf, st.name, m) /\ st.name + Len(m) < st.cur
           /\ st.name + Len(m) < st.value /\ st.value <= st.cur
           /\ \A p \in BeginsBefore(st.buf, st.name) : ~NameAt(st.buf, p, m)
           /\ NameAt(text, s, m) /\ Open(text, s)
<1>1. /\ text \in Seq(Chars) /\ Len(text) \in Nat /\ s \in Nat \ {0} /\ s \in 1 .. Len(text)
      /\ st.buf \in Seq(Chars) /\ st.name \in Nat /\ st.cur \in Nat /\ st.value \in Nat
      /\ i \in Nat /\ Len(st.buf) \in Nat
  BY DEF Going, PictureType
<1>2. Open(text, s)
  <2> SUFFICES ASSUME NEW j \in 1 .. s, Begin(text, j) PROVE text[j] # NUL
    BY DEF Going, Open
  <2>1. j \in 1 .. s - 1 \/ j \in s .. i
    BY <1>1
  <2> QED
    BY <2>1 DEF Going
<1>3. PICK m \in Names : NameAt(text, s, m)
  BY <1>1, <1>2 DEF Named
<1>4. Len(m) \in Nat /\ s + Len(m) < i + 1
  <2>1. i + 1 \in Nat /\ s <= i + 1 /\ Len(m) \in Nat
    BY <1>1, NameChars
  <2> QED
    BY <1>1, <1>3, <2>1, NameWithin
<1>5. s + Len(m) \in s .. i /\ st.name + (s + Len(m) - s) = st.name + Len(m)
  BY <1>1, <1>4
<1>6. st.name + Len(m) < st.value /\ st.value <= st.cur
  BY <1>3, <1>5 DEF Going, NameAt
<1>7. st.name + Len(m) < st.cur /\ st.name + Len(m) <= Len(st.buf)
  <2>1. st.cur = st.name + (i + 1 - s) /\ st.cur <= Len(st.buf) + 1
    BY DEF Going
  <2>2. \A x, a, l, c, y \in Nat :
          c = x + (y + 1 - a) /\ a + l < y + 1 => x + l < c
    OBVIOUS
  <2>3. st.name + Len(m) < st.cur
    BY <2>1, <2>2, <1>1, <1>4
  <2> QED
    BY <2>1, <2>3, <1>1, <1>4
<1>8. NameAt(st.buf, st.name, m)
  <2>1. st.buf[st.name + Len(m)] = Eq
    BY <1>3, <1>5 DEF Going, NameAt
  <2>2. \A k \in 1 .. Len(m) : /\ s + k - 1 \in s .. i
                               /\ st.name + ((s + k - 1) - s) = st.name + k - 1
    BY <1>1, <1>4
  <2>3. \A k \in 1 .. Len(m) : st.buf[st.name + k - 1] = m[k]
    <3> SUFFICES ASSUME NEW k \in 1 .. Len(m) PROVE st.buf[st.name + k - 1] = m[k]
      OBVIOUS
    <3>1. st.buf[st.name + ((s + k - 1) - s)] = text[s + k - 1]
      BY <2>2 DEF Going
    <3> QED
      BY <3>1, <2>2, <1>3 DEF NameAt
  <2> QED
    BY <2>1, <2>3, <1>7 DEF NameAt
<1>9. ASSUME NEW p \in BeginsBefore(st.buf, st.name), NameAt(st.buf, p, m) PROVE FALSE
  <2>1. PICK q \in 1 .. s - 1 : Open(text, q) /\ NameAt(text, q, m)
    BY <1>9 DEF Going
  <2>2. q \in 1 .. Len(text) /\ q # s
    BY <1>1
  <2> QED
    BY <2>1, <2>2, <1>1, <1>2, <1>3 DEF Named
<1> QED
  BY <1>2, <1>3, <1>6, <1>7, <1>8, <1>9

\* What Going and the types say about the numbers.
LEMMA GoingNumbers ==
  ASSUME NEW text \in Seq(Chars), NEW n, NEW st \in PictureType, NEW i \in 0 .. Len(text) - 1,
         NEW s, Going(text, n, st, i, s)
  PROVE  /\ i \in Nat /\ s \in Nat \ {0} /\ s <= i + 1
         /\ st.buf \in Seq(Chars) /\ Len(st.buf) \in Nat
         /\ st.name \in Nat \ {0} /\ st.cur \in Nat /\ st.value \in Nat /\ st.idx \in Nat
         /\ st.cur = st.name + (i + 1 - s) /\ st.name <= st.cur
         /\ st.name <= Len(st.buf) /\ st.cur \in 1 .. Len(st.buf) + 1
         /\ MaxParams \in Nat \ {0} /\ st.idx <= MaxParams
<1>1. /\ st.buf \in Seq(Chars) /\ st.name \in Nat /\ st.cur \in Nat /\ st.value \in Nat
      /\ st.idx \in Nat
  BY DEF PictureType
<1>2. /\ s \in 1 .. i + 1 /\ st.name >= 1 /\ st.name <= Len(st.buf) /\ st.cur <= Len(st.buf) + 1
      /\ st.cur = st.name + (i + 1 - s) /\ st.idx <= MaxParams
  BY Zenon DEF Going
<1>3. i \in Nat /\ Len(st.buf) \in Nat /\ MaxParams \in Nat \ {0} /\ Len(text) \in Nat
  BY <1>1, BoundsAssumption
<1>4. s \in Nat \ {0} /\ s <= i + 1 /\ st.name <= st.cur
  BY <1>1, <1>2, <1>3
<1> QED
  BY <1>1, <1>2, <1>3, <1>4

\* After the NUL of a string another one may begin.
LEMMA NextString ==
  ASSUME NEW text \in Seq(Chars), NEW n, NEW st \in PictureType, NEW i \in 0 .. Len(text) - 1,
         NEW s, Going(text, n, st, i, s), text[i + 1] = NUL, s <= i
  PROVE  /\ i + 2 \in 1 .. (i + 1) + 1 /\ Begin(text, i + 2) /\ (i + 2) - 1 = i + 1
         /\ (i + 2) .. (i + 1) = {}
         /\ \A j \in 1 .. i + 1 : Begin(text, j) => text[j] # NUL
<1>1. i \in Nat /\ s \in Nat \ {0}
  BY GoingNumbers
<1>2. /\ i + 2 \in 1 .. (i + 1) + 1 /\ Begin(text, i + 2) /\ (i + 2) - 1 = i + 1
      /\ (i + 2) .. (i + 1) = {}
  BY <1>1 DEF Begin
<1>3. i \in s .. i /\ i + 1 # 1 /\ (i + 1) - 1 = i
  BY <1>1
<1>4. ~Begin(text, i + 1)
  BY <1>3 DEF Begin, Going
<1>5. \A j \in 1 .. i + 1 : j \in 1 .. s - 1 \/ j \in s .. i \/ j = i + 1
  BY <1>1
<1> QED
  BY <1>2, <1>4, <1>5 DEF Going

\* A string is complete in the picture, and the next one begins.
LEMMA EntryAdded ==
  ASSUME NEW text \in Seq(Chars), NEW n \in Names,
         NEW st \in PictureType, NEW i \in 0 .. Len(text) - 1, NEW s,
         Going(text, n, st, i, s), text[i + 1] = NUL, s <= i, st.idx < MaxParams,
         NEW m \in Names, NameAt(st.buf, st.name, m), st.name + Len(m) < st.cur,
         \A p \in BeginsBefore(st.buf, st.name) : ~NameAt(st.buf, p, m),
         NameAt(text, s, m), Open(text, s),
         NEW t \in PictureType, t.cur = t.name, t.name <= Len(t.buf),
         st.name + Len(m) + 1 < t.name,
         \A j \in 1 .. st.name + Len(m) : t.buf[j] = st.buf[j],
         \A j \in st.name .. t.name - 2 : t.buf[j] # NUL, t.buf[t.name - 1] = NUL,
         t.idx = st.idx + 1, ~t.full,
         ~t.found => ~st.found /\ Len(t.buf) = t.cur /\ ~NameAt(t.buf, st.name, n)
  PROVE  Going(text, n, t, i + 1, i + 2)
<1> DEFINE b == st.buf
           c == t.buf
           k == st.name
           l == t.name
<1>1. /\ b \in Seq(Chars) /\ c \in Seq(Chars) /\ Len(b) \in Nat /\ Len(c) \in Nat
      /\ k \in Nat \ {0} /\ l \in Nat /\ i \in Nat /\ s \in Nat \ {0} /\ st.cur \in Nat
      /\ st.idx \in Nat /\ MaxParams \in Nat
      /\ k <= Len(b) /\ st.cur <= Len(b) + 1 /\ Strings(b, k)
      /\ Cardinality(BeginsBefore(b, k)) = st.idx
  <2>1. /\ b \in Seq(Chars) /\ c \in Seq(Chars) /\ k \in Nat /\ l \in Nat /\ st.cur \in Nat
        /\ st.idx \in Nat
    BY DEF PictureType
  <2>2. /\ s \in 1 .. i + 1 /\ k >= 1 /\ k <= Len(b) /\ st.cur <= Len(b) + 1 /\ Strings(b, k)
        /\ Cardinality(BeginsBefore(b, k)) = st.idx
    BY Zenon DEF Going
  <2> HIDE DEF b, c, k, l
  <2>3. i \in Nat /\ Len(b) \in Nat /\ Len(c) \in Nat /\ MaxParams \in Nat
    BY <2>1, BoundsAssumption
  <2> QED
    BY <2>1, <2>2, <2>3
<1>2. Len(m) \in Nat /\ Len(m) > 0
  BY NameChars
<1>3. /\ k + 1 < l /\ k - 1 <= Len(b) /\ l - 1 <= Len(c) /\ k + Len(m) < l
      /\ \A j \in 1 .. k - 1 : c[j] = b[j]
  <2>1. l <= Len(c) /\ k + Len(m) + 1 < l /\ \A j \in 1 .. k + Len(m) : c[j] = b[j]
    OBVIOUS
  <2> HIDE DEF b, c, k, l
  <2> QED
    BY <1>1, <1>2, <2>1
<1>4. NameAt(c, k, m)
  <2>1. /\ k + Len(m) + 1 \in Nat /\ (k + Len(m) + 1) - 1 <= Len(b)
        /\ (k + Len(m) + 1) - 1 <= Len(c) /\ k + Len(m) < k + Len(m) + 1
        /\ (k + Len(m) + 1) - 1 = k + Len(m)
    <3>1. k + Len(m) < st.cur
      OBVIOUS
    <3> HIDE DEF b, c, k, l
    <3>2. /\ k \in Nat /\ l \in Nat /\ Len(m) \in Nat /\ Len(b) \in Nat /\ Len(c) \in Nat
          /\ st.cur \in Nat /\ st.cur <= Len(b) + 1 /\ l - 1 <= Len(c) /\ k + Len(m) < l
      BY <1>1, <1>2, <1>3
    <3> QED
      BY <3>1, <3>2
  <2>2. \A j \in 1 .. (k + Len(m) + 1) - 1 : c[j] = b[j]
    BY <2>1
  <2>3. NameAt(b, k, m)
    OBVIOUS
  <2> DEFINE x == k + Len(m) + 1
  <2> HIDE DEF b, c, k
  <2>4. b \in Seq(Chars) /\ c \in Seq(Chars) /\ k \in Nat \ {0}
    BY <1>1
  <2>5. /\ x \in Nat /\ x - 1 <= Len(b) /\ x - 1 <= Len(c) /\ k + Len(m) < x
        /\ \A j \in 1 .. x - 1 : c[j] = b[j]
    BY <2>1, <2>2
  <2> HIDE DEF x
  <2> QED
    BY <2>3, <2>4, <2>5, NameKept, Zenon
<1>5. /\ Strings(c, l)
      /\ BeginsBefore(c, l) = BeginsBefore(b, k) \cup {k}
      /\ Cardinality(BeginsBefore(c, l)) = Cardinality(BeginsBefore(b, k)) + 1
      /\ \A p \in BeginsBefore(b, k), x \in Names : NameAt(c, p, x) <=> NameAt(b, p, x)
  BY <1>1, <1>3, <1>4, StringAdded
<1>6. /\ i + 2 \in 1 .. (i + 1) + 1 /\ Begin(text, i + 2) /\ (i + 2) - 1 = i + 1
      /\ (i + 2) .. (i + 1) = {}
      /\ \A j \in 1 .. i + 1 : Begin(text, j) => text[j] # NUL
  BY NextString
<1>8. t.cur = l + ((i + 1) + 1 - (i + 2)) /\ l >= 1 /\ t.cur <= Len(c) + 1
  <2>1. t.cur = l /\ l <= Len(c)
    OBVIOUS
  <2> HIDE DEF b, c, k, l
  <2>2. i \in Nat /\ k \in Nat /\ l \in Nat /\ Len(c) \in Nat /\ k + 1 < l
    BY <1>1, <1>3
  <2> QED
    BY <2>1, <2>2
<1>9. ASSUME NEW p \in BeginsBefore(c, l), NEW x \in Names, NameAt(c, p, x)
      PROVE  \E q \in 1 .. i + 1 : Open(text, q) /\ NameAt(text, q, x)
  <2>1. CASE p \in BeginsBefore(b, k)
    <3>1. PICK q \in 1 .. s - 1 : Open(text, q) /\ NameAt(text, q, x)
      BY <1>5, <1>9, <2>1 DEF Going
    <3>2. q \in 1 .. i + 1
      BY <1>1
    <3> QED
      BY <3>1, <3>2
  <2>2. CASE p = k
    <3>1. x = m
      BY <1>1, <1>4, <1>9, <2>2, OneName
    <3>2. s \in 1 .. i + 1
      BY <1>1
    <3> QED
      BY <3>1, <3>2
  <2> QED
    BY <1>5, <2>1, <2>2
<1>10. Cardinality(BeginsBefore(c, l)) = t.idx /\ t.idx <= MaxParams
  BY <1>1, <1>5
<1>11. ~t.found => /\ Len(c) = t.cur
                   /\ \A p \in BeginsBefore(c, l) : ~NameAt(c, p, n)
  <2> SUFFICES ASSUME ~t.found, NEW p \in BeginsBefore(c, l) PROVE ~NameAt(c, p, n)
    OBVIOUS
  <2>1. CASE p = k
    BY <2>1
  <2>2. CASE p \in BeginsBefore(b, k)
    BY <2>2, <1>5 DEF Going
  <2> QED
    BY <1>5, <2>1, <2>2
<1> QED
  BY <1>1, <1>5, <1>6, <1>8, <1>9, <1>10, <1>11 DEF Going

\* A character of a string is read.
LEMMA CharRead ==
  ASSUME NEW text \in Seq(Chars), NEW n \in Names, NEW st \in PictureType,
         NEW i \in 0 .. Len(text) - 1, NEW s, Going(text, n, st, i, s),
         text[i + 1] # NUL, st.idx < MaxParams,
         NEW t \in PictureType,
         t.buf = Write(st.buf, st.cur, text[i + 1]), t.cur = st.cur + 1, t.name = st.name,
         t.idx = st.idx, t.found = st.found, t.full = st.full,
         IF text[i + 1] = Eq THEN t.value = st.cur + 1 ELSE t.value = st.value
  PROVE  Going(text, n, t, i + 1, s)
<1> DEFINE b == st.buf
           c == t.buf
           k == st.name
           u == st.cur
<1>1. /\ i \in Nat /\ s \in Nat \ {0} /\ s <= i + 1
      /\ b \in Seq(Chars) /\ Len(b) \in Nat
      /\ k \in Nat \ {0} /\ u \in Nat /\ st.value \in Nat
      /\ u = k + (i + 1 - s) /\ k <= u /\ k <= Len(b) /\ u \in 1 .. Len(b) + 1
  BY GoingNumbers
<1>2. text[i + 1] \in Chars
  <2>1. i + 1 \in 1 .. Len(text)
    OBVIOUS
  <2> QED
    BY <2>1
<1>3. /\ c \in Seq(Chars)
      /\ Len(c) = (IF u > Len(b) THEN u ELSE Len(b))
      /\ c[u] = text[i + 1]
      /\ \A j \in 1 .. Len(b) : j # u => c[j] = b[j]
  <2>1. c = Write(b, u, text[i + 1])
    OBVIOUS
  <2> HIDE DEF b, c, k, u
  <2>2. b \in Seq(Chars) /\ u \in 1 .. Len(b) + 1
    BY <1>1
  <2>3. Written(Write(b, u, text[i + 1]), b, u, text[i + 1])
    BY <1>2, <2>2, WriteIs
  <2> QED
    BY <2>1, <2>3 DEF Written
<1>4. \A j \in 1 .. u - 1 : c[j] = b[j]
  <2> HIDE DEF b, c, k, u
  <2>1. \A j \in 1 .. u - 1 : j \in 1 .. Len(b) /\ j # u
    BY <1>1
  <2> QED
    BY <2>1, <1>3
<1>5. /\ Strings(b, k) /\ Begin(text, s)
      /\ \A j \in 1 .. s - 1 : Begin(text, j) => text[j] # NUL
      /\ \A j \in s .. i : text[j] # NUL
      /\ \A j \in s .. i : b[k + (j - s)] = text[j]
      /\ \A j \in s .. i : text[j] = Eq => k + (j - s) < st.value /\ st.value <= u
      /\ \A p \in BeginsBefore(b, k), m \in Names : NameAt(b, p, m) =>
           \E q \in 1 .. s - 1 : Open(text, q) /\ NameAt(text, q, m)
      /\ Cardinality(BeginsBefore(b, k)) = st.idx
      /\ ~st.found => /\ Len(b) = (IF u = k THEN u ELSE u - 1)
                      /\ \A p \in BeginsBefore(b, k) : ~NameAt(b, p, n)
      /\ ~st.full
  BY Zenon DEF Going
<1>6. t.cur = u + 1 /\ t.name = k /\ Len(c) \in Nat
  BY <1>3
<1> HIDE DEF b, c, k, u
<1>7. /\ Strings(c, k)
      /\ BeginsBefore(c, k) = BeginsBefore(b, k)
      /\ \A p \in BeginsBefore(b, k), m \in Names : NameAt(c, p, m) <=> NameAt(b, p, m)
  <2>1. k - 1 <= Len(b) /\ k - 1 <= Len(c) /\ \A j \in 1 .. k - 1 : c[j] = b[j]
    BY <1>1, <1>3, <1>4
  <2> QED
    BY <1>1, <1>3, <1>5, <2>1, StringsKept
<1>8. \A j \in s .. i + 1 : j \in s .. i \/ j = i + 1
  BY <1>1
<1>9. \A j \in s .. i + 1 : text[j] # NUL
  BY <1>5, <1>8
<1>10. \A j \in s .. i + 1 : c[k + (j - s)] = text[j]
  <2>1. k + ((i + 1) - s) = u
    BY <1>1
  <2>2. \A j \in s .. i : k + (j - s) \in 1 .. u - 1
    BY <1>1
  <2> QED
    BY <1>3, <1>4, <1>5, <1>8, <2>1, <2>2
<1>11. \A j \in s .. i + 1 : text[j] = Eq => k + (j - s) < t.value /\ t.value <= u + 1
  <2>1. CASE text[i + 1] = Eq
    <3>1. t.value = u + 1
      BY <2>1 DEF u
    <3>2. \A j \in s .. i + 1 : k + (j - s) < u + 1
      BY <1>1
    <3> QED
      BY <3>1, <3>2, <1>1
  <2>2. CASE text[i + 1] # Eq
    <3>1. t.value = st.value
      BY <2>2
    <3>2. st.value <= u => st.value <= u + 1
      BY <1>1
    <3> QED
      BY <2>2, <3>1, <3>2, <1>5, <1>8
  <2> QED
    BY <2>1, <2>2
<1>12. /\ s \in 1 .. (i + 1) + 1 /\ k >= 1 /\ u + 1 = k + ((i + 1) + 1 - s)
       /\ k <= Len(c) /\ u + 1 <= Len(c) + 1
  <2>1. Len(c) >= u /\ Len(c) >= Len(b)
    BY <1>1, <1>3
  <2>2. s \in 1 .. (i + 1) + 1 /\ k >= 1 /\ u + 1 = k + ((i + 1) + 1 - s)
    BY <1>1
  <2> QED
    BY <1>1, <1>6, <2>1, <2>2
<1>13. ~t.found => /\ Len(c) = (IF u + 1 = k THEN u + 1 ELSE (u + 1) - 1)
                   /\ \A p \in BeginsBefore(c, k) : ~NameAt(c, p, n)
  <2> SUFFICES ASSUME ~t.found
               PROVE  /\ Len(c) = (IF u + 1 = k THEN u + 1 ELSE (u + 1) - 1)
                      /\ \A p \in BeginsBefore(c, k) : ~NameAt(c, p, n)
    OBVIOUS
  <2>1. Len(b) = (IF u = k THEN u ELSE u - 1) /\ \A p \in BeginsBefore(b, k) : ~NameAt(b, p, n)
    BY <1>5
  <2>2. u + 1 # k /\ (u + 1) - 1 = u
    BY <1>1
  <2>3. Len(c) = u
    BY <1>1, <1>3, <2>1
  <2>4. \A p \in BeginsBefore(c, k) : ~NameAt(c, p, n)
    BY <1>7, <2>1
  <2> QED
    BY <2>2, <2>3, <2>4
<1>14. ~t.full /\ t.idx # MaxParams /\ t.idx <= MaxParams
  <2>1. st.idx \in Nat /\ MaxParams \in Nat
    BY GoingNumbers
  <2> QED
    BY <1>5, <2>1
<1>15. \A p \in BeginsBefore(c, k), m \in Names : NameAt(c, p, m) =>
         \E q \in 1 .. s - 1 : Open(text, q) /\ NameAt(text, q, m)
  BY <1>5, <1>7
<1>16. Cardinality(BeginsBefore(c, k)) = t.idx
  BY <1>5, <1>7
<1> QED
  BY <1>5, <1>6, <1>7, <1>9, <1>10, <1>11, <1>12, <1>13, <1>14, <1>15, <1>16, Zenon DEF Going, c

\* The loop ends, at an empty string or with params_arr full.
LEMMA EndRead ==
  ASSUME NEW text \in Seq(Chars), NEW n \in Names, NEW st \in PictureType,
         NEW i \in 0 .. Len(text) - 1, NEW s, Going(text, n, st, i, s), st.cur = st.name,
         NEW t \in PictureType,
         t.buf = Write(st.buf, st.cur, NUL), t.name = st.name, t.idx = st.idx,
         t.found = st.found, ~t.full => t.cur = st.cur /\ st.idx < MaxParams
  PROVE  Finished(n, t)
<1> DEFINE b == st.buf
           c == t.buf
           k == st.name
<1>1. /\ b \in Seq(Chars) /\ Len(b) \in Nat /\ k \in Nat \ {0} /\ k <= Len(b)
      /\ st.idx <= MaxParams /\ k \in 1 .. Len(b) + 1 /\ k - 1 <= Len(b)
  BY GoingNumbers
<1>2. c = Write(b, k, NUL) /\ NUL \in Chars
  BY DEF Chars
<1>3. /\ Strings(b, k) /\ Cardinality(BeginsBefore(b, k)) = st.idx
      /\ ~st.found => /\ Len(b) = (IF st.cur = k THEN st.cur ELSE st.cur - 1)
                      /\ \A p \in BeginsBefore(b, k) : ~NameAt(b, p, n)
  BY Zenon DEF Going
<1>4. /\ t.name = k /\ t.idx = st.idx
      /\ ~t.full => t.cur = k /\ t.idx < MaxParams
      /\ ~t.found => Len(b) = k /\ \A p \in BeginsBefore(b, k) : ~NameAt(b, p, n)
  BY <1>3
<1> HIDE DEF b, c, k
<1>5. /\ c \in Seq(Chars) /\ c[k] = NUL
      /\ Len(c) = (IF k > Len(b) THEN k ELSE Len(b))
      /\ \A j \in 1 .. Len(b) : j # k => c[j] = b[j]
  <2>1. Written(Write(b, k, NUL), b, k, NUL)
    BY <1>1, <1>2, WriteIs
  <2> QED
    BY <1>2, <2>1 DEF Written
<1>6. Len(c) = Len(b) /\ k \in 1 .. Len(c) /\ \A j \in 1 .. k - 1 : c[j] = b[j]
  BY <1>1, <1>5
<1>7. /\ Strings(c, k)
      /\ BeginsBefore(c, k) = BeginsBefore(b, k)
      /\ \A p \in BeginsBefore(b, k), m \in Names : NameAt(c, p, m) <=> NameAt(b, p, m)
  BY <1>1, <1>3, <1>5, <1>6, StringsKept
<1> QED
  BY <1>1, <1>3, <1>4, <1>5, <1>6, <1>7 DEF Finished, c

\* The parameter is dropped: the next string is read over it.
LEMMA UnsetRead ==
  ASSUME NEW text \in Seq(Chars), NEW n \in Names, NEW st \in PictureType,
         NEW i \in 0 .. Len(text) - 1, NEW s, Going(text, n, st, i, s),
         text[i + 1] = NUL, s <= i, st.idx < MaxParams,
         NEW t \in PictureType, Len(t.buf) >= Len(st.buf),
         \A j \in 1 .. st.name - 1 : t.buf[j] = st.buf[j], t.cur = st.name, t.name = st.name,
         t.idx = st.idx, t.found, ~t.full
  PROVE  Going(text, n, t, i + 1, i + 2)
<1> DEFINE b == st.buf
           c == t.buf
           k == st.name
<1>1. /\ i \in Nat /\ b \in Seq(Chars) /\ Len(b) \in Nat /\ k \in Nat \ {0} /\ k <= Len(b)
      /\ k - 1 <= Len(b) /\ s \in Nat \ {0} /\ st.idx \in Nat /\ MaxParams \in Nat
  BY GoingNumbers
<1>2. /\ Strings(b, k) /\ Cardinality(BeginsBefore(b, k)) = st.idx
      /\ \A p \in BeginsBefore(b, k), m \in Names : NameAt(b, p, m) =>
           \E q \in 1 .. s - 1 : Open(text, q) /\ NameAt(text, q, m)
  BY Zenon DEF Going
<1>3. c \in Seq(Chars) /\ Len(c) \in Nat /\ Len(c) >= Len(b) /\ \A j \in 1 .. k - 1 : c[j] = b[j]
  BY DEF PictureType
<1>4. t.cur = k /\ t.name = k
  OBVIOUS
<1> HIDE DEF b, c, k
<1>5. /\ Strings(c, k)
      /\ BeginsBefore(c, k) = BeginsBefore(b, k)
      /\ \A p \in BeginsBefore(b, k), m \in Names : NameAt(c, p, m) <=> NameAt(b, p, m)
  <2>1. k - 1 <= Len(c)
    BY <1>1, <1>3
  <2> QED
    BY <1>1, <1>2, <1>3, <2>1, StringsKept
<1>6. /\ i + 2 \in 1 .. (i + 1) + 1 /\ Begin(text, i + 2) /\ (i + 2) - 1 = i + 1
      /\ (i + 2) .. (i + 1) = {}
      /\ \A j \in 1 .. i + 1 : Begin(text, j) => text[j] # NUL
  BY NextString
<1>7. k >= 1 /\ k = k + ((i + 1) + 1 - (i + 2)) /\ k <= Len(c) /\ k <= Len(c) + 1
  BY <1>1, <1>3
<1>8. \A p \in BeginsBefore(c, k), m \in Names : NameAt(c, p, m) =>
        \E q \in 1 .. i + 1 : Open(text, q) /\ NameAt(text, q, m)
  <2>1. \A q \in 1 .. s - 1 : q \in 1 .. i + 1
    BY <1>1
  <2> QED
    BY <1>2, <1>5, <2>1
<1> QED
  BY <1>1, <1>2, <1>4, <1>5, <1>6, <1>7, <1>8 DEF Going, c

\* strncmp finds a name that is there.
LEMMA PrefixFound ==
  ASSUME NEW b \in Seq(Chars), NEW w \in Seq(Chars), NEW k \in Nat \ {0},
         k + Len(w) <= Len(b) + 1, \A j \in 1 .. Len(w) : b[k + j - 1] = w[j]
  PROVE  IsPrefix(w, SubSeq(b, k, Len(b)))
<1> DEFINE u == SubSeq(b, k, Len(b))
<1>1. Len(b) \in Nat /\ Len(w) \in Nat /\ \A j \in k .. Len(b) : b[j] \in Chars
  OBVIOUS
<1>2. /\ u \in Seq(Chars)
      /\ Len(u) = IF k <= Len(b) THEN Len(b) - k + 1 ELSE 0
      /\ \A j \in 1 .. Len(b) - k + 1 : u[j] = b[k + j - 1]
  BY <1>1, SubSeqProperties
<1> HIDE DEF u
<1>3. Len(w) <= Len(u)
  BY <1>1, <1>2
<1>4. \A j \in 1 .. Len(w) : j \in 1 .. Len(b) - k + 1
  BY <1>1
<1>5. \A j \in 1 .. Len(w) : u[j] = w[j] /\ u[j] \in Chars
  BY <1>1, <1>2, <1>4
<1>6. \A j \in 1 .. Len(w) : 1 + j - 1 = j
  BY <1>1
<1>7. (IF 1 <= Len(w) THEN Len(w) - 1 + 1 ELSE 0) = Len(w) /\ Len(w) - 1 + 1 = Len(w)
  BY <1>1
<1>8. /\ SubSeq(u, 1, Len(w)) \in Seq(Chars)
      /\ Len(SubSeq(u, 1, Len(w))) = Len(w)
      /\ \A j \in 1 .. Len(w) : SubSeq(u, 1, Len(w))[j] = w[j]
  <2>1. /\ SubSeq(u, 1, Len(w)) \in Seq(Chars)
        /\ Len(SubSeq(u, 1, Len(w))) = IF 1 <= Len(w) THEN Len(w) - 1 + 1 ELSE 0
        /\ \A j \in 1 .. Len(w) - 1 + 1 : SubSeq(u, 1, Len(w))[j] = u[1 + j - 1]
    BY <1>1, <1>5, SubSeqProperties
  <2> QED
    BY <2>1, <1>5, <1>6, <1>7
<1>9. SubSeq(u, 1, Len(w)) = w /\ SubSeq(w, 1, Len(w)) = w
  BY <1>8, SeqEqual, SubSeqFull
<1> QED
  BY <1>3, <1>9 DEF IsPrefix, u

\* The NUL of a string is read: it follows the characters of the string.
LEMMA NulPut ==
  ASSUME NEW text \in Seq(Chars), NEW n \in Names, NEW st \in PictureType,
         NEW i \in 0 .. Len(text) - 1, NEW s, Going(text, n, st, i, s), s <= i
  PROVE  /\ Put(st, NUL) \in PictureType /\ Put(st, NUL).cur = st.cur + 1
         /\ Put(st, NUL).idx = st.idx /\ Put(st, NUL).name = st.name
         /\ Put(st, NUL).value = st.value /\ Put(st, NUL).found = st.found
         /\ Put(st, NUL).full = FALSE /\ Put(st, NUL).done = st.done
         /\ st.name < st.cur /\ st.cur <= Len(Put(st, NUL).buf)
         /\ Len(st.buf) <= Len(Put(st, NUL).buf)
         /\ Put(st, NUL).buf[st.cur] = NUL
         /\ \A j \in 1 .. st.cur - 1 : Put(st, NUL).buf[j] = st.buf[j]
         /\ \A j \in st.name .. st.cur - 1 : st.buf[j] # NUL
         /\ ~st.found => Len(Put(st, NUL).buf) = st.cur
<1> DEFINE P == Put(st, NUL)
           b == st.buf
           d == P.buf
           k == st.name
           u == st.cur
<1>0. NUL \in Chars
  BY DEF Chars
<1>1. /\ i \in Nat /\ s \in Nat \ {0} /\ s <= i + 1
      /\ b \in Seq(Chars) /\ Len(b) \in Nat
      /\ k \in Nat \ {0} /\ u \in Nat
      /\ u = k + (i + 1 - s) /\ k <= Len(b) /\ u \in 1 .. Len(b) + 1
  BY GoingNumbers
<1>2. /\ P \in PictureType /\ d = Write(b, u, NUL) /\ P.cur = u + 1
      /\ P.idx = st.idx /\ P.name = k /\ P.value = st.value
      /\ P.found = st.found /\ P.full = st.full /\ P.done = st.done
  BY <1>0, <1>1, PutIs
<1>3. st.full = FALSE
  BY DEF Going, PictureType
<1>4. ~st.found => Len(b) = (IF u = k THEN u ELSE u - 1)
  BY Zenon DEF Going
<1>5. \A j \in s .. i : text[j] # NUL /\ b[k + (j - s)] = text[j]
  BY Zenon DEF Going
<1> HIDE DEF P, b, k, u, d
<1>6. k < u
  BY <1>1
<1>7. \A j \in k .. u - 1 : b[j] # NUL
  <2> SUFFICES ASSUME NEW j \in k .. u - 1 PROVE b[j] # NUL
    OBVIOUS
  <2>1. s + (j - k) \in s .. i /\ k + ((s + (j - k)) - s) = j
    BY <1>1
  <2> QED
    BY <2>1, <1>5
<1>8. /\ d \in Seq(Chars)
      /\ Len(d) = (IF u > Len(b) THEN u ELSE Len(b))
      /\ d[u] = NUL
      /\ \A j \in 1 .. Len(b) : j # u => d[j] = b[j]
  <2>1. Written(Write(b, u, NUL), b, u, NUL)
    BY <1>0, <1>1, WriteIs
  <2> QED
    BY <1>2, <2>1 DEF Written
<1>9. u <= Len(d) /\ Len(b) <= Len(d)
  BY <1>1, <1>8
<1>10. \A j \in 1 .. u - 1 : d[j] = b[j]
  <2>1. \A j \in 1 .. u - 1 : j \in 1 .. Len(b) /\ j # u
    BY <1>1
  <2> QED
    BY <2>1, <1>8
<1>11. ~st.found => Len(d) = u
  BY <1>1, <1>4, <1>6, <1>8
<1> QED
  BY <1>2, <1>3, <1>6, <1>7, <1>8, <1>9, <1>10, <1>11 DEF P, b, k, u, d

\* A string that does not begin with the name is kept.
LEMMA TurnKeeps ==
  ASSUME NEW text \in Seq(Chars), NEW n \in Names, NEW st \in PictureType,
         NEW i \in 0 .. Len(text) - 1, NEW s, Going(text, n, st, i, s),
         text[i + 1] = NUL, s <= i, st.idx < MaxParams,
         NEW m \in Names, NameAt(st.buf, st.name, m), st.name + Len(m) < st.cur,
         \A p \in BeginsBefore(st.buf, st.name) : ~NameAt(st.buf, p, m),
         NameAt(text, s, m), Open(text, s), ~Matches(Put(st, NUL), n)
  PROVE  /\ NextEntry(Put(st, NUL)) \in PictureType
         /\ Going(text, n, NextEntry(Put(st, NUL)), i + 1, i + 2)
         /\ NextEntry(Put(st, NUL)).done = st.done
<1> DEFINE P == Put(st, NUL)
           t == NextEntry(P)
           b == st.buf
           d == P.buf
           c == t.buf
           k == st.name
           u == st.cur
<1>0. NUL \in Chars
  BY DEF Chars
<1>1. /\ b \in Seq(Chars) /\ Len(b) \in Nat /\ k \in Nat \ {0} /\ u \in Nat
  BY GoingNumbers
<1>2. /\ P \in PictureType /\ P.cur = u + 1
      /\ P.idx = st.idx /\ P.name = k
      /\ P.found = st.found /\ P.full = FALSE /\ P.done = st.done
      /\ k < u /\ u <= Len(d) /\ d[u] = NUL
      /\ \A j \in 1 .. u - 1 : d[j] = b[j]
      /\ \A j \in k .. u - 1 : b[j] # NUL
      /\ ~st.found => Len(d) = u
  BY NulPut, ZenonT(60)
<1>3. ~Matches(P, n) /\ k + Len(m) < u
  OBVIOUS
<1>4. d \in Seq(Chars) /\ Len(d) \in Nat
  BY <1>2 DEF PictureType
<1>5. P.cur \in 1 .. Len(P.buf) + 1 /\ u + 1 \in 1 .. Len(d) + 1
  <2>1. u + 1 \in 1 .. Len(d) + 1
    <3> HIDE DEF b, u, k, d, P
    <3> QED
      BY <1>1, <1>2, <1>4
  <2> QED
    BY <2>1, <1>2
<1> HIDE DEF P
<1>6. /\ t \in PictureType /\ c = Write(d, u + 1, NUL) /\ t.idx = st.idx + 1 /\ t.name = u + 1
      /\ t.cur = u + 1 /\ t.found = st.found /\ t.full = FALSE /\ t.done = st.done
  BY <1>2, <1>5, NextEntryIs
<1> HIDE DEF t, d, c
<1>7. /\ c \in Seq(Chars) /\ Len(c) \in Nat
      /\ Len(c) = (IF u + 1 > Len(d) THEN u + 1 ELSE Len(d))
      /\ \A j \in 1 .. Len(d) : j # u + 1 => c[j] = d[j]
  <2> HIDE DEF b, u, k
  <2> DEFINE e == u + 1
  <2>1. d \in Seq(Chars) /\ e \in 1 .. Len(d) + 1 /\ c = Write(d, e, NUL)
    BY <1>4, <1>5, <1>6
  <2> HIDE DEF e
  <2>2. Written(Write(d, e, NUL), d, e, NUL)
    BY <1>0, <2>1, WriteIs
  <2> QED
    BY <2>1, <2>2 DEF e, Written
<1>8. c[u] = NUL /\ u + 1 <= Len(c) /\ \A j \in 1 .. u - 1 : c[j] = b[j]
  <2> HIDE DEF b, u, k
  <2>1. u \in 1 .. Len(d) /\ u # u + 1
    BY <1>1, <1>2, <1>4
  <2>2. \A j \in 1 .. u - 1 : j \in 1 .. Len(d) /\ j # u + 1
    BY <1>1, <1>2, <1>4
  <2>3. u + 1 <= Len(c)
    BY <1>1, <1>4, <1>7
  <2> QED
    BY <2>1, <2>2, <2>3, <1>2, <1>7
<1>9. Len(m) \in Nat /\ Len(n) \in Nat /\ n \in Seq(Chars)
  BY NameChars
<1>10. ~NameAt(c, k, n)
  <2> SUFFICES ASSUME NameAt(c, k, n) PROVE FALSE
    OBVIOUS
  <2> HIDE DEF b, u, k
  <2>0. k <= u
    BY <1>1, <1>2
  <2>1. k + Len(n) < u
    BY <1>1, <1>7, <1>8, <2>0, NameWithin
  <2>2. \A j \in 1 .. Len(n) : k + j - 1 \in 1 .. u - 1
    BY <1>1, <1>9, <2>1
  <2>3. \A j \in 1 .. Len(n) : d[k + j - 1] = n[j]
    BY <2>2, <1>2, <1>8 DEF NameAt
  <2>4. k + Len(n) <= Len(d) + 1
    BY <1>1, <1>2, <1>4, <1>9, <2>1
  <2>5. IsPrefix(n, SubSeq(d, k, Len(d)))
    BY <1>1, <1>4, <1>9, <2>3, <2>4, PrefixFound
  <2> QED
    BY <2>5, <1>2, <1>3 DEF Matches, d
<1>11. ~st.found => Len(c) = u + 1
  <2> HIDE DEF b, u, k
  <2> QED
    BY <1>1, <1>2, <1>7
<1>12. /\ k + Len(m) + 1 < u + 1
       /\ \A j \in 1 .. k + Len(m) : j \in 1 .. u - 1
       /\ \A j \in k .. (u + 1) - 2 : j \in k .. u - 1 /\ j \in 1 .. u - 1
       /\ (u + 1) - 1 = u
  <2> HIDE DEF b, u, k
  <2> QED
    BY <1>1, <1>3, <1>9
<1>13. /\ t.cur = t.name /\ t.name <= Len(t.buf) /\ k + Len(m) + 1 < t.name
       /\ \A j \in 1 .. k + Len(m) : t.buf[j] = b[j]
       /\ \A j \in k .. t.name - 2 : t.buf[j] # NUL
       /\ t.buf[t.name - 1] = NUL
       /\ t.idx = st.idx + 1 /\ ~t.full
       /\ ~t.found => ~st.found /\ Len(t.buf) = t.cur /\ ~NameAt(t.buf, k, n)
  <2> HIDE DEF b, u, k
  <2> QED
    BY <1>2, <1>6, <1>8, <1>10, <1>11, <1>12 DEF c
<1>14. Going(text, n, t, i + 1, i + 2)
  BY <1>6, <1>13, EntryAdded
<1> QED
  BY <1>6, <1>14 DEF t, P

\* A string that begins with the name is dropped when it is to be deleted.
LEMMA TurnUnsets ==
  ASSUME NEW text \in Seq(Chars), NEW n \in Names, NEW st \in PictureType,
         NEW i \in 0 .. Len(text) - 1, NEW s, Going(text, n, st, i, s),
         text[i + 1] = NUL, s <= i, st.idx < MaxParams
  PROVE  /\ Unset(Put(st, NUL)) \in PictureType
         /\ Going(text, n, Unset(Put(st, NUL)), i + 1, i + 2)
         /\ Unset(Put(st, NUL)).done = st.done
<1> DEFINE P == Put(st, NUL)
           t == Unset(P)
           d == P.buf
           c == [d EXCEPT ![st.name] = NUL]
           k == st.name
           u == st.cur
<1>0. NUL \in Chars
  BY DEF Chars
<1>1. k \in Nat \ {0} /\ u \in Nat /\ Len(st.buf) \in Nat
  BY GoingNumbers
<1>2. /\ P \in PictureType
      /\ P.idx = st.idx /\ P.name = k
      /\ P.full = FALSE /\ P.done = st.done
      /\ k < u /\ u <= Len(d) /\ Len(st.buf) <= Len(d)
      /\ \A j \in 1 .. u - 1 : d[j] = st.buf[j]
  BY NulPut, ZenonT(60)
<1>3. d \in Seq(Chars) /\ Len(d) \in Nat
  BY <1>2 DEF PictureType
<1>4. t = [P EXCEPT !.buf = c, !.cur = k, !.found = TRUE]
  BY <1>2 DEF Unset, PictureType
<1>5. c \in Seq(Chars) /\ Len(c) = Len(d) /\ \A j \in 1 .. k - 1 : c[j] = d[j]
  <2> HIDE DEF d, k, u, P
  <2>1. k \in 1 .. Len(d) /\ \A j \in 1 .. k - 1 : j \in 1 .. Len(d) /\ j # k
    BY <1>1, <1>2, <1>3
  <2>2. /\ [d EXCEPT ![k] = NUL] \in Seq(Chars)
        /\ Len([d EXCEPT ![k] = NUL]) = Len(d)
        /\ \A j \in 1 .. Len(d) : [d EXCEPT ![k] = NUL][j] = IF j = k THEN NUL ELSE d[j]
    BY <1>0, <1>3, <2>1, ExceptSeq
  <2> QED
    BY <2>1, <2>2 DEF k
<1> HIDE DEF P, t, c
<1>6. t \in PictureType
  <2> HIDE DEF k
  <2> QED
    BY <1>1, <1>2, <1>4, <1>5 DEF PictureType
<1>7. /\ t.buf = c /\ t.cur = k /\ t.found /\ t.idx = st.idx /\ t.name = k
      /\ ~t.full /\ t.done = st.done
  BY <1>2, <1>4 DEF PictureType
<1>8. \A j \in 1 .. k - 1 : c[j] = st.buf[j]
  <2> HIDE DEF d, k, u
  <2>1. \A j \in 1 .. k - 1 : j \in 1 .. u - 1
    BY <1>1, <1>2
  <2> QED
    BY <2>1, <1>2, <1>5
<1>9. Len(t.buf) >= Len(st.buf)
  BY <1>1, <1>2, <1>3, <1>5, <1>7
<1>10. Going(text, n, t, i + 1, i + 2)
  BY <1>6, <1>7, <1>8, <1>9, UnsetRead
<1> QED
  BY <1>6, <1>7, <1>10 DEF t, P

\* The value of a string that begins with the name is replaced.
LEMMA TurnOverwrites ==
  ASSUME NEW text \in Seq(Chars), NEW n \in Names, NEW v \in Values, NEW st \in PictureType,
         NEW i \in 0 .. Len(text) - 1, NEW s, Going(text, n, st, i, s),
         text[i + 1] = NUL, s <= i, st.idx < MaxParams,
         NEW m \in Names, NameAt(st.buf, st.name, m), st.name + Len(m) < st.cur,
         st.name + Len(m) < st.value, st.value <= st.cur,
         \A p \in BeginsBefore(st.buf, st.name) : ~NameAt(st.buf, p, m),
         NameAt(text, s, m), Open(text, s)
  PROVE  /\ Overwrite(Put(st, NUL), v) \in PictureType
         /\ Going(text, n, Overwrite(Put(st, NUL), v), i + 1, i + 2)
         /\ Overwrite(Put(st, NUL), v).done = st.done
<1> DEFINE P == Put(st, NUL)
           b == st.buf
           d == P.buf
           k == st.name
           u == st.cur
           x == st.value
           y == x + Len(v) + 1
           e == StrCpy(d, x, v)
           Q == [P EXCEPT !.buf = e, !.cur = y, !.found = TRUE]
           t == NextEntry(Q)
           c == t.buf
<1>0. NUL \in Chars
  BY DEF Chars
<1>1. /\ b \in Seq(Chars) /\ Len(b) \in Nat /\ k \in Nat \ {0} /\ u \in Nat /\ x \in Nat
  BY GoingNumbers
<1>2. /\ P \in PictureType
      /\ P.idx = st.idx /\ P.name = k /\ P.value = x
      /\ P.full = FALSE /\ P.done = st.done
      /\ k < u /\ u <= Len(d)
      /\ \A j \in 1 .. u - 1 : d[j] = b[j]
      /\ \A j \in k .. u - 1 : b[j] # NUL
  BY NulPut, ZenonT(60)
<1>3. k + Len(m) < u /\ k + Len(m) < x /\ x <= u
  OBVIOUS
<1>4. d \in Seq(Chars) /\ Len(d) \in Nat
  BY <1>2 DEF PictureType
<1>5. Len(m) \in Nat /\ v \in Seq(Chars) /\ Len(v) \in Nat /\ \A j \in 1 .. Len(v) : v[j] # NUL
  <2>1. v \in Seq(Chars)
    BY CharSeqs
  <2>2. \A j \in 1 .. Len(v) : v[j] \in SeqRange(v)
    BY <2>1 DEF SeqRange
  <2>3. Len(m) \in Nat
    BY NameChars
  <2>4. Len(v) \in Nat
    BY <2>1
  <2>5. NUL \notin SeqRange(v)
    BY ValuesAssumption
  <2> QED
    BY <2>1, <2>2, <2>3, <2>4, <2>5
<1>6. Overwrite(P, v) = t
  BY <1>2 DEF Overwrite
<1> HIDE DEF P
<1>7. /\ e \in Seq(Chars)
      /\ Len(e) = (IF x + Len(v) > Len(d) THEN x + Len(v) ELSE Len(d))
      /\ \A j \in 1 .. x - 1 : e[j] = d[j]
      /\ \A j \in 1 .. Len(v) : e[x + j - 1] = v[j]
      /\ e[x + Len(v)] = NUL
  <2> HIDE DEF b, d, k, u, x
  <2>1. x \in 1 .. Len(d) + 1
    BY <1>1, <1>2, <1>3, <1>4, <1>5
  <2> QED
    BY <2>1, <1>4, <1>5, StrCpyIs
<1>8. y \in Nat /\ y \in 1 .. Len(e) + 1 /\ Len(e) \in Nat
  <2> HIDE DEF b, d, k, u, x, e
  <2> QED
    BY <1>1, <1>3, <1>4, <1>5, <1>7
<1>9. Q \in PictureType
  <2> HIDE DEF y, e
  <2> QED
    BY <1>2, <1>7, <1>8 DEF PictureType
<1>10. /\ Q.buf = e /\ Q.cur = y /\ Q.found = TRUE /\ Q.idx = st.idx /\ Q.full = FALSE
       /\ Q.done = st.done
  <2> HIDE DEF y, e
  <2> QED
    BY <1>2 DEF PictureType
<1> HIDE DEF Q, e, y
<1>11. /\ t \in PictureType /\ c = Write(e, y, NUL) /\ t.idx = st.idx + 1 /\ t.name = y
       /\ t.cur = y /\ t.found = TRUE /\ t.full = FALSE /\ t.done = st.done
  <2>1. Q.cur \in 1 .. Len(Q.buf) + 1
    BY <1>8, <1>10
  <2> QED
    BY <2>1, <1>9, <1>10, NextEntryIs
<1> HIDE DEF t, c, d
<1>12. /\ c \in Seq(Chars)
       /\ Len(c) = (IF y > Len(e) THEN y ELSE Len(e))
       /\ \A j \in 1 .. Len(e) : j # y => c[j] = e[j]
  <2>1. e \in Seq(Chars) /\ y \in 1 .. Len(e) + 1 /\ c = Write(e, y, NUL)
    BY <1>7, <1>8, <1>11
  <2>2. Written(Write(e, y, NUL), e, y, NUL)
    BY <1>0, <2>1, WriteIs
  <2> QED
    BY <2>1, <2>2 DEF Written
<1>13. y <= Len(c) /\ \A j \in 1 .. y - 1 : c[j] = e[j]
  <2>1. y <= Len(c)
    BY <1>8, <1>12
  <2>2. \A j \in 1 .. y - 1 : j \in 1 .. Len(e) /\ j # y
    BY <1>8
  <2> QED
    BY <2>1, <2>2, <1>12
<1>14. /\ k + Len(m) + 1 < y /\ y - 1 = x + Len(v) /\ y - 1 \in 1 .. y - 1
       /\ \A j \in 1 .. k + Len(m) : j \in 1 .. y - 1 /\ j \in 1 .. x - 1 /\ j \in 1 .. u - 1
       /\ \A j \in k .. y - 2 : j \in 1 .. y - 1
  <2>1. y = x + Len(v) + 1
    BY DEF y
  <2> HIDE DEF b, u, k, x
  <2> QED
    BY <2>1, <1>1, <1>3, <1>5
<1>15. \A j \in 1 .. k + Len(m) : c[j] = b[j]
  BY <1>2, <1>7, <1>13, <1>14
<1>16. \A j \in k .. y - 2 : e[j] # NUL
  <2> SUFFICES ASSUME NEW j \in k .. y - 2 PROVE e[j] # NUL
    OBVIOUS
  <2>0. y = x + Len(v) + 1
    BY DEF y
  <2>1. CASE j < x
    <3>1. j \in 1 .. x - 1 /\ j \in 1 .. u - 1 /\ j \in k .. u - 1
      <4> HIDE DEF b, u, k, x
      <4> QED
        BY <2>1, <1>1, <1>3, <1>8
    <3> QED
      BY <3>1, <1>2, <1>7
  <2>2. CASE ~(j < x)
    <3>1. j - x + 1 \in 1 .. Len(v) /\ x + (j - x + 1) - 1 = j
      <4> HIDE DEF b, u, k, x
      <4>1. x \in Nat /\ k \in Nat /\ y \in Nat /\ Len(v) \in Nat
        BY <1>1, <1>5, <1>8
      <4> QED
        BY <4>1, <2>0, <2>2
    <3> DEFINE a == j - x + 1
    <3>2. a \in 1 .. Len(v) /\ x + a - 1 = j
      BY <3>1
    <3> HIDE DEF a, x
    <3>3. e[x + a - 1] = v[a]
      BY <3>2, <1>7
    <3> QED
      BY <3>2, <3>3, <1>5
  <2> QED
    BY <2>1, <2>2
<1>17. /\ t.cur = t.name /\ t.name <= Len(t.buf) /\ k + Len(m) + 1 < t.name
       /\ \A j \in 1 .. k + Len(m) : t.buf[j] = b[j]
       /\ \A j \in k .. t.name - 2 : t.buf[j] # NUL
       /\ t.buf[t.name - 1] = NUL
       /\ t.idx = st.idx + 1 /\ ~t.full /\ t.found
  <2> HIDE DEF b, u, k, x
  <2> QED
    BY <1>7, <1>11, <1>13, <1>14, <1>15, <1>16 DEF c
<1>18. Going(text, n, t, i + 1, i + 2)
  BY <1>11, <1>17, EntryAdded
<1> QED
  BY <1>6, <1>11, <1>18 DEF P

\* The loop ends with params_arr full.
LEMMA TurnFull ==
  ASSUME NEW text \in Seq(Chars), NEW n \in Names, NEW st \in PictureType,
         NEW i \in 0 .. Len(text) - 1, NEW s, Going(text, n, st, i, s), st.idx >= MaxParams,
         NEW t, t = [Put(st, NUL) EXCEPT !.full = TRUE, !.done = TRUE]
  PROVE  t \in PictureType /\ t.done /\ Finished(n, t)
<1>0. NUL \in Chars
  BY DEF Chars
<1>1. st.idx \in Nat /\ MaxParams \in Nat /\ st.idx <= MaxParams /\ st.cur \in 1 .. Len(st.buf) + 1
  BY GoingNumbers
<1>2. st.idx = MaxParams
  BY <1>1
<1>3. st.cur = st.name
  BY <1>2, Zenon DEF Going
<1> DEFINE P == Put(st, NUL)
<1>4. /\ P \in PictureType /\ P.buf = Write(st.buf, st.cur, NUL)
      /\ P.idx = st.idx /\ P.name = st.name /\ P.found = st.found
  BY <1>0, <1>1, PutIs
<1> HIDE DEF P
<1>5. t = [P EXCEPT !.full = TRUE, !.done = TRUE]
  BY DEF P
<1>6. t \in PictureType
  BY <1>4, <1>5 DEF PictureType
<1>7. /\ t.done = TRUE /\ t.full = TRUE /\ t.buf = P.buf /\ t.idx = P.idx /\ t.name = P.name
      /\ t.found = P.found
  BY <1>4, <1>5 DEF PictureType
<1> QED
  BY <1>3, <1>4, <1>6, <1>7, EndRead

\* The loop ends behind the memory.
LEMMA TurnOverruns ==
  ASSUME NEW text \in Seq(Chars), NEW n \in Names, NEW st \in PictureType,
         NEW i \in 0 .. Len(text) - 1, NEW s, Going(text, n, st, i, s), st.cur > ByteLimit,
         NEW t, t = [Put(st, NUL) EXCEPT !.full = TRUE, !.done = TRUE]
  PROVE  t \in PictureType /\ t.done /\ Overrun(t)
<1>0. NUL \in Chars
  BY DEF Chars
<1>1. /\ st.cur \in 1 .. Len(st.buf) + 1 /\ st.cur \in Nat
      /\ st.buf \in Seq(Chars) /\ Len(st.buf) \in Nat /\ ByteLimit \in Nat
  BY GoingNumbers, SizeAssumption DEF ByteLimit
<1> DEFINE P == Put(st, NUL)
<1>2. P \in PictureType /\ P.buf = Write(st.buf, st.cur, NUL)
  BY <1>0, <1>1, PutIs
<1> HIDE DEF P
<1>3. Len(P.buf) = (IF st.cur > Len(st.buf) THEN st.cur ELSE Len(st.buf))
  <2>1. Written(Write(st.buf, st.cur, NUL), st.buf, st.cur, NUL)
    BY <1>0, <1>1, WriteIs
  <2> QED
    BY <1>2, <2>1 DEF Written
<1>4. Len(P.buf) > ByteLimit
  BY <1>1, <1>3
<1>5. t = [P EXCEPT !.full = TRUE, !.done = TRUE]
  BY DEF P
<1>6. t \in PictureType /\ t.done = TRUE /\ t.full = TRUE /\ t.buf = P.buf
  BY <1>2, <1>5 DEF PictureType
<1> QED
  BY <1>4, <1>6 DEF Overrun

\* The loop ends at an empty string.
LEMMA TurnEnds ==
  ASSUME NEW text \in Seq(Chars), NEW n \in Names, NEW st \in PictureType,
         NEW i \in 0 .. Len(text) - 1, Going(text, n, st, i, i + 1), st.idx < MaxParams,
         NEW t, t = [Put(st, NUL) EXCEPT !.cur = @ - 1, !.done = TRUE]
  PROVE  /\ Put(st, NUL).buf[Put(st, NUL).name] = NUL
         /\ t \in PictureType /\ t.done /\ Finished(n, t)
<1>0. NUL \in Chars
  BY DEF Chars
<1>1. /\ st.cur \in 1 .. Len(st.buf) + 1 /\ st.buf \in Seq(Chars) /\ st.cur \in Nat
      /\ st.name \in Nat /\ st.cur = st.name + (i + 1 - (i + 1)) /\ i \in Nat
  BY GoingNumbers
<1>2. st.cur = st.name
  BY <1>1
<1> DEFINE P == Put(st, NUL)
<1>3. /\ P \in PictureType /\ P.buf = Write(st.buf, st.cur, NUL) /\ P.cur = st.cur + 1
      /\ P.idx = st.idx /\ P.name = st.name /\ P.found = st.found
  BY <1>0, <1>1, PutIs
<1> HIDE DEF P
<1>4. P.buf[P.name] = NUL
  <2>1. Written(Write(st.buf, st.cur, NUL), st.buf, st.cur, NUL)
    BY <1>0, <1>1, WriteIs
  <2> QED
    BY <2>1, <1>2, <1>3 DEF Written
<1>5. t = [P EXCEPT !.cur = st.cur, !.done = TRUE]
  <2>1. t = [P EXCEPT !.cur = P.cur - 1, !.done = TRUE]
    BY DEF P
  <2>2. P.cur - 1 = st.cur
    BY <1>1, <1>3
  <2> QED
    BY <2>1, <2>2
<1>6. t \in PictureType
  BY <1>1, <1>3, <1>5 DEF PictureType
<1>7. /\ t.done = TRUE /\ t.cur = st.cur /\ t.buf = P.buf /\ t.idx = P.idx /\ t.name = P.name
      /\ t.found = P.found
  BY <1>3, <1>5 DEF PictureType
<1>8. Finished(n, t)
  BY <1>2, <1>3, <1>6, <1>7, EndRead
<1> QED
  BY <1>4, <1>6, <1>7, <1>8 DEF P

\* Another character follows.
LEMMA TurnReads ==
  ASSUME NEW text \in Seq(Chars), NEW n \in Names, NEW st \in PictureType,
         NEW i \in 0 .. Len(text) - 1, NEW s, Going(text, n, st, i, s), st.idx < MaxParams,
         text[i + 1] # NUL, NEW t,
         IF text[i + 1] = Eq
           THEN t = [Put(st, text[i + 1]) EXCEPT !.value = Put(st, text[i + 1]).cur]
           ELSE t = Put(st, text[i + 1])
  PROVE  t \in PictureType /\ t.done = st.done /\ Going(text, n, t, i + 1, s)
<1> DEFINE P == Put(st, text[i + 1])
<1>1. text[i + 1] \in Chars
  <2>1. i + 1 \in 1 .. Len(text)
    OBVIOUS
  <2> QED
    BY <2>1
<1>2. st.cur \in 1 .. Len(st.buf) + 1 /\ st.cur \in Nat
  BY GoingNumbers
<1>3. /\ P \in PictureType
      /\ P.buf = Write(st.buf, st.cur, text[i + 1]) /\ P.cur = st.cur + 1
      /\ P.idx = st.idx /\ P.name = st.name /\ P.value = st.value
      /\ P.found = st.found /\ P.full = st.full /\ P.done = st.done
  BY <1>1, <1>2, PutIs
<1>4. IF text[i + 1] = Eq THEN t = [P EXCEPT !.value = P.cur] ELSE t = P
  OBVIOUS
<1> HIDE DEF P
<1>5. /\ t \in PictureType /\ t.buf = P.buf /\ t.cur = P.cur /\ t.idx = P.idx /\ t.name = P.name
      /\ t.found = P.found /\ t.full = P.full /\ t.done = P.done
      /\ IF text[i + 1] = Eq THEN t.value = P.cur ELSE t.value = P.value
  <2>1. CASE text[i + 1] = Eq
    <3>1. t = [P EXCEPT !.value = P.cur]
      BY <1>4, <2>1
    <3>2. t \in PictureType
      BY <3>1, <1>3 DEF PictureType
    <3> QED
      BY <2>1, <3>1, <3>2, <1>3 DEF PictureType
  <2>2. CASE text[i + 1] # Eq
    BY <2>2, <1>3, <1>4
  <2> QED
    BY <2>1, <2>2
<1> QED
  BY <1>3, <1>5, CharRead

\* Each turn of the loop keeps the invariant.
LEMMA LoopStep ==
  ASSUME NEW text \in Seq(Chars), Named(text), NEW n \in Names, NEW v \in Values \cup {Delete},
         NEW st, NEW i \in 0 .. Len(text) - 1, LoopInv(text, n, st, i)
  PROVE  LoopInv(text, n, Turn(st, text[i + 1], n, v), i + 1)
<1> DEFINE t == Turn(st, text[i + 1], n, v)
<1>0. IsTurn(t, st, text[i + 1], n, v)
  BY TurnCases
<1> HIDE DEF t
<1>1. st \in PictureType /\ MaxParams \in Nat /\ st.idx \in Nat /\ st.done \in BOOLEAN
  BY BoundsAssumption DEF LoopInv, PictureType
<1>2. CASE st.done
  <2>1. t = st
    BY <1>0, <1>2, Zenon DEF IsTurn
  <2> QED
    BY <1>2, <2>1 DEF LoopInv, t
<1>3. CASE ~st.done
  <2>1. PICK s : Going(text, n, st, i, s)
    BY <1>3, Zenon DEF LoopInv
  <2>2. i \in Nat /\ s \in Nat /\ s <= i + 1
    BY <1>1, <2>1, GoingNumbers
  <2>3. CASE Stop(st)
    <3>1. t = [Put(st, NUL) EXCEPT !.full = TRUE, !.done = TRUE]
      BY <1>3, <2>3, <1>0, Zenon DEF IsTurn
    <3>2. CASE st.idx >= MaxParams
      <4>1. t \in PictureType /\ t.done /\ Finished(n, t)
        BY <1>1, <2>1, <3>1, <3>2, TurnFull
      <4> QED
        BY <4>1, Zenon DEF LoopInv, t
    <3>3. CASE st.cur > ByteLimit
      <4>1. t \in PictureType /\ t.done /\ Overrun(t)
        BY <1>1, <2>1, <3>1, <3>3, TurnOverruns
      <4> QED
        BY <4>1, Zenon DEF LoopInv, t
    <3> QED
      BY <2>3, <3>2, <3>3 DEF Stop
  <2>4. CASE ~Stop(st) /\ text[i + 1] # NUL
    <3>1. st.idx < MaxParams
      BY <1>1, <2>4 DEF Stop
    <3>2. IF text[i + 1] = Eq
            THEN t = [Put(st, text[i + 1]) EXCEPT !.value = Put(st, text[i + 1]).cur]
            ELSE t = Put(st, text[i + 1])
      BY <1>3, <2>4, <1>0, Zenon DEF IsTurn
    <3>3. t \in PictureType /\ t.done = st.done /\ Going(text, n, t, i + 1, s)
      BY <1>1, <2>1, <2>4, <3>1, <3>2, TurnReads
    <3> QED
      BY <1>3, <3>3, Zenon DEF LoopInv, t
  <2>5. CASE ~Stop(st) /\ text[i + 1] = NUL /\ ~(s <= i)
    <3>1. st.idx < MaxParams /\ s = i + 1
      BY <1>1, <2>2, <2>5 DEF Stop
    <3>2. Going(text, n, st, i, i + 1)
      BY <2>1, <3>1
    <3>3. Put(st, NUL).buf[Put(st, NUL).name] = NUL
      BY <1>1, <3>1, <3>2, TurnEnds
    <3>4. t = [Put(st, NUL) EXCEPT !.cur = @ - 1, !.done = TRUE]
      BY <1>3, <2>5, <3>3, <1>0, Zenon DEF IsTurn
    <3>5. t \in PictureType /\ t.done /\ Finished(n, t)
      BY <1>1, <3>1, <3>2, <3>4, TurnEnds
    <3> QED
      BY <3>5, Zenon DEF LoopInv, t
  <2>6. CASE ~Stop(st) /\ text[i + 1] = NUL /\ s <= i
    <3>1. st.idx < MaxParams
      BY <1>1, <2>6 DEF Stop
    <3>2. Put(st, NUL).buf[Put(st, NUL).name] # NUL
      <4>1. /\ Put(st, NUL).name = st.name /\ st.name < st.cur
            /\ \A j \in 1 .. st.cur - 1 : Put(st, NUL).buf[j] = st.buf[j]
            /\ \A j \in st.name .. st.cur - 1 : st.buf[j] # NUL
        BY <1>1, <2>1, <2>6, NulPut
      <4>2. st.name \in Nat \ {0} /\ st.cur \in Nat
        BY <1>1, <2>1, GoingNumbers
      <4>3. st.name \in 1 .. st.cur - 1 /\ st.name \in st.name .. st.cur - 1
        BY <4>1, <4>2
      <4> QED
        BY <4>1, <4>3
    <3>3. t = IF ~Matches(Put(st, NUL), n) THEN NextEntry(Put(st, NUL))
              ELSE IF v = Delete THEN Unset(Put(st, NUL))
              ELSE Overwrite(Put(st, NUL), v)
      BY <1>3, <2>6, <3>2, <1>0, Zenon DEF IsTurn
    <3>4. PICK m \in Names :
            /\ NameAt(st.buf, st.name, m) /\ st.name + Len(m) < st.cur
            /\ st.name + Len(m) < st.value /\ st.value <= st.cur
            /\ \A p \in BeginsBefore(st.buf, st.name) : ~NameAt(st.buf, p, m)
            /\ NameAt(text, s, m) /\ Open(text, s)
      BY <1>1, <2>1, <2>6, StringRead
    <3>5. t \in PictureType /\ Going(text, n, t, i + 1, i + 2) /\ t.done = st.done
      <4>1. CASE ~Matches(Put(st, NUL), n)
        <5>1. t = NextEntry(Put(st, NUL))
          BY <3>3, <4>1
        <5> QED
          BY <1>1, <2>1, <2>6, <3>1, <3>4, <4>1, <5>1, TurnKeeps
      <4>2. CASE Matches(Put(st, NUL), n) /\ v = Delete
        <5>1. t = Unset(Put(st, NUL))
          BY <3>3, <4>2
        <5> QED
          BY <1>1, <2>1, <2>6, <3>1, <5>1, TurnUnsets
      <4>3. CASE Matches(Put(st, NUL), n) /\ v # Delete
        <5>1. t = Overwrite(Put(st, NUL), v) /\ v \in Values
          BY <3>3, <4>3
        <5> QED
          BY <1>1, <2>1, <2>6, <3>1, <3>4, <5>1, TurnOverwrites
      <4> QED
        BY <4>1, <4>2, <4>3
    <3> QED
      BY <1>3, <3>5, Zenon DEF LoopInv, t
  <2> QED
    BY <2>3, <2>4, <2>5, <2>6
<1> QED
  BY <1>1, <1>2, <1>3

\* The loop begins with an empty picture.
LEMMA LoopStart ==
  ASSUME NEW text \in Seq(Chars), NEW n \in Names
  PROVE  LoopInv(text, n, StartPicture, 0)
<1> DEFINE st == StartPicture
<1>0. NUL \in Chars
  BY DEF Chars
<1>1. <<NUL>> \in Seq(Chars) /\ Len(<<NUL>>) = 1
  BY <1>0
<1>2. /\ st.buf = <<NUL>> /\ st.cur = 1 /\ st.idx = 0 /\ st.name = 1 /\ st.value = 1
      /\ st.found = FALSE /\ st.full = FALSE /\ st.done = FALSE
  BY DEF StartPicture
<1>3. st \in PictureType
  <2> DEFINE b == <<NUL>>
  <2>1. b \in Seq(Chars)
    BY <1>1
  <2>2. st = [buf |-> b, cur |-> 1, idx |-> 0, name |-> 1, value |-> 1,
              found |-> FALSE, full |-> FALSE, done |-> FALSE]
    BY DEF StartPicture
  <2> HIDE DEF b, st
  <2> QED
    BY <2>1, <2>2 DEF PictureType
<1> HIDE DEF st
<1>4. BeginsBefore(st.buf, st.name) = {}
  BY <1>2 DEF BeginsBefore
<1>5. Strings(st.buf, st.name) /\ Cardinality(BeginsBefore(st.buf, st.name)) = st.idx
  BY <1>2, <1>4, FS_EmptySet DEF Strings, Begin
<1>6. /\ 1 \in 1 .. 0 + 1 /\ 1 .. 1 - 1 = {} /\ 1 .. 0 = {} /\ st.name >= 1
      /\ st.cur = st.name + (0 + 1 - 1) /\ Begin(text, 1)
      /\ st.name <= Len(st.buf) /\ st.cur <= Len(st.buf) + 1 /\ st.idx <= MaxParams
      /\ st.cur = st.name /\ ~st.full
      /\ Len(st.buf) = (IF st.cur = st.name THEN st.cur ELSE st.cur - 1)
  BY <1>1, <1>2, BoundsAssumption DEF Begin
<1>7. Going(text, n, st, 0, 1)
  BY <1>4, <1>5, <1>6 DEF Going
<1> QED
  BY <1>2, <1>3, <1>7 DEF LoopInv, st

\* The loop reads to the end of the environment, and leaves strings with
\* different names and a NUL behind them, or it runs over the end of the memory.
LEMMA LoopEnds ==
  ASSUME NEW sec \in Seq(Chars), EnvOK(sec), Fits(sec),
         NEW n \in Names, NEW v \in Values \cup {Delete}
  PROVE  /\ ReadLoop(sec, n, v) \in PictureType
         /\ Finished(n, ReadLoop(sec, n, v)) \/ Overrun(ReadLoop(sec, n, v))
<1> DEFINE text == sec \o <<NUL, NUL>>
           g == Pictures(text, n, v)
           l == Len(text)
           S == {i \in 0 .. l : LoopInv(text, n, g[i], i)}
<1>1. /\ text \in Seq(Chars) /\ Len(text) = Len(sec) + 2 /\ Len(sec) \in Nat
      /\ text[Len(sec) + 1] = NUL /\ text[Len(sec) + 2] = NUL
  BY Filled
<1>2. Named(text)
  BY SourceStrings
<1>3. ReadLoop(sec, n, v) = g[l]
  BY DEF ReadLoop
<1> HIDE DEF text
<1>4. /\ g[0] = StartPicture
      /\ \A i \in 1 .. Len(text) : g[i] = Turn(g[i - 1], text[i], n, v)
  BY <1>1, PicturesByTurns
<1>5. l \in Nat /\ l >= 2 /\ text[l] = NUL /\ text[l - 1] = NUL
  BY <1>1
<1> HIDE DEF g
<1>6. 0 \in S
  BY <1>1, <1>4, <1>5, LoopStart
<1>7. ASSUME NEW i \in 0 .. l - 1, i \in S PROVE i + 1 \in S
  <2>1. i + 1 \in 1 .. l /\ i + 1 \in 0 .. l /\ (i + 1) - 1 = i /\ i \in 0 .. Len(text) - 1
    BY <1>5
  <2>2. g[i + 1] = Turn(g[i], text[i + 1], n, v)
    <3>1. g[i + 1] = Turn(g[(i + 1) - 1], text[i + 1], n, v)
      BY <1>4, <2>1
    <3> QED
      BY <2>1, <3>1
  <2>3. LoopInv(text, n, g[i + 1], i + 1)
    BY <1>1, <1>2, <1>7, <2>1, <2>2, LoopStep
  <2> QED
    BY <2>1, <2>3
<1>8. LoopInv(text, n, g[l], l)
  <2>1. 0 .. l \subseteq S
    <3> HIDE DEF S, l
    <3> QED
      BY <1>5, <1>6, <1>7, UpTo
  <2>2. l \in 0 .. l
    BY <1>5
  <2> QED
    BY <2>1, <2>2
<1>9. g[l].done
  <2> SUFFICES ASSUME ~g[l].done PROVE FALSE
    OBVIOUS
  <2>1. PICK s : Going(text, n, g[l], l, s)
    BY <1>8, Zenon DEF LoopInv
  <2>2. /\ s \in 1 .. l + 1 /\ \A j \in 1 .. s - 1 : Begin(text, j) => text[j] # NUL
        /\ \A j \in s .. l : text[j] # NUL
    BY <2>1, Zenon DEF Going
  <2> HIDE DEF l
  <2>3. s = l + 1
    <3> SUFFICES ASSUME s # l + 1 PROVE FALSE
      OBVIOUS
    <3>1. l \in s .. l
      BY <1>5, <2>2
    <3> QED
      BY <3>1, <2>2, <1>5
  <2>4. l \in 1 .. s - 1
    BY <2>3, <1>5
  <2> QED
    BY <2>2, <2>4, <1>5 DEF Begin
<1> QED
  BY <1>3, <1>8, <1>9 DEF LoopInv

-----------------------------------------------------------------------------
(* The sector *)

\* A string that is appended has the name n, and its NUL is its first one.
LEMMA Appended ==
  ASSUME NEW n \in Names, NEW v \in Values, NEW b \in Seq(Chars), NEW k \in Nat \ {0},
         k = Len(b), NEW w, w = n \o <<Eq>> \o v, NEW c, c = StrCpy(b, k, w)
  PROVE  /\ c \in Seq(Chars) /\ Len(w) \in Nat /\ Len(w) > 0 /\ Len(c) = k + Len(w)
         /\ \A j \in 1 .. k - 1 : c[j] = b[j]
         /\ \A j \in k .. k + Len(w) - 1 : c[j] # NUL
         /\ c[k + Len(w)] = NUL
         /\ NameAt(c, k, n) /\ Len(n) \in Nat /\ Len(n) < Len(w)
<1>0. NUL \in Chars /\ Eq \in Chars /\ Eq # NUL
  BY DEF Chars, NUL, Eq
<1>1. /\ n \in Seq(Chars) /\ Len(n) \in Nat /\ Len(n) > 0 /\ \A j \in 1 .. Len(n) : n[j] # NUL
      /\ v \in Seq(Chars) /\ Len(v) \in Nat /\ \A j \in 1 .. Len(v) : v[j] # NUL
  <2>1. v \in Seq(Chars)
    BY CharSeqs
  <2>2. \A j \in 1 .. Len(v) : v[j] \in SeqRange(v)
    BY <2>1 DEF SeqRange
  <2> QED
    BY <2>1, <2>2, NameChars, ValuesAssumption
<1> DEFINE h == n \o <<Eq>>
<1>2. /\ h \in Seq(Chars) /\ Len(h) = Len(n) + 1 /\ h[Len(n) + 1] = Eq
      /\ \A j \in 1 .. Len(n) : h[j] = n[j]
  <2>1. <<Eq>> \in Seq(Chars) /\ Len(<<Eq>>) = 1 /\ <<Eq>>[1] = Eq
    BY <1>0
  <2> DEFINE q == <<Eq>>
  <2>2. q \in Seq(Chars) /\ Len(q) = 1 /\ q[1] = Eq /\ h = n \o q
    BY <2>1
  <2> HIDE DEF q, h
  <2>3. /\ n \o q \in Seq(Chars) /\ Len(n \o q) = Len(n) + Len(q)
        /\ \A j \in 1 .. Len(n) + Len(q) : (n \o q)[j] = IF j <= Len(n) THEN n[j] ELSE q[j - Len(n)]
    BY <1>1, <2>2, ConcatProperties
  <2>4. /\ Len(n) + 1 \in 1 .. Len(n) + Len(q) /\ ~(Len(n) + 1 <= Len(n))
        /\ (Len(n) + 1) - Len(n) = 1
        /\ \A j \in 1 .. Len(n) : j \in 1 .. Len(n) + Len(q) /\ j <= Len(n)
    BY <1>1, <2>2
  <2>5. (n \o q)[Len(n) + 1] = q[1]
    BY <2>3, <2>4
  <2> QED
    BY <2>2, <2>3, <2>4, <2>5
<1>3. w = h \o v
  OBVIOUS
<1> HIDE DEF h
<1>4. /\ w \in Seq(Chars) /\ Len(w) = Len(h) + Len(v)
      /\ \A j \in 1 .. Len(h) : w[j] = h[j]
      /\ \A j \in Len(h) + 1 .. Len(w) : w[j] = v[j - Len(h)]
  <2>1. /\ h \o v \in Seq(Chars) /\ Len(h \o v) = Len(h) + Len(v)
        /\ \A j \in 1 .. Len(h) + Len(v) : (h \o v)[j] = IF j <= Len(h) THEN h[j] ELSE v[j - Len(h)]
    BY <1>1, <1>2, ConcatProperties
  <2>2. /\ \A j \in 1 .. Len(h) : j \in 1 .. Len(h) + Len(v) /\ j <= Len(h)
        /\ \A j \in Len(h) + 1 .. Len(h) + Len(v) : j \in 1 .. Len(h) + Len(v) /\ ~(j <= Len(h))
    BY <1>1, <1>2
  <2> QED
    BY <1>3, <2>1, <2>2
<1>5. Len(w) \in Nat /\ Len(n) < Len(w) /\ Len(w) > 0
  BY <1>1, <1>2, <1>4
<1>6. \A j \in 1 .. Len(w) : w[j] # NUL
  <2> SUFFICES ASSUME NEW j \in 1 .. Len(w) PROVE w[j] # NUL
    OBVIOUS
  <2>1. CASE j \in 1 .. Len(n)
    <3>1. j \in 1 .. Len(h)
      BY <1>1, <1>2, <2>1
    <3> QED
      BY <3>1, <2>1, <1>1, <1>2, <1>4
  <2>2. CASE j = Len(n) + 1
    <3>1. j \in 1 .. Len(h)
      BY <1>1, <1>2, <2>2
    <3> QED
      BY <3>1, <2>2, <1>0, <1>2, <1>4
  <2>3. CASE j > Len(n) + 1
    <3>1. j \in Len(h) + 1 .. Len(w) /\ j - Len(h) \in 1 .. Len(v)
      BY <1>1, <1>2, <1>4, <1>5, <2>3
    <3> QED
      BY <3>1, <1>1, <1>4
  <2> QED
    BY <1>1, <1>5, <2>1, <2>2, <2>3
<1>7. /\ c \in Seq(Chars)
      /\ Len(c) = (IF k + Len(w) > Len(b) THEN k + Len(w) ELSE Len(b))
      /\ \A j \in 1 .. k - 1 : c[j] = b[j]
      /\ \A j \in 1 .. Len(w) : c[k + j - 1] = w[j]
      /\ c[k + Len(w)] = NUL
  <2>1. k \in 1 .. Len(b) + 1
    OBVIOUS
  <2>2. /\ StrCpy(b, k, w) \in Seq(Chars)
        /\ Len(StrCpy(b, k, w)) = (IF k + Len(w) > Len(b) THEN k + Len(w) ELSE Len(b))
        /\ \A j \in 1 .. k - 1 : StrCpy(b, k, w)[j] = b[j]
        /\ \A j \in 1 .. Len(w) : StrCpy(b, k, w)[k + j - 1] = w[j]
        /\ StrCpy(b, k, w)[k + Len(w)] = NUL
    BY <2>1, <1>4, StrCpyIs
  <2> QED
    BY <2>2
<1>8. Len(c) = k + Len(w)
  BY <1>5, <1>7
<1>9. \A j \in k .. k + Len(w) - 1 : c[j] # NUL
  <2> SUFFICES ASSUME NEW j \in k .. k + Len(w) - 1 PROVE c[j] # NUL
    OBVIOUS
  <2> DEFINE x == j - k + 1
  <2>1. x \in 1 .. Len(w) /\ k + x - 1 = j
    BY <1>5
  <2> HIDE DEF x
  <2>2. c[k + x - 1] = w[x]
    BY <2>1, <1>7
  <2> QED
    BY <2>1, <2>2, <1>6
<1>10. NameAt(c, k, n)
  <2>1. /\ k + Len(n) <= Len(c) /\ Len(n) + 1 \in 1 .. Len(w) /\ Len(n) + 1 \in 1 .. Len(h)
        /\ k + (Len(n) + 1) - 1 = k + Len(n)
        /\ \A j \in 1 .. Len(n) : j \in 1 .. Len(w) /\ j \in 1 .. Len(h)
    BY <1>1, <1>2, <1>5, <1>8
  <2>2. c[k + Len(n)] = Eq
    BY <2>1, <1>2, <1>4, <1>7
  <2>3. \A j \in 1 .. Len(n) : c[k + j - 1] = n[j]
    BY <2>1, <1>2, <1>4, <1>7
  <2> QED
    BY <2>1, <2>2, <2>3 DEF NameAt
<1> QED
  BY <1>1, <1>5, <1>7, <1>8, <1>9, <1>10

\* What set_env_param writes is an environment if what it read was one, unless
\* the sector has no room for it.
LEMMA PictureIsEnv ==
  ASSUME NEW sec \in Seq(Chars), EnvOK(sec), Fits(sec),
         NEW n \in Names, NEW v \in Values \cup {Delete}
  PROVE  /\ Picture(sec, n, v) \in Seq(Chars)
         /\ EnvOK(Picture(sec, n, v)) \/ ~Fits(Picture(sec, n, v))
<1> DEFINE st == ReadLoop(sec, n, v)
           b == st.buf
           k == st.name
<1>0. st \in PictureType /\ (Finished(n, st) \/ Overrun(st))
  BY LoopEnds
<1>2. Picture(sec, n, v) = IF ~st.found /\ v # Delete /\ ~st.full
                             THEN StrCpy(b, st.cur, n \o <<Eq>> \o v) ELSE b
  BY DEF Picture
<1> HIDE DEF st
<1>a. CASE Overrun(st)
  <2>1. Picture(sec, n, v) = b /\ Len(b) > ByteLimit
    BY <1>2, <1>a DEF Overrun
  <2>2. b \in Seq(Chars)
    BY <1>0 DEF PictureType
  <2> HIDE DEF b
  <2>3. ~Fits(b)
    BY <2>1, <2>2, SizeAssumption DEF Fits, ByteLimit
  <2> QED
    BY <2>1, <2>2, <2>3
<1> SUFFICES ASSUME ~Overrun(st)
             PROVE  Picture(sec, n, v) \in Seq(Chars) /\ EnvOK(Picture(sec, n, v))
  BY <1>a
<1>1. st \in PictureType /\ Finished(n, st)
  BY <1>0
<1>3. /\ b \in Seq(Chars) /\ Len(b) \in Nat /\ k \in Nat \ {0} /\ k \in 1 .. Len(b) + 1
      /\ st.idx \in Nat /\ MaxParams \in Nat /\ b[k] = NUL /\ Strings(b, k)
      /\ Cardinality(BeginsBefore(b, k)) = st.idx /\ st.idx <= MaxParams
  <2>1. b \in Seq(Chars) /\ st.idx \in Nat
    BY <1>1 DEF PictureType
  <2>2. /\ k \in 1 .. Len(b) /\ b[k] = NUL /\ Strings(b, k)
        /\ Cardinality(BeginsBefore(b, k)) = st.idx /\ st.idx <= MaxParams
    BY <1>1, Zenon DEF Finished
  <2> HIDE DEF b, k
  <2> QED
    BY <2>1, <2>2, BoundsAssumption
<1>4. CASE ~(~st.found /\ v # Delete /\ ~st.full)
  <2>1. Picture(sec, n, v) = b
    BY <1>2, <1>4
  <2>2. EnvOK(b)
    <3> HIDE DEF b, k
    <3> QED
      BY <1>3, StringsAreEnv
  <2> QED
    BY <2>1, <2>2, <1>3
<1>5. CASE ~st.found /\ v # Delete /\ ~st.full
  <2> DEFINE w == n \o <<Eq>> \o v
             c == StrCpy(b, k, w)
             l == k + Len(w) + 1
  <2>1. /\ k = Len(b) /\ st.cur = k /\ st.idx < MaxParams
        /\ \A p \in BeginsBefore(b, k) : ~NameAt(b, p, n)
    BY <1>1, <1>5, Zenon DEF Finished
  <2>2. Picture(sec, n, v) = c /\ v \in Values
    BY <1>2, <1>5, <2>1
  <2> HIDE DEF b, k, w, c
  <2>3. /\ c \in Seq(Chars) /\ Len(w) \in Nat /\ Len(w) > 0 /\ Len(c) = k + Len(w)
        /\ \A j \in 1 .. k - 1 : c[j] = b[j]
        /\ \A j \in k .. k + Len(w) - 1 : c[j] # NUL
        /\ c[k + Len(w)] = NUL
        /\ NameAt(c, k, n) /\ Len(n) \in Nat /\ Len(n) < Len(w)
    BY <1>3, <2>1, <2>2, Appended DEF w, c
  <2>4. /\ l \in Nat /\ k + 1 < l /\ k - 1 <= Len(b) /\ l - 1 <= Len(c) /\ k + Len(n) < l
        /\ l - 2 = k + Len(w) - 1 /\ l - 1 = k + Len(w) /\ l \in 1 .. Len(c) + 1 /\ ~(l <= Len(c))
    BY <1>3, <2>1, <2>3
  <2>5. (\A j \in k .. l - 2 : c[j] # NUL) /\ c[l - 1] = NUL
    BY <2>3, <2>4
  <2> HIDE DEF l
  <2>6. /\ Strings(c, l)
        /\ Cardinality(BeginsBefore(c, l)) = Cardinality(BeginsBefore(b, k)) + 1
    <3>1. /\ b \in Seq(Chars) /\ k \in Nat \ {0} /\ Strings(b, k)
          /\ \A p \in BeginsBefore(b, k) : ~NameAt(b, p, n)
      BY <1>3, <2>1
    <3> QED
      BY <3>1, <2>3, <2>4, <2>5, StringAdded, Zenon
  <2>7. Cardinality(BeginsBefore(c, l)) <= MaxParams
    BY <1>3, <2>1, <2>6
  <2>8. EnvOK(c)
    BY <2>3, <2>4, <2>6, <2>7, StringsAreEnv
  <2> QED
    BY <2>2, <2>3, <2>8
<1> QED
  BY <1>4, <1>5

\* As long as no picture was too long, the sector is an environment, and so is
\* what a tool is about to write, unless it is too long.
EnvInv ==
  /\ TypeOK
  /\ DOMAIN tool = Tools /\ tool = [t \in Tools |-> tool[t]]
  /\ ~outgrown =>
       /\ sector \in Seq(Chars) /\ EnvOK(sector) /\ Fits(sector)
       /\ \A t \in Tools : tool[t].pc = "read" =>
            /\ tool[t].picture \in Seq(Chars)
            /\ EnvOK(tool[t].picture) \/ ~Fits(tool[t].picture)

\* Until a picture outgrows the sector, every sector that is ever written is an
\* environment of name=value strings with different names, no more than
\* params_arr has room for: whatever several set_env_param that run at the same
\* time set and delete, and whichever of them fail to write.
THEOREM EnvParses == Spec => []Parses
<1>2. NoTool.pc = "none"
  BY DEF NoTool
<1>3. Init => EnvInv
  <2> SUFFICES ASSUME Init PROVE EnvInv
    OBVIOUS
  <2>1. sector \in Seq(Chars) /\ EnvOK(sector) /\ Fits(sector)
    <3>1. sector \in Seq(Chars) /\ Environment(sector) /\ Fits(sector)
      BY CharSeqs, SectorsAssumption DEF Init
    <3> QED
      BY <3>1, EnvironmentIs
  <2>2. /\ \A t \in Tools : tool[t] = NoTool
        /\ DOMAIN tool = Tools /\ tool = [t \in Tools |-> tool[t]]
    BY DEF Init
  <2>4. TypeOK
    <3>1. sets \in 0 .. MaxSets
      BY BoundsAssumption DEF Init
    <3> QED
      BY <1>2, <2>2, <3>1 DEF Init, TypeOK
  <2> QED
    BY <1>2, <2>1, <2>2, <2>4 DEF EnvInv
<1>4. EnvInv /\ [Next]_vars => EnvInv'
  <2> SUFFICES ASSUME EnvInv, [Next]_vars PROVE EnvInv'
    OBVIOUS
  <2>0. DOMAIN tool = Tools /\ tool = [t \in Tools |-> tool[t]] /\ MaxSets \in Nat
    BY BoundsAssumption DEF EnvInv
  <2>1. ASSUME NEW t \in Tools, ReadSector(t) PROVE EnvInv'
    <3>1. PICK n \in Names, v \in Values \cup {Delete} :
            tool' = [tool EXCEPT ![t] = [pc |-> "read", name |-> n, value |-> v, read |-> sector,
                                         picture |-> Picture(sector, n, v)]]
      BY <2>1 DEF ReadSector
    <3> DEFINE p == Picture(sector, n, v)
               r == [pc |-> "read", name |-> n, value |-> v, read |-> sector, picture |-> p]
    <3>2. ~outgrown => p \in Seq(Chars) /\ (EnvOK(p) \/ ~Fits(p))
      BY PictureIsEnv DEF EnvInv
    <3> HIDE DEF p
    <3>4. r.pc = "read" /\ r.name = n /\ r.value = v /\ r.picture = p
      OBVIOUS
    <3>5. tool' = [tool EXCEPT ![t] = r]
      BY <3>1 DEF p
    <3> HIDE DEF r
    <3>6. /\ DOMAIN tool' = Tools /\ tool' = [x \in Tools |-> tool'[x]]
          /\ \A x \in Tools : tool'[x] = IF x = t THEN r ELSE tool[x]
      BY <2>0, <3>5
    <3>7. sector' = sector /\ sets' \in 0 .. MaxSets /\ outgrown' = outgrown
      BY <2>0, <2>1 DEF ReadSector, EnvInv, TypeOK
    <3>8. TypeOK'
      BY <3>4, <3>6, <3>7 DEF EnvInv, TypeOK
    <3> QED
      BY <3>2, <3>4, <3>6, <3>7, <3>8 DEF EnvInv
  <2>2. ASSUME NEW t \in Tools, WriteSector(t) \/ OpenFails(t) PROVE EnvInv'
    <3>1. /\ tool' = [tool EXCEPT ![t] = NoTool] /\ sets' = sets /\ tool[t].pc = "read"
          /\ \/ sector' = tool[t].picture /\ Fits(tool[t].picture) /\ outgrown' = outgrown
             \/ outgrown' = TRUE
             \/ sector' = sector /\ outgrown' = outgrown
      BY <2>2, Zenon DEF WriteSector, OpenFails
    <3>2. ~outgrown' =>
            ~outgrown /\ sector' \in Seq(Chars) /\ EnvOK(sector') /\ Fits(sector')
      BY <3>1, Zenon DEF EnvInv
    <3>3. /\ DOMAIN tool' = Tools /\ tool' = [x \in Tools |-> tool'[x]]
          /\ \A x \in Tools : tool'[x] = IF x = t THEN NoTool ELSE tool[x]
      BY <2>0, <3>1
    <3>a. outgrown' \in BOOLEAN
      BY <3>1 DEF EnvInv, TypeOK
    <3>4. TypeOK'
      BY <1>2, <3>1, <3>3, <3>a DEF EnvInv, TypeOK
    <3> QED
      BY <1>2, <3>2, <3>3, <3>4 DEF EnvInv
  <2>3. CASE UNCHANGED vars
    BY <2>3 DEF EnvInv, TypeOK, vars
  <2> QED
    BY <2>1, <2>2, <2>3 DEF Next
<1>5. EnvInv => Parses
  BY EnvironmentIs DEF EnvInv, Parses
<1> QED
  BY <1>3, <1>4, <1>5, PTL DEF Spec
=============================================================================
