-------------------------- MODULE SSLVerify_proofs --------------------------
(***************************************************************************)
(* The answer of a client about a certificate is that of Covers, for names *)
(* and lists of any length.                                                *)
(***************************************************************************)
EXTENDS SSLVerify, SequenceTheorems, WellFoundedInduction, TLAPS

----------------------------------------------------------------------------
(* strchr and strstr find the first.                                        *)

LEMMA LeastExists ==
    ASSUME NEW S \in SUBSET Nat, S # {}
    PROVE  \E x \in S : \A y \in S : x <= y
<1>1. PICK x \in S : \A y \in S : ~(<<y, x>> \in OpToRel(<, Nat))
  BY NatLessThanWellFounded, WFMin
<1>2. \A y \in S : ~(y < x)
  BY <1>1 DEF OpToRel
<1> QED
  BY <1>2

Dots(s) == {i \in 1..Len(s) : s[i] = "."}

\* The position of the first dot, if there is one.
LEMMA FirstDotFinds ==
    ASSUME NEW s \in Seq(STRING)
    PROVE  IF Dots(s) = {} THEN FirstDot(s) = 0
           ELSE FirstDot(s) \in Dots(s) /\ \A k \in Dots(s) : FirstDot(s) <= k
<1>1. FirstDot(s) = IF Dots(s) # {} THEN Min(Dots(s)) ELSE 0
  BY DEF FirstDot, SelectInSeq, Dots
<1>2. Dots(s) \in SUBSET Nat
  BY LenProperties DEF Dots
<1>3. CASE Dots(s) # {}
  <2>1. \E x \in Dots(s) : \A y \in Dots(s) : x <= y
    BY <1>2, <1>3, LeastExists
  <2>2. Min(Dots(s)) \in Dots(s) /\ \A y \in Dots(s) : Min(Dots(s)) <= y
    BY <2>1 DEF Min
  <2> QED
    BY <1>1, <1>3, <2>2
<1> QED
  BY <1>1, <1>3

\* Where t occurs in s.
Occurs(t, s) == {i \in 1..Len(s) : IsPrefix(t, SubSeq(s, i, Len(s)))}

LEMMA FirstOccurrenceFinds ==
    ASSUME NEW s \in Seq(STRING), NEW t
    PROVE  IF Occurs(t, s) = {} THEN FirstOccurrence(t, s) = 0
           ELSE /\ FirstOccurrence(t, s) \in Occurs(t, s)
                /\ \A k \in Occurs(t, s) : FirstOccurrence(t, s) <= k
<1>1. FirstOccurrence(t, s) =
         IF Occurs(t, s) = {} THEN 0
         ELSE CHOOSE i \in Occurs(t, s) : \A j \in Occurs(t, s) : i <= j
  BY DEF FirstOccurrence, Occurs
<1>2. Occurs(t, s) \in SUBSET Nat
  BY LenProperties DEF Occurs
<1>3. CASE Occurs(t, s) # {}
  <2>1. \E x \in Occurs(t, s) : \A y \in Occurs(t, s) : x <= y
    BY <1>2, <1>3, LeastExists
  <2> QED
    BY <1>1, <1>3, <2>1
<1> QED
  BY <1>1, <1>3

\* t occurs in s at i when s has the characters of t from there on.
LEMMA OccursAt ==
    ASSUME NEW s \in Seq(STRING), NEW t \in Seq(STRING), NEW i \in 1..Len(s)
    PROVE  i \in Occurs(t, s) <=>
               /\ i + Len(t) - 1 <= Len(s)
               /\ \A k \in 1..Len(t) : s[i + k - 1] = t[k]
<1> DEFINE r == SubSeq(s, i, Len(s))
<1>1. Len(s) \in Nat /\ Len(t) \in Nat /\ i \in Int /\ i <= Len(s) /\ i >= 1
  BY LenProperties
<1>2. \A k \in i..Len(s) : s[k] \in STRING
  BY <1>1, ElementOfSeq
<1>3. /\ r \in Seq(STRING) /\ Len(r) = Len(s) - i + 1
      /\ \A k \in 1..(Len(s) - i + 1) : r[k] = s[i + k - 1]
  BY <1>1, <1>2, SubSeqProperties
<1> HIDE DEF r
<1>4. i \in Occurs(t, s) <=> Len(t) <= Len(r) /\ SubSeq(t, 1, Len(t)) = SubSeq(r, 1, Len(t))
  BY DEF Occurs, IsPrefix, r
<1>5. SubSeq(t, 1, Len(t)) = t
  BY SubSeqFull
<1>6. ASSUME Len(t) <= Len(r)
      PROVE  SubSeq(r, 1, Len(t)) = t <=> \A k \in 1..Len(t) : s[i + k - 1] = t[k]
  <2>1. \A k \in 1..Len(t) : r[k] \in STRING
    BY <1>1, <1>3, <1>6, ElementOfSeq
  <2>2. /\ SubSeq(r, 1, Len(t)) \in Seq(STRING) /\ Len(SubSeq(r, 1, Len(t))) = Len(t)
        /\ \A k \in 1..Len(t) : SubSeq(r, 1, Len(t))[k] = r[k]
    <3>1. /\ SubSeq(r, 1, Len(t)) \in Seq(STRING)
          /\ Len(SubSeq(r, 1, Len(t))) = IF 1 <= Len(t) THEN Len(t) - 1 + 1 ELSE 0
          /\ \A k \in 1..(Len(t) - 1 + 1) : SubSeq(r, 1, Len(t))[k] = r[1 + k - 1]
      BY <1>1, <2>1, SubSeqProperties
    <3> QED
      BY <1>1, <3>1
  <2>3. SubSeq(r, 1, Len(t)) = t <=> \A k \in 1..Len(t) : SubSeq(r, 1, Len(t))[k] = t[k]
    BY <2>2, SeqEqual
  <2>4. \A k \in 1..Len(t) : r[k] = s[i + k - 1]
    BY <1>1, <1>3, <1>6
  <2> QED
    BY <2>2, <2>3, <2>4
<1>7. Len(t) <= Len(r) <=> i + Len(t) - 1 <= Len(s)
  BY <1>1, <1>3
<1> QED
  BY <1>4, <1>5, <1>6, <1>7

----------------------------------------------------------------------------
(* A star stands for one label.                                             *)

\* The name is cut into a label without a dot, rest, and what follows.
Cut(name, rest, label, more) ==
    /\ name = SubSeq(name, 1, label) \o rest \o SubSeq(name, more + 1, Len(name))
    /\ Dots(name) \cap 1..label = {}

LEMMA PartsOf ==
    ASSUME NEW s \in Seq(STRING), NEW m \in 1..(Len(s) + 1), NEW n \in (m - 1)..Len(s)
    PROVE  /\ SubSeq(s, m, n) \in Seq(STRING) /\ Len(SubSeq(s, m, n)) = n - m + 1
           /\ \A k \in 1..(n - m + 1) : SubSeq(s, m, n)[k] = s[m + k - 1]
<1>1. Len(s) \in Nat /\ m \in Int /\ n \in Int
  BY LenProperties
<1>2. \A k \in m..n : s[k] \in STRING
  BY <1>1, ElementOfSeq
<1>3. /\ SubSeq(s, m, n) \in Seq(STRING)
      /\ Len(SubSeq(s, m, n)) = IF m <= n THEN n - m + 1 ELSE 0
      /\ \A k \in 1..(n - m + 1) : SubSeq(s, m, n)[k] = s[m + k - 1]
  BY <1>1, <1>2, SubSeqProperties
<1> QED
  BY <1>1, <1>3

\* strstr at the first dot finds where the name is to be cut ...
LEMMA FoundIsCut ==
    ASSUME NEW name \in Seq(STRING), NEW rest \in Seq(STRING),
           FirstOccurrence(rest, name) # 0, FirstOccurrence(rest, name) = FirstDot(name)
    PROVE  \E label, more \in 0..Len(name) : Cut(name, rest, label, more)
<1> DEFINE i == FirstDot(name)
           label == i - 1
           more == i + Len(rest) - 1
<1>1. Len(name) \in Nat /\ Len(rest) \in Nat
  BY LenProperties
<1>2. i \in Occurs(rest, name)
  BY FirstOccurrenceFinds
<1>3. i \in 1..Len(name) /\ \A k \in Dots(name) : i <= k
  BY <1>2, FirstDotFinds DEF Occurs
<1> HIDE DEF i
<1>4. more <= Len(name) /\ \A k \in 1..Len(rest) : name[i + k - 1] = rest[k]
  BY <1>2, <1>3, OccursAt
<1>5. label \in 0..Len(name) /\ more \in label..Len(name) /\ more \in 0..Len(name)
  BY <1>1, <1>3, <1>4
<1>6. SubSeq(name, i, more) = rest
  <2>1. i \in 1..(Len(name) + 1) /\ more \in (i - 1)..Len(name)
    BY <1>1, <1>3, <1>5
  <2>2. /\ SubSeq(name, i, more) \in Seq(STRING) /\ Len(SubSeq(name, i, more)) = more - i + 1
        /\ \A k \in 1..(more - i + 1) : SubSeq(name, i, more)[k] = name[i + k - 1]
    BY <2>1, PartsOf
  <2>3. more - i + 1 = Len(rest)
    BY <1>1, <1>3
  <2> QED
    BY <1>4, <2>2, <2>3, SeqEqual
<1>7. SubSeq(name, 1, label) \o SubSeq(name, label + 1, more) = SubSeq(name, 1, more)
  <2>1. 1 \in 1..(Len(name) + 1) /\ label \in (1 - 1)..Len(name) /\ more \in label..Len(name)
    BY <1>1, <1>5
  <2> HIDE DEF label, more
  <2> QED
    BY <2>1, ConcatAdjacentSubSeq
<1>8. SubSeq(name, 1, more) \o SubSeq(name, more + 1, Len(name)) = name
  <2>1. 1 \in 1..(Len(name) + 1) /\ more \in (1 - 1)..Len(name) /\ Len(name) \in more..Len(name)
    BY <1>1, <1>5
  <2> HIDE DEF more
  <2>2. SubSeq(name, 1, more) \o SubSeq(name, more + 1, Len(name)) = SubSeq(name, 1, Len(name))
    BY <2>1, ConcatAdjacentSubSeq
  <2> QED
    BY <2>2, SubSeqFull
<1>9. label + 1 = i
  BY <1>1, <1>3
<1>10. Dots(name) \cap 1..label = {}
  BY <1>1, <1>3
<1>11. Cut(name, rest, label, more)
  BY <1>6, <1>7, <1>8, <1>9, <1>10 DEF Cut
<1> QED
  BY <1>5, <1>11

\* ... and a name that can be cut is found to be, if rest begins with a dot.
LEMMA CutIsFound ==
    ASSUME NEW name \in Seq(STRING), NEW rest \in Seq(STRING),
           rest # <<>>, rest[1] = ".",
           NEW label \in 0..Len(name), NEW more \in 0..Len(name), Cut(name, rest, label, more)
    PROVE  FirstOccurrence(rest, name) # 0 /\ FirstOccurrence(rest, name) = FirstDot(name)
<1> DEFINE a == SubSeq(name, 1, label)
           b == SubSeq(name, more + 1, Len(name))
           i == label + 1
<1>1. Len(name) \in Nat /\ Len(rest) \in Nat /\ Len(rest) > 0
  BY LenProperties, EmptySeq
<1>2. /\ a \in Seq(STRING) /\ Len(a) = label
      /\ b \in Seq(STRING) /\ Len(b) = Len(name) - more
  <2>1. /\ 1 \in 1..(Len(name) + 1) /\ label \in (1 - 1)..Len(name)
        /\ more + 1 \in 1..(Len(name) + 1) /\ Len(name) \in (more + 1 - 1)..Len(name)
    BY <1>1
  <2>2. a \in Seq(STRING) /\ Len(a) = label - 1 + 1
    BY <2>1, PartsOf
  <2>3. b \in Seq(STRING) /\ Len(b) = Len(name) - (more + 1) + 1
    BY <2>1, PartsOf
  <2> QED
    BY <1>1, <2>2, <2>3
<1>3. name = (a \o rest) \o b
  BY DEF Cut
<1> HIDE DEF a, b
<1>4. /\ a \o rest \in Seq(STRING) /\ Len(a \o rest) = label + Len(rest)
      /\ \A k \in 1..(label + Len(rest)) :
            (a \o rest)[k] = IF k <= label THEN a[k] ELSE rest[k - label]
  BY <1>2, ConcatProperties
<1>5. /\ Len(name) = label + Len(rest) + (Len(name) - more)
      /\ \A k \in 1..(label + Len(rest)) : name[k] = (a \o rest)[k]
  <2> DEFINE c == a \o rest
  <2>1. c \in Seq(STRING) /\ Len(c) = label + Len(rest) /\ name = c \o b
    BY <1>3, <1>4
  <2> HIDE DEF c
  <2>2. /\ Len(c \o b) = Len(c) + Len(b)
        /\ \A k \in 1..(Len(c) + Len(b)) : (c \o b)[k] = IF k <= Len(c) THEN c[k] ELSE b[k - Len(c)]
    <3>1. c \in Seq(STRING) /\ b \in Seq(STRING)
      BY <1>2, <2>1
    <3> QED
      BY <3>1, ConcatProperties
  <2>3. Len(name) = label + Len(rest) + (Len(name) - more)
    BY <1>2, <2>1, <2>2
  <2>4. \A k \in 1..(label + Len(rest)) : name[k] = c[k]
    BY <1>1, <1>2, <2>1, <2>2
  <2> QED
    BY <2>3, <2>4 DEF c
<1>6. i \in 1..Len(name) /\ i + Len(rest) - 1 <= Len(name)
  BY <1>1, <1>5
<1>7. \A k \in 1..Len(rest) : name[i + k - 1] = rest[k]
  <2> SUFFICES ASSUME NEW k \in 1..Len(rest) PROVE name[i + k - 1] = rest[k]
    OBVIOUS
  <2>1. i + k - 1 = label + k /\ label + k \in 1..(label + Len(rest)) /\ ~(label + k <= label)
        /\ label + k - label = k
    BY <1>1
  <2>2. name[label + k] = (a \o rest)[label + k]
    BY <1>5, <2>1
  <2>3. (a \o rest)[label + k] = rest[label + k - label]
    BY <1>4, <2>1
  <2> QED
    BY <2>1, <2>2, <2>3
<1>8. i \in Occurs(rest, name)
  BY <1>6, <1>7, OccursAt
<1>9. i \in Dots(name)
  <2>1. name[i + 1 - 1] = rest[1] /\ i + 1 - 1 = i
    BY <1>1, <1>7
  <2> QED
    BY <1>6, <2>1 DEF Dots
<1>10. \A k \in Dots(name) : i <= k
  <2> SUFFICES ASSUME NEW k \in Dots(name) PROVE i <= k
    OBVIOUS
  <2>1. k \in 1..Len(name) /\ k \notin 1..label
    BY DEF Dots, Cut
  <2> QED
    BY <1>1, <2>1
<1>11. \A k \in Occurs(rest, name) : k \in Dots(name)
  <2> SUFFICES ASSUME NEW k \in Occurs(rest, name) PROVE k \in Dots(name)
    OBVIOUS
  <2>1. k \in 1..Len(name)
    BY DEF Occurs
  <2>2. name[k + 1 - 1] = rest[1] /\ k + 1 - 1 = k
    BY <1>1, <2>1, OccursAt
  <2> QED
    BY <2>1, <2>2 DEF Dots
<1>12. FirstDot(name) = i
  <2>1. FirstDot(name) \in Dots(name) /\ FirstDot(name) <= i
    BY <1>9, FirstDotFinds
  <2>2. FirstDot(name) \in Nat /\ i <= FirstDot(name)
    BY <1>1, <1>10, <2>1 DEF Dots
  <2> QED
    BY <1>1, <2>1, <2>2
<1>13. FirstOccurrence(rest, name) = i
  <2>1. FirstOccurrence(rest, name) \in Occurs(rest, name) /\ FirstOccurrence(rest, name) <= i
    BY <1>8, FirstOccurrenceFinds
  <2>2. FirstOccurrence(rest, name) \in Nat /\ i <= FirstOccurrence(rest, name)
    BY <1>1, <1>10, <1>11, <2>1 DEF Occurs
  <2> QED
    BY <1>1, <2>1, <2>2
<1> QED
  BY <1>1, <1>12, <1>13

\* What Covers says of an entry cert with a star.
Stands(cert, name) ==
    /\ cert # <<>> /\ Head(cert) = "*" /\ Len(Tail(cert)) > 2
    /\ 1 \in Dots(Tail(cert)) /\ Dots(Tail(cert)) # {1}
    /\ \E label, more \in 0..Len(name) : Cut(name, Tail(cert), label, more)

LEMMA FinalDot ==
    ASSUME NEW s \in Seq(STRING)
    PROVE  /\ WithoutFinalDot(s) \in Seq(STRING)
           /\ WithoutFinalDot(s) =
                 SubSeq(s, 1, Len(s) - (IF Len(s) \in Dots(s) THEN 1 ELSE 0))
<1>1. Len(s) \in Nat
  BY LenProperties
<1>2. CASE s # <<>> /\ Last(s) = "."
  <2>1. Len(s) > 0 /\ s[Len(s)] = "."
    BY <1>1, <1>2, EmptySeq DEF Last
  <2>2. Len(s) \in Dots(s)
    BY <1>1, <2>1 DEF Dots
  <2>3. WithoutFinalDot(s) = SubSeq(s, 1, Len(s) - 1)
    BY <1>2 DEF WithoutFinalDot, Front
  <2>4. 1 \in 1..(Len(s) + 1) /\ Len(s) - 1 \in (1 - 1)..Len(s)
    BY <1>1, <2>1
  <2>5. SubSeq(s, 1, Len(s) - 1) \in Seq(STRING)
    BY <2>4, PartsOf
  <2> QED
    BY <2>2, <2>3, <2>5
<1>3. CASE ~(s # <<>> /\ Last(s) = ".")
  <2>1. Len(s) \notin Dots(s)
    <3>1. CASE s = <<>>
      BY <3>1, EmptySeq DEF Dots
    <3>2. CASE s # <<>>
      BY <1>3, <3>2 DEF Dots, Last
    <3> QED
      BY <3>1, <3>2
  <2>2. WithoutFinalDot(s) = s
    BY <1>3 DEF WithoutFinalDot
  <2>3. SubSeq(s, 1, Len(s) - 0) = s
    BY <1>1, SubSeqFull
  <2> QED
    BY <2>1, <2>2, <2>3
<1> QED
  BY <1>2, <1>3

\* A sequence of two is known by its elements.
LEMMA PairIs ==
    ASSUME NEW S, NEW p \in Seq(S), Len(p) = 2, NEW a, NEW b
    PROVE  p = <<a, b>> <=> p[1] = a /\ p[2] = b
<1>1. Len(<<a, b>>) = 2 /\ <<a, b>>[1] = a /\ <<a, b>>[2] = b
  OBVIOUS
<1>2. ASSUME p[1] = a, p[2] = b PROVE p = <<a, b>>
  <2>1. a \in S /\ b \in S
    BY <1>2, ElementOfSeq
  <2>2. <<a, b>> \in Seq(S)
    BY <2>1
  <2> QED
    BY <1>1, <1>2, <2>2, SeqEqual
<1> QED
  BY <1>1, <1>2

\* The lengths and positions the code tests say what the shape of a star is.
LEMMA StarShape ==
    ASSUME NEW c \in Seq(STRING)
    PROVE  /\ Len(c) > 3
           /\ SubSeq(c, 1, 2) = <<"*", ".">> /\ FirstDot(SubSeq(c, 3, Len(c))) # 0
           <=>
           /\ c # <<>> /\ Head(c) = "*" /\ Len(Tail(c)) > 2
           /\ 1 \in Dots(Tail(c)) /\ Dots(Tail(c)) # {1}
<1>1. Len(c) \in Nat
  BY LenProperties
<1>2. CASE ~(Len(c) > 3)
  <2>1. c # <<>> => ~(Len(Tail(c)) > 2)
    BY <1>1, <1>2, HeadTailProperties
  <2> QED
    BY <1>2, <2>1
<1>3. CASE Len(c) > 3
  <2> DEFINE t == Tail(c)
             u == SubSeq(c, 3, Len(c))
             p == SubSeq(c, 1, 2)
  <2>1. c # <<>>
    BY <1>3, EmptySeq
  <2>2. /\ t \in Seq(STRING) /\ Len(t) = Len(c) - 1
        /\ \A k \in 1..(Len(c) - 1) : t[k] = c[k + 1]
    BY <1>1, <2>1, HeadTailProperties
  <2>3. Head(c) = c[1]
    BY <2>1
  <2>4. /\ u \in Seq(STRING) /\ Len(u) = Len(c) - 2
        /\ \A k \in 1..(Len(c) - 2) : u[k] = c[k + 2]
    <3>1. 3 \in 1..(Len(c) + 1) /\ Len(c) \in (3 - 1)..Len(c)
      BY <1>1, <1>3
    <3>2. /\ u \in Seq(STRING) /\ Len(u) = Len(c) - 3 + 1
          /\ \A k \in 1..(Len(c) - 3 + 1) : u[k] = c[3 + k - 1]
      BY <3>1, PartsOf
    <3> QED
      BY <1>1, <3>2
  <2>5. p \in Seq(STRING) /\ Len(p) = 2 /\ p[1] = c[1] /\ p[2] = c[2]
    <3>1. 1 \in 1..(Len(c) + 1) /\ 2 \in (1 - 1)..Len(c)
      BY <1>1, <1>3
    <3>2. /\ p \in Seq(STRING) /\ Len(p) = 2 - 1 + 1
          /\ \A k \in 1..(2 - 1 + 1) : p[k] = c[1 + k - 1]
      BY <3>1, PartsOf
    <3>3. 1 \in 1..(2 - 1 + 1) /\ 2 \in 1..(2 - 1 + 1) /\ 1 + 1 - 1 = 1 /\ 1 + 2 - 1 = 2
      OBVIOUS
    <3> QED
      BY <3>2, <3>3
  <2> HIDE DEF t, u, p
  <2>6. p = <<"*", ".">> <=> c[1] = "*" /\ c[2] = "."
    BY <2>5, PairIs
  <2>7. 1 \in Dots(t) <=> c[2] = "."
    BY <1>1, <1>3, <2>2 DEF Dots
  <2>8. FirstDot(u) # 0 <=> \E k \in 1..(Len(c) - 2) : c[k + 2] = "."
    <3>1. FirstDot(u) # 0 <=> Dots(u) # {}
      BY <2>4, FirstDotFinds DEF Dots
    <3>2. Dots(u) # {} <=> \E k \in 1..(Len(c) - 2) : c[k + 2] = "."
      BY <2>4 DEF Dots
    <3> QED
      BY <3>1, <3>2
  <2>9. 1 \in Dots(t) => (Dots(t) # {1} <=> \E k \in 1..(Len(c) - 2) : c[k + 2] = ".")
    <3> SUFFICES ASSUME 1 \in Dots(t)
                 PROVE  Dots(t) # {1} <=> \E k \in 1..(Len(c) - 2) : c[k + 2] = "."
      OBVIOUS
    <3>1. ASSUME Dots(t) # {1} PROVE \E k \in 1..(Len(c) - 2) : c[k + 2] = "."
      <4>1. PICK j \in Dots(t) : j # 1
        BY <3>1
      <4>2. j \in 1..(Len(c) - 1) /\ c[j + 1] = "."
        BY <2>2, <4>1 DEF Dots
      <4>3. j - 1 \in 1..(Len(c) - 2) /\ (j - 1) + 2 = j + 1
        BY <1>1, <4>1, <4>2
      <4> QED
        BY <4>2, <4>3
    <3>2. ASSUME NEW k \in 1..(Len(c) - 2), c[k + 2] = "." PROVE Dots(t) # {1}
      <4>1. k + 1 \in 1..(Len(c) - 1) /\ (k + 1) + 1 = k + 2 /\ k + 1 # 1
        BY <1>1
      <4>2. k + 1 \in Dots(t)
        BY <2>2, <3>2, <4>1 DEF Dots
      <4> QED
        BY <4>1, <4>2
    <3> QED
      BY <3>1, <3>2
  <2>10. Len(t) > 2
    BY <1>1, <1>3, <2>2
  <2> QED
    BY <1>3, <2>1, <2>3, <2>6, <2>7, <2>8, <2>9, <2>10 DEF t, u, p
<1> QED
  BY <1>2, <1>3

\* matches_wildcard_name gives the answer it should, for all names.
LEMMA WildcardIsCover ==
    ASSUME NEW name \in Seq(STRING), NEW cert \in Seq(STRING)
    PROVE  MatchesWildcardName(name, cert) <=> name = cert \/ Stands(cert, name)
<1> DEFINE rest == Tail(cert)
           Shaped == /\ cert # <<>> /\ Head(cert) = "*" /\ Len(rest) > 2
                     /\ 1 \in Dots(rest) /\ Dots(rest) # {1}
           Found == /\ FirstOccurrence(rest, name) # 0
                    /\ FirstOccurrence(rest, name) = FirstDot(name)
           CanCut == \E label, more \in 0..Len(name) : Cut(name, rest, label, more)
<1>1. MatchesWildcardName(name, cert) <=> name = cert \/ (Shaped /\ Found)
  BY StarShape DEF MatchesWildcardName
<1>2. Stands(cert, name) <=> Shaped /\ CanCut
  BY DEF Stands
<1>3. ASSUME Shaped PROVE Found <=> CanCut
  <2>1. rest \in Seq(STRING) /\ rest # <<>> /\ rest[1] = "."
    BY <1>3, HeadTailProperties, EmptySeq DEF Dots
  <2> HIDE DEF rest
  <2>2. Found => CanCut
    BY <2>1, FoundIsCut
  <2>3. CanCut => Found
    BY <2>1, CutIsFound
  <2> QED
    BY <2>2, <2>3
<1> QED
  BY <1>1, <1>2, <1>3

\* One turn of the loop asks what Covers asks.
LEMMA MatchesIsCover ==
    ASSUME NEW e \in [kind : EntryKinds, text : Seq(STRING)], subject \in Seq(STRING)
    PROVE  Matches(e) <=> Covers(e, subject)
<1> DEFINE cert == WithoutFinalDot(e.text)
<1>1. e.text \in Seq(STRING)
  OBVIOUS
<1>2. /\ cert \in Seq(STRING)
      /\ cert = SubSeq(e.text, 1, Len(e.text) - (IF Len(e.text) \in Dots(e.text) THEN 1 ELSE 0))
  BY <1>1, FinalDot
<1>3. Covers(e, subject) <=>
         \/ e.kind \in {"dns", "ip4"} /\ subject = (IF e.kind = "dns" THEN cert ELSE e.text)
         \/ e.kind = "dns" /\ Stands(cert, subject)
  BY <1>2 DEF Covers, Stands, Dots, Cut
<1>4. Matches(e) <=>
         \/ e.kind = "dns" /\ (subject = cert \/ Stands(cert, subject))
         \/ e.kind = "ip4" /\ subject = e.text
  BY <1>2, WildcardIsCover DEF Matches
<1> QED
  BY <1>3, <1>4

----------------------------------------------------------------------------
(* The answer says what the loop has seen.                                  *)

VTypes ==
    /\ subject \in Names /\ common \in CommonNames /\ entries \in EntryLists
    /\ at \in Nat /\ answer \in {"none", "yes", "no"}

\* A yes has its reason; until then what has been passed was no reason; and a no
\* comes when there is nothing left to look at.
VInv ==
    /\ VTypes
    /\ answer = "yes" => common = "some" \/ \E i \in 1..Len(entries) : Matches(entries[i])
    /\ answer # "yes" =>
          /\ at > 0 => common # "some"
          /\ \A i \in 1..Len(entries) : i < at => ~Matches(entries[i])
    /\ answer = "no" => at > Len(entries)

LEMMA Lists ==
    ASSUME VTypes
    PROVE  /\ subject \in Seq(STRING) /\ Len(entries) \in Nat
           /\ \A i \in 1..Len(entries) : entries[i] \in [kind : EntryKinds, text : Seq(STRING)]
<1>1. entries \in Seq([kind : EntryKinds, text : Seq(STRING)])
  BY EntriesAssumption DEF VTypes
<1>2. Len(entries) \in Nat
  BY <1>1, LenProperties
<1>3. ASSUME NEW i \in 1..Len(entries)
      PROVE  entries[i] \in [kind : EntryKinds, text : Seq(STRING)]
  BY <1>1, ElementOfSeq
<1> QED
  BY <1>2, <1>3, NamesAssumption DEF VTypes

LEMMA StartsRight == Init => VInv
<1> SUFFICES ASSUME Init PROVE VInv
  OBVIOUS
<1>1. VTypes
  BY DEF Init, VTypes
<1> QED
  BY <1>1, Lists DEF Init, VInv

LEMMA StepKeeps == VInv /\ [Next]_vars => VInv'
<1> SUFFICES ASSUME VInv, [Next]_vars PROVE VInv'
  OBVIOUS
<1>1. VTypes /\ Len(entries) \in Nat
  BY Lists DEF VInv
<1>2. subject' = subject /\ common' = common /\ entries' = entries
  BY DEF Next, vars, MatchesCommonName, MatchesSanEntry, SanListEnds
<1>3. \A e : Matches(e)' <=> Matches(e)
  BY <1>2 DEF Matches
<1>4. CASE MatchesCommonName
  BY <1>1, <1>2, <1>4 DEF VInv, VTypes, MatchesCommonName
<1>5. CASE MatchesSanEntry
  <2>1. CASE Matches(entries[at])
    <3>1. answer' = "yes" /\ at' = at
      BY <1>5, <2>1 DEF MatchesSanEntry
    <3>2. \E i \in 1..Len(entries) : Matches(entries[i])
      BY <1>5, <2>1 DEF MatchesSanEntry
    <3>3. (\E i \in 1..Len(entries) : Matches(entries[i]))'
      BY <1>2, <1>3, <3>2
    <3> QED
      BY <1>1, <1>2, <3>1, <3>3 DEF VInv, VTypes
  <2>2. CASE ~Matches(entries[at])
    <3>1. answer = "none" /\ answer' = "none" /\ at' = at + 1 /\ at \in 1..Len(entries)
      BY <1>5, <2>2 DEF MatchesSanEntry
    <3>2. \A i \in 1..Len(entries) : i < at + 1 => ~Matches(entries[i])
      BY <1>1, <2>2, <3>1 DEF VInv
    <3>3. (\A i \in 1..Len(entries) : i < at => ~Matches(entries[i]))'
      BY <1>2, <1>3, <3>1, <3>2
    <3>4. common # "some"
      BY <1>1, <3>1 DEF VInv
    <3> QED
      BY <1>1, <1>2, <3>1, <3>3, <3>4 DEF VInv, VTypes
  <2> QED
    BY <2>1, <2>2
<1>6. CASE SanListEnds
  <2>1. answer = "none" /\ answer' = "no" /\ at' = at /\ at > Len(entries)
    BY <1>6 DEF SanListEnds
  <2>2. (\A i \in 1..Len(entries) : i < at => ~Matches(entries[i]))'
    BY <1>2, <1>3, <2>1 DEF VInv
  <2> QED
    BY <1>1, <1>2, <2>1, <2>2 DEF VInv, VTypes
<1>7. CASE UNCHANGED vars
  <2>1. at' = at /\ answer' = answer
    BY <1>7 DEF vars
  <2>2. \A i \in 1..Len(entries) : Matches(entries[i])' <=> Matches(entries[i])
    BY <1>2, <1>3
  <2> QED
    BY <1>2, <1>3, <2>1 DEF VInv, VTypes
<1> QED
  BY <1>4, <1>5, <1>6, <1>7 DEF Next

\* The loop of matches_san_list leaves behind it only entries that do not match,
\* and what it answers is what it has seen.
THEOREM Invariance == Spec => []VInv
BY StartsRight, StepKeeps, PTL DEF Spec

\* The answer of matches_common_name and matches_san_list is that of Covers: strstr,
\* strchr, the cut of the final dot, the early return and the skipped entries find
\* exactly the entries that cover the host's name, for names and lists of any length.
THEOREM AnswersAreCovers == Spec => []AnswerIsCover
<1>1. ASSUME VInv PROVE AnswerIsCover
  <2>1. /\ VTypes /\ subject \in Seq(STRING) /\ Len(entries) \in Nat
        /\ \A i \in 1..Len(entries) : entries[i] \in [kind : EntryKinds, text : Seq(STRING)]
    BY <1>1, Lists DEF VInv
  <2>2. \A i \in 1..Len(entries) : Matches(entries[i]) <=> Covers(entries[i], subject)
    BY <2>1, MatchesIsCover
  <2>3. ASSUME answer = "yes"
        PROVE  common = "some" \/ \E i \in 1..Len(entries) : Covers(entries[i], subject)
    BY <1>1, <2>2, <2>3 DEF VInv
  <2>4. ASSUME answer = "no"
        PROVE  common # "some" /\ \A i \in 1..Len(entries) : ~Covers(entries[i], subject)
    <3>1. at > Len(entries) /\ at \in Nat /\ answer # "yes"
      BY <1>1, <2>1, <2>4 DEF VInv, VTypes
    <3>2. common # "some" /\ \A i \in 1..Len(entries) : ~Matches(entries[i])
      BY <1>1, <2>1, <3>1 DEF VInv
    <3> QED
      BY <2>2, <3>2
  <2>5. answer \in {"none", "yes", "no"}
    BY <2>1 DEF VTypes
  <2> QED
    BY <2>3, <2>4, <2>5 DEF AnswerIsCover
<1> QED
  BY <1>1, Invariance, PTL

=============================================================================
