----------------------------- MODULE FramingProofs -----------------------------
(***************************************************************************)
(* Theorems about Framing, for any sizes of the buffer, of a connection    *)
(* and of the messages: the receiver sees the chunks of what was sent, a   *)
(* header is refused only because of its message, and the bytes come in    *)
(* order.                                                                  *)
(***************************************************************************)
EXTENDS Framing, SequenceTheorems, WellFoundedInduction, TLAPS

-----------------------------------------------------------------------------
(***************************************************************************)
(* Induction.                                                              *)
(***************************************************************************)

\* A set of numbers has a least one.
LEMMA LeastNumber ==
  ASSUME NEW T, T \subseteq Nat, T # {}
  PROVE  \E n \in T : \A k \in T : n <= k
<1> DEFINE R == OpToRel(<, Nat)
<1>1. IsWellFoundedOn(R, Nat)
  BY NatLessThanWellFounded
<1>2. \A k \in Nat, i \in Nat : <<k, i>> \in R <=> k < i
  BY DEF OpToRel
<1> HIDE DEF R
<1>3. \E n \in T : \A k \in T : ~(<<k, n>> \in R)
  BY <1>1, WFMin
<1>4. PICK n \in T : \A k \in T : ~(<<k, n>> \in R)
  BY <1>3
<1>5. \A k \in T : n <= k
  <2>1. TAKE k \in T
  <2>2. k \in Nat /\ n \in Nat /\ ~(k < n)
    BY <1>2, <1>4
  <2>3. QED
    BY <2>2
<1>6. QED
  BY <1>5

\* A set that has 0 and the next of each of its numbers has them all.  It stands
\* for the induction theorems of the library, whose parameter is an operator.
LEMMA Induction ==
  ASSUME NEW T, 0 \in T, \A n \in Nat : n \in T => n + 1 \in T
  PROVE  Nat \subseteq T
<1>1. SUFFICES ASSUME ~(Nat \subseteq T) PROVE FALSE
  OBVIOUS
<1>2. PICK n \in Nat \ T : \A k \in Nat \ T : n <= k
  BY <1>1, LeastNumber
<1>3. n # 0 /\ n - 1 \in Nat /\ n - 1 \in T
  BY <1>2
<1>4. QED
  BY <1>2, <1>3
-----------------------------------------------------------------------------
(***************************************************************************)
(* Sequences.                                                              *)
(***************************************************************************)

\* The elements of a concatenation.
LEMMA ConcatParts ==
  ASSUME NEW S, NEW s \in Seq(S), NEW t \in Seq(S)
  PROVE  /\ s \o t \in Seq(S) /\ Len(s \o t) = Len(s) + Len(t)
         /\ \A i \in 1..Len(s) : (s \o t)[i] = s[i]
         /\ \A i \in 1..Len(t) : (s \o t)[Len(s) + i] = t[i]
<1>1. Len(s) \in Nat /\ Len(t) \in Nat
  BY LenProperties
<1>2. /\ s \o t \in Seq(S) /\ Len(s \o t) = Len(s) + Len(t)
      /\ \A i \in 1..(Len(s) + Len(t)) :
           (s \o t)[i] = IF i <= Len(s) THEN s[i] ELSE t[i - Len(s)]
  BY ConcatProperties
<1>3. ASSUME NEW i \in 1..Len(t)
      PROVE  (s \o t)[Len(s) + i] = t[i]
  <2>1. /\ Len(s) + i \in 1..(Len(s) + Len(t)) /\ ~(Len(s) + i <= Len(s))
        /\ (Len(s) + i) - Len(s) = i
    BY <1>1
  <2>2. QED
    BY <1>2, <2>1
<1>4. QED
  BY <1>1, <1>2, <1>3

\* The same, with the elements of the second by their places in the whole.
LEMMA ConcatSplit ==
  ASSUME NEW S, NEW s \in Seq(S), NEW t \in Seq(S)
  PROVE  /\ s \o t \in Seq(S) /\ Len(s \o t) = Len(s) + Len(t)
         /\ \A i \in 1..Len(s) : (s \o t)[i] = s[i]
         /\ \A i \in 1..(Len(s) + Len(t)) : i > Len(s) => (s \o t)[i] = t[i - Len(s)]
<1>1. Len(s) \in Nat /\ Len(t) \in Nat
  BY LenProperties
<1>2. \A i \in 1..(Len(s) + Len(t)) :
        (s \o t)[i] = IF i <= Len(s) THEN s[i] ELSE t[i - Len(s)]
  BY ConcatProperties
<1>3. \A i \in 1..(Len(s) + Len(t)) : i > Len(s) => (s \o t)[i] = t[i - Len(s)]
  BY <1>1, <1>2
<1>4. QED
  BY <1>3, ConcatParts

\* An element appended to the second of two sequences is appended to both.
LEMMA AppendToBoth ==
  ASSUME NEW S, NEW r \in Seq(S), NEW o \in Seq(S), NEW e \in S
  PROVE  r \o Append(o, e) = Append(r \o o, e)
<1>1. Append(o, e) = o \o <<e>> /\ <<e>> \in Seq(S)
  BY AppendIsConcat
<1>2. r \o o \in Seq(S)
  BY ConcatProperties
<1>3. Append(r \o o, e) = (r \o o) \o <<e>>
  BY <1>2, AppendIsConcat
<1>4. QED
  BY <1>1, <1>3, ConcatAssociative

\* An element taken from the second sequence and put behind the first.
LEMMA MoveOne ==
  ASSUME NEW S, NEW q \in Seq(S), NEW r \in Seq(S), r # <<>>
  PROVE  Append(q, Head(r)) \o Tail(r) = q \o r
<1> DEFINE s == Append(q, Head(r)) \o Tail(r)
           t == q \o r
<1>1. /\ Len(q) \in Nat /\ Len(r) \in Nat \ {0} /\ Head(r) \in S /\ Head(r) = r[1]
      /\ Tail(r) \in Seq(S) /\ Len(Tail(r)) = Len(r) - 1
      /\ \A i \in 1..(Len(r) - 1) : Tail(r)[i] = r[i + 1]
  BY EmptySeq, HeadTailProperties
<1>2. /\ Append(q, Head(r)) \in Seq(S) /\ Len(Append(q, Head(r))) = Len(q) + 1
      /\ \A i \in 1..Len(q) : Append(q, Head(r))[i] = q[i]
      /\ Append(q, Head(r))[Len(q) + 1] = r[1]
  BY <1>1, AppendProperties
<1>3. /\ s \in Seq(S) /\ Len(s) = Len(q) + Len(r)
      /\ \A i \in 1..(Len(q) + 1) : s[i] = Append(q, Head(r))[i]
      /\ \A i \in 1..(Len(r) - 1) : s[Len(q) + 1 + i] = r[i + 1]
  <2>1. /\ s \in Seq(S) /\ Len(s) = Len(Append(q, Head(r))) + Len(Tail(r))
        /\ \A i \in 1..Len(Append(q, Head(r))) : s[i] = Append(q, Head(r))[i]
        /\ \A i \in 1..Len(Tail(r)) :
             s[Len(Append(q, Head(r))) + i] = Tail(r)[i]
    BY <1>1, <1>2, ConcatParts
  <2> HIDE DEF s
  <2>2. QED
    BY <1>1, <1>2, <2>1
<1>4. /\ t \in Seq(S) /\ Len(t) = Len(q) + Len(r)
      /\ \A i \in 1..Len(q) : t[i] = q[i]
      /\ \A i \in 1..Len(r) : t[Len(q) + i] = r[i]
  BY ConcatParts
<1> HIDE DEF s, t
<1>5. ASSUME NEW i \in 1..(Len(q) + Len(r))
      PROVE  s[i] = t[i]
  <2>1. CASE i <= Len(q)
    BY <1>1, <1>2, <1>3, <1>4, <2>1
  <2>2. CASE i = Len(q) + 1
    <3>1. s[i] = r[1] /\ 1 \in 1..Len(r)
      BY <1>1, <1>2, <1>3, <2>2
    <3>2. QED
      BY <1>4, <2>2, <3>1
  <2>3. CASE i > Len(q) + 1
    <3> DEFINE j == i - Len(q) - 1
    <3>1. /\ j \in 1..(Len(r) - 1) /\ Len(q) + 1 + j = i /\ j + 1 \in 1..Len(r)
          /\ Len(q) + (j + 1) = i
      BY <1>1, <2>3
    <3> HIDE DEF j
    <3>2. s[i] = r[j + 1] /\ t[i] = r[j + 1]
      BY <1>3, <1>4, <3>1
    <3>3. QED
      BY <3>2
  <2>4. QED
    BY <1>1, <2>1, <2>2, <2>3
<1>6. s = t
  BY <1>3, <1>4, <1>5, SeqEqual
<1>7. QED
  BY <1>6 DEF s, t

\* The first element of a concatenation, and the others.
LEMMA FirstOfConcat ==
  ASSUME NEW S, NEW q \in Seq(S), NEW r \in Seq(S), q # <<>>
  PROVE  /\ q \o r \in Seq(S) /\ q \o r # <<>>
         /\ Head(q \o r) = Head(q) /\ Tail(q \o r) = Tail(q) \o r
<1> DEFINE s == q \o r
<1>1. /\ Len(q) \in Nat \ {0} /\ Len(r) \in Nat /\ Head(q) = q[1]
      /\ Tail(q) \in Seq(S) /\ Len(Tail(q)) = Len(q) - 1
      /\ \A i \in 1..(Len(q) - 1) : Tail(q)[i] = q[i + 1]
  BY EmptySeq, HeadTailProperties
<1>2. /\ s \in Seq(S) /\ Len(s) = Len(q) + Len(r)
      /\ \A i \in 1..Len(q) : s[i] = q[i]
      /\ \A i \in 1..Len(r) : s[Len(q) + i] = r[i]
  BY ConcatParts
<1> HIDE DEF s
<1>3. s # <<>>
  BY <1>1, <1>2, EmptySeq
<1>4. /\ Head(s) = s[1] /\ Tail(s) \in Seq(S) /\ Len(Tail(s)) = Len(s) - 1
      /\ \A i \in 1..(Len(s) - 1) : Tail(s)[i] = s[i + 1]
  BY <1>2, <1>3, HeadTailProperties
<1>5. Head(s) = Head(q)
  BY <1>1, <1>2, <1>4
<1> DEFINE t == Tail(q) \o r
<1>6. /\ t \in Seq(S) /\ Len(t) = Len(Tail(q)) + Len(r)
      /\ \A i \in 1..Len(Tail(q)) : t[i] = Tail(q)[i]
      /\ \A i \in 1..Len(r) : t[Len(Tail(q)) + i] = r[i]
  BY <1>1, ConcatParts
<1> HIDE DEF t
<1>7. Len(t) = Len(s) - 1 /\ Len(Tail(s)) = Len(t)
  BY <1>1, <1>2, <1>4, <1>6
<1>8. ASSUME NEW i \in 1..(Len(s) - 1)
      PROVE  Tail(s)[i] = t[i]
  <2>1. CASE i < Len(q)
    <3>1. i \in 1..(Len(q) - 1) /\ i + 1 \in 1..Len(q)
      BY <1>1, <2>1
    <3>2. QED
      BY <1>1, <1>2, <1>4, <1>6, <3>1
  <2>2. CASE i >= Len(q)
    <3> DEFINE j == i + 1 - Len(q)
    <3>1. /\ j \in 1..Len(r) /\ Len(q) + j = i + 1 /\ (Len(q) - 1) + j = i
      BY <1>1, <1>2, <2>2
    <3> HIDE DEF j
    <3>2. Tail(s)[i] = r[j] /\ t[i] = r[j]
      BY <1>1, <1>2, <1>4, <1>6, <3>1
    <3>3. QED
      BY <3>2
  <2>3. QED
    BY <1>1, <2>1, <2>2
<1>9. Tail(s) = t
  <2>1. \A i \in 1..Len(t) : Tail(s)[i] = t[i]
    BY <1>7, <1>8
  <2>2. QED
    BY <1>4, <1>6, <1>7, <2>1, SeqEqual
<1>10. QED
  BY <1>2, <1>3, <1>5, <1>9 DEF s, t

\* The first k + 1 elements are the first k and another.
LEMMA TakeOneMore ==
  ASSUME NEW S, NEW q \in Seq(S), NEW k \in Nat, k < Len(q)
  PROVE  /\ SubSeq(q, 1, k) \in Seq(S) /\ Len(SubSeq(q, 1, k)) = k
         /\ q[k + 1] \in S
         /\ SubSeq(q, 1, k + 1) = Append(SubSeq(q, 1, k), q[k + 1])
<1>1. Len(q) \in Nat /\ \A i \in 1..Len(q) : q[i] \in S
  BY LenProperties, ElementOfSeq
<1>2. /\ SubSeq(q, 1, k) \in Seq(S) /\ Len(SubSeq(q, 1, k)) = k
      /\ \A i \in 1..k : SubSeq(q, 1, k)[i] = q[i]
  BY <1>1
<1>3. /\ SubSeq(q, 1, k + 1) \in Seq(S) /\ Len(SubSeq(q, 1, k + 1)) = k + 1
      /\ \A i \in 1..(k + 1) : SubSeq(q, 1, k + 1)[i] = q[i]
  BY <1>1
<1>4. q[k + 1] \in S
  BY <1>1
<1> DEFINE s == Append(SubSeq(q, 1, k), q[k + 1])
<1>5. /\ s \in Seq(S) /\ Len(s) = k + 1 /\ s[k + 1] = q[k + 1]
      /\ \A i \in 1..k : s[i] = q[i]
  <2>1. /\ s \in Seq(S) /\ Len(s) = Len(SubSeq(q, 1, k)) + 1
        /\ s[Len(SubSeq(q, 1, k)) + 1] = q[k + 1]
        /\ \A i \in 1..Len(SubSeq(q, 1, k)) : s[i] = SubSeq(q, 1, k)[i]
    BY <1>2, <1>4, AppendProperties
  <2> HIDE DEF s
  <2>2. QED
    BY <1>2, <2>1
<1> HIDE DEF s
<1>6. \A i \in 1..(k + 1) : SubSeq(q, 1, k + 1)[i] = s[i]
  BY <1>3, <1>5
<1>7. SubSeq(q, 1, k + 1) = s
  BY <1>3, <1>5, <1>6, SeqEqual
<1>8. QED
  BY <1>2, <1>4, <1>7 DEF s

\* A prefix by its elements.
LEMMA PrefixByElements ==
  ASSUME NEW S, NEW s \in Seq(S), NEW t \in Seq(S), Len(s) <= Len(t),
         \A i \in 1..Len(s) : s[i] = t[i]
  PROVE  IsPrefix(s, t)
<1>1. Len(s) \in Nat /\ Len(t) \in Nat
  BY LenProperties
<1>2. SubSeq(s, 1, Len(s)) = s
  BY SubSeqFull
<1>3. SubSeq(t, 1, Len(s)) = s
  <2>1. \A i \in 1..Len(t) : t[i] \in S
    BY ElementOfSeq
  <2>2. /\ SubSeq(t, 1, Len(s)) \in Seq(S) /\ Len(SubSeq(t, 1, Len(s))) = Len(s)
        /\ \A i \in 1..Len(s) : SubSeq(t, 1, Len(s))[i] = t[i]
    BY <1>1, <2>1
  <2>3. QED
    BY <2>2, SeqEqual
<1>4. QED
  BY <1>2, <1>3 DEF IsPrefix
-----------------------------------------------------------------------------
(***************************************************************************)
(* The concatenation of many sequences: FlattenSeq is a recursive function *)
(* of the community modules.                                               *)
(***************************************************************************)

\* f[i] is the concatenation of the first i of the sequences ss, for i up to n:
\* the function that FlattenSeq(ss) chooses.
Flattens(f, ss, n) == f = [i \in 1..n |-> IF i = 1 THEN ss[i] ELSE f[i - 1] \o ss[i]]

\* FlattenSeq by that function.
LEMMA FlattenDef ==
  ASSUME NEW ss, Len(ss) # 0
  PROVE  FlattenSeq(ss) = (CHOOSE f : Flattens(f, ss, Len(ss)))[Len(ss)]
BY DEF FlattenSeq, Flattens

\* What it means to be that function, without the function on both sides.
LEMMA FlattensFacts ==
  ASSUME NEW n \in Nat, NEW ss, NEW f
  PROVE  Flattens(f, ss, n) <=>
           /\ f = [i \in 1..n |-> f[i]]
           /\ \A i \in 1..n : f[i] = IF i = 1 THEN ss[i] ELSE f[i - 1] \o ss[i]
<1>1. ASSUME Flattens(f, ss, n)
      PROVE  /\ f = [i \in 1..n |-> f[i]]
             /\ \A i \in 1..n : f[i] = IF i = 1 THEN ss[i] ELSE f[i - 1] \o ss[i]
  BY <1>1 DEF Flattens
<1>2. ASSUME /\ f = [i \in 1..n |-> f[i]]
             /\ \A i \in 1..n : f[i] = IF i = 1 THEN ss[i] ELSE f[i - 1] \o ss[i]
      PROVE  Flattens(f, ss, n)
  <2>1. [i \in 1..n |-> f[i]] =
          [i \in 1..n |-> IF i = 1 THEN ss[i] ELSE f[i - 1] \o ss[i]]
    BY <1>2, Zenon
  <2>2. QED
    BY <1>2, <2>1 DEF Flattens
<1>3. QED
  BY <1>1, <1>2

\* There is such a function.
LEMMA FlattenExists ==
  ASSUME NEW ss, NEW n \in Nat
  PROVE  \E f : Flattens(f, ss, n)
<1> DEFINE T == {k \in Nat : \E f : Flattens(f, ss, k)}
<1>1. 0 \in T
  <2> DEFINE f == [i \in 1..0 |-> 0]
  <2>1. Flattens(f, ss, 0)
    BY DEF Flattens
  <2>2. QED
    BY <2>1
<1>2. ASSUME NEW k \in Nat, k \in T
      PROVE  k + 1 \in T
  <2>1. PICK f : Flattens(f, ss, k)
    BY <1>2
  <2>2. \A i \in 1..k : f[i] = IF i = 1 THEN ss[i] ELSE f[i - 1] \o ss[i]
    BY <2>1, FlattensFacts
  <2> DEFINE last == IF k = 0 THEN ss[1] ELSE f[k] \o ss[k + 1]
             g == [i \in 1..(k + 1) |-> IF i = k + 1 THEN last ELSE f[i]]
  <2>3. \A i \in 1..(k + 1) : i # k + 1 => i \in 1..k /\ g[i] = f[i]
    OBVIOUS
  <2>4. g[k + 1] = last /\ (k # 0 => g[k] = f[k])
    OBVIOUS
  <2>5. g = [i \in 1..(k + 1) |-> g[i]]
    OBVIOUS
  <2> HIDE DEF g
  <2>6. \A i \in 1..(k + 1) : g[i] = IF i = 1 THEN ss[i] ELSE g[i - 1] \o ss[i]
    <3>1. TAKE i \in 1..(k + 1)
    <3>2. CASE i = k + 1
      <4>1. CASE k = 0
        BY <2>4, <3>2, <4>1
      <4>2. CASE k # 0
        <5>1. i - 1 = k /\ i # 1
          BY <3>2, <4>2
        <5>2. QED
          BY <2>4, <3>2, <4>2, <5>1
      <4>3. QED
        BY <4>1, <4>2
    <3>3. CASE i # k + 1
      <4>1. i \in 1..k /\ g[i] = f[i] /\ (i # 1 => i - 1 \in 1..(k + 1) /\ i - 1 # k + 1)
        BY <2>3, <3>3
      <4>2. i # 1 => g[i - 1] = f[i - 1]
        BY <2>3, <4>1
      <4>3. QED
        BY <2>2, <4>1, <4>2
    <3>4. QED
      BY <3>2, <3>3
  <2>7. Flattens(g, ss, k + 1)
    <3>1. k + 1 \in Nat
      OBVIOUS
    <3>2. QED
      BY <2>5, <2>6, <3>1, FlattensFacts
  <2>8. QED
    BY <2>7
<1> HIDE DEF T
<1>3. n \in T
  BY <1>1, <1>2, Induction
<1>4. QED
  BY <1>3 DEF T

\* Its values are sequences over the same set.
LEMMA FlattenTypes ==
  ASSUME NEW S, NEW ss \in Seq(Seq(S)), NEW f, Flattens(f, ss, Len(ss)),
         NEW n \in 1..Len(ss)
  PROVE  f[n] \in Seq(S)
<1> DEFINE T == {k \in Nat : k \in 1..Len(ss) => f[k] \in Seq(S)}
<1>1. /\ Len(ss) \in Nat
      /\ \A i \in 1..Len(ss) : ss[i] \in Seq(S)
      /\ \A i \in 1..Len(ss) : f[i] = IF i = 1 THEN ss[i] ELSE f[i - 1] \o ss[i]
  <2>1. Len(ss) \in Nat
    OBVIOUS
  <2>2. \A i \in 1..Len(ss) : ss[i] \in Seq(S)
    <3> DEFINE C == Seq(S)
    <3>1. ss \in Seq(C)
      OBVIOUS
    <3> HIDE DEF C
    <3>2. \A i \in 1..Len(ss) : ss[i] \in C
      BY <3>1, ElementOfSeq
    <3>3. QED
      BY <3>2 DEF C
  <2>3. \A i \in 1..Len(ss) : f[i] = IF i = 1 THEN ss[i] ELSE f[i - 1] \o ss[i]
    <3> DEFINE n1 == Len(ss)
    <3>1. n1 \in Nat /\ Flattens(f, ss, n1)
      BY <2>1
    <3> HIDE DEF n1
    <3>2. \A i \in 1..n1 : f[i] = IF i = 1 THEN ss[i] ELSE f[i - 1] \o ss[i]
      BY <3>1 DEF Flattens
    <3>3. QED
      BY <3>2 DEF n1
  <2>4. QED
    BY <2>1, <2>2, <2>3
<1>2. 0 \in T
  OBVIOUS
<1>3. ASSUME NEW k \in Nat, k \in T
      PROVE  k + 1 \in T
  <2>1. SUFFICES ASSUME k + 1 \in 1..Len(ss)
                 PROVE  f[k + 1] \in Seq(S)
    OBVIOUS
  <2>2. CASE k = 0
    <3>1. k + 1 = 1 /\ f[1] = ss[1] /\ ss[1] \in Seq(S)
      BY <1>1, <2>1, <2>2
    <3>2. QED
      BY <3>1
  <2>3. CASE k # 0
    <3>1. k \in 1..Len(ss) /\ f[k] \in Seq(S) /\ ss[k + 1] \in Seq(S)
      BY <1>1, <1>3, <2>1, <2>3
    <3>2. f[k + 1] = f[k] \o ss[k + 1]
      <4>1. k + 1 # 1 /\ (k + 1) - 1 = k
        BY <2>3
      <4>2. QED
        BY <1>1, <2>1, <4>1
    <3>3. QED
      BY <3>1, <3>2, ConcatProperties
  <2>4. QED
    BY <2>2, <2>3
<1> HIDE DEF T
<1>4. Nat \subseteq T
  BY <1>2, <1>3, Induction
<1>5. n \in T
  BY <1>1, <1>4
<1>6. QED
  BY <1>5 DEF T

\* It has the same values for longer sequences of sequences.
LEMMA FlattenAgrees ==
  ASSUME NEW n \in Nat, NEW m \in Nat, NEW ss, NEW tt, NEW f, NEW g,
         n <= m, \A i \in 1..n : ss[i] = tt[i],
         Flattens(f, ss, n), Flattens(g, tt, m), NEW j \in 1..n
  PROVE  f[j] = g[j]
<1> DEFINE T == {k \in Nat : k \in 1..n => f[k] = g[k]}
<1>1. /\ \A i \in 1..n : f[i] = IF i = 1 THEN ss[i] ELSE f[i - 1] \o ss[i]
      /\ \A i \in 1..m : g[i] = IF i = 1 THEN tt[i] ELSE g[i - 1] \o tt[i]
  BY FlattensFacts
<1>2. 0 \in T
  OBVIOUS
<1>3. ASSUME NEW k \in Nat, k \in T
      PROVE  k + 1 \in T
  <2>1. SUFFICES ASSUME k + 1 \in 1..n
                 PROVE  f[k + 1] = g[k + 1]
    OBVIOUS
  <2>2. k + 1 \in 1..m /\ ss[k + 1] = tt[k + 1] /\ (k + 1) - 1 = k
    BY <2>1
  <2>3. CASE k = 0
    BY <1>1, <2>1, <2>2, <2>3
  <2>4. CASE k # 0
    <3>1. k \in 1..n /\ f[k] = g[k] /\ k + 1 # 1
      BY <1>3, <2>1, <2>4
    <3>2. f[k + 1] = f[k] \o ss[k + 1] /\ g[k + 1] = g[k] \o tt[k + 1]
      BY <1>1, <2>1, <2>2, <3>1
    <3>3. QED
      BY <2>2, <3>1, <3>2
  <2>5. QED
    BY <2>3, <2>4
<1> HIDE DEF T
<1>4. Nat \subseteq T
  BY <1>2, <1>3, Induction
<1>5. j \in T
  BY <1>4
<1>6. QED
  BY <1>5 DEF T

\* A sequence more is concatenated at the end.
LEMMA FlattenAppend ==
  ASSUME NEW S, NEW ss \in Seq(Seq(S)), NEW p \in Seq(S)
  PROVE  /\ FlattenSeq(ss) \in Seq(S)
         /\ FlattenSeq(Append(ss, p)) = FlattenSeq(ss) \o p
<1> DEFINE n == Len(ss)
           tt == Append(ss, p)
           f == CHOOSE h : Flattens(h, ss, n)
           g == CHOOSE h : Flattens(h, tt, n + 1)
<1>1. /\ n \in Nat /\ Len(tt) = n + 1 /\ tt[n + 1] = p
      /\ \A i \in 1..n : ss[i] = tt[i]
  OBVIOUS
<1>2. n + 1 \in Nat /\ n <= n + 1 /\ n + 1 # 0 /\ n + 1 \in 1..(n + 1)
      /\ (n + 1) - 1 = n
  BY <1>1
<1> HIDE DEF n, tt
<1>3. Flattens(f, ss, n) /\ Flattens(g, tt, n + 1)
  <2>1. (\E h : Flattens(h, ss, n)) /\ (\E h : Flattens(h, tt, n + 1))
    BY <1>1, <1>2, FlattenExists
  <2>2. QED
    BY <2>1, Zenon
<1>4. FlattenSeq(tt) = g[n + 1]
  <2>1. Len(tt) # 0
    BY <1>1, <1>2
  <2>2. FlattenSeq(tt) = (CHOOSE h : Flattens(h, tt, Len(tt)))[Len(tt)]
    BY <2>1, FlattenDef
  <2>3. QED
    BY <1>1, <2>2
<1>5. n # 0 => FlattenSeq(ss) = f[n]
  BY FlattenDef DEF n
<1> HIDE DEF f, g
<1>6. \A i \in 1..(n + 1) : g[i] = IF i = 1 THEN tt[i] ELSE g[i - 1] \o tt[i]
  BY <1>2, <1>3, FlattensFacts
<1>7. CASE n = 0
  <2>1. ss = <<>> /\ FlattenSeq(ss) = <<>>
    BY <1>7 DEF FlattenSeq, n
  <2>2. g[n + 1] = p
    BY <1>1, <1>2, <1>6, <1>7
  <2>3. <<>> \o p = p /\ <<>> \in Seq(S)
    OBVIOUS
  <2>4. QED
    BY <1>4, <2>1, <2>2, <2>3 DEF tt
<1>8. CASE n # 0
  <2>1. n \in 1..n /\ n + 1 # 1
    BY <1>1, <1>8
  <2>2. f[n] = g[n]
    BY <1>1, <1>2, <1>3, <2>1, FlattenAgrees
  <2>3. g[n + 1] = g[n] \o p
    BY <1>1, <1>2, <1>6, <2>1
  <2>4. f[n] \in Seq(S)
    BY <1>3, <2>1, FlattenTypes DEF n
  <2>5. QED
    BY <1>4, <1>5, <1>8, <2>2, <2>3, <2>4 DEF tt
<1>9. QED
  BY <1>7, <1>8
-----------------------------------------------------------------------------
(***************************************************************************)
(* What a message is cut into.                                             *)
(***************************************************************************)

\* What a receiver is handed, and what send and asyncSendMessage are given.
Content == Seq(Nat)
Piece == [type : Nat, content : Content]
Message == [type : Nat, first : Nat \ {0}, size : Nat,
            how : {"send", "asyncSendMessage"}]

\* The size of a full piece of m, and how many pieces m has.
Full(m) == IF m.how = "asyncSendMessage" THEN m.size ELSE BUFFER_SIZE
Count(m) == IF m.size = 0 THEN 1 ELSE (m.size + Full(m) - 1) \div Full(m)

\* The size of piece i of m.
Size(m, i) == IF i < Count(m) THEN Full(m) ELSE m.size - (Count(m) - 1) * Full(m)

\* The numbers of size bytes from first on.
LEMMA NumbersFacts ==
  ASSUME NEW first \in Nat \ {0}, NEW size \in Nat
  PROVE  /\ Numbers(first, size) \in Seq(Nat)
         /\ Len(Numbers(first, size)) = size
         /\ \A i \in 1..size : Numbers(first, size)[i] = first + i - 1
BY DEF Numbers

\* Multiplication keeps the order.
LEMMA ProductOrder ==
  ASSUME NEW a \in Nat, NEW b \in Nat, NEW c \in Nat, a <= b
  PROVE  a * c <= b * c
<1>1. PICK d \in Nat : b = a + d
  <2>1. b - a \in Nat /\ b = a + (b - a)
    OBVIOUS
  <2>2. QED
    BY <2>1
<1>2. b * c = a * c + d * c
  BY <1>1
<1>3. d * c \in Nat /\ a * c \in Nat
  OBVIOUS
<1>4. QED
  BY <1>2, <1>3

\* The least number of buffers of size full that hold size bytes.
LEMMA DivideUp ==
  ASSUME NEW size \in Nat \ {0}, NEW full \in Nat \ {0}
  PROVE  LET count == (size + full - 1) \div full
         IN  /\ count \in Nat \ {0}
             /\ (count - 1) * full < size
             /\ size <= count * full
<1> DEFINE count == (size + full - 1) \div full
<1>1. count \in Int
  OBVIOUS
<1>2. count * full <= size + full - 1 /\ size + full - 1 < count * full + full
  OBVIOUS
<1> HIDE DEF count
<1>3. (count - 1) * full = count * full - full
  BY <1>1
<1>4. (count - 1) * full < size /\ size <= count * full
  BY <1>1, <1>2, <1>3
<1>5. count \in Nat \ {0}
  BY <1>1, <1>4
<1>6. QED
  BY <1>4, <1>5 DEF count

\* The pieces of m hold it, and one piece less would not.
LEMMA CountFacts ==
  ASSUME NEW m \in Message
  PROVE  /\ Full(m) \in Nat /\ Count(m) \in Nat \ {0}
         /\ (Count(m) - 1) * Full(m) <= m.size
         /\ m.size <= Count(m) * Full(m)
         /\ m.size # 0 => (Count(m) - 1) * Full(m) < m.size
         /\ m.how = "asyncSendMessage" => Count(m) = 1
<1>1. m.size \in Nat /\ BUFFER_SIZE \in Nat \ {0} /\ Full(m) \in Nat
  BY SizesAssumption DEF Message, Full
<1>2. CASE m.size = 0
  BY <1>1, <1>2 DEF Count
<1>3. CASE m.size # 0
  <2>1. Full(m) \in Nat \ {0}
    BY <1>1, <1>3 DEF Full
  <2>2. m.size \in Nat \ {0} /\ Count(m) = (m.size + Full(m) - 1) \div Full(m)
    BY <1>1, <1>3 DEF Count
  <2>3. /\ Count(m) \in Nat \ {0} /\ (Count(m) - 1) * Full(m) < m.size
        /\ m.size <= Count(m) * Full(m)
    BY <2>1, <2>2, DivideUp
  <2>4. m.how = "asyncSendMessage" => Count(m) = 1
    <3>1. SUFFICES ASSUME Full(m) = m.size, Count(m) # 1 PROVE FALSE
      BY DEF Full
    <3>2. Count(m) - 1 \in Nat /\ 1 <= Count(m) - 1
      BY <2>3, <3>1
    <3>3. 1 * Full(m) <= (Count(m) - 1) * Full(m)
      BY <2>1, <3>2, ProductOrder
    <3>4. QED
      BY <1>1, <2>3, <3>1, <3>3
  <2>5. (Count(m) - 1) * Full(m) \in Int
    BY <2>1, <2>3
  <2>6. (Count(m) - 1) * Full(m) <= m.size
    BY <1>1, <2>3, <2>5
  <2>7. QED
    BY <2>1, <2>3, <2>4, <2>6
<1>4. QED
  BY <1>2, <1>3

\* The pieces of m, one by one.
LEMMA PieceFacts ==
  ASSUME NEW m \in Message
  PROVE  /\ Pieces(m) \in Seq(Piece) /\ Len(Pieces(m)) = Count(m)
         /\ \A i \in 1..Count(m) :
              /\ Size(m, i) \in Nat
              /\ (i - 1) * Full(m) \in Nat
              /\ Pieces(m)[i].type = m.type
              /\ Pieces(m)[i].content = Numbers(m.first + (i - 1) * Full(m), Size(m, i))
<1> DEFINE Cut(i) == [type |-> m.type,
                      content |-> Numbers(m.first + (i - 1) * Full(m), Size(m, i))]
<1>1. Pieces(m) = [i \in 1..Count(m) |-> Cut(i)]
  BY DEF Pieces, Count, Full, Size
<1>2. Count(m) \in Nat /\ Full(m) \in Nat /\ m.size - (Count(m) - 1) * Full(m) \in Nat
  BY CountFacts DEF Message
<1>3. ASSUME NEW i \in 1..Count(m)
      PROVE  /\ Size(m, i) \in Nat /\ (i - 1) * Full(m) \in Nat
             /\ Cut(i) \in Piece
  <2>1. Size(m, i) \in Nat
    BY <1>2 DEF Size
  <2>2. i - 1 \in Nat
    BY <1>2
  <2>3. (i - 1) * Full(m) \in Nat
    BY <1>2, <2>2
  <2>4. m.first + (i - 1) * Full(m) \in Nat \ {0}
    BY <2>3 DEF Message
  <2>5. Numbers(m.first + (i - 1) * Full(m), Size(m, i)) \in Seq(Nat)
    BY <2>1, <2>4, NumbersFacts
  <2>6. QED
    BY <2>1, <2>3, <2>5 DEF Piece, Content, Message
<1>4. \A i \in 1..Count(m) :
        /\ Cut(i).type = m.type
        /\ Cut(i).content = Numbers(m.first + (i - 1) * Full(m), Size(m, i))
  OBVIOUS
<1> HIDE DEF Cut
<1>5. Pieces(m) \in Seq(Piece) /\ Len(Pieces(m)) = Count(m)
  BY <1>1, <1>2, <1>3
<1>6. \A i \in 1..Count(m) : Pieces(m)[i] = Cut(i)
  BY <1>1
<1>7. QED
  BY <1>3, <1>4, <1>5, <1>6

\* The next piece takes a whole buffer exactly if more than a buffer is left.
LEMMA LoopTest ==
  ASSUME NEW m \in Message, Full(m) = BUFFER_SIZE, NEW done \in 0..(Count(m) - 1)
  PROVE  /\ m.size - done * BUFFER_SIZE > BUFFER_SIZE =>
              done + 1 < Count(m) /\ Size(m, done + 1) = BUFFER_SIZE
         /\ m.size - done * BUFFER_SIZE <= BUFFER_SIZE =>
              done + 1 = Count(m) /\ Size(m, done + 1) = m.size - done * BUFFER_SIZE
<1>1. /\ Count(m) \in Nat \ {0} /\ BUFFER_SIZE \in Nat \ {0} /\ m.size \in Nat
      /\ (Count(m) - 1) * BUFFER_SIZE <= m.size
      /\ m.size <= Count(m) * BUFFER_SIZE
      /\ m.size # 0 => (Count(m) - 1) * BUFFER_SIZE < m.size
      /\ m.size = 0 => Count(m) = 1
  BY CountFacts, SizesAssumption DEF Message, Count
<1>2. done \in Nat /\ done + 1 \in Nat /\ done * BUFFER_SIZE \in Nat
  BY <1>1
<1>3. (done + 1) * BUFFER_SIZE = done * BUFFER_SIZE + BUFFER_SIZE
  BY <1>1, <1>2
<1>4. CASE done + 1 < Count(m)
  <2>1. Count(m) - 1 \in Nat /\ done + 1 <= Count(m) - 1
    BY <1>1, <1>2, <1>4
  <2>2. (done + 1) * BUFFER_SIZE <= (Count(m) - 1) * BUFFER_SIZE
    BY <1>1, <1>2, <2>1, ProductOrder
  <2>3. m.size # 0
    BY <1>1, <1>2, <1>4
  <2>4. (Count(m) - 1) * BUFFER_SIZE \in Nat
    BY <1>1, <2>1
  <2>5. m.size - done * BUFFER_SIZE > BUFFER_SIZE
    BY <1>1, <1>2, <1>3, <2>2, <2>3, <2>4
  <2>6. Size(m, done + 1) = BUFFER_SIZE
    BY <1>4 DEF Size
  <2>7. QED
    BY <1>1, <1>2, <1>4, <2>5, <2>6
<1>5. CASE ~(done + 1 < Count(m))
  <2>1. done + 1 = Count(m) /\ Count(m) - 1 = done
    BY <1>1, <1>2, <1>5
  <2>2. m.size <= done * BUFFER_SIZE + BUFFER_SIZE
    BY <1>1, <1>3, <2>1
  <2>3. Size(m, done + 1) = m.size - done * BUFFER_SIZE
    BY <1>5, <2>1 DEF Size
  <2>4. QED
    BY <1>1, <1>2, <2>1, <2>2, <2>3
<1>6. QED
  BY <1>4, <1>5
-----------------------------------------------------------------------------
(***************************************************************************)
(* What is to be received.                                                 *)
(***************************************************************************)

\* What is to be received is a sequence of pieces.
LEMMA ExpectedType ==
  ASSUME sent \in Seq(Message)
  PROVE  /\ Expected \in Seq(Piece)
         /\ Len(Expected) \in Nat
         /\ \A i \in 1..Len(Expected) : Expected[i] \in Piece
<1> DEFINE ss == [i \in 1..Len(sent) |-> Pieces(sent[i])]
<1>1. ss \in Seq(Seq(Piece))
  <2>1. Len(sent) \in Nat /\ \A i \in 1..Len(sent) : sent[i] \in Message
    BY LenProperties, ElementOfSeq
  <2>2. \A i \in 1..Len(sent) : Pieces(sent[i]) \in Seq(Piece)
    BY <2>1, PieceFacts
  <2> DEFINE C == Seq(Piece)
  <2>3. \A i \in 1..Len(sent) : Pieces(sent[i]) \in C
    BY <2>2
  <2> HIDE DEF C
  <2>4. ss \in Seq(C)
    BY <2>1, <2>3
  <2>5. QED
    BY <2>4 DEF C
<1>2. Expected = FlattenSeq(ss)
  BY DEF Expected
<1> HIDE DEF ss
<1>3. <<>> \in Seq(Piece)
  OBVIOUS
<1>4. Expected \in Seq(Piece)
  BY <1>1, <1>2, <1>3, FlattenAppend
<1>5. QED
  BY <1>4, LenProperties, ElementOfSeq

\* Nothing is to be received when nothing has been sent.
LEMMA ExpectedEmpty ==
  ASSUME sent = <<>>
  PROVE  Expected = <<>>
<1> DEFINE ss == [i \in 1..Len(sent) |-> Pieces(sent[i])]
<1>1. ss = <<>> /\ Len(ss) = 0
  OBVIOUS
<1>2. Expected = FlattenSeq(ss)
  BY DEF Expected
<1> HIDE DEF ss
<1>3. QED
  BY <1>1, <1>2 DEF FlattenSeq

\* A message more is more pieces at the end.
LEMMA ExpectedGrows ==
  ASSUME sent \in Seq(Message), NEW m \in Message, sent' = Append(sent, m)
  PROVE  Expected' = Expected \o Pieces(m)
<1> DEFINE ss == [i \in 1..Len(sent) |-> Pieces(sent[i])]
           tt == [i \in 1..Len(sent') |-> Pieces(sent'[i])]
           n == Len(sent)
<1>1. /\ n \in Nat /\ sent' \in Seq(Message) /\ Len(sent') = n + 1
      /\ \A i \in 1..n : sent'[i] = sent[i]
      /\ sent'[n + 1] = m
  BY LenProperties, AppendProperties
<1>2. \A i \in 1..n : sent[i] \in Message
  BY ElementOfSeq
<1>3. Pieces(m) \in Seq(Piece) /\ \A i \in 1..n : Pieces(sent[i]) \in Seq(Piece)
  BY <1>2, PieceFacts
<1>4. Expected = FlattenSeq(ss) /\ Expected' = FlattenSeq(tt)
  BY DEF Expected
<1> DEFINE C == Seq(Piece)
<1>5. Pieces(m) \in C /\ \A i \in 1..n : Pieces(sent[i]) \in C
  BY <1>3
<1> HIDE DEF C
<1>6. ss \in Seq(C) /\ Len(ss) = n /\ \A i \in 1..n : ss[i] = Pieces(sent[i])
  BY <1>1, <1>5
<1>7. \A i \in 1..(n + 1) : Pieces(sent'[i]) \in C
  BY <1>1, <1>5
<1>8. /\ tt \in Seq(C) /\ Len(tt) = n + 1
      /\ \A i \in 1..(n + 1) : tt[i] = Pieces(sent'[i])
  BY <1>1, <1>7
<1> HIDE DEF ss, tt, n
<1>9. /\ Append(ss, Pieces(m)) \in Seq(C) /\ Len(Append(ss, Pieces(m))) = n + 1
      /\ \A i \in 1..n : Append(ss, Pieces(m))[i] = ss[i]
      /\ Append(ss, Pieces(m))[n + 1] = Pieces(m)
  BY <1>5, <1>6, AppendProperties
<1>10. \A i \in 1..(n + 1) : tt[i] = Append(ss, Pieces(m))[i]
  BY <1>1, <1>6, <1>8, <1>9
<1>11. tt = Append(ss, Pieces(m))
  BY <1>8, <1>9, <1>10, SeqEqual
<1>12. ss \in Seq(Seq(Piece))
  BY <1>6 DEF C
<1>13. FlattenSeq(Append(ss, Pieces(m))) = FlattenSeq(ss) \o Pieces(m)
  BY <1>3, <1>12, FlattenAppend
<1>14. QED
  BY <1>4, <1>11, <1>13
-----------------------------------------------------------------------------
(***************************************************************************)
(* The stream of units.                                                    *)
(***************************************************************************)

\* Units of the stream.
Unit == [unit : {"header"}, type : Nat, message_size : Nat]
          \cup [unit : {"byte"}, n : Nat]

\* Where a unit belongs: at = 0 is the header of a piece, at = i its byte i.
Places == [piece : Nat, at : Nat]
Place(piece, at) == [piece |-> piece, at |-> at]

\* The unit at place w of the stream that carries the pieces e.
UnitAt(e, w) ==
  IF w.at = 0 THEN Header(e[w.piece].type, Len(e[w.piece].content))
              ELSE Byte(e[w.piece].content[w.at])

\* The place after w.
After(e, w) ==
  IF w.at < Len(e[w.piece].content) THEN Place(w.piece, w.at + 1)
                                    ELSE Place(w.piece + 1, 0)

\* w is a place in the stream that carries e.
Within(e, w) == w.piece \in 1..Len(e) /\ w.at \in 0..Len(e[w.piece].content)

\* The units q are those at the places path, which follow each other.
Along(e, q, path) ==
  \A i \in 1..Len(q) : /\ Within(e, path[i])
                       /\ q[i] = UnitAt(e, path[i])
                       /\ path[i + 1] = After(e, path[i])

\* q are the units from one place of the stream up to, but without, another.
Carries(e, q, from, to) ==
  \E path \in [1..(Len(q) + 1) -> Places] :
    /\ path[1] = from
    /\ path[Len(q) + 1] = to
    /\ Along(e, q, path)

\* The first unit in flight is the one at the first place.
LEMMA CarriesFirst ==
  ASSUME NEW e, NEW q \in Seq(Unit), NEW from, NEW to, Carries(e, q, from, to), q # <<>>
  PROVE  /\ Within(e, from) /\ Head(q) = UnitAt(e, from)
         /\ Carries(e, Tail(q), After(e, from), to)
<1>1. PICK path \in [1..(Len(q) + 1) -> Places] :
        path[1] = from /\ path[Len(q) + 1] = to /\ Along(e, q, path)
  BY DEF Carries
<1> DEFINE n == Len(q)
           rest == [i \in 1..n |-> path[i + 1]]
<1>2. /\ n \in Nat \ {0} /\ Head(q) = q[1] /\ Tail(q) \in Seq(Unit)
      /\ Len(Tail(q)) = n - 1
      /\ \A i \in 1..(n - 1) : Tail(q)[i] = q[i + 1]
  BY EmptySeq, HeadTailProperties
<1>3. \A i \in 1..n : /\ Within(e, path[i])
                      /\ q[i] = UnitAt(e, path[i])
                      /\ path[i + 1] = After(e, path[i])
  BY <1>1 DEF Along
<1>4. path \in [1..(n + 1) -> Places]
  BY <1>1
<1> HIDE DEF n
<1>5. rest \in [1..n -> Places] /\ \A i \in 1..n : rest[i] = path[i + 1]
  BY <1>2, <1>4
<1> HIDE DEF rest
<1>6. 1 \in 1..n /\ n \in 1..n
  BY <1>2
<1>7. Within(e, from) /\ Head(q) = UnitAt(e, from) /\ rest[1] = After(e, from)
  BY <1>1, <1>2, <1>3, <1>5, <1>6
<1>8. rest[n] = to
  BY <1>1, <1>5, <1>6 DEF n
<1>9. \A i \in 1..(n - 1) : /\ Within(e, rest[i])
                            /\ Tail(q)[i] = UnitAt(e, rest[i])
                            /\ rest[i + 1] = After(e, rest[i])
  <2>1. TAKE i \in 1..(n - 1)
  <2>2. i \in 1..n /\ i + 1 \in 1..n
    BY <1>2
  <2>3. rest[i] = path[i + 1] /\ rest[i + 1] = path[(i + 1) + 1] /\ Tail(q)[i] = q[i + 1]
    BY <1>2, <1>5, <2>2
  <2>4. QED
    BY <1>3, <2>2, <2>3
<1>10. Along(e, Tail(q), rest)
  BY <1>2, <1>9 DEF Along
<1>11. Len(Tail(q)) + 1 = n
  BY <1>2
<1>12. rest \in [1..(Len(Tail(q)) + 1) -> Places] /\ rest[Len(Tail(q)) + 1] = to
  BY <1>5, <1>8, <1>11
<1>13. Carries(e, Tail(q), After(e, from), to)
  BY <1>7, <1>10, <1>12 DEF Carries
<1>14. QED
  BY <1>7, <1>13

\* Pieces more change nothing about the units of those before.
LEMMA CarriesGrown ==
  ASSUME NEW e \in Seq(Piece), NEW x \in Seq(Piece), NEW q, NEW from, NEW to,
         Carries(e, q, from, to)
  PROVE  Carries(e \o x, q, from, to)
<1>1. PICK path \in [1..(Len(q) + 1) -> Places] :
        path[1] = from /\ path[Len(q) + 1] = to /\ Along(e, q, path)
  BY DEF Carries
<1>2. /\ Len(e) \in Nat /\ Len(e \o x) \in Nat /\ Len(e) <= Len(e \o x)
      /\ \A i \in 1..Len(e) : (e \o x)[i] = e[i] /\ i \in 1..Len(e \o x)
  BY ConcatProperties, LenProperties
<1>3. ASSUME NEW w, Within(e, w)
      PROVE  /\ Within(e \o x, w) /\ UnitAt(e \o x, w) = UnitAt(e, w)
             /\ After(e \o x, w) = After(e, w)
  <2>1. (e \o x)[w.piece] = e[w.piece] /\ w.piece \in 1..Len(e \o x)
    BY <1>2, <1>3 DEF Within
  <2>2. QED
    BY <1>3, <2>1 DEF Within, UnitAt, After
<1>4. Along(e \o x, q, path)
  BY <1>1, <1>3 DEF Along
<1>5. QED
  BY <1>1, <1>4 DEF Carries

\* The whole chunk of piece j takes q from its first place to that of the next.
LEMMA CarriesChunk ==
  ASSUME NEW e, NEW q \in Seq(Unit), NEW from, NEW j \in 1..Len(e), Len(e) \in Nat,
         NEW chunk \in Seq(Unit), NEW size \in Nat,
         Len(e[j].content) = size, Len(chunk) = size + 1,
         \A i \in 1..(size + 1) : chunk[i] = UnitAt(e, Place(j, i - 1)),
         Carries(e, q, from, Place(j, 0))
  PROVE  Carries(e, q \o chunk, from, Place(j + 1, 0))
<1>1. PICK path \in [1..(Len(q) + 1) -> Places] :
        path[1] = from /\ path[Len(q) + 1] = Place(j, 0) /\ Along(e, q, path)
  BY DEF Carries
<1> DEFINE n == Len(q)
           l == n + size + 1
           new == [i \in 1..(l + 1) |-> IF i <= n THEN path[i]
                                        ELSE IF i <= l THEN Place(j, i - n - 1)
                                        ELSE Place(j + 1, 0)]
<1>2. /\ n \in Nat /\ l \in Nat /\ q \o chunk \in Seq(Unit) /\ Len(q \o chunk) = l
      /\ \A i \in 1..n : (q \o chunk)[i] = q[i]
      /\ \A i \in 1..l : i > n => (q \o chunk)[i] = chunk[i - n]
  <2>1. n \in Nat
    OBVIOUS
  <2>2. /\ q \o chunk \in Seq(Unit) /\ Len(q \o chunk) = Len(q) + Len(chunk)
        /\ \A i \in 1..Len(q) : (q \o chunk)[i] = q[i]
        /\ \A i \in 1..(Len(q) + Len(chunk)) :
             i > Len(q) => (q \o chunk)[i] = chunk[i - Len(q)]
    BY ConcatSplit, Zenon
  <2>3. l = Len(q) + Len(chunk) /\ l \in Nat
    BY <2>1
  <2> HIDE DEF l
  <2>4. QED
    BY <2>1, <2>2, <2>3, Zenon
<1>3. path \in [1..(n + 1) -> Places] /\ path[n + 1] = Place(j, 0)
  BY <1>1
<1>4. \A i \in 1..n : /\ Within(e, path[i]) /\ q[i] = UnitAt(e, path[i])
                      /\ path[i + 1] = After(e, path[i])
  BY <1>1 DEF Along
<1> HIDE DEF n
<1>5. new \in [1..(l + 1) -> Places]
  <2>1. \A i \in 1..(l + 1) : i <= n => path[i] \in Places
    BY <1>2, <1>3
  <2>2. \A i \in 1..(l + 1) : ~(i <= n) => Place(j, i - n - 1) \in Places
    BY <1>2 DEF Place, Places
  <2>3. Place(j + 1, 0) \in Places
    BY DEF Place, Places
  <2>4. QED
    BY <2>1, <2>2, <2>3
<1>6. /\ \A i \in 1..(l + 1) : i <= n => new[i] = path[i]
      /\ \A i \in 1..(l + 1) : ~(i <= n) /\ i <= l => new[i] = Place(j, i - n - 1)
      /\ new[l + 1] = Place(j + 1, 0)
  BY <1>2
<1>7. l = n + size + 1
  OBVIOUS
<1> HIDE DEF new, l
<1>8. new[n + 1] = Place(j, 0)
  <2>1. n + 1 \in 1..(l + 1) /\ ~(n + 1 <= n) /\ n + 1 <= l /\ (n + 1) - n - 1 = 0
    BY <1>2, <1>7
  <2>2. QED
    BY <1>6, <2>1
<1>9. \A i \in 1..(n + 1) : new[i] = path[i]
  <2>1. TAKE i \in 1..(n + 1)
  <2>2. CASE i <= n
    <3>1. i \in 1..(l + 1)
      BY <1>2, <1>7
    <3>2. QED
      BY <1>6, <2>2, <3>1
  <2>3. CASE ~(i <= n)
    <3>1. i = n + 1
      BY <1>2, <2>3
    <3>2. QED
      BY <1>3, <1>8, <3>1
  <2>4. QED
    BY <2>2, <2>3
<1>10. ASSUME NEW i \in 1..l
       PROVE  /\ Within(e, new[i]) /\ (q \o chunk)[i] = UnitAt(e, new[i])
              /\ new[i + 1] = After(e, new[i])
  <2>1. CASE i <= n
    <3>1. i \in 1..n /\ new[i] = path[i] /\ new[i + 1] = path[i + 1]
      BY <1>2, <1>9, <2>1
    <3>2. QED
      BY <1>2, <1>4, <3>1
  <2>2. CASE i > n
    <3> DEFINE k == i - n
    <3>1. /\ k \in 1..(size + 1) /\ k - 1 \in 0..size /\ i - n - 1 = k - 1
          /\ i \in 1..(l + 1) /\ ~(i <= n) /\ i <= l
      BY <1>2, <1>7, <2>2
    <3>2. new[i] = Place(j, k - 1) /\ (q \o chunk)[i] = chunk[k]
      BY <1>2, <1>6, <2>2, <3>1
    <3>3. chunk[k] = UnitAt(e, Place(j, k - 1))
      BY <3>1
    <3>4. Within(e, Place(j, k - 1))
      BY <3>1 DEF Within, Place
    <3>5. new[i + 1] = After(e, Place(j, k - 1))
      <4>1. CASE i < l
        <5>1. /\ i + 1 \in 1..(l + 1) /\ ~(i + 1 <= n) /\ i + 1 <= l
              /\ (i + 1) - n - 1 = k /\ k - 1 < size /\ (k - 1) + 1 = k
          BY <1>2, <1>7, <2>2, <4>1
        <5>2. new[i + 1] = Place(j, k)
          BY <1>6, <5>1
        <5>3. After(e, Place(j, k - 1)) = Place(j, k)
          BY <5>1 DEF After, Place
        <5>4. QED
          BY <5>2, <5>3
      <4>2. CASE i = l
        <5>1. i + 1 = l + 1 /\ k - 1 = size
          <6>1. i - n - 1 = size
            BY <1>2, <1>7, <4>2
          <6>2. QED
            BY <3>1, <4>2, <6>1
        <5>2. After(e, Place(j, k - 1)) = Place(j + 1, 0)
          BY <5>1 DEF After, Place
        <5>3. QED
          BY <1>6, <5>1, <5>2
      <4>3. QED
        BY <1>2, <4>1, <4>2
    <3>6. QED
      BY <3>2, <3>3, <3>4, <3>5
  <2>3. QED
    BY <1>2, <2>1, <2>2
<1>11. Along(e, q \o chunk, new)
  BY <1>2, <1>10 DEF Along
<1>12. new[1] = from
  BY <1>1, <1>2, <1>9
<1>13. QED
  BY <1>2, <1>5, <1>6, <1>11, <1>12 DEF Carries

\* A chunk is a header and the bytes it announces.
LEMMA ChunkType ==
  ASSUME NEW type \in Nat, NEW first \in Nat \ {0}, NEW size \in Nat
  PROVE  /\ Chunk(type, first, size) \in Seq(Unit)
         /\ Len(Chunk(type, first, size)) = size + 1
         /\ Chunk(type, first, size)[1] = Header(type, size)
         /\ \A i \in 1..size : Chunk(type, first, size)[1 + i] = Byte(first + i - 1)
<1> DEFINE header == <<Header(type, size)>>
           bytes == [i \in 1..size |-> Byte(first + i - 1)]
<1>1. header \in Seq(Unit) /\ Len(header) = 1 /\ header[1] = Header(type, size)
  BY DEF Unit, Header
<1>2. /\ bytes \in Seq(Unit) /\ Len(bytes) = size
      /\ \A i \in 1..size : bytes[i] = Byte(first + i - 1)
  <2>1. \A i \in 1..size : Byte(first + i - 1) \in Unit
    BY DEF Unit, Byte
  <2>2. QED
    BY <2>1
<1>3. Chunk(type, first, size) = header \o bytes
  BY DEF Chunk
<1> HIDE DEF header, bytes
<1>4. header \in Seq(Unit) /\ bytes \in Seq(Unit)
  BY <1>1, <1>2
<1>5. /\ header \o bytes \in Seq(Unit)
      /\ Len(header \o bytes) = Len(header) + Len(bytes)
      /\ \A i \in 1..Len(header) : (header \o bytes)[i] = header[i]
      /\ \A i \in 1..Len(bytes) : (header \o bytes)[Len(header) + i] = bytes[i]
  BY <1>4, ConcatParts
<1>6. QED
  BY <1>1, <1>2, <1>3, <1>5

\* The same, unit by unit, for every chunk.
LEMMA ChunkUnits ==
  \A type \in Nat, first \in Nat \ {0}, size \in Nat :
    /\ Chunk(type, first, size)[1] = Header(type, size)
    /\ \A i \in 1..size : Chunk(type, first, size)[1 + i] = Byte(first + i - 1)
<1>1. TAKE type \in Nat, first \in Nat \ {0}, size \in Nat
<1>2. QED
  BY ChunkType

\* The units of the chunk that carries a piece.
LEMMA ChunkFacts ==
  ASSUME NEW e \in Seq(Piece), NEW j \in 1..Len(e),
         NEW type \in Nat, NEW first \in Nat \ {0}, NEW size \in Nat,
         e[j].type = type, e[j].content = Numbers(first, size)
  PROVE  /\ Len(e[j].content) = size
         /\ \A i \in 1..(size + 1) :
              Chunk(type, first, size)[i] = UnitAt(e, Place(j, i - 1))
<1> DEFINE chunk == Chunk(type, first, size)
<1>1. /\ chunk[1] = Header(type, size)
      /\ \A i \in 1..size : chunk[1 + i] = Byte(first + i - 1)
  BY ChunkUnits, Zenon
<1>2. /\ Len(e[j].content) = size
      /\ \A i \in 1..size : e[j].content[i] = first + i - 1
  BY NumbersFacts
<1> HIDE DEF chunk
<1>3. ASSUME NEW i \in 1..(size + 1)
      PROVE  chunk[i] = UnitAt(e, Place(j, i - 1))
  <2>1. CASE i = 1
    BY <1>1, <1>2, <2>1 DEF UnitAt, Place
  <2>2. CASE i # 1
    <3>1. i - 1 \in 1..size /\ 1 + (i - 1) = i
      BY <2>2
    <3>2. chunk[i] = Byte(first + (i - 1) - 1)
      BY <1>1, <3>1
    <3>3. UnitAt(e, Place(j, i - 1)) = Byte(first + (i - 1) - 1)
      BY <1>2, <3>1 DEF UnitAt, Place
    <3>4. QED
      BY <3>2, <3>3
  <2>3. QED
    BY <2>1, <2>2
<1>4. QED
  BY <1>2, <1>3 DEF chunk
-----------------------------------------------------------------------------
(***************************************************************************)
(* The inductive invariant. ReceivedAsSent does not say what is on its     *)
(* way; InFlight does: the units in flight and still to be written are the *)
(* stretch of the stream between the reader and the sender.                *)
(***************************************************************************)

\* The values every variable takes.
TypeInv ==
  /\ sent \in Seq(Message)
  /\ sending \in [active : BOOLEAN, message_length : Nat, ptr_cursor : Nat]
  /\ writing \in Seq(Unit)
  /\ wire \in Seq(Unit)
  /\ reader \in [step : {"header", "content", "closed"}, type : Nat,
                 message_size : Nat, content : Content]
  /\ received \in Seq(Piece)

\* The place of the unit that the reader is to read next.
ReaderPlace ==
  IF reader.step = "content"
    THEN After(Expected, Place(Len(received) + 1, Len(reader.content)))
    ELSE Place(Len(received) + 1, 0)

\* What has been received is the beginning of what is to be received.
Received ==
  /\ Len(received) <= Len(Expected)
  /\ \A i \in 1..Len(received) : received[i] = Expected[i]

\* The piece the reader is to receive next.
NextPiece == Expected[Len(received) + 1]

\* A reader in a message is in the next piece: it waits for as many bytes as that
\* has, and has read that piece's.
Reading ==
  reader.step = "content" =>
    /\ Len(received) < Len(Expected)
    /\ reader.type = NextPiece.type
    /\ reader.message_size = Len(NextPiece.content)
    /\ Len(reader.content) <= Len(NextPiece.content)
    /\ \A i \in 1..Len(reader.content) : reader.content[i] = NextPiece.content[i]

\* A header that was refused was that of the next piece, and refused for cause.
Refused ==
  reader.step = "closed" =>
    /\ Len(received) < Len(Expected)
    /\ NextPiece.type > MAX_VALUE \/ Len(NextPiece.content) > max_message_size

\* The chunks of the first cut pieces have been given to the connection, and what
\* is left of the message in send are the pieces after them.
Cutting(cut) ==
  IF ~sending.active THEN cut = Len(Expected)
  ELSE LET m == Last(sent) IN
    /\ sent # <<>> /\ m.how = "send"
    /\ \E done \in 0..(Count(m) - 1) :
         /\ sending.ptr_cursor = done * BUFFER_SIZE
         /\ sending.message_length = m.size - done * BUFFER_SIZE
         /\ cut + (Count(m) - done) = Len(Expected)
         /\ \A i \in (done + 1)..Count(m) : Expected[cut - done + i] = Pieces(m)[i]

\* What is in flight and still to be written are the units from the reader on up
\* to the end of the piece cut.
InFlight(cut) ==
  reader.step # "closed" =>
    Carries(Expected, wire \o writing, ReaderPlace, Place(cut + 1, 0))

\* The inductive invariant.
IInv ==
  /\ TypeInv
  /\ Received
  /\ Reading
  /\ Refused
  /\ \E cut \in Nat : Cutting(cut) /\ InFlight(cut)

\* The invariant holds initially.
LEMMA InvInit == Init => IInv
<1> SUFFICES ASSUME Init PROVE IInv
  OBVIOUS
<1>1. TypeInv
  BY DEF Init, TypeInv, NotSending, Waiting, Content
<1>2. Expected = <<>>
  BY ExpectedEmpty DEF Init
<1>3. Received /\ Reading /\ Refused /\ Cutting(0)
  BY <1>2 DEF Init, Received, Reading, Refused, Cutting, NotSending, Waiting
<1>4. Carries(<<>>, <<>>, Place(1, 0), Place(1, 0))
  <2> DEFINE path == [i \in 1..1 |-> Place(1, 0)]
  <2>1. path \in [1..1 -> Places] /\ path[1] = Place(1, 0)
    BY DEF Places, Place
  <2> HIDE DEF path
  <2>2. Len(<<>>) = 0 /\ Along(<<>>, <<>>, path)
    BY DEF Along
  <2>3. QED
    BY <2>1, <2>2 DEF Carries
<1>5. /\ wire \o writing = <<>> /\ ReaderPlace = Place(1, 0)
      /\ Expected = <<>> /\ Place(0 + 1, 0) = Place(1, 0)
  BY <1>2 DEF Init, ReaderPlace, Waiting
<1>6. InFlight(0)
  BY <1>4, <1>5 DEF InFlight
<1>7. QED
  BY <1>1, <1>3, <1>6 DEF IInv
-----------------------------------------------------------------------------
(***************************************************************************)
(* The sender's steps.                                                     *)
(***************************************************************************)

\* What the reader has done stays right when more is to come.
LEMMA ReaderKeeps ==
  ASSUME IInv, NEW x \in Seq(Piece), Expected' = Expected \o x,
         UNCHANGED <<reader, received>>
  PROVE  Received' /\ Reading' /\ Refused' /\ ReaderPlace' = ReaderPlace
<1>1. sent \in Seq(Message) /\ received \in Seq(Piece)
  BY DEF IInv, TypeInv
<1>2. Expected \in Seq(Piece) /\ Len(Expected) \in Nat
  BY <1>1, ExpectedType
<1>3. /\ Len(Expected') \in Nat /\ Len(Expected) <= Len(Expected')
      /\ \A i \in 1..Len(Expected) : Expected'[i] = Expected[i]
  BY <1>2, ConcatProperties, LenProperties
<1>4. Len(received) \in Nat /\ Len(received') = Len(received)
  BY <1>1
<1>5. Len(received) < Len(Expected) => NextPiece' = NextPiece
  <2>1. SUFFICES ASSUME Len(received) < Len(Expected) PROVE NextPiece' = NextPiece
    OBVIOUS
  <2>2. Len(received) + 1 \in 1..Len(Expected)
    BY <1>2, <1>4, <2>1
  <2>3. QED
    BY <1>3, <2>2 DEF NextPiece
<1>6. Received'
  BY <1>2, <1>3, <1>4 DEF IInv, Received
<1>7. Reading'
  BY <1>2, <1>3, <1>4, <1>5 DEF IInv, Reading
<1>8. Refused'
  BY <1>2, <1>3, <1>4, <1>5 DEF IInv, Refused, max_message_size
<1>9. ReaderPlace' = ReaderPlace
  <2>1. CASE reader.step = "content"
    <3>1. Len(received) < Len(Expected)
      BY <2>1 DEF IInv, Reading
    <3>2. Expected'[Len(received) + 1] = Expected[Len(received) + 1]
      BY <1>5, <3>1 DEF NextPiece
    <3>3. QED
      BY <2>1, <3>2 DEF ReaderPlace, After, Place
  <2>2. CASE reader.step # "content"
    BY <2>2 DEF ReaderPlace
  <2>3. QED
    BY <2>1, <2>2
<1>10. QED
  BY <1>6, <1>7, <1>8, <1>9

\* A step that leaves the history and the reader alone.
LEMMA SenderKeeps ==
  ASSUME IInv, UNCHANGED <<sent, reader, received>>
  PROVE  /\ Expected' = Expected /\ Received' /\ Reading' /\ Refused'
         /\ ReaderPlace' = ReaderPlace
<1>1. Expected' = Expected
  BY DEF Expected
<1>2. QED
  BY <1>1 DEF IInv, Received, Reading, Refused, NextPiece, ReaderPlace, max_message_size

\* A message more.
LEMMA NewMessageFacts ==
  ASSUME IInv, NEW type \in Type, NEW size \in Nat,
         NEW how \in {"send", "asyncSendMessage"}, NewMessage(type, size, how),
         NEW m, m = [type |-> type, first |-> NextByte, size |-> size, how |-> how]
  PROVE  /\ m \in Message /\ sent' \in Seq(Message) /\ sent' # <<>> /\ Last(sent') = m
         /\ Pieces(m) \in Seq(Piece) /\ Expected' = Expected \o Pieces(m)
         /\ Len(Expected') = Len(Expected) + Count(m)
         /\ \A i \in 1..Count(m) : Expected'[Len(Expected) + i] = Pieces(m)[i]
         /\ ~sending.active /\ writing = <<>>
<1>1. sent \in Seq(Message)
  BY DEF IInv, TypeInv
<1>2. type \in Nat
  BY SizesAssumption DEF Type
<1>3. NextByte \in Nat \ {0}
  <2>1. CASE sent = <<>>
    BY <2>1 DEF NextByte
  <2>2. CASE sent # <<>>
    <3>1. Last(sent) \in Message
      BY <1>1, <2>2 DEF Last
    <3>2. QED
      BY <2>2, <3>1 DEF NextByte, Message
  <2>3. QED
    BY <2>1, <2>2
<1>4. m \in Message
  BY <1>2, <1>3 DEF Message
<1>5. sent' = Append(sent, m) /\ ~sending.active /\ writing = <<>>
  BY DEF NewMessage
<1>6. /\ sent' \in Seq(Message) /\ Len(sent') = Len(sent) + 1
      /\ sent'[Len(sent) + 1] = m /\ Len(sent) \in Nat
  BY <1>1, <1>4, <1>5, AppendProperties
<1>7. sent' # <<>> /\ Last(sent') = m
  BY <1>6 DEF Last
<1>8. /\ Pieces(m) \in Seq(Piece) /\ Len(Pieces(m)) = Count(m)
      /\ Count(m) \in Nat
  BY <1>4, PieceFacts, CountFacts
<1>9. Expected' = Expected \o Pieces(m)
  BY <1>1, <1>4, <1>5, ExpectedGrows
<1>10. Expected \in Seq(Piece) /\ Len(Expected) \in Nat
  BY <1>1, ExpectedType
<1>11. /\ Len(Expected \o Pieces(m)) = Len(Expected) + Count(m)
       /\ \A i \in 1..Count(m) : (Expected \o Pieces(m))[Len(Expected) + i] = Pieces(m)[i]
  <2>1. /\ Len(Expected \o Pieces(m)) = Len(Expected) + Len(Pieces(m))
        /\ \A i \in 1..Len(Pieces(m)) :
             (Expected \o Pieces(m))[Len(Expected) + i] = Pieces(m)[i]
    BY <1>8, <1>10, ConcatParts
  <2>2. QED
    BY <1>8, <2>1
<1>12. QED
  BY <1>4, <1>5, <1>6, <1>7, <1>8, <1>9, <1>11

\* A chunk that is given to the connection is the one of the next piece.
LEMMA ChunkStarts ==
  ASSUME TypeInv, NEW e \in Seq(Piece), NEW j \in 1..Len(e), NEW from,
         NEW type \in Nat, NEW first \in Nat \ {0}, NEW size \in Nat,
         e[j].type = type, e[j].content = Numbers(first, size),
         writing = <<>>, writing' = Chunk(type, first, size), wire' = wire,
         Carries(e, wire \o writing, from, Place(j, 0))
  PROVE  Carries(e, wire' \o writing', from, Place(j + 1, 0))
<1>1. wire \in Seq(Unit) /\ wire \o writing = wire
  BY DEF TypeInv
<1>2. /\ Chunk(type, first, size) \in Seq(Unit)
      /\ Len(Chunk(type, first, size)) = size + 1
  BY ChunkType
<1>7. /\ Len(e[j].content) = size
      /\ \A i \in 1..(size + 1) :
            Chunk(type, first, size)[i] = UnitAt(e, Place(j, i - 1))
  BY ChunkFacts
<1>3. Len(e) \in Nat
  BY LenProperties
<1>4. Carries(e, wire, from, Place(j, 0))
  BY <1>1
<1>5. Carries(e, wire \o Chunk(type, first, size), from, Place(j + 1, 0))
  BY <1>1, <1>2, <1>7, <1>3, <1>4, CarriesChunk
<1>6. QED
  BY <1>5

\* Where the sender is in the message it cuts.
LEMMA CuttingFacts ==
  ASSUME TypeInv, NEW cut \in Nat, Cutting(cut), sending.active, NEW m, m = Last(sent)
  PROVE  /\ m \in Message /\ m.how = "send" /\ Full(m) = BUFFER_SIZE
         /\ Expected \in Seq(Piece) /\ cut + 1 \in 1..Len(Expected)
         /\ \E done \in 0..(Count(m) - 1) :
              /\ sending.ptr_cursor = done * BUFFER_SIZE
              /\ sending.message_length = m.size - done * BUFFER_SIZE
              /\ cut + (Count(m) - done) = Len(Expected)
              /\ \A i \in (done + 1)..Count(m) : Expected[cut - done + i] = Pieces(m)[i]
              /\ done * BUFFER_SIZE \in Nat
              /\ m.first + done * BUFFER_SIZE \in Nat \ {0}
              /\ Size(m, done + 1) \in Nat
              /\ Expected[cut + 1].type = m.type
              /\ Expected[cut + 1].content =
                   Numbers(m.first + done * BUFFER_SIZE, Size(m, done + 1))
<1>1. /\ sent # <<>> /\ m.how = "send"
      /\ \E done \in 0..(Count(m) - 1) :
           /\ sending.ptr_cursor = done * BUFFER_SIZE
           /\ sending.message_length = m.size - done * BUFFER_SIZE
           /\ cut + (Count(m) - done) = Len(Expected)
           /\ \A i \in (done + 1)..Count(m) : Expected[cut - done + i] = Pieces(m)[i]
  BY DEF Cutting
<1>2. m \in Message /\ sent \in Seq(Message)
  BY <1>1 DEF TypeInv, Last
<1>3. Full(m) = BUFFER_SIZE /\ Count(m) \in Nat \ {0}
  BY <1>1, <1>2, CountFacts DEF Full
<1>4. Expected \in Seq(Piece) /\ Len(Expected) \in Nat
  BY <1>2, ExpectedType
<1>5. PICK done \in 0..(Count(m) - 1) :
        /\ sending.ptr_cursor = done * BUFFER_SIZE
        /\ sending.message_length = m.size - done * BUFFER_SIZE
        /\ cut + (Count(m) - done) = Len(Expected)
        /\ \A i \in (done + 1)..Count(m) : Expected[cut - done + i] = Pieces(m)[i]
  BY <1>1
<1>6. /\ done + 1 \in (done + 1)..Count(m) /\ done + 1 \in 1..Count(m)
      /\ cut - done + (done + 1) = cut + 1 /\ (done + 1) - 1 = done
      /\ cut + 1 \in 1..Len(Expected)
  BY <1>3, <1>4, <1>5
<1>7. Expected[cut + 1] = Pieces(m)[done + 1]
  BY <1>5, <1>6
<1>8. /\ Size(m, done + 1) \in Nat
      /\ ((done + 1) - 1) * Full(m) \in Nat
      /\ Pieces(m)[done + 1].type = m.type
      /\ Pieces(m)[done + 1].content =
           Numbers(m.first + ((done + 1) - 1) * Full(m), Size(m, done + 1))
  BY <1>2, <1>6, PieceFacts
<1>9. ((done + 1) - 1) * Full(m) = done * BUFFER_SIZE
  BY <1>3, <1>6
<1>10. m.first + done * BUFFER_SIZE \in Nat \ {0}
  BY <1>2, <1>8, <1>9 DEF Message
<1>11. /\ done * BUFFER_SIZE \in Nat
       /\ Expected[cut + 1].type = m.type
       /\ Expected[cut + 1].content =
            Numbers(m.first + done * BUFFER_SIZE, Size(m, done + 1))
  BY <1>7, <1>8, <1>9
<1>12. \E d \in 0..(Count(m) - 1) :
         /\ sending.ptr_cursor = d * BUFFER_SIZE
         /\ sending.message_length = m.size - d * BUFFER_SIZE
         /\ cut + (Count(m) - d) = Len(Expected)
         /\ \A i \in (d + 1)..Count(m) : Expected[cut - d + i] = Pieces(m)[i]
         /\ d * BUFFER_SIZE \in Nat
         /\ m.first + d * BUFFER_SIZE \in Nat \ {0}
         /\ Size(m, d + 1) \in Nat
         /\ Expected[cut + 1].type = m.type
         /\ Expected[cut + 1].content = Numbers(m.first + d * BUFFER_SIZE, Size(m, d + 1))
  BY <1>5, <1>8, <1>10, <1>11, Zenon
<1>13. QED
  BY <1>1, <1>2, <1>3, <1>4, <1>6, <1>12, Zenon

\* send takes a message of which no piece is cut.
LEMMA SendStep ==
  ASSUME IInv, NEW type \in Type, NEW size \in Nat, send(type, size)
  PROVE  IInv'
<1> DEFINE m == [type |-> type, first |-> NextByte, size |-> size, how |-> "send"]
<1>1. NewMessage(type, size, "send")
  BY DEF send
<1>2. /\ m \in Message /\ sent' \in Seq(Message) /\ sent' # <<>> /\ Last(sent') = m
      /\ Pieces(m) \in Seq(Piece) /\ Expected' = Expected \o Pieces(m)
      /\ Len(Expected') = Len(Expected) + Count(m)
      /\ \A i \in 1..Count(m) : Expected'[Len(Expected) + i] = Pieces(m)[i]
      /\ ~sending.active /\ writing = <<>>
  BY <1>1, NewMessageFacts
<1>3. m.size = size /\ m.how = "send"
  OBVIOUS
<1> HIDE DEF m
<1>4. /\ sending' = [active |-> TRUE, message_length |-> size, ptr_cursor |-> 0]
      /\ UNCHANGED <<writing, wire, reader, received>>
  BY DEF send
<1>5. TypeInv'
  BY <1>2, <1>4 DEF IInv, TypeInv
<1>6. Received' /\ Reading' /\ Refused' /\ ReaderPlace' = ReaderPlace
  BY <1>2, <1>4, ReaderKeeps
<1>7. PICK cut \in Nat : Cutting(cut) /\ InFlight(cut)
  BY DEF IInv
<1>8. cut = Len(Expected) /\ Count(m) \in Nat \ {0}
  BY <1>2, <1>7, CountFacts DEF Cutting
<1>9. Cutting(cut)'
  <2>1. 0 \in 0..(Count(m) - 1)
    BY <1>8
  <2>2. 0 * BUFFER_SIZE = 0
    BY SizesAssumption
  <2>3. sending'.ptr_cursor = 0 * BUFFER_SIZE
    BY <1>4, <2>2
  <2>4. sending'.message_length = m.size - 0 * BUFFER_SIZE
    BY <1>3, <1>4, <2>2
  <2>5. cut + (Count(m) - 0) = Len(Expected')
    BY <1>2, <1>8
  <2>6. \A i \in (0 + 1)..Count(m) : Expected'[cut - 0 + i] = Pieces(m)[i]
    BY <1>2, <1>8
  <2>7. \E done \in 0..(Count(m) - 1) :
          /\ sending'.ptr_cursor = done * BUFFER_SIZE
          /\ sending'.message_length = m.size - done * BUFFER_SIZE
          /\ cut + (Count(m) - done) = Len(Expected')
          /\ \A i \in (done + 1)..Count(m) : Expected'[cut - done + i] = Pieces(m)[i]
    BY <2>1, <2>3, <2>4, <2>5, <2>6
  <2>8. QED
    BY <1>2, <1>3, <1>4, <2>7 DEF Cutting
<1>10. InFlight(cut)'
  <2>1. SUFFICES ASSUME reader.step # "closed"
                 PROVE  Carries(Expected', wire \o writing, ReaderPlace, Place(cut + 1, 0))
    BY <1>4, <1>6 DEF InFlight
  <2>2. Carries(Expected, wire \o writing, ReaderPlace, Place(cut + 1, 0))
    BY <1>7, <2>1 DEF InFlight
  <2>3. Expected \in Seq(Piece)
    BY ExpectedType DEF IInv, TypeInv
  <2>4. QED
    BY <1>2, <2>2, <2>3, CarriesGrown
<1>11. QED
  BY <1>5, <1>6, <1>7, <1>9, <1>10 DEF IInv

\* asyncSendMessage gives the connection the one piece of its message at once.
LEMMA AsyncSendStep ==
  ASSUME IInv, NEW type \in Type, NEW size \in Nat, asyncSendMessage(type, size)
  PROVE  IInv'
<1> DEFINE m == [type |-> type, first |-> NextByte, size |-> size,
                 how |-> "asyncSendMessage"]
<1>1. NewMessage(type, size, "asyncSendMessage")
  BY DEF asyncSendMessage
<1>2. /\ m \in Message /\ sent' \in Seq(Message) /\ sent' # <<>> /\ Last(sent') = m
      /\ Pieces(m) \in Seq(Piece) /\ Expected' = Expected \o Pieces(m)
      /\ Len(Expected') = Len(Expected) + Count(m)
      /\ \A i \in 1..Count(m) : Expected'[Len(Expected) + i] = Pieces(m)[i]
      /\ ~sending.active /\ writing = <<>>
  BY <1>1, NewMessageFacts
<1>3. /\ m.size = size /\ m.how = "asyncSendMessage" /\ m.type = type
      /\ m.first = NextByte
  OBVIOUS
<1> HIDE DEF m
<1>4. /\ writing' = Chunk(type, NextByte, size)
      /\ UNCHANGED <<sending, wire, reader, received>>
  BY DEF asyncSendMessage
<1>5. /\ Count(m) = 1 /\ type \in Nat /\ NextByte \in Nat \ {0}
      /\ Pieces(m)[1].type = type /\ Pieces(m)[1].content = Numbers(NextByte, size)
  <2>1. Count(m) = 1
    BY <1>2, <1>3, CountFacts
  <2>2. 1 \in 1..Count(m) /\ Full(m) \in Nat
    BY <1>2, <2>1, CountFacts
  <2>3. /\ Pieces(m)[1].type = m.type
        /\ Pieces(m)[1].content = Numbers(m.first + (1 - 1) * Full(m), Size(m, 1))
    BY <1>2, <2>2, PieceFacts
  <2>4. (1 - 1) * Full(m) = 0
    BY <2>2
  <2>5. Size(m, 1) = size
    BY <1>3, <2>1, <2>4 DEF Size
  <2>6. m.first + (1 - 1) * Full(m) = NextByte /\ type \in Nat /\ NextByte \in Nat \ {0}
    BY <1>2, <1>3, <2>4 DEF Message
  <2>7. QED
    BY <1>3, <2>1, <2>3, <2>5, <2>6
<1>6. TypeInv'
  <2>1. Chunk(type, NextByte, size) \in Seq(Unit)
    BY <1>5, ChunkType
  <2>2. QED
    BY <1>2, <1>4, <2>1 DEF IInv, TypeInv
<1>7. Received' /\ Reading' /\ Refused' /\ ReaderPlace' = ReaderPlace
  BY <1>2, <1>4, ReaderKeeps
<1>8. PICK cut \in Nat : Cutting(cut) /\ InFlight(cut)
  BY DEF IInv
<1>9. cut = Len(Expected) /\ Len(Expected') = cut + 1 /\ cut + 1 \in 1..Len(Expected')
  BY <1>2, <1>5, <1>8 DEF Cutting
<1>10. Cutting(cut + 1)'
  BY <1>2, <1>4, <1>9 DEF Cutting
<1>11. InFlight(cut + 1)'
  <2>1. SUFFICES ASSUME reader.step # "closed"
                 PROVE  Carries(Expected', wire' \o writing', ReaderPlace,
                                Place((cut + 1) + 1, 0))
    BY <1>4, <1>7 DEF InFlight
  <2>2. Carries(Expected, wire \o writing, ReaderPlace, Place(cut + 1, 0))
    BY <1>8, <2>1 DEF InFlight
  <2>3. Expected \in Seq(Piece) /\ Expected' \in Seq(Piece)
    <3>1. Expected \in Seq(Piece)
      BY ExpectedType DEF IInv, TypeInv
    <3>2. QED
      BY <1>2, <3>1, ConcatParts
  <2>4. Carries(Expected', wire \o writing, ReaderPlace, Place(cut + 1, 0))
    BY <1>2, <2>2, <2>3, CarriesGrown
  <2>5. Expected'[cut + 1] = Pieces(m)[1]
    BY <1>2, <1>5, <1>9
  <2>6. wire' = wire /\ TypeInv
    BY <1>4 DEF IInv
  <2>7. QED
    BY <1>2, <1>4, <1>5, <1>9, <2>3, <2>4, <2>5, <2>6, ChunkStarts
<1>12. QED
  BY <1>6, <1>7, <1>9, <1>10, <1>11 DEF IInv

\* The loop cuts off the next piece, which is not the last.
LEMMA CutFullChunkStep ==
  ASSUME IInv, CutFullChunk
  PROVE  IInv'
<1> DEFINE m == Last(sent)
<1>1. PICK cut \in Nat : Cutting(cut) /\ InFlight(cut)
  BY DEF IInv
<1>2. /\ sending.active /\ writing = <<>> /\ sending.message_length > BUFFER_SIZE
      /\ writing' = Chunk(m.type, m.first + sending.ptr_cursor, BUFFER_SIZE)
      /\ sending' = [sending EXCEPT !.message_length = @ - BUFFER_SIZE,
                                    !.ptr_cursor = @ + BUFFER_SIZE]
      /\ UNCHANGED <<sent, wire, reader, received>>
  BY DEF CutFullChunk, sendChunk
<1> HIDE DEF m
<1>3. TypeInv /\ m = Last(sent) /\ m = Last(sent')
  BY <1>2 DEF IInv, m
<1>4. /\ m \in Message /\ m.how = "send" /\ Full(m) = BUFFER_SIZE
      /\ Expected \in Seq(Piece) /\ cut + 1 \in 1..Len(Expected)
  BY <1>1, <1>2, <1>3, CuttingFacts
<1>5. PICK done \in 0..(Count(m) - 1) :
        /\ sending.ptr_cursor = done * BUFFER_SIZE
        /\ sending.message_length = m.size - done * BUFFER_SIZE
        /\ cut + (Count(m) - done) = Len(Expected)
        /\ \A i \in (done + 1)..Count(m) : Expected[cut - done + i] = Pieces(m)[i]
        /\ done * BUFFER_SIZE \in Nat
        /\ m.first + done * BUFFER_SIZE \in Nat \ {0}
        /\ Size(m, done + 1) \in Nat
        /\ Expected[cut + 1].type = m.type
        /\ Expected[cut + 1].content =
             Numbers(m.first + done * BUFFER_SIZE, Size(m, done + 1))
  BY <1>1, <1>2, <1>3, CuttingFacts
<1>6. done + 1 < Count(m) /\ Size(m, done + 1) = BUFFER_SIZE
  BY <1>2, <1>4, <1>5, LoopTest
<1>7. /\ Count(m) \in Nat \ {0} /\ BUFFER_SIZE \in Nat \ {0}
      /\ m.type \in Nat /\ m.size \in Nat
  BY <1>4, CountFacts, SizesAssumption DEF Message
<1>8. Chunk(m.type, m.first + sending.ptr_cursor, BUFFER_SIZE) \in Seq(Unit)
  BY <1>5, <1>7, ChunkType
<1>9. /\ sending.message_length - BUFFER_SIZE \in Nat
      /\ sending.ptr_cursor + BUFFER_SIZE \in Nat
  <2>1. sending.message_length \in Nat /\ sending.ptr_cursor \in Nat
    BY <1>3 DEF TypeInv
  <2>2. QED
    BY <1>2, <1>7, <2>1
<1>10. /\ sending' \in [active : BOOLEAN, message_length : Nat, ptr_cursor : Nat]
       /\ sending'.active
       /\ sending'.message_length = sending.message_length - BUFFER_SIZE
       /\ sending'.ptr_cursor = sending.ptr_cursor + BUFFER_SIZE
  BY <1>2, <1>9 DEF IInv, TypeInv
<1>11. TypeInv'
  BY <1>2, <1>8, <1>10 DEF IInv, TypeInv
<1>12. /\ Expected' = Expected /\ Received' /\ Reading' /\ Refused'
       /\ ReaderPlace' = ReaderPlace
  BY <1>2, SenderKeeps
<1>13. Cutting(cut + 1)'
  <2>1. /\ done + 1 \in 0..(Count(m) - 1)
        /\ (done + 1) * BUFFER_SIZE = done * BUFFER_SIZE + BUFFER_SIZE
        /\ (cut + 1) - (done + 1) = cut - done
    BY <1>6, <1>7
  <2>2. /\ sending'.ptr_cursor = (done + 1) * BUFFER_SIZE
        /\ sending'.message_length = m.size - (done + 1) * BUFFER_SIZE
    <3>1. /\ done * BUFFER_SIZE \in Nat /\ BUFFER_SIZE \in Nat /\ m.size \in Nat
          /\ sending'.ptr_cursor = done * BUFFER_SIZE + BUFFER_SIZE
          /\ sending'.message_length = (m.size - done * BUFFER_SIZE) - BUFFER_SIZE
      BY <1>5, <1>7, <1>10
    <3>2. \A a, b, c \in Nat : (a - b) - c = a - (b + c)
      OBVIOUS
    <3>3. (m.size - done * BUFFER_SIZE) - BUFFER_SIZE =
            m.size - (done * BUFFER_SIZE + BUFFER_SIZE)
      BY <3>1, <3>2
    <3>4. QED
      BY <2>1, <3>1, <3>3
  <2>3. (cut + 1) + (Count(m) - (done + 1)) = Len(Expected')
    <3>1. (cut + 1) + (Count(m) - (done + 1)) = cut + (Count(m) - done)
      BY <1>7
    <3>2. QED
      BY <1>5, <1>12, <3>1
  <2>4. \A i \in ((done + 1) + 1)..Count(m) :
          Expected'[(cut + 1) - (done + 1) + i] = Pieces(m)[i]
    <3>1. TAKE i \in ((done + 1) + 1)..Count(m)
    <3>2. i \in (done + 1)..Count(m)
      BY <1>7
    <3>3. QED
      BY <1>5, <1>12, <2>1, <3>2
  <2>5. \E k \in 0..(Count(m) - 1) :
          /\ sending'.ptr_cursor = k * BUFFER_SIZE
          /\ sending'.message_length = m.size - k * BUFFER_SIZE
          /\ (cut + 1) + (Count(m) - k) = Len(Expected')
          /\ \A i \in (k + 1)..Count(m) : Expected'[(cut + 1) - k + i] = Pieces(m)[i]
    BY <2>1, <2>2, <2>3, <2>4
  <2>6. sent # <<>>
    BY <1>1, <1>2 DEF Cutting
  <2>7. QED
    BY <1>2, <1>3, <1>4, <1>10, <2>5, <2>6 DEF Cutting
<1>14. InFlight(cut + 1)'
  <2>1. SUFFICES ASSUME reader.step # "closed"
                 PROVE  Carries(Expected, wire' \o writing', ReaderPlace,
                                Place((cut + 1) + 1, 0))
    BY <1>2, <1>12 DEF InFlight
  <2>2. Carries(Expected, wire \o writing, ReaderPlace, Place(cut + 1, 0))
    BY <1>1, <2>1 DEF InFlight
  <2>3. /\ Expected[cut + 1].content = Numbers(m.first + sending.ptr_cursor, BUFFER_SIZE)
        /\ m.first + sending.ptr_cursor \in Nat \ {0} /\ BUFFER_SIZE \in Nat
    BY <1>5, <1>6, <1>7
  <2>4. QED
    BY <1>2, <1>3, <1>4, <1>5, <1>7, <2>2, <2>3, ChunkStarts
<1>15. cut + 1 \in Nat
  OBVIOUS
<1>16. QED
  BY <1>11, <1>12, <1>13, <1>14, <1>15 DEF IInv

\* What follows the loop gives the connection the last piece.
LEMMA CutLastChunkStep ==
  ASSUME IInv, CutLastChunk
  PROVE  IInv'
<1> DEFINE m == Last(sent)
           size == sending.message_length
<1>1. PICK cut \in Nat : Cutting(cut) /\ InFlight(cut)
  BY DEF IInv
<1>2. /\ sending.active /\ writing = <<>> /\ size <= BUFFER_SIZE
      /\ writing' = Chunk(m.type, m.first + sending.ptr_cursor, size)
      /\ sending' = NotSending
      /\ UNCHANGED <<sent, wire, reader, received>>
  BY DEF CutLastChunk, sendChunk
<1>3. TypeInv /\ m = Last(sent) /\ size \in Nat
  BY DEF IInv, TypeInv
<1> HIDE DEF m
<1>4. /\ m \in Message /\ m.how = "send" /\ Full(m) = BUFFER_SIZE
      /\ Expected \in Seq(Piece) /\ cut + 1 \in 1..Len(Expected)
  BY <1>1, <1>2, <1>3, CuttingFacts
<1>5. PICK done \in 0..(Count(m) - 1) :
        /\ sending.ptr_cursor = done * BUFFER_SIZE
        /\ sending.message_length = m.size - done * BUFFER_SIZE
        /\ cut + (Count(m) - done) = Len(Expected)
        /\ \A i \in (done + 1)..Count(m) : Expected[cut - done + i] = Pieces(m)[i]
        /\ done * BUFFER_SIZE \in Nat
        /\ m.first + done * BUFFER_SIZE \in Nat \ {0}
        /\ Size(m, done + 1) \in Nat
        /\ Expected[cut + 1].type = m.type
        /\ Expected[cut + 1].content =
             Numbers(m.first + done * BUFFER_SIZE, Size(m, done + 1))
  BY <1>1, <1>2, <1>3, CuttingFacts
<1>6. done + 1 = Count(m) /\ Size(m, done + 1) = size
  BY <1>2, <1>4, <1>5, LoopTest
<1>7. m.type \in Nat /\ Count(m) \in Nat \ {0}
  BY <1>4, CountFacts DEF Message
<1> HIDE DEF size
<1>8. Chunk(m.type, m.first + sending.ptr_cursor, size) \in Seq(Unit)
  BY <1>3, <1>5, <1>7, ChunkType
<1>9. TypeInv'
  BY <1>2, <1>8 DEF IInv, TypeInv, NotSending
<1>10. /\ Expected' = Expected /\ Received' /\ Reading' /\ Refused'
       /\ ReaderPlace' = ReaderPlace
  BY <1>2, SenderKeeps
<1>11. Cutting(cut + 1)'
  <2>1. cut + 1 = Len(Expected')
    BY <1>5, <1>6, <1>7, <1>10
  <2>2. QED
    BY <1>2, <2>1 DEF Cutting, NotSending
<1>12. InFlight(cut + 1)'
  <2>1. SUFFICES ASSUME reader.step # "closed"
                 PROVE  Carries(Expected, wire' \o writing', ReaderPlace,
                                Place((cut + 1) + 1, 0))
    BY <1>2, <1>10 DEF InFlight
  <2>2. Carries(Expected, wire \o writing, ReaderPlace, Place(cut + 1, 0))
    BY <1>1, <2>1 DEF InFlight
  <2>3. /\ Expected[cut + 1].content = Numbers(m.first + sending.ptr_cursor, size)
        /\ m.first + sending.ptr_cursor \in Nat \ {0}
    BY <1>5, <1>6
  <2>4. QED
    BY <1>2, <1>3, <1>4, <1>5, <1>7, <2>2, <2>3, ChunkStarts
<1>13. cut + 1 \in Nat
  OBVIOUS
<1>14. QED
  BY <1>9, <1>10, <1>11, <1>12, <1>13 DEF IInv

\* What a connection has taken is as much in flight as what is to be written.
LEMMA WriteUnitStep ==
  ASSUME IInv, WriteUnit
  PROVE  IInv'
<1>1. /\ writing # <<>> /\ wire' = Append(wire, Head(writing)) /\ writing' = Tail(writing)
      /\ UNCHANGED <<sent, sending, reader, received>>
      /\ wire \in Seq(Unit) /\ writing \in Seq(Unit) /\ TypeInv
  BY DEF WriteUnit, IInv, TypeInv
<1>2. Head(writing) \in Unit /\ Tail(writing) \in Seq(Unit)
  BY <1>1
<1>3. wire' \o writing' = wire \o writing
  BY <1>1, <1>2, MoveOne
<1>4. TypeInv'
  BY <1>1, <1>2 DEF TypeInv
<1>5. /\ Expected' = Expected /\ Received' /\ Reading' /\ Refused'
      /\ ReaderPlace' = ReaderPlace
  BY <1>1, SenderKeeps
<1>6. ASSUME NEW cut \in Nat, Cutting(cut), InFlight(cut)
      PROVE  Cutting(cut)' /\ InFlight(cut)'
  <2>1. Cutting(cut)'
    BY <1>1, <1>5, <1>6 DEF Cutting
  <2>2. InFlight(cut)'
    BY <1>1, <1>3, <1>5, <1>6 DEF InFlight
  <2>3. QED
    BY <2>1, <2>2
<1>7. QED
  BY <1>4, <1>5, <1>6 DEF IInv
-----------------------------------------------------------------------------
(***************************************************************************)
(* The reader's steps.                                                     *)
(***************************************************************************)

\* The first unit on the wire is the one at the reader's place.
LEMMA NextUnit ==
  ASSUME IInv, wire # <<>>, wire' = Tail(wire), reader.step # "closed",
         UNCHANGED <<sent, sending, writing>>,
         NEW cut \in Nat, Cutting(cut), InFlight(cut)
  PROVE  /\ Expected' = Expected /\ Cutting(cut)'
         /\ wire' \in Seq(Unit) /\ Head(wire) \in Unit
         /\ Within(Expected, ReaderPlace)
         /\ Head(wire) = UnitAt(Expected, ReaderPlace)
         /\ Carries(Expected, wire' \o writing', After(Expected, ReaderPlace),
                    Place(cut + 1, 0))
<1>1. /\ wire \in Seq(Unit) /\ writing \in Seq(Unit) /\ wire # <<>>
      /\ wire' = Tail(wire) /\ writing' = writing
  BY DEF IInv, TypeInv
<1>2. wire' \in Seq(Unit) /\ Head(wire) \in Unit
  BY <1>1
<1>3. /\ wire \o writing \in Seq(Unit) /\ wire \o writing # <<>>
      /\ Head(wire \o writing) = Head(wire)
      /\ Tail(wire \o writing) = wire' \o writing'
  BY <1>1, FirstOfConcat
<1>4. Carries(Expected, wire \o writing, ReaderPlace, Place(cut + 1, 0))
  BY DEF InFlight
<1>5. /\ Within(Expected, ReaderPlace)
      /\ Head(wire) = UnitAt(Expected, ReaderPlace)
      /\ Carries(Expected, wire' \o writing', After(Expected, ReaderPlace),
                 Place(cut + 1, 0))
  BY <1>3, <1>4, CarriesFirst
<1>6. Expected' = Expected
  BY DEF Expected
<1>7. Cutting(cut)'
  BY <1>6 DEF Cutting
<1>8. QED
  BY <1>2, <1>5, <1>6, <1>7

\* The header read is the next piece's, and refused because of it if at all.
LEMMA ReadHeaderStep ==
  ASSUME IInv, ReadHeader
  PROVE  IInv'
<1> DEFINE k == Len(received) + 1
           header == Head(wire)
<1>1. /\ reader.step = "header" /\ wire # <<>> /\ wire' = Tail(wire)
      /\ UNCHANGED <<sent, sending, writing, received>>
      /\ reader' = IF deserialize(header)
                     THEN [step |-> "content", type |-> header.type,
                           message_size |-> header.message_size, content |-> <<>>]
                     ELSE [reader EXCEPT !.step = "closed"]
  BY DEF ReadHeader
<1>2. PICK cut \in Nat : Cutting(cut) /\ InFlight(cut)
  BY DEF IInv
<1>3. /\ Expected' = Expected /\ Cutting(cut)'
      /\ wire' \in Seq(Unit) /\ header \in Unit
      /\ Within(Expected, ReaderPlace)
      /\ header = UnitAt(Expected, ReaderPlace)
      /\ Carries(Expected, wire' \o writing', After(Expected, ReaderPlace),
                 Place(cut + 1, 0))
  BY <1>1, <1>2, NextUnit
<1>4. ReaderPlace = Place(k, 0)
  BY <1>1 DEF ReaderPlace
<1> HIDE DEF header, k
<1>5. /\ k \in 1..Len(Expected)
      /\ header = Header(Expected[k].type, Len(Expected[k].content))
  BY <1>3, <1>4 DEF Within, UnitAt, Place
<1>6. /\ k = Len(received) + 1 /\ Len(received) \in Nat /\ Len(Expected) \in Nat
      /\ Expected[k] \in Piece /\ NextPiece = Expected[k] /\ NextPiece' = Expected[k]
  <2>1. sent \in Seq(Message) /\ received \in Seq(Piece)
    BY DEF IInv, TypeInv
  <2>2. Len(Expected) \in Nat /\ \A i \in 1..Len(Expected) : Expected[i] \in Piece
    BY <2>1, ExpectedType
  <2>3. QED
    BY <1>1, <1>3, <1>5, <2>1, <2>2 DEF NextPiece, k
<1>7. /\ header.type = Expected[k].type /\ header.message_size = Len(Expected[k].content)
      /\ header.type \in Nat /\ header.message_size \in Nat
      /\ Len(received) < Len(Expected)
  BY <1>5, <1>6 DEF Header, Piece, Content
<1>8. Received'
  BY <1>1, <1>3 DEF IInv, Received
<1>9. CASE deserialize(header)
  <2>1. /\ reader' = [step |-> "content", type |-> header.type,
                      message_size |-> header.message_size, content |-> <<>>]
        /\ received' = received
    BY <1>1, <1>9
  <2>2. TypeInv'
    BY <1>1, <1>3, <1>7, <2>1 DEF IInv, TypeInv, Content
  <2>3. Reading' /\ Refused'
    BY <1>3, <1>6, <1>7, <2>1 DEF Reading, Refused
  <2>4. ReaderPlace' = After(Expected, ReaderPlace)
    BY <1>3, <1>4, <2>1 DEF ReaderPlace, k
  <2>5. InFlight(cut)'
    BY <1>3, <2>1, <2>4 DEF InFlight
  <2>6. QED
    BY <1>3, <1>8, <2>2, <2>3, <2>5 DEF IInv
<1>10. CASE ~deserialize(header)
  <2>1. reader' = [reader EXCEPT !.step = "closed"] /\ received' = received
    BY <1>1, <1>10
  <2>2. TypeInv'
    BY <1>1, <1>3, <2>1 DEF IInv, TypeInv
  <2>3. reader'.step = "closed"
    BY <2>1 DEF IInv, TypeInv
  <2>4. Expected[k].type > MAX_VALUE \/ Len(Expected[k].content) > max_message_size
    <3>1. max_message_size \in Nat /\ MAX_VALUE \in Nat
      BY SizesAssumption DEF max_message_size
    <3>2. QED
      BY <1>7, <1>10, <3>1 DEF deserialize
  <2>5. max_message_size' = max_message_size
    BY <2>1 DEF max_message_size
  <2>6. Reading' /\ Refused'
    BY <1>3, <1>6, <1>7, <2>1, <2>3, <2>4, <2>5 DEF Reading, Refused
  <2>7. InFlight(cut)'
    BY <2>3 DEF InFlight
  <2>8. QED
    BY <1>3, <1>8, <2>2, <2>6, <2>7 DEF IInv
<1>11. QED
  BY <1>9, <1>10

\* The byte read is the next one of the piece.
LEMMA ReadByteStep ==
  ASSUME IInv, ReadByte
  PROVE  IInv'
<1> DEFINE k == Len(received) + 1
           n == Len(reader.content)
           c == Expected[k].content
<1>1. /\ reader.step = "content" /\ n < reader.message_size
      /\ wire # <<>> /\ wire' = Tail(wire)
      /\ reader' = [reader EXCEPT !.content = Append(@, Head(wire).n)]
      /\ UNCHANGED <<sent, sending, writing, received>>
  BY DEF ReadByte
<1>2. PICK cut \in Nat : Cutting(cut) /\ InFlight(cut)
  BY DEF IInv
<1>3. /\ Expected' = Expected /\ Cutting(cut)'
      /\ wire' \in Seq(Unit) /\ Head(wire) \in Unit
      /\ Within(Expected, ReaderPlace)
      /\ Head(wire) = UnitAt(Expected, ReaderPlace)
      /\ Carries(Expected, wire' \o writing', After(Expected, ReaderPlace),
                 Place(cut + 1, 0))
  BY <1>1, <1>2, NextUnit
<1>4. /\ Len(received) < Len(Expected)
      /\ reader.type = Expected[k].type
      /\ reader.message_size = Len(c) /\ n <= Len(c)
      /\ \A i \in 1..n : reader.content[i] = c[i]
  BY <1>1 DEF IInv, Reading, NextPiece
<1>5. /\ n \in Nat /\ reader.content \in Seq(Nat)
      /\ c \in Seq(Nat) /\ Len(c) \in Nat
  <2>1. sent \in Seq(Message) /\ received \in Seq(Piece) /\ reader.content \in Seq(Nat)
    BY DEF IInv, TypeInv, Content
  <2>2. Len(Expected) \in Nat /\ \A i \in 1..Len(Expected) : Expected[i] \in Piece
    BY <2>1, ExpectedType
  <2>3. Len(received) \in Nat /\ k \in 1..Len(Expected)
    BY <1>4, <2>1, <2>2
  <2>4. c \in Seq(Nat)
    BY <2>2, <2>3 DEF Piece, Content
  <2>5. QED
    BY <2>1, <2>4
<1>6. ReaderPlace = Place(k, n + 1)
  <2>1. ReaderPlace = After(Expected, Place(k, n))
    BY <1>1 DEF ReaderPlace
  <2>2. n < Len(c)
    BY <1>1, <1>4
  <2>3. QED
    BY <2>1, <2>2 DEF After, Place
<1>7. /\ n + 1 \in 1..Len(c) /\ Head(wire) = Byte(c[n + 1]) /\ c[n + 1] \in Nat
  <2>1. n + 1 \in 1..Len(c) /\ n + 1 # 0
    BY <1>1, <1>4, <1>5
  <2>2. Head(wire) = Byte(c[n + 1])
    BY <1>3, <1>6, <2>1 DEF UnitAt, Place
  <2>3. QED
    BY <1>5, <2>1, <2>2
<1> DEFINE content == Append(reader.content, c[n + 1])
<1>8. /\ reader'.content = content /\ reader'.step = "content"
      /\ reader'.type = reader.type /\ reader'.message_size = reader.message_size
      /\ reader' \in [step : {"header", "content", "closed"}, type : Nat,
                      message_size : Nat, content : Content]
  <2>1. Head(wire).n = c[n + 1]
    BY <1>7 DEF Byte
  <2>2. content \in Seq(Nat)
    BY <1>5, <1>7
  <2>3. reader' = [reader EXCEPT !.content = content]
    BY <1>1, <2>1
  <2> HIDE DEF content
  <2>4. QED
    BY <1>1, <2>2, <2>3 DEF IInv, TypeInv, Content
<1>9. /\ Len(content) = n + 1
      /\ \A i \in 1..(n + 1) : content[i] = c[i]
  <2>1. /\ Len(content) = n + 1 /\ content[n + 1] = c[n + 1]
        /\ \A i \in 1..n : content[i] = reader.content[i]
    BY <1>5, <1>7, AppendProperties
  <2> HIDE DEF content, n
  <2>2. QED
    BY <1>4, <1>5, <2>1
<1> HIDE DEF content
<1>10. TypeInv'
  BY <1>1, <1>3, <1>8 DEF IInv, TypeInv
<1>11. Received'
  BY <1>1, <1>3 DEF IInv, Received
<1>12. NextPiece' = Expected[k] /\ Len(received') = Len(received)
  BY <1>1, <1>3 DEF NextPiece
<1>13. Reading' /\ Refused'
  BY <1>3, <1>4, <1>5, <1>7, <1>8, <1>9, <1>12 DEF Reading, Refused
<1>14. ReaderPlace' = After(Expected, ReaderPlace)
  BY <1>1, <1>3, <1>6, <1>8, <1>9 DEF ReaderPlace
<1>15. InFlight(cut)'
  BY <1>3, <1>8, <1>14 DEF InFlight
<1>16. QED
  BY <1>3, <1>10, <1>11, <1>13, <1>15 DEF IInv

\* A message that is complete is the next piece.
LEMMA DeliverStep ==
  ASSUME IInv, Deliver
  PROVE  IInv'
<1> DEFINE n == Len(received)
           piece == [type |-> reader.type, content |-> reader.content]
<1>1. /\ reader.step = "content" /\ Len(reader.content) = reader.message_size
      /\ received' = Append(received, piece) /\ reader' = Waiting
      /\ UNCHANGED <<sent, sending, writing, wire>>
  BY DEF Deliver
<1>2. /\ n < Len(Expected)
      /\ reader.type = Expected[n + 1].type
      /\ reader.message_size = Len(Expected[n + 1].content)
      /\ \A i \in 1..Len(reader.content) :
           reader.content[i] = Expected[n + 1].content[i]
  BY <1>1 DEF IInv, Reading, NextPiece
<1>3. /\ sent \in Seq(Message) /\ received \in Seq(Piece)
      /\ reader.content \in Seq(Nat) /\ piece \in Piece
  BY DEF IInv, TypeInv, Content, Piece
<1>4. /\ Len(Expected) \in Nat /\ n \in Nat /\ n + 1 \in 1..Len(Expected)
      /\ Expected[n + 1] \in Piece
  BY <1>2, <1>3, ExpectedType
<1>5. piece = Expected[n + 1]
  <2>1. Expected[n + 1].content \in Seq(Nat)
    BY <1>4 DEF Piece, Content
  <2>2. reader.content = Expected[n + 1].content
    BY <1>1, <1>2, <1>3, <2>1, SeqEqual
  <2>3. Expected[n + 1] = [type |-> Expected[n + 1].type,
                           content |-> Expected[n + 1].content]
    BY <1>4 DEF Piece
  <2>4. QED
    BY <1>2, <2>2, <2>3
<1> HIDE DEF piece
<1>6. Expected' = Expected
  BY <1>1 DEF Expected
<1>7. /\ received' \in Seq(Piece) /\ Len(received') = n + 1
      /\ received'[n + 1] = Expected[n + 1]
      /\ \A i \in 1..n : received'[i] = received[i]
  BY <1>1, <1>3, <1>5, AppendProperties
<1>8. Received'
  <2>1. \A i \in 1..n : received[i] = Expected[i]
    BY DEF IInv, Received
  <2> HIDE DEF n
  <2>2. QED
    BY <1>4, <1>6, <1>7, <2>1 DEF Received
<1>9. TypeInv'
  BY <1>1, <1>7 DEF IInv, TypeInv, Waiting, Content
<1>10. reader'.step = "header"
  BY <1>1 DEF Waiting
<1>11. Reading' /\ Refused'
  BY <1>10 DEF Reading, Refused
<1>12. ReaderPlace' = ReaderPlace
  <2>1. ReaderPlace' = Place((n + 1) + 1, 0)
    BY <1>7, <1>10 DEF ReaderPlace
  <2>2. ReaderPlace = After(Expected, Place(n + 1, Len(reader.content)))
    BY <1>1 DEF ReaderPlace
  <2>3. ~(Len(reader.content) < Len(Expected[n + 1].content))
    BY <1>1, <1>2, <1>3
  <2>4. After(Expected, Place(n + 1, Len(reader.content))) = Place((n + 1) + 1, 0)
    BY <2>3 DEF After, Place
  <2>5. QED
    BY <2>1, <2>2, <2>4
<1>13. ASSUME NEW cut \in Nat, Cutting(cut), InFlight(cut)
       PROVE  Cutting(cut)' /\ InFlight(cut)'
  <2>1. Cutting(cut)'
    BY <1>1, <1>6, <1>13 DEF Cutting
  <2>2. InFlight(cut)'
    BY <1>1, <1>6, <1>10, <1>12, <1>13 DEF InFlight
  <2>3. QED
    BY <2>1, <2>2
<1>14. QED
  BY <1>8, <1>9, <1>11, <1>13 DEF IInv
-----------------------------------------------------------------------------
(***************************************************************************)
(* The invariant and what it implies.                                      *)
(***************************************************************************)

\* Every step keeps the invariant.
LEMMA InvNext == IInv /\ [Next]_vars => IInv'
<1> SUFFICES ASSUME IInv, [Next]_vars PROVE IInv'
  OBVIOUS
<1>1. ASSUME NEW type \in Type, NEW size \in 0..MaxSize, send(type, size) PROVE IInv'
  BY <1>1, SendStep, SizesAssumption
<1>2. ASSUME NEW type \in Type, NEW size \in 0..MaxSize, asyncSendMessage(type, size)
      PROVE  IInv'
  BY <1>2, AsyncSendStep, SizesAssumption
<1>3. CASE Sender
  BY <1>3, CutFullChunkStep, CutLastChunkStep, WriteUnitStep DEF Sender
<1>4. CASE Reader
  BY <1>4, ReadHeaderStep, ReadByteStep, DeliverStep DEF Reader
<1>5. CASE UNCHANGED vars
  <2>1. Expected' = Expected
    BY <1>5 DEF vars, Expected
  <2>2. TypeInv' /\ Received' /\ Reading' /\ Refused' /\ ReaderPlace' = ReaderPlace
    BY <1>5, SenderKeeps DEF vars, IInv, TypeInv
  <2>3. ASSUME NEW cut \in Nat, Cutting(cut), InFlight(cut)
        PROVE  Cutting(cut)' /\ InFlight(cut)'
    BY <1>5, <2>1, <2>2, <2>3 DEF vars, Cutting, InFlight
  <2>4. QED
    BY <2>2, <2>3 DEF IInv
<1>6. QED
  BY <1>1, <1>2, <1>3, <1>4, <1>5 DEF Next

\* The inductive invariant holds in every state.
THEOREM Invariant == Spec => []IInv
BY InvInit, InvNext, PTL DEF Spec

\* The receiver sees the chunks of what was sent, in order, and nothing else, for
\* every size of the buffer, of the connection and of the messages (send,
\* asyncReadHeader and asyncReadMessageImpl).
THEOREM SentIsReceived == Spec => []ReceivedAsSent
<1>1. IInv => ReceivedAsSent
  <2>1. SUFFICES ASSUME IInv PROVE ReceivedAsSent
    OBVIOUS
  <2>2. /\ received \in Seq(Piece) /\ Expected \in Seq(Piece)
    BY <2>1, ExpectedType DEF IInv, TypeInv
  <2>3. /\ Len(received) <= Len(Expected)
        /\ \A i \in 1..Len(received) : received[i] = Expected[i]
    BY <2>1 DEF IInv, Received
  <2>4. QED
    BY <2>2, <2>3, PrefixByElements DEF ReceivedAsSent
<1>2. QED
  BY <1>1, Invariant, PTL

\* A header is refused only because of the message it heads (deserialize): the
\* stream never loses its framing.
THEOREM RefusalHasCause == Spec => []RefusedForCause
<1>1. IInv => RefusedForCause
  <2>1. SUFFICES ASSUME IInv, reader.step = "closed"
                 PROVE  LET refused == Expected[Len(received) + 1] IN
                          \/ refused.type > MAX_VALUE
                          \/ Len(refused.content) > BUFFER_SIZE
                          \/ /\ received = <<>>
                             /\ Len(refused.content) > FIRST_MESSAGE_MAX_SIZE
    BY DEF RefusedForCause
  <2>2. NextPiece.type > MAX_VALUE \/ Len(NextPiece.content) > max_message_size
    BY <2>1 DEF IInv, Refused
  <2>3. QED
    BY <2>2 DEF NextPiece, max_message_size
<1>2. QED
  BY <1>1, Invariant, PTL
-----------------------------------------------------------------------------
\* When the sender has nothing left to do and nothing is in flight, all that was sent
\* has been received, but for the piece that the reader holds complete; or a header
\* has been refused.  The reader never waits for bytes that nobody will send.
NothingMissing ==
  ~sending.active /\ writing = <<>> /\ wire = <<>> /\ reader.step # "closed" =>
    \/ reader.step = "header" /\ received = Expected
    \/ /\ reader.step = "content" /\ Len(reader.content) = reader.message_size
       /\ Append(received, [type |-> reader.type, content |-> reader.content]) = Expected

\* At rest the reader is at the end of the stream.
LEMMA AtTheEnd ==
  ASSUME IInv, ~sending.active, writing = <<>>, wire = <<>>, reader.step # "closed"
  PROVE  ReaderPlace = Place(Len(Expected) + 1, 0)
<1>1. PICK cut \in Nat : Cutting(cut) /\ InFlight(cut)
  BY DEF IInv
<1>2. cut = Len(Expected)
  BY <1>1 DEF Cutting
<1>3. Carries(Expected, wire \o writing, ReaderPlace, Place(cut + 1, 0))
  BY <1>1 DEF InFlight
<1>4. Len(wire \o writing) = 0
  OBVIOUS
<1>5. PICK path \in [1..(Len(wire \o writing) + 1) -> Places] :
        /\ path[1] = ReaderPlace
        /\ path[Len(wire \o writing) + 1] = Place(cut + 1, 0)
  BY <1>3 DEF Carries
<1>6. Len(wire \o writing) + 1 = 1
  BY <1>4
<1>7. QED
  BY <1>2, <1>5, <1>6

\* Nothing that was sent stays behind (send, asyncReadHeader and asyncReadMessageImpl):
\* the length in a header is the number of bytes that follow it, so that no reader
\* blocks in transfer_exactly once its peer has written all.
THEOREM RestHasAll == Spec => []NothingMissing
<1>1. IInv => NothingMissing
  <2>1. SUFFICES ASSUME IInv, ~sending.active, writing = <<>>, wire = <<>>,
                        reader.step # "closed"
                 PROVE  \/ reader.step = "header" /\ received = Expected
                        \/ /\ reader.step = "content"
                           /\ Len(reader.content) = reader.message_size
                           /\ Append(received, [type |-> reader.type,
                                                content |-> reader.content]) = Expected
    BY DEF NothingMissing
  <2>2. /\ received \in Seq(Piece) /\ sent \in Seq(Message)
        /\ reader.type \in Nat /\ reader.content \in Seq(Nat)
        /\ reader.step \in {"header", "content", "closed"}
    BY <2>1 DEF IInv, TypeInv, Content
  <2>3. /\ Expected \in Seq(Piece) /\ Len(Expected) \in Nat
        /\ \A i \in 1..Len(Expected) : Expected[i] \in Piece
    BY <2>2, ExpectedType
  <2>4. /\ Len(received) <= Len(Expected) /\ Len(received) \in Nat
        /\ \A i \in 1..Len(received) : received[i] = Expected[i]
    BY <2>1, <2>2, LenProperties DEF IInv, Received
  <2>5. ReaderPlace = Place(Len(Expected) + 1, 0)
    BY <2>1, AtTheEnd
  <2>6. CASE reader.step = "header"
    <3>1. Place(Len(received) + 1, 0) = Place(Len(Expected) + 1, 0)
      BY <2>5, <2>6 DEF ReaderPlace
    <3>2. Len(received) + 1 = Len(Expected) + 1
      BY <3>1 DEF Place
    <3>3. Len(received) = Len(Expected)
      BY <2>3, <2>4, <3>2
    <3>4. received = Expected
      BY <2>2, <2>3, <2>4, <3>3, SeqEqual
    <3>5. QED
      BY <2>6, <3>4
  <2>7. CASE reader.step = "content"
    <3> DEFINE n == Len(received)
    <3>1. /\ n < Len(Expected) /\ reader.type = NextPiece.type
          /\ reader.message_size = Len(NextPiece.content)
          /\ Len(reader.content) <= Len(NextPiece.content)
          /\ \A i \in 1..Len(reader.content) : reader.content[i] = NextPiece.content[i]
      BY <2>1, <2>7 DEF IInv, Reading
    <3>2. n + 1 \in 1..Len(Expected) /\ n \in Nat
      BY <2>3, <2>4, <3>1
    <3>3. NextPiece = Expected[n + 1] /\ NextPiece \in Piece
      BY <2>3, <3>2 DEF NextPiece
    <3>4. /\ NextPiece.content \in Seq(Nat) /\ Len(NextPiece.content) \in Nat
          /\ Len(reader.content) \in Nat
      BY <2>2, <3>3, LenProperties DEF Piece, Content
    <3>5. After(Expected, Place(n + 1, Len(reader.content))) = Place(Len(Expected) + 1, 0)
      BY <2>5, <2>7 DEF ReaderPlace
    <3>6. IF Len(reader.content) < Len(NextPiece.content)
            THEN Place(n + 1, Len(reader.content) + 1) = Place(Len(Expected) + 1, 0)
            ELSE Place(n + 2, 0) = Place(Len(Expected) + 1, 0)
      <4>1. /\ Place(n + 1, Len(reader.content)).piece = n + 1
            /\ Place(n + 1, Len(reader.content)).at = Len(reader.content)
        BY DEF Place
      <4>2. (n + 1) + 1 = n + 2
        BY <3>2
      <4>3. QED
        BY <3>3, <3>5, <4>1, <4>2 DEF After
    <3>7. Len(reader.content) = Len(NextPiece.content)
      <4>1. SUFFICES ASSUME Len(reader.content) < Len(NextPiece.content)
                     PROVE  FALSE
        BY <3>1, <3>4
      <4>2. Len(reader.content) + 1 = 0
        BY <3>6, <4>1 DEF Place
      <4>3. QED
        BY <3>4, <4>2
    <3>8. n + 1 = Len(Expected)
      <4>1. ~(Len(reader.content) < Len(NextPiece.content))
        BY <3>4, <3>7
      <4>2. n + 2 = Len(Expected) + 1
        BY <3>6, <4>1 DEF Place
      <4>3. QED
        BY <2>3, <3>2, <4>2
    <3>9. reader.content = NextPiece.content
      BY <2>2, <3>1, <3>4, <3>7, SeqEqual
    <3> DEFINE p == [type |-> reader.type, content |-> reader.content]
               all == Append(received, p)
    <3>10. p = NextPiece
      BY <3>1, <3>3, <3>9 DEF Piece
    <3>11. p = Expected[n + 1] /\ p \in Piece
      BY <3>3, <3>10
    <3> HIDE DEF p
    <3>12. /\ all \in Seq(Piece) /\ Len(all) = n + 1 /\ all[n + 1] = p
           /\ \A i \in 1..n : all[i] = received[i]
      BY <2>2, <3>11, AppendProperties
    <3> HIDE DEF all
    <3>13. \A i \in 1..(n + 1) : all[i] = Expected[i]
      <4>1. TAKE i \in 1..(n + 1)
      <4>2. CASE i = n + 1
        BY <3>11, <3>12, <4>2
      <4>3. CASE i # n + 1
        <5>1. i \in 1..n
          BY <3>2, <4>3
        <5>2. QED
          BY <2>4, <3>12, <5>1
      <4>4. QED
        BY <4>2, <4>3
    <3>14. all = Expected
      BY <2>3, <3>8, <3>12, <3>13, SeqEqual
    <3>15. Append(received, [type |-> reader.type, content |-> reader.content]) = Expected
      BY <3>14 DEF all, p
    <3>16. QED
      BY <2>7, <3>1, <3>7, <3>15
  <2>8. QED
    BY <2>1, <2>2, <2>6, <2>7
<1>2. QED
  BY <1>1, Invariant, PTL
-----------------------------------------------------------------------------
(***************************************************************************)
(* The bytes. Pieces says how a message is cut; that the pieces are the    *)
(* whole message, whatever the sizes, is another matter.                   *)
(***************************************************************************)

\* The contents of pieces, one after the other.
Contents(ps) == FlattenSeq([i \in 1..Len(ps) |-> ps[i].content])

\* No pieces, no bytes.
LEMMA NoContents == Contents(<<>>) = <<>>
<1> DEFINE cs == [i \in 1..0 |-> <<>>[i].content]
<1>1. cs = <<>> /\ Len(cs) = 0
  OBVIOUS
<1>2. Contents(<<>>) = FlattenSeq(cs)
  BY DEF Contents
<1> HIDE DEF cs
<1>3. QED
  BY <1>1, <1>2 DEF FlattenSeq

\* A piece more is its bytes more.
LEMMA ContentsAppend ==
  ASSUME NEW ps \in Seq(Piece), NEW p \in Piece
  PROVE  /\ Contents(ps) \in Seq(Nat)
         /\ Contents(Append(ps, p)) = Contents(ps) \o p.content
<1> DEFINE n == Len(ps)
           cs == [i \in 1..n |-> ps[i].content]
           ds == [i \in 1..Len(Append(ps, p)) |-> Append(ps, p)[i].content]
           C == Seq(Nat)
<1>1. /\ n \in Nat /\ p.content \in C
      /\ \A i \in 1..n : ps[i].content \in C
  <2>1. \A i \in 1..n : ps[i] \in Piece
    BY ElementOfSeq
  <2>2. QED
    BY <2>1 DEF Piece, Content
<1>2. /\ Len(Append(ps, p)) = n + 1 /\ Append(ps, p)[n + 1] = p
      /\ \A i \in 1..n : Append(ps, p)[i] = ps[i]
  BY AppendProperties
<1>3. Contents(ps) = FlattenSeq(cs) /\ Contents(Append(ps, p)) = FlattenSeq(ds)
  BY DEF Contents
<1> HIDE DEF C, n
<1>4. cs \in Seq(C) /\ Len(cs) = n /\ \A i \in 1..n : cs[i] = ps[i].content
  BY <1>1
<1>5. \A i \in 1..(n + 1) : Append(ps, p)[i].content \in C
  BY <1>1, <1>2
<1>6. /\ ds \in Seq(C) /\ Len(ds) = n + 1
      /\ \A i \in 1..(n + 1) : ds[i] = Append(ps, p)[i].content
  BY <1>1, <1>2, <1>5
<1> HIDE DEF cs, ds
<1>7. /\ Append(cs, p.content) \in Seq(C) /\ Len(Append(cs, p.content)) = n + 1
      /\ \A i \in 1..n : Append(cs, p.content)[i] = cs[i]
      /\ Append(cs, p.content)[n + 1] = p.content
  BY <1>1, <1>4, AppendProperties
<1>8. \A i \in 1..(n + 1) : ds[i] = Append(cs, p.content)[i]
  BY <1>1, <1>2, <1>4, <1>6, <1>7
<1>9. ds = Append(cs, p.content)
  BY <1>6, <1>7, <1>8, SeqEqual
<1>10. cs \in Seq(Seq(Nat)) /\ p.content \in Seq(Nat)
  BY <1>1, <1>4 DEF C
<1>11. /\ FlattenSeq(cs) \in Seq(Nat)
       /\ FlattenSeq(Append(cs, p.content)) = FlattenSeq(cs) \o p.content
  BY <1>10, FlattenAppend
<1>12. QED
  BY <1>3, <1>9, <1>11

\* Numbers that follow each other.
LEMMA NumbersJoin ==
  ASSUME NEW first \in Nat \ {0}, NEW a \in Nat, NEW b \in Nat
  PROVE  Numbers(first, a) \o Numbers(first + a, b) = Numbers(first, a + b)
<1> DEFINE s == Numbers(first, a)
           t == Numbers(first + a, b)
           u == Numbers(first, a + b)
<1>1. /\ s \in Seq(Nat) /\ Len(s) = a /\ \A i \in 1..a : s[i] = first + i - 1
  BY NumbersFacts
<1>2. /\ t \in Seq(Nat) /\ Len(t) = b /\ \A i \in 1..b : t[i] = (first + a) + i - 1
  <2>1. first + a \in Nat \ {0}
    OBVIOUS
  <2>2. QED
    BY <2>1, NumbersFacts
<1>3. /\ u \in Seq(Nat) /\ Len(u) = a + b /\ \A i \in 1..(a + b) : u[i] = first + i - 1
  <2>1. a + b \in Nat
    OBVIOUS
  <2>2. QED
    BY <2>1, NumbersFacts
<1> HIDE DEF s, t, u
<1>4. /\ s \o t \in Seq(Nat) /\ Len(s \o t) = Len(s) + Len(t)
      /\ \A i \in 1..Len(s) : (s \o t)[i] = s[i]
      /\ \A i \in 1..Len(t) : (s \o t)[Len(s) + i] = t[i]
  <2>1. s \in Seq(Nat) /\ t \in Seq(Nat)
    BY <1>1, <1>2
  <2>2. QED
    BY <2>1, ConcatParts
<1>5. ASSUME NEW i \in 1..(a + b)
      PROVE  (s \o t)[i] = u[i]
  <2>1. CASE i <= a
    <3>1. i \in 1..a
      BY <2>1
    <3>2. (s \o t)[i] = s[i] /\ s[i] = first + i - 1
      BY <1>1, <1>4, <3>1
    <3>3. QED
      BY <1>3, <3>2
  <2>2. CASE i > a
    <3> DEFINE j == i - a
    <3>1. j \in 1..b /\ a + j = i /\ (first + a) + j - 1 = first + i - 1
      BY <2>2
    <3> HIDE DEF j
    <3>2. (s \o t)[i] = t[j] /\ t[j] = (first + a) + j - 1
      BY <1>1, <1>2, <1>4, <3>1
    <3>3. QED
      BY <1>3, <3>1, <3>2
  <2>3. i <= a \/ i > a
    OBVIOUS
  <2>4. QED
    BY <2>1, <2>2, <2>3
<1>6. s \o t = u
  BY <1>1, <1>2, <1>3, <1>4, <1>5, SeqEqual
<1>7. QED
  BY <1>6 DEF s, t, u

\* The pieces of a message, one after the other, are its content.
LEMMA PiecesAreWhole ==
  ASSUME NEW m \in Message, NEW ps \in Seq(Piece),
         Contents(ps) = Numbers(1, m.first - 1)
  PROVE  Contents(ps \o Pieces(m)) = Numbers(1, m.first - 1 + m.size)
<1> DEFINE q == Pieces(m)
           x == m.first - 1
           length(k) == IF k < Count(m) THEN k * Full(m) ELSE m.size
           T == {k \in Nat : k <= Count(m) =>
                   Contents(ps \o SubSeq(q, 1, k)) = Numbers(1, x + length(k))}
<1>1. /\ q \in Seq(Piece) /\ Len(q) = Count(m) /\ Count(m) \in Nat \ {0}
      /\ Full(m) \in Nat /\ m.size \in Nat /\ x \in Nat /\ m.first = 1 + x
      /\ (Count(m) - 1) * Full(m) <= m.size
  BY PieceFacts, CountFacts DEF Message
<1>2. \A k \in Nat : k <= Count(m) => length(k) \in Nat
  BY <1>1
<1>3. \A i \in 1..Count(m) :
        /\ Size(m, i) \in Nat /\ (i - 1) * Full(m) \in Nat
        /\ q[i].content = Numbers(m.first + (i - 1) * Full(m), Size(m, i))
  BY PieceFacts
<1>4. /\ \A k \in Nat : k < Count(m) => length(k) = k * Full(m)
      /\ \A k \in Nat : k = Count(m) => length(k) = m.size
  OBVIOUS
<1> HIDE DEF q, x, length
<1>5. 0 \in T
  <2>1. ps \o SubSeq(q, 1, 0) = ps
    <3>1. SubSeq(q, 1, 0) = <<>>
      BY <1>1
    <3>2. QED
      BY <3>1
  <2>2. length(0) = 0
    BY <1>1, <1>4
  <2>3. x + length(0) = m.first - 1
    BY <1>1, <2>2
  <2>4. QED
    BY <2>1, <2>3
<1>6. ASSUME NEW k \in Nat, k \in T
      PROVE  k + 1 \in T
  <2>1. SUFFICES ASSUME k + 1 <= Count(m)
                 PROVE  Contents(ps \o SubSeq(q, 1, k + 1)) = Numbers(1, x + length(k + 1))
    OBVIOUS
  <2>2. /\ k < Len(q) /\ k < Count(m) /\ k + 1 \in 1..Count(m) /\ (k + 1) - 1 = k
        /\ k * Full(m) \in Nat
    BY <1>1, <2>1
  <2>3. /\ SubSeq(q, 1, k) \in Seq(Piece) /\ q[k + 1] \in Piece
        /\ SubSeq(q, 1, k + 1) = Append(SubSeq(q, 1, k), q[k + 1])
    BY <1>1, <2>2, TakeOneMore
  <2>4. /\ ps \o SubSeq(q, 1, k) \in Seq(Piece)
        /\ ps \o SubSeq(q, 1, k + 1) = Append(ps \o SubSeq(q, 1, k), q[k + 1])
    <3> HIDE DEF T
    <3>1. ps \o SubSeq(q, 1, k) \in Seq(Piece)
      BY <2>3, ConcatParts
    <3>2. ps \o Append(SubSeq(q, 1, k), q[k + 1]) = Append(ps \o SubSeq(q, 1, k), q[k + 1])
      BY <2>3, AppendToBoth
    <3>3. QED
      BY <2>3, <3>1, <3>2
  <2>5. Contents(ps \o SubSeq(q, 1, k + 1)) =
          Contents(ps \o SubSeq(q, 1, k)) \o q[k + 1].content
    BY <2>3, <2>4, ContentsAppend
  <2>6. /\ Contents(ps \o SubSeq(q, 1, k)) = Numbers(1, x + k * Full(m))
        /\ q[k + 1].content = Numbers(1 + (x + k * Full(m)), Size(m, k + 1))
    <3>1. Contents(ps \o SubSeq(q, 1, k)) = Numbers(1, x + length(k))
      BY <1>1, <1>6, <2>2
    <3>2. length(k) = k * Full(m)
      BY <1>4, <2>2
    <3>3. m.first + k * Full(m) = 1 + (x + k * Full(m))
      BY <1>1, <2>2
    <3>4. q[k + 1].content = Numbers(m.first + k * Full(m), Size(m, k + 1))
      BY <1>3, <2>2
    <3>5. QED
      BY <3>1, <3>2, <3>3, <3>4
  <2>7. x + k * Full(m) \in Nat /\ Size(m, k + 1) \in Nat
    BY <1>1, <1>3, <2>2
  <2>8. x + k * Full(m) + Size(m, k + 1) = x + length(k + 1)
    <3>1. CASE k + 1 < Count(m)
      <4>1. Size(m, k + 1) = Full(m) /\ length(k + 1) = (k + 1) * Full(m)
        BY <1>4, <3>1 DEF Size
      <4>2. (k + 1) * Full(m) = k * Full(m) + Full(m)
        BY <1>1
      <4>3. QED
        BY <1>1, <2>2, <4>1, <4>2
    <3>2. CASE ~(k + 1 < Count(m))
      <4>1. k + 1 = Count(m) /\ Count(m) - 1 = k
        BY <1>1, <2>2, <3>2
      <4>2. Size(m, k + 1) = m.size - k * Full(m) /\ length(k + 1) = m.size
        BY <1>4, <3>2, <4>1 DEF Size
      <4>3. QED
        BY <1>1, <2>2, <4>2
    <3>3. QED
      BY <3>1, <3>2
  <2>9. Numbers(1, x + k * Full(m)) \o Numbers(1 + (x + k * Full(m)), Size(m, k + 1))
          = Numbers(1, x + k * Full(m) + Size(m, k + 1))
    <3>1. 1 \in Nat \ {0}
      OBVIOUS
    <3>2. QED
      BY <2>7, <3>1, NumbersJoin
  <2>10. QED
    BY <2>5, <2>6, <2>8, <2>9
<1> HIDE DEF T
<1>7. Count(m) \in T
  BY <1>1, <1>5, <1>6, Induction
<1>8. Contents(ps \o SubSeq(q, 1, Count(m))) = Numbers(1, x + length(Count(m)))
  BY <1>1, <1>7 DEF T
<1>9. SubSeq(q, 1, Count(m)) = q
  BY <1>1, SubSeqFull
<1>10. x + length(Count(m)) = m.first - 1 + m.size
  BY <1>1, <1>4 DEF x
<1>11. QED
  BY <1>8, <1>9, <1>10 DEF q

\* Concatenation of sequences of numbers associates.
LEMMA AssociativeOnNumbers ==
  ASSUME NEW s \in Seq(Nat), NEW t \in Seq(Nat), NEW u \in Seq(Nat)
  PROVE  (s \o t) \o u = s \o (t \o u)
<1> DEFINE C == Nat
<1>1. s \in Seq(C) /\ t \in Seq(C) /\ u \in Seq(C)
  OBVIOUS
<1> HIDE DEF C
<1>2. QED
  BY <1>1, ConcatAssociative

\* The contents of a prefix are a prefix of the contents.
LEMMA ContentsOfPrefix ==
  ASSUME NEW e \in Seq(Piece), NEW k \in 0..Len(e), NEW x \in Nat,
         Contents(e) = Numbers(1, x)
  PROVE  \E y \in 0..x : Contents(SubSeq(e, 1, k)) = Numbers(1, y)
<1> DEFINE Begins(j) ==
             \E rest \in Seq(Nat) :
               Contents(SubSeq(e, 1, j)) = Contents(SubSeq(e, 1, k)) \o rest
           T == {j \in Nat : j \in k..Len(e) => Begins(j)}
<1>1. Len(e) \in Nat /\ k \in Nat /\ \A i \in 1..Len(e) : e[i] \in Piece
  BY LenProperties, ElementOfSeq
<1>2. \A j \in 0..Len(e) : SubSeq(e, 1, j) \in Seq(Piece)
  BY <1>1
<1>3. ASSUME NEW j \in 0..Len(e) PROVE Contents(SubSeq(e, 1, j)) \in Seq(Nat)
  <2>1. [type |-> 0, content |-> <<>>] \in Piece
    BY DEF Piece, Content
  <2>2. QED
    BY <1>2, <2>1, ContentsAppend
<1>4. ASSUME NEW j \in Nat, j \in T PROVE j + 1 \in T
  <2>1. SUFFICES ASSUME j + 1 \in k..Len(e)
                 PROVE  Begins(j + 1)
    <3> HIDE DEF Begins
    <3>1. QED
      OBVIOUS
  <2>2. CASE j + 1 = k
    <3>1. Contents(SubSeq(e, 1, k)) \in Seq(Nat) /\ <<>> \in Seq(Nat)
      BY <1>3
    <3>2. Contents(SubSeq(e, 1, k)) = Contents(SubSeq(e, 1, k)) \o <<>>
      BY <3>1
    <3>3. QED
      BY <2>2, <3>1, <3>2
  <2>3. CASE j + 1 # k
    <3>1. j \in k..Len(e) /\ j < Len(e) /\ j \in 0..Len(e)
      BY <1>1, <2>1, <2>3
    <3>2. PICK rest \in Seq(Nat) :
            Contents(SubSeq(e, 1, j)) = Contents(SubSeq(e, 1, k)) \o rest
      BY <1>4, <3>1
    <3>3. /\ SubSeq(e, 1, j) \in Seq(Piece) /\ e[j + 1] \in Piece
          /\ SubSeq(e, 1, j + 1) = Append(SubSeq(e, 1, j), e[j + 1])
      BY <3>1, TakeOneMore
    <3>4. Contents(SubSeq(e, 1, j + 1)) = Contents(SubSeq(e, 1, j)) \o e[j + 1].content
      BY <3>3, ContentsAppend
    <3>5. e[j + 1].content \in Seq(Nat) /\ Contents(SubSeq(e, 1, k)) \in Seq(Nat)
      BY <1>3, <3>3 DEF Piece, Content
    <3>6. (Contents(SubSeq(e, 1, k)) \o rest) \o e[j + 1].content =
            Contents(SubSeq(e, 1, k)) \o (rest \o e[j + 1].content)
      BY <3>5, AssociativeOnNumbers, Zenon
    <3>7. rest \o e[j + 1].content \in Seq(Nat)
      BY <3>5, ConcatParts
    <3>8. QED
      BY <3>2, <3>4, <3>5, <3>6, <3>7
  <2>4. QED
    BY <2>2, <2>3
<1>5. 0 \in T
  <2>1. SUFFICES ASSUME 0 \in k..Len(e)
                 PROVE  Begins(0)
    <3> HIDE DEF Begins
    <3>1. QED
      OBVIOUS
  <2>2. k = 0
    BY <1>1, <2>1
  <2>3. Contents(SubSeq(e, 1, k)) \in Seq(Nat) /\ <<>> \in Seq(Nat)
    BY <1>3
  <2>4. Contents(SubSeq(e, 1, k)) = Contents(SubSeq(e, 1, k)) \o <<>>
    BY <2>3
  <2>5. QED
    BY <2>2, <2>3, <2>4
<1> HIDE DEF T
<1>6. Len(e) \in T
  BY <1>1, <1>4, <1>5, Induction
<1>7. PICK rest \in Seq(Nat) :
        Contents(SubSeq(e, 1, Len(e))) = Contents(SubSeq(e, 1, k)) \o rest
  <2>1. Len(e) \in k..Len(e)
    BY <1>1
  <2>2. Begins(Len(e))
    <3> HIDE DEF Begins
    <3>1. QED
      BY <1>6, <2>1 DEF T
  <2>3. QED
    BY <2>2
<1> DEFINE c == Contents(SubSeq(e, 1, k))
<1>8. c \in Seq(Nat)
  BY <1>3
<1>9. SubSeq(e, 1, Len(e)) = e
  BY SubSeqFull
<1>10. Numbers(1, x) = c \o rest
  BY <1>7, <1>9
<1>11. /\ Numbers(1, x) \in Seq(Nat) /\ Len(Numbers(1, x)) = x
       /\ \A i \in 1..x : Numbers(1, x)[i] = 1 + i - 1
  <2>1. 1 \in Nat \ {0}
    OBVIOUS
  <2>2. QED
    BY <2>1, NumbersFacts
<1> HIDE DEF c
<1>12. /\ Len(c \o rest) = Len(c) + Len(rest) /\ Len(c) \in Nat /\ Len(rest) \in Nat
       /\ \A i \in 1..Len(c) : (c \o rest)[i] = c[i]
  BY <1>8, ConcatParts, LenProperties
<1>13. Len(c) \in 0..x
  BY <1>10, <1>11, <1>12
<1>14. \A i \in 1..Len(c) : c[i] = 1 + i - 1
  <2>1. TAKE i \in 1..Len(c)
  <2>2. i \in 1..x
    BY <1>12, <1>13
  <2>3. c[i] = Numbers(1, x)[i]
    BY <1>10, <1>12
  <2>4. QED
    BY <1>11, <2>2, <2>3
<1>15. c = Numbers(1, Len(c))
  <2>1. /\ Numbers(1, Len(c)) \in Seq(Nat) /\ Len(Numbers(1, Len(c))) = Len(c)
        /\ \A i \in 1..Len(c) : Numbers(1, Len(c))[i] = 1 + i - 1
    <3>1. 1 \in Nat \ {0}
      OBVIOUS
    <3>2. QED
      BY <1>12, <3>1, NumbersFacts
  <2>2. QED
    BY <1>8, <1>14, <2>1, SeqEqual
<1>16. QED
  BY <1>13, <1>15 DEF c

\* All that is to be received are the bytes given to send, in order.
AllBytes == Contents(Expected) = Numbers(1, NextByte - 1)

\* What has been received are the first bytes given to send.
BytesInOrder ==
  \E y \in 0..(NextByte - 1) : Contents(received) = Numbers(1, y)

\* Bytes are numbered from 1 on.
LEMMA NextByteType ==
  ASSUME sent \in Seq(Message)
  PROVE  NextByte \in Nat \ {0}
<1>1. CASE sent = <<>>
  BY <1>1 DEF NextByte
<1>2. CASE sent # <<>>
  <2>1. Last(sent) \in Message
    BY <1>2 DEF Last
  <2>2. QED
    BY <1>2, <2>1 DEF NextByte, Message
<1>3. QED
  BY <1>1, <1>2

\* A message more adds its bytes to what is to be received.
LEMMA MoreBytes ==
  ASSUME IInv, AllBytes, NEW type \in Type, NEW size \in Nat,
         NEW how \in {"send", "asyncSendMessage"}, NewMessage(type, size, how)
  PROVE  AllBytes'
<1> DEFINE m == [type |-> type, first |-> NextByte, size |-> size, how |-> how]
<1>1. /\ m \in Message /\ sent' # <<>> /\ Last(sent') = m
      /\ Expected' = Expected \o Pieces(m)
  <2>1. TypeInv /\ type \in Type /\ size \in Nat
    BY DEF IInv
  <2>2. QED
    BY <2>1, NewMessageFacts
<1>2. m.first = NextByte /\ m.size = size
  OBVIOUS
<1> HIDE DEF m
<1>3. sent \in Seq(Message)
  BY DEF IInv, TypeInv
<1>4. Expected \in Seq(Piece) /\ NextByte \in Nat \ {0}
  BY <1>3, ExpectedType, NextByteType
<1>5. Contents(Expected) = Numbers(1, m.first - 1)
  BY <1>2 DEF AllBytes
<1>6. Contents(Expected \o Pieces(m)) = Numbers(1, m.first - 1 + m.size)
  BY <1>1, <1>4, <1>5, PiecesAreWhole
<1>7. NextByte' = NextByte + size
  BY <1>1, <1>2 DEF NextByte
<1>8. NextByte' - 1 = m.first - 1 + m.size
  BY <1>2, <1>4, <1>7
<1>9. QED
  BY <1>1, <1>6, <1>8 DEF AllBytes

\* Nothing sent, no bytes.
LEMMA BytesInit == Init => AllBytes
<1> SUFFICES ASSUME Init PROVE AllBytes
  OBVIOUS
<1>1. Expected = <<>>
  BY InvInit, ExpectedEmpty DEF Init
<1>2. NextByte - 1 = 0
  BY DEF Init, NextByte
<1>3. Numbers(1, 0) = <<>>
  BY DEF Numbers
<1>4. QED
  BY <1>1, <1>2, <1>3, NoContents DEF AllBytes

\* Every step keeps the bytes of all that is to be received in order.
LEMMA BytesNext ==
  ASSUME IInv, AllBytes, [Next]_vars
  PROVE  AllBytes'
<1>1. ASSUME UNCHANGED sent
      PROVE  AllBytes'
  <2>1. Expected' = Expected /\ NextByte' = NextByte
    BY <1>1 DEF Expected, NextByte
  <2>2. QED
    BY <2>1 DEF AllBytes
<1>2. ASSUME NEW type \in Type, NEW size \in 0..MaxSize,
             send(type, size) \/ asyncSendMessage(type, size)
      PROVE  AllBytes'
  <2>1. size \in Nat
    BY SizesAssumption
  <2>2. \/ NewMessage(type, size, "send")
        \/ NewMessage(type, size, "asyncSendMessage")
    BY <1>2 DEF send, asyncSendMessage
  <2>3. QED
    BY <2>1, <2>2, MoreBytes
<1>3. CASE Sender \/ Reader \/ UNCHANGED vars
  BY <1>1, <1>3 DEF Sender, CutFullChunk, CutLastChunk, WriteUnit,
                    Reader, ReadHeader, ReadByte, Deliver, vars
<1>4. QED
  BY <1>2, <1>3 DEF Next

\* The bytes received are the first bytes given to send, in their order: cutting a
\* content into chunks and reading them loses, repeats and moves no byte (send and
\* asyncReadMessageImpl).
THEOREM ReceivedInOrder == Spec => []BytesInOrder
<1>1. Init => AllBytes
  BY BytesInit
<1>2. IInv /\ AllBytes /\ [Next]_vars => AllBytes'
  BY BytesNext
<1>3. IInv /\ AllBytes => BytesInOrder
  <2>1. SUFFICES ASSUME IInv, AllBytes PROVE BytesInOrder
    OBVIOUS
  <2> DEFINE k == Len(received)
  <2>2. received \in Seq(Piece) /\ sent \in Seq(Message)
    BY <2>1 DEF IInv, TypeInv
  <2>3. /\ Expected \in Seq(Piece) /\ Len(Expected) \in Nat
        /\ NextByte \in Nat \ {0}
    BY <2>2, ExpectedType, NextByteType
  <2>4. k \in 0..Len(Expected) /\ \A i \in 1..k : received[i] = Expected[i]
    BY <2>1, <2>2, <2>3 DEF IInv, Received
  <2>5. received = SubSeq(Expected, 1, k)
    <3>1. \A i \in 1..Len(Expected) : Expected[i] \in Piece
      BY <2>3, ElementOfSeq
    <3>2. /\ SubSeq(Expected, 1, k) \in Seq(Piece) /\ Len(SubSeq(Expected, 1, k)) = k
          /\ \A i \in 1..k : SubSeq(Expected, 1, k)[i] = Expected[i]
      BY <2>3, <2>4, <3>1
    <3>3. QED
      BY <2>2, <2>4, <3>2, SeqEqual
  <2>6. NextByte - 1 \in Nat /\ Contents(Expected) = Numbers(1, NextByte - 1)
    BY <2>1, <2>3 DEF AllBytes
  <2> HIDE DEF k
  <2>7. \E y \in 0..(NextByte - 1) : Contents(SubSeq(Expected, 1, k)) = Numbers(1, y)
    BY <2>3, <2>4, <2>6, ContentsOfPrefix
  <2>8. QED
    BY <2>5, <2>7 DEF BytesInOrder
<1>4. Spec => []IInv
  BY Invariant
<1>5. QED
  BY <1>1, <1>2, <1>3, <1>4, PTL DEF Spec
-----------------------------------------------------------------------------
(***************************************************************************)
(* Framing implements Channel.                                             *)
(***************************************************************************)

\* A reader in a message has room for it.
Roomy ==
  reader.step = "content" =>
    reader.message_size <= max_message_size /\ reader.type <= MAX_VALUE

\* Only a header that deserialize lets through is followed by its content.
LEMMA RoomyNext ==
  ASSUME IInv, Roomy, [Next]_vars
  PROVE  Roomy'
<1>1. ASSUME UNCHANGED <<reader, received>> PROVE Roomy'
  BY <1>1 DEF Roomy, max_message_size
<1>2. ASSUME NEW type, NEW size, send(type, size) \/ asyncSendMessage(type, size)
      PROVE  Roomy'
  BY <1>1, <1>2 DEF send, asyncSendMessage
<1>3. CASE Sender \/ UNCHANGED vars
  BY <1>1, <1>3 DEF Sender, CutFullChunk, CutLastChunk, WriteUnit, vars
<1>4. CASE ReadHeader
  <2>1. CASE deserialize(Head(wire))
    <3>1. /\ reader'.type = Head(wire).type
          /\ reader'.message_size = Head(wire).message_size
          /\ received' = received
      BY <1>4, <2>1 DEF ReadHeader
    <3>2. QED
      BY <2>1, <3>1 DEF Roomy, deserialize, max_message_size
  <2>2. CASE ~deserialize(Head(wire))
    <3>1. reader' = [reader EXCEPT !.step = "closed"]
      BY <1>4, <2>2 DEF ReadHeader
    <3>2. reader'.step = "closed"
      BY <3>1 DEF IInv, TypeInv
    <3>3. QED
      BY <3>2 DEF Roomy
  <2>3. QED
    BY <2>1, <2>2
<1>5. CASE ReadByte
  <2>1. /\ reader.step = "content" /\ received' = received
        /\ reader'.type = reader.type /\ reader'.message_size = reader.message_size
    BY <1>5 DEF ReadByte, IInv, TypeInv
  <2>2. QED
    BY <2>1 DEF Roomy, max_message_size
<1>6. CASE Deliver
  <2>1. reader'.step = "header"
    BY <1>6 DEF Deliver, Waiting
  <2>2. QED
    BY <2>1 DEF Roomy
<1>7. QED
  BY <1>2, <1>3, <1>4, <1>5, <1>6 DEF Next, Reader

\* A message given to send is given to the channel, as one or more pieces.
LEMMA SendGives ==
  ASSUME IInv, NEW type \in Type, NEW size \in Nat,
         NEW how \in {"send", "asyncSendMessage"}, NewMessage(type, size, how),
         UNCHANGED <<reader, received>>
  PROVE  Messages!Give
<1> DEFINE m == [type |-> type, first |-> NextByte, size |-> size, how |-> how]
<1>1. /\ m \in Message /\ Pieces(m) \in Seq(Piece)
      /\ Expected' = Expected \o Pieces(m)
      /\ Len(Expected') = Len(Expected) + Count(m)
  BY NewMessageFacts
<1> HIDE DEF m
<1>2. Count(m) \in Nat \ {0}
  BY <1>1, CountFacts
<1>3. Expected \in Seq(Piece) /\ Len(Expected) \in Nat
  BY ExpectedType DEF IInv, TypeInv
<1>4. /\ Expected' \in Seq(Piece)
      /\ \A i \in 1..Len(Expected) : Expected'[i] = Expected[i]
  BY <1>1, <1>3, ConcatParts
<1>5. Len(Expected) <= Len(Expected') /\ Len(Expected) # Len(Expected')
  BY <1>1, <1>2, <1>3
<1>6. IsPrefix(Expected, Expected')
  BY <1>3, <1>4, <1>5, PrefixByElements
<1>7. Expected # Expected'
  BY <1>5
<1>8. Messages!IsStrictPrefix(Expected, Expected')
  BY <1>6, <1>7 DEF IsPrefix, Messages!IsStrictPrefix, Messages!IsPrefix
<1>9. QED
  BY <1>8 DEF Messages!Give

\* A header that is refused is that of a message there is no room for.
LEMMA RefusalRefuses ==
  ASSUME IInv, ReadHeader, ~deserialize(Head(wire))
  PROVE  Messages!Refuse
<1>1. /\ reader.step = "header" /\ reader' = [reader EXCEPT !.step = "closed"]
      /\ received' = received /\ sent' = sent
  BY DEF ReadHeader
<1>2. reader'.step = "closed" /\ reader.step # "closed"
  BY <1>1 DEF IInv, TypeInv
<1>3. Expected' = Expected
  BY <1>1 DEF Expected
<1>4. Refused'
  BY ReadHeaderStep DEF IInv
<1>5. /\ Len(received) < Len(Expected)
      /\ \/ Expected[Len(received) + 1].type > MAX_VALUE
         \/ Len(Expected[Len(received) + 1].content) > max_message_size
  BY <1>1, <1>2, <1>3, <1>4 DEF Refused, NextPiece, max_message_size
<1> DEFINE p == Expected[Len(received) + 1]
<1>6. p \in Piece /\ Len(p.content) \in Nat /\ p.type \in Nat
  <2>1. /\ received \in Seq(Piece) /\ Len(received) \in Nat
        /\ Len(Expected) \in Nat /\ \A i \in 1..Len(Expected) : Expected[i] \in Piece
    BY ExpectedType, LenProperties DEF IInv, TypeInv
  <2>2. p \in Piece
    BY <1>5, <2>1
  <2> HIDE DEF p
  <2>3. p.content \in Seq(Nat) /\ p.type \in Nat
    BY <2>2 DEF Piece, Content
  <2>4. QED
    BY <2>2, <2>3, LenProperties
<1>7. p.type > MAX_VALUE \/ Len(p.content) > max_message_size
  BY <1>5
<1> HIDE DEF p
<1>8. p \notin Fitting(max_message_size)
  <2>1. max_message_size \in Nat /\ MAX_VALUE \in Nat
    BY SizesAssumption DEF max_message_size
  <2>2. QED
    BY <1>6, <1>7, <2>1 DEF Fitting
<1>9. Messages!Room = Fitting(max_message_size)
  BY DEF Messages!Room, max_message_size
<1>10. Messages!NextMessage = p
  BY DEF Messages!NextMessage, p
<1>11. QED
  BY <1>1, <1>2, <1>3, <1>5, <1>8, <1>9, <1>10 DEF Messages!Refuse, Messages!MessageWaits

\* The piece that is delivered is the next of the channel, and there is room for it.
LEMMA DeliveryTakes ==
  ASSUME IInv, Roomy, Deliver
  PROVE  Messages!Take
<1> DEFINE n == Len(received)
           p == [type |-> reader.type, content |-> reader.content]
<1>1. /\ reader.step = "content" /\ Len(reader.content) = reader.message_size
      /\ received' = Append(received, p) /\ reader' = Waiting /\ sent' = sent
  BY DEF Deliver
<1>2. reader'.step = "header"
  BY <1>1 DEF Waiting
<1>3. Expected' = Expected
  BY <1>1 DEF Expected
<1>4. /\ received \in Seq(Piece) /\ n \in Nat /\ p \in Piece
      /\ reader.type \in Nat /\ reader.content \in Seq(Nat)
  BY LenProperties DEF IInv, TypeInv, Piece, Content
<1>5. n < Len(Expected)
  BY <1>1 DEF IInv, Reading
<1>6. p \in Fitting(max_message_size)
  <2>1. reader.type <= MAX_VALUE /\ Len(reader.content) <= max_message_size
    BY <1>1 DEF Roomy
  <2>2. QED
    BY <1>4, <2>1 DEF Fitting
<1> HIDE DEF p
<1>7. Len(received') = n + 1 /\ received'[n + 1] = p
  BY <1>1, <1>4, AppendProperties
<1> HIDE DEF n
<1>8. Received'
  BY DeliverStep DEF IInv
<1>9. n + 1 \in 1..Len(received')
  BY <1>4, <1>7
<1>10. p = Expected[n + 1]
  BY <1>3, <1>7, <1>8, <1>9 DEF Received
<1>11. Messages!Room = Fitting(max_message_size) /\ Messages!NextMessage = p
  BY <1>10 DEF Messages!Room, Messages!NextMessage, max_message_size, n
<1>12. Messages!MessageWaits
  BY <1>1, <1>5 DEF Messages!MessageWaits, n
<1>13. QED
  BY <1>1, <1>2, <1>3, <1>6, <1>11, <1>12 DEF Messages!Take

\* Every step is one of the channel or leaves it alone.
LEMMA StepOfChannel ==
  ASSUME IInv, Roomy, [Next]_vars
  PROVE  [Messages!CNext]_Messages!cvars
<1>1. ASSUME UNCHANGED <<sent, received>>, (reader'.step = "closed") = (reader.step = "closed")
      PROVE  UNCHANGED Messages!cvars
  <2>1. Expected' = Expected
    BY <1>1 DEF Expected
  <2>2. QED
    BY <1>1, <2>1 DEF Messages!cvars
<1>2. ASSUME NEW type \in Type, NEW size \in 0..MaxSize,
             send(type, size) \/ asyncSendMessage(type, size)
      PROVE  Messages!Give
  <2>1. size \in Nat
    BY SizesAssumption
  <2>2. /\ \/ NewMessage(type, size, "send")
           \/ NewMessage(type, size, "asyncSendMessage")
        /\ UNCHANGED <<reader, received>>
    BY <1>2 DEF send, asyncSendMessage
  <2>3. QED
    BY <2>1, <2>2, SendGives
<1>3. CASE Sender \/ UNCHANGED vars
  <2>1. UNCHANGED <<sent, received, reader>>
    BY <1>3 DEF Sender, CutFullChunk, CutLastChunk, WriteUnit, vars
  <2>2. QED
    BY <1>1, <2>1
<1>4. CASE ReadHeader
  <2>1. CASE deserialize(Head(wire))
    <3>1. /\ UNCHANGED <<sent, received>>
          /\ reader.step = "header" /\ reader'.step = "content"
      BY <1>4, <2>1 DEF ReadHeader
    <3>2. QED
      BY <1>1, <3>1
  <2>2. CASE ~deserialize(Head(wire))
    BY <1>4, <2>2, RefusalRefuses DEF Messages!CNext
  <2>3. QED
    BY <2>1, <2>2
<1>5. CASE ReadByte
  <2>1. UNCHANGED <<sent, received>> /\ reader'.step = reader.step
    BY <1>5 DEF ReadByte, IInv, TypeInv
  <2>2. QED
    BY <1>1, <2>1
<1>6. CASE Deliver
  BY <1>6, DeliveryTakes DEF Messages!CNext
<1>7. QED
  BY <1>2, <1>3, <1>4, <1>5, <1>6 DEF Next, Reader, Messages!CNext

\* The sender's loop, the chunks on their way and the reader's steps are to the users
\* of a connection a channel that takes messages one by one, in order, and each if
\* and only if there is room for it (SocketBase).
THEOREM ImplementsChannelHolds == Spec => ImplementsChannel
<1>1. Init => Messages!CInit
  <2>1. SUFFICES ASSUME Init PROVE Messages!CInit
    OBVIOUS
  <2>2. Expected = <<>>
    BY <2>1, ExpectedEmpty DEF Init
  <2>3. received = <<>> /\ reader.step # "closed"
    BY <2>1 DEF Init, Waiting
  <2>4. QED
    BY <2>2, <2>3 DEF Messages!CInit
<1>2. Init => Roomy
  BY DEF Init, Waiting, Roomy
<1>3. IInv /\ Roomy /\ [Next]_vars => Roomy'
  BY RoomyNext
<1>4. IInv /\ Roomy /\ [Next]_vars => [Messages!CNext]_Messages!cvars
  BY StepOfChannel
<1>5. Spec => []IInv
  BY Invariant
<1>6. Spec => []Roomy
  BY <1>2, <1>3, <1>5, PTL DEF Spec
<1>7. QED
  BY <1>1, <1>4, <1>5, <1>6, PTL DEF Spec, ImplementsChannel, Messages!CSpec
=============================================================================
