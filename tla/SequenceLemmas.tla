--------------------------- MODULE SequenceLemmas ---------------------------
(***************************************************************************)
(* What the proofs share about sequences and the recursive functions over  *)
(* them.  Induction over the naturals is stated of sets, not of operators, *)
(* so that it can be cited.                                                 *)
(***************************************************************************)
EXTENDS Integers, SequencesExt, SequenceTheorems, WellFoundedInduction,
        NaturalsInduction, TLAPS

-----------------------------------------------------------------------------
(* Induction.                                                               *)

LEMMA LeastElement ==
  ASSUME NEW S, S \subseteq Nat, S # {}
  PROVE  \E n \in S : \A m \in S : n <= m
<1> DEFINE R == OpToRel(<, Nat)
<1>1. IsWellFoundedOn(R, Nat)
  BY NatLessThanWellFounded
<1>2. \A m, n \in Nat : m < n => <<m, n>> \in R
  BY DEF OpToRel
<1> HIDE DEF R
<1>3. PICK n \in S : \A m \in S : ~ (<<m, n>> \in R)
  BY <1>1, WFMin
<1>4. \A m \in S : ~ (m < n)
  BY <1>2, <1>3
<1> QED
  BY <1>4

LEMMA NatInd ==
  ASSUME NEW P, 0 \in P, \A n \in Nat : n \in P => n + 1 \in P
  PROVE  Nat \subseteq P
<1> SUFFICES ASSUME NEW k \in Nat, k \notin P PROVE FALSE
  OBVIOUS
<1>1. PICK n \in Nat \ P : \A m \in Nat \ P : n <= m
  BY LeastElement
<1>2. n # 0 /\ n - 1 \in Nat /\ n - 1 \in P
  BY <1>1
<1> QED
  BY <1>1, <1>2

\* induction over sequences that grow at the end
LEMMA SeqInd ==
  ASSUME NEW S, NEW P, <<>> \in P,
         \A s \in Seq(S), e \in S : s \in P => Append(s, e) \in P
  PROVE  Seq(S) \subseteq P
<1> DEFINE Q == {n \in Nat : \A s \in Seq(S) : Len(s) = n => s \in P}
<1>1. 0 \in Q
  BY EmptySeq
<1>2. ASSUME NEW n \in Nat, n \in Q
      PROVE  n + 1 \in Q
  <2> SUFFICES ASSUME NEW s \in Seq(S), Len(s) = n + 1
               PROVE  s \in P
    OBVIOUS
  <2>1. s # <<>>
    BY EmptySeq
  <2>2. PICK t \in Seq(S), e \in S : s = Append(t, e)
    BY <2>1, SequenceEmptyOrAppend
  <2>3. Len(t) = n
    <3>1. Len(s) = Len(t) + 1 /\ Len(t) \in Nat
      BY <2>2, AppendProperties, LenProperties
    <3> QED
      BY <3>1
  <2> QED
    BY <1>2, <2>2, <2>3
<1> HIDE DEF Q
<1>3. Nat \subseteq Q
  BY <1>1, <1>2, NatInd
<1> QED
  BY <1>3, LenProperties DEF Q

-----------------------------------------------------------------------------
(* Short sequences, heads and tails.                                       *)

LEMMA NoElements ==
  ASSUME NEW S
  PROVE  /\ <<>> \in Seq(S)
         /\ Len(<<>>) = 0
         /\ DOMAIN <<>> = {}
OBVIOUS

LEMMA OneElement ==
  ASSUME NEW S, NEW s \in Seq(S), Len(s) <= 1
  PROVE  /\ \A i \in DOMAIN s : i = 1 /\ Len(s) = 1 /\ s[1] \in S
         /\ s # <<>> => Len(s) = 1 /\ DOMAIN s = {1}
<1>1. /\ Len(s) \in Nat /\ DOMAIN s = 1..Len(s)
      /\ s # <<>> => Len(s) \in Nat \ {0}
  BY EmptySeq, LenProperties
<1>2. \A i \in 1..Len(s) : s[i] \in S
  BY ElementOfSeq
<1> QED
  BY <1>1, <1>2

LEMMA Singleton ==
  ASSUME NEW S, NEW e \in S
  PROVE  /\ Append(<<>>, e) \in Seq(S)
         /\ Len(Append(<<>>, e)) = 1
         /\ Append(<<>>, e)[1] = e
OBVIOUS

LEMMA OnlyElement ==
  ASSUME NEW S, NEW s \in Seq(S), Len(s) = 1
  PROVE  DOMAIN s = {1} /\ s # <<>>
OBVIOUS

LEMMA Replaced ==
  ASSUME NEW S, NEW s \in Seq(S), Len(s) = 1, NEW e \in S
  PROVE  /\ [s EXCEPT ![1] = e] \in Seq(S)
         /\ Len([s EXCEPT ![1] = e]) = 1
         /\ [s EXCEPT ![1] = e][1] = e
OBVIOUS

LEMMA RemoveOnly ==
  ASSUME NEW S, NEW w \in Seq(S), Len(w) = 1
  PROVE  RemoveAt(w, 1) = <<>>
<1>1. SubSeq(w, 1, 0) = <<>>
  OBVIOUS
<1>2. SubSeq(w, 2, 1) = <<>>
  OBVIOUS
<1> QED
  BY <1>1, <1>2 DEF RemoveAt

LEMMA HeadTail ==
  ASSUME NEW S, NEW q \in Seq(S), q # <<>>
  PROVE  /\ Head(q) \in S
         /\ Tail(q) \in Seq(S)
         /\ q = <<Head(q)>> \o Tail(q)
         /\ Len(Tail(q)) = Len(q) - 1
         /\ Head(q) = q[1]
OBVIOUS

LEMMA AppendHead ==
  ASSUME NEW S, NEW q \in Seq(S), NEW m \in S
  PROVE  /\ Append(q, m) \in Seq(S)
         /\ Append(q, m) # <<>>
         /\ Len(Append(q, m)) = Len(q) + 1
         /\ q # <<>> => Head(Append(q, m)) = Head(q)
         /\ q = <<>> => Head(Append(q, m)) = m
OBVIOUS

LEMMA AppendConcat ==
  ASSUME NEW S, NEW u \in Seq(S), NEW p \in Seq(S), NEW m \in S
  PROVE  u \o Append(p, m) = Append(u \o p, m)
OBVIOUS

\* the front of p moves to the end of u
LEMMA MoveHead ==
  ASSUME NEW S, NEW u \in Seq(S), NEW p \in Seq(S), p # <<>>
  PROVE  Append(u, Head(p)) \o Tail(p) = u \o p
<1>1. /\ Head(p) \in S /\ Tail(p) \in Seq(S)
      /\ Len(Tail(p)) = Len(p) - 1
      /\ \A i \in 1..Len(Tail(p)) : Tail(p)[i] = p[i + 1]
      /\ Len(p) \in Nat \ {0} /\ Len(u) \in Nat
  BY HeadTailProperties, LenProperties, EmptySeq
<1>2. /\ Append(u, Head(p)) \in Seq(S)
      /\ Len(Append(u, Head(p))) = Len(u) + 1
      /\ \A i \in 1..Len(u) : Append(u, Head(p))[i] = u[i]
      /\ Append(u, Head(p))[Len(u) + 1] = p[1]
  BY <1>1, AppendProperties
<1> DEFINE a == Append(u, Head(p))
           b == Tail(p)
<1> HIDE DEF a, b
<1>3. /\ a \o b \in Seq(S)
      /\ Len(a \o b) = Len(u) + Len(p)
      /\ \A i \in 1..(Len(u) + Len(p)) :
           (a \o b)[i] = IF i <= Len(u) + 1 THEN a[i] ELSE b[i - (Len(u) + 1)]
  BY <1>1, <1>2, ConcatProperties DEF a, b
<1>4. /\ u \o p \in Seq(S)
      /\ Len(u \o p) = Len(u) + Len(p)
      /\ \A i \in 1..(Len(u) + Len(p)) :
           (u \o p)[i] = IF i <= Len(u) THEN u[i] ELSE p[i - Len(u)]
  BY ConcatProperties
<1>5. ASSUME NEW i \in 1..(Len(u) + Len(p))
      PROVE  (a \o b)[i] = (u \o p)[i]
  <2>1. CASE i <= Len(u)
    BY <1>1, <1>2, <1>3, <1>4, <2>1 DEF a
  <2>2. CASE i = Len(u) + 1
    BY <1>1, <1>2, <1>3, <1>4, <2>2 DEF a
  <2>3. CASE i > Len(u) + 1
    <3>1. i - (Len(u) + 1) \in 1..Len(b)
      BY <1>1, <2>3 DEF b
    <3>2. b[i - (Len(u) + 1)] = p[i - Len(u)]
      BY <1>1, <3>1 DEF b
    <3> QED
      BY <1>1, <1>3, <1>4, <2>3, <3>2
  <2>4. i \in Int /\ Len(u) \in Int
    BY <1>1
  <2>5. i <= Len(u) \/ i = Len(u) + 1 \/ i > Len(u) + 1
    BY <2>4
  <2> QED
    BY <2>1, <2>2, <2>3, <2>5
<1>6. a \o b = u \o p
  BY <1>3, <1>4, <1>5, SeqEqual
<1> QED
  BY <1>6 DEF a, b

LEMMA HeadOfConcat ==
  ASSUME NEW S, NEW q \in Seq(S), NEW p \in Seq(S), q # <<>>
  PROVE  /\ q \o p # <<>>
         /\ Head(q \o p) = Head(q)
         /\ Tail(q \o p) = Tail(q) \o p
OBVIOUS

LEMMA ConcatAssoc ==
  ASSUME NEW S
  PROVE  \A a, b, c \in Seq(S) : (a \o b) \o c = a \o (b \o c)
OBVIOUS

\* a sequence of one element, in front and behind
LEMMA ConsHead ==
  ASSUME NEW S, NEW c, <<c>> \in Seq(S), NEW t \in Seq(S)
  PROVE  <<c>> \o t # <<>> /\ Head(<<c>> \o t) = c /\ Tail(<<c>> \o t) = t
OBVIOUS

LEMMA AppendOne ==
  ASSUME NEW S, NEW s \in Seq(S), NEW c, <<c>> \in Seq(S)
  PROVE  s \o <<c>> = Append(s, c)
OBVIOUS

LEMMA ThreeParts ==
  ASSUME NEW S, NEW a \in Seq(S), NEW b \in Seq(S), NEW c \in Seq(S)
  PROVE  (a \o b) \o c = a \o (b \o c)
OBVIOUS

-----------------------------------------------------------------------------
(* FlattenSeq.                                                              *)

\* f is the function by which FlattenSeq flattens the first n elements of s
Flat(s, n, f) ==
  f = [i \in 1..n |-> IF i = 1 THEN s[i] ELSE f[i - 1] \o s[i]]

LEMMA FlatExists ==
  ASSUME NEW s, NEW n \in Nat
  PROVE  \E f : Flat(s, n, f)
<1> DEFINE P == {k \in Nat : \E f : Flat(s, k, f)}
<1>1. 0 \in P
  <2>1. Flat(s, 0, [i \in {} |-> s])
    BY DEF Flat
  <2> QED
    BY <2>1
<1>2. ASSUME NEW k \in Nat, k \in P
      PROVE  k + 1 \in P
  <2>1. PICK f : Flat(s, k, f)
    BY <1>2
  <2> DEFINE e == IF k = 0 THEN s[1] ELSE f[k] \o s[k + 1]
             g == [i \in 1..(k + 1) |-> IF i = k + 1 THEN e ELSE f[i]]
  <2>2. \A i \in 1..k : f[i] = IF i = 1 THEN s[i] ELSE f[i - 1] \o s[i]
    BY <2>1 DEF Flat
  <2>3. ASSUME NEW i \in 1..(k + 1)
        PROVE  g[i] = IF i = 1 THEN s[i] ELSE g[i - 1] \o s[i]
    <3>1. CASE i = k + 1
      BY <3>1
    <3>2. CASE i # k + 1
      <4>1. i \in 1..k /\ g[i] = f[i]
        BY <3>2
      <4>2. i # 1 => i - 1 \in 1..(k + 1) /\ g[i - 1] = f[i - 1]
        BY <3>2
      <4> QED
        BY <4>1, <4>2, <2>2
    <3> QED
      BY <3>1, <3>2
  <2>4. g = [i \in 1..(k + 1) |-> g[i]]
    OBVIOUS
  <2> HIDE DEF g
  <2>5. Flat(s, k + 1, g)
    BY <2>3, <2>4 DEF Flat
  <2> QED
    BY <2>5
<1> HIDE DEF P
<1>3. n \in P
  BY <1>1, <1>2, NatInd
<1> QED
  BY <1>3 DEF P

LEMMA FlatStep ==
  ASSUME NEW s, NEW n, NEW f, Flat(s, n, f)
  PROVE  \A k \in Nat : k + 1 \in 1..n =>
           f[k + 1] = IF k = 0 THEN s[k + 1] ELSE f[k] \o s[k + 1]
<1>1. \A i \in 1..n : f[i] = IF i = 1 THEN s[i] ELSE f[i - 1] \o s[i]
  BY DEF Flat
<1>2. \A k \in Nat : k + 1 - 1 = k /\ (k + 1 = 1 <=> k = 0)
  OBVIOUS
<1> QED
  BY <1>1, <1>2

\* it does not depend on what follows
LEMMA FlatAgree ==
  ASSUME NEW s, NEW a, NEW n \in Nat, NEW f, NEW g,
         Flat(s, n, f), Flat(a, n + 1, g), \A i \in 1..n : a[i] = s[i]
  PROVE  n # 0 => f[n] = g[n]
<1> DEFINE P == {k \in Nat : k \in 1..n => f[k] = g[k]}
<1>1. 0 \in P
  OBVIOUS
<1>2. ASSUME NEW k \in Nat, k \in P
      PROVE  k + 1 \in P
  <2> SUFFICES ASSUME k + 1 \in 1..n PROVE f[k + 1] = g[k + 1]
    OBVIOUS
  <2>1. f[k + 1] = IF k = 0 THEN s[k + 1] ELSE f[k] \o s[k + 1]
    BY FlatStep
  <2>2. g[k + 1] = IF k = 0 THEN a[k + 1] ELSE g[k] \o a[k + 1]
    <3>1. k + 1 \in 1..(n + 1)
      OBVIOUS
    <3> QED
      BY <3>1, FlatStep
  <2>3. k # 0 => f[k] = g[k]
    BY <1>2
  <2> QED
    BY <2>1, <2>2, <2>3
<1> HIDE DEF P
<1>3. n \in P
  BY <1>1, <1>2, NatInd
<1> QED
  BY <1>3 DEF P

LEMMA FlatType ==
  ASSUME NEW S, NEW s \in Seq(Seq(S)), NEW f, Flat(s, Len(s), f)
  PROVE  \A i \in 1..Len(s) : f[i] \in Seq(S)
<1> DEFINE P == {k \in Nat : k \in 1..Len(s) => f[k] \in Seq(S)}
<1>1. 0 \in P
  OBVIOUS
<1>2. ASSUME NEW k \in Nat, k \in P
      PROVE  k + 1 \in P
  <2> SUFFICES ASSUME k + 1 \in 1..Len(s) PROVE f[k + 1] \in Seq(S)
    OBVIOUS
  <2>1. f[k + 1] = IF k = 0 THEN s[k + 1] ELSE f[k] \o s[k + 1]
    BY FlatStep
  <2>2. s[k + 1] \in Seq(S)
    BY ElementOfSeq
  <2>3. k # 0 => f[k] \in Seq(S)
    BY <1>2, LenProperties
  <2>4. k # 0 => f[k] \o s[k + 1] \in Seq(S)
    BY <2>2, <2>3, ConcatProperties
  <2> QED
    BY <2>1, <2>2, <2>4
<1> HIDE DEF P
<1>3. Nat \subseteq P
  BY <1>1, <1>2, NatInd
<1> QED
  BY <1>3, LenProperties DEF P

\* FlattenSeq is the last value of that function
LEMMA FlattenIs ==
  ASSUME NEW S, NEW s \in Seq(S)
  PROVE  /\ s = <<>> => FlattenSeq(s) = <<>>
         /\ s # <<>> => \E f : Flat(s, Len(s), f) /\ FlattenSeq(s) = f[Len(s)]
<1>1. Len(s) \in Nat /\ (Len(s) = 0 <=> s = <<>>)
  BY LenProperties, EmptySeq
<1> DEFINE c == CHOOSE f : Flat(s, Len(s), f)
<1>2. s # <<>> => FlattenSeq(s) = c[Len(s)]
  BY <1>1 DEF FlattenSeq, Flat
<1>3. Flat(s, Len(s), c)
  <2>1. \E f : Flat(s, Len(s), f)
    BY <1>1, FlatExists
  <2> QED
    BY <2>1
<1>4. s = <<>> => FlattenSeq(s) = <<>>
  BY <1>1 DEF FlattenSeq
<1> QED
  BY <1>2, <1>3, <1>4

LEMMA FlattenType ==
  ASSUME NEW S, NEW s \in Seq(Seq(S))
  PROVE  FlattenSeq(s) \in Seq(S)
<1>1. CASE s = <<>>
  BY <1>1, FlattenIs, EmptySeq
<1>2. CASE s # <<>>
  <2>1. PICK f : Flat(s, Len(s), f) /\ FlattenSeq(s) = f[Len(s)]
    BY <1>2, FlattenIs
  <2>2. Len(s) \in 1..Len(s)
    BY <1>2, LenProperties, EmptySeq
  <2> QED
    BY <2>1, <2>2, FlatType
<1> QED
  BY <1>1, <1>2

LEMMA FlattenAppend ==
  ASSUME NEW S, NEW s \in Seq(Seq(S)), NEW e \in Seq(S)
  PROVE  FlattenSeq(Append(s, e)) = FlattenSeq(s) \o e
<1> DEFINE a == Append(s, e)
           n == Len(s)
<1>1. /\ a \in Seq(Seq(S)) /\ Len(a) = n + 1 /\ a # <<>>
      /\ \A i \in 1..n : a[i] = s[i]
      /\ a[n + 1] = e
      /\ n \in Nat /\ (n = 0 <=> s = <<>>)
  BY AppendProperties, LenProperties, EmptySeq
<1> HIDE DEF a, n
<1>2. PICK g : Flat(a, n + 1, g) /\ FlattenSeq(a) = g[n + 1]
  BY <1>1, FlattenIs
<1>3. g[n + 1] = IF n = 0 THEN a[n + 1] ELSE g[n] \o a[n + 1]
  <2>1. n \in Nat /\ n + 1 \in 1..(n + 1)
    BY <1>1
  <2>2. \A k \in Nat : k + 1 \in 1..(n + 1) =>
           g[k + 1] = IF k = 0 THEN a[k + 1] ELSE g[k] \o a[k + 1]
    BY <1>2, FlatStep
  <2> QED
    BY <2>1, <2>2
<1>4. CASE s = <<>>
  <2>1. FlattenSeq(a) = e
    BY <1>1, <1>2, <1>3, <1>4
  <2>2. FlattenSeq(s) = <<>>
    BY <1>4, FlattenIs
  <2> QED
    BY <2>1, <2>2, ConcatEmptySeq DEF a
<1>5. CASE s # <<>>
  <2>1. PICK f : Flat(s, n, f) /\ FlattenSeq(s) = f[n]
    BY <1>5, FlattenIs DEF n
  <2>2. f[n] = g[n]
    <3>1. n # 0
      BY <1>1, <1>5
    <3> QED
      BY <1>1, <1>2, <2>1, <3>1, FlatAgree
  <2>3. g[n + 1] = g[n] \o e
    BY <1>1, <1>3, <1>5
  <2> QED
    BY <1>2, <2>1, <2>2, <2>3 DEF a
<1> QED
  BY <1>4, <1>5

\* the elements of s, the first of them first
LEMMA FlattenHead ==
  ASSUME NEW S, NEW s \in Seq(Seq(S)), s # <<>>
  PROVE  FlattenSeq(s) = Head(s) \o FlattenSeq(Tail(s))
<1>0. \A a, b, c \in Seq(S) : (a \o b) \o c = a \o (b \o c)
  BY ONLY ConcatAssoc
<1> DEFINE P == {t \in Seq(Seq(S)) :
                   t # <<>> => FlattenSeq(t) = Head(t) \o FlattenSeq(Tail(t))}
<1>1. <<>> \in P
  BY EmptySeq
<1>2. ASSUME NEW t \in Seq(Seq(S)), NEW e \in Seq(S), t \in P
      PROVE  Append(t, e) \in P
  <2>1. /\ Append(t, e) \in Seq(Seq(S))
        /\ FlattenSeq(Append(t, e)) = FlattenSeq(t) \o e
        /\ Head(Append(t, e)) = IF t = <<>> THEN e ELSE Head(t)
        /\ Tail(Append(t, e)) = IF t = <<>> THEN <<>> ELSE Append(Tail(t), e)
    BY AppendProperties, FlattenAppend, HeadTailAppend
  <2>2. CASE t = <<>>
    <3>1. FlattenSeq(<<>>) = <<>>
      BY EmptySeq, FlattenIs
    <3>2. <<>> \o e = e /\ e \o <<>> = e
      BY ConcatEmptySeq
    <3> QED
      BY <2>1, <2>2, <3>1, <3>2
  <2>3. CASE t # <<>>
    <3>1. Head(t) \in Seq(S) /\ Tail(t) \in Seq(Seq(S))
      BY <2>3, HeadTailProperties
    <3>2. FlattenSeq(Append(Tail(t), e)) = FlattenSeq(Tail(t)) \o e
      BY <3>1, FlattenAppend
    <3>3. FlattenSeq(Tail(t)) \in Seq(S)
      BY <3>1, FlattenType
    <3>4. (Head(t) \o FlattenSeq(Tail(t))) \o e
            = Head(t) \o (FlattenSeq(Tail(t)) \o e)
      <4>2. e \in Seq(S)
        OBVIOUS
      <4> QED
        BY <1>0, <3>1, <3>3, <4>2, Zenon
    <3>5. FlattenSeq(t) = Head(t) \o FlattenSeq(Tail(t))
      BY <1>2, <2>3
    <3> QED
      BY <2>1, <2>3, <3>2, <3>4, <3>5
  <2> QED
    BY <2>2, <2>3, <2>1
<1> HIDE DEF P
<1>3. s \in P
  BY <1>1, <1>2, SeqInd
<1> QED
  BY <1>3 DEF P

-----------------------------------------------------------------------------
(* What a function makes of each element, joined.                           *)

Mapped(F, q) == [i \in DOMAIN q |-> F[q[i]]]

FlatMap(F, q) == FlattenSeq(Mapped(F, q))

LEMMA FunSeq ==
  ASSUME NEW S, NEW n \in Nat, NEW f \in [1..n -> S]
  PROVE  f \in Seq(S) /\ Len(f) = n
OBVIOUS

LEMMA MappedElements ==
  ASSUME NEW F, NEW D, NEW q \in Seq(D)
  PROVE  /\ Len(Mapped(F, q)) = Len(q)
         /\ \A i \in 1..Len(q) : Mapped(F, q)[i] = F[q[i]]
<1> DEFINE T == {F[d] : d \in D}
<1>1. Len(q) \in Nat /\ DOMAIN q = 1..Len(q)
  BY LenProperties
<1>2. \A i \in 1..Len(q) : F[q[i]] \in T
  BY ElementOfSeq
<1> HIDE DEF T
<1>3. Mapped(F, q) \in [1..Len(q) -> T]
  BY <1>1, <1>2 DEF Mapped
<1>4. \A i \in 1..Len(q) : Mapped(F, q)[i] = F[q[i]]
  BY <1>1 DEF Mapped
<1> QED
  BY <1>1, <1>3, <1>4, FunSeq

LEMMA MappedType ==
  ASSUME NEW D, NEW T, NEW F \in [D -> T], NEW q \in Seq(D)
  PROVE  Mapped(F, q) \in Seq(T)
<1>1. Len(q) \in Nat /\ DOMAIN q = 1..Len(q)
  BY LenProperties
<1>2. \A i \in 1..Len(q) : q[i] \in D
  BY ElementOfSeq
<1>3. Mapped(F, q) \in [1..Len(q) -> T]
  BY <1>1, <1>2 DEF Mapped
<1> QED
  BY <1>1, <1>3, FunSeq

LEMMA MappedAppend ==
  ASSUME NEW D, NEW T, NEW F \in [D -> T], NEW q \in Seq(D), NEW e \in D
  PROVE  Mapped(F, Append(q, e)) = Append(Mapped(F, q), F[e])
<1> DEFINE a == Append(q, e)
           m == Mapped(F, q)
           l == Mapped(F, a)
           r == Append(m, F[e])
<1>1. /\ a \in Seq(D) /\ Len(a) = Len(q) + 1 /\ Len(q) \in Nat
      /\ \A i \in 1..Len(q) : a[i] = q[i]
      /\ a[Len(q) + 1] = e
  BY AppendProperties, LenProperties
<1> HIDE DEF a
<1>2. /\ m \in Seq(T) /\ Len(m) = Len(q)
      /\ \A i \in 1..Len(q) : m[i] = F[q[i]]
  BY MappedType, MappedElements
<1>3. /\ l \in Seq(T) /\ Len(l) = Len(a)
      /\ \A i \in 1..Len(a) : l[i] = F[a[i]]
  BY <1>1, MappedType, MappedElements
<1> HIDE DEF m, l
<1>4. F[e] \in T
  OBVIOUS
<1>5. /\ r \in Seq(T) /\ Len(r) = Len(m) + 1
      /\ \A i \in 1..Len(m) : r[i] = m[i]
      /\ r[Len(m) + 1] = F[e]
  BY <1>2, <1>4, AppendProperties
<1> HIDE DEF r
<1>6. ASSUME NEW i \in 1..Len(l)
      PROVE  l[i] = r[i]
  <2>1. l[i] = F[a[i]] /\ (i \in 1..Len(q) \/ i = Len(q) + 1)
    BY <1>1, <1>3
  <2> QED
    BY <1>1, <1>2, <1>5, <2>1
<1>7. Len(l) = Len(r)
  BY <1>1, <1>2, <1>3, <1>5
<1>8. l = r
  BY <1>3, <1>5, <1>6, <1>7, SeqEqual
<1> QED
  BY <1>8 DEF l, r, m, a

LEMMA MappedTail ==
  ASSUME NEW D, NEW T, NEW F \in [D -> T], NEW q \in Seq(D), q # <<>>
  PROVE  /\ Mapped(F, q) # <<>>
         /\ Head(Mapped(F, q)) = F[Head(q)]
         /\ Tail(Mapped(F, q)) = Mapped(F, Tail(q))
<1> DEFINE m == Mapped(F, q)
           t == Mapped(F, Tail(q))
<1>1. /\ Head(q) = q[1] /\ Tail(q) \in Seq(D) /\ Len(Tail(q)) = Len(q) - 1
      /\ \A i \in 1..Len(Tail(q)) : Tail(q)[i] = q[i + 1]
      /\ Len(q) \in Nat \ {0}
  BY HeadTailProperties, EmptySeq, HeadTail
<1>2. /\ m \in Seq(T) /\ Len(m) = Len(q)
      /\ \A i \in 1..Len(q) : m[i] = F[q[i]]
  BY MappedType, MappedElements
<1>3. /\ t \in Seq(T) /\ Len(t) = Len(Tail(q))
      /\ \A i \in 1..Len(Tail(q)) : t[i] = F[Tail(q)[i]]
  <2>1. Tail(q) \in Seq(D)
    BY <1>1
  <2>2. \A u \in Seq(D) : Mapped(F, u) \in Seq(T)
    BY MappedType
  <2>3. \A u \in Seq(D) : /\ Len(Mapped(F, u)) = Len(u)
                          /\ \A i \in 1..Len(u) : Mapped(F, u)[i] = F[u[i]]
    BY ONLY MappedElements
  <2> QED
    BY <2>1, <2>2, <2>3, Zenon
<1> HIDE DEF m, t
<1>4. m # <<>>
  BY <1>1, <1>2, EmptySeq
<1>5. Head(m) = m[1]
  BY <1>2, <1>4, HeadTail
<1>6. /\ Tail(m) \in Seq(T) /\ Len(Tail(m)) = Len(m) - 1
      /\ \A i \in 1..Len(Tail(m)) : Tail(m)[i] = m[i + 1]
  BY <1>2, <1>4, HeadTailProperties
<1>7. \A i \in 1..Len(t) : Tail(m)[i] = t[i]
  BY <1>1, <1>2, <1>3, <1>6
<1>8. Tail(m) = t
  BY <1>1, <1>2, <1>3, <1>6, <1>7, SeqEqual
<1>9. Head(m) = F[Head(q)]
  BY <1>1, <1>2, <1>5
<1> QED
  BY <1>4, <1>8, <1>9 DEF m, t

LEMMA FlatMapType ==
  ASSUME NEW D, NEW S, NEW F \in [D -> Seq(S)], NEW q \in Seq(D)
  PROVE  FlatMap(F, q) \in Seq(S)
  BY MappedType, FlattenType DEF FlatMap

LEMMA FlatMapEmpty ==
  ASSUME NEW F
  PROVE  FlatMap(F, <<>>) = <<>>
<1>1. Mapped(F, <<>>) = <<>>
  BY DEF Mapped
<1> QED
  BY <1>1, FlattenIs, EmptySeq DEF FlatMap

LEMMA FlatMapAppend ==
  ASSUME NEW D, NEW S, NEW F \in [D -> Seq(S)], NEW q \in Seq(D), NEW e \in D
  PROVE  FlatMap(F, Append(q, e)) = FlatMap(F, q) \o F[e]
<1>1. Mapped(F, q) \in Seq(Seq(S)) /\ F[e] \in Seq(S)
  BY MappedType
<1>2. Mapped(F, Append(q, e)) = Append(Mapped(F, q), F[e])
  BY MappedAppend
<1> QED
  BY <1>1, <1>2, FlattenAppend DEF FlatMap

LEMMA FlatMapHead ==
  ASSUME NEW D, NEW S, NEW F \in [D -> Seq(S)], NEW q \in Seq(D), q # <<>>
  PROVE  FlatMap(F, q) = F[Head(q)] \o FlatMap(F, Tail(q))
<1>1. Mapped(F, q) \in Seq(Seq(S))
  BY MappedType
<1>2. /\ Mapped(F, q) # <<>>
      /\ Head(Mapped(F, q)) = F[Head(q)]
      /\ Tail(Mapped(F, q)) = Mapped(F, Tail(q))
  BY MappedTail
<1> QED
  BY <1>1, <1>2, FlattenHead DEF FlatMap

\* only what the elements of q become matters
LEMMA FlatMapAgree ==
  ASSUME NEW D, NEW F, NEW G, NEW q \in Seq(D), \A d \in D : F[d] = G[d]
  PROVE  FlatMap(F, q) = FlatMap(G, q)
<1>1. \A i \in DOMAIN q : q[i] \in D
  BY ElementOfSeq, LenProperties
<1>2. Mapped(F, q) = Mapped(G, q)
  BY <1>1 DEF Mapped
<1> QED
  BY <1>2 DEF FlatMap
=============================================================================
