--------------------------- MODULE TerminalProofs ---------------------------
(***************************************************************************)
(* What base_state reads, for any alphabet, any messages and however the   *)
(* stream is cut into them.  A message is the fold of Feed over its        *)
(* characters, so what each character preserves a message preserves; the   *)
(* invariant says of every such state what the sequence still open may be. *)
(***************************************************************************)
EXTENDS Terminal, SequenceLemmas

-----------------------------------------------------------------------------
(* The loop over a message.                                                 *)

\* one character of it
Step(u, c, next) == IF u.left THEN u ELSE Feed(u, c, next)

\* g is the function by which Fed folds it over the positions in S
Iter(g, m, next, base, S) ==
  g = [s \in SUBSET S |->
         IF s = {} THEN base ELSE Step(g[s \ {Max(s)}], m[Max(s)], next)]

LEMMA MaxExists ==
  ASSUME NEW n \in Nat, NEW s \in SUBSET (1..n), s # {}
  PROVE  /\ Max(s) \in s
         /\ \A x \in s : x <= Max(s)
<1> DEFINE S == {n - x : x \in s}
<1>1. S \subseteq Nat /\ S # {}
  <2>1. \A x \in s : x \in Int /\ n - x \in Nat
    OBVIOUS
  <2> QED
    BY <2>1
<1>2. PICK k \in S : \A y \in S : k <= y
  BY <1>1, LeastElement
<1>3. PICK x \in s : k = n - x
  BY <1>2
<1>4. ASSUME NEW y \in s PROVE x >= y
  <2>1. n - x <= n - y
    BY <1>2, <1>3
  <2> QED
    BY <2>1
<1>5. \A y \in s : Max(s) >= y
  BY <1>4 DEF Max
<1>6. Max(s) \in s
  BY <1>4 DEF Max
<1>7. s \subseteq Nat
  OBVIOUS
<1> QED
  BY <1>5, <1>6, <1>7

LEMMA MaxOfPrefix ==
  ASSUME NEW n \in Nat
  PROVE  Max(1..(n + 1)) = n + 1 /\ (1..(n + 1)) \ {n + 1} = 1..n
<1>1. n + 1 \in Nat /\ 1..(n + 1) \in SUBSET (1..(n + 1)) /\ n + 1 \in 1..(n + 1)
  OBVIOUS
<1>2. Max(1..(n + 1)) \in 1..(n + 1) /\ n + 1 <= Max(1..(n + 1))
  BY <1>1, MaxExists
<1> QED
  BY <1>2

LEMMA IterExists ==
  ASSUME NEW m, NEW next, NEW base, NEW n \in Nat
  PROVE  \E g : Iter(g, m, next, base, 1..n)
<1> DEFINE P == {k \in Nat : \E g : Iter(g, m, next, base, 1..k)}
<1>1. 0 \in P
  <2> DEFINE g == [s \in SUBSET (1..0) |-> base]
  <2>1. \A s \in SUBSET (1..0) : s = {}
    OBVIOUS
  <2>2. Iter(g, m, next, base, 1..0)
    BY <2>1 DEF Iter
  <2> QED
    BY <2>2
<1>2. ASSUME NEW k \in Nat, k \in P
      PROVE  k + 1 \in P
  <2>1. PICK g : Iter(g, m, next, base, 1..k)
    BY <1>2
  <2> DEFINE V(f, s) ==
               IF s = {} THEN base ELSE Step(f[s \ {Max(s)}], m[Max(s)], next)
             h == [s \in SUBSET (1..(k + 1)) |-> V(g, s)]
  <2>2. ASSUME NEW s \in SUBSET (1..k) PROVE h[s] = g[s]
    <3>1. g[s] = V(g, s)
      BY <2>1 DEF Iter
    <3>2. s \in SUBSET (1..(k + 1))
      <4>1. \A x \in 1..k : x \in 1..(k + 1)
        OBVIOUS
      <4> QED
        BY <4>1
    <3>3. h[s] = V(g, s)
      BY <3>2
    <3> QED
      BY <3>1, <3>3
  <2>3. ASSUME NEW s \in SUBSET (1..(k + 1)), s # {}
        PROVE  h[s \ {Max(s)}] = g[s \ {Max(s)}]
    <3>1. k + 1 \in Nat
      OBVIOUS
    <3>2. Max(s) \in s /\ \A x \in s : x <= Max(s)
      BY <2>3, <3>1, MaxExists
    <3>3. ASSUME NEW x \in s \ {Max(s)} PROVE x \in 1..k
      <4>1. x \in 1..(k + 1) /\ Max(s) \in 1..(k + 1) /\ x <= Max(s) /\ x # Max(s)
        BY <3>2
      <4> QED
        BY <4>1
    <3> QED
      BY <2>2, <3>3
  <2>4. \A s \in SUBSET (1..(k + 1)) : V(g, s) = V(h, s)
    <3> HIDE DEF h
    <3> QED
      BY <2>3
  <2>5. h = [s \in SUBSET (1..(k + 1)) |-> V(h, s)]
    <3>1. \A s \in SUBSET (1..(k + 1)) : h[s] = V(h, s)
      BY <2>4
    <3>2. h = [s \in SUBSET (1..(k + 1)) |-> h[s]]
      OBVIOUS
    <3> HIDE DEF h
    <3> QED
      BY <3>1, <3>2
  <2>6. Iter(h, m, next, base, 1..(k + 1))
    <3> HIDE DEF h
    <3> QED
      BY <2>5 DEF Iter
  <2> QED
    BY <2>6
<1> HIDE DEF P
<1>3. n \in P
  BY <1>1, <1>2, NatInd
<1> QED
  BY <1>3 DEF P

LEMMA FedIs ==
  ASSUME NEW t, NEW m, NEW next,
         \E g : Iter(g, m, next, [t EXCEPT !.left = FALSE], DOMAIN m)
  PROVE  \E g : /\ Iter(g, m, next, [t EXCEPT !.left = FALSE], DOMAIN m)
                /\ Fed(t, m, next) = g[DOMAIN m]
<1> DEFINE base == [t EXCEPT !.left = FALSE]
           G == CHOOSE g : Iter(g, m, next, base, DOMAIN m)
<1> HIDE DEF base
<1>1. Fed(t, m, next) = G[DOMAIN m]
  BY DEF Fed, FoldLeft, MapThenFoldSet, Step, Iter, base
<1>2. Iter(G, m, next, base, DOMAIN m)
  BY DEF base
<1> QED
  BY <1>1, <1>2 DEF base

\* f[k] is what the first k characters make of t
Steps(f, t, m, next) ==
  /\ f[0] = [t EXCEPT !.left = FALSE]
  /\ \A k \in 0..(Len(m) - 1) : f[k + 1] = Step(f[k], m[k + 1], next)
  /\ Fed(t, m, next) = f[Len(m)]

\* a message takes one step for each character
LEMMA FedSteps ==
  ASSUME NEW t, NEW S, NEW m \in Seq(S), NEW next
  PROVE  \E f : Steps(f, t, m, next)
<1> DEFINE base == [t EXCEPT !.left = FALSE]
           n == Len(m)
<1>1. n \in Nat /\ DOMAIN m = 1..n
  BY LenProperties
<1>2. \E g : Iter(g, m, next, base, DOMAIN m)
  <2> HIDE DEF base, n
  <2> QED
    BY <1>1, IterExists
<1>3. PICK g : Iter(g, m, next, base, 1..n) /\ Fed(t, m, next) = g[1..n]
  <2>1. \E g : /\ Iter(g, m, next, base, DOMAIN m)
               /\ Fed(t, m, next) = g[DOMAIN m]
    BY <1>2, FedIs
  <2> QED
    BY <1>1, <2>1
<1> HIDE DEF base, n
<1> DEFINE f == [k \in 0..n |-> g[1..k]]
<1>4. f[0] = base
  <2>1. 1..0 = {} /\ {} \in SUBSET (1..n) /\ 0 \in 0..n
    BY <1>1
  <2>2. g[{}] = base
    BY <1>3, <2>1 DEF Iter
  <2> QED
    BY <2>1, <2>2
<1>5. ASSUME NEW k \in 0..(n - 1) PROVE f[k + 1] = Step(f[k], m[k + 1], next)
  <2>1. k \in Nat /\ k \in 0..n /\ k + 1 \in 0..n
    BY <1>1
  <2> DEFINE s == 1..(k + 1)
  <2>2. s \in SUBSET (1..n) /\ s # {}
    BY <1>1, <2>1
  <2>3. Max(s) = k + 1 /\ s \ {Max(s)} = 1..k
    BY <2>1, MaxOfPrefix
  <2>4. g[s] = Step(g[s \ {Max(s)}], m[Max(s)], next)
    <3> HIDE DEF s
    <3> QED
      BY <1>3, <2>2 DEF Iter
  <2>5. g[s] = Step(g[1..k], m[k + 1], next)
    <3> HIDE DEF s
    <3> QED
      BY <2>3, <2>4
  <2>6. f[k + 1] = g[s] /\ f[k] = g[1..k]
    BY <2>1
  <2> HIDE DEF f, s
  <2> QED
    BY <2>5, <2>6
<1>6. Fed(t, m, next) = f[n]
  BY <1>1, <1>3
<1>7. WITNESS f
<1> HIDE DEF f
<1> QED
  BY <1>4, <1>5, <1>6 DEF base, n, Steps

\* what every character preserves, a message preserves
LEMMA FedInd ==
  ASSUME NEW I, NEW D, NEW t, NEW m \in Seq(D), NEW next,
         [t EXCEPT !.left = FALSE] \in I,
         \A u \in I, c \in D : Step(u, c, next) \in I
  PROVE  Fed(t, m, next) \in I
<1>1. PICK f : /\ f[0] = [t EXCEPT !.left = FALSE]
               /\ \A k \in 0..(Len(m) - 1) : f[k + 1] = Step(f[k], m[k + 1], next)
               /\ Fed(t, m, next) = f[Len(m)]
  <2>1. PICK f : Steps(f, t, m, next)
    BY FedSteps
  <2> QED
    BY <2>1 DEF Steps
<1> DEFINE P == {k \in Nat : k <= Len(m) => f[k] \in I}
<1>2. 0 \in P
  BY <1>1
<1>3. ASSUME NEW k \in Nat, k \in P PROVE k + 1 \in P
  <2> SUFFICES ASSUME k + 1 <= Len(m) PROVE f[k + 1] \in I
    OBVIOUS
  <2>1. Len(m) \in Nat
    BY LenProperties
  <2>2. k \in 0..(Len(m) - 1) /\ k + 1 \in 1..Len(m)
    BY <2>1
  <2>3. f[k] \in I /\ m[k + 1] \in D
    BY <1>3, <2>1, <2>2, ElementOfSeq
  <2>4. f[k + 1] = Step(f[k], m[k + 1], next)
    BY <1>1, <2>2
  <2> QED
    BY <2>3, <2>4
<1> HIDE DEF P
<1>4. Nat \subseteq P
  BY <1>2, <1>3, NatInd
<1>5. Len(m) \in Nat /\ Len(m) <= Len(m)
  BY LenProperties
<1> QED
  BY <1>1, <1>4, <1>5 DEF P

-----------------------------------------------------------------------------
(* Sequences.                                                               *)

LEMMA Shorter ==
  ASSUME NEW S, NEW s \in Seq(S), NEW n \in Int, n <= Len(s)
  PROVE  SubSeq(s, 1, n) \in Seq(S)
OBVIOUS

LEMMA FrontType ==
  ASSUME NEW S, NEW s \in Seq(S), s # <<>>
  PROVE  /\ Front(s) \in Seq(S)
         /\ Len(Front(s)) = Len(s) - 1
         /\ \A i \in 1..(Len(s) - 1) : Front(s)[i] = s[i]
<1>1. Len(s) \in Nat \ {0}
  BY EmptySeq, LenProperties
<1>2. Len(s) - 1 \in Nat /\ Len(s) - 1 <= Len(s)
  BY <1>1
<1>3. \A i \in 1..(Len(s) - 1) : s[i] \in S
  BY <1>1, ElementOfSeq
<1> DEFINE n == Len(s) - 1
<1>4. /\ SubSeq(s, 1, n) \in Seq(S)
      /\ Len(SubSeq(s, 1, n)) = IF 1 <= n THEN n - 1 + 1 ELSE 0
      /\ \A i \in 1 .. n - 1 + 1 : SubSeq(s, 1, n)[i] = s[1 + i - 1]
  <2>1. n \in Int /\ 1 \in Int
    BY <1>2
  <2> HIDE DEF n
  <2> QED
    BY <2>1, <1>3, SubSeqProperties DEF n
<1>5. n - 1 + 1 = n /\ \A i \in 1..n : 1 + i - 1 = i
  BY <1>2
<1> QED
  BY <1>2, <1>4, <1>5 DEF Front

LEMMA TwoElements ==
  ASSUME NEW S, NEW s \in Seq(S), Len(s) >= 2
  PROVE  SubSeq(s, 1, 2) = <<s[1], s[2]>>
<1>1. s[1] \in S /\ s[2] \in S
  BY LenProperties, ElementOfSeq
<1>2. /\ <<s[1], s[2]>> \in Seq(S) /\ Len(<<s[1], s[2]>>) = 2
      /\ <<s[1], s[2]>>[1] = s[1] /\ <<s[1], s[2]>>[2] = s[2]
  BY <1>1
<1>3. /\ SubSeq(s, 1, 2) \in Seq(S) /\ Len(SubSeq(s, 1, 2)) = 2
      /\ SubSeq(s, 1, 2)[1] = s[1] /\ SubSeq(s, 1, 2)[2] = s[2]
  OBVIOUS
<1> DEFINE a == SubSeq(s, 1, 2)
           b == <<s[1], s[2]>>
<1>4. \A i \in 1..Len(a) : a[i] = b[i]
  <2>1. \A i \in 1..2 : i = 1 \/ i = 2
    OBVIOUS
  <2> HIDE DEF a, b
  <2> QED
    BY <2>1, <1>2, <1>3 DEF a, b
<1> HIDE DEF a, b
<1>5. a = b
  <2>1. a \in Seq(S) /\ b \in Seq(S) /\ Len(a) = Len(b)
    BY <1>2, <1>3 DEF a, b
  <2> QED
    BY ONLY <1>4, <2>1, SeqEqual
<1> QED
  BY <1>5 DEF a, b

\* the one element of a sequence
LEMMA FirstOf ==
  ASSUME NEW S, NEW s \in Seq(S), Len(s) >= 1
  PROVE  SubSeq(s, 1, 1) = <<s[1]>>
<1>1. s[1] \in S
  BY LenProperties, ElementOfSeq
<1>2. <<s[1]>> \in Seq(S) /\ Len(<<s[1]>>) = 1 /\ <<s[1]>>[1] = s[1]
  BY <1>1
<1>3. SubSeq(s, 1, 1) \in Seq(S) /\ Len(SubSeq(s, 1, 1)) = 1 /\ SubSeq(s, 1, 1)[1] = s[1]
  OBVIOUS
<1> DEFINE a == SubSeq(s, 1, 1)
           b == <<s[1]>>
<1>4. \A i \in 1..Len(a) : a[i] = b[i]
  <2>1. \A i \in 1..1 : i = 1
    OBVIOUS
  <2> HIDE DEF a, b
  <2> QED
    BY <2>1, <1>2, <1>3 DEF a, b
<1> HIDE DEF a, b
<1>5. a \in Seq(S) /\ b \in Seq(S) /\ Len(a) = Len(b)
  BY <1>2, <1>3 DEF a, b
<1>6. a = b
  BY ONLY <1>4, <1>5, SeqEqual
<1> QED
  BY <1>6 DEF a, b

\* one element in front, and the line behind it erased or shortened
LEMMA ErasedLine ==
  ASSUME NEW S, NEW x \in S, NEW s \in Seq(S)
  PROVE  /\ Erased(<<x>> \o s, Len(s)) = <<x>>
         /\ s # <<>> => Erased(<<x>> \o s, 1) = <<x>> \o Front(s)
<1>1. <<x>> \o s \in Seq(S) /\ Len(<<x>> \o s) = Len(s) + 1 /\ Len(s) \in Nat
  OBVIOUS
<1>2. \A i \in 1..Len(s) : (<<x>> \o s)[i + 1] = s[i]
  OBVIOUS
<1>3. (<<x>> \o s)[1] = x
  OBVIOUS
<1>4. Erased(<<x>> \o s, Len(s)) = <<x>>
  <2>1. Len(<<x>> \o s) - Len(s) = 1
    BY <1>1
  <2>2. Erased(<<x>> \o s, Len(s)) = SubSeq(<<x>> \o s, 1, 1)
    BY <2>1 DEF Erased
  <2>3. SubSeq(<<x>> \o s, 1, 1) = <<x>>
    <3> DEFINE q == <<x>> \o s
    <3>1. q \in Seq(S) /\ Len(q) >= 1 /\ q[1] = x
      BY <1>1, <1>3
    <3> HIDE DEF q
    <3>2. SubSeq(q, 1, 1) = <<q[1]>>
      BY <3>1, FirstOf
    <3> QED
      BY <3>1, <3>2 DEF q
  <2> QED
    BY <2>2, <2>3
<1>5. ASSUME s # <<>> PROVE Erased(<<x>> \o s, 1) = <<x>> \o Front(s)
  BY <1>5 DEF Erased, Front
<1> QED
  BY <1>4, <1>5

\* the last two elements, and those before
LEMMA EndsInST ==
  ASSUME NEW S, NEW b \in Seq(S), NEW c \in S
  PROVE  IsSuffix(ST, Append(b, c)) <=> b # <<>> /\ Last(b) = "ESC" /\ c = "\\"
<1> DEFINE a == Append(b, c)
<1>1. /\ Len(b) \in Nat /\ a \in Seq(S) /\ Len(a) = Len(b) + 1
      /\ a[Len(b) + 1] = c /\ \A i \in 1..Len(b) : a[i] = b[i]
      /\ (b = <<>> <=> Len(b) = 0)
  OBVIOUS
<1>2. Reverse(ST) = <<"\\", "ESC">> /\ Len(ST) = 2 /\ Len(Reverse(ST)) = 2
  BY DEF Reverse, ST
<1>3. /\ Reverse(a) \in Seq(S) /\ Len(Reverse(a)) = Len(b) + 1
      /\ Reverse(a)[1] = c
      /\ Len(b) >= 1 => Reverse(a)[2] = b[Len(b)]
  <2> HIDE DEF a
  <2> QED
  BY <1>1 DEF Reverse
<1> DEFINE r == Reverse(a)
<1>4. CASE Len(b) = 0
  BY <1>1, <1>2, <1>3, <1>4 DEF IsSuffix, IsPrefix
<1>5. CASE Len(b) >= 1
  <2>1. SubSeq(<<"\\", "ESC">>, 1, 2) = <<"\\", "ESC">>
    <3> DEFINE q == <<"\\", "ESC">>
    <3>1. q \in Seq({"\\", "ESC"}) /\ Len(q) >= 2 /\ q[1] = "\\" /\ q[2] = "ESC"
      OBVIOUS
    <3>2. SubSeq(q, 1, 2) = <<q[1], q[2]>>
      <4> HIDE DEF q
      <4> QED
        BY <3>1, TwoElements
    <3> QED
      BY <3>1, <3>2
  <2>2. SubSeq(r, 1, 2) = <<c, b[Len(b)]>>
    <3>1. r \in Seq(S) /\ Len(r) >= 2 /\ r[1] = c /\ r[2] = b[Len(b)]
      BY <1>1, <1>3, <1>5
    <3> HIDE DEF r
    <3> QED
      BY <3>1, TwoElements
  <2>3. IsSuffix(ST, a) <=> SubSeq(<<"\\", "ESC">>, 1, 2) = SubSeq(r, 1, 2)
    BY <1>1, <1>2, <1>3, <1>5 DEF IsSuffix, IsPrefix
  <2>4. IsSuffix(ST, a) <=> c = "\\" /\ b[Len(b)] = "ESC"
    <3> HIDE DEF r, a
    <3>1. IsSuffix(ST, a) <=> <<"\\", "ESC">> = <<c, b[Len(b)]>>
      BY <2>1, <2>2, <2>3
    <3> QED
      BY <3>1
  <2> QED
    BY <2>4, <1>1, <1>5 DEF Last
<1> QED
  BY <1>1, <1>4, <1>5

LEMMA TwoOnes ==
  ASSUME NEW x, NEW y
  PROVE  <<x>> \o <<y>> = <<x, y>>
<1> DEFINE S == {x, y}
           a == <<x>> \o <<y>>
           b == <<x, y>>
<1>1. <<x>> \in Seq(S) /\ <<y>> \in Seq(S)
  OBVIOUS
<1>2. /\ a \in Seq(S) /\ b \in Seq(S) /\ Len(a) = 2 /\ Len(b) = 2
      /\ a[1] = x /\ a[2] = y /\ b[1] = x /\ b[2] = y
  BY <1>1
<1>3. \A i \in 1..2 : i = 1 \/ i = 2
  OBVIOUS
<1> HIDE DEF a, b, S
<1>4. \A i \in 1..Len(a) : a[i] = b[i]
  BY <1>2, <1>3
<1>5. a = b
  BY <1>2, <1>4, SeqEqual
<1> QED
  BY <1>5 DEF a, b

LEMMA AllButLast ==
  ASSUME NEW S, NEW b \in Seq(S), b # <<>>, Last(b) = "ESC"
  PROVE  Front(b) \o ST = Append(b, "\\")
<1>1. Len(b) \in Nat \ {0} /\ b[Len(b)] = "ESC"
  BY DEF Last
<1> QED
  BY <1>1, FrontType DEF ST

-----------------------------------------------------------------------------
(* What the two states do with a call.                                      *)

Typed(t) == t \in States /\ t.iter \in 1..(Len(t.commands) + 1)

\* what base_state has read, and what the device got
Same(t, u) ==
  /\ u.kind = t.kind /\ u.input = t.input /\ u.cmdbuf = t.cmdbuf
  /\ u.typed = t.typed /\ u.calls = t.calls /\ u.device = t.device

\* The line is shown, and what may be recalled can be, while all that is typed is seen.
Shown(t) ==
  t.kind = "control" /\ Seen(t) =>
    /\ t.shown = <<t.menu>> \o t.inbuf
    /\ t.inbuf \in Seq(Chars \ Silent)
    /\ \A i \in DOMAIN t.commands : t.commands[i] \in Seq(Chars \ Silent)

\* what the terminal shows of one character
Glyph == [c \in Chars |-> IF c \in Silent THEN <<>> ELSE <<c>>]

LEMMA EchoedIs ==
  ASSUME NEW line \in Seq(Chars)
  PROVE  /\ Echoed(line) \in Seq(Chars)
         /\ line \in Seq(Chars \ Silent) => Echoed(line) = line
<1>1. ASSUME NEW q \in Seq(Chars) PROVE Echoed(q) = FlatMap(Glyph, q)
  <2>1. \A i \in DOMAIN q : q[i] \in Chars
    BY ElementOfSeq, LenProperties
  <2>2. Mapped(Glyph, q) = [i \in DOMAIN q |-> IF q[i] \in Silent THEN <<>> ELSE <<q[i]>>]
    BY <2>1 DEF Mapped, Glyph
  <2> QED
    BY <2>2 DEF Echoed, FlatMap
<1>2. Glyph \in [Chars -> Seq(Chars)]
  BY DEF Glyph
<1>3. Echoed(line) \in Seq(Chars)
  BY <1>1, <1>2, FlatMapType
<1> DEFINE P == {q \in Seq(Chars \ Silent) : FlatMap(Glyph, q) = q}
<1>4. <<>> \in P
  BY FlatMapEmpty
<1>5. ASSUME NEW q \in Seq(Chars \ Silent), NEW c \in Chars \ Silent, q \in P
      PROVE  Append(q, c) \in P
  <2>1. q \in Seq(Chars) /\ c \in Chars /\ FlatMap(Glyph, q) = q
    BY <1>5, SeqMonotonic
  <2>2. FlatMap(Glyph, Append(q, c)) = q \o Glyph[c]
    BY <1>2, <2>1, FlatMapAppend
  <2>3. Glyph[c] = <<c>>
    BY DEF Glyph
  <2>4. q \o <<c>> = Append(q, c)
    BY <2>1, AppendOne
  <2> QED
    BY <2>2, <2>3, <2>4
<1> HIDE DEF P
<1>6. Seq(Chars \ Silent) \subseteq P
  BY <1>4, <1>5, SeqInd
<1>7. line \in Seq(Chars \ Silent) => FlatMap(Glyph, line) = line
  BY <1>6 DEF P
<1> QED
  BY <1>1, <1>3, <1>7

LEMMA FreshTyped ==
  ASSUME NEW kind \in {"control", "serial"}
  PROVE  Typed(Fresh(kind)) /\ Shown(Fresh(kind)) /\ Typed(Enter(kind)) /\ Shown(Enter(kind))
<1>1. Root \in Menus
  BY TerminalAssumption
<1>2. /\ \A T : <<>> \in Seq(T)
      /\ Len(<<>>) = 0
      /\ <<Root>> \in Seq(Chars \union Menus)
      /\ <<Root>> \o <<>> = <<Root>>
  BY <1>1
<1>3. Fresh(kind) \in States
  BY <1>1, <1>2 DEF Fresh, States
<1>4. Fresh(kind).iter = 1 /\ Fresh(kind).commands = <<>>
  BY DEF Fresh
<1>5. Typed(Fresh(kind))
  BY <1>2, <1>3, <1>4 DEF Typed
<1>6. Typed(Enter(kind))
  <2> DEFINE v == Fresh(kind)
  <2>1. v \in States /\ v.iter = 1 /\ v.commands = <<>>
    BY <1>3, <1>4
  <2> HIDE DEF v
  <2>2. LET u == [v EXCEPT !.left = TRUE] IN
        u \in States /\ u.iter = 1 /\ u.commands = <<>>
    BY <2>1 DEF States
  <2> QED
    BY <1>2, <2>2 DEF Typed, Enter, v
<1>7. Shown(Fresh(kind)) /\ Shown(Enter(kind))
  <2>1. <<>> \in Seq(Chars \ Silent) /\ DOMAIN <<>> = {}
    OBVIOUS
  <2> QED
    BY <1>2, <2>1 DEF Fresh, Enter, Shown
<1> QED
  BY <1>5, <1>6, <1>7

LEMMA ErasedType ==
  ASSUME NEW S, NEW s \in Seq(S), NEW n \in Nat
  PROVE  Erased(s, n) \in Seq(S)
<1>1. Len(s) - n \in Int /\ Len(s) - n <= Len(s)
  BY LenProperties
<1> QED
  BY <1>1, Shorter DEF Erased

LEMMA RecallTyped ==
  ASSUME NEW t, Typed(t), NEW i \in 1..(Len(t.commands) + 1)
  PROVE  /\ Typed(Recall(t, i)) /\ Same(t, Recall(t, i))
         /\ Shown(t) => Shown(Recall(t, i))
<1> DEFINE line == IF i > Len(t.commands) THEN <<>> ELSE t.commands[i]
           u == Recall(t, i)
<1>1. /\ t \in States /\ t.commands \in Seq(Seq(Chars) \ {<<>>}) /\ t.inbuf \in Seq(Chars)
      /\ t.shown \in Seq(Chars \union Menus) /\ t.menu \in Menus
  BY DEF Typed, States
<1>2. line \in Seq(Chars)
  <2>1. Len(t.commands) \in Nat
    BY <1>1, LenProperties
  <2>2. CASE i > Len(t.commands)
    BY <2>2
  <2>3. CASE ~(i > Len(t.commands))
    <3>1. i \in 1..Len(t.commands)
      BY <2>1, <2>3
    <3>2. t.commands[i] \in Seq(Chars) \ {<<>>}
      BY <1>1, <3>1, ElementOfSeq
    <3> QED
      BY <2>3, <3>2
  <2> QED
    BY <2>2, <2>3
<1>3. u = [t EXCEPT !.iter = i, !.inbuf = line, !.shown = Erased(t.shown, Len(t.inbuf)) \o Echoed(line)]
  BY DEF Recall
<1>10. Shown(t) /\ t.kind = "control" /\ Seen(t) => line \in Seq(Chars \ Silent)
  <2> SUFFICES ASSUME Shown(t), t.kind = "control", Seen(t)
               PROVE  line \in Seq(Chars \ Silent)
    OBVIOUS
  <2>1. \A k \in DOMAIN t.commands : t.commands[k] \in Seq(Chars \ Silent)
    BY DEF Shown
  <2>2. DOMAIN t.commands = 1..Len(t.commands) /\ Len(t.commands) \in Nat
    BY <1>1, LenProperties
  <2>3. <<>> \in Seq(Chars \ Silent)
    OBVIOUS
  <2>4. CASE i > Len(t.commands)
    BY <2>3, <2>4
  <2>5. CASE ~(i > Len(t.commands))
    <3>1. i \in DOMAIN t.commands
      BY <2>2, <2>5
    <3> QED
      BY <2>1, <2>5, <3>1
  <2> QED
    BY <2>4, <2>5
<1> HIDE DEF line
<1>11. Echoed(line) \in Seq(Chars)
  BY <1>2, EchoedIs
<1>4. Echoed(line) \in Seq(Chars \union Menus) /\ Erased(t.shown, Len(t.inbuf)) \in Seq(Chars \union Menus)
  BY <1>1, <1>11, ErasedType, SeqMonotonic, LenProperties
<1>5. Erased(t.shown, Len(t.inbuf)) \o Echoed(line) \in Seq(Chars \union Menus)
  BY <1>4, ConcatProperties
<1>6. i \in Nat
  BY <1>1, LenProperties
<1>7. u \in States
  BY <1>1, <1>2, <1>3, <1>5, <1>6 DEF States
<1>8. Typed(u) /\ Same(t, u)
  BY <1>1, <1>3, <1>7 DEF Typed, Same, States
<1>9. ASSUME Shown(t) PROVE Shown(u)
  <2>1. /\ u.kind = t.kind /\ u.calls = t.calls /\ u.commands = t.commands
        /\ u.shown = Erased(t.shown, Len(t.inbuf)) \o Echoed(line)
        /\ u.menu = t.menu /\ u.inbuf = line
    BY <1>1, <1>3 DEF States
  <2> HIDE DEF u
  <2> SUFFICES ASSUME t.kind = "control", Seen(t)
               PROVE  /\ u.shown = <<u.menu>> \o u.inbuf
                      /\ u.inbuf \in Seq(Chars \ Silent)
                      /\ \A k \in DOMAIN u.commands : u.commands[k] \in Seq(Chars \ Silent)
    BY <2>1 DEF Shown, Seen
  <2>2. /\ t.shown = <<t.menu>> \o t.inbuf
        /\ \A k \in DOMAIN t.commands : t.commands[k] \in Seq(Chars \ Silent)
    BY <1>9 DEF Shown
  <2>3. t.menu \in Chars \union Menus /\ t.inbuf \in Seq(Chars \union Menus)
    BY <1>1, SeqMonotonic
  <2>4. Erased(t.shown, Len(t.inbuf)) = <<t.menu>>
    BY <2>2, <2>3, ErasedLine
  <2>5. line \in Seq(Chars \ Silent) /\ Echoed(line) = line
    BY <1>2, <1>9, <1>10, EchoedIs
  <2> QED
    BY <2>1, <2>2, <2>4, <2>5
<1> QED
  BY <1>8, <1>9

LEMMA NewLineTyped ==
  ASSUME NEW t, Typed(t), NEW menu \in Menus
  PROVE  /\ Typed(NewLine(t, menu)) /\ Same(t, NewLine(t, menu))
         /\ NewLine(t, menu).commands = t.commands
         /\ Shown(t) => Shown(NewLine(t, menu))
<1> DEFINE u == NewLine(t, menu)
<1>1. /\ <<>> \in Seq(Chars) /\ <<menu>> \in Seq(Chars \union Menus)
      /\ <<menu>> \o <<>> = <<menu>> /\ <<>> \in Seq(Chars \ Silent)
  OBVIOUS
<1>2. Typed(u) /\ Same(t, u)
  BY <1>1 DEF Typed, Same, NewLine, States
<1>3. u.shown = <<menu>> /\ u.menu = menu /\ u.inbuf = <<>> /\ u.commands = t.commands
  BY DEF NewLine, Typed, States
<1> HIDE DEF u
<1>4. Shown(t) => Shown(u)
  BY <1>1, <1>2, <1>3 DEF Shown, Same, Seen
<1> QED
  BY <1>2, <1>3, <1>4 DEF u

LEMMA ExecuteTyped ==
  ASSUME NEW t, Typed(t), NEW next \in Menus \union {"serial"}
  PROVE  LET u == Execute(t, next) IN
         Typed(u) /\ (Shown(t) => Shown(u)) /\ (u = Enter("serial") \/ Same(t, u))
<1> DEFINE u == Execute(t, next)
<1>1. CASE t.inbuf = <<>>
  <2>1. t.menu \in Menus
    BY DEF Typed, States
  <2> QED
    BY <1>1, <2>1, NewLineTyped DEF Execute
<1>2. CASE t.inbuf # <<>> /\ next = "serial"
  BY <1>2, FreshTyped DEF Execute
<1>3. CASE t.inbuf # <<>> /\ next # "serial"
  <2>1. t.commands \in Seq(Seq(Chars) \ {<<>>}) /\ t.inbuf \in Seq(Chars) \ {<<>>}
    BY <1>3 DEF Typed, States
  <2>2. /\ Append(t.commands, t.inbuf) \in Seq(Seq(Chars) \ {<<>>})
        /\ Len(Append(t.commands, t.inbuf)) = Len(t.commands) + 1
        /\ Len(t.commands) \in Nat
    BY <2>1, AppendHead, LenProperties
  <2> DEFINE v == NewLine(t, next)
  <2>3. next \in Menus
    BY <1>3
  <2>4. Typed(v) /\ Same(t, v) /\ (Shown(t) => Shown(v)) /\ v.commands = t.commands
    BY <2>3, NewLineTyped
  <2>5. u = [v EXCEPT !.commands = Append(t.commands, t.inbuf), !.iter = Len(t.commands) + 2]
    BY <1>3, <2>4 DEF Execute
  <2> HIDE DEF v, u
  <2>6. Typed(u) /\ Same(v, u)
    <3>1. v \in States
      BY <2>4 DEF Typed
    <3>2. Len(t.commands) + 2 \in Nat
      BY <2>2
    <3>3. u \in States
      BY <2>2, <2>5, <3>1, <3>2 DEF States
    <3>4. /\ u.iter = Len(t.commands) + 2 /\ u.commands = Append(t.commands, t.inbuf)
          /\ Same(v, u)
      BY <2>5, <3>1 DEF Same, States
    <3>5. u.iter \in 1..(Len(u.commands) + 1)
      BY <2>2, <3>4
    <3> QED
      BY <3>3, <3>4, <3>5 DEF Typed
  <2>7. ASSUME Shown(t) PROVE Shown(u)
    <3> SUFFICES ASSUME u.kind = "control", Seen(u)
                 PROVE  /\ u.shown = <<u.menu>> \o u.inbuf
                        /\ u.inbuf \in Seq(Chars \ Silent)
                        /\ \A k \in DOMAIN u.commands : u.commands[k] \in Seq(Chars \ Silent)
      BY DEF Shown
    <3>1. t.kind = "control" /\ Seen(t) /\ v.kind = "control" /\ Seen(v)
      BY <2>4, <2>6 DEF Same, Seen
    <3>2. /\ u.shown = v.shown /\ u.menu = v.menu /\ u.inbuf = v.inbuf
          /\ u.commands = Append(t.commands, t.inbuf)
      BY <2>4, <2>5 DEF Typed, States
    <3>3. t.inbuf \in Seq(Chars \ Silent)
          /\ \A k \in DOMAIN t.commands : t.commands[k] \in Seq(Chars \ Silent)
      BY <2>7, <3>1 DEF Shown
    <3>4. ASSUME NEW k \in DOMAIN u.commands
          PROVE  u.commands[k] \in Seq(Chars \ Silent)
      <4>1. /\ DOMAIN u.commands = 1..(Len(t.commands) + 1)
            /\ DOMAIN t.commands = 1..Len(t.commands)
            /\ \A n \in 1..Len(t.commands) : u.commands[n] = t.commands[n]
            /\ u.commands[Len(t.commands) + 1] = t.inbuf
            /\ Len(t.commands) \in Nat
        BY <2>1, <3>2, AppendProperties, LenProperties
      <4>2. k \in 1..Len(t.commands) \/ k = Len(t.commands) + 1
        BY <4>1
      <4> QED
        BY <3>3, <4>1, <4>2
    <3>5. /\ v.shown = <<v.menu>> \o v.inbuf /\ v.inbuf \in Seq(Chars \ Silent)
      BY <2>4, <2>7, <3>1 DEF Shown
    <3> QED
      BY <3>2, <3>4, <3>5
  <2>8. Same(t, u)
    BY <2>4, <2>6 DEF Same
  <2> QED
    BY <2>6, <2>7, <2>8 DEF u
<1> QED
  BY <1>1, <1>2, <1>3

LEMMA ControlCharTyped ==
  ASSUME NEW t, Typed(t), NEW c \in Chars, NEW next \in Menus \union {"serial"}
  PROVE  LET u == ControlChar(t, c, next) IN
         /\ Typed(u) /\ (u = Enter("serial") \/ Same(t, u))
         /\ Shown(t) /\ (Seen(t) => c \notin Silent) => Shown(u)
<1> DEFINE u == ControlChar(t, c, next)
           G == /\ Typed(u) /\ (u = Enter("serial") \/ Same(t, u))
                /\ Shown(t) /\ (Seen(t) => c \notin Silent) => Shown(u)
<1> SUFFICES G
  OBVIOUS
<1>1. /\ t \in States /\ t.inbuf \in Seq(Chars)
      /\ t.shown \in Seq(Chars \union Menus) /\ t.menu \in Menus
  BY DEF Typed, States
<1>2. CASE c = "CR"
  BY <1>2, ExecuteTyped DEF ControlChar
<1>3. CASE c = "ETX"
  BY <1>3, NewLineTyped, TerminalAssumption DEF ControlChar
<1>4. CASE c \in {"TAB", "ESC"} \/ (c = "DEL" /\ t.inbuf = <<>>)
  BY <1>1, <1>4 DEF ControlChar, Same
<1>5. CASE c = "DEL" /\ t.inbuf # <<>>
  <2>1. u = [t EXCEPT !.inbuf = Front(t.inbuf), !.shown = Erased(t.shown, 1)]
    BY <1>5 DEF ControlChar
  <2>2. Front(t.inbuf) \in Seq(Chars) /\ Erased(t.shown, 1) \in Seq(Chars \union Menus)
    BY <1>1, <1>5, FrontType, ErasedType
  <2>3. Typed(u) /\ Same(t, u)
    BY <2>1, <2>2, <1>1 DEF Typed, Same, States
  <2>4. ASSUME Shown(t) PROVE Shown(u)
    <3>1. /\ u.shown = Erased(t.shown, 1) /\ u.menu = t.menu /\ u.inbuf = Front(t.inbuf)
          /\ u.commands = t.commands /\ u.kind = t.kind /\ u.calls = t.calls
      BY <1>1, <2>1 DEF States
    <3> HIDE DEF u
    <3> SUFFICES ASSUME t.kind = "control", Seen(t)
                 PROVE  /\ u.shown = <<u.menu>> \o u.inbuf
                        /\ u.inbuf \in Seq(Chars \ Silent)
                        /\ \A k \in DOMAIN u.commands : u.commands[k] \in Seq(Chars \ Silent)
      BY <3>1 DEF Shown, Seen
    <3>2. /\ t.shown = <<t.menu>> \o t.inbuf /\ t.inbuf \in Seq(Chars \ Silent)
          /\ \A k \in DOMAIN t.commands : t.commands[k] \in Seq(Chars \ Silent)
      BY <2>4 DEF Shown
    <3>3. t.menu \in Chars \union Menus /\ t.inbuf \in Seq(Chars \union Menus)
      BY <1>1, SeqMonotonic
    <3>4. Erased(t.shown, 1) = <<t.menu>> \o Front(t.inbuf)
      BY <1>5, <3>2, <3>3, ErasedLine
    <3>5. Front(t.inbuf) \in Seq(Chars \ Silent)
      BY <1>5, <3>2, FrontType
    <3> QED
      BY <3>1, <3>2, <3>4, <3>5
  <2> QED
    BY <2>3, <2>4
<1>6. CASE c \notin {"CR", "ETX", "TAB", "ESC", "DEL"}
  <2>1. u = [t EXCEPT !.inbuf = Append(t.inbuf, c), !.shown = t.shown \o Echoed(<<c>>)]
    BY <1>6 DEF ControlChar
  <2>2. /\ Echoed(<<c>>) \in Seq(Chars \union Menus)
        /\ c \notin Silent => Echoed(<<c>>) = <<c>>
    <3>1. <<c>> \in Seq(Chars) /\ (c \notin Silent => <<c>> \in Seq(Chars \ Silent))
      OBVIOUS
    <3> QED
      BY <3>1, EchoedIs, SeqMonotonic
  <2>3. Append(t.inbuf, c) \in Seq(Chars) /\ t.shown \o Echoed(<<c>>) \in Seq(Chars \union Menus)
    BY <1>1, <2>2, ConcatProperties, AppendHead
  <2>4. Typed(u) /\ Same(t, u)
    BY <2>1, <2>3, <1>1 DEF Typed, Same, States
  <2>5. ASSUME Shown(t), Seen(t) => c \notin Silent PROVE Shown(u)
    <3>1. /\ u.shown = t.shown \o Echoed(<<c>>) /\ u.menu = t.menu
          /\ u.inbuf = Append(t.inbuf, c) /\ u.commands = t.commands
          /\ u.kind = t.kind /\ u.calls = t.calls
      BY <1>1, <2>1 DEF States
    <3> HIDE DEF u
    <3> SUFFICES ASSUME t.kind = "control", Seen(t)
                 PROVE  /\ u.shown = <<u.menu>> \o u.inbuf
                        /\ u.inbuf \in Seq(Chars \ Silent)
                        /\ \A k \in DOMAIN u.commands : u.commands[k] \in Seq(Chars \ Silent)
      BY <3>1 DEF Shown, Seen
    <3>2. /\ t.shown = <<t.menu>> \o t.inbuf /\ Echoed(<<c>>) = <<c>>
          /\ t.inbuf \in Seq(Chars \ Silent) /\ c \in Chars \ Silent
          /\ \A k \in DOMAIN t.commands : t.commands[k] \in Seq(Chars \ Silent)
      BY <2>2, <2>5 DEF Shown
    <3>3. Append(t.inbuf, c) \in Seq(Chars \ Silent)
      BY <3>2, AppendHead
    <3> DEFINE p == <<t.menu>>
    <3>4. /\ p \in Seq(Chars \union Menus) /\ t.inbuf \in Seq(Chars \union Menus)
          /\ <<c>> \in Seq(Chars \union Menus) /\ c \in Chars \union Menus
      BY <1>1, SeqMonotonic
    <3> HIDE DEF p
    <3>5. p \o Append(t.inbuf, c) = Append(p \o t.inbuf, c)
      BY <3>4, AppendConcat
    <3>6. (p \o t.inbuf) \o <<c>> = Append(p \o t.inbuf, c)
      BY <3>4, ConcatProperties, AppendOne
    <3> QED
      BY <3>1, <3>2, <3>3, <3>5, <3>6 DEF p
  <2> QED
    BY <2>4, <2>5
<1> QED
  BY <1>2, <1>3, <1>4, <1>5, <1>6

-----------------------------------------------------------------------------
(* Encodings.                                                               *)

\* what a stream of encodings is made of
Alphabet == Chars \union {"ESC", "[", "P", "_", "\\"}

PassedAll(calls) == FlattenSeq([i \in DOMAIN calls |-> Passed(calls[i])])

LEMMA BeginType ==
  /\ \A x \in {"text", "char", "esc", "drop", "csi", "dcs", "apc"} : Begin[x] \in Seq(Alphabet)
  /\ Begin["text"] = <<>> /\ Begin["char"] = <<>>
  /\ Begin["esc"] = <<"ESC">> /\ Begin["drop"] = <<"ESC">>
  /\ Begin["csi"] = <<"ESC", "[">> /\ Begin["dcs"] = <<"ESC", "P">>
  /\ Begin["apc"] = <<"ESC", "_">>
  /\ ST \in Seq(Alphabet)
<1>1. \A x, y \in Alphabet : <<>> \in Seq(Alphabet) /\ <<x>> \in Seq(Alphabet) /\ <<x, y>> \in Seq(Alphabet)
  OBVIOUS
<1>2. {"ESC", "[", "P", "_", "\\"} \subseteq Alphabet
  BY DEF Alphabet
<1>3. /\ Begin["text"] = <<>> /\ Begin["char"] = <<>>
      /\ Begin["esc"] = <<"ESC">> /\ Begin["drop"] = <<"ESC">>
      /\ Begin["csi"] = <<"ESC", "[">> /\ Begin["dcs"] = <<"ESC", "P">>
      /\ Begin["apc"] = <<"ESC", "_">>
  BY DEF Begin
<1>4. \A x \in {"text", "char", "esc", "drop", "csi", "dcs", "apc"} : Begin[x] \in Seq(Alphabet)
  <2>1. /\ Begin["text"] \in Seq(Alphabet) /\ Begin["char"] \in Seq(Alphabet)
        /\ Begin["esc"] \in Seq(Alphabet) /\ Begin["drop"] \in Seq(Alphabet)
        /\ Begin["csi"] \in Seq(Alphabet) /\ Begin["dcs"] \in Seq(Alphabet)
        /\ Begin["apc"] \in Seq(Alphabet)
    BY <1>1, <1>2, <1>3
  <2> QED
    BY <2>1
<1>5. ST \in Seq(Alphabet)
  BY <1>1, <1>2 DEF ST
<1> QED
  BY <1>3, <1>4, <1>5

LEMMA EncodedType ==
  ASSUME NEW call \in Calls
  PROVE  Encoded(call) \in Seq(Alphabet) /\ Passed(call) \in Seq(Alphabet)
<1>1. call.text \in Seq(Alphabet) /\ call.on \in {"char", "csi", "dcs", "apc", "drop"}
  <2>1. call.text \in Seq(Chars) /\ Chars \subseteq Alphabet
    BY DEF Calls, Alphabet
  <2> QED
    BY <2>1, SeqMonotonic DEF Calls
<1>2. Begin[call.on] \in Seq(Alphabet)
  BY <1>1, BeginType
<1> DEFINE e == IF call.on \in {"dcs", "apc"} THEN ST ELSE <<>>
<1>3. e \in Seq(Alphabet)
  BY BeginType
<1> HIDE DEF e
<1>4. Begin[call.on] \o call.text \o e \in Seq(Alphabet)
  BY <1>1, <1>2, <1>3, ConcatProperties
<1>5. Encoded(call) \in Seq(Alphabet)
  BY <1>4 DEF Encoded, e
<1>6. <<>> \in Seq(Alphabet)
  OBVIOUS
<1> QED
  BY <1>5, <1>6 DEF Passed

LEMMA EncodedAppend ==
  ASSUME NEW calls \in Seq(Calls), NEW call \in Calls
  PROVE  /\ EncodedAll(calls) \in Seq(Alphabet)
         /\ EncodedAll(Append(calls, call)) = EncodedAll(calls) \o Encoded(call)
<1> DEFINE F == [x \in Calls |-> Encoded(x)]
<1>1. F \in [Calls -> Seq(Alphabet)]
  BY EncodedType
<1>2. ASSUME NEW q \in Seq(Calls) PROVE EncodedAll(q) = FlatMap(F, q)
  <2>1. \A i \in DOMAIN q : q[i] \in Calls
    BY LenProperties, ElementOfSeq
  <2>2. \A i \in DOMAIN q : Encoded(q[i]) = F[q[i]]
    BY <2>1
  <2>3. [i \in DOMAIN q |-> Encoded(q[i])] = [i \in DOMAIN q |-> F[q[i]]]
    BY <2>2
  <2> QED
    BY <2>3 DEF EncodedAll, FlatMap, Mapped
<1>3. F[call] = Encoded(call) /\ Append(calls, call) \in Seq(Calls)
  OBVIOUS
<1> HIDE DEF F
<1>4. FlatMap(F, calls) \in Seq(Alphabet)
  BY <1>1, FlatMapType
<1>5. FlatMap(F, Append(calls, call)) = FlatMap(F, calls) \o F[call]
  BY ONLY <1>1, FlatMapAppend, calls \in Seq(Calls), call \in Calls
<1> QED
  BY <1>2, <1>3, <1>4, <1>5

LEMMA PassedAppend ==
  ASSUME NEW calls \in Seq(Calls), NEW call \in Calls
  PROVE  /\ PassedAll(calls) \in Seq(Alphabet)
         /\ PassedAll(Append(calls, call)) = PassedAll(calls) \o Passed(call)
<1> DEFINE F == [x \in Calls |-> Passed(x)]
<1>1. F \in [Calls -> Seq(Alphabet)]
  BY EncodedType
<1>2. ASSUME NEW q \in Seq(Calls) PROVE PassedAll(q) = FlatMap(F, q)
  <2>1. \A i \in DOMAIN q : q[i] \in Calls
    BY LenProperties, ElementOfSeq
  <2>2. \A i \in DOMAIN q : Passed(q[i]) = F[q[i]]
    BY <2>1
  <2>3. [i \in DOMAIN q |-> Passed(q[i])] = [i \in DOMAIN q |-> F[q[i]]]
    BY <2>2
  <2> QED
    BY <2>3 DEF PassedAll, FlatMap, Mapped
<1>3. F[call] = Passed(call) /\ Append(calls, call) \in Seq(Calls)
  OBVIOUS
<1> HIDE DEF F
<1>4. FlatMap(F, calls) \in Seq(Alphabet)
  BY <1>1, FlatMapType
<1>5. FlatMap(F, Append(calls, call)) = FlatMap(F, calls) \o F[call]
  BY ONLY <1>1, FlatMapAppend, calls \in Seq(Calls), call \in Calls
<1> QED
  BY <1>2, <1>3, <1>4, <1>5

LEMMA NothingYet == EncodedAll(<<>>) = <<>> /\ PassedAll(<<>>) = <<>>
BY DEF EncodedAll, PassedAll, FlattenSeq

-----------------------------------------------------------------------------
(* The invariant.                                                           *)

\* what may have come of the sequence that is open
Open(t) ==
  /\ t.input \in {"text", "esc"} => t.cmdbuf = <<>>
  /\ t.input # "text" => "ESC" \in Chars
  /\ t.input = "csi" => /\ "[" \in Chars
                       /\ \A i \in DOMAIN t.cmdbuf : t.cmdbuf[i] \notin Finals
  /\ t.input \in {"dcs", "apc"} =>
       \A i \in 1..(Len(t.cmdbuf) - 1) : ~(t.cmdbuf[i] = "ESC" /\ t.cmdbuf[i + 1] = "\\")

AllWellFormed(t) == \A i \in DOMAIN t.calls : WellFormed(t.calls[i])

Reading(t) ==
  /\ t.typed = EncodedAll(t.calls) \o Begin[t.input] \o t.cmdbuf
  /\ AllWellFormed(t)

PassedOn(t) == t.kind = "serial" => t.device = PassedAll(t.calls)

Good(t) == Typed(t) /\ Open(t) /\ Reading(t) /\ PassedOn(t)

LEMMA FreshGood ==
  ASSUME NEW kind \in {"control", "serial"}
  PROVE  Good(Fresh(kind)) /\ Good(Enter(kind))
<1>1. /\ Begin["text"] = <<>> /\ EncodedAll(<<>>) = <<>> /\ PassedAll(<<>>) = <<>>
      /\ <<>> \o <<>> = <<>> /\ DOMAIN <<>> = {}
  <2>1. <<>> \o <<>> = <<>>
    OBVIOUS
  <2>2. DOMAIN <<>> = {}
    BY NoElements
  <2> QED
    BY <2>1, <2>2, BeginType, NothingYet
<1>2. ASSUME NEW t, Typed(t), t.input = "text", t.cmdbuf = <<>>, t.calls = <<>>,
             t.typed = <<>>, t.device = <<>>
      PROVE  Good(t)
  BY <1>1, <1>2 DEF Good, Open, Reading, AllWellFormed, PassedOn
<1>3. Good(Fresh(kind))
  BY <1>2, FreshTyped DEF Fresh
<1>4. Good(Enter(kind))
  BY <1>2, FreshTyped DEF Fresh, Enter
<1> QED
  BY <1>3, <1>4

\* what the port gets for a call, as the serial state puts it together
LEMMA PassedIs ==
  ASSUME NEW call \in Calls, NEW d \in Seq(Alphabet)
  PROVE  /\ call.on = "char" => d \o Passed(call) = d \o call.text
         /\ call.on = "csi" => d \o Passed(call) = d \o <<"ESC", "[">> \o call.text
         /\ call.on \notin {"char", "csi"} => d \o Passed(call) = d
<1>1. call.text \in Seq(Alphabet)
  <2>1. call.text \in Seq(Chars) /\ Chars \subseteq Alphabet
    BY DEF Calls, Alphabet
  <2> QED
    BY <2>1, SeqMonotonic
<1>2. \A a \in Seq(Alphabet) : a \o <<>> = a /\ <<>> \o a = a
  BY ConcatEmptySeq
<1>3. ASSUME call.on = "char" PROVE Passed(call) = call.text
  <2>1. Passed(call) = <<>> \o call.text \o <<>>
    BY <1>3, BeginType DEF Passed, Encoded
  <2> QED
    BY <2>1, <1>1, <1>2
<1>4. ASSUME call.on = "csi" PROVE d \o Passed(call) = d \o <<"ESC", "[">> \o call.text
  <2> DEFINE b == <<"ESC", "[">>
  <2>1. b \in Seq(Alphabet)
    BY BeginType
  <2>2. Passed(call) = b \o call.text \o <<>>
    BY <1>4, BeginType DEF Passed, Encoded
  <2> HIDE DEF b
  <2>3. Passed(call) = b \o call.text
    BY <1>1, <1>2, <2>1, <2>2, ConcatProperties
  <2>4. d \o (b \o call.text) = (d \o b) \o call.text
    <3>1. \A x, y, z \in Seq(Alphabet) : (x \o y) \o z = x \o (y \o z)
      BY ONLY ConcatAssoc
    <3> QED
      BY <1>1, <2>1, <3>1, Zenon
  <2> QED
    BY <2>3, <2>4 DEF b
<1>5. ASSUME call.on \notin {"char", "csi"} PROVE d \o Passed(call) = d
  BY <1>2, <1>5 DEF Passed
<1> QED
  BY <1>3, <1>4, <1>5

\* The serial state keeps what base_state has read; after a state change all is new.
LEMMA SerialGood ==
  ASSUME NEW t, Typed(t), Open(t), Reading(t), NEW call \in Calls,
         t.device \o Passed(call) = PassedAll(t.calls), t.kind = "serial",
         call.on = "csi" => {"ESC", "["} \subseteq Chars, NEW next
  PROVE  Good(SerialState(t, call)) /\ Shown(SerialState(t, call))
<1> DEFINE u == SerialState(t, call)
<1>1. CASE call.on = "char" /\ call.text = <<"DC1">>
  <2>1. u = Enter("control")
    BY <1>1 DEF SerialState
  <2>2. "control" \in {"control", "serial"}
    OBVIOUS
  <2> QED
    BY <2>1, <2>2, FreshGood, FreshTyped
<1>2. CASE ~(call.on = "char" /\ call.text = <<"DC1">>)
  <2> DEFINE d == t.device \o Passed(call)
  <2>1. t.device \in Seq(Chars) /\ t.device \in Seq(Alphabet) /\ call.text \in Seq(Chars)
    <3>1. t.device \in Seq(Chars) /\ call.text \in Seq(Chars)
      BY DEF Typed, States, Calls
    <3>2. Chars \subseteq Alphabet
      BY DEF Alphabet
    <3> QED
      BY <3>1, <3>2, SeqMonotonic
  <2>2. u = [t EXCEPT !.device = d]
    <3>1. t = [t EXCEPT !.device = t.device]
      BY DEF Typed, States
    <3>2. CASE call.on = "char"
      BY <1>2, <2>1, <3>2, PassedIs DEF SerialState
    <3>3. CASE call.on = "csi"
      BY <2>1, <3>3, PassedIs DEF SerialState
    <3>4. CASE call.on \notin {"char", "csi"}
      BY <2>1, <3>1, <3>4, PassedIs DEF SerialState
    <3> QED
      BY <3>2, <3>3, <3>4
  <2>3. d \in Seq(Chars)
    <3>1. CASE call.on = "char"
      BY <2>1, <3>1, PassedIs, ConcatProperties
    <3>2. CASE call.on = "csi"
      <4>1. d = t.device \o <<"ESC", "[">> \o call.text
        BY <2>1, <3>2, PassedIs
      <4>2. <<"ESC", "[">> \in Seq(Chars)
        BY <3>2
      <4> QED
        BY <2>1, <4>1, <4>2, ConcatProperties
    <3>3. CASE call.on \notin {"char", "csi"}
      BY <2>1, <3>3, PassedIs
    <3> QED
      BY <3>1, <3>2, <3>3
  <2>4. d = PassedAll(t.calls)
    OBVIOUS
  <2> HIDE DEF u, d
  <2>5. /\ u \in States /\ u.kind = t.kind /\ u.input = t.input /\ u.cmdbuf = t.cmdbuf
        /\ u.typed = t.typed /\ u.calls = t.calls /\ u.device = d
        /\ u.iter = t.iter /\ u.commands = t.commands
    BY <2>2, <2>3 DEF Typed, States
  <2>6. Typed(u) /\ Open(u) /\ Reading(u) /\ PassedOn(u) /\ Shown(u)
    BY <2>4, <2>5 DEF Typed, Open, Reading, AllWellFormed, PassedOn, Shown
  <2> QED
    BY <2>6 DEF Good, u
<1> QED
  BY <1>1, <1>2

LEMMA ControlGood ==
  ASSUME NEW t, Typed(t), Open(t), Reading(t), t.kind = "control", NEW call \in Calls,
         NEW next \in Menus \union {"serial"},
         call.on = "char" => call.text[1] \in Chars
  PROVE  /\ Good(ControlState(t, call, next))
         /\ Shown(t) /\ (call.on = "char" /\ Seen(t) => call.text[1] \notin Silent) =>
              Shown(ControlState(t, call, next))
<1> DEFINE u == ControlState(t, call, next)
<1>1. ASSUME NEW v, Typed(v), v = Enter("serial") \/ Same(t, v)
      PROVE  Good(v)
  <2>1. CASE v = Enter("serial")
    BY <2>1, FreshGood
  <2>2. CASE Same(t, v)
    BY <1>1, <2>2 DEF Good, Open, Reading, AllWellFormed, PassedOn, Same
  <2> QED
    BY <1>1, <2>1, <2>2
<1>2. CASE call.on = "char"
  <2>1. u = ControlChar(t, call.text[1], next)
    BY <1>2 DEF ControlState
  <2>2. call.text[1] \in Chars
    BY <1>2
  <2> QED
    BY <1>1, <1>2, <2>1, <2>2, ControlCharTyped
<1>3. ASSUME NEW i \in 1..(Len(t.commands) + 1)
      PROVE  Good(Recall(t, i)) /\ (Shown(t) => Shown(Recall(t, i)))
  BY <1>1, RecallTyped
<1>4. t.iter \in 1..(Len(t.commands) + 1) /\ Len(t.commands) \in Nat
  BY LenProperties DEF Typed, States
<1>5. CASE call.on = "csi" /\ Last(call.text) = "A"
  <2> DEFINE i == IF t.iter > 1 THEN t.iter - 1 ELSE t.iter
  <2>1. i \in 1..(Len(t.commands) + 1)
    BY <1>4
  <2>2. u = Recall(t, i)
    BY <1>5 DEF ControlState, Older
  <2> QED
    BY <1>3, <2>1, <2>2
<1>6. CASE call.on = "csi" /\ Last(call.text) = "B"
  <2> DEFINE i == IF t.iter <= Len(t.commands) THEN t.iter + 1 ELSE t.iter
  <2>1. i \in 1..(Len(t.commands) + 1)
    BY <1>4
  <2>2. u = Recall(t, i)
    BY <1>6 DEF ControlState, Newer
  <2> QED
    BY <1>3, <2>1, <2>2
<1>7. CASE ~(call.on = "char") /\ ~(call.on = "csi" /\ Last(call.text) \in {"A", "B"})
  <2>1. u = t
    BY <1>7 DEF ControlState
  <2>2. Same(t, t)
    BY DEF Same
  <2> QED
    BY <1>1, <2>1, <2>2
<1> QED
  BY <1>2, <1>5, <1>6, <1>7

\* A sequence that has been read whole is one call more.
LEMMA CallGood ==
  ASSUME NEW t, Typed(t), AllWellFormed(t), PassedOn(t), NEW on, NEW text,
         [on |-> on, text |-> text] \in Calls, WellFormed([on |-> on, text |-> text]),
         t.typed = EncodedAll(t.calls) \o Encoded([on |-> on, text |-> text]),
         on = "char" => text[1] \in Chars,
         on = "csi" => {"ESC", "["} \subseteq Chars,
         NEW next \in Menus \union {"serial"}
  PROVE  /\ Good(Call(t, on, text, next))
         /\ Shown(t) => Shown(Call(t, on, text, next))
<1> DEFINE call == [on |-> on, text |-> text]
           u == [t EXCEPT !.input = "text", !.cmdbuf = <<>>, !.calls = Append(t.calls, call)]
<1>1. call \in Calls /\ call.on = on /\ call.text = text
  OBVIOUS
<1>2. WellFormed(call) /\ t.typed = EncodedAll(t.calls) \o Encoded(call)
  OBVIOUS
<1> HIDE DEF call
<1>3. t \in States /\ t.calls \in Seq(Calls)
  BY DEF Typed, States
<1>4. /\ Append(t.calls, call) \in Seq(Calls)
      /\ Len(Append(t.calls, call)) = Len(t.calls) + 1
      /\ \A i \in 1..Len(t.calls) : Append(t.calls, call)[i] = t.calls[i]
      /\ Append(t.calls, call)[Len(t.calls) + 1] = call
      /\ <<>> \in Seq(Chars)
  BY <1>1, <1>3
<1>5. /\ u \in States /\ u.input = "text" /\ u.cmdbuf = <<>>
      /\ u.calls = Append(t.calls, call) /\ u.typed = t.typed
      /\ u.kind = t.kind /\ u.device = t.device /\ u.iter = t.iter
      /\ u.commands = t.commands /\ u.shown = t.shown /\ u.menu = t.menu /\ u.inbuf = t.inbuf
  BY <1>3, <1>4 DEF States
<1>6. Call(t, on, text, next) =
        IF u.kind = "control" THEN ControlState(u, call, next) ELSE SerialState(u, call)
  BY <1>5 DEF Call, call
<1> HIDE DEF u
<1>7. Typed(u) /\ Open(u)
  BY <1>5 DEF Typed, Open
<1>8. AllWellFormed(u)
  <2>1. DOMAIN u.calls = 1..(Len(t.calls) + 1) /\ DOMAIN t.calls = 1..Len(t.calls)
        /\ Len(t.calls) \in Nat
    BY <1>3, <1>4, <1>5, LenProperties
  <2>2. ASSUME NEW i \in 1..(Len(t.calls) + 1) PROVE WellFormed(u.calls[i])
    <3>1. CASE i = Len(t.calls) + 1
      BY <1>2, <1>4, <1>5, <3>1
    <3>2. CASE i \in 1..Len(t.calls)
      BY <1>4, <1>5, <2>1, <3>2 DEF AllWellFormed
    <3> QED
      BY <2>1, <3>1, <3>2
  <2> QED
    BY <2>1, <2>2 DEF AllWellFormed
<1>9. Reading(u)
  <2>1. EncodedAll(u.calls) = t.typed /\ EncodedAll(u.calls) \in Seq(Alphabet)
    BY <1>1, <1>2, <1>3, <1>4, <1>5, EncodedAppend
  <2>2. EncodedAll(u.calls) \o <<>> \o <<>> = EncodedAll(u.calls)
    BY <2>1, ConcatEmptySeq
  <2> QED
    BY <1>5, <1>8, <2>1, <2>2, BeginType DEF Reading
<1>10. u.kind = "serial" => u.device \o Passed(call) = PassedAll(u.calls)
  BY <1>1, <1>3, <1>5, PassedAppend DEF PassedOn
<1>14. Seen(u) => Seen(t) /\ (on = "char" => text[1] \notin Silent)
  <2>1. DOMAIN u.calls = 1..(Len(t.calls) + 1) /\ DOMAIN t.calls = 1..Len(t.calls)
        /\ Len(t.calls) \in Nat
    BY <1>3, <1>4, <1>5, LenProperties
  <2>2. /\ Len(t.calls) + 1 \in DOMAIN u.calls
        /\ \A i \in DOMAIN t.calls : i \in DOMAIN u.calls /\ u.calls[i] = t.calls[i]
    BY <1>4, <1>5, <2>1
  <2> QED
    BY <1>1, <1>4, <1>5, <2>2 DEF Seen
<1>11. Shown(t) => Shown(u)
  BY <1>5, <1>14 DEF Shown
<1>12. CASE u.kind = "control"
  BY <1>1, <1>6, <1>7, <1>9, <1>11, <1>12, <1>14, ControlGood
<1>13. CASE u.kind # "control"
  <2>1. u.kind = "serial"
    BY <1>5, <1>13 DEF States
  <2>2. Good(SerialState(u, call)) /\ Shown(SerialState(u, call))
    BY <1>1, <1>7, <1>9, <1>10, <2>1, SerialGood
  <2> QED
    BY <1>6, <1>13, <2>2
<1> QED
  BY <1>12, <1>13

-----------------------------------------------------------------------------
(* base_state reads one character.                                          *)

LEMMA EncodedIs ==
  ASSUME NEW on \in {"char", "csi", "dcs", "apc", "drop"}, NEW text \in Seq(Chars)
  PROVE  /\ [on |-> on, text |-> text] \in Calls
         /\ on \in {"char", "csi", "drop"} =>
              Encoded([on |-> on, text |-> text]) = Begin[on] \o text
         /\ on \in {"dcs", "apc"} =>
              Encoded([on |-> on, text |-> text]) = Begin[on] \o text \o ST
<1> DEFINE call == [on |-> on, text |-> text]
<1>1. call \in Calls /\ call.on = on /\ call.text = text
  BY DEF Calls
<1> HIDE DEF call
<1>2. ASSUME on \in {"char", "csi", "drop"} PROVE Encoded(call) = Begin[on] \o text
  <2>1. Encoded(call) = Begin[on] \o text \o <<>>
    BY <1>1, <1>2 DEF Encoded
  <2>2. Begin[on] \in Seq(Alphabet) /\ text \in Seq(Alphabet)
    <3>1. Chars \subseteq Alphabet
      BY DEF Alphabet
    <3> QED
      BY <3>1, BeginType, SeqMonotonic
  <2> QED
    BY <2>1, <2>2, ConcatProperties, ConcatEmptySeq
<1>3. ASSUME on \in {"dcs", "apc"} PROVE Encoded(call) = Begin[on] \o text \o ST
  BY <1>1, <1>3 DEF Encoded
<1> QED
  BY <1>1, <1>2, <1>3 DEF call

\* what base_state has when it has taken one character more
Took(t, c) == [t EXCEPT !.typed = Append(@, c)]

LEMMA TookIs ==
  ASSUME NEW t, Good(t), NEW c \in Chars
  PROVE  /\ Typed(Took(t, c)) /\ Took(t, c).input = t.input /\ Took(t, c).cmdbuf = t.cmdbuf
         /\ Took(t, c).calls = t.calls /\ Took(t, c).kind = t.kind
         /\ AllWellFormed(Took(t, c)) /\ PassedOn(Took(t, c)) /\ Open(Took(t, c))
         /\ Shown(t) => Shown(Took(t, c))
         /\ t.cmdbuf \in Seq(Chars) /\ EncodedAll(t.calls) \in Seq(Alphabet)
         /\ Took(t, c).typed = EncodedAll(t.calls) \o (Begin[t.input] \o Append(t.cmdbuf, c))
         /\ Took(t, c).typed = EncodedAll(t.calls) \o Begin[t.input] \o Append(t.cmdbuf, c)
<1> DEFINE u == Took(t, c)
<1>1. t \in States /\ t.typed \in Seq(Chars) /\ t.calls \in Seq(Calls) /\ t.cmdbuf \in Seq(Chars)
      /\ t.input \in {"text", "esc", "csi", "dcs", "apc"}
  BY DEF Good, Typed, States
<1>2. Append(t.typed, c) \in Seq(Chars)
  BY <1>1, AppendHead
<1>3. /\ u \in States /\ u.typed = Append(t.typed, c)
      /\ u.kind = t.kind /\ u.input = t.input /\ u.cmdbuf = t.cmdbuf /\ u.calls = t.calls
      /\ u.device = t.device /\ u.iter = t.iter /\ u.commands = t.commands
      /\ u.shown = t.shown /\ u.menu = t.menu /\ u.inbuf = t.inbuf
  BY <1>1, <1>2 DEF Took, States
<1>4. t.typed = EncodedAll(t.calls) \o Begin[t.input] \o t.cmdbuf
  BY DEF Good, Reading
<1>5. EncodedAll(t.calls) \in Seq(Alphabet)
  <2>1. [on |-> "drop", text |-> <<>>] \in Calls
    BY DEF Calls
  <2> QED
    BY <1>1, <2>1, EncodedAppend
<1>6. t.cmdbuf \in Seq(Alphabet) /\ c \in Alphabet /\ Begin[t.input] \in Seq(Alphabet)
  <2>1. Chars \subseteq Alphabet
    BY DEF Alphabet
  <2> QED
    BY <1>1, <2>1, SeqMonotonic, BeginType
<1> HIDE DEF u
<1>7. /\ u.typed = EncodedAll(t.calls) \o (Begin[t.input] \o Append(t.cmdbuf, c))
      /\ u.typed = EncodedAll(t.calls) \o Begin[t.input] \o Append(t.cmdbuf, c)
  <2> DEFINE e == EncodedAll(t.calls)
             b == Begin[t.input]
             d == t.cmdbuf
  <2>1. u.typed = Append(e \o b \o d, c)
    BY <1>3, <1>4
  <2>2. e \in Seq(Alphabet) /\ b \in Seq(Alphabet) /\ d \in Seq(Alphabet) /\ c \in Alphabet
    BY <1>5, <1>6
  <2> HIDE DEF e, b, d
  <2>3. e \o b \in Seq(Alphabet)
    BY <2>2, ConcatProperties
  <2>4. Append(e \o b \o d, c) = e \o b \o Append(d, c)
    <3> DEFINE f == e \o b
    <3>1. f \in Seq(Alphabet)
      BY <2>3
    <3> HIDE DEF f
    <3>2. f \o Append(d, c) = Append(f \o d, c)
      BY <2>2, <3>1, AppendConcat
    <3> QED
      BY <3>2 DEF f
  <2>5. e \o b \o Append(d, c) = e \o (b \o Append(d, c))
    <3> DEFINE a == Append(d, c)
    <3>1. a \in Seq(Alphabet)
      BY <2>2, AppendHead
    <3> HIDE DEF a
    <3>2. e \o b \o a = e \o (b \o a)
      BY <2>2, <3>1, ThreeParts
    <3> QED
      BY <3>2 DEF a
  <2> QED
    BY <2>1, <2>4, <2>5 DEF e, b, d
<1>8. Typed(u) /\ AllWellFormed(u) /\ PassedOn(u) /\ Open(u)
  BY <1>3 DEF Good, Typed, Reading, AllWellFormed, PassedOn, Open
<1>9. Shown(t) => Shown(u)
  BY <1>3 DEF Shown, Seen
<1> QED
  BY <1>1, <1>3, <1>5, <1>7, <1>8, <1>9 DEF u

\* the sequence goes on
LEMMA GoesOn ==
  ASSUME NEW t, Good(t), NEW c \in Chars, NEW input, NEW cmdbuf \in Seq(Chars),
         input \in {"text", "esc", "csi", "dcs", "apc"},
         Begin[input] \o cmdbuf = Begin[t.input] \o Append(t.cmdbuf, c),
         Open([Took(t, c) EXCEPT !.input = input, !.cmdbuf = cmdbuf])
  PROVE  LET u == [Took(t, c) EXCEPT !.input = input, !.cmdbuf = cmdbuf] IN
         Good(u) /\ (Shown(t) => Shown(u))
<1> DEFINE v == Took(t, c)
           u == [v EXCEPT !.input = input, !.cmdbuf = cmdbuf]
<1>1. /\ Typed(v) /\ v.calls = t.calls /\ v.kind = t.kind
      /\ AllWellFormed(v) /\ PassedOn(v) /\ (Shown(t) => Shown(v))
      /\ EncodedAll(t.calls) \in Seq(Alphabet)
      /\ v.typed = EncodedAll(t.calls) \o (Begin[t.input] \o Append(t.cmdbuf, c))
  BY TookIs
<1>2. Open(u)
  OBVIOUS
<1> HIDE DEF v
<1>3. /\ u \in States /\ u.typed = v.typed
      /\ u.kind = v.kind /\ u.input = input /\ u.cmdbuf = cmdbuf /\ u.calls = v.calls
      /\ u.device = v.device /\ u.iter = v.iter /\ u.commands = v.commands
      /\ u.shown = v.shown /\ u.menu = v.menu /\ u.inbuf = v.inbuf
  BY <1>1 DEF Typed, States
<1>4. EncodedAll(t.calls) \o (Begin[input] \o cmdbuf) = EncodedAll(t.calls) \o Begin[input] \o cmdbuf
  <2>1. Begin[input] \in Seq(Alphabet)
    BY BeginType
  <2>2. cmdbuf \in Seq(Alphabet)
    <3>1. Chars \subseteq Alphabet
      BY DEF Alphabet
    <3> QED
      BY <3>1, SeqMonotonic
  <2>3. \A x, y, z \in Seq(Alphabet) : (x \o y) \o z = x \o (y \o z)
    BY ONLY ConcatAssoc
  <2> QED
    BY <1>1, <2>1, <2>2, <2>3, Zenon
<1> HIDE DEF u
<1>5. u.typed = EncodedAll(u.calls) \o Begin[u.input] \o u.cmdbuf
  BY <1>1, <1>3, <1>4
<1>6. Typed(u) /\ Reading(u) /\ PassedOn(u)
  BY <1>1, <1>3, <1>5 DEF Typed, Reading, AllWellFormed, PassedOn
<1>7. Shown(v) => Shown(u)
  BY <1>3 DEF Shown, Seen
<1> QED
  BY <1>1, <1>2, <1>6, <1>7 DEF Good, u, v

\* What is shown to hold of reading a character: the invariant, and the line that is shown.
Keeps(t, u) == Good(u) /\ (Shown(t) => Shown(u))

LEMMA FeedTextGood ==
  ASSUME NEW t, Good(t), t.input = "text", NEW c \in Chars,
         NEW next \in Menus \union {"serial"}
  PROVE  Keeps(t, FeedText(Took(t, c), c, next))
<1> DEFINE v == Took(t, c)
<1>1. /\ Typed(v) /\ v.calls = t.calls /\ v.input = "text" /\ v.cmdbuf = t.cmdbuf
      /\ AllWellFormed(v) /\ PassedOn(v) /\ Open(v) /\ (Shown(t) => Shown(v))
      /\ v.typed = EncodedAll(t.calls) \o (Begin[t.input] \o Append(t.cmdbuf, c))
  BY TookIs
<1>2. t.cmdbuf = <<>>
  BY DEF Good, Open
<1>3. Append(<<>>, c) = <<c>> /\ <<c>> \in Seq(Chars) /\ <<c>>[1] = c
  OBVIOUS
<1>4. CASE c = "ESC"
  <2> DEFINE u == [v EXCEPT !.input = "esc", !.cmdbuf = <<>>]
  <2>1. FeedText(v, c, next) = u
    <3>1. v = [v EXCEPT !.cmdbuf = <<>>]
      BY <1>1, <1>2 DEF Typed, States
    <3> HIDE DEF v
    <3>2. FeedText(v, c, next) = [v EXCEPT !.input = "esc"]
      BY <1>4 DEF FeedText
    <3> QED
      BY <1>1, <3>1, <3>2 DEF Typed, States
  <2>2. Open(u)
    <3> HIDE DEF v
    <3> QED
      BY <1>1, <1>4 DEF Typed, States, Open
  <2>3. Begin["esc"] \o <<>> = Begin[t.input] \o Append(t.cmdbuf, c)
    <3>1. <<"ESC">> \o <<>> = <<>> \o <<"ESC">>
      OBVIOUS
    <3> QED
      BY <1>2, <1>3, <1>4, <3>1, BeginType
  <2>4. <<>> \in Seq(Chars)
    OBVIOUS
  <2>5. Good(u) /\ (Shown(t) => Shown(u))
    BY <2>2, <2>3, <2>4, GoesOn
  <2> QED
    BY <2>1, <2>5 DEF Keeps
<1>5. CASE c # "ESC"
  <2> DEFINE call == [on |-> "char", text |-> <<c>>]
  <2>1. Encoded(call) = Begin["char"] \o <<c>> /\ call \in Calls
    BY <1>3, EncodedIs
  <2>2. v.typed = EncodedAll(v.calls) \o Encoded(call)
    BY <1>1, <1>2, <1>3, <2>1, BeginType
  <2>3. WellFormed(call)
    BY <1>5 DEF WellFormed
  <2> HIDE DEF v
  <2>4. /\ Good(Call(v, "char", <<c>>, next))
        /\ Shown(v) => Shown(Call(v, "char", <<c>>, next))
    BY <1>1, <1>3, <2>1, <2>2, <2>3, CallGood
  <2>5. FeedText(v, c, next) = Call(v, "char", <<c>>, next)
    BY <1>5 DEF FeedText
  <2> QED
    BY <1>1, <1>3, <2>4, <2>5 DEF Keeps, v
<1> QED
  BY <1>4, <1>5

LEMMA FeedEscGood ==
  ASSUME NEW t, Good(t), t.input = "esc", NEW c \in Chars,
         NEW next \in Menus \union {"serial"}
  PROVE  Keeps(t, FeedEsc(Took(t, c), c, next))
<1> DEFINE v == Took(t, c)
<1>1. /\ Typed(v) /\ v.calls = t.calls /\ v.input = "esc" /\ v.cmdbuf = t.cmdbuf
      /\ AllWellFormed(v) /\ PassedOn(v) /\ Open(v) /\ (Shown(t) => Shown(v))
      /\ v.typed = EncodedAll(t.calls) \o (Begin[t.input] \o Append(t.cmdbuf, c))
  BY TookIs
<1>2. t.cmdbuf = <<>>
  BY DEF Good, Open
<1>3. Append(<<>>, c) = <<c>> /\ <<c>> \in Seq(Chars) /\ <<c>>[1] = c
  OBVIOUS
<1>4. CASE c \in DOMAIN Opened
  <2> DEFINE i == Opened[c]
             u == [v EXCEPT !.input = i, !.cmdbuf = <<>>]
  <2>1. \/ c = "[" /\ i = "csi"
        \/ c = "P" /\ i = "dcs"
        \/ c = "_" /\ i = "apc"
    BY <1>4 DEF Opened
  <2>2. FeedEsc(v, c, next) = u
    <3>1. v = [v EXCEPT !.cmdbuf = <<>>]
      BY <1>1, <1>2 DEF Typed, States
    <3> HIDE DEF v, i
    <3>2. FeedEsc(v, c, next) = [v EXCEPT !.input = i]
      BY <1>4 DEF FeedEsc, i
    <3> QED
      BY <1>1, <3>1, <3>2 DEF Typed, States
  <2> HIDE DEF i
  <2>3. Open(u)
    <3>1. u.input = i /\ u.cmdbuf = <<>>
      <4> HIDE DEF v
      <4> QED
        BY <1>1 DEF Typed, States
    <3>2. "ESC" \in Chars
      BY <1>1 DEF Open
    <3>3. Len(<<>>) = 0 /\ DOMAIN <<>> = {} /\ 1..(0 - 1) = {}
      OBVIOUS
    <3> QED
      BY <2>1, <3>1, <3>2, <3>3 DEF Open
  <2>4. Begin[i] \o <<>> = Begin[t.input] \o Append(t.cmdbuf, c)
    <3>1. Begin[t.input] \o Append(t.cmdbuf, c) = <<"ESC", c>>
      <4>1. <<"ESC">> \o <<c>> = <<"ESC", c>>
        BY TwoOnes
      <4> QED
        BY <1>2, <1>3, <4>1, BeginType
    <3>2. Begin[i] = <<"ESC", c>>
      BY <2>1, BeginType
    <3>3. <<"ESC", c>> \o <<>> = <<"ESC", c>>
      OBVIOUS
    <3> QED
      BY <3>1, <3>2, <3>3
  <2>5. <<>> \in Seq(Chars) /\ i \in {"text", "esc", "csi", "dcs", "apc"}
    <3>1. <<>> \in Seq(Chars)
      OBVIOUS
    <3> QED
      BY <2>1, <3>1
  <2>6. Good(u) /\ (Shown(t) => Shown(u))
    BY <2>3, <2>4, <2>5, GoesOn
  <2> QED
    BY <2>2, <2>6 DEF Keeps
<1>5. CASE c \notin DOMAIN Opened
  <2> DEFINE call == [on |-> "drop", text |-> <<c>>]
  <2>1. Encoded(call) = Begin["drop"] \o <<c>> /\ call \in Calls
    BY <1>3, EncodedIs
  <2>2. v.typed = EncodedAll(v.calls) \o Encoded(call)
    BY <1>1, <1>2, <1>3, <2>1, BeginType
  <2>3. WellFormed(call)
    BY <1>3, <1>5 DEF WellFormed
  <2> HIDE DEF v
  <2>4. /\ Good(Call(v, "drop", <<c>>, next))
        /\ Shown(v) => Shown(Call(v, "drop", <<c>>, next))
    BY <1>1, <1>3, <2>1, <2>2, <2>3, CallGood
  <2>5. FeedEsc(v, c, next) = Call(v, "drop", <<c>>, next)
    BY <1>5 DEF FeedEsc
  <2> QED
    BY <1>1, <2>4, <2>5 DEF Keeps, v
<1> QED
  BY <1>4, <1>5

LEMMA FeedCsiGood ==
  ASSUME NEW t, Good(t), t.input = "csi", NEW c \in Chars,
         NEW next \in Menus \union {"serial"}
  PROVE  Keeps(t, FeedCsi(Took(t, c), c, next))
<1> DEFINE v == Took(t, c)
           a == Append(t.cmdbuf, c)
<1>1. /\ Typed(v) /\ v.calls = t.calls /\ v.input = "csi" /\ v.cmdbuf = t.cmdbuf
      /\ AllWellFormed(v) /\ PassedOn(v) /\ Open(v) /\ (Shown(t) => Shown(v))
      /\ v.typed = EncodedAll(t.calls) \o (Begin[t.input] \o a)
      /\ t.cmdbuf \in Seq(Chars)
  BY TookIs
<1>2. /\ a \in Seq(Chars) /\ Len(a) = Len(t.cmdbuf) + 1 /\ Len(t.cmdbuf) \in Nat
      /\ DOMAIN a = 1..(Len(t.cmdbuf) + 1) /\ DOMAIN t.cmdbuf = 1..Len(t.cmdbuf)
      /\ a[Len(t.cmdbuf) + 1] = c /\ \A i \in 1..Len(t.cmdbuf) : a[i] = t.cmdbuf[i]
  BY <1>1
<1>3. /\ \A i \in 1..Len(t.cmdbuf) : t.cmdbuf[i] \notin Finals
      /\ {"ESC", "["} \subseteq Chars
  BY <1>2 DEF Good, Open
<1> HIDE DEF a
<1>4. CASE c \notin Finals
  <2> DEFINE u == [v EXCEPT !.input = "csi", !.cmdbuf = a]
  <2>1. FeedCsi(v, c, next) = u
    <3> HIDE DEF v
    <3>1. FeedCsi(v, c, next) = [v EXCEPT !.cmdbuf = a]
      BY <1>1, <1>4 DEF FeedCsi, a, Typed, States
    <3> QED
      BY <1>1, <3>1 DEF Typed, States
  <2>2. Open(u)
    <3>1. u.input = "csi" /\ u.cmdbuf = a
      <4> HIDE DEF v
      <4> QED
        BY <1>1 DEF Typed, States
    <3>2. \A i \in DOMAIN a : a[i] \notin Finals
      BY <1>2, <1>3, <1>4
    <3> QED
      BY <1>3, <3>1, <3>2 DEF Open
  <2>3. Begin["csi"] \o a = Begin[t.input] \o Append(t.cmdbuf, c)
    BY DEF a
  <2>4. Good(u) /\ (Shown(t) => Shown(u))
    BY <1>2, <2>2, <2>3, GoesOn
  <2> QED
    BY <2>1, <2>4 DEF Keeps
<1>5. CASE c \in Finals
  <2> DEFINE call == [on |-> "csi", text |-> a]
  <2>1. Encoded(call) = Begin["csi"] \o a /\ call \in Calls
    BY <1>2, EncodedIs
  <2>2. v.typed = EncodedAll(v.calls) \o Encoded(call)
    BY <1>1, <2>1
  <2>3. WellFormed(call)
    <3>1. \A i \in DOMAIN a : a[i] \in Finals <=> i = Len(a)
      BY <1>2, <1>3, <1>5
    <3> QED
      BY <3>1 DEF WellFormed
  <2> HIDE DEF v
  <2>4. /\ Good(Call(v, "csi", a, next))
        /\ Shown(v) => Shown(Call(v, "csi", a, next))
    BY <1>1, <1>3, <2>1, <2>2, <2>3, CallGood
  <2>5. FeedCsi(v, c, next) = Call(v, "csi", a, next)
    BY <1>1, <1>5 DEF FeedCsi, a
  <2> QED
    BY <1>1, <2>4, <2>5 DEF Keeps, v
<1> QED
  BY <1>4, <1>5

LEMMA FeedStringGood ==
  ASSUME NEW t, Good(t), t.input \in {"dcs", "apc"}, NEW c \in Chars,
         NEW next \in Menus \union {"serial"}
  PROVE  Keeps(t, FeedString(Took(t, c), c, next))
<1> DEFINE v == Took(t, c)
           b == t.cmdbuf
           a == Append(b, c)
<1>1. /\ Typed(v) /\ v.calls = t.calls /\ v.input = t.input /\ v.cmdbuf = b
      /\ AllWellFormed(v) /\ PassedOn(v) /\ Open(v) /\ (Shown(t) => Shown(v))
      /\ v.typed = EncodedAll(t.calls) \o (Begin[t.input] \o a)
      /\ b \in Seq(Chars)
  BY TookIs
<1>2. /\ a \in Seq(Chars) /\ Len(a) = Len(b) + 1 /\ Len(b) \in Nat
      /\ a[Len(b) + 1] = c /\ \A i \in 1..Len(b) : a[i] = b[i]
      /\ (b = <<>> <=> Len(b) = 0)
  BY <1>1
<1>3. /\ \A i \in 1..(Len(b) - 1) : ~(b[i] = "ESC" /\ b[i + 1] = "\\")
      /\ "ESC" \in Chars
  BY DEF Good, Open
<1>4. IsSuffix(ST, a) <=> b # <<>> /\ b[Len(b)] = "ESC" /\ c = "\\"
  BY <1>1, EndsInST DEF Last
<1> HIDE DEF a, b
<1>5. CASE ~IsSuffix(ST, a)
  <2> DEFINE u == [v EXCEPT !.input = t.input, !.cmdbuf = a]
  <2>1. FeedString(v, c, next) = u
    <3> HIDE DEF v
    <3>1. FeedString(v, c, next) = [v EXCEPT !.cmdbuf = a]
      BY <1>1, <1>5 DEF FeedString, a, Typed, States
    <3> QED
      BY <1>1, <3>1 DEF Typed, States
  <2>2. Open(u)
    <3>1. u.input = t.input /\ u.cmdbuf = a
      <4> HIDE DEF v
      <4> QED
        BY <1>1 DEF Typed, States
    <3>2. ASSUME NEW i \in 1..(Len(a) - 1) PROVE ~(a[i] = "ESC" /\ a[i + 1] = "\\")
      <4>1. CASE i = Len(b)
        BY <1>2, <1>4, <1>5, <4>1
      <4>2. CASE i # Len(b)
        <5>1. i \in 1..(Len(b) - 1) /\ i + 1 \in 1..Len(b) /\ i \in 1..Len(b)
          BY <1>2, <4>2
        <5> QED
          BY <1>2, <1>3, <5>1
      <4> QED
        BY <4>1, <4>2
    <3> QED
      BY <1>3, <3>1, <3>2 DEF Open
  <2>3. Begin[t.input] \o a = Begin[t.input] \o Append(t.cmdbuf, c)
    BY DEF a, b
  <2>4. Good(u) /\ (Shown(t) => Shown(u))
    BY <1>2, <2>2, <2>3, GoesOn
  <2> QED
    BY <2>1, <2>4 DEF Keeps, a, b
<1>6. CASE IsSuffix(ST, a)
  <2> DEFINE on == t.input
             text == Front(b)
             call == [on |-> on, text |-> text]
  <2>1. b # <<>> /\ Last(b) = "ESC" /\ c = "\\"
    BY <1>4, <1>6 DEF Last
  <2>2. text \in Seq(Chars) /\ Len(text) = Len(b) - 1 /\ text \o ST = a
    <3>1. text \in Seq(Chars) /\ Len(text) = Len(b) - 1
      BY <1>1, <2>1, FrontType
    <3>2. text \o ST = a
      BY <1>1, <2>1, AllButLast DEF a
    <3> QED
      BY <3>1, <3>2
  <2> HIDE DEF text
  <2>3. Encoded(call) = Begin[on] \o text \o ST /\ call \in Calls
    BY <2>2, EncodedIs
  <2>4. Begin[on] \o text \o ST = Begin[on] \o a
    <3>1. Begin[on] \in Seq(Alphabet) /\ ST \in Seq(Alphabet)
      BY BeginType
    <3>2. text \in Seq(Alphabet)
      <4>1. Chars \subseteq Alphabet
        BY DEF Alphabet
      <4> QED
        BY <2>2, <4>1, SeqMonotonic
    <3>3. \A x, y, z \in Seq(Alphabet) : (x \o y) \o z = x \o (y \o z)
      BY ONLY ConcatAssoc
    <3>4. Begin[on] \o text \o ST = Begin[on] \o (text \o ST)
      BY <3>1, <3>2, <3>3, Zenon
    <3> QED
      BY <2>2, <3>4
  <2>5. v.typed = EncodedAll(v.calls) \o Encoded(call)
    BY <1>1, <2>3, <2>4
  <2>6. WellFormed(call)
    <3>1. ASSUME NEW i \in 1..Len(text) PROVE SubSeq(text \o ST, i, i + 1) # ST
      <4>1. i \in 1..(Len(b) - 1) /\ i + 1 \in 1..Len(b) /\ i \in 1..Len(b) /\ i + 1 <= Len(a)
        BY <1>2, <2>2
      <4>2. /\ SubSeq(a, i, i + 1)[1] = a[i]
            /\ SubSeq(a, i, i + 1)[2] = a[i + 1]
        BY <1>2, <4>1
      <4>3. ~(a[i] = "ESC" /\ a[i + 1] = "\\")
        BY <1>2, <1>3, <4>1
      <4>4. ST[1] = "ESC" /\ ST[2] = "\\"
        BY DEF ST
      <4> QED
        BY <2>2, <4>2, <4>3, <4>4
    <3> QED
      BY <3>1 DEF WellFormed
  <2> HIDE DEF v, call
  <2>7. /\ Good(Call(v, on, text, next))
        /\ Shown(v) => Shown(Call(v, on, text, next))
    BY <1>1, <2>3, <2>5, <2>6, CallGood DEF call
  <2>8. FeedString(v, c, next) = Call(v, on, text, next)
    BY <1>1, <1>6 DEF FeedString, a, text
  <2> QED
    BY <1>1, <2>7, <2>8 DEF Keeps, v
<1> QED
  BY <1>5, <1>6

LEMMA FeedGood ==
  ASSUME NEW t, Good(t), NEW c \in Chars, NEW next \in Menus \union {"serial"}
  PROVE  Keeps(t, Feed(t, c, next)) /\ Keeps(t, Step(t, c, next))
<1> DEFINE v == Took(t, c)
<1> SUFFICES Keeps(t, Feed(t, c, next))
  <2>1. Keeps(t, t)
    BY DEF Keeps
  <2> QED
    BY <2>1 DEF Step
<1>1. t.input \in {"text", "esc", "csi", "dcs", "apc"}
  BY DEF Good, Typed, States
<1>2. CASE t.input = "text"
  <2>1. Feed(t, c, next) = FeedText(v, c, next)
    BY <1>2 DEF Feed, Took
  <2>2. Keeps(t, FeedText(v, c, next))
    BY <1>2, FeedTextGood
  <2> QED
    BY <2>1, <2>2
<1>3. CASE t.input = "esc"
  <2>1. Feed(t, c, next) = FeedEsc(v, c, next)
    BY <1>3 DEF Feed, Took
  <2>2. Keeps(t, FeedEsc(v, c, next))
    BY <1>3, FeedEscGood
  <2> QED
    BY <2>1, <2>2
<1>4. CASE t.input = "csi"
  <2>1. Feed(t, c, next) = FeedCsi(v, c, next)
    BY <1>4 DEF Feed, Took
  <2>2. Keeps(t, FeedCsi(v, c, next))
    BY <1>4, FeedCsiGood
  <2> QED
    BY <2>1, <2>2
<1>5. CASE t.input \in {"dcs", "apc"}
  <2>1. Feed(t, c, next) = FeedString(v, c, next)
    BY <1>5 DEF Feed, Took
  <2>2. Keeps(t, FeedString(v, c, next))
    BY <1>5, FeedStringGood
  <2> QED
    BY <2>1, <2>2
<1> QED
  BY <1>1, <1>2, <1>3, <1>4, <1>5

-----------------------------------------------------------------------------
(* The theorems.                                                            *)

FedInv == Good(cli) /\ messages \in 0..MaxMessages

LEMMA FirstFed == Init => FedInv /\ Shown(cli)
<1> SUFFICES ASSUME Init PROVE FedInv /\ Shown(cli)
  OBVIOUS
<1>1. cli = Fresh("control") /\ "control" \in {"control", "serial"}
  BY DEF Init
<1>2. Good(cli) /\ Shown(cli)
  BY <1>1, FreshGood, FreshTyped
<1>3. messages \in 0..MaxMessages
  <2>1. messages = 0 /\ MaxMessages \in Nat
    BY TerminalAssumption DEF Init
  <2> QED
    BY <2>1
<1> QED
  BY <1>2, <1>3 DEF FedInv

\* a message begins with the mark of a state change taken back
LEMMA BeginsGood ==
  ASSUME NEW t, Good(t)
  PROVE  LET u == [t EXCEPT !.left = FALSE] IN Good(u) /\ (Shown(t) => Shown(u))
<1> DEFINE u == [t EXCEPT !.left = FALSE]
<1>1. t \in States
  BY DEF Good, Typed
<1>2. /\ u \in States /\ u.typed = t.typed
      /\ u.kind = t.kind /\ u.input = t.input /\ u.cmdbuf = t.cmdbuf /\ u.calls = t.calls
      /\ u.device = t.device /\ u.iter = t.iter /\ u.commands = t.commands
      /\ u.shown = t.shown /\ u.menu = t.menu /\ u.inbuf = t.inbuf
  BY <1>1 DEF States
<1> HIDE DEF u
<1>3. Typed(u) /\ Open(u) /\ Reading(u) /\ PassedOn(u)
  BY <1>2 DEF Good, Typed, Open, Reading, AllWellFormed, PassedOn
<1>4. Shown(t) => Shown(u)
  BY <1>2 DEF Shown, Seen
<1> QED
  BY <1>3, <1>4 DEF Good, u

LEMMA MessageGood ==
  ASSUME NEW t, Good(t), NEW m \in Seq(Chars), NEW next \in Menus \union {"serial"}
  PROVE  Good(Fed(t, m, next))
<1> DEFINE I == {u \in States : Good(u)}
<1>1. \A u : Good(u) <=> u \in I
  BY DEF Good, Typed
<1>2. [t EXCEPT !.left = FALSE] \in I
  BY <1>1, BeginsGood
<1>3. \A u \in I, c \in Chars : Step(u, c, next) \in I
  BY <1>1, FeedGood DEF Keeps
<1> HIDE DEF I
<1>4. Fed(t, m, next) \in I
  BY <1>2, <1>3, FedInd
<1> QED
  BY <1>1, <1>4

LEMMA MessageShown ==
  ASSUME NEW t, Good(t), Shown(t), NEW m \in Seq(Chars),
         NEW next \in Menus \union {"serial"}
  PROVE  Shown(Fed(t, m, next))
<1> DEFINE I == {u \in States : Good(u) /\ Shown(u)}
<1>1. \A u : Good(u) /\ Shown(u) <=> u \in I
  BY DEF Good, Typed
<1>2. [t EXCEPT !.left = FALSE] \in I
  BY <1>1, BeginsGood
<1>3. \A u \in I, c \in Chars : Step(u, c, next) \in I
  BY <1>1, FeedGood DEF Keeps
<1> HIDE DEF I
<1>4. Fed(t, m, next) \in I
  BY <1>2, <1>3, FedInd
<1> QED
  BY <1>1, <1>4

LEMMA NextFed == FedInv /\ [Next]_vars => FedInv'
<1> SUFFICES ASSUME FedInv, [Next]_vars PROVE FedInv'
  OBVIOUS
<1>1. ASSUME NEW m \in Messages, NEW next \in Menus \union {"serial"}, HandleMessage(m, next)
      PROVE  FedInv'
  <2>1. m \in Seq(Chars) /\ cli' = Fed(cli, m, next) /\ Good(cli)
    BY <1>1, TerminalAssumption DEF HandleMessage, FedInv
  <2>2. Good(Fed(cli, m, next))
    BY <2>1, MessageGood
  <2>3. Good(cli')
    BY <2>1, <2>2
  <2>4. messages' \in 0..MaxMessages
    <3>1. messages < MaxMessages /\ messages' = messages + 1
      BY <1>1 DEF HandleMessage
    <3>2. messages \in 0..MaxMessages /\ MaxMessages \in Nat
      BY TerminalAssumption DEF FedInv
    <3> QED
      BY <3>1, <3>2
  <2> QED
    BY <2>3, <2>4 DEF FedInv
<1>2. ASSUME UNCHANGED vars PROVE FedInv'
  BY <1>2 DEF vars, FedInv
<1> QED
  BY <1>1, <1>2 DEF Next

LEMMA FedImplies == FedInv => TypeOK /\ ReadOnce /\ Redirected
<1> SUFFICES ASSUME FedInv PROVE TypeOK /\ ReadOnce /\ Redirected
  OBVIOUS
<1>1. TypeOK
  BY DEF FedInv, Good, Typed, Open, TypeOK
<1>2. ReadOnce
  BY DEF FedInv, Good, Reading, AllWellFormed, ReadOnce
<1>3. Redirected
  BY DEF FedInv, Good, PassedOn, PassedAll, Redirected
<1> QED
  BY <1>1, <1>2, <1>3

LEMMA AlwaysFed == Spec => []FedInv
<1>1. Init => FedInv
  BY FirstFed
<1>2. FedInv /\ [Next]_vars => FedInv'
  BY NextFed
<1> QED
  BY <1>1, <1>2, PTL DEF Spec

\* base_state, the two states and the history iterator keep their types: the iterator
\* never leaves the history, and no buffer is left behind when a sequence ends.
THEOREM TerminalTyped == Spec => []TypeOK
<1>1. FedInv => TypeOK
  BY FedImplies
<1> QED
  BY <1>1, AlwaysFed, PTL

\* However the stream is cut into messages, what base_state has made of it and what it
\* keeps for the sequence that is open give the stream back, and in one way only.
THEOREM StreamReadOnce == Spec => []ReadOnce
<1>1. FedInv => ReadOnce
  BY FedImplies
<1> QED
  BY <1>1, AlwaysFed, PTL

\* The device gets the characters and CSI sequences typed while it is connected, in
\* order, each once, as they were typed.
THEOREM DeviceGetsInput == Spec => []Redirected
<1>1. FedInv => Redirected
  BY FedImplies
<1> QED
  BY <1>1, AlwaysFed, PTL

\* Whatever is typed, the line behind the prompt is the one that CR would execute, in the
\* menu the prompt names, until a character is typed that the terminal does not show.
THEOREM LineIsShown == Spec => []LineShown
<1> DEFINE J == FedInv /\ Shown(cli)
<1>1. Init => J
  BY FirstFed
<1>2. J /\ [Next]_vars => J'
  <2> SUFFICES ASSUME J, [Next]_vars PROVE Shown(cli)'
    BY NextFed
  <2>1. ASSUME NEW m \in Messages, NEW next \in Menus \union {"serial"}, HandleMessage(m, next)
        PROVE  Shown(cli)'
    <3>1. m \in Seq(Chars) /\ cli' = Fed(cli, m, next) /\ Good(cli) /\ Shown(cli)
      BY <2>1, TerminalAssumption DEF HandleMessage, FedInv
    <3>2. Shown(Fed(cli, m, next))
      BY <3>1, MessageShown
    <3> QED
      BY <3>1, <3>2
  <2>2. ASSUME UNCHANGED vars PROVE Shown(cli)'
    BY <2>2 DEF vars
  <2> QED
    BY <2>1, <2>2 DEF Next
<1>3. J => LineShown
  BY DEF Shown, LineShown
<1> HIDE DEF J
<1> QED
  BY <1>1, <1>2, <1>3, PTL DEF Spec

-----------------------------------------------------------------------------
(* Up and Down.                                                             *)

\* the control state between two sequences
Idle(t) == Good(t) /\ t.kind = "control" /\ t.input = "text" /\ t.left = FALSE

\* the arrow keys can be typed
ArrowKeys == {"ESC", "[", "A", "B"} \subseteq Chars

Moved(t, c) ==
  IF c = "A" THEN IF t.iter > 1 THEN t.iter - 1 ELSE t.iter
  ELSE IF t.iter <= Len(t.commands) THEN t.iter + 1 ELSE t.iter

LineAt(t, i) == IF i > Len(t.commands) THEN <<>> ELSE t.commands[i]

\* an arrow key moves the iterator and puts the line it then points to
Recalled(t, c, u) ==
  /\ Idle(u) /\ u.commands = t.commands /\ u.iter = Moved(t, c)
  /\ u.inbuf = LineAt(t, Moved(t, c))

LEMMA ArrowKey ==
  ASSUME ArrowKeys, NEW t, Idle(t), NEW c \in {"A", "B"}, NEW next \in Menus \union {"serial"}
  PROVE  Recalled(t, c, Step(Step(Step(t, "ESC", next), "[", next), c, next))
<1> DEFINE u == Step(t, "ESC", next)
           v == Step(u, "[", next)
           w == Step(v, c, next)
           n == Took(v, c)
           call == [on |-> "csi", text |-> <<c>>]
           r == [n EXCEPT !.input = "text", !.cmdbuf = <<>>, !.calls = Append(n.calls, call)]
<1>1. Good(u) /\ Good(v) /\ Good(w)
  <2>1. "ESC" \in Chars /\ "[" \in Chars /\ c \in Chars
    BY DEF ArrowKeys
  <2> QED
    BY <2>1, FeedGood DEF Idle, Keeps
<1>2. /\ u.input = "esc" /\ u.left = FALSE /\ u.kind = "control" /\ u.cmdbuf = <<>>
      /\ u.commands = t.commands /\ u.iter = t.iter
  <2>1. t \in States /\ t.cmdbuf = <<>>
    BY DEF Idle, Good, Typed, Open
  <2>2. u = [Took(t, "ESC") EXCEPT !.input = "esc"]
    BY DEF Idle, Step, Feed, FeedText, Took
  <2> HIDE DEF u
  <2> QED
    BY <2>1, <2>2 DEF Idle, Took, States
<1> HIDE DEF u
<1>3. /\ v.input = "csi" /\ v.left = FALSE /\ v.kind = "control" /\ v.cmdbuf = <<>>
      /\ v.commands = t.commands /\ v.iter = t.iter
  <2>1. u \in States
    BY <1>1 DEF Good, Typed
  <2>2. "[" \in DOMAIN Opened /\ Opened["["] = "csi"
    BY DEF Opened
  <2>3. v = [Took(u, "[") EXCEPT !.input = "csi"]
    BY <1>2, <2>2 DEF Step, Feed, FeedEsc, Took
  <2> HIDE DEF v
  <2> QED
    BY <1>2, <2>1, <2>3 DEF Took, States
<1> HIDE DEF v
<1>4. /\ n.input = "csi" /\ n.left = FALSE /\ n.kind = "control" /\ n.cmdbuf = <<>>
      /\ n.commands = t.commands /\ n.iter = t.iter /\ n \in States
  <2>1. v \in States
    BY <1>1 DEF Good, Typed
  <2>2. c \in Chars
    BY DEF ArrowKeys
  <2>3. n \in States
    BY <1>1, <2>2, TookIs DEF Typed
  <2> QED
    BY <1>3, <2>1, <2>3 DEF Took, States
<1>5. c \in Finals /\ Append(<<>>, c) = <<c>> /\ Last(<<c>>) = c
  <2>1. c \in Finals
    BY TerminalAssumption DEF ArrowKeys
  <2> QED
    BY <2>1 DEF Last
<1>6. w = Call(n, "csi", <<c>>, next)
  <2>1. w = FeedCsi(n, c, next)
    BY <1>3 DEF Step, Feed, Took
  <2> HIDE DEF n, w
  <2> QED
    BY <1>4, <1>5, <2>1 DEF FeedCsi
<1> HIDE DEF n
<1>7. /\ r.input = "text" /\ r.left = FALSE /\ r.kind = "control"
      /\ r.commands = t.commands /\ r.iter = t.iter
      /\ "left" \in DOMAIN r /\ "iter" \in DOMAIN r /\ "inbuf" \in DOMAIN r
  BY <1>4 DEF States
<1>8. w = ControlState(r, call, next)
  BY <1>6, <1>7 DEF Call
<1>9. call.on = "csi" /\ Last(call.text) = c
  BY <1>5
<1> HIDE DEF r, call, w
<1>10. w = Recall(r, Moved(t, c))
  <2>1. CASE c = "A"
    BY <1>7, <1>8, <1>9, <2>1 DEF ControlState, Older, Moved
  <2>2. CASE c = "B"
    BY <1>7, <1>8, <1>9, <2>2 DEF ControlState, Newer, Moved
  <2> QED
    BY <2>1, <2>2
<1>11. /\ w.iter = Moved(t, c) /\ w.inbuf = LineAt(t, Moved(t, c))
       /\ w.kind = "control" /\ w.input = "text" /\ w.left = FALSE /\ w.commands = t.commands
  BY <1>7, <1>10 DEF Recall, LineAt
<1> QED
  BY <1>1, <1>11 DEF Recalled, Idle, w, v, u

\* what is fed is what the steps make of it
LEMMA FedKeys ==
  ASSUME NEW t, NEW next
  PROVE  LET S(u, c) == Step(u, c, next)
             b == [t EXCEPT !.left = FALSE] IN
         /\ Fed(t, Up, next) = S(S(S(b, "ESC"), "["), "A")
         /\ Fed(t, Up \o Down, next) =
              S(S(S(S(S(S(b, "ESC"), "["), "A"), "ESC"), "["), "B")
<1> DEFINE C == {"ESC", "[", "A", "B"}
           m == Up \o Down
           b == [t EXCEPT !.left = FALSE]
<1>1. /\ Up \in Seq(C) /\ Len(Up) = 3
      /\ Up[1] = "ESC" /\ Up[2] = "[" /\ Up[3] = "A"
  BY DEF Up
<1>2. /\ Down \in Seq(C) /\ Len(Down) = 3
      /\ Down[1] = "ESC" /\ Down[2] = "[" /\ Down[3] = "B"
  BY DEF Down
<1>3. /\ m \in Seq(C) /\ Len(m) = 6
      /\ m[1] = "ESC" /\ m[2] = "[" /\ m[3] = "A"
      /\ m[4] = "ESC" /\ m[5] = "[" /\ m[6] = "B"
  <2> HIDE DEF C
  <2>1. m \in Seq(C) /\ Len(m) = 6
    BY <1>1, <1>2, ConcatProperties
  <2>2. \A i \in 1..6 : m[i] = IF i <= 3 THEN Up[i] ELSE Down[i - 3]
    <3>1. \A i \in 1..(Len(Up) + Len(Down)) :
            (Up \o Down)[i] = IF i <= Len(Up) THEN Up[i] ELSE Down[i - Len(Up)]
      BY ONLY <1>1, <1>2, ConcatProperties
    <3> QED
      BY <1>1, <1>2, <3>1
  <2> QED
    BY <1>1, <1>2, <2>1, <2>2
<1> HIDE DEF C, m, b
<1>4. Fed(t, Up, next) = Step(Step(Step(b, "ESC", next), "[", next), "A", next)
  <2>1. PICK f : /\ f[0] = b
                 /\ \A k \in 0..(Len(Up) - 1) : f[k + 1] = Step(f[k], Up[k + 1], next)
                 /\ Fed(t, Up, next) = f[Len(Up)]
    <3>1. Up \in Seq(C)
      BY <1>1
    <3>2. PICK f : Steps(f, t, Up, next)
      BY <3>1, FedSteps
    <3> QED
      BY <3>2 DEF b, Steps
  <2>2. f[1] = Step(f[0], Up[1], next) /\ f[2] = Step(f[1], Up[2], next)
        /\ f[3] = Step(f[2], Up[3], next)
    BY <1>1, <2>1
  <2> QED
    BY <1>1, <2>1, <2>2
<1>5. Fed(t, m, next) =
        Step(Step(Step(Step(Step(Step(b, "ESC", next), "[", next), "A", next),
          "ESC", next), "[", next), "B", next)
  <2>1. PICK f : /\ f[0] = b
                 /\ \A k \in 0..(Len(m) - 1) : f[k + 1] = Step(f[k], m[k + 1], next)
                 /\ Fed(t, m, next) = f[Len(m)]
    <3>1. m \in Seq(C)
      BY <1>3
    <3>2. PICK f : Steps(f, t, m, next)
      BY <3>1, FedSteps
    <3> QED
      BY <3>2 DEF b, Steps
  <2>2. /\ f[1] = Step(f[0], m[1], next) /\ f[2] = Step(f[1], m[2], next)
        /\ f[3] = Step(f[2], m[3], next) /\ f[4] = Step(f[3], m[4], next)
        /\ f[5] = Step(f[4], m[5], next) /\ f[6] = Step(f[5], m[6], next)
    BY <1>3, <2>1
  <2> QED
    BY <1>3, <2>1, <2>2
<1> QED
  BY <1>4, <1>5 DEF m, b

\* Up then Down comes back to where the iterator was, wherever it is in the history and
\* whatever the line was; Up alone gives the command before.
THEOREM UpThenDown == ASSUME ArrowKeys PROVE Spec => []UpDown
<1>1. FedInv => UpDown
  <2> SUFFICES ASSUME FedInv, cli.kind = "control" /\ cli.input = "text" /\ cli.iter > 1
               PROVE  LET t == Fed(cli, Up \o Down, Root) IN
                      /\ t.iter = cli.iter
                      /\ t.inbuf = LineAt(cli, cli.iter)
                      /\ Fed(cli, Up, Root).inbuf = cli.commands[cli.iter - 1]
    BY DEF UpDown, LineAt
  <2> DEFINE b == [cli EXCEPT !.left = FALSE]
             u == Fed(cli, Up, Root)
             t == Fed(cli, Up \o Down, Root)
  <2>1. Good(b) /\ cli \in States /\ cli.iter \in 1..(Len(cli.commands) + 1)
    BY BeginsGood DEF FedInv, Good, Typed
  <2>2. /\ Idle(b) /\ b.iter = cli.iter /\ b.commands = cli.commands
    BY <2>1 DEF Idle, States
  <2>3. u = Step(Step(Step(b, "ESC", Root), "[", Root), "A", Root)
        /\ t = Step(Step(Step(u, "ESC", Root), "[", Root), "B", Root)
    BY FedKeys
  <2> HIDE DEF b, u, t
  <2>4. Root \in Menus \union {"serial"}
    BY TerminalAssumption
  <2>5. Recalled(b, "A", u)
    BY <2>2, <2>3, <2>4, ArrowKey
  <2>6. Recalled(u, "B", t)
    BY <2>3, <2>4, <2>5, ArrowKey DEF Recalled
  <2>7. Len(cli.commands) \in Nat
    BY <2>1, LenProperties DEF States
  <2>8. u.iter = cli.iter - 1 /\ u.commands = cli.commands
        /\ u.inbuf = cli.commands[cli.iter - 1]
    BY <2>1, <2>2, <2>5, <2>7 DEF Recalled, Moved, LineAt
  <2>9. t.iter = cli.iter /\ t.inbuf = LineAt(cli, cli.iter)
    BY <2>1, <2>6, <2>7, <2>8 DEF Recalled, Moved, LineAt
  <2> QED
    BY <2>8, <2>9 DEF u, t
<1> QED
  BY <1>1, AlwaysFed, PTL

=============================================================================
