---------------------------- MODULE RouterProofs ----------------------------
(***************************************************************************)
(* The two passes over a request, and the walk of longest_match, for any   *)
(* routes and targets.  What the passes do does not depend on what the     *)
(* trie finds: both ask it the same question, since no route is registered *)
(* once requests arrive.  The walk ends at the route that has the most in  *)
(* common with the target: two nodes over one key are above each other     *)
(* (Chain), and what is over the best key stays so from child to child     *)
(* (StepKeeps).                                                            *)
(***************************************************************************)
EXTENDS Router, SequenceLemmas, FiniteSetTheorems, TLAPS

\* whether the route of the request, which the router does not reject, is digested
Digested == request.get /\ ~Rejected /\ table[Match.label].digest

Accepted == pass = "body" \/ response = "handler" => (Digested => granted)

\* who answers what
Handled == response = "handler" => request.get /\ ~Rejected

Answered == response # "none" <=> pass = "done"

Inv == Accepted /\ Handled /\ Answered

LEMMA InitInv == Init => Inv
  BY DEF Init, Inv, Accepted, Handled, Answered

\* A step that leaves the routes and the request alone asks the trie the same.
LEMMA SameMatch ==
  ASSUME UNCHANGED <<table, request>>
  PROVE  Rejected' = Rejected /\ Match' = Match /\ Digested' = Digested
  BY DEF Rejected, Match, Digested

LEMMA NextInv == Inv /\ [Next]_vars => Inv'
<1> SUFFICES ASSUME Inv, [Next]_vars PROVE Inv'
  OBVIOUS
<1> USE DEF Inv, Accepted, Handled, Answered
<1>1. ASSUME NEW path \in Paths, NEW route \in Routes, Get(path, route) PROVE Inv'
  BY <1>1 DEF Get
<1>2. ASSUME NEW req \in Requests, Arrive(req) PROVE Inv'
  BY <1>2 DEF Arrive
<1>3. ASSUME BeforeBody PROVE Inv'
  <2>1. UNCHANGED <<table, request>>
    BY <1>3 DEF BeforeBody
  <2>2. Rejected' = Rejected /\ Digested' = Digested
    BY <2>1, SameMatch
  <2>3. pass = "header" /\ response = "none"
    BY <1>3 DEF BeforeBody
  <2>4. CASE Answer("router") \/ Answer("digest")
    BY <2>2, <2>3, <2>4 DEF Answer
  <2>5. CASE Proceed /\ ~Digested
    BY <2>2, <2>3, <2>5 DEF Proceed
  <2>6. CASE Proceed /\ granted'
    BY <2>2, <2>3, <2>6 DEF Proceed
  <2>7. CASE pass' = "crashed" /\ UNCHANGED response
    BY <2>2, <2>3, <2>7
  <2> QED
    BY <1>3, <2>4, <2>5, <2>6, <2>7 DEF BeforeBody, Digest, Digested
<1>4. ASSUME Handle PROVE Inv'
  <2>1. UNCHANGED <<table, request>>
    BY <1>4 DEF Handle
  <2>2. Rejected' = Rejected /\ Digested' = Digested
    BY <2>1, SameMatch
  <2> QED
    BY <1>4, <2>1, <2>2 DEF Handle, Answer
<1>5. CASE UNCHANGED vars
  <2>1. Rejected' = Rejected /\ Digested' = Digested
    BY <1>5, SameMatch DEF vars
  <2> QED
    BY <1>5, <2>1 DEF vars
<1> QED
  BY <1>1, <1>2, <1>3, <1>4, <1>5 DEF Next

LEMMA SpecInv == Spec => []Inv
  BY InitInv, NextInv, PTL DEF Spec

\* A handler behind the digest middleware answers only what the middleware has
\* accepted in the first pass, whatever the routes are and whatever the trie finds.
THEOREM HandlersGuarded == Spec => []Guarded
<1>1. Inv => Guarded
  BY DEF Inv, Accepted, Handled, Guarded, Digested
<1> QED
  BY <1>1, SpecInv, PTL

-----------------------------------------------------------------------------
LEMMA InitTypes == Init => TypeOK
<1>1. DOMAIN <<>> = {}
  OBVIOUS
<1> QED
  BY <1>1 DEF Init, TypeOK

\* Every step answers once, and only what was asked.
LEMMA NextTypes == TypeOK /\ [Next]_vars => TypeOK'
<1> SUFFICES ASSUME TypeOK, [Next]_vars PROVE TypeOK'
  OBVIOUS
<1> USE DEF TypeOK
<1>1. ASSUME NEW path \in Paths, NEW route \in Routes, Get(path, route) PROVE TypeOK'
  BY <1>1 DEF Get
<1>2. ASSUME NEW req \in Requests, Arrive(req) PROVE TypeOK'
  BY <1>2 DEF Arrive
<1>3. CASE BeforeBody
  BY <1>3 DEF BeforeBody, Digest, Answer, Proceed
<1>4. CASE Handle
  BY <1>4 DEF Handle, Answer
<1>5. CASE UNCHANGED vars
  BY <1>5 DEF vars
<1> QED
  BY <1>1, <1>2, <1>3, <1>4, <1>5 DEF Next

\* The routes, the request and the pass it is in keep their types, for any paths,
\* routes and targets, and a request is done exactly when it has an answer.
THEOREM RouterTypes == Spec => []TypeOK
  BY InitTypes, NextTypes, PTL DEF Spec

-----------------------------------------------------------------------------
(* Texts that begin alike.                                                  *)

\* s and t have the first i characters, and the same ones
Agree(s, t, i) == i <= Len(s) /\ i <= Len(t) /\ \A j \in 1..i : s[j] = t[j]

LEMMA CutIs ==
  ASSUME NEW s \in Seq(Nat), NEW i \in Nat, i <= Len(s)
  PROVE  /\ SubSeq(s, 1, i) \in Seq(Nat)
         /\ Len(SubSeq(s, 1, i)) = i
         /\ \A j \in 1..i : SubSeq(s, 1, i)[j] = s[j]
  OBVIOUS

LEMMA CutsEqual ==
  ASSUME NEW s \in Seq(Nat), NEW t \in Seq(Nat), NEW i \in Nat, i <= Len(s), i <= Len(t)
  PROVE  SubSeq(s, 1, i) = SubSeq(t, 1, i) <=> Agree(s, t, i)
<1> DEFINE a == SubSeq(s, 1, i)
           b == SubSeq(t, 1, i)
<1>1. /\ a \in Seq(Nat) /\ Len(a) = i /\ \A j \in 1..i : a[j] = s[j]
      /\ b \in Seq(Nat) /\ Len(b) = i /\ \A j \in 1..i : b[j] = t[j]
  BY CutIs
<1> HIDE DEF a, b
<1>2. a = b => Agree(s, t, i)
  BY <1>1 DEF Agree
<1>3. ASSUME Agree(s, t, i) PROVE a = b
  <2>1. \A j \in 1..Len(a) : a[j] = b[j]
    BY <1>1, <1>3 DEF Agree
  <2> QED
    BY <1>1, <2>1, SeqEqual
<1> QED
  BY <1>2, <1>3 DEF a, b

\* a set of numbers from 1 on without gaps
LEMMA InitialSegment ==
  ASSUME NEW D, NEW n \in Nat, D \subseteq 1..n,
         \A i \in D : \A j \in 1..i : j \in D
  PROVE  \E m \in 0..n : D = 1..m
<1> DEFINE S == {i \in 1..(n + 1) : i \notin D}
<1>1. n + 1 \in S
  OBVIOUS
<1>2. PICK k \in S : \A i \in S : k <= i
  <2>1. S \subseteq Nat /\ S # {}
    BY <1>1
  <2> HIDE DEF S
  <2> QED
    BY <2>1, LeastElement
<1>3. k - 1 \in 0..n
  BY <1>2
<1>4. D = 1..(k - 1)
  <2>1. ASSUME NEW i \in D PROVE i \in 1..(k - 1)
    <3>1. i \in 1..n /\ ~(k \in 1..i)
      BY <1>2
    <3> QED
      BY <1>2, <3>1
  <2>2. ASSUME NEW i \in 1..(k - 1) PROVE i \in D
    BY <1>2, <1>3
  <2> QED
    BY <2>1, <2>2
<1> QED
  BY <1>3, <1>4

\* Common counts the characters up to the first difference.
LEMMA CommonIs ==
  ASSUME NEW s \in Seq(Nat), NEW t \in Seq(Nat)
  PROVE  /\ Common(s, t) \in Nat
         /\ Agree(s, t, Common(s, t))
         /\ \A i \in Nat : i <= Common(s, t) <=> Agree(s, t, i)
<1> DEFINE D == {i \in 1..Len(s) : i <= Len(t) /\ SubSeq(s, 1, i) = SubSeq(t, 1, i)}
<1>1. Len(s) \in Nat /\ Len(t) \in Nat
  BY LenProperties
<1>2. \A i \in Nat \ {0} : i \in D <=> Agree(s, t, i)
  <2> TAKE i \in Nat \ {0}
  <2>1. CASE i <= Len(s) /\ i <= Len(t)
    <3>1. i \in Nat
      OBVIOUS
    <3>2. SubSeq(s, 1, i) = SubSeq(t, 1, i) <=> Agree(s, t, i)
      BY <2>1, <3>1, CutsEqual
    <3>3. i \in D <=> SubSeq(s, 1, i) = SubSeq(t, 1, i)
      BY <1>1, <2>1
    <3> QED
      BY <3>2, <3>3
  <2>2. CASE ~(i <= Len(s) /\ i <= Len(t))
    BY <1>1, <2>2 DEF Agree
  <2> QED
    BY <2>1, <2>2
<1>3. D \subseteq 1..Len(s)
  OBVIOUS
<1>4. Common(s, t) = Cardinality(D)
  BY DEF Common
<1> HIDE DEF D
<1>5. \A i \in D : \A j \in 1..i : j \in D
  <2> TAKE i \in D
  <2> TAKE j \in 1..i
  <2>1. i \in Nat \ {0} /\ j \in Nat \ {0} /\ j <= i
    BY <1>1, <1>3
  <2>2. Agree(s, t, i)
    BY <1>2, <2>1
  <2>3. Agree(s, t, j)
    BY <1>1, <2>1, <2>2 DEF Agree
  <2> QED
    BY <1>2, <2>1, <2>3
<1>6. PICK m \in 0..Len(s) : D = 1..m
  BY <1>1, <1>3, <1>5, InitialSegment
<1>7. Common(s, t) = m
  <2>1. Cardinality(1..m) = m
    BY <1>1, FS_Interval
  <2> QED
    BY <1>4, <1>6, <2>1
<1>8. \A i \in Nat \ {0} : i <= m <=> Agree(s, t, i)
  BY <1>1, <1>2, <1>6
<1>9. Agree(s, t, 0)
  BY <1>1 DEF Agree
<1> QED
  BY <1>1, <1>7, <1>8, <1>9

LEMMA PrefixIs ==
  ASSUME NEW s \in Seq(Nat), NEW t \in Seq(Nat)
  PROVE  IsPrefix(s, t) <=> Agree(s, t, Len(s))
<1>1. Len(s) \in Nat /\ Len(t) \in Nat
  BY LenProperties
<1>2. CASE Len(s) <= Len(t)
  <2>1. SubSeq(s, 1, Len(s)) = SubSeq(t, 1, Len(s)) <=> Agree(s, t, Len(s))
    BY <1>1, <1>2, CutsEqual
  <2> QED
    BY <1>2, <2>1 DEF IsPrefix
<1>3. CASE ~(Len(s) <= Len(t))
  BY <1>3 DEF IsPrefix, Agree
<1> QED
  BY <1>2, <1>3

LEMMA PrefixOrder ==
  ASSUME NEW s \in Seq(Nat), NEW t \in Seq(Nat)
  PROVE  /\ IsPrefix(s, s)
         /\ IsPrefix(s, t) => Len(s) <= Len(t)
         /\ IsPrefix(s, t) /\ Len(t) <= Len(s) => s = t
<1>1. Len(s) \in Nat /\ Len(t) \in Nat
  BY LenProperties
<1>2. ASSUME IsPrefix(s, t), Len(t) <= Len(s) PROVE s = t
  <2>1. Agree(s, t, Len(s))
    BY <1>2, PrefixIs
  <2>2. Len(s) = Len(t) /\ \A j \in 1..Len(s) : s[j] = t[j]
    BY <1>1, <1>2, <2>1 DEF Agree
  <2> QED
    BY <2>2, SeqEqual
<1>3. Agree(s, s, Len(s))
  BY <1>1 DEF Agree
<1>4. IsPrefix(s, t) => Len(s) <= Len(t)
  BY PrefixIs DEF Agree
<1> QED
  BY <1>2, <1>3, <1>4, PrefixIs

LEMMA PrefixTrans ==
  ASSUME NEW a \in Seq(Nat), NEW b \in Seq(Nat), NEW c \in Seq(Nat),
         IsPrefix(a, b), IsPrefix(b, c)
  PROVE  IsPrefix(a, c)
<1>1. Len(a) \in Nat /\ Len(b) \in Nat /\ Len(c) \in Nat
  BY LenProperties
<1>2. Agree(a, b, Len(a)) /\ Agree(b, c, Len(b))
  BY PrefixIs
<1>3. Agree(a, c, Len(a))
  BY <1>1, <1>2 DEF Agree
<1> QED
  BY <1>3, PrefixIs

\* two prefixes of one text
LEMMA PrefixesMeet ==
  ASSUME NEW a \in Seq(Nat), NEW b \in Seq(Nat), NEW c \in Seq(Nat),
         IsPrefix(a, c), IsPrefix(b, c), Len(a) <= Len(b)
  PROVE  IsPrefix(a, b)
<1>1. Len(a) \in Nat /\ Len(b) \in Nat /\ Len(c) \in Nat
  BY LenProperties
<1>2. Agree(a, c, Len(a)) /\ Agree(b, c, Len(b))
  BY PrefixIs
<1>3. Agree(a, b, Len(a))
  BY <1>1, <1>2 DEF Agree
<1> QED
  BY <1>3, PrefixIs

-----------------------------------------------------------------------------
(* The nodes of the trie, for the keys of some table.                       *)

\* texts that begin with a slash, as all paths and targets do
Words == {s \in Seq(Nat) : s # <<>> /\ s[1] = Slash}

\* the inner node where two keys part
Fork(k, l) == [label |-> SubSeq(k, 1, Common(k, l)), leaf |-> FALSE]

LEMMA ForkIs ==
  ASSUME NEW k \in Words, NEW l \in Words
  PROVE  LET w == SubSeq(k, 1, Common(k, l))
         IN  /\ w \in Words /\ Len(w) = Common(k, l)
             /\ IsPrefix(w, k) /\ IsPrefix(w, l)
<1> DEFINE n == Common(k, l)
           w == SubSeq(k, 1, n)
<1>1. /\ k \in Seq(Nat) /\ l \in Seq(Nat) /\ Len(k) \in Nat \ {0} /\ Len(l) \in Nat \ {0}
      /\ k[1] = Slash /\ l[1] = Slash
  BY LenProperties, EmptySeq DEF Words
<1>2. n \in Nat /\ Agree(k, l, n) /\ (1 <= n <=> Agree(k, l, 1))
  BY <1>1, CommonIs
<1>3. Agree(k, l, 1)
  BY <1>1 DEF Agree
<1>4. n <= Len(k) /\ n <= Len(l) /\ \A j \in 1..n : k[j] = l[j]
  BY <1>2 DEF Agree
<1>5. w \in Seq(Nat) /\ Len(w) = n /\ \A j \in 1..n : w[j] = k[j]
  <2> HIDE DEF n
  <2> QED
    BY <1>1, <1>2, <1>4, CutIs
<1> HIDE DEF w, n
<1>6. w # <<>> /\ w[1] = Slash
  BY <1>1, <1>2, <1>3, <1>5, EmptySeq
<1>7. Agree(w, k, Len(w)) /\ Agree(w, l, Len(w))
  <2>1. \A j \in 1..n : w[j] = k[j] /\ w[j] = l[j]
    BY <1>4, <1>5
  <2>2. n <= Len(w) /\ n <= Len(k) /\ n <= Len(l) /\ Len(w) = n
    BY <1>2, <1>4, <1>5
  <2> QED
    BY <2>1, <2>2 DEF Agree
<1>8. IsPrefix(w, k) /\ IsPrefix(w, l)
  BY <1>1, <1>5, <1>7, PrefixIs
<1> QED
  BY <1>5, <1>6, <1>8 DEF Words, w, n

\* A node is the leaf of a key or where two keys part.
LEMMA NodeIs ==
  ASSUME NEW keys \in SUBSET Words, NEW n \in Nodes(keys)
  PROVE  /\ n = [label |-> n.label, leaf |-> n.leaf]
         /\ n.label \in Words /\ n.leaf \in BOOLEAN
         /\ n.leaf => n.label \in keys /\ n = Leaf(n.label)
         /\ ~n.leaf => \E k, l \in keys : k # l /\ n = Fork(k, l)
<1>1. CASE \E k \in keys : n = Leaf(k)
  BY <1>1 DEF Leaf
<1>2. CASE \E k \in keys : \E l \in keys \ {k} : n = Fork(k, l)
  <2>1. PICK k \in keys, l \in keys : k # l /\ n = Fork(k, l)
    BY <1>2
  <2>2. n.label \in Words /\ n.leaf = FALSE /\ n = [label |-> n.label, leaf |-> n.leaf]
    BY <2>1, ForkIs DEF Fork
  <2> QED
    BY <2>1, <2>2
<1> QED
  BY <1>1, <1>2 DEF Nodes, Fork

LEMMA ForkInside ==
  ASSUME NEW keys, NEW k \in keys, NEW l \in keys, k # l
  PROVE  Fork(k, l) \in Nodes(keys)
<1> DEFINE forks(x) == {[label |-> SubSeq(x, 1, Common(x, y)), leaf |-> FALSE] : y \in keys \ {x}}
<1>1. Fork(k, l) \in forks(k)
  BY DEF Fork
<1>2. forks(k) \in {forks(x) : x \in keys}
  OBVIOUS
<1> HIDE DEF forks
<1>3. Fork(k, l) \in UNION {forks(x) : x \in keys}
  BY <1>1, <1>2
<1> QED
  BY <1>3 DEF Nodes, forks

LEMMA LeafInside ==
  ASSUME NEW keys, NEW k \in keys
  PROVE  Leaf(k) \in Nodes(keys)
  BY DEF Nodes

\* the keys at or below a node
Over(k, n) == IF n.leaf THEN n.label = k ELSE IsPrefix(n.label, k)

\* Nodes further down are larger.
Size(n) == 2 * Len(n.label) + (IF n.leaf THEN 1 ELSE 0)

LEMMA SizeIs ==
  ASSUME NEW n, Len(n.label) \in Nat
  PROVE  /\ Size(n) \in Nat
         /\ n.leaf => Size(n) = 2 * Len(n.label) + 1
         /\ ~n.leaf => Size(n) = 2 * Len(n.label)
<1>1. CASE n.leaf
  <2>1. Size(n) = 2 * Len(n.label) + 1
    BY <1>1 DEF Size
  <2> QED
    BY <1>1, <2>1
<1>2. CASE ~n.leaf
  <2>1. Size(n) = 2 * Len(n.label)
    BY <1>2 DEF Size
  <2> QED
    BY <1>2, <2>1
<1> QED
  BY <1>1, <1>2

LEMMA NodeFacts ==
  ASSUME NEW keys \in SUBSET Words, NEW n \in Nodes(keys)
  PROVE  /\ n.label \in Words /\ n.label \in Seq(Nat) /\ n.leaf \in BOOLEAN
         /\ Len(n.label) \in Nat \ {0}
         /\ Size(n) \in Nat
         /\ n.leaf => n.label \in keys
         /\ \E k \in keys : Over(k, n)
         /\ \A k \in keys : Over(k, n) => IsPrefix(n.label, k)
<1>1. /\ n.label \in Words /\ n.label \in Seq(Nat) /\ n.leaf \in BOOLEAN
      /\ n.leaf => n.label \in keys
  BY NodeIs DEF Words
<1>2. Len(n.label) \in Nat \ {0}
  BY <1>1, LenProperties, EmptySeq DEF Words
<1>3. Size(n) \in Nat
  BY <1>1, <1>2, SizeIs
<1>4. \E k \in keys : Over(k, n)
  <2>1. CASE n.leaf
    BY <1>1, <2>1 DEF Over
  <2>2. CASE ~n.leaf
    <3>1. PICK k \in keys, l \in keys : n = Fork(k, l)
      BY <2>2, NodeIs
    <3>2. IsPrefix(n.label, k)
      BY <3>1, ForkIs DEF Fork
    <3> QED
      BY <2>2, <3>2 DEF Over
  <2> QED
    BY <1>1, <2>1, <2>2
<1>5. \A k \in keys : Over(k, n) => IsPrefix(n.label, k)
  <2> TAKE k \in keys
  <2>1. IsPrefix(n.label, n.label)
    BY <1>1, PrefixOrder
  <2> QED
    BY <2>1 DEF Over
<1> QED
  BY <1>1, <1>2, <1>3, <1>4, <1>5

\* Two nodes over one key are above each other.
LEMMA Chain ==
  ASSUME NEW keys \in SUBSET Words, NEW n \in Nodes(keys), NEW m \in Nodes(keys),
         NEW k \in keys, Over(k, n), Over(k, m), Size(m) <= Size(n)
  PROVE  n = m \/ Below(n, m)
<1>1. /\ n.label \in Seq(Nat) /\ m.label \in Seq(Nat) /\ k \in Seq(Nat)
      /\ Len(n.label) \in Nat /\ Len(m.label) \in Nat
      /\ n.leaf \in BOOLEAN /\ m.leaf \in BOOLEAN
      /\ IsPrefix(n.label, k) /\ IsPrefix(m.label, k)
  BY NodeFacts DEF Words
<1>2. /\ n = [label |-> n.label, leaf |-> n.leaf]
      /\ m = [label |-> m.label, leaf |-> m.leaf]
  BY NodeIs
<1>3. CASE m.leaf
  <2>1. m.label = k
    BY <1>3 DEF Over
  <2>2. Len(n.label) <= Len(m.label)
    BY <1>1, <2>1, PrefixOrder
  <2>3. n.leaf
    BY <1>1, <1>3, <2>2, SizeIs
  <2>4. n.label = k
    BY <2>3 DEF Over
  <2> QED
    BY <1>2, <1>3, <2>1, <2>3, <2>4
<1>4. CASE ~m.leaf
  <2>1. Len(m.label) <= Len(n.label)
    <3>1. Size(m) = 2 * Len(m.label)
      BY <1>1, <1>4, SizeIs
    <3>2. Size(n) = 2 * Len(n.label) \/ Size(n) = 2 * Len(n.label) + 1
      BY <1>1, SizeIs
    <3> QED
      BY <1>1, <3>1, <3>2
  <2>2. IsPrefix(m.label, n.label)
    BY <1>1, <2>1, PrefixesMeet
  <2> QED
    BY <1>1, <1>2, <1>4, <2>2 DEF Below
<1> QED
  BY <1>3, <1>4

\* What is above a node is smaller and over more keys.
LEMMA BelowIs ==
  ASSUME NEW keys \in SUBSET Words, NEW n \in Nodes(keys), NEW m \in Nodes(keys),
         Below(n, m)
  PROVE  /\ Size(m) < Size(n)
         /\ \A k \in keys : Over(k, n) => Over(k, m)
<1>1. /\ n.label \in Seq(Nat) /\ m.label \in Seq(Nat)
      /\ Len(n.label) \in Nat /\ Len(m.label) \in Nat
      /\ n.leaf \in BOOLEAN
  BY NodeFacts
<1>2. ~m.leaf /\ IsPrefix(m.label, n.label) /\ (n.leaf \/ n.label # m.label)
  BY DEF Below
<1>3. Len(m.label) <= Len(n.label)
  BY <1>1, <1>2, PrefixOrder
<1>4. ~n.leaf => Len(m.label) < Len(n.label)
  BY <1>1, <1>2, PrefixOrder
<1>5. Size(m) < Size(n)
  BY <1>1, <1>2, <1>3, <1>4, SizeIs
<1>6. ASSUME NEW k \in keys, Over(k, n) PROVE Over(k, m)
  <2>1. IsPrefix(n.label, k) /\ k \in Seq(Nat)
    BY <1>6, NodeFacts DEF Words
  <2>2. IsPrefix(m.label, k)
    BY <1>1, <1>2, <2>1, PrefixTrans
  <2> QED
    BY <1>2, <2>2 DEF Over
<1> QED
  BY <1>5, <1>6

\* the leaf of a key that a node is over
LEMMA LeafBelow ==
  ASSUME NEW keys \in SUBSET Words, NEW n \in Nodes(keys), NEW k \in keys,
         Over(k, n), ~n.leaf
  PROVE  Below(Leaf(k), n)
  BY DEF Below, Over, Leaf

\* A node with none above it is over all keys: where another key parted from one below
\* it, there would be a node above it.
LEMMA TopOverAll ==
  ASSUME NEW keys \in SUBSET Words, NEW r \in Nodes(keys),
         \A m \in Nodes(keys) : ~Below(r, m),
         NEW k \in keys
  PROVE  Over(k, r)
<1>1. PICK l \in keys : Over(l, r)
  BY NodeFacts
<1>2. CASE l = k
  BY <1>1, <1>2
<1>3. CASE l # k
  <2> DEFINE f == Fork(l, k)
  <2>1. f \in Nodes(keys) /\ Over(l, f) /\ Over(k, f)
    BY <1>3, ForkInside, ForkIs DEF Fork, Over
  <2>2. Size(f) \in Nat /\ Size(r) \in Nat
    BY <2>1, NodeFacts
  <2> HIDE DEF f
  <2>3. CASE Size(f) <= Size(r)
    BY <1>1, <2>1, <2>3, Chain
  <2>4. CASE Size(r) <= Size(f)
    <3>1. f = r \/ Below(f, r)
      BY <1>1, <2>1, <2>4, Chain
    <3> QED
      BY <2>1, <3>1, BelowIs
  <2> QED
    BY <2>2, <2>3, <2>4
<1> QED
  BY <1>2, <1>3

LEMMA SmallestNode ==
  ASSUME NEW keys \in SUBSET Words, NEW S, S \subseteq Nodes(keys), S # {}
  PROVE  \E n \in S : \A m \in S : Size(n) <= Size(m)
<1> DEFINE T == {Size(n) : n \in S}
<1>1. T \subseteq Nat /\ T # {}
  BY NodeFacts
<1> HIDE DEF T
<1>2. PICK i \in T : \A j \in T : i <= j
  BY <1>1, LeastElement
<1>3. PICK n \in S : i = Size(n)
  BY <1>2 DEF T
<1>4. \A m \in S : Size(m) \in T
  BY DEF T
<1> QED
  BY <1>2, <1>3, <1>4

\* The root exists and is over all keys.
LEMMA RootIs ==
  ASSUME NEW keys \in SUBSET Words, keys # {}
  PROVE  /\ Root(Nodes(keys)) \in Nodes(keys)
         /\ \A k \in keys : Over(k, Root(Nodes(keys)))
<1>1. Nodes(keys) # {}
  BY LeafInside
<1>2. PICK n \in Nodes(keys) : \A m \in Nodes(keys) : Size(n) <= Size(m)
  <2> DEFINE S == Nodes(keys)
  <2>1. S \subseteq Nodes(keys) /\ S # {}
    BY <1>1
  <2> HIDE DEF S
  <2>2. \E n \in S : \A m \in S : Size(n) <= Size(m)
    BY <2>1, SmallestNode
  <2> QED
    BY <2>2 DEF S
<1>3. ~\E m \in Nodes(keys) : Below(n, m)
  <2> SUFFICES ASSUME NEW m \in Nodes(keys), Below(n, m) PROVE FALSE
    OBVIOUS
  <2>1. Size(m) < Size(n) /\ Size(n) <= Size(m) /\ Size(m) \in Nat /\ Size(n) \in Nat
    BY <1>2, BelowIs, NodeFacts
  <2> QED
    BY <2>1
<1> DEFINE r == Root(Nodes(keys))
<1>4. r \in Nodes(keys) /\ \A m \in Nodes(keys) : ~Below(r, m)
  BY <1>3 DEF Root
<1> HIDE DEF r
<1>5. \A k \in keys : Over(k, r)
  BY <1>4, TopOverAll
<1> QED
  BY <1>4, <1>5 DEF r

-----------------------------------------------------------------------------
(* The children of a node.                                                  *)

LEMMA ChildIs ==
  ASSUME NEW keys, NEW n \in Nodes(keys), NEW c \in Children(Nodes(keys), n)
  PROVE  /\ c \in Nodes(keys) /\ Below(c, n)
         /\ \A d \in Nodes(keys) : Below(d, n) => ~Below(c, d)
  BY DEF Children

\* An inner node's keys are its children's.
LEMMA ChildOver ==
  ASSUME NEW keys \in SUBSET Words, NEW n \in Nodes(keys), ~n.leaf,
         NEW k \in keys, Over(k, n)
  PROVE  \E c \in Children(Nodes(keys), n) : Over(k, c)
<1> DEFINE S == {m \in Nodes(keys) : Below(m, n) /\ Over(k, m)}
<1>1. S \subseteq Nodes(keys)
  OBVIOUS
<1>2. Leaf(k) \in S
  BY LeafInside, LeafBelow DEF Leaf, Over
<1>3. PICK c \in S : \A m \in S : Size(c) <= Size(m)
  <2> HIDE DEF S
  <2> QED
    BY <1>1, <1>2, SmallestNode
<1>4. ASSUME NEW d \in Nodes(keys), Below(d, n), Below(c, d) PROVE FALSE
  <2>1. Over(k, d) /\ Size(d) < Size(c)
    BY <1>3, <1>4, BelowIs
  <2>2. Size(c) <= Size(d)
    BY <1>3, <1>4, <2>1
  <2>3. Size(c) \in Nat /\ Size(d) \in Nat
    BY <1>3, NodeFacts
  <2> QED
    BY <2>1, <2>2, <2>3
<1>5. c \in Children(Nodes(keys), n)
  BY <1>3, <1>4 DEF Children
<1> QED
  BY <1>3, <1>5

\* No key is below two children.
LEMMA ChildrenApart ==
  ASSUME NEW keys \in SUBSET Words, NEW n \in Nodes(keys),
         NEW c \in Children(Nodes(keys), n), NEW d \in Children(Nodes(keys), n),
         NEW k \in keys, Over(k, c), Over(k, d)
  PROVE  c = d
<1>1. /\ c \in Nodes(keys) /\ Below(c, n) /\ ~Below(c, d)
      /\ d \in Nodes(keys) /\ Below(d, n) /\ ~Below(d, c)
  BY ChildIs
<1>2. Size(c) \in Nat /\ Size(d) \in Nat
  BY <1>1, NodeFacts
<1>3. Size(c) <= Size(d) => c = d
  BY <1>1, Chain
<1>4. Size(d) <= Size(c) => c = d
  BY <1>1, Chain
<1> QED
  BY <1>2, <1>3, <1>4

\* what Before compares
Rank(c, n) == IF Len(c.label) < Len(n.label) + 1 THEN 0 ELSE c.label[Len(n.label) + 1] + 1

LEMMA RankOf ==
  ASSUME NEW keys \in SUBSET Words, NEW n \in Nodes(keys), NEW c \in Nodes(keys)
  PROVE  LET at == Len(n.label) + 1
         IN  /\ at \in Nat \ {0} /\ Len(c.label) \in Nat /\ Rank(c, n) \in Nat
             /\ Len(c.label) < at => Rank(c, n) = 0
             /\ at <= Len(c.label) => /\ c.label[at] \in Nat
                                     /\ Rank(c, n) = c.label[at] + 1
<1> DEFINE at == Len(n.label) + 1
<1>1. at \in Nat \ {0} /\ Len(c.label) \in Nat /\ c.label \in Seq(Nat)
  BY NodeFacts
<1>2. Rank(c, n) = IF Len(c.label) < at THEN 0 ELSE c.label[at] + 1
  BY DEF Rank
<1> HIDE DEF at
<1>3. CASE Len(c.label) < at
  <2>1. Rank(c, n) = 0
    BY <1>2, <1>3
  <2> QED
    BY <1>1, <1>3, <2>1 DEF at
<1>4. CASE at <= Len(c.label)
  <2>1. at \in 1..Len(c.label)
    BY <1>1, <1>4
  <2>2. c.label[at] \in Nat
    BY <1>1, <2>1, ElementOfSeq
  <2>3. Rank(c, n) = c.label[at] + 1
    BY <1>1, <1>2, <1>4
  <2>4. Rank(c, n) \in Nat
    BY <2>2, <2>3
  <2> QED
    BY <1>1, <1>4, <2>2, <2>3, <2>4 DEF at
<1> QED
  BY <1>1, <1>3, <1>4

LEMMA RankIs ==
  ASSUME NEW keys \in SUBSET Words, NEW n \in Nodes(keys),
         NEW c \in Nodes(keys), NEW d \in Nodes(keys), Rank(c, n) < Rank(d, n)
  PROVE  Before(c, d, n)
<1> DEFINE at == Len(n.label) + 1
<1>1. /\ at \in Nat \ {0} /\ Len(c.label) \in Nat /\ Rank(c, n) \in Nat
      /\ Len(c.label) < at => Rank(c, n) = 0
      /\ at <= Len(c.label) => c.label[at] \in Nat /\ Rank(c, n) = c.label[at] + 1
  BY RankOf
<1>2. /\ Len(d.label) \in Nat /\ Rank(d, n) \in Nat
      /\ Len(d.label) < at => Rank(d, n) = 0
      /\ at <= Len(d.label) => d.label[at] \in Nat /\ Rank(d, n) = d.label[at] + 1
  BY RankOf
<1>3. Before(c, d, n) <=>
        Len(c.label) < at \/ (Len(d.label) >= at /\ c.label[at] < d.label[at])
  BY DEF Before
<1> HIDE DEF at
<1>4. CASE Len(c.label) < at
  BY <1>3, <1>4
<1>5. CASE at <= Len(c.label)
  <2>1. at <= Len(d.label)
    BY <1>1, <1>2
  <2>2. c.label[at] < d.label[at]
    BY <1>1, <1>2, <1>5, <2>1
  <2> QED
    BY <1>3, <2>1, <2>2
<1> QED
  BY <1>1, <1>4, <1>5

\* Children part right behind the label of their parent.
LEMMA RanksDiffer ==
  ASSUME NEW keys \in SUBSET Words, NEW n \in Nodes(keys), 
         NEW c \in Children(Nodes(keys), n), NEW d \in Children(Nodes(keys), n),
         Rank(c, n) = Rank(d, n)
  PROVE  c = d
<1>1. /\ c \in Nodes(keys) /\ Below(c, n) 
      /\ d \in Nodes(keys) /\ Below(d, n)
      /\ \A m \in Nodes(keys) : Below(m, n) => ~Below(c, m) /\ ~Below(d, m)
  BY ChildIs
<1>2. /\ Len(n.label) \in Nat /\ Len(c.label) \in Nat /\ Len(d.label) \in Nat
      /\ n.label \in Seq(Nat) /\ c.label \in Seq(Nat) /\ d.label \in Seq(Nat)
      /\ c.leaf \in BOOLEAN /\ d.leaf \in BOOLEAN /\ n.leaf = FALSE
      /\ IsPrefix(n.label, c.label) /\ IsPrefix(n.label, d.label)
  BY <1>1, NodeFacts DEF Below
<1> DEFINE at == Len(n.label) + 1
<1>3. at \in Nat \ {0}
  BY <1>2
<1>4. /\ Rank(c, n) \in Nat
      /\ Len(c.label) < at => Rank(c, n) = 0
      /\ at <= Len(c.label) => c.label[at] \in Nat /\ Rank(c, n) = c.label[at] + 1
  BY <1>1, RankOf
<1>5. /\ Rank(d, n) \in Nat
      /\ Len(d.label) < at => Rank(d, n) = 0
      /\ at <= Len(d.label) => d.label[at] \in Nat /\ Rank(d, n) = d.label[at] + 1
  BY <1>1, RankOf
<1>6. CASE Len(c.label) < at
  <2>1. Len(d.label) < at
    <3> HIDE DEF at
    <3> QED
      BY <1>2, <1>3, <1>4, <1>5, <1>6
  <2>2. Len(c.label) <= Len(n.label) /\ Len(d.label) <= Len(n.label)
    BY <1>2, <1>6, <2>1
  <2>3. c.label = n.label /\ d.label = n.label
    BY <1>2, <2>2, PrefixOrder
  <2>4. c.leaf /\ d.leaf
    BY <1>1, <2>3 DEF Below
  <2>5. n.label \in keys
    BY <1>1, <2>3, <2>4, NodeFacts
  <2>6. Over(n.label, c) /\ Over(n.label, d)
    BY <2>3, <2>4 DEF Over
  <2> QED
    BY <2>5, <2>6, ChildrenApart
<1>7. CASE at <= Len(c.label)
  <2>1. /\ at <= Len(c.label) /\ at <= Len(d.label)
        /\ c.label[at] = d.label[at]
    <3> HIDE DEF at
    <3>1. at <= Len(d.label)
      BY <1>2, <1>3, <1>4, <1>5, <1>7
    <3> QED
      BY <1>4, <1>5, <1>7, <3>1
  <2>2. PICK k \in keys : Over(k, c)
    BY <1>1, NodeFacts
  <2>3. PICK l \in keys : Over(l, d)
    BY <1>1, NodeFacts
  <2>4. SUFFICES ASSUME k # l PROVE c = d
    BY <2>2, <2>3, ChildrenApart
  <2> DEFINE f == Fork(k, l)
  <2>5. f \in Nodes(keys) /\ Over(k, f) /\ Over(l, f) /\ Len(f.label) = Common(k, l)
    BY <2>4, ForkInside, ForkIs DEF Fork, Over
  <2>6. /\ k \in Seq(Nat) /\ l \in Seq(Nat) /\ Len(k) \in Nat /\ Len(l) \in Nat
        /\ IsPrefix(c.label, k) /\ IsPrefix(d.label, l)
    BY <1>1, <2>2, <2>3, NodeFacts, LenProperties DEF Words
  <2>7. at <= Common(k, l)
    <3>1. Agree(n.label, c.label, Len(n.label)) /\ Agree(n.label, d.label, Len(n.label))
      BY <1>2, PrefixIs
    <3>2. Agree(c.label, k, Len(c.label)) /\ Agree(d.label, l, Len(d.label))
      BY <1>2, <2>6, PrefixIs
    <3>3. \A j \in 1..at : k[j] = l[j]
      <4> TAKE j \in 1..at
      <4>1. c.label[j] = k[j] /\ d.label[j] = l[j]
        <5>1. j \in 1..Len(c.label) /\ j \in 1..Len(d.label)
          <6> HIDE DEF at
          <6> QED
            BY <1>2, <1>3, <2>1
        <5> QED
          BY <3>2, <5>1 DEF Agree
      <4>2. CASE j = at
        BY <2>1, <4>1, <4>2
      <4>3. CASE j # at
        <5>1. j \in 1..Len(n.label)
          BY <1>2, <4>3
        <5> QED
          BY <3>1, <4>1, <5>1 DEF Agree
      <4> QED
        BY <4>2, <4>3
    <3>4. at <= Len(k) /\ at <= Len(l)
      <4>1. Len(c.label) <= Len(k) /\ Len(d.label) <= Len(l)
        BY <3>2 DEF Agree
      <4>2. at <= Len(c.label) /\ at <= Len(d.label)
        BY <2>1
      <4>3. /\ at \in Nat /\ Len(k) \in Nat /\ Len(l) \in Nat
            /\ Len(c.label) \in Nat /\ Len(d.label) \in Nat
        BY <1>2, <2>6
      <4> HIDE DEF at
      <4> QED
        BY <4>1, <4>2, <4>3
    <3>5. Agree(k, l, at)
      BY <3>3, <3>4 DEF Agree
    <3> HIDE DEF at
    <3> QED
      BY <1>3, <2>6, <3>5, CommonIs
  <2>8. Size(f) \in Nat /\ Size(c) \in Nat /\ Size(d) \in Nat /\ Size(n) \in Nat
    BY <1>1, <2>5, NodeFacts
  <2>9. Size(n) < Size(f)
    <3>1. Size(n) = 2 * Len(n.label)
      BY <1>2, SizeIs
    <3>2. f.leaf = FALSE
      BY DEF Fork
    <3>3. Len(f.label) \in Nat /\ Len(n.label) < Len(f.label)
      BY <1>2, <2>5, <2>6, <2>7, CommonIs
    <3>4. Size(f) = 2 * Len(f.label)
      BY <3>2, <3>3, SizeIs
    <3> HIDE DEF f
    <3> QED
      BY <1>2, <3>1, <3>3, <3>4
  <2> HIDE DEF f, at
  <2>10. Over(k, n)
    BY <1>1, <2>2, BelowIs
  <2>11. Below(f, n)
    <3>1. f = n \/ Below(f, n)
      BY <2>5, <2>8, <2>9, <2>10, Chain
    <3> QED
      BY <2>8, <2>9, <3>1
  <2>12. ~Below(c, f)
    BY <1>1, <2>5, <2>11
  <2>13. Over(l, c)
    <3>1. CASE Size(f) <= Size(c)
      <4>1. c = f
        BY <1>1, <2>2, <2>5, <2>12, <3>1, Chain
      <4> QED
        BY <2>5, <4>1
    <3>2. CASE Size(c) <= Size(f)
      <4>1. f = c \/ Below(f, c)
        BY <1>1, <2>2, <2>5, <3>2, Chain
      <4> QED
        BY <1>1, <2>5, <4>1, BelowIs
    <3> QED
      BY <2>8, <3>1, <3>2
  <2> QED
    BY <2>3, <2>13, ChildrenApart
<1> QED
  BY <1>2, <1>3, <1>6, <1>7

-----------------------------------------------------------------------------
(* One step of the walk.                                                    *)

\* what a node has in common with the target
Like(x, target) == Common(x.label, target)

\* What a key has in common with the target is what a node above it has, as long as
\* the node's label is not all in the target.
LEMMA LikeIs ==
  ASSUME NEW keys \in SUBSET Words, NEW target \in Words, NEW x \in Nodes(keys)
  PROVE  /\ Like(x, target) \in Nat \ {0}
         /\ Like(x, target) <= Len(x.label) /\ Like(x, target) <= Len(target)
         /\ \A k \in keys : Over(k, x) =>
              /\ Common(k, target) \in Nat
              /\ Like(x, target) <= Common(k, target)
              /\ Like(x, target) < Common(k, target) =>
                   ~x.leaf /\ IsPrefix(x.label, target)
<1>1. /\ x.label \in Seq(Nat) /\ target \in Seq(Nat) /\ x.label \in Words
      /\ Len(x.label) \in Nat \ {0} /\ Len(target) \in Nat \ {0}
  BY NodeFacts, LenProperties, EmptySeq DEF Words
<1> DEFINE i == Like(x, target)
<1>2. i \in Nat /\ Agree(x.label, target, i)
  BY <1>1, CommonIs DEF Like
<1>3. i # 0
  <2>1. x.label[1] = target[1]
    BY <1>1 DEF Words
  <2>2. Agree(x.label, target, 1)
    BY <1>1, <2>1 DEF Agree
  <2>3. 1 <= i
    BY <1>1, <2>2, CommonIs DEF Like
  <2> QED
    BY <1>2, <2>3
<1>4. i <= Len(x.label) /\ i <= Len(target)
  BY <1>2 DEF Agree
<1>5. ASSUME NEW k \in keys, Over(k, x)
      PROVE  /\ Common(k, target) \in Nat
             /\ i <= Common(k, target)
             /\ i < Common(k, target) => ~x.leaf /\ IsPrefix(x.label, target)
  <2>1. k \in Seq(Nat) /\ Len(k) \in Nat /\ IsPrefix(x.label, k)
    BY <1>5, NodeFacts, LenProperties DEF Words
  <2>2. Common(k, target) \in Nat /\ Agree(k, target, Common(k, target))
    BY <1>1, <2>1, CommonIs
  <2>3. Agree(x.label, k, Len(x.label))
    BY <1>1, <2>1, PrefixIs
  <2>4. i <= Common(k, target)
    <3>1. Agree(k, target, i)
      <4> HIDE DEF i
      <4>1. i <= Len(k)
        BY <1>1, <1>2, <1>4, <2>1, <2>3 DEF Agree
      <4>2. \A j \in 1..i : k[j] = target[j]
        BY <1>1, <1>2, <1>4, <2>3 DEF Agree
      <4> QED
        BY <1>4, <4>1, <4>2 DEF Agree
    <3> HIDE DEF i
    <3> QED
      BY <1>1, <1>2, <2>1, <3>1, CommonIs
  <2>5. ASSUME i < Common(k, target)
        PROVE  ~x.leaf /\ IsPrefix(x.label, target)
    <3>1. ~x.leaf
      <4> SUFFICES ASSUME x.leaf PROVE FALSE
        OBVIOUS
      <4>1. x.label = k
        BY <1>5 DEF Over
      <4>2. i = Common(k, target)
        BY <4>1 DEF Like
      <4> HIDE DEF i
      <4> QED
        BY <1>2, <2>5, <4>2
    <3>2. Len(x.label) <= i
      <4> SUFFICES ASSUME i < Len(x.label) PROVE FALSE
        BY <1>1, <1>2
      <4>1. Agree(k, target, i + 1)
        <5> HIDE DEF i
        <5>1. i + 1 \in Nat /\ i + 1 <= Common(k, target)
          BY <1>2, <2>2, <2>5
        <5> QED
          BY <1>1, <2>1, <5>1, CommonIs
      <4>2. Agree(x.label, target, i + 1)
        <5> HIDE DEF i
        <5>1. i + 1 <= Len(x.label) /\ i + 1 <= Len(target)
          BY <1>1, <1>2, <4>1 DEF Agree
        <5>2. \A j \in 1..(i + 1) : x.label[j] = k[j]
          BY <1>1, <1>2, <2>3, <5>1 DEF Agree
        <5> QED
          BY <4>1, <5>1, <5>2 DEF Agree
      <4>3. i + 1 <= Like(x, target)
        <5>1. i + 1 \in Nat
          BY <1>2
        <5> HIDE DEF i
        <5> QED
          BY <1>1, <4>2, <5>1, CommonIs DEF Like
      <4> QED
        BY <1>2, <4>3
    <3>3. Len(x.label) = i
      BY <1>1, <1>2, <1>4, <3>2
    <3>4. IsPrefix(x.label, target)
      <4>1. Agree(x.label, target, Len(x.label))
        BY <1>2, <3>3
      <4> QED
        BY <1>1, <4>1, PrefixIs
    <3> QED
      BY <3>1, <3>4
  <2> QED
    BY <2>2, <2>4, <2>5
<1> QED
  BY <1>2, <1>3, <1>4, <1>5

\* A child whose label is all in the target, and another with as much in common: the
\* first one's label is in the second one's.
LEMMA LikeMore ==
  ASSUME NEW a \in Seq(Nat), NEW b \in Seq(Nat), NEW target \in Seq(Nat),
         IsPrefix(a, target), Len(a) <= Common(b, target)
  PROVE  IsPrefix(a, b)
<1>1. Len(a) \in Nat
  BY LenProperties
<1>2. Agree(a, target, Len(a)) /\ Agree(b, target, Len(a))
  BY <1>1, PrefixIs, CommonIs
<1>3. Agree(a, b, Len(a))
  BY <1>1, <1>2 DEF Agree
<1> QED
  BY <1>3, PrefixIs

\* Every child has at least the slash in common with the target.
LEMMA NextIs ==
  ASSUME NEW keys \in SUBSET Words, NEW target \in Words, NEW n \in Nodes(keys)
  PROVE  NextChild(Nodes(keys), n, target) = Best(Children(Nodes(keys), n), n, target)
<1>1. \A c \in Children(Nodes(keys), n) : Common(c.label, target) > 0
  <2> TAKE c \in Children(Nodes(keys), n)
  <2>1. c \in Nodes(keys)
    BY ChildIs
  <2>2. Common(c.label, target) \in Nat \ {0}
    BY <2>1, LikeIs DEF Like
  <2> QED
    BY <2>2
<1>2. {c \in Children(Nodes(keys), n) : Common(c.label, target) > 0} = Children(Nodes(keys), n)
  BY <1>1
<1> QED
  BY <1>2 DEF NextChild

LEMMA LeafEnds ==
  ASSUME NEW keys, NEW n \in Nodes(keys), n.leaf
  PROVE  Children(Nodes(keys), n) = {}
  BY DEF Children, Below

\* There is always a best child: of those with the most in common one comes first, since
\* no two have the same character behind their parent's label.
LEMMA InnerGoesOn ==
  ASSUME NEW keys \in SUBSET Words, NEW target \in Words, NEW n \in Nodes(keys), ~n.leaf
  PROVE  NextChild(Nodes(keys), n, target) # {}
<1> DEFINE X == Children(Nodes(keys), n)
           L(x) == Like(x, target)
           R(x) == Rank(x, n)
<1>1. X # {}
  <2>1. PICK k \in keys : Over(k, n)
    BY NodeFacts
  <2> QED
    BY <2>1, ChildOver
<1>2. \A x \in X : /\ x \in Nodes(keys) /\ L(x) \in Nat /\ L(x) <= Len(target)
                 /\ R(x) \in Nat
  BY ChildIs, LikeIs, RankOf
<1>3. Len(target) \in Nat
  BY LenProperties DEF Words
<1>4. \A x, y \in X : R(x) = R(y) => x = y
  BY RanksDiffer
<1>5. \A x, y \in X : R(x) < R(y) => Before(x, y, n)
  BY <1>2, RankIs
<1> HIDE DEF X, L, R
<1>6. PICK m \in X : \A x \in X : L(x) <= L(m)
  <2> DEFINE S == {Len(target) - L(x) : x \in X}
  <2>1. S \subseteq Nat /\ S # {}
    BY <1>1, <1>2, <1>3
  <2> HIDE DEF S
  <2>2. PICK i \in S : \A j \in S : i <= j
    BY <2>1, LeastElement
  <2>3. PICK m \in X : i = Len(target) - L(m)
    BY <2>2 DEF S
  <2>4. \A x \in X : Len(target) - L(m) <= Len(target) - L(x)
    BY <2>2, <2>3 DEF S
  <2>5. \A x \in X : L(x) <= L(m)
    BY <1>2, <1>3, <2>4
  <2> QED
    BY <2>5
<1>7. PICK b \in X : L(b) = L(m) /\ \A x \in X : L(x) = L(m) => R(b) <= R(x)
  <2> DEFINE S == {R(x) : x \in {y \in X : L(y) = L(m)}}
  <2>1. S \subseteq Nat /\ S # {}
    BY <1>2, <1>6
  <2> HIDE DEF S
  <2>2. PICK i \in S : \A j \in S : i <= j
    BY <2>1, LeastElement
  <2>3. PICK b \in X : L(b) = L(m) /\ i = R(b)
    BY <2>2 DEF S
  <2>4. \A x \in X : L(x) = L(m) => R(b) <= R(x)
    BY <2>2, <2>3 DEF S
  <2> QED
    BY <2>3, <2>4
<1>8. \A d \in X \ {b} : L(b) > L(d) \/ (L(b) = L(d) /\ Before(b, d, n))
  <2> TAKE d \in X \ {b}
  <2>1. L(d) <= L(b) /\ L(d) \in Nat /\ L(b) \in Nat
    BY <1>2, <1>6, <1>7
  <2>2. CASE L(d) = L(b)
    <3>1. R(b) <= R(d) /\ R(b) # R(d) /\ R(b) \in Nat /\ R(d) \in Nat
      BY <1>2, <1>4, <1>7, <2>2
    <3>2. R(b) < R(d)
      BY <3>1
    <3> QED
      BY <1>5, <2>2, <3>2
  <2>3. CASE L(d) # L(b)
    BY <2>1, <2>3
  <2> QED
    BY <2>2, <2>3
<1>9. b \in Best(X, n, target)
  BY <1>8 DEF Best, Fits, L, Like
<1> QED
  BY <1>9, NextIs DEF X

\* the keys below a node have the one with the most in common among them, and the target
\* if it is a key
OnTheWay(keys, target, n) ==
  /\ \E k \in keys : /\ Over(k, n)
                     /\ \A p \in keys : Common(p, target) <= Common(k, target)
  /\ target \in keys => Over(target, n)

\* The greedy choice loses neither.
LEMMA StepKeeps ==
  ASSUME NEW keys \in SUBSET Words, NEW target \in Words, NEW n \in Nodes(keys),
         NEW c \in NextChild(Nodes(keys), n, target), OnTheWay(keys, target, n)
  PROVE  c \in Children(Nodes(keys), n) /\ OnTheWay(keys, target, c)
<1>1. /\ c \in Children(Nodes(keys), n)
      /\ \A d \in Children(Nodes(keys), n) \ {c} : Fits(c, d, n, target)
  BY NextIs DEF Best
<1>2. c \in Nodes(keys) /\ Below(c, n) /\ c.label \in Seq(Nat) /\ target \in Seq(Nat)
  BY <1>1, ChildIs, NodeFacts DEF Words
<1>3. ~n.leaf
  BY <1>2 DEF Below
<1>4. PICK l \in keys : Over(l, c)
  BY <1>2, NodeFacts
<1>5. /\ l \in Seq(Nat) /\ IsPrefix(c.label, l) 
      /\ Like(c, target) \in Nat /\ Common(l, target) \in Nat
      /\ Like(c, target) <= Common(l, target)
  BY <1>2, <1>4, LikeIs, NodeFacts DEF Words
\* an inner child whose label is in the target has more in common than c, or is c
<1>6. ASSUME NEW d \in Children(Nodes(keys), n), d # c, ~d.leaf, IsPrefix(d.label, target)
      PROVE  FALSE
  <2>1. d \in Nodes(keys) /\ d.label \in Seq(Nat) /\ Len(d.label) \in Nat
    BY <1>6, ChildIs, NodeFacts
  <2>2. Like(d, target) <= Like(c, target)
    <3>1. Like(d, target) \in Nat
      BY <2>1, LikeIs
    <3> QED
      BY <1>1, <1>5, <1>6, <3>1 DEF Fits, Like
  <2>3. Len(d.label) <= Like(d, target)
    <3>1. Agree(d.label, target, Len(d.label))
      BY <1>2, <1>6, <2>1, PrefixIs
    <3> QED
      BY <1>2, <2>1, <3>1, CommonIs DEF Like
  <2>4. Len(d.label) <= Common(c.label, target)
    <3>1. Like(d, target) \in Nat
      BY <2>1, LikeIs
    <3> QED
      BY <1>5, <2>1, <2>2, <2>3, <3>1 DEF Like
  <2>5. IsPrefix(d.label, c.label)
    BY <1>2, <1>6, <2>1, <2>4, LikeMore
  <2>6. IsPrefix(d.label, l)
    BY <1>2, <1>5, <2>1, <2>5, PrefixTrans
  <2>7. Over(l, d)
    BY <1>6, <2>6 DEF Over
  <2> QED
    BY <1>1, <1>4, <1>6, <2>7, ChildrenApart
<1>7. \E k \in keys : /\ Over(k, c)
                    /\ \A p \in keys : Common(p, target) <= Common(k, target)
  <2>1. PICK k \in keys : /\ Over(k, n)
                         /\ \A p \in keys : Common(p, target) <= Common(k, target)
    BY DEF OnTheWay
  <2>2. PICK d \in Children(Nodes(keys), n) : Over(k, d)
    BY <1>3, <2>1, ChildOver
  <2>3. CASE d = c
    BY <2>1, <2>2, <2>3
  <2>4. CASE d # c
    <3>1. d \in Nodes(keys)
      BY ChildIs
    <3>2. /\ Like(d, target) \in Nat /\ Common(k, target) \in Nat
          /\ Like(d, target) <= Common(k, target)
          /\ Like(d, target) < Common(k, target) => ~d.leaf /\ IsPrefix(d.label, target)
      BY <2>2, <3>1, LikeIs
    <3>3. ~(Like(d, target) < Common(k, target))
      BY <1>6, <2>4, <3>2
    <3>4. Like(d, target) <= Like(c, target)
      BY <1>1, <1>5, <2>4, <3>2 DEF Fits, Like
    <3>5. Common(k, target) <= Common(l, target)
      BY <1>5, <3>2, <3>3, <3>4
    <3>6. \A p \in keys : Common(p, target) <= Common(l, target)
      <4> TAKE p \in keys
      <4>1. Common(p, target) <= Common(k, target)
        BY <2>1
      <4>2. Common(p, target) \in Nat
        BY <1>2, CommonIs DEF Words
      <4> QED
        BY <1>5, <3>2, <3>5, <4>1, <4>2
    <3> QED
      BY <1>4, <3>6
  <2> QED
    BY <2>3, <2>4
<1>8. ASSUME target \in keys PROVE Over(target, c)
  <2>1. Over(target, n)
    BY <1>8 DEF OnTheWay
  <2>2. PICK d \in Children(Nodes(keys), n) : Over(target, d)
    BY <1>3, <1>8, <2>1, ChildOver
  <2>3. SUFFICES ASSUME d # c PROVE FALSE
    BY <2>2
  <2>4. /\ d \in Nodes(keys) /\ Below(d, n) /\ d.label \in Seq(Nat) /\ Len(d.label) \in Nat
        /\ d.leaf \in BOOLEAN /\ IsPrefix(d.label, target)
    BY <1>8, <2>2, ChildIs, NodeFacts
  <2>5. d.leaf
    BY <1>6, <2>3, <2>4
  <2>6. d.label = target
    BY <2>2, <2>5 DEF Over
  \* c has all of the target in common, too
  <2>7. Len(target) \in Nat /\ Common(target, target) = Len(target)
    <3>1. Len(target) \in Nat
      BY <1>2, LenProperties
    <3>2. Agree(target, target, Len(target))
      BY <3>1 DEF Agree
    <3>3. Len(target) <= Common(target, target) /\ Common(target, target) \in Nat
      BY <1>2, <3>1, <3>2, CommonIs
    <3>4. Common(target, target) <= Len(target)
      BY <1>2, CommonIs DEF Agree
    <3> QED
      BY <3>1, <3>3, <3>4
  <2>8. Like(c, target) <= Len(target)
    BY <1>2, LikeIs
  <2>9. Like(d, target) = Len(target)
    BY <2>6, <2>7 DEF Like
  <2>10. Fits(c, d, n, target)
    BY <1>1, <2>3
  <2>11. Before(c, d, n) /\ Common(c.label, target) = Len(target)
    BY <1>5, <2>7, <2>8, <2>9, <2>10 DEF Fits, Like
  <2>12. IsPrefix(target, c.label)
    <3>1. IsPrefix(target, target)
      BY <1>2, PrefixOrder
    <3> QED
      BY <1>2, <2>7, <2>11, <3>1, LikeMore
  <2>13. /\ Len(n.label) \in Nat /\ Len(c.label) \in Nat /\ n.label \in Seq(Nat)
         /\ IsPrefix(n.label, c.label)
    BY <1>2, NodeFacts DEF Below
  <2>14. CASE Len(c.label) < Len(n.label) + 1
    <3>1. c.label = n.label
      BY <1>2, <2>13, <2>14, PrefixOrder
    <3>2. c.leaf
      BY <1>2, <3>1 DEF Below
    <3>3. Len(n.label) <= Len(target)
      BY <1>8, <2>1, <1>2, <2>13, NodeFacts, PrefixOrder
    <3>4. c.label = target
      BY <1>2, <2>12, <3>1, <3>3, PrefixOrder
    <3>5. Over(target, c)
      BY <3>2, <3>4 DEF Over
    <3> QED
      BY <1>1, <1>8, <2>2, <2>3, <3>5, ChildrenApart
  <2>15. CASE Len(n.label) + 1 <= Len(c.label)
    <3> DEFINE at == Len(n.label) + 1
    <3>1. at <= Len(target) /\ c.label[at] < target[at]
      BY <2>6, <2>11, <2>13, <2>15 DEF Before
    <3>2. Agree(target, c.label, Len(target))
      BY <1>2, <2>12, PrefixIs
    <3>3. at \in 1..Len(target)
      BY <2>7, <2>13, <3>1
    <3>4. c.label[at] = target[at] /\ target[at] \in Nat
      BY <1>2, <3>2, <3>3, ElementOfSeq DEF Agree
    <3> HIDE DEF at
    <3> QED
      BY <3>1, <3>4
  <2> QED
    BY <2>13, <2>14, <2>15
<1> QED
  BY <1>1, <1>7, <1>8 DEF OnTheWay

-----------------------------------------------------------------------------
(* The walk.                                                                *)

\* where the walk goes on from n
Chosen(nodes, target, n) ==
  IF NextChild(nodes, n, target) = {} THEN n
  ELSE CHOOSE c \in NextChild(nodes, n, target) : TRUE

\* f is the recursive function of longest_match
Walk(f, nodes, target) ==
  f = [n \in nodes |-> LET next == NextChild(nodes, n, target) IN
                        IF next = {} THEN n ELSE f[CHOOSE c \in next : TRUE]]

LEMMA MatchIs ==
  ASSUME NEW keys, NEW target, \E f : Walk(f, Nodes(keys), target)
  PROVE  \E f : Walk(f, Nodes(keys), target) /\ LongestMatch(keys, target) = f[Root(Nodes(keys))]
<1> DEFINE g == CHOOSE f : Walk(f, Nodes(keys), target)
<1>1. Walk(g, Nodes(keys), target)
  OBVIOUS
<1>2. LongestMatch(keys, target) = g[Root(Nodes(keys))]
  BY DEF LongestMatch, Walk
<1> QED
  BY <1>1, <1>2

LEMMA StepIs ==
  ASSUME NEW keys \in SUBSET Words, NEW target \in Words, NEW n \in Nodes(keys)
  PROVE  /\ n.leaf => NextChild(Nodes(keys), n, target) = {}
         /\ ~n.leaf => /\ NextChild(Nodes(keys), n, target) # {}
                       /\ Chosen(Nodes(keys), target, n) \in NextChild(Nodes(keys), n, target)
                       /\ Chosen(Nodes(keys), target, n) \in Nodes(keys)
                       /\ Below(Chosen(Nodes(keys), target, n), n)
<1> DEFINE next == NextChild(Nodes(keys), n, target)
<1>1. next \subseteq Children(Nodes(keys), n)
  BY NextIs DEF Best
<1>2. n.leaf => next = {}
  BY <1>1, LeafEnds
<1>3. ASSUME ~n.leaf
      PROVE  next # {} /\ Chosen(Nodes(keys), target, n) \in next
  <2>1. next # {}
    BY <1>3, InnerGoesOn
  <2> QED
    BY <2>1 DEF Chosen
<1>4. \A c \in next : c \in Nodes(keys) /\ Below(c, n)
  BY <1>1, ChildIs
<1> QED
  BY <1>2, <1>3, <1>4

\* no key is longer than b
Short(keys, b) == \A k \in keys : Len(k) <= b

LEMMA SizeBound ==
  ASSUME NEW keys \in SUBSET Words, NEW b \in Nat, Short(keys, b), NEW n \in Nodes(keys)
  PROVE  Size(n) <= 2 * b + 1
<1>1. PICK k \in keys : Over(k, n)
  BY NodeFacts
<1>2. k \in Seq(Nat) /\ Len(k) \in Nat /\ n.label \in Seq(Nat) /\ Len(n.label) \in Nat
      /\ IsPrefix(n.label, k) /\ Len(k) <= b /\ n.leaf \in BOOLEAN
  BY <1>1, NodeFacts, LenProperties DEF Words, Short
<1>3. Len(n.label) <= b
  <2>1. Len(n.label) <= Len(k)
    BY <1>2, PrefixOrder
  <2> QED
    BY <1>2, <2>1
<1>4. Size(n) = 2 * Len(n.label) \/ Size(n) = 2 * Len(n.label) + 1
  BY <1>2, SizeIs
<1> QED
  BY <1>2, <1>3, <1>4

\* how far down the walk can still go
Left(b, n) == 2 * b + 1 - Size(n)

LEMMA LeftIs ==
  ASSUME NEW keys \in SUBSET Words, NEW b \in Nat, Short(keys, b), NEW n \in Nodes(keys),
         NEW m \in Nodes(keys), Below(m, n)
  PROVE  Left(b, n) \in Nat /\ Left(b, m) \in Nat /\ Left(b, m) < Left(b, n)
<1>1. Size(n) \in Nat /\ Size(m) \in Nat /\ Size(n) < Size(m)
  BY NodeFacts, BelowIs
<1>2. Size(n) <= 2 * b + 1 /\ Size(m) <= 2 * b + 1
  BY SizeBound
<1> QED
  BY <1>1, <1>2 DEF Left

\* The recursion is well-founded, so that its function exists.
LEMMA WalkExists ==
  ASSUME NEW keys \in SUBSET Words, NEW target \in Words, NEW b \in Nat, Short(keys, b)
  PROVE  \E f : Walk(f, Nodes(keys), target)
<1> DEFINE N == Nodes(keys)
           s(n) == Chosen(N, target, n)
           Sol(f, n) == f[n] = IF n.leaf THEN n ELSE f[s(n)]
           P == {i \in Nat : \E f : \A n \in N : Left(b, n) < i => Sol(f, n)}
<1>0. \A n \in N : Left(b, n) \in Nat
  BY NodeFacts, SizeBound DEF Left
<1>1. \A n \in N : ~n.leaf => s(n) \in N /\ Left(b, s(n)) < Left(b, n)
  BY StepIs, LeftIs
<1> HIDE DEF s, N
<1>2. 0 \in P
  <2>1. ASSUME NEW n \in N PROVE ~(Left(b, n) < 0)
    <3>1. Left(b, n) \in Nat
      BY <1>0
    <3> QED
      BY <3>1
  <2> QED
    BY <2>1
<1>3. ASSUME NEW i \in Nat, i \in P PROVE i + 1 \in P
  <2>1. PICK f : \A n \in N : Left(b, n) < i => Sol(f, n)
    BY <1>3
  <2> DEFINE g == [n \in N |-> IF n.leaf THEN n ELSE f[s(n)]]
  <2>2. ASSUME NEW n \in N, Left(b, n) < i + 1 PROVE Sol(g, n)
    <3>1. CASE n.leaf
      BY <3>1
    <3>2. CASE ~n.leaf
      <4>1. s(n) \in N /\ Left(b, s(n)) < i
        <5>1. s(n) \in N /\ Left(b, s(n)) < Left(b, n) /\ Left(b, n) \in Nat
          BY <1>0, <1>1, <3>2
        <5>2. Left(b, s(n)) \in Nat
          BY <1>0, <5>1
        <5> QED
          BY <2>2, <5>1, <5>2
      <4>2. f[s(n)] = IF s(n).leaf THEN s(n) ELSE f[s(s(n))]
        BY <2>1, <4>1
      <4>3. g[s(n)] = f[s(n)]
        BY <4>1, <4>2
      <4>4. g[n] = f[s(n)]
        BY <3>2
      <4> QED
        BY <3>2, <4>3, <4>4
    <3> QED
      BY <3>1, <3>2
  <2> HIDE DEF g
  <2> QED
    BY <2>2
<1> HIDE DEF P
<1>4. 2 * b + 2 \in P
  BY <1>2, <1>3, NatInd
<1>5. PICK f : \A n \in N : Left(b, n) < 2 * b + 2 => Sol(f, n)
  BY <1>4 DEF P
<1>6. \A n \in N : Sol(f, n)
  <2> TAKE n \in N
  <2>1. Left(b, n) < 2 * b + 2
    <3>1. Size(n) \in Nat
      BY NodeFacts DEF N
    <3> QED
      BY <3>1 DEF Left
  <2> QED
    BY <1>5, <2>1
<1> DEFINE g == [n \in N |-> f[n]]
<1>7. \A n \in N : g[n] = LET next == NextChild(N, n, target) IN
                        IF next = {} THEN n ELSE g[CHOOSE c \in next : TRUE]
  <2> TAKE n \in N
  <2>1. CASE n.leaf
    BY <1>6, <2>1, StepIs DEF N
  <2>2. CASE ~n.leaf
    <3>1. s(n) \in N /\ NextChild(N, n, target) # {}
      BY <2>2, StepIs DEF s, N
    <3>2. s(n) = CHOOSE c \in NextChild(N, n, target) : TRUE
      BY <3>1 DEF Chosen, s
    <3>3. g[n] = f[s(n)] /\ g[s(n)] = f[s(n)]
      BY <1>6, <2>2, <3>1
    <3> QED
      BY <3>1, <3>2, <3>3
  <2> QED
    BY <2>1, <2>2
<1>8. Walk(g, N, target)
  <2>1. g = [n \in N |-> g[n]]
    OBVIOUS
  <2> HIDE DEF g
  <2> QED
    BY <1>7, <2>1 DEF Walk
<1> QED
  BY <1>8 DEF N

\* The walk ends at a leaf, and what was below each node on the way is the leaf in the end.
LEMMA WalkEnds ==
  ASSUME NEW keys \in SUBSET Words, NEW target \in Words, NEW b \in Nat, Short(keys, b),
         NEW f, Walk(f, Nodes(keys), target),
         NEW n \in Nodes(keys), OnTheWay(keys, target, n)
  PROVE  f[n] \in Nodes(keys) /\ f[n].leaf /\ OnTheWay(keys, target, f[n])
<1> DEFINE N == Nodes(keys)
           End(m) == m \in N /\ m.leaf /\ OnTheWay(keys, target, m)
           P == {i \in Nat : \A m \in N : Left(b, m) < i /\ OnTheWay(keys, target, m) => End(f[m])}
<1>1. \A m \in N : Left(b, m) \in Nat /\ m.leaf \in BOOLEAN
  BY NodeFacts, SizeBound DEF Left
<1>2. 0 \in P
  BY <1>1
<1>3. ASSUME NEW i \in Nat, i \in P PROVE i + 1 \in P
  <2> SUFFICES ASSUME NEW m \in N, Left(b, m) < i + 1, OnTheWay(keys, target, m)
               PROVE  End(f[m])
    OBVIOUS
  <2>1. f[m] = LET next == NextChild(N, m, target) IN
               IF next = {} THEN m ELSE f[CHOOSE c \in next : TRUE]
    BY DEF Walk
  <2>2. CASE m.leaf
    <3>1. f[m] = m
      BY <2>1, <2>2, StepIs
    <3> QED
      BY <2>2, <3>1
  <2>3. CASE ~m.leaf
    <3> DEFINE c == Chosen(N, target, m)
    <3>1. /\ NextChild(N, m, target) # {} /\ c \in NextChild(N, m, target)
          /\ c \in N /\ Below(c, m)
      BY <2>3, StepIs
    <3>2. f[m] = f[c]
      BY <2>1, <3>1 DEF Chosen
    <3> HIDE DEF c
    <3>3. OnTheWay(keys, target, c)
      BY <3>1, StepKeeps
    <3>4. Left(b, c) < i
      <4>1. Left(b, c) < Left(b, m) /\ Left(b, c) \in Nat /\ Left(b, m) \in Nat
        BY <3>1, LeftIs
      <4> QED
        BY <4>1
    <3>5. End(f[c])
      <4> HIDE DEF N, End
      <4> QED
        BY <1>3, <3>1, <3>3, <3>4
    <3> QED
      BY <3>2, <3>5
  <2> QED
    BY <1>1, <2>2, <2>3
<1> HIDE DEF P
<1>4. Left(b, n) + 1 \in P
  BY <1>1, <1>2, <1>3, NatInd
<1>5. Left(b, n) < Left(b, n) + 1
  BY <1>1
<1> QED
  BY <1>4, <1>5 DEF P

\* what longest_match finds
LEMMA MatchFound ==
  ASSUME NEW keys \in SUBSET Words, keys # {}, NEW target \in Words,
         NEW b \in Nat, Short(keys, b)
  PROVE  LET found == LongestMatch(keys, target)
         IN  /\ found \in Nodes(keys) /\ found.leaf
             /\ found.label \in keys /\ found = Leaf(found.label)
             /\ \A p \in keys : Common(p, target) <= Common(found.label, target)
             /\ target \in keys => found = Leaf(target)
<1> DEFINE root == Root(Nodes(keys))
           found == LongestMatch(keys, target)
<1>1. root \in Nodes(keys) /\ \A k \in keys : Over(k, root)
  BY RootIs
<1>2. OnTheWay(keys, target, root)
  <2> DEFINE S == {Len(target) - Common(k, target) : k \in keys}
  <2>1. Len(target) \in Nat /\ target \in Seq(Nat)
    BY LenProperties DEF Words
  <2>2. \A k \in keys : Common(k, target) \in Nat /\ Common(k, target) <= Len(target)
    BY <2>1, CommonIs DEF Words, Agree
  <2>3. S \subseteq Nat /\ S # {}
    BY <2>1, <2>2
  <2> HIDE DEF S
  <2>4. PICK i \in S : \A j \in S : i <= j
    BY <2>3, LeastElement
  <2>5. PICK k \in keys : i = Len(target) - Common(k, target)
    BY <2>4 DEF S
  <2>6. \A p \in keys : Len(target) - Common(k, target) <= Len(target) - Common(p, target)
    BY <2>4, <2>5 DEF S
  <2>7. \A p \in keys : Common(p, target) <= Common(k, target)
    BY <2>1, <2>2, <2>6
  <2> QED
    BY <1>1, <2>7 DEF OnTheWay
<1>3. PICK f : Walk(f, Nodes(keys), target) /\ found = f[root]
  BY WalkExists, MatchIs
<1>4. found \in Nodes(keys) /\ found.leaf /\ OnTheWay(keys, target, found)
  BY <1>1, <1>2, <1>3, WalkEnds
<1> HIDE DEF found
<1>5. found.label \in keys /\ found = Leaf(found.label)
  BY <1>4, NodeIs
<1>6. \A p \in keys : Common(p, target) <= Common(found.label, target)
  BY <1>4 DEF OnTheWay, Over
<1>7. target \in keys => found = Leaf(target)
  BY <1>4, <1>5 DEF OnTheWay, Over
<1> QED
  BY <1>4, <1>5, <1>6, <1>7 DEF found

-----------------------------------------------------------------------------
(* The table.                                                               *)

\* Routes are registered one at a time, so that some number bounds their lengths.
Bounded == \E b \in Nat : Short(DOMAIN table, b)

TableInv == TypeOK /\ Bounded

LEMMA TableInvariance == Spec => []TableInv
<1>1. Init => TableInv
  <2>1. DOMAIN <<>> = {}
    OBVIOUS
  <2> QED
    BY <2>1, InitTypes DEF Init, TableInv, Bounded, Short
<1>2. TableInv /\ [Next]_vars => TableInv'
  <2> SUFFICES ASSUME TableInv, [Next]_vars PROVE Bounded'
    BY NextTypes DEF TableInv
  <2>1. PICK b \in Nat : Short(DOMAIN table, b)
    BY DEF TableInv, Bounded
  <2>2. ASSUME NEW path \in Paths, NEW route \in Routes, Get(path, route) PROVE Bounded'
    <3>1. Len(path) \in Nat
      BY RouterAssumption, LenProperties
    <3>2. DOMAIN table' = DOMAIN table \union {path}
      BY <2>2 DEF Get
    <3> DEFINE c == b + Len(path)
    <3>3. c \in Nat /\ b <= c /\ Len(path) <= c
      BY <3>1
    <3> HIDE DEF c
    <3>4. \A k \in DOMAIN table : Len(k) <= c
      <4> TAKE k \in DOMAIN table
      <4>1. Len(k) \in Nat
        <5>1. k \in Seq(Nat)
          BY RouterAssumption DEF TableInv, TypeOK
        <5> QED
          BY <5>1, LenProperties
      <4>2. Len(k) <= b
        BY <2>1 DEF Short
      <4> QED
        BY <3>3, <4>1, <4>2
    <3>5. Short(DOMAIN table', c)
      BY <3>2, <3>3, <3>4 DEF Short
    <3> QED
      BY <3>3, <3>5 DEF Bounded
  <2>3. ASSUME UNCHANGED table PROVE Bounded'
    BY <2>1, <2>3 DEF Bounded
  <2>4. ASSUME NEW req \in Requests, Arrive(req) PROVE Bounded'
    BY <2>3, <2>4 DEF Arrive
  <2> QED
    BY <2>2, <2>3, <2>4 DEF Next, BeforeBody, Handle, vars
<1> QED
  BY <1>1, <1>2, PTL DEF Spec

\* what was shown of any keys and target, of the table and the request
LEMMA MatchIsLongest ==
  ASSUME TableInv, Matching
  PROVE  /\ Match.leaf
         /\ \A p \in DOMAIN table : Common(p, request.target) <= Common(Match.label, request.target)
         /\ request.target \in DOMAIN table => Match = Leaf(request.target)
<1>1. DOMAIN table # {} /\ DOMAIN table \subseteq Paths
  BY DEF Matching, TableInv, TypeOK
<1>2. Slash \in Nat
  <2>1. PICK p \in Paths : TRUE
    BY <1>1
  <2>2. p \in Seq(Nat) /\ p # <<>> /\ p[1] = Slash
    BY <2>1, RouterAssumption
  <2>3. 1 \in 1..Len(p)
    BY <2>2, EmptySeq, LenProperties
  <2> QED
    BY <2>2, <2>3, ElementOfSeq
<1>3. DOMAIN table \in SUBSET Words
  BY <1>1, RouterAssumption DEF Words
<1>4. request.target \in Words
  <2>1. <<Slash>> \in Seq(Nat) /\ <<Slash>> # <<>> /\ <<Slash>>[1] = Slash
    BY <1>2
  <2>2. CASE request \in Requests
    <3>1. request.target \in Targets
      BY <2>2 DEF Requests
    <3> QED
      BY <3>1, RouterAssumption DEF Words
  <2>3. CASE request = NoRequest
    BY <2>1, <2>3 DEF NoRequest, Words
  <2> QED
    BY <2>2, <2>3 DEF TableInv, TypeOK
<1>5. PICK b \in Nat : Short(DOMAIN table, b)
  BY DEF TableInv, Bounded
<1> QED
  BY <1>1, <1>3, <1>4, <1>5, MatchFound DEF Match

\* Whatever routes there are, longest_match ends at a route: an inner node always has a
\* child to go on to, since every label begins with the slash.
THEOREM LeafIsFound == Spec => []LeafFound
<1>1. TableInv => LeafFound
  BY MatchIsLongest DEF LeafFound
<1> QED
  BY <1>1, TableInvariance, PTL

\* A target that is a route is answered by this route.
THEOREM RouteIsFound == Spec => []RouteFound
<1>1. TableInv => RouteFound
  BY MatchIsLongest DEF RouteFound
<1> QED
  BY <1>1, TableInvariance, PTL

\* The child with the most in common, chosen at each node, leads to the route with the
\* most in common.
THEOREM GreatestIsFound == Spec => []Greatest
<1>1. TableInv => Greatest
  BY MatchIsLongest DEF Greatest
<1> QED
  BY <1>1, TableInvariance, PTL
=============================================================================
