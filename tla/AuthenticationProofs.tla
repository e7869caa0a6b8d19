------------------------ MODULE AuthenticationProofs ------------------------
(***************************************************************************)
(* Proofs about Authentication.  First what the operators on texts return  *)
(* for any text: where it is cut, which field is kept, that a hash is of   *)
(* one user, realm and password.  Then what the parser makes of a          *)
(* browser's header, and who is accepted.  At the end the invariant: a     *)
(* header explains each answer.                                             *)
(***************************************************************************)
EXTENDS Authentication, SequenceLemmas

-----------------------------------------------------------------------------
(* The first and the last of some places.                                  *)

LEMMA MinIs ==
  ASSUME NEW N, N \subseteq Nat, N # {}
  PROVE  Min(N) \in N /\ \A n \in N : Min(N) <= n
BY LeastElement DEF Min

LEMMA GreatestPlace ==
  ASSUME NEW n \in Nat, NEW N, N \subseteq 0..n, N # {}
  PROVE  \E g \in N : \A m \in N : m <= g
<1> DEFINE M == {n - m : m \in N}
<1>1. M \subseteq Nat /\ M # {}
  <2>1. \A m \in N : m \in 0..n /\ n - m \in Nat
    OBVIOUS
  <2>2. \E m \in N : n - m \in M
    OBVIOUS
  <2> QED
    BY <2>1, <2>2
<1>2. PICK l \in M : \A k \in M : l <= k
  BY <1>1, LeastElement
<1>3. PICK g \in N : l = n - g
  BY <1>2
<1>4. ASSUME NEW m \in N PROVE m <= g
  <2>1. n - m \in M /\ m \in 0..n /\ g \in 0..n
    OBVIOUS
  <2>2. n - g <= n - m
    BY <2>1, <1>2, <1>3
  <2> QED
    BY <2>1, <2>2
<1> QED
  BY <1>4

LEMMA MaxIs ==
  ASSUME NEW n \in Nat, NEW N, N \subseteq 0..n, N # {}
  PROVE  Max(N) \in N /\ \A m \in N : m <= Max(N)
<1>1. \E g \in N : \A m \in N : g >= m
  <2>1. PICK g \in N : \A m \in N : m <= g
    BY GreatestPlace
  <2>2. \A m \in N : m \in Int /\ g \in Int
    OBVIOUS
  <2> QED
    BY <2>1, <2>2
<1>2. Max(N) \in N /\ \A m \in N : Max(N) >= m
  BY <1>1 DEF Max
<1>3. \A m \in N : m \in Int
  OBVIOUS
<1> QED
  BY <1>2, <1>3

LEMMA FindIs ==
  ASSUME NEW S, NEW text \in Seq(S), NEW c
  PROVE  /\ Find(text, c) \in 0..Len(text)
         /\ Find(text, c) = 0 => \A i \in 1..Len(text) : text[i] # c
         /\ Find(text, c) # 0 => /\ text[Find(text, c)] = c
                                 /\ \A i \in 1..Find(text, c) - 1 : text[i] # c
<1> DEFINE I == {i \in 1..Len(text) : text[i] = c}
<1>1. Find(text, c) = IF I # {} THEN Min(I) ELSE 0
  BY DEF Find, SelectInSeq
<1>2. Len(text) \in Nat
  BY LenProperties
<1>3. CASE I = {}
  BY <1>1, <1>2, <1>3
<1>4. CASE I # {}
  <2>0. I \subseteq Nat
    BY <1>2
  <2>1. Min(I) \in I /\ \A i \in I : Min(I) <= i
    BY <2>0, <1>4, MinIs
  <2>2. Find(text, c) = Min(I) /\ Min(I) \in 1..Len(text) /\ text[Min(I)] = c
    BY <1>1, <1>4, <2>1
  <2>3. ASSUME NEW i \in 1..Min(I) - 1 PROVE text[i] # c
    BY <1>2, <2>1, <2>2
  <2> QED
    BY <1>2, <2>2, <2>3
<1> QED
  BY <1>3, <1>4

\* The first place is the only one with none before it.
LEMMA FindAt ==
  ASSUME NEW S, NEW text \in Seq(S), NEW c, NEW k \in 1..Len(text), text[k] = c,
         \A i \in 1..k - 1 : text[i] # c
  PROVE  Find(text, c) = k
<1>1. Len(text) \in Nat
  BY LenProperties
<1>2. Find(text, c) # 0
  BY FindIs
<1>3. /\ Find(text, c) \in 1..Len(text) /\ text[Find(text, c)] = c
      /\ \A i \in 1..Find(text, c) - 1 : text[i] # c
  BY <1>1, <1>2, FindIs
<1> QED
  BY <1>1, <1>3

-----------------------------------------------------------------------------
(* What the parser finds.                                                  *)

LEMMA PartType ==
  ASSUME NEW S, NEW s \in Seq(S), NEW m \in Nat \ {0}, NEW n \in Int, n <= Len(s)
  PROVE  /\ SubSeq(s, m, n) \in Seq(S)
         /\ Len(SubSeq(s, m, n)) = IF m <= n THEN n - m + 1 ELSE 0
         /\ \A i \in 1..n - m + 1 : SubSeq(s, m, n)[i] = s[m + i - 1]
OBVIOUS

LEMMA WordsType ==
  ASSUME NEW S, NEW text \in Seq(S)
  PROVE  /\ DOMAIN Words(text) \subseteq 1..Len(text) + 1
         /\ \A i \in DOMAIN Words(text) : Words(text)[i] \in Seq(S)
<1> DEFINE starts == IF text = <<>> THEN {} ELSE {1} \cup {i + 2 : i \in Cuts(text)}
           stops(i) == {j \in Cuts(text) : j >= i} \cup {Len(text) + 1}
<1>1. Len(text) \in Nat
  BY LenProperties
<1>2. Cuts(text) \subseteq 1..Len(text) - 1
  BY DEF Cuts
<1>3. Words(text) = [i \in starts |-> SubSeq(text, i, Min(stops(i)) - 1)]
  BY DEF Words
<1>4. starts \subseteq 1..Len(text) + 1
  BY <1>1, <1>2
<1>5. ASSUME NEW i \in starts PROVE SubSeq(text, i, Min(stops(i)) - 1) \in Seq(S)
  <2>1. stops(i) \subseteq 1..Len(text) + 1 /\ stops(i) # {}
    BY <1>1, <1>2
  <2> DEFINE N == stops(i)
             n == Min(N) - 1
  <2>2. N \subseteq Nat /\ N # {}
    BY <1>1, <2>1
  <2>3. Min(N) \in N
    BY <2>2, MinIs
  <2>4. n \in Int /\ n <= Len(text)
    BY <1>1, <2>1, <2>3
  <2>5. i \in Nat \ {0}
    BY <1>1, <1>4
  <2> HIDE DEF N, n, starts
  <2>6. SubSeq(text, i, n) \in Seq(S)
    BY <2>4, <2>5, PartType
  <2> QED
    BY <2>6 DEF n, N
<1> HIDE DEF starts, stops
<1> QED
  BY <1>3, <1>4, <1>5

\* a field for every key, with the value of its last word
FieldsOf(words, fields) ==
  /\ DOMAIN fields = {Deref(Field(words[i])) : i \in DOMAIN words}
  /\ \A k \in DOMAIN fields :
       \E i \in DOMAIN words :
         /\ fields[k] = Value(words[i])
         /\ Deref(Field(words[i])) = k
         /\ \A j \in DOMAIN words : Deref(Field(words[j])) = k => j <= i

LEMMA FieldsAre ==
  ASSUME NEW n \in Nat, NEW words, DOMAIN words \subseteq 0..n
  PROVE  FieldsOf(words, Fields(words))
<1> DEFINE key(i) == Deref(Field(words[i]))
           last(k) == Max({i \in DOMAIN words : key(i) = k})
           keys == {key(i) : i \in DOMAIN words}
<1>1. Fields(words) = [k \in keys |-> Value(words[last(k)])]
  BY DEF Fields
<1>2. ASSUME NEW k \in keys
      PROVE  /\ last(k) \in DOMAIN words /\ key(last(k)) = k
             /\ \A j \in DOMAIN words : key(j) = k => j <= last(k)
  <2> DEFINE N == {j \in DOMAIN words : key(j) = k}
  <2>1. N \subseteq 0..n /\ N # {}
    OBVIOUS
  <2> HIDE DEF N
  <2>2. Max(N) \in N /\ \A m \in N : m <= Max(N)
    BY <2>1, MaxIs
  <2> QED
    BY <2>2 DEF N
<1>3. DOMAIN Fields(words) = keys
  BY <1>1
<1>4. \A k \in keys : Fields(words)[k] = Value(words[last(k)])
  BY <1>1
<1> HIDE DEF last
<1> QED
  BY <1>2, <1>3, <1>4 DEF FieldsOf

LEMMA ParseIsFields ==
  ASSUME NEW S, NEW value \in Seq(S), ~Throws(value), IsOk(Parse(value))
  PROVE  Deref(Parse(value)) = Fields(WordsOf(value))
<1> DEFINE words == WordsOf(value)
           rest  == SubSeq(value, Find(value, Blank) + 1, Len(value))
<1>1. IsOk(TypeOf(value))
  BY DEF Parse, IsOk, Err
<1>2. rest \in Seq(S)
  <2>1. Find(value, Blank) \in Nat /\ Len(value) \in Nat
    BY FindIs, LenProperties
  <2> DEFINE f == Find(value, Blank)
  <2>2. f + 1 \in Nat \ {0} /\ Len(value) \in Int /\ Len(value) <= Len(value)
    BY <2>1
  <2> HIDE DEF f
  <2>3. SubSeq(value, f + 1, Len(value)) \in Seq(S)
    BY <2>2, PartType
  <2> QED
    BY <2>3 DEF f
<1> HIDE DEF rest
<1>3. DOMAIN words \subseteq 1..Len(rest) + 1 /\ Len(rest) \in Nat
  BY <1>2, WordsType, LenProperties DEF WordsOf, rest
<1>4. Trouble(words) \subseteq Nat
  BY <1>3 DEF Trouble
<1> HIDE DEF words
<1>5. Trouble(words) = {}
  <2> SUFFICES ASSUME Trouble(words) # {} PROVE FALSE
    OBVIOUS
  <2>1. Min(Trouble(words)) \in Trouble(words)
    BY <1>4, MinIs
  <2>2. ~Bare(words[Min(Trouble(words))])
    BY <1>1 DEF Throws, words
  <2>3. ~IsOk(Field(words[Min(Trouble(words))]))
    BY <2>1, <2>2 DEF Trouble
  <2>4. Parse(value) = Err(Field(words[Min(Trouble(words))]).error)
    BY <1>1 DEF Parse, words
  <2> QED
    BY <2>3, <2>4 DEF IsOk, Err
<1> QED
  BY <1>1, <1>5 DEF Parse, words, Deref, Ok

-----------------------------------------------------------------------------
(* Digests.                                                                *)

Joined(a, b, c) == (a \o (<<Colon>> \o b)) \o (<<Colon>> \o c)

LEMMA FlattenThree ==
  ASSUME NEW S, NEW a \in Seq(S), NEW b \in Seq(S), NEW c \in Seq(S),
         NEW s, s = <<a, b, c>>
  PROVE  FlattenSeq(s) = (a \o b) \o c
<1> DEFINE T == Seq(S)
<1>1. <<>> \in Seq(T) /\ <<a>> \in Seq(T) /\ <<a, b>> \in Seq(T)
  OBVIOUS
<1>2. <<a, b, c>> = Append(<<a, b>>, c) /\ <<a, b>> = Append(<<a>>, b)
      /\ <<a>> = Append(<<>>, a)
  OBVIOUS
<1>3. FlattenSeq(<<>>) = <<>>
  BY <1>1, FlattenIs
<1>4. FlattenSeq(Append(<<>>, a)) = <<>> \o a
  BY <1>1, <1>3, FlattenAppend
<1>5. <<>> \o a = a
  OBVIOUS
<1>6. FlattenSeq(<<a>>) = a
  BY <1>2, <1>4, <1>5
<1>7. FlattenSeq(Append(<<a>>, b)) = a \o b
  BY <1>1, <1>6, FlattenAppend
<1>8. FlattenSeq(<<a, b>>) = a \o b
  BY <1>2, <1>7
<1>9. FlattenSeq(Append(<<a, b>>, c)) = (a \o b) \o c
  BY <1>1, <1>8, FlattenAppend
<1> QED
  BY <1>2, <1>9

LEMMA JoinedType ==
  ASSUME NEW S, Colon \in S, NEW a \in Seq(S), NEW b \in Seq(S), NEW c \in Seq(S)
  PROVE  /\ <<Colon>> \o b \in Seq(S) /\ <<Colon>> \o c \in Seq(S)
         /\ Joined(a, b, c) \in Seq(S)
<1> DEFINE k == Colon
<1>1. k \in S
  OBVIOUS
<1> HIDE DEF k
<1>2. <<k>> \o b \in Seq(S) /\ <<k>> \o c \in Seq(S)
  BY <1>1
<1>3. (a \o (<<k>> \o b)) \o (<<k>> \o c) \in Seq(S)
  BY <1>2
<1> QED
  BY <1>2, <1>3 DEF Joined, k

LEMMA Md5Three ==
  ASSUME NEW S, Colon \in S, NEW a \in Seq(S), NEW b \in Seq(S), NEW c \in Seq(S)
  PROVE  Md5(<<a, b, c>>) = <<<<"md5", Joined(a, b, c)>>>>
<1> DEFINE p == <<a, b, c>>
           f == [i \in DOMAIN p |-> IF i = 1 THEN p[i] ELSE <<Colon>> \o p[i]]
<1>1. f = <<a, <<Colon>> \o b, <<Colon>> \o c>>
  OBVIOUS
<1>2. <<Colon>> \o b \in Seq(S) /\ <<Colon>> \o c \in Seq(S)
  BY JoinedType
<1> DEFINE x == <<Colon>> \o b
           y == <<Colon>> \o c
<1>3. x \in Seq(S) /\ y \in Seq(S)
  BY <1>2
<1>4. f = <<a, x, y>>
  BY <1>1
<1> HIDE DEF x, y, f
<1>5. FlattenSeq(f) = (a \o x) \o y
  BY <1>3, <1>4, FlattenThree
<1>6. FlattenSeq(f) = Joined(a, b, c)
  BY <1>5 DEF Joined, x, y
<1> QED
  BY <1>6 DEF Md5, WithColons, f

\* a digest is one character, and two of them are equal when the texts are
LEMMA DigestChars ==
  /\ \A t : <<"md5", t>>[1] = "md5"
  /\ \A t, u : <<"md5", t>> = <<"md5", u>> => t = u
  /\ \A x, y : <<x>> = <<y>> => x = y
  /\ \A parts : \E t : Md5(parts) = <<<<"md5", t>>>>
  /\ \A t : <<"md5", t>> # Colon
BY DEF Md5, Colon

\* a text with a colon in it: what comes first
LEMMA JoinedHead ==
  ASSUME NEW S, Colon \in S, NEW a \in Seq(S), NEW b \in Seq(S), NEW c \in Seq(S)
  PROVE  /\ a = <<>> => Joined(a, b, c)[1] = Colon
         /\ a # <<>> => Joined(a, b, c)[1] = a[1]
<1> DEFINE k == Colon
<1>1. k \in S
  OBVIOUS
<1> HIDE DEF k
<1>2. /\ <<k>> \o b \in Seq(S) /\ (<<k>> \o b)[1] = k /\ Len(<<k>> \o b) >= 1
      /\ <<k>> \o c \in Seq(S)
  BY <1>1
<1> DEFINE x == <<k>> \o b
           y == <<k>> \o c
<1> HIDE DEF x, y
<1>3. x \in Seq(S) /\ y \in Seq(S) /\ x[1] = k /\ Len(x) >= 1
  BY <1>2 DEF x, y
<1>4. a = <<>> => ((a \o x) \o y)[1] = k
  BY <1>3
<1>5. a # <<>> => ((a \o x) \o y)[1] = a[1]
  BY <1>3
<1> QED
  BY <1>4, <1>5 DEF Joined, x, y, k

\* The digest that is asked for names the hash it was made from.
LEMMA ExpectedOnce ==
  ASSUME NEW S, NEW d, <<"md5", d>> \in S, Colon \in S,
         NEW a \in Seq(S), a = <<>> \/ \E e : a = <<<<"md5", e>>>>,
         NEW n \in Seq(S), NEW u, NEW m \in Seq(S), NEW v,
         Md5(<<Method, u>>) \in Seq(S), Md5(<<Method, v>>) \in Seq(S),
         Expected(<<<<"md5", d>>>>, n, u) = Expected(a, m, v)
  PROVE  a = <<<<"md5", d>>>>
<1> DEFINE h == <<<<"md5", d>>>>
           x == Md5(<<Method, u>>)
           y == Md5(<<Method, v>>)
<1>1. h \in Seq(S) /\ h # <<>> /\ h[1] = <<"md5", d>>
  OBVIOUS
<1>2. x \in Seq(S) /\ y \in Seq(S)
  OBVIOUS
<1>3. /\ Expected(h, n, u) = Md5(<<h, n, x>>) /\ Expected(a, m, v) = Md5(<<a, m, y>>)
      /\ Expected(h, n, u) = Expected(a, m, v)
  BY DEF Expected
<1> HIDE DEF x, y, h
<1>4. /\ Md5(<<h, n, x>>) = <<<<"md5", Joined(h, n, x)>>>>
      /\ Md5(<<a, m, y>>) = <<<<"md5", Joined(a, m, y)>>>>
  BY <1>1, <1>2, Md5Three
<1>5. Joined(h, n, x) = Joined(a, m, y)
  <2>1. <<<<"md5", Joined(h, n, x)>>>> = <<<<"md5", Joined(a, m, y)>>>>
    BY <1>3, <1>4
  <2> DEFINE p == Joined(h, n, x)
             q == Joined(a, m, y)
  <2> HIDE DEF p, q
  <2>2. <<<<"md5", p>>>> = <<<<"md5", q>>>>
    BY <2>1 DEF p, q
  <2>3. p = q
    BY <2>2, DigestChars
  <2> QED
    BY <2>3 DEF p, q
<1>6. Joined(h, n, x)[1] = h[1]
  BY <1>1, <1>2, JoinedHead
<1>7. a # <<>>
  <2> SUFFICES ASSUME a = <<>> PROVE FALSE
    OBVIOUS
  <2>1. Joined(a, m, y)[1] = Colon
    BY <1>2, JoinedHead
  <2>2. <<"md5", d>> = Colon
    BY <1>1, <1>5, <1>6, <2>1
  <2> QED
    BY <2>2, DigestChars
<1>8. Joined(a, m, y)[1] = a[1]
  BY <1>2, <1>7, JoinedHead
<1>9. PICK e : a = <<<<"md5", e>>>>
  BY <1>7
<1>10. a[1] = <<"md5", d>>
  BY <1>1, <1>5, <1>6, <1>8
<1> QED
  BY <1>9, <1>10 DEF h

-----------------------------------------------------------------------------
(* Names and realms without colons can be told from the text that is hashed. *)

NoColon(t) == \A i \in 1..Len(t) : t[i] # Colon

\* a name, a mark and what follows, all of them of characters in S
Marked(S, m, a, x) ==
  /\ a \o (m \o x) \in Seq(S)
  /\ Len(a) \in Nat /\ Len(x) \in Nat
  /\ Len(a \o (m \o x)) = Len(a) + 1 + Len(x)
  /\ \A i \in 1..Len(a) : (a \o (m \o x))[i] = a[i]
  /\ (a \o (m \o x))[Len(a) + 1] = m[1]
  /\ \A i \in 1..Len(x) : (a \o (m \o x))[Len(a) + 1 + i] = x[i]

LEMMA MarkedText ==
  ASSUME NEW S, NEW m \in Seq(S), Len(m) = 1, NEW a \in Seq(S), NEW x \in Seq(S)
  PROVE  Marked(S, m, a, x)
<1> DEFINE y == m \o x
<1>1. /\ y \in Seq(S) /\ Len(y) = 1 + Len(x) /\ y[1] = m[1]
      /\ \A i \in 1..Len(x) : y[1 + i] = x[i]
  <2>1. /\ y \in Seq(S) /\ Len(y) = Len(m) + Len(x) /\ Len(x) \in Nat
        /\ \A i \in 1..Len(m) + Len(x) : y[i] = IF i <= Len(m) THEN m[i] ELSE x[i - Len(m)]
    BY ConcatProperties, LenProperties
  <2> HIDE DEF y
  <2>2. y[1] = m[1]
    BY <2>1
  <2>3. ASSUME NEW i \in 1..Len(x) PROVE y[1 + i] = x[i]
    <3>1. /\ 1 + i \in 1..Len(m) + Len(x) /\ ~(1 + i <= Len(m))
          /\ (1 + i) - Len(m) = i
      BY <2>1
    <3> QED
      BY <2>1, <3>1
  <2> QED
    BY <2>1, <2>2, <2>3
<1> HIDE DEF y
<1>2. Len(a) \in Nat /\ Len(x) \in Nat
  BY LenProperties
<1>3. /\ a \o y \in Seq(S) /\ Len(a \o y) = Len(a) + Len(y)
      /\ \A i \in 1..Len(a) : (a \o y)[i] = a[i]
      /\ \A i \in 1..Len(y) : (a \o y)[Len(a) + i] = y[i]
  <2>1. y \in Seq(S)
    BY <1>1
  <2> QED
    BY ONLY a \in Seq(S), <2>1
<1>4. (a \o y)[Len(a) + 1] = m[1]
  BY <1>1, <1>2, <1>3
<1>5. ASSUME NEW i \in 1..Len(x) PROVE (a \o y)[Len(a) + 1 + i] = x[i]
  <2>1. 1 + i \in 1..Len(y) /\ Len(a) + (1 + i) = Len(a) + 1 + i
    BY <1>1, <1>2
  <2> QED
    BY <1>1, <1>3, <2>1
<1> QED
  BY <1>1, <1>2, <1>3, <1>4, <1>5 DEF y, Marked

LEMMA NotShorter ==
  ASSUME NEW S, NEW m \in Seq(S), Len(m) = 1, NEW a \in Seq(S), NEW x \in Seq(S),
         NEW b \in Seq(S), NEW y \in Seq(S), \A i \in 1..Len(b) : b[i] # m[1],
         a \o (m \o x) = b \o (m \o y)
  PROVE  Len(b) <= Len(a)
<1> DEFINE n == Len(a) + 1
           s == a \o (m \o x)
           t == b \o (m \o y)
<1>1. Len(a) \in Nat /\ Len(b) \in Nat /\ s[n] = m[1]
      /\ \A i \in 1..Len(b) : t[i] = b[i]
  <2>1. Marked(S, m, a, x) /\ Marked(S, m, b, y)
    BY MarkedText
  <2> QED
    BY <2>1 DEF Marked
<1>2. s = t
  OBVIOUS
<1> HIDE DEF s, t
<1> SUFFICES ASSUME Len(a) < Len(b) PROVE FALSE
  BY <1>1
<1>3. n \in 1..Len(b)
  BY <1>1
<1> HIDE DEF n
<1>4. t[n] = b[n] /\ b[n] # m[1]
  BY <1>1, <1>3
<1> QED
  BY <1>1, <1>2, <1>4

SameParts(S, m, a, x, b, y) == a = b /\ x = y

LEMMA Separated ==
  ASSUME NEW S, NEW m \in Seq(S), Len(m) = 1, NEW a \in Seq(S), NEW x \in Seq(S),
         NEW b \in Seq(S), NEW y \in Seq(S),
         \A i \in 1..Len(a) : a[i] # m[1], \A i \in 1..Len(b) : b[i] # m[1],
         a \o (m \o x) = b \o (m \o y)
  PROVE  SameParts(S, m, a, x, b, y)
<1>1. Marked(S, m, a, x) /\ Marked(S, m, b, y)
  BY MarkedText
<1> DEFINE s == a \o (m \o x)
           t == b \o (m \o y)
<1>2. Len(b) <= Len(a)
  BY NotShorter
<1>3. b \o (m \o y) = a \o (m \o x)
  OBVIOUS
<1>4. Len(a) <= Len(b)
  BY <1>3, NotShorter
<1>5. /\ Len(a) \in Nat /\ Len(x) \in Nat
      /\ Len(s) = Len(a) + 1 + Len(x)
      /\ \A i \in 1..Len(a) : s[i] = a[i]
      /\ \A i \in 1..Len(x) : s[Len(a) + 1 + i] = x[i]
  BY <1>1 DEF Marked
<1>6. /\ Len(b) \in Nat /\ Len(y) \in Nat
      /\ Len(t) = Len(b) + 1 + Len(y)
      /\ \A i \in 1..Len(b) : t[i] = b[i]
      /\ \A i \in 1..Len(y) : t[Len(b) + 1 + i] = y[i]
  BY <1>1 DEF Marked
<1>7. s = t
  OBVIOUS
<1> HIDE DEF s, t
<1>8. Len(a) = Len(b) /\ Len(x) = Len(y)
  BY <1>2, <1>4, <1>5, <1>6, <1>7
<1>9. \A i \in 1..Len(a) : a[i] = b[i]
  BY <1>5, <1>6, <1>7, <1>8
<1>10. \A i \in 1..Len(x) : x[i] = y[i]
  BY <1>5, <1>6, <1>7, <1>8
<1>11. a = b
  BY <1>8, <1>9, SeqEqual
<1>12. x = y
  BY <1>8, <1>10, SeqEqual
<1> QED
  BY <1>11, <1>12 DEF SameParts

JoinedBy(S, m, a, b, c) ==
  /\ b \o (m \o c) \in Seq(S)
  /\ Joined(a, b, c) = a \o (m \o (b \o (m \o c)))

LEMMA JoinedIs ==
  ASSUME NEW S, NEW m \in Seq(S), m = <<Colon>>,
         NEW a \in Seq(S), NEW b \in Seq(S), NEW c \in Seq(S)
  PROVE  JoinedBy(S, m, a, b, c)
<1> DEFINE y == m \o b
           z == m \o c
<1>1. y \in Seq(S) /\ z \in Seq(S) /\ b \o z \in Seq(S)
  OBVIOUS
<1>2. y \o z = m \o (b \o z)
  <2> HIDE DEF z
  <2> QED
    BY <1>1, ThreeParts
<1> HIDE DEF y, z
<1>3. (a \o y) \o z = a \o (y \o z)
  BY <1>1, ThreeParts
<1>4. (a \o y) \o z = Joined(a, b, c)
  BY DEF Joined, y, z
<1> QED
  BY <1>1, <1>2, <1>3, <1>4 DEF z, JoinedBy

\* Separated, of texts joined by colons
SameThree(S, u, r, p, v, q, w) == u = v /\ r = q /\ p = w

LEMMA JoinedOnce ==
  ASSUME NEW S, NEW m \in Seq(S), m = <<Colon>>,
         NEW u \in Seq(S), NEW r \in Seq(S), NEW p \in Seq(S),
         NEW v \in Seq(S), NEW q \in Seq(S), NEW w \in Seq(S),
         NoColon(u), NoColon(v), NoColon(r), NoColon(q),
         Joined(u, r, p) = Joined(v, q, w)
  PROVE  SameThree(S, u, r, p, v, q, w)
<1> DEFINE x == r \o (m \o p)
           y == q \o (m \o w)
<1>1. Len(m) = 1 /\ m[1] = Colon
  OBVIOUS
<1>2. JoinedBy(S, m, u, r, p) /\ JoinedBy(S, m, v, q, w)
  BY JoinedIs
<1>3. x \in Seq(S) /\ Joined(u, r, p) = u \o (m \o x)
  BY <1>2 DEF JoinedBy
<1>4. y \in Seq(S) /\ Joined(v, q, w) = v \o (m \o y)
  BY <1>2 DEF JoinedBy
<1>5. /\ \A i \in 1..Len(u) : u[i] # m[1]
      /\ \A i \in 1..Len(v) : v[i] # m[1]
      /\ \A i \in 1..Len(r) : r[i] # m[1]
      /\ \A i \in 1..Len(q) : q[i] # m[1]
  BY <1>1 DEF NoColon
<1>6. u = v /\ x = y
  <2> HIDE DEF x, y
  <2>1. u \o (m \o x) = v \o (m \o y)
    BY <1>3, <1>4
  <2> QED
    <3>1. SameParts(S, m, u, x, v, y)
      BY <1>1, <1>3, <1>4, <1>5, <2>1, Separated
    <3> QED
      BY <3>1 DEF SameParts
<1>7. r = q /\ p = w
  <2>1. SameParts(S, m, r, p, q, w)
    BY <1>1, <1>5, <1>6, Separated
  <2> QED
    BY <2>1 DEF SameParts
<1> QED
  BY <1>6, <1>7 DEF SameThree

\* what a run of wspasswd may hash
Hashed == [user : Users, realm : Realms, pass : Seq(Letters)]

NamesWithoutColons == \A t \in Users \cup Realms : NoColon(t)

LEMMA HashedTexts ==
  ASSUME NEW c \in Hashed, NEW S, Letters \subseteq S
  PROVE  /\ c.user \in Seq(S) /\ c.realm \in Seq(S) /\ c.pass \in Seq(S)
         /\ Seq(Letters) \subseteq Seq(S)
<1>1. Seq(Letters) \subseteq Seq(S)
  OBVIOUS
<1> QED
  BY <1>1, TextsAssumption DEF Hashed

LEMMA HashIs ==
  ASSUME NEW c \in Hashed
  PROVE  HA1(c) = <<<<"md5", Joined(c.user, c.realm, c.pass)>>>>
<1> DEFINE S == Letters \cup {Colon}
<1>1. /\ c.user \in Seq(S) /\ c.realm \in Seq(S) /\ c.pass \in Seq(S)
      /\ Colon \in S
  BY HashedTexts
<1> HIDE DEF S
<1> QED
  BY <1>1, Md5Three DEF HA1

LEMMA HashOnce ==
  ASSUME NamesWithoutColons, NEW c \in Hashed, NEW d \in Hashed, HA1(c) = HA1(d)
  PROVE  c = d
<1> DEFINE S == Letters \cup {Colon}
           m == <<Colon>>
<1>1. /\ c.user \in Seq(S) /\ c.realm \in Seq(S) /\ c.pass \in Seq(S)
      /\ d.user \in Seq(S) /\ d.realm \in Seq(S) /\ d.pass \in Seq(S)
      /\ m \in Seq(S) /\ m = <<Colon>>
  BY HashedTexts
<1>2. NoColon(c.user) /\ NoColon(d.user) /\ NoColon(c.realm) /\ NoColon(d.realm)
  BY DEF Hashed, NamesWithoutColons
<1> HIDE DEF S, m
<1>3. Joined(c.user, c.realm, c.pass) = Joined(d.user, d.realm, d.pass)
  <2> DEFINE p == Joined(c.user, c.realm, c.pass)
             q == Joined(d.user, d.realm, d.pass)
  <2>1. <<<<"md5", p>>>> = <<<<"md5", q>>>>
    BY HashIs
  <2> HIDE DEF p, q
  <2> QED
    BY <2>1, DigestChars DEF p, q
<1>4. c.user = d.user /\ c.realm = d.realm /\ c.pass = d.pass
  <2>1. SameThree(S, c.user, c.realm, c.pass, d.user, d.realm, d.pass)
    BY <1>1, <1>2, <1>3, JoinedOnce
  <2> QED
    BY <2>1 DEF SameThree
<1> QED
  BY <1>4 DEF Hashed

-----------------------------------------------------------------------------
(* Words: a text that begins with a word, and what follows ", ".           *)

WordSet(text) == {Words(text)[i] : i \in DOMAIN Words(text)}

Starts(text) == IF text = <<>> THEN {} ELSE {1} \cup {i + 2 : i \in Cuts(text)}

Stops(text, i) == {j \in Cuts(text) : j >= i} \cup {Len(text) + 1}

LEMMA WordsAre ==
  ASSUME NEW text
  PROVE  WordSet(text) = {SubSeq(text, i, Min(Stops(text, i)) - 1) : i \in Starts(text)}
<1>1. Words(text) = [i \in Starts(text) |-> SubSeq(text, i, Min(Stops(text, i)) - 1)]
  BY DEF Words, Starts, Stops
<1> QED
  BY <1>1 DEF WordSet

LEMMA MinAt ==
  ASSUME NEW N, N \subseteq Nat, NEW n \in N, \A m \in N : n <= m
  PROVE  Min(N) = n
<1>1. Min(N) \in N /\ \A m \in N : Min(N) <= m
  BY MinIs
<1>2. Min(N) <= n /\ n <= Min(N) /\ Min(N) \in Nat /\ n \in Nat
  BY <1>1
<1> QED
  BY <1>2

LEMMA StopIs ==
  ASSUME NEW S, NEW text \in Seq(S), NEW i \in Starts(text)
  PROVE  /\ Stops(text, i) \subseteq Nat
         /\ i \in 1..Len(text) + 1
         /\ Min(Stops(text, i)) \in Stops(text, i)
         /\ \A j \in Stops(text, i) : Min(Stops(text, i)) <= j
         /\ Min(Stops(text, i)) \in i..Len(text) + 1
<1>1. Len(text) \in Nat /\ Cuts(text) \subseteq 1..Len(text) - 1
  BY LenProperties DEF Cuts
<1>2. i \in 1..Len(text) + 1
  BY <1>1 DEF Starts
<1>3. /\ Stops(text, i) \subseteq i..Len(text) + 1 /\ Len(text) + 1 \in Stops(text, i)
      /\ Stops(text, i) \subseteq Nat
  BY <1>1, <1>2 DEF Stops
<1> DEFINE N == Stops(text, i)
<1> HIDE DEF N
<1>4. N \subseteq Nat /\ N # {} /\ N \subseteq i..Len(text) + 1
  BY <1>3 DEF N
<1>5. Min(N) \in N /\ \A j \in N : Min(N) <= j
  BY <1>4, MinIs
<1> QED
  BY <1>2, <1>4, <1>5 DEF N

\* a word alone
LEMMA OneWord ==
  ASSUME NEW S, NEW w \in Seq(S), w # <<>>, Cuts(w) = {}
  PROVE  WordSet(w) = {w}
<1>1. Starts(w) = {1} /\ Stops(w, 1) = {Len(w) + 1}
  BY DEF Starts, Stops
<1>2. Len(w) \in Nat
  BY LenProperties
<1> DEFINE n == Len(w) + 1
<1>3. Min({n}) = n
  <2>1. n \in Nat
    BY <1>2
  <2> HIDE DEF n
  <2>2. {n} \subseteq Nat /\ n \in {n} /\ \A m \in {n} : n <= m
    BY <2>1
  <2> QED
    BY <2>2, MinAt
<1>4. SubSeq(w, 1, n - 1) = w
  BY <1>2
<1>5. Min(Stops(w, 1)) = n
  BY <1>1, <1>3
<1> HIDE DEF n
<1>6. WordSet(w) = {SubSeq(w, 1, n - 1)}
  BY <1>1, <1>5, WordsAre
<1> QED
  BY <1>4, <1>6

Pair(cb) == /\ Len(cb) = 2 /\ cb[1] = Comma /\ cb[2] = Blank

\* w, ", " and what follows
Listed(S, w, cb, rest) ==
  LET t == w \o (cb \o rest)
      n == Len(w) IN
  /\ t \in Seq(S) /\ n \in Nat /\ Len(rest) \in Nat
  /\ Len(t) = n + 2 + Len(rest)
  /\ \A i \in 1..n : t[i] = w[i]
  /\ t[n + 1] = Comma /\ t[n + 2] = Blank
  /\ \A i \in 1..Len(rest) : t[n + 2 + i] = rest[i]

LEMMA ListedText ==
  ASSUME NEW S, NEW w \in Seq(S), NEW cb \in Seq(S), Pair(cb), NEW rest \in Seq(S)
  PROVE  Listed(S, w, cb, rest)
<1> DEFINE y == cb \o rest
           t == w \o y
           n == Len(w)
           r == Len(rest)
<1>1. n \in Nat /\ r \in Nat
  BY LenProperties
<1>2. /\ y \in Seq(S) /\ Len(y) = 2 + r
      /\ \A i \in 1..2 + r : y[i] = IF i <= 2 THEN cb[i] ELSE rest[i - 2]
  <2>1. Len(cb) = 2
    BY DEF Pair
  <2>2. /\ cb \o rest \in Seq(S) /\ Len(cb \o rest) = Len(cb) + Len(rest)
        /\ \A i \in 1..Len(cb) + Len(rest) :
             (cb \o rest)[i] = IF i <= Len(cb) THEN cb[i] ELSE rest[i - Len(cb)]
    BY ConcatProperties
  <2> QED
    BY <2>1, <2>2
<1> HIDE DEF y
<1>3. y[1] = Comma /\ y[2] = Blank
  BY <1>1, <1>2 DEF Pair
<1>4. ASSUME NEW i \in 1..r PROVE y[2 + i] = rest[i]
  <2>1. 2 + i \in 1..2 + r /\ ~(2 + i <= 2) /\ (2 + i) - 2 = i
    BY <1>1
  <2> QED
    BY <1>2, <2>1
<1>5. /\ t \in Seq(S) /\ Len(t) = n + Len(y)
      /\ \A i \in 1..n + Len(y) : t[i] = IF i <= n THEN w[i] ELSE y[i - n]
  BY <1>2, ConcatProperties
<1> HIDE DEF t, n, r
<1>6. \A i \in 1..n : t[i] = w[i]
  BY <1>1, <1>2, <1>5
<1>7. ASSUME NEW j \in 1..2 + r PROVE t[n + j] = y[j]
  <2>1. n + j \in 1..n + Len(y) /\ ~(n + j <= n) /\ (n + j) - n = j
    BY <1>1, <1>2
  <2> QED
    BY <1>5, <2>1
<1>8. t[n + 1] = Comma /\ t[n + 2] = Blank
  BY <1>1, <1>3, <1>7
<1>9. ASSUME NEW i \in 1..r PROVE t[n + 2 + i] = rest[i]
  <2>1. 2 + i \in 1..2 + r /\ n + (2 + i) = n + 2 + i
    BY <1>1
  <2>2. t[n + (2 + i)] = y[2 + i]
    BY <1>7, <2>1
  <2> QED
    BY <1>4, <2>1, <2>2
<1>10. Len(t) = n + 2 + r
  BY <1>1, <1>2, <1>5
<1> QED
  BY <1>1, <1>5, <1>6, <1>8, <1>9, <1>10 DEF Listed, t, y, n, r

\* where a text is cut behind a word that has no comma at its end
LEMMA CutsBehind ==
  ASSUME NEW S, NEW w \in Seq(S), NEW cb \in Seq(S), Pair(cb), NEW rest \in Seq(S),
         w # <<>>, w[Len(w)] # Comma, rest # <<>>,
         NEW i \in Len(w)..Len(w) + 1 + Len(rest)
  PROVE  i \in Cuts(w \o (cb \o rest))
           <=> i = Len(w) + 1 \/ \E j \in Cuts(rest) : i = Len(w) + 2 + j
<1> DEFINE t == w \o (cb \o rest)
           n == Len(w)
           r == Len(rest)
<1>1. /\ t \in Seq(S) /\ n \in Nat /\ r \in Nat /\ Len(t) = n + 2 + r
      /\ \A k \in 1..n : t[k] = w[k]
      /\ t[n + 1] = Comma /\ t[n + 2] = Blank
      /\ \A k \in 1..r : t[n + 2 + k] = rest[k]
  <2>1. Listed(S, w, cb, rest)
    BY ListedText
  <2> QED
    BY <2>1 DEF Listed
<1>2. n >= 1 /\ r >= 1
  BY EmptySeq, LenProperties
<1> HIDE DEF t
<1>3. Comma # Blank
  BY DEF Comma, Blank
<1>4. i \in Cuts(t) <=> i = n + 1 \/ \E j \in Cuts(rest) : i = n + 2 + j
  <2>0. i \in Cuts(t) <=> t[i] = Comma /\ t[i + 1] = Blank
    BY <1>1, <1>2 DEF Cuts
  <2>00. Cuts(rest) \subseteq 1..r - 1
    BY DEF Cuts
  <2>2. CASE i = n
    <3>1. t[i] = w[n]
      BY <1>1, <1>2, <2>2
    <3> QED
      BY <1>1, <2>0, <2>00, <2>2, <3>1
  <2>3. CASE i = n + 1
    <3>1. i + 1 = n + 2
      BY <1>1, <2>3
    <3> QED
      BY <1>1, <2>0, <2>3, <3>1
  <2>4. CASE i = n + 2
    <3>1. \A j \in Cuts(rest) : i # n + 2 + j
      BY <1>1, <2>00, <2>4
    <3> QED
      BY <1>1, <1>3, <2>0, <2>4, <3>1
  <2>5. CASE i > n + 2
    <3> DEFINE j == i - (n + 2)
    <3>1. j \in 1..r - 1 /\ j + 1 \in 1..r /\ j \in 1..r
          /\ i = n + 2 + j /\ i + 1 = n + 2 + (j + 1)
      BY <1>1, <2>5
    <3> HIDE DEF j
    <3>2. t[i] = rest[j] /\ t[i + 1] = rest[j + 1]
      BY <1>1, <3>1
    <3>3. i \in Cuts(t) <=> j \in Cuts(rest)
      BY <2>0, <3>1, <3>2 DEF Cuts
    <3>4. \A k \in Cuts(rest) : i = n + 2 + k => k = j
      BY <1>1, <2>00, <3>1
    <3> QED
      BY <1>1, <2>5, <3>1, <3>3, <3>4
  <2> QED
    BY <1>1, <2>2, <2>3, <2>4, <2>5
<1> QED
  BY <1>4 DEF t

\* and the words there: those of what follows
Behind(t, rest, m) ==
  \A s \in Starts(rest) :
    SubSeq(t, m + s, Min(Stops(t, m + s)) - 1) = SubSeq(rest, s, Min(Stops(rest, s)) - 1)

LEMMA WordBehind ==
  ASSUME NEW S, NEW w \in Seq(S), NEW cb \in Seq(S), Pair(cb), NEW rest \in Seq(S),
         w # <<>>, w[Len(w)] # Comma, rest # <<>>
  PROVE  Behind(w \o (cb \o rest), rest, Len(w) + 2)
<1> DEFINE t == w \o (cb \o rest)
           n == Len(w)
           r == Len(rest)
<1>1. /\ t \in Seq(S) /\ n \in Nat /\ r \in Nat /\ Len(t) = n + 2 + r
      /\ \A i \in 1..r : t[n + 2 + i] = rest[i]
  <2>1. Listed(S, w, cb, rest)
    BY ListedText
  <2> QED
    BY <2>1 DEF Listed
<1>5. Cuts(t) \subseteq 1..n + 1 + r /\ Cuts(rest) \subseteq 1..r - 1
  BY <1>1 DEF Cuts
<1>6. \A i \in n..n + 1 + r :
        i \in Cuts(t) <=> i = n + 1 \/ \E j \in Cuts(rest) : i = n + 2 + j
  BY CutsBehind
<1> HIDE DEF t
<1>11. ASSUME NEW s \in Starts(rest)
       PROVE  SubSeq(t, n + 2 + s, Min(Stops(t, n + 2 + s)) - 1)
                = SubSeq(rest, s, Min(Stops(rest, s)) - 1)
  <2> DEFINE e == Min(Stops(rest, s))
             N == Stops(t, n + 2 + s)
  <2>1. /\ s \in 1..r + 1 /\ e \in s..r + 1 /\ e \in Stops(rest, s)
        /\ \A j \in Stops(rest, s) : e <= j
        /\ Stops(rest, s) \subseteq Nat
    BY StopIs
  <2> HIDE DEF e
  <2>2. N = {n + 2 + j : j \in Stops(rest, s)}
    <3>1. \A j \in Cuts(rest) : j \in Nat /\ (n + 2 + j >= n + 2 + s <=> j >= s)
      BY <1>1, <1>5, <2>1
    <3>2. ~(n + 1 >= n + 2 + s) /\ Len(t) + 1 = n + 2 + (r + 1)
      BY <1>1, <2>1
    <3>3. {j \in Cuts(t) : j >= n + 2 + s} = {n + 2 + j : j \in {k \in Cuts(rest) : k >= s}}
      <4>1. \A j \in Cuts(t) : j >= n + 2 + s => j \in n..n + 1 + r
        BY <1>1, <1>5, <2>1
      <4>2. \A j \in Cuts(rest) : n + 2 + j \in n..n + 1 + r
        BY <1>1, <1>5
      <4>3. ASSUME NEW j \in Cuts(t), j >= n + 2 + s
            PROVE  j \in {n + 2 + k : k \in {l \in Cuts(rest) : l >= s}}
        <5>1. PICK k \in Cuts(rest) : j = n + 2 + k
          BY <1>6, <3>2, <4>1, <4>3
        <5> QED
          BY <3>1, <4>3, <5>1
      <4>4. ASSUME NEW k \in Cuts(rest), k >= s
            PROVE  n + 2 + k \in Cuts(t) /\ n + 2 + k >= n + 2 + s
        BY <1>6, <3>1, <4>2, <4>4
      <4> QED
        BY <4>3, <4>4
    <3>4. N = {n + 2 + j : j \in {k \in Cuts(rest) : k >= s}} \cup {n + 2 + (r + 1)}
      BY <3>2, <3>3 DEF Stops
    <3> QED
      BY <3>4 DEF Stops
  <2> HIDE DEF N
  <2>3. /\ N \subseteq Nat /\ n + 2 + e \in N
        /\ \A m \in N : n + 2 + e <= m
    BY <1>1, <2>1, <2>2
  <2>4. Min(N) = n + 2 + e
    BY <2>3, MinAt
  <2> DEFINE a == SubSeq(t, n + 2 + s, n + 2 + e - 1)
             b == SubSeq(rest, s, e - 1)
  <2>5. /\ n + 2 + s \in Nat \ {0} /\ n + 2 + e - 1 \in Int /\ n + 2 + e - 1 <= Len(t)
        /\ s \in Nat \ {0} /\ e - 1 \in Int /\ e - 1 <= r
    BY <1>1, <2>1
  <2> DEFINE p == n + 2 + s
             q == n + 2 + e - 1
             f == e - 1
  <2>6. /\ p \in Nat \ {0} /\ q \in Int /\ q <= Len(t)
        /\ f \in Int /\ f <= Len(rest) /\ s \in Nat \ {0}
        /\ q - p + 1 = f - s + 1 /\ f - s + 1 \in Nat
        /\ (p <= q <=> s <= f)
        /\ (~(s <= f) => f - s + 1 = 0)
    BY <1>1, <2>1, <2>5
  <2>7. \A i \in 1..f - s + 1 : /\ p + i - 1 = n + 2 + (s + i - 1)
                                /\ s + i - 1 \in 1..r
    BY <1>1, <2>1, <2>5
  <2> HIDE DEF p, q, f
  <2>8. /\ SubSeq(t, p, q) \in Seq(S)
        /\ Len(SubSeq(t, p, q)) = (IF p <= q THEN q - p + 1 ELSE 0)
        /\ \A i \in 1..q - p + 1 : SubSeq(t, p, q)[i] = t[p + i - 1]
    <3>1. t \in Seq(S)
      BY <1>1
    <3> QED
      BY <2>6, <3>1, PartType
  <2>9. /\ SubSeq(rest, s, f) \in Seq(S)
        /\ Len(SubSeq(rest, s, f)) = (IF s <= f THEN f - s + 1 ELSE 0)
        /\ \A i \in 1..f - s + 1 : SubSeq(rest, s, f)[i] = rest[s + i - 1]
    BY <2>6, PartType
  <2>10. SubSeq(t, p, q) = SubSeq(rest, s, f)
    <3> DEFINE x == SubSeq(t, p, q)
               y == SubSeq(rest, s, f)
    <3>1. Len(x) = f - s + 1 /\ Len(y) = f - s + 1
      BY <2>6, <2>8, <2>9
    <3>2. \A i \in 1..f - s + 1 : t[p + i - 1] = rest[s + i - 1]
      BY <1>1, <2>7
    <3>3. \A i \in 1..Len(x) : x[i] = y[i]
      BY <2>6, <2>8, <2>9, <3>1, <3>2
    <3>4. x \in Seq(S) /\ y \in Seq(S)
      BY <2>8, <2>9
    <3> HIDE DEF x, y
    <3>5. x = y
      BY <3>1, <3>3, <3>4, SeqEqual
    <3> QED
      BY <3>5 DEF x, y
  <2>11. Min(Stops(t, n + 2 + s)) - 1 = q
    <3>1. Min(Stops(t, n + 2 + s)) = n + 2 + e
      BY <2>4 DEF N
    <3> QED
      BY <1>1, <2>1, <3>1 DEF q
  <2>12. Min(Stops(rest, s)) - 1 = f
    BY DEF e, f
  <2>13. n + 2 + s = p
    BY DEF p
  <2> QED
    BY <2>10, <2>11, <2>12, <2>13
<1> QED
  BY <1>11 DEF Behind, t

\* split at the first ", "
LEMMA SplitFirst ==
  ASSUME NEW S, NEW w \in Seq(S), NEW cb \in Seq(S), Pair(cb), NEW rest \in Seq(S),
         w # <<>>, Cuts(w) = {}, w[Len(w)] # Comma, rest # <<>>
  PROVE  WordSet(w \o (cb \o rest)) = {w} \cup WordSet(rest)
<1> DEFINE t == w \o (cb \o rest)
           n == Len(w)
           r == Len(rest)
<1>1. /\ t \in Seq(S) /\ n \in Nat /\ r \in Nat /\ Len(t) = n + 2 + r
      /\ \A i \in 1..n : t[i] = w[i]
      /\ t[n + 1] = Comma /\ t[n + 2] = Blank
      /\ \A i \in 1..r : t[n + 2 + i] = rest[i]
  <2>1. Listed(S, w, cb, rest)
    BY ListedText
  <2> QED
    BY <2>1 DEF Listed
<1>2. n >= 1 /\ r >= 1
  BY EmptySeq, LenProperties
<1> HIDE DEF t
<1>3. Comma # Blank
  BY DEF Comma, Blank
<1>4. ASSUME NEW i \in 1..n + 1 + r
      PROVE  i \in Cuts(t) <=> i = n + 1 \/ \E j \in Cuts(rest) : i = n + 2 + j
  <2>0. i \in Cuts(t) <=> t[i] = Comma /\ t[i + 1] = Blank
    BY <1>1 DEF Cuts
  <2>00. Cuts(rest) \subseteq 1..r - 1
    BY DEF Cuts
  <2>1. CASE i < n
    <3>1. /\ i \in 1..n /\ i + 1 \in 1..n /\ i \in 1..n - 1
      BY <1>1, <2>1
    <3>2. t[i] = w[i] /\ t[i + 1] = w[i + 1]
      BY <1>1, <3>1
    <3>3. i \notin Cuts(t)
      BY <2>0, <3>1, <3>2 DEF Cuts
    <3> QED
      BY <1>1, <2>00, <2>1, <3>3
  <2>2. CASE i >= n
    <3>1. i \in n..n + 1 + r
      BY <1>1, <2>2
    <3> QED
      BY <3>1, CutsBehind DEF t
  <2> QED
    BY <1>1, <2>1, <2>2
<1>5. Cuts(t) \subseteq 1..n + 1 + r /\ Cuts(rest) \subseteq 1..r - 1
  BY <1>1 DEF Cuts
<1>6. Cuts(t) = {n + 1} \cup {n + 2 + j : j \in Cuts(rest)}
  <2>1. n + 1 \in 1..n + 1 + r /\ \A j \in Cuts(rest) : n + 2 + j \in 1..n + 1 + r
    BY <1>1, <1>5
  <2> QED
    BY <1>4, <1>5, <2>1
<1>7. t # <<>>
  BY <1>1, EmptySeq
<1>8. Starts(t) = {1} \cup {n + 2 + s : s \in Starts(rest)}
  <2> DEFINE R == {n + 2 + s : s \in Starts(rest)}
  <2>1. Starts(rest) = {1} \cup {j + 2 : j \in Cuts(rest)}
    BY DEF Starts
  <2>2. Starts(t) = {1} \cup {i + 2 : i \in Cuts(t)}
    BY <1>7 DEF Starts
  <2>3. ASSUME NEW i \in Cuts(t) PROVE i + 2 \in R
    <3>1. CASE i = n + 1
      <4>1. 1 \in Starts(rest) /\ i + 2 = n + 2 + 1
        BY <1>1, <2>1, <3>1
      <4> QED
        BY <4>1
    <3>2. ASSUME NEW j \in Cuts(rest), i = n + 2 + j PROVE i + 2 \in R
      <4>1. j + 2 \in Starts(rest)
        BY <2>1
      <4>2. i + 2 = n + 2 + (j + 2)
        BY <1>1, <1>5, <3>2
      <4> QED
        BY <4>1, <4>2
    <3> QED
      BY <1>6, <3>1, <3>2
  <2>4. ASSUME NEW s \in Starts(rest) PROVE n + 2 + s \in Starts(t)
    <3>1. CASE s = 1
      <4>1. n + 1 \in Cuts(t) /\ n + 2 + s = n + 1 + 2
        BY <1>1, <1>6, <3>1
      <4> QED
        BY <2>2, <4>1
    <3>2. ASSUME NEW j \in Cuts(rest), s = j + 2 PROVE n + 2 + s \in Starts(t)
      <4>1. n + 2 + j \in Cuts(t)
        BY <1>6
      <4>2. n + 2 + s = n + 2 + j + 2
        BY <1>1, <1>5, <3>2
      <4> QED
        BY <2>2, <4>1, <4>2
    <3> QED
      BY <2>1, <3>1, <3>2
  <2>5. Starts(t) \subseteq {1} \cup R
    BY <2>2, <2>3
  <2>6. {1} \cup R \subseteq Starts(t)
    BY <2>2, <2>4
  <2> HIDE DEF R
  <2>7. Starts(t) = {1} \cup R
    BY <2>5, <2>6
  <2> QED
    BY <2>7 DEF R
\* the first word
<1>9. Min(Stops(t, 1)) = n + 1
  <2> DEFINE N == Stops(t, 1)
  <2>1. n + 1 \in N /\ N \subseteq Nat /\ \A m \in N : n + 1 <= m
    <3>1. \A j \in Cuts(t) : j \in Nat /\ n + 1 <= j
      BY <1>1, <1>5, <1>6
    <3>2. n + 1 \in Cuts(t) /\ n + 1 >= 1
      BY <1>1, <1>6
    <3> QED
      BY <1>1, <3>1, <3>2 DEF Stops
  <2> HIDE DEF N
  <2>2. Min(N) = n + 1
    BY <2>1, MinAt
  <2> QED
    BY <2>2 DEF N
<1>10. SubSeq(t, 1, n) = w
  <2> DEFINE s == SubSeq(t, 1, n)
  <2>1. n \in Int /\ n <= Len(t) /\ 1 \in Nat \ {0}
    BY <1>1
  <2>2. /\ s \in Seq(S) /\ Len(s) = (IF 1 <= n THEN n - 1 + 1 ELSE 0)
        /\ \A i \in 1..n - 1 + 1 : s[i] = t[1 + i - 1]
    BY <1>1, <2>1, PartType
  <2> HIDE DEF s
  <2>3. Len(s) = n /\ \A i \in 1..n : s[i] = t[1 + i - 1] /\ 1 + i - 1 = i
    BY <1>1, <1>2, <2>2
  <2>4. \A i \in 1..Len(s) : s[i] = w[i]
    BY <1>1, <2>3
  <2>5. s = w
    BY <2>2, <2>3, <2>4, SeqEqual
  <2> QED
    BY <2>5 DEF s
\* the words of what follows
<1>11. \A s \in Starts(rest) :
         SubSeq(t, n + 2 + s, Min(Stops(t, n + 2 + s)) - 1)
           = SubSeq(rest, s, Min(Stops(rest, s)) - 1)
  <2>1. Behind(t, rest, n + 2)
    BY WordBehind DEF t
  <2> QED
    BY <2>1 DEF Behind
<1>12. WordSet(t) = {SubSeq(t, i, Min(Stops(t, i)) - 1) : i \in Starts(t)}
  BY WordsAre
<1>13. WordSet(rest) = {SubSeq(rest, s, Min(Stops(rest, s)) - 1) : s \in Starts(rest)}
  BY WordsAre
<1>14. SubSeq(t, 1, Min(Stops(t, 1)) - 1) = w
  <2>1. n + 1 - 1 = n
    BY <1>1
  <2> QED
    BY <1>9, <1>10, <2>1
<1> DEFINE A(i) == SubSeq(t, i, Min(Stops(t, i)) - 1)
           B(s) == SubSeq(rest, s, Min(Stops(rest, s)) - 1)
<1>15. \A s \in Starts(rest) : A(n + 2 + s) = B(s)
  BY <1>11
<1>16. /\ WordSet(t) = {A(i) : i \in Starts(t)} /\ A(1) = w
       /\ WordSet(rest) = {B(s) : s \in Starts(rest)}
  BY <1>12, <1>13, <1>14
<1> HIDE DEF A, B
<1>17. WordSet(t) = {w} \cup WordSet(rest)
  BY <1>8, <1>15, <1>16
<1> QED
  BY <1>17 DEF t

\* whatever words came first, those behind them are the words of what follows
Tailed(words, rest, m) ==
  /\ \A s \in DOMAIN rest : m + s \in DOMAIN words /\ words[m + s] = rest[s]
  /\ \A i \in DOMAIN words : i > m => \E s \in DOMAIN rest : i = m + s

LEMMA TailWords ==
  ASSUME NEW S, NEW w \in Seq(S), NEW cb \in Seq(S), Pair(cb), NEW rest \in Seq(S),
         w # <<>>, w[Len(w)] # Comma, rest # <<>>
  PROVE  Tailed(Words(w \o (cb \o rest)), Words(rest), Len(w) + 2)
<1> DEFINE t == w \o (cb \o rest)
           n == Len(w)
           r == Len(rest)
           A(i) == SubSeq(t, i, Min(Stops(t, i)) - 1)
           B(s) == SubSeq(rest, s, Min(Stops(rest, s)) - 1)
<1>1. Words(t) = [i \in Starts(t) |-> A(i)] /\ Words(rest) = [s \in Starts(rest) |-> B(s)]
  BY DEF Words, Starts, Stops
<1>2. \A s \in Starts(rest) : A(n + 2 + s) = B(s)
  <2>1. Behind(t, rest, n + 2)
    BY WordBehind
  <2> HIDE DEF t, n
  <2> QED
    BY <2>1 DEF Behind
<1>3. \A i \in n..n + 1 + r :
        i \in Cuts(t) <=> i = n + 1 \/ \E j \in Cuts(rest) : i = n + 2 + j
  BY CutsBehind
<1>4. t \in Seq(S) /\ n \in Nat /\ r \in Nat /\ Len(t) = n + 2 + r
  <2>1. Listed(S, w, cb, rest)
    BY ListedText
  <2> QED
    BY <2>1 DEF Listed
<1> HIDE DEF A, B, t, n, r
<1>5. t # <<>> /\ n + 2 \in Nat
  BY <1>4, EmptySeq
<1>6. Cuts(t) \subseteq 1..n + 1 + r /\ Cuts(rest) \subseteq 1..r - 1
  BY <1>4 DEF Cuts, r
<1>7. /\ Starts(t) = {1} \cup {i + 2 : i \in Cuts(t)}
      /\ Starts(rest) = {1} \cup {j + 2 : j \in Cuts(rest)}
  BY <1>5 DEF Starts
<1>8. ASSUME NEW s \in Starts(rest) PROVE n + 2 + s \in Starts(t)
  <2>1. CASE s = 1
    <3>1. n + 1 \in n..n + 1 + r /\ n + 2 + s = n + 1 + 2
      BY <1>4, <2>1
    <3> QED
      BY <1>3, <1>7, <3>1
  <2>2. ASSUME NEW j \in Cuts(rest), s = j + 2 PROVE n + 2 + s \in Starts(t)
    <3>1. j \in 1..r - 1 /\ s = j + 2
      BY <1>6, <2>2
    <3>2. n + 2 + j \in n..n + 1 + r /\ n + 2 + s = n + 2 + j + 2
      BY <1>4, <3>1
    <3> QED
      BY <1>3, <1>7, <3>2
  <2> QED
    BY <1>7, <2>1, <2>2
<1>9. ASSUME NEW i \in Starts(t), i > n + 2
      PROVE  \E s \in Starts(rest) : i = n + 2 + s
  <2>1. PICK c \in Cuts(t) : i = c + 2
    BY <1>4, <1>7, <1>9
  <2>2. c \in n..n + 1 + r
    BY <1>4, <1>6, <1>9, <2>1
  <2>3. CASE c = n + 1
    <3>1. i = n + 2 + 1
      BY <1>4, <2>1, <2>3
    <3> QED
      BY <1>7, <3>1
  <2>4. ASSUME NEW j \in Cuts(rest), c = n + 2 + j
        PROVE  \E s \in Starts(rest) : i = n + 2 + s
    <3>1. i = n + 2 + (j + 2)
      BY <1>4, <1>6, <2>1, <2>4
    <3> QED
      BY <1>7, <3>1
  <2> QED
    BY <1>3, <2>2, <2>3, <2>4
<1>10. Tailed(Words(t), Words(rest), n + 2)
  BY <1>1, <1>2, <1>8, <1>9 DEF Tailed
<1> QED
  BY <1>10 DEF t, n

\* Of two fields with one key the later one is kept: those behind win.
LEMMA TailFields ==
  ASSUME NEW l \in Nat, NEW words, DOMAIN words \subseteq 0..l,
         NEW rest, DOMAIN rest \subseteq 1..l,
         NEW m \in Nat, Tailed(words, rest, m), NEW k \in DOMAIN Fields(rest)
  PROVE  k \in DOMAIN Fields(words) /\ Fields(words)[k] = Fields(rest)[k]
<1> DEFINE Key(w) == Deref(Field(w))
<1>1. FieldsOf(words, Fields(words)) /\ FieldsOf(rest, Fields(rest))
  <2>1. DOMAIN rest \subseteq 0..l
    OBVIOUS
  <2> QED
    BY <2>1, FieldsAre
<1>2. PICK s \in DOMAIN rest :
        /\ Fields(rest)[k] = Value(rest[s]) /\ Key(rest[s]) = k
        /\ \A j \in DOMAIN rest : Key(rest[j]) = k => j <= s
  BY <1>1 DEF FieldsOf
<1>3. m + s \in DOMAIN words /\ words[m + s] = rest[s]
  BY DEF Tailed
<1>4. k \in DOMAIN Fields(words)
  BY <1>1, <1>2, <1>3 DEF FieldsOf
<1>5. PICK i \in DOMAIN words :
        /\ Fields(words)[k] = Value(words[i]) /\ Key(words[i]) = k
        /\ \A j \in DOMAIN words : Key(words[j]) = k => j <= i
  BY <1>1, <1>4 DEF FieldsOf
<1> HIDE DEF Key
<1>6. s \in Nat /\ s >= 1 /\ i \in Nat
  OBVIOUS
<1>7. m + s <= i
  BY <1>2, <1>3, <1>5
<1>8. i > m
  BY <1>6, <1>7
<1>9. PICK j \in DOMAIN rest : i = m + j
  BY <1>8 DEF Tailed
<1>10. words[i] = rest[j]
  BY <1>9 DEF Tailed
<1>11. j <= s /\ j \in Nat
  BY <1>2, <1>5, <1>10
<1>12. i = m + s
  BY <1>6, <1>7, <1>9, <1>11
<1> QED
  BY <1>2, <1>3, <1>4, <1>5, <1>12

-----------------------------------------------------------------------------
(* A field in quotes is one word, and its value what is in the quotes.     *)

Block(S, key, v) ==
  LET q == Quoted(key, v) IN
  /\ q \in Seq(S) /\ Len(v) \in Nat /\ Len(q) = Len(v) + 4
  /\ q[1] = <<key>> /\ q[2] = Equals /\ q[3] = Quote /\ q[Len(v) + 4] = Quote
  /\ \A i \in 1..Len(v) : q[3 + i] = v[i]

LEMMA ThreeChars ==
  ASSUME NEW S, NEW a \in S, NEW b \in S, NEW c \in S, NEW h, h = <<a, b, c>>
  PROVE  h \in Seq(S) /\ Len(h) = 3 /\ h[1] = a /\ h[2] = b /\ h[3] = c
OBVIOUS

LEMMA QuotedText ==
  ASSUME NEW S, NEW key, <<key>> \in S, Equals \in S, Quote \in S, NEW v \in Seq(S)
  PROVE  Block(S, key, v)
<1> DEFINE h == <<<<key>>, Equals, Quote>>
           e == <<Quote>>
           x == h \o v
           q == x \o e
           n == Len(v)
<1>1. h \in Seq(S) /\ Len(h) = 3 /\ h[1] = <<key>> /\ h[2] = Equals /\ h[3] = Quote
  BY ThreeChars
<1>2. e \in Seq(S) /\ Len(e) = 1 /\ e[1] = Quote
  <2> DEFINE k == Quote
  <2>1. k \in S
    OBVIOUS
  <2> HIDE DEF k
  <2>2. <<k>> \in Seq(S) /\ Len(<<k>>) = 1 /\ <<k>>[1] = k
    BY <2>1
  <2> QED
    BY <2>2 DEF k
<1>3. n \in Nat
  BY LenProperties
<1>4. Quoted(key, v) = q
  BY DEF Quoted
<1> HIDE DEF h, e
<1>5. /\ x \in Seq(S) /\ Len(x) = Len(h) + Len(v)
      /\ \A i \in 1..Len(h) + Len(v) : x[i] = IF i <= Len(h) THEN h[i] ELSE v[i - Len(h)]
  BY <1>1, ConcatProperties
<1> HIDE DEF x
<1>6. /\ q \in Seq(S) /\ Len(q) = Len(x) + Len(e)
      /\ \A i \in 1..Len(x) + Len(e) : q[i] = IF i <= Len(x) THEN x[i] ELSE e[i - Len(x)]
  <2>1. x \in Seq(S) /\ e \in Seq(S)
    BY <1>2, <1>5
  <2> QED
    BY ONLY <2>1, ConcatProperties
<1> HIDE DEF q, n
<1>7. Len(x) = 3 + n /\ Len(q) = n + 4
  BY <1>1, <1>2, <1>3, <1>5, <1>6 DEF n
<1>8. \A i \in 1..3 : q[i] = h[i]
  <2>1. \A i \in 1..3 : i \in 1..Len(h) + Len(v) /\ i <= Len(h) /\ i <= Len(x)
                        /\ i \in 1..Len(x) + Len(e)
    BY <1>1, <1>2, <1>3, <1>7 DEF n
  <2> QED
    BY <1>5, <1>6, <2>1
<1>9. ASSUME NEW i \in 1..n PROVE q[3 + i] = v[i]
  <2>1. /\ 3 + i \in 1..Len(h) + Len(v) /\ ~(3 + i <= Len(h)) /\ 3 + i <= Len(x)
        /\ 3 + i \in 1..Len(x) + Len(e) /\ (3 + i) - Len(h) = i
    BY <1>1, <1>2, <1>3, <1>7 DEF n
  <2> QED
    BY <1>5, <1>6, <2>1
<1>10. q[n + 4] = Quote
  <2>1. /\ n + 4 \in 1..Len(x) + Len(e) /\ ~(n + 4 <= Len(x)) /\ (n + 4) - Len(x) = 1
    BY <1>2, <1>3, <1>7
  <2> QED
    BY <1>2, <1>6, <2>1
<1>11. q[1] = <<key>> /\ q[2] = Equals /\ q[3] = Quote
  BY <1>1, <1>8
<1> QED
  BY <1>3, <1>4, <1>6, <1>7, <1>9, <1>10, <1>11 DEF Block, n

LEMMA MarksDiffer ==
  /\ \A key \in Keys : <<key>> # Equals /\ <<key>> # Comma /\ <<key>> # Blank
  /\ Quote # Comma /\ Quote # Blank /\ Equals # Comma /\ Equals # Blank
  /\ Comma # Blank /\ Quote # Equals
BY DEF Keys, Equals, Comma, Blank, Quote

\* what the loop makes of it
Stored(S, key, v) ==
  LET q == Quoted(key, v) IN
  /\ q \in Seq(S) /\ q # <<>> /\ q[Len(q)] # Comma
  /\ Cuts(v) = {} => Cuts(q) = {}
  /\ IsOk(Field(q)) /\ Deref(Field(q)) = key /\ ~Bare(q) /\ Value(q) = v

LEMMA QuotedField ==
  ASSUME NEW S, NEW key \in Keys, <<key>> \in S, Equals \in S, Quote \in S, NEW v \in Seq(S)
  PROVE  Stored(S, key, v)
<1> DEFINE q == Quoted(key, v)
           n == Len(v)
<1>1. /\ q \in Seq(S) /\ n \in Nat /\ Len(q) = n + 4
      /\ q[1] = <<key>> /\ q[2] = Equals /\ q[3] = Quote /\ q[n + 4] = Quote
      /\ \A i \in 1..n : q[3 + i] = v[i]
  <2>1. Block(S, key, v)
    BY QuotedText
  <2> QED
    BY <2>1 DEF Block
<1> HIDE DEF q
<1>2. q # <<>> /\ q[Len(q)] # Comma
  BY <1>1, EmptySeq, MarksDiffer
<1>3. ASSUME Cuts(v) = {} PROVE Cuts(q) = {}
  <2> SUFFICES ASSUME NEW i \in 1..n + 3, q[i] = Comma, q[i + 1] = Blank PROVE FALSE
    BY <1>1 DEF Cuts
  <2>1. i \notin {1, 2, 3}
    BY <1>1, MarksDiffer
  <2>2. i + 1 # n + 4
    BY <1>1, MarksDiffer
  <2> DEFINE j == i - 3
  <2>3. j \in 1..n - 1 /\ j \in 1..n /\ j + 1 \in 1..n /\ i = 3 + j /\ i + 1 = 3 + (j + 1)
    BY <1>1, <2>1, <2>2
  <2> HIDE DEF j
  <2>4. v[j] = Comma /\ v[j + 1] = Blank
    BY <1>1, <2>3
  <2> QED
    BY <1>3, <2>3, <2>4 DEF Cuts
<1>4. Find(q, Equals) = 2
  <2>1. /\ 2 \in 1..Len(q) /\ q[2] = Equals /\ \A i \in 1..2 - 1 : q[i] # Equals
    <3>1. \A i \in 1..2 - 1 : i = 1
      OBVIOUS
    <3> QED
      BY <1>1, <3>1, MarksDiffer
  <2> QED
    BY <1>1, <2>1, FindAt
<1>5. SubSeq(q, 1, 1) = <<<<key>>>>
  <2>1. /\ SubSeq(q, 1, 1) \in Seq(S) /\ Len(SubSeq(q, 1, 1)) = 1
        /\ SubSeq(q, 1, 1)[1] = q[1]
    BY <1>1
  <2> DEFINE s == SubSeq(q, 1, 1)
             k == <<key>>
  <2>2. s \in Seq(S) /\ Len(s) = 1 /\ s[1] = k /\ k \in S
    BY <1>1, <2>1
  <2> HIDE DEF s, k
  <2>3. s = <<k>>
    BY <2>2
  <2> QED
    BY <2>3 DEF s, k
<1>6. Field(q) = Ok(key)
  <2>1. Field(q) = FieldKey(<<<<key>>>>)
    <3>1. Find(q, Equals) # 0 /\ Find(q, Equals) - 1 = 1
      BY <1>4
    <3>2. Field(q) = FieldKey(SubSeq(q, 1, Find(q, Equals) - 1))
      BY <3>1 DEF Field
    <3> QED
      BY <1>5, <3>1, <3>2
  <2>2. <<<<key>>>>[1][1] = key
    OBVIOUS
  <2> QED
    BY <2>1, <2>2 DEF FieldKey
<1>7. IsOk(Field(q)) /\ Deref(Field(q)) = key
  BY <1>6 DEF Ok, IsOk, Deref
<1>8. ~Bare(q)
  BY <1>1, <1>4 DEF Bare
<1>9. Value(q) = v
  <2> DEFINE m == n + 3
             s == SubSeq(q, 4, m)
  <2>1. 2 + 2 = 4 /\ Len(q) - 1 = m
    BY <1>1
  <2>2. Value(q) = s
    BY <1>4, <2>1 DEF Value
  <2>3. /\ m \in Int /\ m <= Len(q) /\ 4 \in Nat \ {0} /\ m - 4 + 1 = n
        /\ (4 <= m <=> n # 0)
    BY <1>1
  <2> HIDE DEF m
  <2>4. /\ s \in Seq(S) /\ Len(s) = (IF 4 <= m THEN m - 4 + 1 ELSE 0)
        /\ \A i \in 1..m - 4 + 1 : s[i] = q[4 + i - 1]
    BY <1>1, <2>3, PartType
  <2> HIDE DEF s
  <2>5. Len(s) = n
    BY <1>1, <2>3, <2>4
  <2>6. \A i \in 1..n : s[i] = q[3 + i]
    <3>1. \A i \in 1..n : 4 + i - 1 = 3 + i
      BY <1>1
    <3> QED
      BY <2>3, <2>4, <3>1
  <2>7. \A i \in 1..Len(s) : s[i] = v[i]
    BY <1>1, <2>5, <2>6
  <2>8. s = v
    BY <2>4, <2>5, <2>7, SeqEqual
  <2> QED
    BY <2>2, <2>8
<1> QED
  BY <1>1, <1>2, <1>3, <1>7, <1>8, <1>9 DEF Stored, q

-----------------------------------------------------------------------------
(* Quotes are escaped, and no ", " comes or goes by it.                    *)

LEMMA NoCutIn ==
  ASSUME NEW S, NEW a \in Seq(S), NEW z \in Seq(S), z # <<>>, Cuts(a) = {}, Cuts(z) = {},
         a # <<>> => ~(a[Len(a)] = Comma /\ z[1] = Blank)
  PROVE  Cuts(a \o z) = {}
<1> DEFINE t == a \o z
           n == Len(a)
           l == Len(z)
<1>1. /\ n \in Nat /\ l \in Nat /\ l >= 1 /\ (a = <<>> => n = 0) /\ Len(t) = n + l
      /\ \A i \in 1..n + l : t[i] = IF i <= n THEN a[i] ELSE z[i - n]
  <2>1. /\ n \in Nat /\ l \in Nat /\ (l = 0 <=> z = <<>>) /\ (n = 0 <=> a = <<>>)
    BY LenProperties, EmptySeq
  <2>2. /\ Len(t) = n + l
        /\ \A i \in 1..n + l : t[i] = IF i <= n THEN a[i] ELSE z[i - n]
    BY ConcatProperties
  <2> HIDE DEF n, l, t
  <2> QED
    BY <2>1, <2>2
<1> HIDE DEF t
<1> SUFFICES ASSUME NEW i \in 1..n + l - 1, t[i] = Comma, t[i + 1] = Blank PROVE FALSE
  BY <1>1 DEF Cuts, t
<1>2. CASE i < n
  <2>1. i \in 1..n + l /\ i + 1 \in 1..n + l /\ i <= n /\ i + 1 <= n /\ i \in 1..n - 1
    BY <1>1, <1>2
  <2>2. a[i] = Comma /\ a[i + 1] = Blank
    BY <1>1, <2>1
  <2> QED
    BY <2>1, <2>2 DEF Cuts
<1>3. CASE i = n
  <2>1. /\ n \in 1..n + l /\ n + 1 \in 1..n + l /\ n <= n /\ ~(n + 1 <= n) /\ (n + 1) - n = 1
        /\ a # <<>>
    BY <1>1, <1>3
  <2>2. a[n] = Comma /\ z[1] = Blank
    BY <1>1, <1>3, <2>1
  <2> QED
    BY <2>1, <2>2
<1>4. CASE i > n
  <2> DEFINE j == i - n
  <2>1. /\ i \in 1..n + l /\ i + 1 \in 1..n + l /\ ~(i <= n) /\ ~(i + 1 <= n)
        /\ i - n = j /\ (i + 1) - n = j + 1 /\ j \in 1..l - 1
    BY <1>1, <1>4
  <2> HIDE DEF j
  <2>2. z[j] = Comma /\ z[j + 1] = Blank
    BY <1>1, <2>1
  <2> QED
    BY <2>1, <2>2 DEF Cuts
<1> QED
  BY <1>1, <1>2, <1>3, <1>4

LEMMA CutsOfFront ==
  ASSUME NEW S, NEW u \in Seq(S), NEW x \in S, Cuts(Append(u, x)) = {}
  PROVE  Cuts(u) = {} /\ (u # <<>> => ~(u[Len(u)] = Comma /\ x = Blank))
<1> DEFINE a == Append(u, x)
           n == Len(u)
<1>1. /\ n \in Nat /\ (u # <<>> => n >= 1) /\ Len(a) = n + 1
      /\ \A i \in 1..n : a[i] = u[i]
      /\ a[n + 1] = x
  BY EmptySeq
<1> HIDE DEF a
<1>2. \A i \in 1..n : ~(a[i] = Comma /\ a[i + 1] = Blank)
  <2>1. Cuts(a) = {} /\ Len(a) - 1 = n
    BY <1>1 DEF a
  <2> QED
    BY <2>1 DEF Cuts
<1>3. Cuts(u) = {}
  <2> SUFFICES ASSUME NEW i \in 1..n - 1, u[i] = Comma, u[i + 1] = Blank PROVE FALSE
    BY DEF Cuts
  <2>1. i \in 1..n /\ i + 1 \in 1..n
    BY <1>1
  <2> QED
    BY <1>1, <1>2, <2>1
<1>4. u # <<>> => ~(u[n] = Comma /\ x = Blank)
  <2> SUFFICES ASSUME u # <<>>, u[n] = Comma, x = Blank PROVE FALSE
    OBVIOUS
  <2>1. n \in 1..n
    BY <1>1
  <2> QED
    BY <1>1, <1>2, <2>1
<1> QED
  BY <1>3, <1>4

Backslash == <<"\\">>

Escape == [x \in Letters |-> IF x = Quote THEN <<Backslash, Quote>> ELSE <<x>>]

LEMMA EscapeType ==
  ASSUME NEW S, Letters \subseteq S, Backslash \in S, Quote \in S
  PROVE  Escape \in [Letters -> Seq(S)]
<1>1. <<Backslash, Quote>> \in Seq(S)
  <2> DEFINE a == Backslash
             b == Quote
  <2>1. a \in S /\ b \in S
    OBVIOUS
  <2> HIDE DEF a, b
  <2>2. <<a, b>> \in Seq(S)
    BY <2>1
  <2> QED
    BY <2>2 DEF a, b
<1>2. \A x \in Letters : <<x>> \in Seq(S)
  OBVIOUS
<1> QED
  BY <1>1, <1>2 DEF Escape

LEMMA EscapedIs ==
  ASSUME NEW text \in Seq(Letters)
  PROVE  Escaped(text) = FlatMap(Escape, text)
<1>1. \A i \in DOMAIN text : text[i] \in Letters
  BY ElementOfSeq, LenProperties
<1>2. \A i \in DOMAIN text :
        Escape[text[i]] = IF text[i] = Quote THEN <<Backslash, Quote>> ELSE <<text[i]>>
  BY <1>1 DEF Escape
<1>3. Mapped(Escape, text)
        = [i \in DOMAIN text |-> IF text[i] = Quote THEN <<Backslash, Quote>> ELSE <<text[i]>>]
  BY <1>2 DEF Mapped
<1> QED
  BY <1>3 DEF Escaped, FlatMap, Backslash

LEMMA EscapedType ==
  ASSUME NEW S, Letters \subseteq S, Backslash \in S, Quote \in S, NEW text \in Seq(Letters)
  PROVE  Escaped(text) \in Seq(S)
  BY EscapeType, EscapedIs, FlatMapType

LEMMA EscapedPlain ==
  ASSUME NEW text \in Seq(Letters), Cuts(text) = {}
  PROVE  Cuts(Escaped(text)) = {}
<1> DEFINE S == Letters \cup {Backslash, Quote}
           E(u) == FlatMap(Escape, u)
           P == {u \in Seq(Letters) :
                   Cuts(u) = {} =>
                     /\ Cuts(E(u)) = {}
                     /\ u = <<>> => E(u) = <<>>
                     /\ u # <<>> => E(u)[Len(E(u))] = u[Len(u)]}
<1>1. Escape \in [Letters -> Seq(S)]
  BY EscapeType
<1>2. <<>> \in P
  <2>1. E(<<>>) = <<>>
    BY FlatMapEmpty
  <2>2. Cuts(<<>>) = {}
    BY DEF Cuts
  <2>3. <<>> \in Seq(Letters)
    OBVIOUS
  <2> QED
    BY <2>1, <2>2, <2>3
<1>3. ASSUME NEW u \in Seq(Letters), NEW x \in Letters, u \in P
      PROVE  Append(u, x) \in P
  <2> DEFINE a == Append(u, x)
             z == Escape[x]
             e == E(u)
  <2>1. /\ a \in Seq(Letters) /\ a # <<>> /\ a[Len(a)] = x
    OBVIOUS
  <2>2. e \in Seq(S) /\ z \in Seq(S)
    BY <1>1, FlatMapType
  <2>3. E(a) = e \o z
    <3>1. FlatMap(Escape, Append(u, x)) = FlatMap(Escape, u) \o Escape[x]
      BY ONLY <1>1, FlatMapAppend
    <3> QED
      BY <3>1
  <2> SUFFICES ASSUME Cuts(a) = {}
               PROVE  Cuts(E(a)) = {} /\ E(a)[Len(E(a))] = x
    BY <2>1
  <2>4. Cuts(u) = {} /\ (u # <<>> => ~(u[Len(u)] = Comma /\ x = Blank))
    BY CutsOfFront
  <2>5. /\ Cuts(e) = {}
        /\ u = <<>> => e = <<>>
        /\ u # <<>> => e[Len(e)] = u[Len(u)]
    BY <1>3, <2>4
  <2>6. /\ z # <<>> /\ Cuts(z) = {} /\ z[Len(z)] = x /\ Len(z) \in Nat
        /\ z[1] = x \/ z[1] = Backslash
    <3>1. CASE x = Quote
      <4>1. z = <<Backslash, Quote>>
        BY <3>1 DEF Escape
      <4>2. z # <<>> /\ Len(z) = 2 /\ z[1] = Backslash /\ z[2] = Quote
        BY <4>1
      <4>3. Backslash # Comma
        BY DEF Backslash, Comma
      <4> HIDE DEF z
      <4>4. Cuts(z) = {}
        <5>1. \A i \in 1..Len(z) - 1 : i = 1
          BY <4>2
        <5> QED
          BY <4>2, <4>3, <5>1 DEF Cuts
      <4> QED
        BY <3>1, <4>2, <4>4
    <3>2. CASE x # Quote
      <4>1. z = <<x>>
        BY <3>2 DEF Escape
      <4>2. z # <<>> /\ Len(z) = 1 /\ z[1] = x
        BY <4>1
      <4> HIDE DEF z
      <4>3. Cuts(z) = {}
        BY <4>2 DEF Cuts
      <4> QED
        BY <4>2, <4>3
    <3> QED
      BY <3>1, <3>2
  <2>7. e # <<>> => ~(e[Len(e)] = Comma /\ z[1] = Blank)
    <3>1. Backslash # Blank
      BY DEF Backslash, Blank
    <3> HIDE DEF e, z
    <3> QED
      BY <2>4, <2>5, <2>6, <3>1
  <2> HIDE DEF e, z, E, P
  <2>8. Cuts(e \o z) = {}
    BY <2>2, <2>5, <2>6, <2>7, NoCutIn
  <2>9. (e \o z)[Len(e \o z)] = z[Len(z)]
    <3>1. Len(z) >= 1 /\ Len(e) \in Nat /\ Len(z) \in Nat
      BY <2>2, <2>6, EmptySeq, LenProperties
    <3>2. /\ Len(e \o z) = Len(e) + Len(z)
          /\ \A i \in 1..Len(e) + Len(z) :
               (e \o z)[i] = IF i <= Len(e) THEN e[i] ELSE z[i - Len(e)]
      BY <2>2, ConcatProperties
    <3>3. /\ Len(e) + Len(z) \in 1..Len(e) + Len(z) /\ ~(Len(e) + Len(z) <= Len(e))
          /\ Len(e) + Len(z) - Len(e) = Len(z)
      BY <3>1
    <3> QED
      BY <3>2, <3>3
  <2> QED
    BY <2>3, <2>6, <2>8, <2>9
<1> HIDE DEF P
<1>4. Seq(Letters) \subseteq P
  BY <1>2, <1>3, SeqInd
<1>5. text \in P
  BY <1>4
<1> QED
  BY <1>5, EscapedIs DEF P

-----------------------------------------------------------------------------
(* What a browser renders.                                                 *)

Fixed == {<<"Digest">>, <<"GET">>, <<"username">>, <<"realm">>, <<"nonce">>, <<"uri">>,
          <<"response">>, <<"webserial">>, <<"/">>,
          Blank, Comma, Equals, Quote, Colon, Backslash}

\* the header's fields behind the user's name
Answering(d) ==
  Quoted("realm", Realm) \o (<<Comma, Blank>> \o
    (Quoted("nonce", Nonce) \o (<<Comma, Blank>> \o
      (Quoted("uri", Uri) \o (<<Comma, Blank>> \o Quoted("response", d))))))

\* the five fields behind its type
Listing(u, d) == Quoted("username", u) \o (<<Comma, Blank>> \o Answering(d))

Peeled(S, x, w, cb, y) ==
  /\ ((x \o w) \o cb) \o y = x \o (w \o (cb \o y))
  /\ (x \o w) \o cb \in Seq(S)
  /\ w \o (cb \o y) \in Seq(S)

Joins(a, b, c) == (a \o b) \o c = a \o (b \o c)

LEMMA JoinsAlways ==
  ASSUME NEW S, NEW a \in Seq(S), NEW b \in Seq(S), NEW c \in Seq(S)
  PROVE  Joins(a, b, c)
BY ThreeParts DEF Joins

LEMMA Peel ==
  ASSUME NEW S, NEW x \in Seq(S), NEW w \in Seq(S), NEW cb \in Seq(S), NEW y \in Seq(S)
  PROVE  Peeled(S, x, w, cb, y)
<1>1. (x \o w) \in Seq(S) /\ cb \o y \in Seq(S) /\ (x \o w) \o cb \in Seq(S)
      /\ w \o (cb \o y) \in Seq(S)
  OBVIOUS
<1> DEFINE v == x \o w
           z == cb \o y
<1>2. (v \o cb) \o y = v \o z
  <2>1. v \in Seq(S)
    BY <1>1
  <2> HIDE DEF v
  <2>2. Joins(v, cb, y)
    BY <2>1, JoinsAlways
  <2> QED
    BY <2>2 DEF Joins
<1>3. (x \o w) \o z = x \o (w \o z)
  <2>1. z \in Seq(S)
    BY <1>1
  <2> HIDE DEF z
  <2>2. Joins(x, w, z)
    BY <2>1, JoinsAlways
  <2> QED
    BY <2>2 DEF Joins
<1> QED
  BY <1>1, <1>2, <1>3 DEF Peeled

\* eight concatenations from the left, and from the right
Regrouped(cb, t, a, b, c, d, e) ==
  t \o a \o cb \o b \o cb \o c \o cb \o d \o cb \o e
    = t \o (a \o (cb \o (b \o (cb \o (c \o (cb \o (d \o (cb \o e))))))))

LEMMA Regroup ==
  ASSUME NEW S, NEW cb \in Seq(S), NEW t \in Seq(S), NEW a \in Seq(S), NEW b \in Seq(S),
         NEW c \in Seq(S), NEW d \in Seq(S), NEW e \in Seq(S)
  PROVE  Regrouped(cb, t, a, b, c, d, e)
<1> DEFINE x1 == (t \o a) \o cb
           x2 == (x1 \o b) \o cb
           x3 == (x2 \o c) \o cb
           x4 == (x3 \o d) \o cb
           w4 == d \o (cb \o e)
           w3 == c \o (cb \o w4)
           w2 == b \o (cb \o w3)
           w1 == a \o (cb \o w2)
<1>1. x1 \in Seq(S)
  BY Peel DEF Peeled
<1> HIDE DEF x1
<1>2. x2 \in Seq(S)
  BY <1>1
<1> HIDE DEF x2
<1>3. x3 \in Seq(S)
  BY <1>2
<1> HIDE DEF x3
<1>4. x4 \o e = x3 \o w4 /\ w4 \in Seq(S)
  <2>1. Peeled(S, x3, d, cb, e)
    BY <1>3, Peel
  <2> QED
    BY <2>1 DEF Peeled
<1> HIDE DEF x4, w4
<1>5. x3 \o w4 = x2 \o w3 /\ w3 \in Seq(S)
  <2>1. Peeled(S, x2, c, cb, w4)
    BY <1>2, <1>4, Peel
  <2> QED
    BY <2>1 DEF Peeled, x3
<1> HIDE DEF w3
<1>6. x2 \o w3 = x1 \o w2 /\ w2 \in Seq(S)
  <2>1. Peeled(S, x1, b, cb, w3)
    BY <1>1, <1>5, Peel
  <2> QED
    BY <2>1 DEF Peeled, x2
<1> HIDE DEF w2
<1>7. x1 \o w2 = t \o w1
  <2>1. Peeled(S, t, a, cb, w2)
    BY <1>6, Peel
  <2> QED
    BY <2>1 DEF Peeled, x1
<1>8. x4 \o e = t \o w1
  BY <1>4, <1>5, <1>6, <1>7
<1> QED
  BY <1>8 DEF Regrouped, x1, x2, x3, x4, w1, w2, w3, w4

TypeAndBlank == <<<<"Digest">>, Blank>>

LEMMA TwoChars ==
  ASSUME NEW S, NEW a \in S, NEW b \in S, NEW h, h = <<a, b>>
  PROVE  h \in Seq(S) /\ Len(h) = 2 /\ h[1] = a /\ h[2] = b
OBVIOUS

LEMMA OneCharText ==
  ASSUME NEW S, NEW a \in S, NEW h, h = <<a>>
  PROVE  h \in Seq(S) /\ Cuts(h) = {}
<1>1. h \in Seq(S) /\ Len(h) = 1
  OBVIOUS
<1> QED
  BY <1>1 DEF Cuts

LEMMA FixedTexts ==
  ASSUME NEW S, Fixed \subseteq S
  PROVE  /\ Realm \in Seq(S) /\ Nonce \in Seq(S) /\ Uri \in Seq(S)
         /\ Cuts(Realm) = {} /\ Cuts(Nonce) = {} /\ Cuts(Uri) = {}
         /\ <<Comma, Blank>> \in Seq(S) /\ Pair(<<Comma, Blank>>)
         /\ TypeAndBlank \in Seq(S)
<1>1. Realm \in Seq(S) /\ Cuts(Realm) = {}
  <2> DEFINE a == <<"webserial">>
  <2>1. a \in S /\ Realm = <<a>>
    BY DEF Fixed, Realm
  <2> HIDE DEF a
  <2> QED
    BY <2>1, OneCharText
<1>2. Nonce \in Seq(S) /\ Cuts(Nonce) = {}
  <2> DEFINE a == <<"nonce">>
  <2>1. a \in S /\ Nonce = <<a>>
    BY DEF Fixed, Nonce
  <2> HIDE DEF a
  <2> QED
    BY <2>1, OneCharText
<1>3. Uri \in Seq(S) /\ Cuts(Uri) = {}
  <2> DEFINE a == <<"/">>
  <2>1. a \in S /\ Uri = <<a>>
    BY DEF Fixed, Uri
  <2> HIDE DEF a
  <2> QED
    BY <2>1, OneCharText
<1>4. <<Comma, Blank>> \in Seq(S) /\ Pair(<<Comma, Blank>>)
  <2> DEFINE h == <<Comma, Blank>>
  <2>1. Comma \in S /\ Blank \in S
    BY DEF Fixed
  <2>2. h \in Seq(S) /\ Len(h) = 2 /\ h[1] = Comma /\ h[2] = Blank
    BY <2>1, TwoChars
  <2> HIDE DEF h
  <2>3. h \in Seq(S) /\ Pair(h)
    BY <2>2 DEF Pair
  <2> QED
    BY <2>3 DEF h
<1>5. TypeAndBlank \in Seq(S)
  <2> DEFINE a == <<"Digest">>
  <2>1. a \in S /\ Blank \in S /\ TypeAndBlank = <<a, Blank>>
    BY DEF Fixed, TypeAndBlank
  <2> HIDE DEF a
  <2> QED
    BY <2>1, TwoChars
<1> QED
  BY <1>1, <1>2, <1>3, <1>4, <1>5

\* the words of a listing, whose names are told apart
AnsweringWords(d) ==
  {Quoted("realm", Realm), Quoted("nonce", Nonce), Quoted("uri", Uri),
   Quoted("response", d)}

ListedWords(u, d) == {Quoted("username", u)} \cup AnsweringWords(d)

LEMMA FieldTexts ==
  ASSUME NEW S, Fixed \subseteq S, NEW u \in Seq(S), NEW d \in Seq(S)
  PROVE  /\ Stored(S, "username", u) /\ Stored(S, "realm", Realm)
         /\ Stored(S, "nonce", Nonce) /\ Stored(S, "uri", Uri) /\ Stored(S, "response", d)
<1>1. /\ <<"username">> \in S /\ <<"realm">> \in S /\ <<"nonce">> \in S /\ <<"uri">> \in S
      /\ <<"response">> \in S /\ Equals \in S /\ Quote \in S
  BY DEF Fixed
<1>2. {"username", "realm", "nonce", "uri", "response"} \subseteq Keys
  BY DEF Keys
<1>3. Realm \in Seq(S) /\ Nonce \in Seq(S) /\ Uri \in Seq(S)
  BY FixedTexts
<1>4. \A key \in Keys, v \in Seq(S) : <<key>> \in S => Stored(S, key, v)
  BY <1>1, QuotedField
<1> QED
  BY <1>1, <1>2, <1>3, <1>4

LEMMA AnsweringType ==
  ASSUME NEW S, Fixed \subseteq S, NEW d \in Seq(S)
  PROVE  Answering(d) \in Seq(S) /\ Answering(d) # <<>>
<1> DEFINE cb == <<Comma, Blank>>
           b == Quoted("realm", Realm)
           c == Quoted("nonce", Nonce)
           f == Quoted("uri", Uri)
           g == Quoted("response", d)
<1>1. /\ b \in Seq(S) /\ c \in Seq(S) /\ f \in Seq(S) /\ g \in Seq(S) /\ b # <<>>
  BY FixedTexts, FieldTexts DEF Stored
<1>2. cb \in Seq(S)
  BY FixedTexts
<1>3. Answering(d) = b \o (cb \o (c \o (cb \o (f \o (cb \o g)))))
  BY DEF Answering
<1> HIDE DEF cb, b, c, f, g
<1> DEFINE r == cb \o (c \o (cb \o (f \o (cb \o g))))
<1>4. r \in Seq(S)
  BY <1>1, <1>2
<1> HIDE DEF r
<1>5. b \o r \in Seq(S) /\ b \o r # <<>>
  BY <1>1, <1>4
<1> QED
  BY <1>3, <1>5 DEF r

LEMMA ListingType ==
  ASSUME NEW S, Fixed \subseteq S, NEW u \in Seq(S), NEW d \in Seq(S)
  PROVE  Listing(u, d) \in Seq(S) /\ Listing(u, d) # <<>>
<1> DEFINE cb == <<Comma, Blank>>
           a == Quoted("username", u)
           r == Answering(d)
<1>1. a \in Seq(S) /\ a # <<>> /\ cb \in Seq(S) /\ r \in Seq(S)
  BY FieldTexts, FixedTexts, AnsweringType DEF Stored
<1>2. Listing(u, d) = a \o (cb \o r)
  BY DEF Listing
<1> HIDE DEF cb, a, r
<1> DEFINE y == cb \o r
<1>3. y \in Seq(S)
  BY <1>1
<1> HIDE DEF y
<1>4. a \o y \in Seq(S) /\ a \o y # <<>>
  BY <1>1, <1>3
<1> QED
  BY <1>2, <1>4 DEF y

LEMMA AnsweringIs ==
  ASSUME NEW S, Fixed \subseteq S, NEW d \in Seq(S), Cuts(d) = {}
  PROVE  WordSet(Answering(d)) = AnsweringWords(d)
<1> DEFINE cb == <<Comma, Blank>>
           b == Quoted("realm", Realm)
           c == Quoted("nonce", Nonce)
           f == Quoted("uri", Uri)
           g == Quoted("response", d)
           Word(w) == w \in Seq(S) /\ w # <<>> /\ Cuts(w) = {} /\ w[Len(w)] # Comma
<1>1. Word(b) /\ Word(c) /\ Word(f) /\ Word(g)
  <2>1. Cuts(Realm) = {} /\ Cuts(Nonce) = {} /\ Cuts(Uri) = {} /\ Realm \in Seq(S)
    BY FixedTexts
  <2>2. \A key, v : Stored(S, key, v) /\ Cuts(v) = {} => Word(Quoted(key, v))
    BY DEF Stored
  <2>3. /\ Stored(S, "realm", Realm) /\ Stored(S, "nonce", Nonce)
        /\ Stored(S, "uri", Uri) /\ Stored(S, "response", d)
    BY <2>1, FieldTexts
  <2> HIDE DEF Word
  <2> QED
    BY <2>1, <2>2, <2>3
<1>2. cb \in Seq(S) /\ Pair(cb)
  BY FixedTexts
<1>3. Answering(d) = b \o (cb \o (c \o (cb \o (f \o (cb \o g)))))
  BY DEF Answering
<1> HIDE DEF cb, b, c, f, g
<1>4. \A w, rest \in Seq(S) : Word(w) /\ rest # <<>> =>
        /\ WordSet(w \o (cb \o rest)) = {w} \cup WordSet(rest)
        /\ w \o (cb \o rest) \in Seq(S)
        /\ w \o (cb \o rest) # <<>>
  <2> SUFFICES ASSUME NEW w \in Seq(S), NEW rest \in Seq(S), Word(w), rest # <<>>
               PROVE  /\ WordSet(w \o (cb \o rest)) = {w} \cup WordSet(rest)
                      /\ w \o (cb \o rest) \in Seq(S)
                      /\ w \o (cb \o rest) # <<>>
    OBVIOUS
  <2>1. WordSet(w \o (cb \o rest)) = {w} \cup WordSet(rest)
    BY <1>2, SplitFirst
  <2>2. cb \o rest \in Seq(S)
    BY <1>2
  <2> DEFINE y == cb \o rest
  <2> HIDE DEF y
  <2>3. w \o y \in Seq(S) /\ w \o y # <<>>
    BY <2>2 DEF y
  <2> QED
    BY <2>1, <2>3 DEF y
<1>5. /\ b \in Seq(S) /\ c \in Seq(S) /\ f \in Seq(S) /\ g \in Seq(S) /\ g # <<>>
  BY <1>1
<1>6. WordSet(g) = {g}
  BY <1>1, OneWord
<1> HIDE DEF Word
<1> DEFINE w4 == f \o (cb \o g)
           w3 == c \o (cb \o w4)
           w2 == b \o (cb \o w3)
<1>7. WordSet(w4) = {f} \cup {g} /\ w4 \in Seq(S) /\ w4 # <<>>
  BY <1>1, <1>4, <1>5, <1>6
<1> HIDE DEF w4
<1>8. WordSet(w3) = {c} \cup WordSet(w4) /\ w3 \in Seq(S) /\ w3 # <<>>
  BY <1>1, <1>4, <1>5, <1>7
<1> HIDE DEF w3
<1>9. WordSet(w2) = {b} \cup WordSet(w3)
  BY <1>1, <1>4, <1>5, <1>8
<1>10. Answering(d) = w2
  BY <1>3 DEF w2, w3, w4
<1> HIDE DEF w2
<1>11. WordSet(w2) = {b, c, f, g}
  BY <1>7, <1>8, <1>9
<1> QED
  BY <1>10, <1>11 DEF AnsweringWords, b, c, f, g

LEMMA ListingWords ==
  ASSUME NEW S, Fixed \subseteq S, NEW u \in Seq(S), NEW d \in Seq(S),
         Cuts(u) = {}, Cuts(d) = {}
  PROVE  WordSet(Listing(u, d)) = ListedWords(u, d)
<1> DEFINE cb == <<Comma, Blank>>
           a == Quoted("username", u)
           r == Answering(d)
<1>1. a \in Seq(S) /\ a # <<>> /\ Cuts(a) = {} /\ a[Len(a)] # Comma
  <2>1. Stored(S, "username", u)
    BY FieldTexts
  <2> QED
    BY <2>1 DEF Stored
<1>2. cb \in Seq(S) /\ Pair(cb)
  BY FixedTexts
<1>3. r \in Seq(S) /\ r # <<>> /\ WordSet(r) = AnsweringWords(d)
  BY AnsweringType, AnsweringIs
<1>4. Listing(u, d) = a \o (cb \o r)
  BY DEF Listing
<1> HIDE DEF cb, a, r
<1>5. WordSet(a \o (cb \o r)) = {a} \cup WordSet(r)
  BY <1>1, <1>2, <1>3, SplitFirst
<1> QED
  BY <1>3, <1>4, <1>5 DEF ListedWords, a

-----------------------------------------------------------------------------
(* What parse makes of what a browser renders.                             *)

HeaderOf(S, rest) ==
  LET value == TypeAndBlank \o rest IN
  value \in Seq(S) /\ IsOk(TypeOf(value)) /\ WordsOf(value) = Words(rest)

LEMMA HeaderType ==
  ASSUME NEW S, Fixed \subseteq S, NEW rest \in Seq(S)
  PROVE  HeaderOf(S, rest)
<1> DEFINE h == TypeAndBlank
           value == h \o rest
           n == Len(rest)
           a == <<"Digest">>
<1>1. h \in Seq(S) /\ Len(h) = 2 /\ h[1] = a /\ h[2] = Blank /\ n \in Nat /\ a \in S
  <2>1. a \in S /\ Blank \in S /\ h = <<a, Blank>>
    BY DEF Fixed, TypeAndBlank
  <2> HIDE DEF a, h
  <2> QED
    BY <2>1, TwoChars, LenProperties
<1>2. a # Blank
  BY DEF Blank
<1> HIDE DEF h, a
<1>3. /\ value \in Seq(S) /\ Len(value) = 2 + n
      /\ \A i \in 1..2 + n : value[i] = IF i <= 2 THEN h[i] ELSE rest[i - 2]
  <2>1. /\ h \o rest \in Seq(S) /\ Len(h \o rest) = Len(h) + Len(rest)
        /\ \A i \in 1..Len(h) + Len(rest) :
             (h \o rest)[i] = IF i <= Len(h) THEN h[i] ELSE rest[i - Len(h)]
    BY <1>1, ConcatProperties
  <2> QED
    BY <1>1, <2>1
<1> HIDE DEF value, n
<1>4. value[1] = a /\ value[2] = Blank
  BY <1>1, <1>3
<1>5. Find(value, Blank) = 2
  <2>1. 2 \in 1..Len(value) /\ \A i \in 1..2 - 1 : value[i] # Blank
    <3>1. \A i \in 1..2 - 1 : i = 1
      OBVIOUS
    <3> QED
      BY <1>2, <1>1, <1>3, <1>4, <3>1
  <2> QED
    BY <1>3, <1>4, <2>1, FindAt
<1>6. SubSeq(value, 1, 1) = <<a>>
  <2>1. /\ SubSeq(value, 1, 1) \in Seq(S) /\ Len(SubSeq(value, 1, 1)) = 1
        /\ SubSeq(value, 1, 1)[1] = value[1]
    BY <1>1, <1>3
  <2> DEFINE s == SubSeq(value, 1, 1)
  <2> HIDE DEF s
  <2>2. s \in Seq(S) /\ Len(s) = 1 /\ s[1] = a
    BY <1>4, <2>1 DEF s
  <2>3. s = <<a>>
    BY <1>1, <2>2
  <2> QED
    BY <2>3 DEF s
<1>7. IsOk(TypeOf(value))
  <2>1. Find(value, Blank) # 0 /\ Find(value, Blank) - 1 = 1
    BY <1>5
  <2>2. TypeOf(value) = Type(<<a>>)
    BY <1>6, <2>1 DEF TypeOf
  <2>3. <<a>> \in {<<<<"Basic">>>>, <<<<"Digest">>>>}
    BY DEF a
  <2> QED
    BY <2>2, <2>3 DEF Type, IsOk, Ok
<1>8. SubSeq(value, 3, Len(value)) = rest
  <2> DEFINE m == 2 + n
             s == SubSeq(value, 3, m)
  <2>1. /\ m \in Int /\ m <= Len(value) /\ 3 \in Nat \ {0} /\ m - 3 + 1 = n
        /\ (3 <= m <=> n # 0) /\ m = Len(value)
    BY <1>1, <1>3
  <2> HIDE DEF m
  <2>2. /\ s \in Seq(S) /\ Len(s) = (IF 3 <= m THEN m - 3 + 1 ELSE 0)
        /\ \A i \in 1..m - 3 + 1 : s[i] = value[3 + i - 1]
    BY <1>3, <2>1, PartType
  <2> HIDE DEF s
  <2>3. Len(s) = n
    BY <1>1, <2>1, <2>2
  <2>4. ASSUME NEW i \in 1..n PROVE s[i] = rest[i]
    <3>1. /\ 3 + i - 1 = i + 2 /\ i + 2 \in 1..2 + n /\ ~(i + 2 <= 2) /\ i + 2 - 2 = i
      BY <1>1
    <3> QED
      BY <1>3, <2>1, <2>2, <3>1
  <2>5. s = rest
    BY <2>2, <2>3, <2>4, SeqEqual DEF n
  <2> QED
    BY <2>1, <2>5 DEF s
<1>9. WordsOf(value) = Words(rest)
  <2>1. Find(value, Blank) + 1 = 3
    BY <1>5
  <2> QED
    BY <1>8, <2>1 DEF WordsOf
<1> QED
  BY <1>3, <1>7, <1>9 DEF HeaderOf, value, h

\* the five fields, from any listing of them
Parsed(value, u, d) ==
  /\ ~Throws(value) /\ IsOk(Parse(value)) /\ ~Ends(Parse(value))
  /\ Needed \subseteq DOMAIN Deref(Parse(value))
  /\ Deref(Parse(value))["username"] = u
  /\ Deref(Parse(value))["nonce"] = Nonce
  /\ Deref(Parse(value))["uri"] = Uri
  /\ Deref(Parse(value))["response"] = d

LEMMA ParseListing ==
  ASSUME NEW S, Fixed \subseteq S, NEW u \in Seq(S), NEW d \in Seq(S),
         Cuts(u) = {}, Cuts(d) = {}
  PROVE  Parsed(TypeAndBlank \o Listing(u, d), u, d)
<1> DEFINE value == TypeAndBlank \o Listing(u, d)
           words == WordsOf(value)
           fields == Fields(words)
<1>1. IsOk(TypeOf(value)) /\ words = Words(Listing(u, d))
  <2>1. HeaderOf(S, Listing(u, d))
    BY ListingType, HeaderType
  <2> QED
    BY <2>1 DEF HeaderOf
<1> HIDE DEF value
<1>2. {words[i] : i \in DOMAIN words} = ListedWords(u, d)
  BY <1>1, ListingWords DEF WordSet
<1>3. DOMAIN words \subseteq 1..Len(Listing(u, d)) + 1
  BY <1>1, ListingType, WordsType
<1>4. Len(Listing(u, d)) + 1 \in Nat
  BY ListingType, LenProperties
<1> HIDE DEF words
<1>5. /\ Stored(S, "username", u) /\ Stored(S, "realm", Realm)
      /\ Stored(S, "nonce", Nonce) /\ Stored(S, "uri", Uri) /\ Stored(S, "response", d)
  BY FieldTexts
<1>6. \A w \in ListedWords(u, d) : IsOk(Field(w)) /\ ~Bare(w)
  BY <1>5 DEF ListedWords, AnsweringWords, Stored
<1>7. Trouble(words) = {}
  <2>1. \A i \in DOMAIN words : words[i] \in ListedWords(u, d)
    BY <1>2
  <2> QED
    BY <1>6, <2>1 DEF Trouble
<1>8. Parse(value) = Ok(fields)
  BY <1>1, <1>7 DEF Parse, words
<1>9. ~Throws(value)
  BY <1>7 DEF Throws, words
<1> DEFINE n == Len(Listing(u, d)) + 1
           Key(w) == Deref(Field(w))
<1>10. n \in Nat /\ DOMAIN words \subseteq 0..n
  BY <1>3, <1>4
<1> HIDE DEF n
<1>11. /\ DOMAIN fields = {Key(words[i]) : i \in DOMAIN words}
       /\ \A k \in DOMAIN fields : \E i \in DOMAIN words :
            fields[k] = Value(words[i]) /\ Key(words[i]) = k
  <2>1. FieldsOf(words, fields)
    BY <1>10, FieldsAre
  <2> HIDE DEF fields
  <2> QED
    BY <2>1 DEF FieldsOf
<1> HIDE DEF fields
<1>12. DOMAIN fields = {Key(w) : w \in ListedWords(u, d)}
  BY <1>2, <1>11
<1>13. \A k \in DOMAIN fields : \E w \in ListedWords(u, d) : fields[k] = Value(w) /\ Key(w) = k
  BY <1>2, <1>11
<1>14. /\ Key(Quoted("username", u)) = "username" /\ Value(Quoted("username", u)) = u
       /\ Key(Quoted("realm", Realm)) = "realm"
       /\ Key(Quoted("nonce", Nonce)) = "nonce" /\ Value(Quoted("nonce", Nonce)) = Nonce
       /\ Key(Quoted("uri", Uri)) = "uri" /\ Value(Quoted("uri", Uri)) = Uri
       /\ Key(Quoted("response", d)) = "response" /\ Value(Quoted("response", d)) = d
  BY <1>5 DEF Stored
<1> HIDE DEF Key
<1>15. {"username", "realm", "nonce", "uri", "response"} \subseteq DOMAIN fields
  BY <1>12, <1>14 DEF ListedWords, AnsweringWords
<1>16. fields["username"] = u
  BY <1>13, <1>14, <1>15 DEF ListedWords, AnsweringWords
<1>17. fields["nonce"] = Nonce
  BY <1>13, <1>14, <1>15 DEF ListedWords, AnsweringWords
<1>18. fields["uri"] = Uri
  BY <1>13, <1>14, <1>15 DEF ListedWords, AnsweringWords
<1>19. fields["response"] = d
  BY <1>13, <1>14, <1>15 DEF ListedWords, AnsweringWords
<1>20. IsOk(Parse(value)) /\ ~Ends(Parse(value)) /\ Deref(Parse(value)) = fields
  BY <1>8 DEF IsOk, Ends, Deref, Ok
<1> QED
  BY <1>9, <1>15, <1>16, <1>17, <1>18, <1>19, <1>20 DEF Parsed, value, Needed

\* Whatever the user is called, the response is read with what it was computed from.
AnswerRead(value, d) ==
  /\ {"nonce", "uri", "response"} \subseteq DOMAIN Deref(Parse(value))
  /\ Deref(Parse(value))["nonce"] = Nonce
  /\ Deref(Parse(value))["uri"] = Uri
  /\ Deref(Parse(value))["response"] = d

LEMMA AnsweringRead ==
  ASSUME NEW S, Fixed \subseteq S, NEW u \in Seq(S), NEW d \in Seq(S), Cuts(d) = {},
         NEW value \in Seq(S), value = TypeAndBlank \o Listing(u, d),
         ~Throws(value), IsOk(Parse(value))
  PROVE  AnswerRead(value, d)
<1> DEFINE words == WordsOf(value)
           rest == Words(Answering(d))
           a == Quoted("username", u)
           m == Len(a) + 2
           l == Len(Listing(u, d)) + Len(Answering(d)) + 1
<1>1. words = Words(Listing(u, d))
  <2>1. HeaderOf(S, Listing(u, d))
    BY ListingType, HeaderType
  <2> QED
    BY <2>1 DEF HeaderOf
<1>2. a \in Seq(S) /\ a # <<>> /\ a[Len(a)] # Comma
  <2>1. Stored(S, "username", u)
    BY FieldTexts
  <2> QED
    BY <2>1 DEF Stored
<1>3. m \in Nat
  BY <1>2, LenProperties
<1>4. Tailed(words, rest, m)
  <2> DEFINE cb == <<Comma, Blank>>
             r == Answering(d)
  <2>1. cb \in Seq(S) /\ Pair(cb) /\ r \in Seq(S) /\ r # <<>>
    BY FixedTexts, AnsweringType
  <2>2. Listing(u, d) = a \o (cb \o r)
    BY DEF Listing
  <2> HIDE DEF cb, r, a
  <2>3. Tailed(Words(a \o (cb \o r)), Words(r), Len(a) + 2)
    BY <1>2, <2>1, TailWords
  <2> QED
    BY <1>1, <2>2, <2>3 DEF r
<1>5. l \in Nat /\ DOMAIN words \subseteq 0..l /\ DOMAIN rest \subseteq 1..l
  <2>1. /\ Len(Listing(u, d)) \in Nat /\ Len(Answering(d)) \in Nat
        /\ DOMAIN words \subseteq 1..Len(Listing(u, d)) + 1
        /\ DOMAIN rest \subseteq 1..Len(Answering(d)) + 1
    BY <1>1, ListingType, AnsweringType, WordsType, LenProperties
  <2> HIDE DEF words, rest
  <2> QED
    BY <2>1
<1>6. {rest[i] : i \in DOMAIN rest} = AnsweringWords(d)
  BY AnsweringIs DEF WordSet
<1>7. Deref(Parse(value)) = Fields(words)
  BY ParseIsFields
<1> HIDE DEF words, rest, m, l, a
<1> DEFINE fields == Fields(rest)
           Key(w) == Deref(Field(w))
<1>8. FieldsOf(rest, fields)
  <2>1. DOMAIN rest \subseteq 0..l
    BY <1>5
  <2> QED
    BY <1>5, <2>1, FieldsAre
<1> HIDE DEF fields
<1>9. /\ DOMAIN fields = {Key(w) : w \in AnsweringWords(d)}
      /\ \A k \in DOMAIN fields :
           \E w \in AnsweringWords(d) : fields[k] = Value(w) /\ Key(w) = k
  <2>1. /\ DOMAIN fields = {Key(rest[i]) : i \in DOMAIN rest}
        /\ \A k \in DOMAIN fields : \E i \in DOMAIN rest :
             fields[k] = Value(rest[i]) /\ Key(rest[i]) = k
    BY <1>8 DEF FieldsOf
  <2> HIDE DEF Key
  <2>2. DOMAIN fields = {Key(w) : w \in AnsweringWords(d)}
    BY <1>6, <2>1
  <2>3. \A k \in DOMAIN fields :
          \E w \in AnsweringWords(d) : fields[k] = Value(w) /\ Key(w) = k
    BY <1>6, <2>1
  <2> QED
    BY <2>2, <2>3
<1>10. /\ Key(Quoted("realm", Realm)) = "realm"
       /\ Key(Quoted("nonce", Nonce)) = "nonce" /\ Value(Quoted("nonce", Nonce)) = Nonce
       /\ Key(Quoted("uri", Uri)) = "uri" /\ Value(Quoted("uri", Uri)) = Uri
       /\ Key(Quoted("response", d)) = "response" /\ Value(Quoted("response", d)) = d
  <2>1. /\ Stored(S, "realm", Realm) /\ Stored(S, "nonce", Nonce)
        /\ Stored(S, "uri", Uri) /\ Stored(S, "response", d)
    BY FieldTexts
  <2> QED
    BY <2>1 DEF Stored
<1> HIDE DEF Key
<1>11. {"nonce", "uri", "response"} \subseteq DOMAIN fields
  BY <1>9, <1>10 DEF AnsweringWords
<1>12. fields["nonce"] = Nonce
  BY <1>9, <1>10, <1>11 DEF AnsweringWords
<1>13. fields["uri"] = Uri
  BY <1>9, <1>10, <1>11 DEF AnsweringWords
<1>14. fields["response"] = d
  BY <1>9, <1>10, <1>11 DEF AnsweringWords
<1>15. \A k \in DOMAIN fields : k \in DOMAIN Fields(words) /\ Fields(words)[k] = fields[k]
  BY <1>3, <1>4, <1>5, TailFields DEF fields
<1> QED
  BY <1>7, <1>11, <1>12, <1>13, <1>14, <1>15 DEF AnswerRead

-----------------------------------------------------------------------------
(* Who is accepted.                                                        *)

\* who asks by browser
Challenged == {c \in Credentials : c.realm = Realm}

Response(c) == Expected(HA1(c), Nonce, Uri)

LEMMA ChallengedHashed ==
  ASSUME NEW c \in Challenged
  PROVE  /\ c \in Hashed /\ c.user \in Seq(Letters) /\ [c EXCEPT !.realm = Realm] = c
         /\ \E e : Response(c) = <<<<"md5", e>>>>
         /\ \E e : HA1(c) = <<<<"md5", e>>>>
<1>1. c \in [user : Users, realm : Realms, pass : Passes] /\ c.realm = Realm
  BY DEF Challenged, Credentials
<1>2. c \in Hashed /\ c.user \in Seq(Letters)
  BY <1>1, TextsAssumption DEF Hashed
<1>3. [c EXCEPT !.realm = Realm] = c
  BY <1>1
<1>4. \E e : Response(c) = <<<<"md5", e>>>>
  BY DigestChars DEF Response, Expected
<1>5. \E e : HA1(c) = <<<<"md5", e>>>>
  BY DigestChars DEF HA1
<1> QED
  BY <1>2, <1>3, <1>4, <1>5

Shown(S, c) ==
  /\ Escaped(c.user) \in Seq(S)
  /\ Rendered(c) = TypeAndBlank \o Listing(Escaped(c.user), Response(c))
  /\ Rendered(c) \in Seq(S)

LEMMA RenderedIs ==
  ASSUME NEW S, Letters \subseteq S, Fixed \subseteq S, NEW c \in Challenged,
         Response(c) \in Seq(S)
  PROVE  Shown(S, c)
<1> DEFINE cb == <<Comma, Blank>>
           t == TypeAndBlank
           a == Quoted("username", Escaped(c.user))
           b == Quoted("realm", Realm)
           d == Quoted("nonce", Nonce)
           e == Quoted("uri", Uri)
           f == Quoted("response", Response(c))
<1>1. Escaped(c.user) \in Seq(S)
  <2>1. Backslash \in S /\ Quote \in S
    BY DEF Fixed
  <2> QED
    BY <2>1, ChallengedHashed, EscapedType
<1>2. a \in Seq(S) /\ b \in Seq(S) /\ d \in Seq(S) /\ e \in Seq(S) /\ f \in Seq(S)
  BY <1>1, FieldTexts DEF Stored
<1>3. cb \in Seq(S) /\ t \in Seq(S)
  BY FixedTexts
<1>4. Rendered(c) = t \o a \o cb \o b \o cb \o d \o cb \o e \o cb \o f
  BY ChallengedHashed DEF Rendered, Response, TypeAndBlank
<1>5. Listing(Escaped(c.user), Response(c))
        = a \o (cb \o (b \o (cb \o (d \o (cb \o (e \o (cb \o f)))))))
  BY DEF Listing, Answering
<1> HIDE DEF cb, t, a, b, d, e, f
<1>6. t \o a \o cb \o b \o cb \o d \o cb \o e \o cb \o f
        = t \o (a \o (cb \o (b \o (cb \o (d \o (cb \o (e \o (cb \o f))))))))
  <2>1. Regrouped(cb, t, a, b, d, e, f)
    BY <1>2, <1>3, Regroup
  <2> QED
    BY <2>1 DEF Regrouped
<1>7. Rendered(c) = TypeAndBlank \o Listing(Escaped(c.user), Response(c))
  BY <1>4, <1>5, <1>6 DEF t
<1>8. Listing(Escaped(c.user), Response(c)) \in Seq(S)
  BY <1>1, ListingType
<1>9. t \o Listing(Escaped(c.user), Response(c)) \in Seq(S)
  BY <1>3, <1>8
<1> QED
  BY <1>1, <1>7, <1>9 DEF Shown, t

LEMMA PlainParsed ==
  ASSUME NEW c \in Challenged, Plain(c.user)
  PROVE  Parsed(Rendered(c), Escaped(c.user), Response(c))
<1>1. PICK e : Response(c) = <<<<"md5", e>>>>
  BY ChallengedHashed
<1> DEFINE x == <<"md5", e>>
           S == Letters \cup Fixed \cup {x}
<1>2. Letters \subseteq S /\ Fixed \subseteq S /\ x \in S /\ Response(c) = <<x>>
  BY <1>1
<1> HIDE DEF S, x
<1>3. Response(c) \in Seq(S) /\ Cuts(Response(c)) = {}
  BY <1>2, OneCharText
<1>4. Shown(S, c)
  BY <1>2, <1>3, RenderedIs
<1>5. Cuts(Escaped(c.user)) = {}
  BY ChallengedHashed, EscapedPlain DEF Plain
<1>6. Parsed(TypeAndBlank \o Listing(Escaped(c.user), Response(c)), Escaped(c.user), Response(c))
  BY <1>2, <1>3, <1>4, <1>5, ParseListing DEF Shown
<1> QED
  BY <1>4, <1>6 DEF Shown

\* KnownIsAccepted, of the server alone
LEMMA KnownAccepted ==
  ASSUME NEW c \in Challenged, Plain(c.user)
  PROVE  DigestAuth(HA1(c), <<Rendered(c)>>) = 0
<1> DEFINE v == Rendered(c)
<1>1. Parsed(v, Escaped(c.user), Response(c))
  BY PlainParsed
<1> HIDE DEF v
<1>2. <<v>> # <<>> /\ Head(<<v>>) = v
  OBVIOUS
<1>3. Accepts(HA1(c), Deref(Parse(v)))
  BY <1>1 DEF Accepts, Parsed, Response
<1>4. IsOk(Parse(v))
  BY <1>1 DEF Parsed
<1>5. DigestAuth(HA1(c), <<v>>) = 0
  BY <1>2, <1>3, <1>4 DEF DigestAuth
<1> QED
  BY <1>5 DEF v

\* what digest_auth may hold
Hash(a) == a = <<>> \/ \E e : a = <<<<"md5", e>>>>

\* Whatever its user is called, a browser is let in by the hash of its credentials only.
LEMMA AcceptedHash ==
  ASSUME NEW c \in Challenged, NEW a, Hash(a), ~Throws(Rendered(c)),
         DigestAuth(a, <<Rendered(c)>>) = 0
  PROVE  a = HA1(c)
<1>1. PICK e : Response(c) = <<<<"md5", e>>>>
  BY ChallengedHashed
<1>2. PICK j : HA1(c) = <<<<"md5", j>>>>
  BY ChallengedHashed
<1>3. PICK p : Md5(<<Method, Uri>>) = <<<<"md5", p>>>>
  BY DigestChars
<1>4. PICK w : a = <<>> \/ a = <<<<"md5", w>>>>
  BY DEF Hash
<1> DEFINE x == <<"md5", e>>
           S == Letters \cup Fixed
                  \cup {x, <<"md5", j>>, <<"md5", p>>, <<"md5", w>>}
           v == Rendered(c)
<1>5. /\ Letters \subseteq S /\ Fixed \subseteq S /\ x \in S /\ Response(c) = <<x>>
      /\ <<"md5", j>> \in S /\ <<"md5", p>> \in S /\ <<"md5", w>> \in S
  BY <1>1
<1> HIDE DEF S, x
<1>6. Response(c) \in Seq(S) /\ Cuts(Response(c)) = {}
  BY <1>5, OneCharText
<1>7. Shown(S, c)
  BY <1>5, <1>6, RenderedIs
<1>8. IsOk(Parse(v)) /\ Accepts(a, Deref(Parse(v)))
  <2> HIDE DEF v
  <2>1. <<v>> # <<>> /\ Head(<<v>>) = v
    OBVIOUS
  <2>2. DigestAuth(a, <<v>>) = 0
    BY DEF v
  <2> QED
    BY <2>1, <2>2 DEF DigestAuth
<1>9. AnswerRead(v, Response(c))
  <2>1. /\ Escaped(c.user) \in Seq(S) /\ v \in Seq(S)
        /\ v = TypeAndBlank \o Listing(Escaped(c.user), Response(c))
    BY <1>7 DEF Shown
  <2>2. ~Throws(v)
    OBVIOUS
  <2> HIDE DEF v
  <2> QED
    BY <1>5, <1>6, <1>8, <2>1, <2>2, AnsweringRead
<1>10. Expected(HA1(c), Nonce, Uri) = Expected(a, Nonce, Uri)
  <2> HIDE DEF v
  <2>1. Response(c) = Expected(a, Nonce, Uri)
    BY <1>8, <1>9 DEF Accepts, AnswerRead
  <2> QED
    BY <2>1 DEF Response
<1>11. /\ Nonce \in Seq(S) /\ Colon \in S
  BY <1>5, FixedTexts DEF Fixed
<1>12. \A y \in S : <<y>> \in Seq(S)
  OBVIOUS
<1>13. Md5(<<Method, Uri>>) \in Seq(S) /\ a \in Seq(S)
  BY <1>3, <1>4, <1>5, <1>12, EmptySeq
<1>14. Expected(<<<<"md5", j>>>>, Nonce, Uri) = Expected(a, Nonce, Uri)
  BY <1>2, <1>10
<1>15. a = <<<<"md5", j>>>>
  BY <1>4, <1>5, <1>11, <1>13, <1>14, ExpectedOnce
<1> QED
  BY <1>2, <1>15

-----------------------------------------------------------------------------
(* The invariant.                                                          *)

LEMMA FirstWordType ==
  ASSUME NEW p \in Seq(Letters)
  PROVE  FirstWord(p) \in Seq(Letters)
<1> DEFINE from == SelectInSeq(p, LAMBDA x : x # Blank)
           rest == SubSeq(p, from, Len(p))
<1>1. from \in 0..Len(p) /\ Len(p) \in Nat
  <2> DEFINE I == {i \in 1..Len(p) : p[i] # Blank}
  <2>1. from = IF I # {} THEN Min(I) ELSE 0
    BY DEF SelectInSeq
  <2>2. Len(p) \in Nat /\ I \subseteq 1..Len(p) /\ I \subseteq Nat
    BY LenProperties
  <2>3. I # {} => Min(I) \in I
    BY <2>2, MinIs
  <2>4. I # {} => Min(I) \in 1..Len(p)
    BY <2>2, <2>3
  <2> HIDE DEF I, from
  <2> QED
    BY <2>1, <2>2, <2>4
<1>2. ASSUME from # 0 PROVE rest \in Seq(Letters)
  <2>1. from \in Nat \ {0} /\ Len(p) \in Int /\ Len(p) <= Len(p)
    BY <1>1, <1>2
  <2> HIDE DEF from
  <2> QED
    BY <2>1, PartType
<1> HIDE DEF from, rest
<1>3. ASSUME from # 0, Find(rest, Blank) # 0
      PROVE  SubSeq(rest, 1, Find(rest, Blank) - 1) \in Seq(Letters)
  <2>1. Find(rest, Blank) \in 1..Len(rest)
    BY <1>2, <1>3, FindIs
  <2>2. /\ Find(rest, Blank) - 1 \in Int /\ Find(rest, Blank) - 1 <= Len(rest)
        /\ 1 \in Nat \ {0}
    BY <2>1, <1>2, <1>3, LenProperties
  <2> QED
    BY <2>2, <1>2, <1>3, PartType
<1>4. <<>> \in Seq(Letters)
  BY EmptySeq
<1> QED
  BY <1>2, <1>3, <1>4 DEF FirstWord, from, rest

Held(f) == f = <<>> \/ f = <<<<>>>> \/ \E w \in written : f = <<HA1(w)>>

\* what a client sends with credentials c
Sent(c, header) ==
  \/ c \in Challenged /\ header = <<Rendered(c)>>
  \/ c = NoOne /\ (header = <<>> \/ \E h \in Others : header = <<h>>)

Admitted(header) ==
  header # <<>> /\ ~Throws(Head(header)) /\ DigestAuth(server[1], header) = 0

WrittenHashed == written \subseteq Hashed

ToolKnows ==
  \/ tool = Idle
  \/ \E u \in Users, r \in Realms : tool = [at |-> "prompt", user |-> u, realm |-> r]
  \/ \E c \in Hashed, at \in {"open", "write"} : tool = [at |-> at, cred |-> c]

FilesHeld == Held(file) /\ Held(server)

\* the request being handled: who sent it, and why it was let in
Handled(q) ==
  /\ {"cred", "header", "auth", "at"} \subseteq DOMAIN q
  /\ Sent(q.cred, q.header)
  /\ q.auth \in {"unasked", "passed"}
  /\ q.auth = "passed" => Admitted(q.header)

\* an answer: the header it was given to, and what that header did
Reasoned(a, header) ==
  /\ Sent(a.cred, header)
  /\ a.auth = "passed" => Admitted(header)
  /\ a.auth = "passed" /\ a.status = 101 => a.name = Name(Deref(Parse(Head(header))))
  /\ a.auth = "refused" => DigestAuth(server[1], header) # 0

RequestHandled ==
  request = <<>> \/ (server # <<>> /\ \E q : request = <<q>> /\ Handled(q))

ReplyReasoned ==
  reply = <<>> \/ (server # <<>> /\ \E a, header : reply = <<a>> /\ Reasoned(a, header))

Inv == WrittenHashed /\ ToolKnows /\ FilesHeld /\ RequestHandled /\ ReplyReasoned

LEMMA InitInv == Init => Inv
BY DEF Init, Inv, WrittenHashed, ToolKnows, FilesHeld, Held, RequestHandled, ReplyReasoned

LEMMA CredentialsHashed == Credentials \subseteq Hashed
BY TextsAssumption DEF Credentials, Hashed

\* A step of wspasswd disturbs nothing of the server.
LEMMA ServerKept ==
  ASSUME RequestHandled, ReplyReasoned, UNCHANGED <<server, request, reply>>
  PROVE  RequestHandled' /\ ReplyReasoned'
BY DEF RequestHandled, ReplyReasoned, Handled, Reasoned, Admitted

LEMMA PasswdKept ==
  ASSUME WrittenHashed, ToolKnows, UNCHANGED passwd, Held(file), Held(server)
  PROVE  /\ WrittenHashed' /\ ToolKnows' /\ Held(file)'
         /\ server' \in {server, file, <<>>, <<<<>>>>} => Held(server)'
BY DEF WrittenHashed, ToolKnows, Held, passwd

LEMMA ServerEndsInv ==
  ASSUME Inv, ServerEnds
  PROVE  Inv'
<1>1. WrittenHashed' /\ ToolKnows' /\ FilesHeld'
  BY PasswdKept DEF Inv, FilesHeld, ServerEnds
<1>2. RequestHandled' /\ ReplyReasoned'
  BY DEF ServerEnds, RequestHandled, ReplyReasoned
<1> QED
  BY <1>1, <1>2 DEF Inv

LEMMA ToolStep ==
  ASSUME Inv, Tool
  PROVE  Inv'
<1>1. UNCHANGED <<server, request, reply>>
  BY DEF Tool, RunWithPass, RunWithPrompt, Answer, Open, OpenFails, Write, Killed, http
<1>2. RequestHandled' /\ ReplyReasoned'
  BY <1>1, ServerKept DEF Inv
<1>3. ASSUME UNCHANGED <<file, written>> PROVE WrittenHashed' /\ FilesHeld'
  BY <1>1, <1>3 DEF Inv, WrittenHashed, FilesHeld, Held
<1>4. ASSUME NEW c \in Credentials, RunWithPass(c) PROVE Inv'
  <2>1. ToolKnows'
    BY <1>4, CredentialsHashed DEF RunWithPass, ToolKnows
  <2> QED
    BY <1>2, <1>3, <1>4, <2>1 DEF RunWithPass, Inv
<1>5. ASSUME NEW u \in Users, NEW r \in Realms, RunWithPrompt(u, r) PROVE Inv'
  <2>1. ToolKnows'
    BY <1>5 DEF RunWithPrompt, ToolKnows
  <2> QED
    BY <1>2, <1>3, <1>5, <2>1 DEF RunWithPrompt, Inv
<1>6. ASSUME NEW p \in Passes, Answer(p) PROVE Inv'
  <2>1. PICK u \in Users, r \in Realms : tool = [at |-> "prompt", user |-> u, realm |-> r]
    BY <1>6 DEF Answer, Inv, ToolKnows, Idle
  <2>2. FirstWord(p) \in Seq(Letters)
    BY FirstWordType, TextsAssumption
  <2>3. [user |-> u, realm |-> r, pass |-> FirstWord(p)] \in Hashed
    BY <2>2 DEF Hashed
  <2>4. tool' = [at |-> "open", cred |-> [user |-> u, realm |-> r, pass |-> FirstWord(p)]]
    BY <1>6, <2>1 DEF Answer
  <2>5. ToolKnows'
    BY <2>3, <2>4 DEF ToolKnows
  <2> QED
    BY <1>2, <1>3, <1>6, <2>5 DEF Answer, Inv
<1>7. ASSUME Open PROVE Inv'
  <2>1. PICK c \in Hashed : tool = [at |-> "open", cred |-> c]
    BY <1>7 DEF Open, Inv, ToolKnows, Idle
  <2>2. tool' = [at |-> "write", cred |-> c]
    BY <1>7, <2>1 DEF Open
  <2>3. ToolKnows'
    BY <2>2 DEF ToolKnows
  <2>4. WrittenHashed' /\ FilesHeld'
    BY <1>1, <1>7 DEF Open, Inv, WrittenHashed, FilesHeld, Held
  <2> QED
    BY <1>2, <2>3, <2>4 DEF Inv
<1>8. ASSUME OpenFails \/ Killed PROVE Inv'
  <2>1. ToolKnows'
    BY <1>8 DEF OpenFails, Killed, ToolKnows
  <2> QED
    BY <1>2, <1>3, <1>8, <2>1 DEF OpenFails, Killed, Inv
<1>9. ASSUME Write PROVE Inv'
  <2>1. PICK c \in Hashed : tool = [at |-> "write", cred |-> c]
    BY <1>9 DEF Write, Inv, ToolKnows, Idle
  <2>2. file' = <<HA1(c)>> /\ written' = written \cup {c} /\ tool' = Idle
    BY <1>9, <2>1 DEF Write
  <2>3. ToolKnows' /\ WrittenHashed'
    BY <2>2 DEF Inv, ToolKnows, WrittenHashed
  <2>4. Held(file)' /\ Held(server)'
    BY <1>1, <2>2 DEF Inv, FilesHeld, Held
  <2> QED
    BY <1>2, <2>3, <2>4 DEF Inv, FilesHeld
<1> QED
  BY <1>4, <1>5, <1>6, <1>7, <1>8, <1>9 DEF Tool

LEMMA ClientStep ==
  ASSUME Inv, Client
  PROVE  Inv'
<1>1. PICK c, header : Ask(c, header) /\ Sent(c, header)
  BY DEF Client, Sent, Challenged
<1>2. UNCHANGED <<passwd, server, reply>> /\ server # <<>>
  BY <1>1 DEF Ask
<1>3. WrittenHashed' /\ ToolKnows' /\ FilesHeld'
  BY <1>2, PasswdKept DEF Inv, FilesHeld
<1>4. ReplyReasoned'
  BY <1>2 DEF Inv, ReplyReasoned, Reasoned, Admitted
<1>5. RequestHandled'
  <2>1. PICK t \in DOMAIN Targets, upgrade \in BOOLEAN :
          request' = <<[cred |-> c, header |-> header, target |-> t,
                        upgrade |-> upgrade, auth |-> "unasked", at |-> "header"]>>
    BY <1>1 DEF Ask
  <2> DEFINE q == [cred |-> c, header |-> header, target |-> t,
                   upgrade |-> upgrade, auth |-> "unasked", at |-> "header"]
  <2>2. /\ {"cred", "header", "auth", "at"} \subseteq DOMAIN q
        /\ q.cred = c /\ q.header = header /\ q.auth = "unasked"
    OBVIOUS
  <2>3. request' = <<q>>
    BY <2>1
  <2> HIDE DEF q
  <2>4. Handled(q)'
    BY <1>1, <2>2 DEF Handled, Sent
  <2> QED
    BY <1>2, <2>3, <2>4 DEF RequestHandled
<1> QED
  BY <1>3, <1>4, <1>5 DEF Inv

\* The first pass lets in those that digest_auth admits, and refuses the others.
LEMMA BeforeBodyStep ==
  ASSUME Inv, BeforeBody
  PROVE  Inv'
<1>1. PICK r : r = request[1]
  OBVIOUS
<1>2. /\ request = <<r>> /\ server # <<>>
      /\ {"cred", "header", "auth", "at"} \subseteq DOMAIN r
      /\ Sent(r.cred, r.header) /\ r.auth \in {"unasked", "passed"}
      /\ r.auth = "passed" => Admitted(r.header)
  BY <1>1 DEF BeforeBody, Inv, RequestHandled, Handled
<1>3. UNCHANGED <<passwd, server>>
  BY DEF BeforeBody
<1>4. WrittenHashed' /\ ToolKnows' /\ FilesHeld'
  BY <1>3, PasswdKept DEF Inv, FilesHeld
<1> DEFINE guarded == Targets[r.target].guarded
           answer == IF guarded THEN DigestAuth(server[1], r.header) ELSE 0
<1>5. PICK verdict : verdict = answer
  OBVIOUS
<1> DEFINE q == [r EXCEPT !.at = "body", !.auth = IF guarded THEN "passed" ELSE @]
           a == [cred |-> r.cred, auth |-> "refused", status |-> verdict, name |-> NoUser]
<1>6. CASE verdict = 0
  <2>1. request' = <<q>> /\ reply' = reply
    BY <1>1, <1>6, <1>5 DEF BeforeBody
  <2>2. /\ {"cred", "header", "auth", "at"} \subseteq DOMAIN q
        /\ q.cred = r.cred /\ q.header = r.header
        /\ q.auth = IF guarded THEN "passed" ELSE r.auth
    BY <1>2
  <2>3. guarded => Admitted(r.header)
    <3>1. guarded => DigestAuth(server[1], r.header) = 0
      BY <1>6, <1>5
    <3>2. guarded => r.header # <<>>
      BY <3>1 DEF DigestAuth
    <3>3. guarded /\ r.header # <<>> => ~Throws(Head(r.header))
      BY <1>1 DEF BeforeBody
    <3> QED
      BY <3>1, <3>2, <3>3 DEF Admitted
  <2> HIDE DEF q
  <2>4. Handled(q)
    <3> HIDE DEF guarded
    <3> QED
      BY <1>2, <2>2, <2>3 DEF Handled
  <2>5. Handled(q)'
    BY <1>3, <2>4, <2>1 DEF Handled, Admitted, Sent, q
  <2>6. RequestHandled'
    BY <1>2, <1>3, <2>1, <2>5 DEF RequestHandled
  <2>7. ReplyReasoned'
    BY <1>3, <2>1 DEF Inv, ReplyReasoned, Reasoned, Admitted
  <2> QED
    BY <1>4, <2>6, <2>7 DEF Inv
<1>7. CASE verdict # 0
  <2>1. request' = <<>> /\ reply' = <<a>>
    BY <1>1, <1>7, <1>5 DEF BeforeBody, Answered
  <2>2. DigestAuth(server[1], r.header) # 0
    BY <1>7, <1>5
  <2>3. a.cred = r.cred /\ a.auth = "refused"
    OBVIOUS
  <2> DEFINE header == r.header
  <2>4. Sent(a.cred, header) /\ DigestAuth(server[1], header) # 0
    BY <1>2, <2>2, <2>3
  <2> HIDE DEF a, header
  <2>5. Reasoned(a, header)'
    BY <1>3, <2>3, <2>4 DEF Reasoned, Sent
  <2>6. ReplyReasoned'
    BY <1>2, <1>3, <2>1, <2>5 DEF ReplyReasoned
  <2>7. RequestHandled'
    BY <2>1 DEF RequestHandled
  <2> QED
    BY <1>4, <2>6, <2>7 DEF Inv
<1> QED
  BY <1>6, <1>7

\* An answer of the second pass carries what the first one found.
LEMMA SecondPass ==
  ASSUME Inv, NEW status, NEW name, request # <<>>,
         Answered(request[1].auth, status, name), UNCHANGED <<passwd, server>>,
         status = 101 => name = Name(Deref(Parse(Head(request[1].header))))
  PROVE  Inv'
<1>1. PICK r : r = request[1]
  OBVIOUS
<1> DEFINE a == [cred |-> r.cred, auth |-> r.auth, status |-> status, name |-> name]
           header == r.header
<1>2. /\ server # <<>> /\ Sent(r.cred, header) /\ r.auth \in {"unasked", "passed"}
      /\ r.auth = "passed" => Admitted(header)
  BY <1>1 DEF Inv, RequestHandled, Handled
<1>3. WrittenHashed' /\ ToolKnows' /\ FilesHeld'
  BY PasswdKept DEF Inv, FilesHeld
<1>4. request' = <<>> /\ reply' = <<a>>
  BY <1>1 DEF Answered
<1>5. a.cred = r.cred /\ a.auth = r.auth /\ a.status = status /\ a.name = name
  OBVIOUS
<1>6. a.status = 101 => a.name = Name(Deref(Parse(Head(header))))
  BY <1>1, <1>5
<1> HIDE DEF a, header
<1>7. Reasoned(a, header)
  BY <1>2, <1>5, <1>6 DEF Reasoned
<1>8. Reasoned(a, header)'
  BY <1>2, <1>5, <1>6 DEF Reasoned, Admitted, Sent
<1>9. RequestHandled' /\ ReplyReasoned'
  BY <1>2, <1>4, <1>8 DEF RequestHandled, ReplyReasoned
<1> QED
  BY <1>3, <1>9 DEF Inv

LEMMA ServerStep ==
  ASSUME Inv,
         \/ Start \/ StartUnreadable \/ Stop
         \/ BeforeBody \/ BeforeBodyThrows \/ Handle \/ OnWsUpgrade \/ OnWsRefused
  PROVE  Inv'
<1>1. ASSUME Start \/ StartUnreadable PROVE Inv'
  <2>1. /\ server = <<>> /\ server' \in {file, <<<<>>>>}
        /\ UNCHANGED passwd /\ request' = request /\ reply' = reply
    BY <1>1 DEF Start, StartUnreadable
  <2>2. WrittenHashed' /\ ToolKnows' /\ FilesHeld'
    BY <2>1, PasswdKept DEF Inv, FilesHeld
  <2>3. request = <<>> /\ reply = <<>>
    BY <2>1 DEF Inv, RequestHandled, ReplyReasoned
  <2>4. RequestHandled' /\ ReplyReasoned'
    BY <2>1, <2>3 DEF RequestHandled, ReplyReasoned
  <2> QED
    BY <2>2, <2>4 DEF Inv
<1>2. ASSUME Stop \/ BeforeBodyThrows \/ OnWsRefused PROVE Inv'
  BY <1>2, ServerEndsInv DEF Stop, BeforeBodyThrows, OnWsRefused
<1>3. ASSUME Handle PROVE Inv'
  <2> DEFINE r == request[1]
             status == ServeFiles(r.target)
  <2>1. status # 101
    BY DEF ServeFiles
  <2>2. /\ request # <<>> /\ Answered(request[1].auth, status, NoUser)
        /\ UNCHANGED <<passwd, server>>
    BY <1>3 DEF Handle
  <2> HIDE DEF status
  <2> QED
    BY <2>1, <2>2, SecondPass
<1>4. ASSUME OnWsUpgrade PROVE Inv'
  <2> DEFINE name == Name(Deref(Parse(Head(request[1].header))))
  <2>1. /\ request # <<>> /\ Answered(request[1].auth, 101, name)
        /\ UNCHANGED <<passwd, server>>
    BY <1>4 DEF OnWsUpgrade
  <2> QED
    BY <2>1, SecondPass
<1> QED
  BY <1>1, <1>2, <1>3, <1>4, BeforeBodyStep

LEMMA StepInv == Inv /\ [Next]_vars => Inv'
<1>1. ASSUME Inv, UNCHANGED vars PROVE Inv'
  <2>1. WrittenHashed' /\ ToolKnows' /\ FilesHeld'
    BY <1>1, PasswdKept DEF Inv, FilesHeld, vars, http
  <2>2. RequestHandled' /\ ReplyReasoned'
    BY <1>1, ServerKept DEF Inv, vars, http
  <2> QED
    BY <2>1, <2>2 DEF Inv
<1> QED
  BY <1>1, ToolStep, ClientStep, ServerStep DEF Next

LEMMA Reasons == Spec => []Inv
BY InitInv, StepInv, PTL DEF Spec

-----------------------------------------------------------------------------
(* Whom the invariant lets in.                                             *)

LEMMA HeldIsHash ==
  ASSUME NEW f, Held(f), WrittenHashed, f # <<>>
  PROVE  /\ Hash(f[1])
         /\ f[1] # <<>> => \E w \in written : f = <<HA1(w)>>
<1>1. CASE f = <<<<>>>>
  <2>1. f[1] = <<>>
    BY <1>1
  <2> QED
    BY <2>1 DEF Hash
<1>2. CASE \E w \in written : f = <<HA1(w)>>
  <2>1. PICK w \in written : f = <<HA1(w)>>
    BY <1>2
  <2>2. f[1] = HA1(w)
    BY <2>1
  <2>3. \E e : HA1(w) = <<<<"md5", e>>>>
    BY DigestChars DEF HA1
  <2> QED
    BY <2>1, <2>2, <2>3 DEF Hash
<1> QED
  BY <1>1, <1>2 DEF Held

\* A browser whose header is admitted has credentials that hash to what the server
\* holds.
LEMMA AdmittedKnows ==
  ASSUME Inv, server # <<>>, NEW c, c # NoOne, NEW header, Sent(c, header),
         Admitted(header)
  PROVE  c \in Challenged /\ header = <<Rendered(c)>> /\ server[1] = HA1(c)
<1>1. Hash(server[1])
  BY HeldIsHash DEF Inv, FilesHeld
<1>2. ~Throws(Head(header)) /\ DigestAuth(server[1], header) = 0
  BY DEF Admitted
<1>3. c \in Challenged /\ header = <<Rendered(c)>>
  BY DEF Sent
<1>4. Head(header) = Rendered(c)
  BY <1>3
<1>5. server[1] = HA1(c)
  BY <1>1, <1>2, <1>3, <1>4, AcceptedHash
<1> QED
  BY <1>3, <1>5

\* The reply of a state of the invariant, taken apart.
LEMMA ReplyIs ==
  ASSUME Inv, reply # <<>>
  PROVE  server # <<>> /\ DOMAIN reply = {1} /\ \E header : Reasoned(reply[1], header)
<1>1. PICK a, header : reply = <<a>> /\ Reasoned(a, header)
  BY DEF Inv, ReplyReasoned
<1>2. server # <<>>
  BY DEF Inv, ReplyReasoned
<1>3. reply[1] = a /\ DOMAIN reply = {1}
  BY <1>1
<1> QED
  BY <1>1, <1>2, <1>3

\* A browser that is let in has the user name and the password of a run of wspasswd
\* under the server's realm, the one whose hash the server read when it started:
\* whatever the user is called, parse finds the response with the nonce and the target
\* it was computed from, digest_auth computes it from what the server holds, and two
\* runs have one hash only when they hashed the same user and password.  This supposes
\* that no name has a colon, which RFC 7616 forbids, and nothing of other clients.
THEOREM OnlyKnownAccepted ==
  ASSUME NamesWithoutColons
  PROVE  Spec => []AcceptedIsCurrent
<1>1. ASSUME Inv PROVE AcceptedIsCurrent
  <2> SUFFICES ASSUME NEW i \in DOMAIN reply, reply[i].auth = "passed",
                      reply[i].cred # NoOne
               PROVE  reply[i].cred \in written /\ server = <<HA1(reply[i].cred)>>
    BY DEF AcceptedIsCurrent
  <2>0. i = 1 /\ server # <<>> /\ reply # <<>>
    <3>1. reply # <<>>
      OBVIOUS
    <3> QED
      BY <1>1, <3>1, ReplyIs
  <2> DEFINE c == reply[1].cred
  <2>1. server # <<>> /\ c # NoOne
    BY <2>0
  <2>2. PICK header : Sent(c, header) /\ Admitted(header)
    BY <1>1, <2>0, ReplyIs DEF Reasoned
  <2> HIDE DEF c
  <2>3. c \in Challenged /\ server[1] = HA1(c)
    BY <1>1, <2>1, <2>2, AdmittedKnows
  <2>4. HA1(c) # <<>> /\ c \in Hashed
    <3>1. PICK e : HA1(c) = <<<<"md5", e>>>>
      BY <2>3, ChallengedHashed
    <3>2. c \in Hashed
      BY <2>3, ChallengedHashed
    <3> QED
      BY <3>1, <3>2
  <2>5. PICK w \in written : server = <<HA1(w)>>
    BY <1>1, <2>1, <2>3, <2>4, HeldIsHash DEF Inv, FilesHeld
  <2>6. HA1(c) = HA1(w) /\ w \in Hashed
    BY <1>1, <2>3, <2>5 DEF Inv, WrittenHashed
  <2>7. c = w
    BY <2>4, <2>6, HashOnce
  <2> QED
    BY <2>0, <2>5, <2>7 DEF c
<1> QED
  BY <1>1, Reasons, PTL

\* A browser with the credentials that the server read is let in, whatever marks there
\* are in the user's name but ", ": of what it renders parse finds the five fields,
\* each with the text that was quoted, and digest_auth the response it computes.
THEOREM KnownNotRefused == Spec => []KnownIsAccepted
<1>1. ASSUME Inv PROVE KnownIsAccepted
  <2> SUFFICES ASSUME NEW i \in DOMAIN reply,
                      reply[i].cred # NoOne, Plain(reply[i].cred.user),
                      server = <<HA1(reply[i].cred)>>, reply[i].auth = "refused"
               PROVE  FALSE
    BY DEF KnownIsAccepted
  <2>1. i = 1
    <3>1. reply # <<>>
      OBVIOUS
    <3> QED
      BY <1>1, <3>1, ReplyIs
  <2> DEFINE c == reply[1].cred
  <2>2. PICK header : Sent(c, header) /\ DigestAuth(server[1], header) # 0
    BY <1>1, <2>1, ReplyIs DEF Reasoned
  <2>3. c # NoOne /\ Plain(c.user) /\ server[1] = HA1(c)
    BY <2>1
  <2> HIDE DEF c
  <2>4. c \in Challenged /\ header = <<Rendered(c)>>
    BY <2>2, <2>3 DEF Sent
  <2>5. DigestAuth(HA1(c), <<Rendered(c)>>) = 0
    BY <2>3, <2>4, KnownAccepted
  <2> QED
    BY <2>2, <2>3, <2>4, <2>5
<1> QED
  BY <1>1, Reasons, PTL

\* A session is registered under the user name of the browser that was let in, each
\* quote in it escaped, if the name has no ", " in it: the handler parses the header a
\* second time, and finds the field that digest_auth compared.
THEOREM SessionOfUser == Spec => []SessionNamed
<1>1. ASSUME Inv PROVE SessionNamed
  <2> SUFFICES ASSUME NEW i \in DOMAIN reply, reply[i].auth = "passed",
                      reply[i].status = 101, reply[i].cred # NoOne,
                      Plain(reply[i].cred.user)
               PROVE  reply[i].name = Escaped(reply[i].cred.user)
    BY DEF SessionNamed
  <2>1. i = 1 /\ server # <<>>
    <3>1. reply # <<>>
      OBVIOUS
    <3> QED
      BY <1>1, <3>1, ReplyIs
  <2> DEFINE c == reply[1].cred
             name == reply[1].name
  <2>2. PICK header : /\ Sent(c, header) /\ Admitted(header)
                      /\ name = Name(Deref(Parse(Head(header))))
    BY <1>1, <2>1, ReplyIs DEF Reasoned
  <2>3. Plain(c.user) /\ c # NoOne
    BY <2>1
  <2> HIDE DEF c, name
  <2>4. c \in Challenged /\ header = <<Rendered(c)>>
    BY <1>1, <2>1, <2>2, <2>3, AdmittedKnows
  <2>5. Parsed(Rendered(c), Escaped(c.user), Response(c))
    BY <2>3, <2>4, PlainParsed
  <2>6. Head(header) = Rendered(c)
    BY <2>4
  <2>7. name = Escaped(c.user)
    <3>1. /\ "username" \in DOMAIN Deref(Parse(Rendered(c)))
          /\ Deref(Parse(Rendered(c)))["username"] = Escaped(c.user)
      BY <2>5 DEF Parsed, Needed
    <3>2. name = Name(Deref(Parse(Rendered(c))))
      BY <2>2, <2>6
    <3> QED
      BY <3>1, <3>2 DEF Name
  <2> QED
    BY <2>1, <2>7 DEF c, name
<1> QED
  BY <1>1, Reasons, PTL
=============================================================================
