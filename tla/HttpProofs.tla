----------------------------- MODULE HttpProofs -----------------------------
(***************************************************************************)
(* For any number of connections and requests: every operation has its     *)
(* deadline, and each connection is an HTTP exchange.                      *)
(***************************************************************************)
EXTENDS HttpServer, TLAPS

USE RequestsAssumption

Headers == [request : Requests, number : Nat]

Torn(c) == \E i \in DOMAIN answered[c] :
             answered[c][i] # 0 /\ asked[c][answered[c][i]].body

\* A request of the client is the last whose header was read, and none after it is
\* answered; a header with no number was found in the body of one that is.
Numbered(c) ==
  LET h == Current(c) IN
  /\ h \in Headers
  /\ h.number # 0 =>
       /\ h.number = read[c] /\ h.request = asked[c][read[c]]
       /\ \A i \in DOMAIN answered[c] : answered[c][i] < read[c]
       /\ unread[c] => h.request.body
  /\ h.number = 0 => Torn(c)
  /\ Torn(c) \/ Len(answered[c]) + 1 = read[c]

\* What an exchange needs: bytes of a body are left only where a request with one was
\* answered, and where none was, as many requests are answered as headers were read, but
\* for the one that is handled.
CountedAt(c) ==
  /\ \A i \in DOMAIN answered[c] : answered[c][i] <= read[c]
  /\ pc[c] \in {"away", "backlog", "handshake"} =>
       read[c] = 0 /\ answered[c] = <<>> /\ ~unread[c]
  /\ pc[c] = "header" => /\ unread[c] => Torn(c)
                         /\ Torn(c) \/ Len(answered[c]) = read[c]
  /\ pc[c] \in {"body", "write"} => Numbered(c)

Counted == \A c \in Clients : CountedAt(c)

Inv == TypeOK /\ Timed /\ Counted

-----------------------------------------------------------------------------
LEMMA EmptyLen == \A S : <<>> \in Seq(S) /\ Len(<<>>) = 0 /\ DOMAIN <<>> = {}
OBVIOUS

LEMMA Appended ==
  ASSUME NEW S, NEW s \in Seq(S), NEW e \in S
  PROVE  /\ Append(s, e) \in Seq(S)
         /\ Len(Append(s, e)) = Len(s) + 1
         /\ Len(s) \in Nat
         /\ DOMAIN s = 1..Len(s) /\ DOMAIN Append(s, e) = 1..(Len(s) + 1)
         /\ \A i \in 1..Len(s) : Append(s, e)[i] = s[i]
         /\ Append(s, e)[Len(s) + 1] = e
OBVIOUS

LEMMA Element ==
  ASSUME NEW S, NEW s \in Seq(S), NEW i \in 1..Len(s)
  PROVE  s[i] \in S
OBVIOUS

LEMMA OneHeader ==
  ASSUME NEW h \in Headers
  PROVE  <<h>> \in Seq(Headers) /\ <<h>>[1] = h
OBVIOUS

LEMMA Lengths ==
  ASSUME TypeOK, NEW c \in Clients
  PROVE  /\ asked[c] \in Seq(Requests) /\ Len(asked[c]) \in Nat
         /\ answered[c] \in Seq(Nat) /\ Len(answered[c]) \in Nat
         /\ read[c] \in Nat /\ read[c] <= Len(asked[c])
         /\ DOMAIN answered[c] = 1..Len(answered[c])
         /\ \A i \in DOMAIN answered[c] : answered[c][i] \in Nat
  BY DEF TypeOK

\* a connection on which nothing happens
LEMMA OtherCounted ==
  ASSUME NEW d \in Clients, CountedAt(d),
         pc'[d] = pc[d], asked'[d] = asked[d], read'[d] = read[d],
         unread'[d] = unread[d], parser'[d] = parser[d], answered'[d] = answered[d]
  PROVE  CountedAt(d)'
  BY DEF CountedAt, Numbered, Torn, Current

\* what holds of a connection that handles nothing, whatever its operation
LEMMA IdleCounted ==
  ASSUME NEW d \in Clients, CountedAt(d),
         pc'[d] \in {"shutdown", "websocket", "closed"},
         read'[d] = read[d], answered'[d] = answered[d]
  PROVE  CountedAt(d)'
  BY DEF CountedAt

-----------------------------------------------------------------------------
LEMMA InitInv == ASSUME Init PROVE Inv
<1>1. TypeOK
  BY EmptyLen DEF Init, TypeOK
<1>2. Timed
  BY DEF Init, Timed, Operations
<1>3. Counted
  BY EmptyLen DEF Init, Counted, CountedAt
<1> QED
  BY <1>1, <1>2, <1>3 DEF Inv

\* a step that only moves a connection from one operation to another
LEMMA MoveInv ==
  ASSUME Inv, NEW c \in Clients, NEW p, NEW d, NEW q,
         p \in {"away", "backlog", "websocket", "closed"} \union Operations,
         d \in {"unset", "armed", "never"},
         q \in {<<>>, parser[c]},
         pc' = [pc EXCEPT ![c] = p], deadline' = [deadline EXCEPT ![c] = d],
         parser' = [parser EXCEPT ![c] = q],
         acceptor' = acceptor, UNCHANGED <<tls, asked, read, unread, answered>>,
         p \in Operations => d = "armed",
         p = "websocket" => d = "never",
         \/ p \in {"shutdown", "websocket", "closed"}
         \/ pc[c] \in {"away", "backlog", "handshake"}
              /\ p \in {"backlog", "handshake", "header"}
         \/ pc[c] = "body" /\ p = "write" /\ q = parser[c]
  PROVE  Inv'
<1>1. TypeOK'
  <2>1. q \in Seq(Headers)
    BY EmptyLen DEF Inv, TypeOK, Headers
  <2> QED
    BY <2>1 DEF Inv, TypeOK, Headers
<1>2. Timed'
  BY DEF Inv, TypeOK, Timed, Operations
<1>3. ASSUME NEW e \in Clients PROVE CountedAt(e)'
  <2>1. CountedAt(e)
    BY DEF Inv, Counted
  <2>2. CASE e # c
    BY <2>1, <2>2, OtherCounted DEF Inv, TypeOK
  <2>3. CASE e = c /\ p \in {"shutdown", "websocket", "closed"}
    BY <2>1, <2>3, IdleCounted DEF Inv, TypeOK
  <2>4. CASE e = c /\ pc[c] \in {"away", "backlog", "handshake"}
                  /\ p \in {"backlog", "handshake", "header"}
    <3>1. pc'[c] = p
      BY DEF Inv, TypeOK
    <3> QED
      BY <2>1, <2>4, <3>1, EmptyLen DEF CountedAt
  <2>5. CASE e = c /\ pc[c] = "body" /\ p = "write" /\ q = parser[c]
    <3>1. pc'[c] = "write" /\ parser'[c] = parser[c]
      BY <2>5 DEF Inv, TypeOK
    <3>2. Numbered(c)
      BY <2>1, <2>5 DEF CountedAt
    <3>3. Numbered(c)'
      BY <3>1, <3>2 DEF Numbered, Torn, Current
    <3> QED
      BY <2>1, <2>5, <3>1, <3>3 DEF CountedAt
  <2> QED
    BY <2>2, <2>3, <2>4, <2>5
<1> QED
  BY <1>1, <1>2, <1>3 DEF Inv, Counted

LEMMA EndsInv ==
  ASSUME Inv, NEW c \in Clients, Ends(c), UNCHANGED <<tls, acceptor, asked, read, unread, answered>>
  PROVE  Inv'
<1>1. deadline' = [deadline EXCEPT ![c] = deadline[c]] /\ deadline[c] \in {"unset", "armed", "never"}
  BY DEF Inv, TypeOK, Ends
<1> QED
  BY <1>1, MoveInv DEF Ends, Starts, Forgets, Operations

LEMMA DoEofInv ==
  ASSUME Inv, NEW c \in Clients, DoEof(c), UNCHANGED <<tls, acceptor, asked, read, unread, answered>>
  PROVE  Inv'
<1>1. CASE tls
  BY <1>1, MoveInv DEF DoEof, Starts, ExpiresAfter, Forgets, Operations
<1>2. CASE ~tls
  BY <1>2, EndsInv DEF DoEof
<1> QED
  BY <1>1, <1>2

\* what the two ways to read a header share
LEMMA ParsesInv ==
  ASSUME Inv, NEW c \in Clients, NEW h \in Headers, NEW p \in {"body", "write"},
         NEW n \in Nat, NEW more \in BOOLEAN,
         pc[c] = "header", n <= Len(asked[c]), read[c] <= n,
         pc' = [pc EXCEPT ![c] = p], parser' = [parser EXCEPT ![c] = <<h>>],
         read' = [read EXCEPT ![c] = n], unread' = [unread EXCEPT ![c] = more],
         UNCHANGED <<tls, acceptor, deadline, asked, answered>>,
         h.number # 0 => /\ h.number = n /\ h.request = asked[c][n] /\ read[c] < n
                         /\ more => h.request.body,
         h.number = 0 => Torn(c),
         Torn(c) \/ Len(answered[c]) + 1 = n
  PROVE  Inv'
<1>1. TypeOK'
  <2>1. <<h>> \in Seq(Headers)
    BY OneHeader
  <2> QED
    BY <2>1 DEF Inv, TypeOK, Headers, Operations
<1>2. Timed'
  BY DEF Inv, TypeOK, Timed, Operations
<1>3. ASSUME NEW e \in Clients PROVE CountedAt(e)'
  <2>1. CountedAt(e)
    BY DEF Inv, Counted
  <2>2. CASE e # c
    BY <2>1, <2>2, OtherCounted DEF Inv, TypeOK
  <2>3. CASE e = c
    <3>1. /\ pc'[c] = p /\ parser'[c] = <<h>> /\ read'[c] = n /\ unread'[c] = more
          /\ asked'[c] = asked[c] /\ answered'[c] = answered[c]
      BY DEF Inv, TypeOK
    <3>2. \A i \in DOMAIN answered[c] : answered[c][i] <= read[c] /\ answered[c][i] \in Nat
      BY <2>1, <2>3, Lengths DEF CountedAt, Inv
    <3>3. \A i \in DOMAIN answered[c] : answered[c][i] <= n
      BY <3>2, Lengths DEF Inv
    <3>4. h.number # 0 => \A i \in DOMAIN answered[c] : answered[c][i] < n
      BY <3>2, Lengths DEF Inv
    <3>5. Current(c)' = h
      BY <3>1, OneHeader DEF Current
    <3>6. Torn(c)' <=> Torn(c)
      BY <3>1 DEF Torn
    <3>7. Numbered(c)'
      BY <3>1, <3>4, <3>5, <3>6 DEF Numbered
    <3> QED
      BY <2>3, <3>1, <3>3, <3>7 DEF CountedAt
  <2> QED
    BY <2>2, <2>3
<1> QED
  BY <1>1, <1>2, <1>3 DEF Inv, Counted

LEMMA ReadHeaderInv ==
  ASSUME Inv, NEW c \in Clients, OnReadHeader(c)
  PROVE  Inv'
<1> DEFINE n == read[c] + 1
           r == asked[c][n]
           h == [request |-> r, number |-> n]
<1>1. pc[c] = "header" /\ n \in 1..Len(asked[c]) /\ read[c] \in Nat /\ n \in Nat
  BY Lengths DEF Inv, OnReadHeader
<1>2. r \in Requests
  BY <1>1, Lengths, Element DEF Inv
<1>3. Torn(c) \/ Len(answered[c]) = read[c]
  BY <1>1 DEF Inv, Counted, CountedAt
<1>4. /\ read' = [read EXCEPT ![c] = n] /\ unread' = [unread EXCEPT ![c] = r.body]
      /\ parser' = [parser EXCEPT ![c] = <<h>>]
      /\ UNCHANGED <<tls, acceptor, deadline, asked, answered>>
  BY DEF OnReadHeader, Parses
<1>5. PICK p \in {"body", "write"} : pc' = [pc EXCEPT ![c] = p]
  BY DEF OnReadHeader, Starts, AfterHeader
<1>6. h \in Headers /\ h.number = n /\ h.request = r /\ r.body \in BOOLEAN
  BY <1>1, <1>2 DEF Headers
<1>7. n # 0 /\ read[c] < n /\ (Torn(c) \/ Len(answered[c]) + 1 = n) /\ read[c] <= n
      /\ n <= Len(asked[c])
  BY <1>1, <1>3, Lengths DEF Inv
<1> HIDE DEF h, n
<1> QED
  BY <1>1, <1>4, <1>5, <1>6, <1>7, ParsesInv

LEMMA ReadLeftoverInv ==
  ASSUME Inv, NEW c \in Clients, OnReadLeftover(c)
  PROVE  Inv'
<1>1. pc[c] = "header" /\ Torn(c)
  BY DEF OnReadLeftover, Inv, Counted, CountedAt
<1>2. PICK r \in Requests : Parses(c, r, 0) /\ Starts(c, AfterHeader(r))
  BY DEF OnReadLeftover
<1> DEFINE h == [request |-> r, number |-> 0]
<1>3. parser' = [parser EXCEPT ![c] = <<h>>]
      /\ UNCHANGED <<tls, acceptor, deadline, asked, answered>>
  BY <1>2 DEF Parses, OnReadLeftover
<1>4. PICK p \in {"body", "write"} : pc' = [pc EXCEPT ![c] = p]
  BY <1>2 DEF Starts, AfterHeader
<1>5. h \in Headers /\ h.number = 0
  BY DEF Headers
<1>6. \E n \in Nat : \E more \in BOOLEAN :
        /\ n <= Len(asked[c]) /\ read[c] <= n
        /\ read' = [read EXCEPT ![c] = n] /\ unread' = [unread EXCEPT ![c] = more]
  <2>1. read[c] \in Nat /\ Len(asked[c]) \in Nat /\ read[c] <= Len(asked[c])
    BY Lengths DEF Inv
  <2>2. CASE UNCHANGED read
    <3>1. read' = [read EXCEPT ![c] = read[c]]
      BY <2>2 DEF Inv, TypeOK
    <3>2. PICK more \in BOOLEAN : unread' = [unread EXCEPT ![c] = more]
      <4>1. CASE \E more \in BOOLEAN : unread' = [unread EXCEPT ![c] = more]
        BY <4>1
      <4>2. CASE read[c] < Len(asked[c]) /\ read' = [read EXCEPT ![c] = @ + 1]
        BY <2>1, <2>2, <4>2 DEF Inv, TypeOK
      <4> QED
        BY <4>1, <4>2 DEF OnReadLeftover
    <3>3. PICK n \in Nat : n = read[c] /\ n <= n
      BY <2>1
    <3>4. /\ n <= Len(asked[c]) /\ read[c] <= n /\ read' = [read EXCEPT ![c] = n]
      BY <2>1, <3>1, <3>3
    <3> QED
      BY <3>2, <3>4
  <2>3. CASE read # read'
    <3>1. /\ read[c] < Len(asked[c]) /\ read' = [read EXCEPT ![c] = read[c] + 1]
          /\ unread' = [unread EXCEPT ![c] = asked[c][read[c] + 1].body]
      BY <2>3 DEF OnReadLeftover
    <3>2. asked[c][read[c] + 1] \in Requests
      BY <2>1, <3>1, Lengths, Element DEF Inv
    <3>3. asked[c][read[c] + 1].body \in BOOLEAN
      BY <3>2
    <3>4. PICK n \in Nat : n = read[c] + 1
      BY <2>1
    <3>5. /\ n <= Len(asked[c]) /\ read[c] <= n /\ read' = [read EXCEPT ![c] = n]
      BY <2>1, <3>1, <3>4
    <3>6. PICK more \in BOOLEAN : more = asked[c][read[c] + 1].body
      BY <3>3
    <3> QED
      BY <3>1, <3>5, <3>6
  <2> QED
    BY <2>2, <2>3
<1>7. PICK n \in Nat, more \in BOOLEAN :
        /\ n <= Len(asked[c]) /\ read[c] <= n
        /\ read' = [read EXCEPT ![c] = n] /\ unread' = [unread EXCEPT ![c] = more]
  BY <1>6
<1> HIDE DEF h
<1> QED
  BY <1>1, <1>3, <1>4, <1>5, <1>7, ParsesInv

LEMMA WriteInv ==
  ASSUME Inv, NEW c \in Clients, OnWrite(c)
  PROVE  Inv'
<1> DEFINE k == Current(c).number
<1>1. /\ pc[c] = "write"
      /\ answered' = [answered EXCEPT ![c] = Append(answered[c], k)]
      /\ UNCHANGED <<tls, acceptor, asked, read, unread>>
      /\ \/ DoReadHeader(c)
         \/ tls /\ Starts(c, "shutdown") /\ ExpiresAfter(c) /\ Forgets(c)
         \/ Ends(c)
  BY DEF OnWrite, DoEof
<1>2. Numbered(c) /\ \A i \in DOMAIN answered[c] : answered[c][i] <= read[c]
  BY <1>1 DEF Inv, Counted, CountedAt
<1>3. k \in Nat /\ k <= read[c]
  BY <1>2, Lengths DEF Numbered, Headers, Inv
<1>4. PICK p \in {"header", "shutdown", "closed"} :
        /\ pc' = [pc EXCEPT ![c] = p] /\ parser' = [parser EXCEPT ![c] = <<>>]
        /\ p # "closed" => deadline' = [deadline EXCEPT ![c] = "armed"]
        /\ p = "closed" => deadline' = deadline
  BY <1>1 DEF DoReadHeader, Starts, ExpiresAfter, Ends, Forgets
<1>5. /\ Append(answered[c], k) \in Seq(Nat)
      /\ Len(Append(answered[c], k)) = Len(answered[c]) + 1
      /\ DOMAIN Append(answered[c], k) = 1..(Len(answered[c]) + 1)
      /\ DOMAIN answered[c] = 1..Len(answered[c])
      /\ \A i \in 1..Len(answered[c]) : Append(answered[c], k)[i] = answered[c][i]
      /\ Append(answered[c], k)[Len(answered[c]) + 1] = k
      /\ Len(answered[c]) \in Nat
  BY <1>3, Lengths, Appended DEF Inv
<1>6. TypeOK'
  BY <1>1, <1>4, <1>5, EmptyLen DEF Inv, TypeOK, Operations
<1>7. Timed'
  BY <1>1, <1>4 DEF Inv, TypeOK, Timed, Operations
<1>8. ASSUME NEW e \in Clients PROVE CountedAt(e)'
  <2>1. CountedAt(e)
    BY DEF Inv, Counted
  <2>2. CASE e # c
    BY <1>1, <1>4, <2>1, <2>2, OtherCounted DEF Inv, TypeOK
  <2>3. CASE e = c
    <3> DEFINE m == Len(answered[c])
    <3>1. /\ pc'[c] = p /\ read'[c] = read[c] /\ unread'[c] = unread[c]
          /\ asked'[c] = asked[c] /\ answered'[c] = Append(answered[c], k)
      BY <1>1, <1>4 DEF Inv, TypeOK
    <3>2. /\ DOMAIN answered'[c] = 1..(m + 1) /\ DOMAIN answered[c] = 1..m /\ m \in Nat
          /\ \A i \in 1..m : answered'[c][i] = answered[c][i]
          /\ answered'[c][m + 1] = k /\ Len(answered'[c]) = m + 1
      BY <1>5, <3>1
    <3> HIDE DEF m
    <3>3. \A i \in DOMAIN answered'[c] : answered'[c][i] <= read'[c]
      <4> SUFFICES ASSUME NEW i \in DOMAIN answered'[c] PROVE answered'[c][i] <= read'[c]
        OBVIOUS
      <4>1. i \in 1..m \/ i = m + 1
        BY <3>2
      <4> QED
        BY <1>2, <1>3, <3>1, <3>2, <4>1
    <3>4. Torn(c) => Torn(c)'
      <4> SUFFICES ASSUME Torn(c) PROVE Torn(c)'
        OBVIOUS
      <4>1. PICK i \in 1..m : answered[c][i] # 0 /\ asked[c][answered[c][i]].body
        BY <3>2 DEF Torn
      <4>2. i \in DOMAIN answered'[c] /\ answered'[c][i] = answered[c][i]
        BY <3>2, <4>1
      <4> QED
        BY <3>1, <4>1, <4>2 DEF Torn
    <3>5. k # 0 /\ asked[c][k].body => Torn(c)'
      <4>1. m + 1 \in DOMAIN answered'[c]
        BY <3>2
      <4> QED
        BY <3>1, <3>2, <4>1 DEF Torn
    <3>6. unread[c] => Torn(c)'
      BY <1>2, <3>4, <3>5 DEF Numbered
    <3>7. Torn(c)' \/ Len(answered'[c]) = read'[c]
      BY <1>2, <3>1, <3>2, <3>4 DEF Numbered, m
    <3> QED
      BY <1>4, <2>3, <3>1, <3>3, <3>6, <3>7 DEF CountedAt
  <2> QED
    BY <2>2, <2>3
<1> QED
  BY <1>6, <1>7, <1>8 DEF Inv, Counted

LEMMA AskInv ==
  ASSUME Inv, NEW c \in Clients, NEW r \in Requests, Ask(c, r)
  PROVE  Inv'
<1>1. /\ Append(asked[c], r) \in Seq(Requests)
      /\ Len(Append(asked[c], r)) = Len(asked[c]) + 1
      /\ \A i \in 1..Len(asked[c]) : Append(asked[c], r)[i] = asked[c][i]
  BY Lengths, Appended DEF Inv
<1>2. TypeOK'
  <2>1. asked' = [asked EXCEPT ![c] = Append(asked[c], r)]
        /\ UNCHANGED <<tls, acceptor, pc, deadline, read, unread, parser, answered>>
    BY DEF Ask
  <2>2. \A d \in Clients : read[d] <= Len(asked'[d])
    <3> SUFFICES ASSUME NEW d \in Clients PROVE read[d] <= Len(asked'[d])
      OBVIOUS
    <3>1. read[d] \in Nat /\ read[d] <= Len(asked[d]) /\ Len(asked[d]) \in Nat
      BY Lengths DEF Inv
    <3>2. asked'[d] = IF d = c THEN Append(asked[c], r) ELSE asked[d]
      BY <2>1 DEF Inv, TypeOK
    <3> QED
      BY <1>1, <3>1, <3>2
  <2> QED
    BY <1>1, <2>1, <2>2 DEF Inv, TypeOK
<1>3. Timed'
  BY DEF Ask, Inv, Timed
<1>4. ASSUME NEW e \in Clients PROVE CountedAt(e)'
  <2>1. CountedAt(e)
    BY DEF Inv, Counted
  <2>2. CASE e # c
    BY <2>1, <2>2, OtherCounted DEF Ask, Inv, TypeOK
  <2>3. CASE e = c
    <3>1. /\ asked'[c] = Append(asked[c], r)
          /\ UNCHANGED <<pc, read, unread, parser, answered>>
      BY DEF Ask, Inv, TypeOK
    <3>2. \A i \in Nat : i # 0 /\ i <= read[c] => asked'[c][i] = asked[c][i]
      BY <1>1, <3>1, Lengths DEF Inv
    <3>3. \A i \in DOMAIN answered[c] : answered[c][i] \in Nat /\ answered[c][i] <= read[c]
      BY <2>1, <2>3, Lengths DEF CountedAt, Inv
    <3>4. Torn(c)' <=> Torn(c)
      BY <3>1, <3>2, <3>3 DEF Torn
    <3>5. Numbered(c) => Numbered(c)'
      <4>1. Current(c)' = Current(c)
        BY <3>1 DEF Current
      <4>2. read[c] \in Nat /\ read'[c] = read[c] /\ unread'[c] = unread[c]
            /\ answered'[c] = answered[c] /\ read[c] <= read[c]
        BY <3>1, Lengths DEF Inv
      <4>3. read[c] # 0 => asked'[c][read[c]] = asked[c][read[c]]
        BY <3>2, <4>2
      <4> QED
        BY <3>4, <4>1, <4>2, <4>3 DEF Numbered
    <3> QED
      BY <2>1, <2>3, <3>1, <3>4, <3>5 DEF CountedAt
  <2> QED
    BY <2>2, <2>3
<1> QED
  BY <1>2, <1>3, <1>4 DEF Inv, Counted

LEMMA ProgramEndsInv ==
  ASSUME Inv, ProgramEnds
  PROVE  Inv'
<1>1. TypeOK'
  BY EmptyLen DEF ProgramEnds, Inv, TypeOK
<1>2. Timed'
  BY DEF ProgramEnds, Inv, Timed, Operations
<1>3. ASSUME NEW e \in Clients PROVE CountedAt(e)'
  <2>1. CountedAt(e)
    BY DEF Inv, Counted
  <2>2. CASE pc[e] = "away"
    BY <2>1, <2>2 DEF ProgramEnds, CountedAt
  <2>3. CASE pc[e] # "away"
    BY <2>1, <2>3, IdleCounted DEF ProgramEnds
  <2> QED
    BY <2>2, <2>3
<1> QED
  BY <1>1, <1>2, <1>3 DEF Inv, Counted

LEMMA StepInv == ASSUME Inv, [Next]_vars PROVE Inv'
<1>1. CASE AcceptFails
  <2>1. \A e \in Clients : CountedAt(e)'
    BY <1>1, OtherCounted DEF AcceptFails, Inv, Counted
  <2> QED
    BY <1>1, <2>1 DEF AcceptFails, Inv, TypeOK, Timed, Counted
<1>2. ASSUME NEW c \in Clients, Connect(c) PROVE Inv'
  <2>1. /\ deadline' = [deadline EXCEPT ![c] = deadline[c]]
        /\ deadline[c] \in {"unset", "armed", "never"}
        /\ parser' = [parser EXCEPT ![c] = parser[c]]
    BY <1>2 DEF Connect, Inv, TypeOK
  <2>2. /\ pc[c] = "away" /\ pc' = [pc EXCEPT ![c] = "backlog"] /\ acceptor' = acceptor
        /\ UNCHANGED <<tls, asked, read, unread, answered>>
    BY <1>2 DEF Connect, Starts
  <2> QED
    BY <2>1, <2>2, MoveInv DEF Operations
<1>3. ASSUME NEW c \in Clients, Accept(c) PROVE Inv'
  <2>1. PICK p \in {"handshake", "header"} : pc' = [pc EXCEPT ![c] = p]
    BY <1>3 DEF Accept, Starts
  <2>2. parser' = [parser EXCEPT ![c] = parser[c]]
    BY <1>3 DEF Accept, Inv, TypeOK
  <2> QED
    BY <1>3, <2>1, <2>2, MoveInv DEF Accept, ExpiresAfter, Operations
<1>4. ASSUME NEW c \in Clients, NEW r \in Requests, Ask(c, r) PROVE Inv'
  BY <1>4, AskInv
<1>5. ASSUME NEW c \in Clients, OnHandshake(c) PROVE Inv'
  BY <1>5, MoveInv DEF OnHandshake, DoReadHeader, Starts, ExpiresAfter, Forgets, Operations
<1>6. ASSUME NEW c \in Clients, OnReadHeader(c) \/ OnReadLeftover(c) PROVE Inv'
  BY <1>6, ReadHeaderInv, ReadLeftoverInv
<1>7. ASSUME NEW c \in Clients, OnReadEof(c) PROVE Inv'
  BY <1>7, DoEofInv DEF OnReadEof
<1>8. ASSUME NEW c \in Clients, Handle(c) PROVE Inv'
  <2>1. /\ deadline' = [deadline EXCEPT ![c] = "armed"]
        /\ parser' = [parser EXCEPT ![c] = parser[c]]
    BY <1>8 DEF Handle, Inv, TypeOK, Timed, Operations
  <2> QED
    BY <1>8, <2>1, MoveInv DEF Handle, Starts, Operations
<1>9. ASSUME NEW c \in Clients, OnWsUpgrade(c) PROVE Inv'
  BY <1>9, MoveInv DEF OnWsUpgrade, Starts, Forgets, Operations
<1>10. ASSUME NEW c \in Clients, OnWsRefused(c) \/ EndpointGone(c) PROVE Inv'
  BY <1>10, ProgramEndsInv DEF OnWsRefused, EndpointGone
<1>11. ASSUME NEW c \in Clients, OnWrite(c) PROVE Inv'
  BY <1>11, WriteInv
<1>12. ASSUME NEW c \in Clients,
              OnReadHeaderFails(c) \/ OnReadBody(c) \/ OnShutdown(c) \/ Fails(c)
                \/ Expires(c) \/ WebsocketEnds(c)
       PROVE  Inv'
  BY <1>12, EndsInv DEF OnReadHeaderFails, OnReadBody, OnShutdown, Fails, Expires, WebsocketEnds
<1>13. CASE UNCHANGED vars
  <2>1. \A e \in Clients : CountedAt(e)'
    BY <1>13, OtherCounted DEF vars, Inv, Counted
  <2> QED
    BY <1>13, <2>1 DEF vars, Inv, TypeOK, Timed, Counted
<1> QED
  BY <1>1, <1>2, <1>3, <1>4, <1>5, <1>6, <1>7, <1>8, <1>9, <1>10, <1>11, <1>12, <1>13
  DEF Next, Session

THEOREM SpecInv == Spec => []Inv
<1>1. Init => Inv
  BY InitInv
<1>2. Inv /\ [Next]_vars => Inv'
  BY StepInv
<1> QED
  BY <1>1, <1>2, PTL DEF Spec

\* The listener and its sessions keep the types of their state, and never read more
\* headers than were sent, whatever the clients send.
THEOREM HttpTypes == Spec => []TypeOK
<1>1. Inv => TypeOK
  BY DEF Inv
<1> QED
  BY <1>1, SpecInv, PTL

\* No operation of an HTTP session is without its deadline, and no websocket has one.
THEOREM AllTimed == Spec => []Timed
<1>1. Inv => Timed
  BY DEF Inv
<1> QED
  BY <1>1, SpecInv, PTL

-----------------------------------------------------------------------------
(* The refinement.                                                          *)

Over == {c \in Clients : pc[c] \in {"shutdown", "websocket", "closed"}}

LEMMA StepExchange ==
  ASSUME Inv, Inv', [Next]_vars
  PROVE  [Client!Next]_(Client!exchange)
<1> DEFINE Stutter == UNCHANGED <<asked, answered>> /\ Over' = Over
           Given == \E C \in SUBSET Clients :
                      Over' = Over \union C /\ UNCHANGED <<asked, answered>>
<1>1. Stutter => UNCHANGED Client!exchange
  BY DEF Client!exchange, Over
<1>2. Given => Client!Next
  BY DEF Client!Next, Client!GiveUp, Over
<1>3. ASSUME NEW c \in Clients, Ends(c), UNCHANGED <<asked, answered>> PROVE Given
  <2>1. Over' = Over \union {c}
    BY <1>3 DEF Ends, Starts, Over, Inv, TypeOK
  <2> QED
    BY <1>3, <2>1
<1>4. ASSUME NEW c \in Clients, DoEof(c), UNCHANGED <<asked, answered>> PROVE Given
  <2>1. Over' = Over \union {c}
    BY <1>4 DEF DoEof, Ends, Starts, Over, Inv, TypeOK
  <2> QED
    BY <1>4, <2>1
<1>5. CASE AcceptFails
  BY <1>5, <1>1 DEF AcceptFails, Over
<1>6. ASSUME NEW c \in Clients, Connect(c) \/ Accept(c) \/ OnHandshake(c)
                 \/ OnReadHeader(c) \/ OnReadLeftover(c) \/ Handle(c)
      PROVE  Stutter
  <2>1. PICK p \in {"backlog", "handshake", "header", "body", "write"} :
          pc' = [pc EXCEPT ![c] = p]
    BY <1>6
    DEF Connect, Accept, OnHandshake, DoReadHeader, OnReadHeader, OnReadLeftover, Handle,
        Starts, AfterHeader
  <2>2. pc[c] \notin {"shutdown", "websocket", "closed"} /\ UNCHANGED <<asked, answered>>
    BY <1>6 DEF Connect, Accept, OnHandshake, OnReadHeader, OnReadLeftover, Handle
  <2> QED
    BY <2>1, <2>2 DEF Over, Inv, TypeOK
<1>7. ASSUME NEW c \in Clients, NEW r \in Requests, Ask(c, r) PROVE Client!Next
  BY <1>7 DEF Ask, Client!Next, Client!Send, Over
<1>8. ASSUME NEW c \in Clients, OnWrite(c) PROVE Client!Next
  <2> DEFINE k == Current(c).number
  <2>1. pc[c] = "write" /\ Numbered(c)
    BY <1>8 DEF OnWrite, Inv, Counted, CountedAt
  <2>2. c \notin Over
    BY <2>1 DEF Over
  <2>3. answered' = [answered EXCEPT ![c] = Append(answered[c], k)] /\ UNCHANGED asked
    BY <1>8 DEF OnWrite
  <2>4. Over' = IF Current(c).request.keep THEN Over ELSE Over \union {c}
    <3>1. CASE Current(c).request.keep
      BY <1>8, <2>1, <3>1 DEF OnWrite, DoReadHeader, Starts, Over, Inv, TypeOK
    <3>2. CASE ~Current(c).request.keep
      BY <1>8, <2>1, <3>2 DEF OnWrite, DoEof, Ends, Starts, Over, Inv, TypeOK
    <3> QED
      BY <3>1, <3>2
  <2>5. Torn(c) <=> Client!Torn(c)
    BY DEF Torn, Client!Torn
  <2>6. CASE k = 0
    <3>1. Torn(c)
      BY <2>1, <2>6 DEF Numbered
    <3>2. Client!Stray(c)
      BY <2>2, <2>3, <2>4, <2>5, <2>6, <3>1 DEF Client!Stray, Over
    <3> QED
      BY <3>2 DEF Client!Next
  <2>7. CASE k # 0
    <3>1. /\ k = read[c] /\ Current(c).request = asked[c][k]
          /\ \A i \in DOMAIN answered[c] : answered[c][i] < k
          /\ Torn(c) \/ Len(answered[c]) + 1 = k
      BY <2>1, <2>7 DEF Numbered
    <3>2. k \in 1..Len(asked[c])
      BY <2>7, <3>1, Lengths DEF Inv
    <3>3. Torn(c) \/ k = Len(answered[c]) + 1
      BY <3>1
    <3> HIDE DEF k
    <3>4. PICK n \in 1..Len(asked[c]) : n = k
      BY <3>2
    <3>5. Client!Reply(c, n)
      BY <2>2, <2>3, <2>4, <2>5, <3>1, <3>3, <3>4 DEF Client!Reply, Over
    <3> QED
      BY <3>5 DEF Client!Next
  <2> QED
    BY <2>6, <2>7
<1>9. ASSUME NEW c \in Clients, OnReadEof(c) PROVE Given
  BY <1>9, <1>4 DEF OnReadEof
<1>10. ASSUME NEW c \in Clients, OnWsUpgrade(c) PROVE Given
  <2>1. Over' = Over \union {c} /\ UNCHANGED <<asked, answered>>
    BY <1>10 DEF OnWsUpgrade, Starts, Over, Inv, TypeOK
  <2> QED
    BY <2>1
<1>11. ASSUME NEW c \in Clients, OnWsRefused(c) \/ EndpointGone(c) PROVE Given
  <2>1. Over' = Over \union {d \in Clients : pc[d] # "away"}
        /\ UNCHANGED <<asked, answered>>
    BY <1>11 DEF OnWsRefused, EndpointGone, ProgramEnds, Over
  <2>2. {d \in Clients : pc[d] # "away"} \in SUBSET Clients
    OBVIOUS
  <2> QED
    BY <2>1, <2>2
<1>12. ASSUME NEW c \in Clients,
              OnReadHeaderFails(c) \/ OnReadBody(c) \/ OnShutdown(c) \/ Fails(c)
                \/ Expires(c) \/ WebsocketEnds(c)
       PROVE  Given
  BY <1>12, <1>3
  DEF OnReadHeaderFails, OnReadBody, OnShutdown, Fails, Expires, WebsocketEnds
<1>13. CASE UNCHANGED vars
  BY <1>13, <1>1 DEF vars, Over
<1> HIDE DEF Stutter, Given
<1> QED
  BY <1>1, <1>2, <1>5, <1>6, <1>7, <1>8, <1>9, <1>10, <1>11, <1>12, <1>13
  DEF Next, Session

\* Every connection, plain or TLS, with any requests, pipelined or not, is an exchange:
\* the requests are answered in order, none twice, none after the response that closes;
\* and each in its turn, until one with a body is refused and the connection kept, for
\* then the body may be taken for requests.
THEOREM ExchangeImplemented == Spec => ImplementsExchange
<1>1. Init => Client!Init
  BY DEF Init, Client!Init
<1>2. Inv /\ Inv' /\ [Next]_vars => [Client!Next]_(Client!exchange)
  BY StepExchange
<1> QED
  BY <1>1, <1>2, SpecInv, PTL DEF Spec, ImplementsExchange, Client!Spec
=============================================================================
