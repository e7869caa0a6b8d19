----------------------------- MODULE HttpServer -----------------------------
(***************************************************************************)
(* The HTTP side of the server: the listener, and for each connection a    *)
(* session that reads a header, lets the router answer from the header     *)
(* alone, or reads the body and answers, or upgrades to a websocket.  One   *)
(* operation of a session is outstanding at a time, and it keeps the        *)
(* session alive; the 30 s deadline of the stream ends it.                  *)
(*                                                                         *)
(* A request is what its handling depends on: the router refuses it before *)
(* its body is read, it has a body, it is a websocket upgrade, it carries  *)
(* an authorization header that parses, it asks to keep the connection.    *)
(*                                                                         *)
(* Nothing reads the body of a refused request: if the connection is kept, *)
(* the next header is looked for in those bytes, which may hold one.       *)
(***************************************************************************)
EXTENDS Naturals, Sequences

CONSTANTS
  Clients,      \* connections that clients may open
  Requests,     \* the requests they send
  MaxRequests,  \* bound on the requests of each connection
  MaxAnswers    \* bound on the answers before a header is found in a body once more

ASSUME RequestsAssumption ==
  Requests \subseteq [refused : BOOLEAN, body : BOOLEAN, upgrade : BOOLEAN,
                      named : BOOLEAN, keep : BOOLEAN]

ASSUME BoundsAssumption ==
  MaxRequests \in [Clients -> Nat] /\ MaxAnswers \in Nat

VARIABLES
  tls,        \* main installed an ssl_listener
  acceptor,   \* whether an async_accept is outstanding; "failed" after an error
  pc,         \* the outstanding operation of each connection
  deadline,   \* the timer of each stream: "unset", "armed" or "never"
  asked,      \* the requests each client has sent
  read,       \* how many of their headers have been read
  unread,     \* bytes of a body stand before the next of them
  parser,     \* m_parser: the request read and its number, 0 if it was found in a body
  answered    \* history: the number of the request each response was made for

vars == <<tls, acceptor, pc, deadline, asked, read, unread, parser, answered>>

Operations == {"handshake", "header", "body", "write", "shutdown"}

TypeOK ==
  /\ tls \in BOOLEAN
  /\ acceptor \in {"armed", "idle", "failed", "crashed"}
  /\ pc \in [Clients -> {"away", "backlog", "websocket", "closed"} \union Operations]
  /\ deadline \in [Clients -> {"unset", "armed", "never"}]
  /\ asked \in [Clients -> Seq(Requests)]
  /\ read \in [Clients -> Nat]
  /\ \A c \in Clients : read[c] <= Len(asked[c])
  /\ unread \in [Clients -> BOOLEAN]
  /\ parser \in [Clients -> Seq([request : Requests, number : Nat])]
  /\ answered \in [Clients -> Seq(Nat)]

-----------------------------------------------------------------------------
Init ==
  /\ tls \in BOOLEAN
  /\ acceptor = "armed"
  /\ pc = [c \in Clients |-> "away"]
  /\ deadline = [c \in Clients |-> "unset"]
  /\ asked = [c \in Clients |-> <<>>]
  /\ read = [c \in Clients |-> 0]
  /\ unread = [c \in Clients |-> FALSE]
  /\ parser = [c \in Clients |-> <<>>]
  /\ answered = [c \in Clients |-> <<>>]

Starts(c, op) == pc' = [pc EXCEPT ![c] = op]

ExpiresAfter(c) == deadline' = [deadline EXCEPT ![c] = "armed"]

\* what m_parser holds after a header has been read
Current(c) == parser[c][1]

Parses(c, r, n) == parser' = [parser EXCEPT ![c] = <<[request |-> r, number |-> n]>>]

\* a new parser, or none: the session is destroyed
Forgets(c) == parser' = [parser EXCEPT ![c] = <<>>]

\* the last handler of the session returns without starting an operation
Ends(c) == Starts(c, "closed") /\ Forgets(c) /\ UNCHANGED deadline

DoReadHeader(c) == Starts(c, "header") /\ ExpiresAfter(c) /\ Forgets(c)

\* the plain session only shuts its socket down, and ends
DoEof(c) ==
  IF tls THEN Starts(c, "shutdown") /\ ExpiresAfter(c) /\ Forgets(c) ELSE Ends(c)

-----------------------------------------------------------------------------
(* The clients.                                                             *)

Connect(c) ==
  /\ pc[c] = "away"
  /\ acceptor # "crashed"
  /\ Starts(c, "backlog")
  /\ UNCHANGED <<tls, acceptor, deadline, asked, read, unread, parser, answered>>

\* A request arrives, whether or not the last one was answered.  One that was sent
\* before the session reads may as well arrive when it does.
Ask(c, r) ==
  /\ pc[c] \in {"header", "body", "write"}
  /\ Len(asked[c]) < MaxRequests[c]
  /\ asked' = [asked EXCEPT ![c] = Append(@, r)]
  /\ UNCHANGED <<tls, acceptor, pc, deadline, read, unread, parser, answered>>

-----------------------------------------------------------------------------
(* The listener.                                                            *)

\* mutant: the acceptor is not armed again
AcceptOnce(c) ==
  /\ acceptor = "armed"
  /\ pc[c] = "backlog"
  /\ acceptor' = "idle"
  /\ Starts(c, IF tls THEN "handshake" ELSE "header")
  /\ ExpiresAfter(c)
  /\ UNCHANGED <<tls, asked, read, unread, parser, answered>>

\* mutant: the TLS handshake has no deadline
AcceptUntimed(c) ==
  /\ acceptor = "armed"
  /\ pc[c] = "backlog"
  /\ Starts(c, IF tls THEN "handshake" ELSE "header")
  /\ deadline' = [deadline EXCEPT ![c] = IF tls THEN "unset" ELSE "armed"]
  /\ UNCHANGED <<tls, acceptor, asked, read, unread, parser, answered>>

\* on_accept runs a session, and the acceptor is armed again
Accept(c) ==
  /\ acceptor = "armed"
  /\ pc[c] = "backlog"
  /\ Starts(c, IF tls THEN "handshake" ELSE "header")
  /\ ExpiresAfter(c)
  /\ UNCHANGED <<tls, acceptor, asked, read, unread, parser, answered>>

\* the acceptor has failed, or could not be opened; on_accept does not arm it again
AcceptFails ==
  /\ acceptor = "armed"
  /\ acceptor' = "failed"
  /\ UNCHANGED <<tls, pc, deadline, asked, read, unread, parser, answered>>

-----------------------------------------------------------------------------
(* The session.                                                             *)

OnHandshake(c) ==
  /\ pc[c] = "handshake"
  /\ DoReadHeader(c)
  /\ UNCHANGED <<tls, acceptor, asked, read, unread, answered>>

\* before_body may answer at once; the body is not read then
AfterHeader(r) == IF r.refused THEN "write" ELSE "body"

OnReadHeader(c) ==
  /\ pc[c] = "header"
  /\ ~unread[c]
  /\ read[c] < Len(asked[c])
  /\ read' = [read EXCEPT ![c] = @ + 1]
  /\ LET r == asked[c][read[c] + 1] IN
     /\ Parses(c, r, read[c] + 1)
     /\ unread' = [unread EXCEPT ![c] = r.body]
     /\ Starts(c, AfterHeader(r))
  /\ UNCHANGED <<tls, acceptor, deadline, asked, answered>>

\* The bytes of a body that was left parse as a header, of any request.  It ends within
\* that body, or with the header of the client's next request, of which it makes a field.
OnReadLeftover(c) ==
  /\ pc[c] = "header"
  /\ unread[c]
  /\ Len(answered[c]) < MaxAnswers
  /\ \E r \in Requests : Parses(c, r, 0) /\ Starts(c, AfterHeader(r))
  /\ \/ /\ \E more \in BOOLEAN : unread' = [unread EXCEPT ![c] = more]
        /\ UNCHANGED read
     \/ /\ read[c] < Len(asked[c])
        /\ read' = [read EXCEPT ![c] = @ + 1]
        /\ unread' = [unread EXCEPT ![c] = asked[c][read[c] + 1].body]
  /\ UNCHANGED <<tls, acceptor, deadline, asked, answered>>

\* or they do not
OnReadHeaderFails(c) ==
  /\ pc[c] = "header"
  /\ unread[c]
  /\ Ends(c)
  /\ UNCHANGED <<tls, acceptor, asked, read, unread, answered>>

\* the client has closed its side between two requests, or before it sent a body
OnReadEof(c) ==
  /\ pc[c] = "header"
  /\ read[c] = Len(asked[c])
  /\ DoEof(c)
  /\ UNCHANGED <<tls, acceptor, asked, read, unread, answered>>

\* the parser is one of an empty_body
OnReadBody(c) ==
  /\ pc[c] = "body"
  /\ Current(c).request.body
  /\ Ends(c)
  /\ UNCHANGED <<tls, acceptor, asked, read, unread, answered>>

\* the router makes a response
Handle(c) ==
  /\ pc[c] = "body"
  /\ ~Current(c).request.body /\ ~Current(c).request.upgrade
  /\ Starts(c, "write")
  /\ UNCHANGED <<tls, acceptor, deadline, asked, read, unread, parser, answered>>

Upgrades(c) == ~Current(c).request.body /\ Current(c).request.upgrade

\* mutant: the deadline of the HTTP session stays armed
OnWsUpgradeTimed(c) ==
  /\ pc[c] = "body"
  /\ Upgrades(c) /\ Current(c).request.named
  /\ Starts(c, "websocket")
  /\ Forgets(c)
  /\ UNCHANGED <<tls, acceptor, deadline, asked, read, unread, answered>>

\* The stream goes to a websocket handler (Multiplexer!Upgrade), the session ends.
OnWsUpgrade(c) ==
  /\ pc[c] = "body"
  /\ Upgrades(c) /\ Current(c).request.named
  /\ Starts(c, "websocket")
  /\ Forgets(c)
  /\ deadline' = [deadline EXCEPT ![c] = "never"]
  /\ UNCHANGED <<tls, acceptor, asked, read, unread, answered>>

\* an exception leaves ioc.run(), or a null m_state is called
ProgramEnds ==
  /\ acceptor' = "crashed"
  /\ pc' = [d \in Clients |-> IF pc[d] = "away" THEN "away" ELSE "closed"]
  /\ parser' = [d \in Clients |-> <<>>]
  /\ UNCHANGED <<tls, deadline, asked, read, unread, answered>>

\* The handler refuses and is destroyed, before the response it made is sent; its
\* destructor calls m_state, which is still null.  Or it dereferences the result of
\* parsing a header that does not parse (Authentication!Usable).
OnWsRefused(c) ==
  /\ pc[c] = "body"
  /\ Upgrades(c) /\ ~Current(c).request.named
  /\ ProgramEnds

\* A request was read, but its connection has been reset since: remote_endpoint()
\* throws, in both passes and in an upgrade, and nothing catches.  Or a field of its
\* authorization header has no value (Authentication!Throws).
EndpointGone(c) ==
  /\ \/ pc[c] = "header" /\ (unread[c] \/ read[c] < Len(asked[c]))
     \/ pc[c] = "body" /\ ~Current(c).request.body
  /\ ProgramEnds

\* mutant: the connection is always kept
OnWriteKeeps(c) ==
  /\ pc[c] = "write"
  /\ answered' = [answered EXCEPT ![c] = Append(@, Current(c).number)]
  /\ DoReadHeader(c)
  /\ UNCHANGED <<tls, acceptor, asked, read, unread>>

\* the response is written
OnWrite(c) ==
  /\ pc[c] = "write"
  /\ answered' = [answered EXCEPT ![c] = Append(@, Current(c).number)]
  /\ IF Current(c).request.keep THEN DoReadHeader(c) ELSE DoEof(c)
  /\ UNCHANGED <<tls, acceptor, asked, read, unread>>

OnShutdown(c) ==
  /\ pc[c] = "shutdown"
  /\ Ends(c)
  /\ UNCHANGED <<tls, acceptor, asked, read, unread, answered>>

\* The operation fails; fail only logs.
Fails(c) ==
  /\ pc[c] \in Operations
  /\ Ends(c)
  /\ UNCHANGED <<tls, acceptor, asked, read, unread, answered>>

\* the deadline of the stream passes
Expires(c) == deadline[c] = "armed" /\ Fails(c)

WebsocketEnds(c) ==
  /\ pc[c] = "websocket"
  /\ Ends(c)
  /\ UNCHANGED <<tls, acceptor, asked, read, unread, answered>>

-----------------------------------------------------------------------------
Session(c) ==
  \/ OnHandshake(c) \/ OnReadHeader(c) \/ OnReadLeftover(c) \/ OnReadHeaderFails(c)
  \/ OnReadEof(c) \/ OnReadBody(c) \/ Handle(c) \/ OnWsUpgrade(c) \/ OnWsRefused(c)
  \/ EndpointGone(c) \/ OnWrite(c) \/ OnShutdown(c) \/ Fails(c)

Next ==
  \/ AcceptFails
  \/ \E c \in Clients :
       \/ Connect(c) \/ Accept(c) \/ Session(c) \/ Expires(c) \/ WebsocketEnds(c)
       \/ \E r \in Requests : Ask(c, r)

Spec == Init /\ [][Next]_vars

(***************************************************************************)
(* A connection in the backlog is accepted, if anything is; time passes.   *)
(* Every answer that keeps the connection arms the deadline again, so it   *)
(* is only known to pass while nothing is answered; within that time it is *)
(* armed at most twice.  Nothing is assumed of the clients.                *)
(***************************************************************************)
Answers(c) == 0..(MaxRequests[c] + MaxAnswers)

FairSpec ==
  /\ Spec
  /\ \A c \in Clients :
       /\ WF_vars(Accept(c))
       /\ \A n \in Answers(c) : WF_vars(Expires(c) /\ Len(answered[c]) = n)

-----------------------------------------------------------------------------
\* Every operation of a session runs under the deadline, through keep-alive,
\* handshake and shutdown; a websocket is out of its reach.
Timed ==
  \A c \in Clients :
    /\ pc[c] \in Operations => deadline[c] = "armed"
    /\ pc[c] = "websocket" => deadline[c] = "never"

Client == INSTANCE Exchange WITH
  sent <- asked, replied <- answered,
  over <- {c \in Clients : pc[c] \in {"shutdown", "websocket", "closed"}}

\* The requests of a connection, pipelined or not, are answered in order, none twice, and
\* nothing is answered after a response that closes it.  None is passed over, and nothing
\* else answered, unless one with a body was refused before and the connection kept.
ImplementsExchange == Client!Spec

\* What a client relies on that takes the n-th response for the answer to its n-th
\* request.  It fails: the body of a request that was refused may hold one.
NoStray ==
  \A c \in Clients : \A i \in DOMAIN answered[c] : answered[c][i] = i

\* Under FairSpec only a failed accept, or the end of the program, leaves clients in
\* the backlog.
Accepted == \A c \in Clients : pc[c] = "backlog" ~> pc[c] # "backlog" \/ acceptor = "failed"

\* Under FairSpec a session that is not given another request to answer ends, or becomes
\* a websocket, in whatever operation its client leaves it: clients that are silent do
\* not pile up.  A client that keeps asking keeps its session.
SessionEnds ==
  \A c \in Clients : \A n \in Answers(c) :
    pc[c] \in Operations /\ Len(answered[c]) = n
      ~> pc[c] \in {"websocket", "closed"} \/ Len(answered[c]) > n
=============================================================================
