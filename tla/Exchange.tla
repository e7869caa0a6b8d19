------------------------------ MODULE Exchange ------------------------------
(***************************************************************************)
(* What the server promises on one connection: the requests are answered   *)
(* in the order they were sent, none twice, until the connection is given  *)
(* up; the answer to a request that does not ask to keep it is the last.   *)
(*                                                                         *)
(* Until a request with a body is answered, every request is answered in   *)
(* its turn, as HTTP wants it.  After that the body may be taken for       *)
(* requests: what it holds is answered too, and requests may be lost in it.*)
(***************************************************************************)
EXTENDS Naturals, Sequences

CONSTANTS Clients, Requests

VARIABLES
  sent,      \* the requests of each client
  replied,   \* the numbers of the requests answered, 0 for what is none of them
  over       \* the connections that answer nothing any more

exchange == <<sent, replied, over>>

Init ==
  /\ sent = [c \in Clients |-> <<>>]
  /\ replied = [c \in Clients |-> <<>>]
  /\ over = {}

Send(c, r) ==
  /\ sent' = [sent EXCEPT ![c] = Append(@, r)]
  /\ UNCHANGED <<replied, over>>

\* a request with a body has been answered, and the connection may have been kept
Torn(c) == \E i \in DOMAIN replied[c] : replied[c][i] # 0 /\ sent[c][replied[c][i]].body

Reply(c, n) ==
  /\ c \notin over
  /\ n \in 1..Len(sent[c])
  /\ \A i \in DOMAIN replied[c] : replied[c][i] < n
  /\ Torn(c) \/ n = Len(replied[c]) + 1
  /\ replied' = [replied EXCEPT ![c] = Append(@, n)]
  /\ over' = IF sent[c][n].keep THEN over ELSE over \union {c}
  /\ UNCHANGED sent

\* an answer to no request of the client
Stray(c) ==
  /\ c \notin over
  /\ Torn(c)
  /\ replied' = [replied EXCEPT ![c] = Append(@, 0)]
  /\ over' \in {over, over \union {c}}
  /\ UNCHANGED sent

GiveUp(C) ==
  /\ over' = over \union C
  /\ UNCHANGED <<sent, replied>>

Next ==
  \/ \E c \in Clients :
       \/ Stray(c) \/ \E n \in 1..Len(sent[c]) : Reply(c, n)
       \/ \E r \in Requests : Send(c, r)
  \/ \E C \in SUBSET Clients : GiveUp(C)

Spec == Init /\ [][Next]_exchange
=============================================================================
