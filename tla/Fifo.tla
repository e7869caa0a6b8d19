------------------------------- MODULE Fifo -------------------------------
(***************************************************************************)
(* What the terminal expects of the output of its session: the messages    *)
(* arrive in the order they were sent, each of them once, until the        *)
(* connection breaks; nothing arrives after that.                          *)
(***************************************************************************)
EXTENDS Sequences

CONSTANT Messages

VARIABLES
  todo,      \* sent and not arrived
  arrived,
  cut        \* the connection is broken

fifo == <<todo, arrived, cut>>

Init ==
  /\ todo = <<>>
  /\ arrived = <<>>
  /\ cut = FALSE

Send(m) ==
  /\ todo' = Append(todo, m)
  /\ UNCHANGED <<arrived, cut>>

Arrive ==
  /\ ~cut
  /\ todo # <<>>
  /\ arrived' = Append(arrived, Head(todo))
  /\ todo' = Tail(todo)
  /\ UNCHANGED cut

Cut ==
  /\ cut' = TRUE
  /\ UNCHANGED <<todo, arrived>>

Next == Arrive \/ Cut \/ \E m \in Messages : Send(m)

Spec == Init /\ [][Next]_fifo
=============================================================================
