------------------------------ MODULE WsQueue ------------------------------
(***************************************************************************)
(* The output side of one websocket session (websocket_impl).  Whatever is *)
(* written to the ostream of the session is posted to the executor as an   *)
(* on_send, which appends it to m_queue; one async_write at a time is       *)
(* under way, and it sends the front of the queue, which stays there until  *)
(* on_write erases it.                                                      *)
(*                                                                         *)
(* Beast forbids a second async_write before the first has completed, and  *)
(* the buffer of a write is the string that the front of m_queue keeps     *)
(* alive.                                                                   *)
(***************************************************************************)
EXTENDS Naturals, Sequences, SequencesExt

CONSTANT MaxSends   \* bound on the number of messages

ASSUME MaxSendsAssumption == MaxSends \in Nat

VARIABLES
  sent,      \* number of messages sent; the message is its number
  posted,    \* on_send handlers that have not run, in the order posted
  queue,     \* m_queue
  writes,    \* the outstanding async_writes
  wire,      \* what reached the peer
  broken     \* the stream is closed or has failed

vars == <<sent, posted, queue, writes, wire, broken>>

Messages == 1..MaxSends

Write == [msg : Messages, result : {"busy", "ok", "failed"}]

TypeOK ==
  /\ sent \in 0..MaxSends
  /\ posted \in Seq(Messages)
  /\ queue \in Seq(Messages)
  /\ writes \in Seq(Write)
  /\ wire \in Seq(Messages)
  /\ broken \in BOOLEAN

\* async_write of m
Started(w, m) == Append(w, [msg |-> m, result |-> "busy"])

\* the i-th write has ended; its completion is queued
Ended(i, r) == [writes EXCEPT ![i] = [msg |-> writes[i].msg, result |-> r]]

-----------------------------------------------------------------------------
Init ==
  /\ sent = 0
  /\ posted = <<>>
  /\ queue = <<>>
  /\ writes = <<>>
  /\ wire = <<>>
  /\ broken = FALSE

\* a control command, or data of the serial port, written to the ostream
Send ==
  /\ sent < MaxSends
  /\ sent' = sent + 1
  /\ posted' = Append(posted, sent + 1)
  /\ UNCHANGED <<queue, writes, wire, broken>>

\* mutant: compares with the size before the push
OnSendLate ==
  /\ posted # <<>>
  /\ posted' = Tail(posted)
  /\ queue' = Append(queue, Head(posted))
  /\ writes' = IF Len(queue') > 2 THEN writes ELSE Started(writes, Head(queue'))
  /\ UNCHANGED <<sent, wire, broken>>

OnSend ==
  /\ posted # <<>>
  /\ posted' = Tail(posted)
  /\ queue' = Append(queue, Head(posted))
  /\ writes' = IF Len(queue') > 1 THEN writes ELSE Started(writes, Head(queue'))
  /\ UNCHANGED <<sent, wire, broken>>

\* the peer has the message; the completion is queued
Written(i) ==
  /\ writes[i].result = "busy"
  /\ ~broken
  /\ writes' = Ended(i, "ok")
  /\ wire' = Append(wire, writes[i].msg)
  /\ UNCHANGED <<sent, posted, queue, broken>>

\* mutant: the next write is started before the front is erased
OnWriteAgain(i) ==
  /\ writes[i].result = "ok"
  /\ queue' = Tail(queue)
  /\ writes' = IF queue' = <<>> THEN RemoveAt(writes, i)
               ELSE Started(RemoveAt(writes, i), Head(queue))
  /\ UNCHANGED <<sent, posted, wire, broken>>

\* mutant: nobody starts the next write
OnWriteStops(i) ==
  /\ writes[i].result = "ok"
  /\ queue' = Tail(queue)
  /\ writes' = RemoveAt(writes, i)
  /\ UNCHANGED <<sent, posted, wire, broken>>

OnWrite(i) ==
  /\ writes[i].result = "ok"
  /\ queue' = Tail(queue)
  /\ writes' = IF queue' = <<>> THEN RemoveAt(writes, i)
               ELSE Started(RemoveAt(writes, i), Head(queue'))
  /\ UNCHANGED <<sent, posted, wire, broken>>

\* a write on a stream that was closed or whose peer is gone
WriteFails(i) ==
  /\ writes[i].result = "busy"
  /\ writes' = Ended(i, "failed")
  /\ broken' = TRUE
  /\ UNCHANGED <<sent, posted, queue, wire>>

\* on_write with an error returns before the erase: the queue never moves on
OnWriteFails(i) ==
  /\ writes[i].result = "failed"
  /\ writes' = RemoveAt(writes, i)
  /\ UNCHANGED <<sent, posted, queue, wire, broken>>

\* cancel(), a timeout of the stream, or the peer
Break ==
  /\ broken' = TRUE
  /\ UNCHANGED <<sent, posted, queue, writes, wire>>

Next ==
  \/ Send \/ OnSend \/ Break
  \/ \E i \in DOMAIN writes :
       Written(i) \/ OnWrite(i) \/ WriteFails(i) \/ OnWriteFails(i)

Spec == Init /\ [][Next]_vars

-----------------------------------------------------------------------------
\* At most one write is outstanding, and it is a write of the front of the
\* queue, whose string therefore stays alive: on_send and on_write agree on
\* who starts the next write, in every order in which they may run.
OneWriteOfFront ==
  /\ Len(writes) <= 1
  /\ \A i \in DOMAIN writes : queue # <<>> /\ writes[i].msg = Head(queue)

\* No wake-up is lost: when nothing is being written, a queue that is not
\* empty is the leftover of a stream that failed.
NeverStuck == queue # <<>> /\ writes = <<>> => broken

\* The message being written counts as arrived once the peer has it, although
\* it leaves m_queue only in on_write.
Unwritten ==
  IF writes # <<>> /\ writes[1].result = "ok" THEN Tail(queue) ELSE queue

Terminal == INSTANCE Fifo WITH todo <- Unwritten \o posted, arrived <- wire,
                               cut <- broken

\* The terminal gets what was sent, in order and once, until the stream breaks.
ImplementsFifo == Terminal!Spec
=============================================================================
