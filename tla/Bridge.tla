------------------------------- MODULE Bridge -------------------------------
(***************************************************************************)
(* One session and the serial_state it connects to: the output queue of    *)
(* the websocket (WsQueue, extended), the input queue of the serial_state  *)
(* (SerialPipe, an instance) and what joins them, the read of the serial   *)
(* port.  on_read copies m_buffer to the ostream of the session and reads  *)
(* again; Ctrl-Q cancels the port and makes the session a control_state,   *)
(* which writes to the same ostream.                                        *)
(*                                                                         *)
(* cancel ends what is waiting in the port.  A read that was performed     *)
(* completes without an error, even though the session has left: on_read   *)
(* then forwards it and reads again.  A serial_state lives until nothing   *)
(* refers to it, and its entry is in use until then, so the session meets  *)
(* at most one at a time; one port is enough here, Multiplexer has more.   *)
(*                                                                         *)
(* What one handler writes to the ostream counts as one message.  The      *)
(* session goes on throughout, also when its stream breaks; Multiplexer    *)
(* has its end.                                                             *)
(***************************************************************************)
EXTENDS WsQueue, Keys

VARIABLES
  inside,    \* m_state is the serial_state
  read,      \* async_read_some: none, pending, ready (performed) or failed
  buffer,    \* m_buffer: the number of the chunk read last
  source,    \* what each message sent was made of: a chunk, or 0
  keys, inPosted, inQueue, inWrites, tty, unplugged, cancelled

In == INSTANCE SerialPipe WITH
        posted <- inPosted, queue <- inQueue, writes <- inWrites,
        broken <- unplugged

pipe == <<keys, inPosted, inQueue, inWrites, tty, unplugged, cancelled>>
port == <<inside, read, buffer, pipe>>
all  == <<vars, port, source>>

Chunks == 1..MaxSends

\* Some handler, posted or outstanding, or m_state refers to the serial_state.
Alive == inside \/ read # "none" \/ inPosted # <<>> \/ inWrites # <<>>

-----------------------------------------------------------------------------
BridgeInit ==
  /\ Init
  /\ inside = FALSE
  /\ read = "none"
  /\ buffer = 0
  /\ source = <<>>
  /\ In!Init

\* The streambuf makes a message of what is written to the ostream.
Output(c) ==
  /\ Send
  /\ source' = Append(source, c)

\* an echo, a prompt or what a command prints
Console ==
  /\ ~inside
  /\ Output(0)
  /\ UNCHANGED port

\* run, of a serial_state whose port has just been opened
Enter ==
  /\ ~inside
  /\ ~Alive
  /\ Output(0)
  /\ inside' = TRUE
  /\ read' = "pending"
  /\ keys' = <<>> /\ inQueue' = <<>> /\ tty' = <<>>
  /\ unplugged' = FALSE /\ cancelled' = FALSE
  /\ UNCHANGED <<buffer, inPosted, inWrites>>

\* Ctrl-Q: the port is cancelled and the control_state prompts
Exit ==
  /\ inside
  /\ Output(0)
  /\ inside' = FALSE
  /\ In!Cancel
  /\ read' = IF read = "pending" THEN "failed" ELSE read
  /\ UNCHANGED buffer

\* any other key
Key(c) ==
  /\ inside
  /\ In!Type(c)
  /\ UNCHANGED <<vars, inside, read, buffer, source>>

\* The port has data and the read is performed, at once or by the reactor.
Chunk ==
  /\ read = "pending"
  /\ ~unplugged
  /\ buffer < MaxSends
  /\ buffer' = buffer + 1
  /\ read' = "ready"
  /\ UNCHANGED <<vars, inside, source, pipe>>

ReadFails ==
  /\ read = "pending"
  /\ read' = "failed"
  /\ UNCHANGED <<vars, inside, buffer, source, pipe>>

\* mutant: the next read is started, and performed, before the copy
OnReadLate ==
  /\ read = "ready"
  /\ buffer < MaxSends
  /\ buffer' = buffer + 1
  /\ Output(buffer')
  /\ UNCHANGED <<inside, read, pipe>>

\* mutant: the session has left, so the data is dropped
OnReadInside ==
  /\ read = "ready"
  /\ IF inside THEN Output(buffer) ELSE UNCHANGED <<vars, source>>
  /\ read' = "pending"
  /\ UNCHANGED <<inside, buffer, pipe>>

OnRead ==
  /\ read = "ready"
  /\ Output(buffer)
  /\ read' = "pending"
  /\ UNCHANGED <<inside, buffer, pipe>>

OnReadFails ==
  /\ read = "failed"
  /\ read' = "none"
  /\ UNCHANGED <<vars, inside, buffer, source, pipe>>

\* the websocket's own steps
Stream ==
  /\ \/ OnSend \/ Break
     \/ \E i \in DOMAIN writes :
          Written(i) \/ OnWrite(i) \/ WriteFails(i) \/ OnWriteFails(i)
  /\ UNCHANGED <<port, source>>

\* the steps of the serial_state that its keys lead to
Port ==
  /\ \/ In!OnSend
     \/ Alive /\ In!Unplug
     \/ \E i \in DOMAIN inWrites :
          \/ \E n \in DOMAIN inWrites[i].buf : In!Written(i, n)
          \/ In!OnWrite(i) \/ In!WriteFails(i) \/ In!OnWriteFails(i)
  /\ UNCHANGED <<vars, inside, read, buffer, source>>

BridgeNext ==
  \/ Console \/ Enter \/ Exit \/ \E c \in Codes : Key(c)
  \/ Chunk \/ ReadFails \/ OnRead \/ OnReadFails
  \/ Stream \/ Port

BridgeSpec == BridgeInit /\ [][BridgeNext]_all

(***************************************************************************)
(* The io_context runs what is posted and what has completed; a performed  *)
(* read has completed.  A write that the peer does not take is ended by    *)
(* the idle timeout of the stream (websocket.hpp:134-136).  Users, devices *)
(* and the peer owe nothing.                                                *)
(***************************************************************************)
BridgeFairness ==
  /\ WF_all(OnSend /\ UNCHANGED <<port, source>>)
  /\ WF_all(/\ \E i \in DOMAIN writes : Written(i) \/ WriteFails(i)
            /\ UNCHANGED <<port, source>>)
  /\ WF_all(/\ \E i \in DOMAIN writes : OnWrite(i) \/ OnWriteFails(i)
            /\ UNCHANGED <<port, source>>)
  /\ WF_all(OnRead)

BridgeFairSpec == BridgeSpec /\ BridgeFairness

-----------------------------------------------------------------------------
\* The chunks in a queue of messages.
ChunkOf(m) == IF source[m] = 0 THEN <<>> ELSE <<source[m]>>

ChunksIn(q) == FlattenSeq([i \in DOMAIN q |-> ChunkOf(q[i])])

\* From the device to the terminal: a chunk that was read is under way in
\* m_buffer, then as a message of the websocket's queue.
Link == INSTANCE Fifo WITH
          Messages <- Chunks,
          todo <- ChunksIn(Unwritten \o posted)
                    \o (IF read = "ready" THEN <<buffer>> ELSE <<>>),
          arrived <- ChunksIn(wire),
          cut <- broken

\* What the port reads reaches the terminal in the order it was read, nothing
\* twice and nothing left out, through every order of reads, sends, Ctrl-Q and
\* new connections, until the stream breaks: on_read copies m_buffer before it
\* reads again, and the two queues keep their order.
ImplementsLink == Link!Spec

\* Whatever was read is shown, also when the session leaves the serial_state
\* between the read and its completion, unless the stream breaks (or MaxSends
\* ends the run before on_read).
ReadIsShown ==
  \A c \in Chunks :
    buffer >= c ~> \/ broken
                   \/ read = "ready" /\ sent = MaxSends
                   \/ \E i \in DOMAIN wire : source[wire[i]] = c

\* At most one write to the port is outstanding, for a code still queued.
OneKeyAtATime == In!OneWriteAtATime

\* No wake-up of the port's queue is lost, Ctrl-Q or not.
KeysNeverStuck == In!NeverStuck

\* Every code typed makes the device receive between one byte and all its bytes.
OneWritePerCode == In!OneWritePerCode

(* Claims of the code that it does not keep.                               *)

\* serial_state.cpp:61 "Type Ctrl + q to exit": a session that has left hears
\* no more of the device.
ExitQuiet == [][OnRead => inside]_all
=============================================================================
