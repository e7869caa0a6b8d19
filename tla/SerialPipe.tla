---------------------------- MODULE SerialPipe ----------------------------
(***************************************************************************)
(* The input side of one serial_state: what the user types is posted to    *)
(* the io_context as an on_send, queued in m_send_queue and written to the *)
(* serial port by async_write_some, one write at a time.                    *)
(*                                                                         *)
(* The first write of a queue that was empty is given the front string.    *)
(* Every other one is given one byte at the address of the front element,  *)
(* which is a shared_ptr (serial_state.cpp:143): a byte of a pointer, or,  *)
(* when a push_back moves the vector first, of freed memory.  async_write_ *)
(* some may accept a part of its buffer; on_write does not look at how     *)
(* much was written.                                                        *)
(***************************************************************************)
EXTENDS Keys, SequencesExt

VARIABLES
  keys,       \* the codes typed so far
  posted,     \* on_send handlers that have not run, in the order posted
  queue,      \* m_send_queue
  writes,     \* the outstanding async_write_somes
  tty,        \* the bytes the device received
  broken,     \* the device is gone
  cancelled   \* m_port was cancelled; it stays open

vars == <<keys, posted, queue, writes, tty, broken, cancelled>>

Write == [buf : Seq(Bytes), result : {"busy", "ok", "failed"}]

TypeOK ==
  /\ keys \in Seq(Codes)
  /\ posted \in Seq(Codes)
  /\ queue \in Seq(Codes)
  /\ writes \in Seq(Write)
  /\ tty \in Seq(Bytes)
  /\ broken \in BOOLEAN
  /\ cancelled \in BOOLEAN

Started(w, buf) == Append(w, [buf |-> buf, result |-> "busy"])

\* the i-th write has ended; its completion is queued
Ended(i, r) == [writes EXCEPT ![i] = [buf |-> writes[i].buf, result |-> r]]

-----------------------------------------------------------------------------
Init ==
  /\ keys = <<>>
  /\ posted = <<>>
  /\ queue = <<>>
  /\ writes = <<>>
  /\ tty = <<>>
  /\ broken = FALSE
  /\ cancelled = FALSE

\* mutant: the message is handed over twice
TypeTwice(c) ==
  /\ ~cancelled
  /\ Len(keys) < MaxTyped
  /\ keys' = Append(keys, c)
  /\ posted' = posted \o <<c, c>>
  /\ UNCHANGED <<queue, writes, tty, broken, cancelled>>

\* on_char, on_csi: write_serial
Type(c) ==
  /\ ~cancelled
  /\ Len(keys) < MaxTyped
  /\ keys' = Append(keys, c)
  /\ posted' = Append(posted, c)
  /\ UNCHANGED <<queue, writes, tty, broken, cancelled>>

\* mutant: the size is not tested
OnSendAlways ==
  /\ posted # <<>>
  /\ posted' = Tail(posted)
  /\ queue' = Append(queue, Head(posted))
  /\ writes' = Started(writes, Head(queue'))
  /\ UNCHANGED <<keys, tty, broken, cancelled>>

OnSend ==
  /\ posted # <<>>
  /\ posted' = Tail(posted)
  /\ queue' = Append(queue, Head(posted))
  /\ writes' = IF Len(queue') > 1 THEN writes ELSE Started(writes, Head(queue'))
  /\ UNCHANGED <<keys, tty, broken, cancelled>>

\* the port takes the first n bytes; the completion is queued
Written(i, n) ==
  /\ writes[i].result = "busy"
  /\ ~broken
  /\ writes' = Ended(i, "ok")
  /\ tty' = tty \o SubSeq(writes[i].buf, 1, n)
  /\ UNCHANGED <<keys, posted, queue, broken, cancelled>>

\* mutant: nobody starts the next write
OnWriteStops(i) ==
  /\ writes[i].result = "ok"
  /\ queue' = Tail(queue)
  /\ writes' = RemoveAt(writes, i)
  /\ UNCHANGED <<keys, posted, tty, broken, cancelled>>

OnWrite(i) ==
  /\ writes[i].result = "ok"
  /\ queue' = Tail(queue)
  /\ writes' = IF queue' = <<>> THEN RemoveAt(writes, i)
               ELSE Started(RemoveAt(writes, i), <<Junk>>)
  /\ UNCHANGED <<keys, posted, tty, broken, cancelled>>

WriteFails(i) ==
  /\ writes[i].result = "busy"
  /\ writes' = Ended(i, "failed")
  /\ broken' = TRUE
  /\ UNCHANGED <<keys, posted, queue, tty, cancelled>>

\* on_write with an error returns before the erase: the queue never moves on
OnWriteFails(i) ==
  /\ writes[i].result = "failed"
  /\ writes' = RemoveAt(writes, i)
  /\ UNCHANGED <<keys, posted, queue, tty, broken, cancelled>>

\* the device is unplugged
Unplug ==
  /\ broken' = TRUE
  /\ UNCHANGED <<keys, posted, queue, writes, tty, cancelled>>

\* serial_state::cancel, at Ctrl-Q: a write that is under way is given up, and
\* nothing more is typed.  An on_send posted before still starts its write.
Cancel ==
  /\ ~cancelled
  /\ cancelled' = TRUE
  /\ writes' = [i \in DOMAIN writes |->
                 IF writes[i].result = "busy"
                 THEN [writes[i] EXCEPT !.result = "failed"] ELSE writes[i]]
  /\ UNCHANGED <<keys, posted, queue, tty, broken>>

Next ==
  \/ \E c \in Codes : Type(c)
  \/ OnSend \/ Unplug \/ Cancel
  \/ \E i \in DOMAIN writes :
       \/ \E n \in DOMAIN writes[i].buf : Written(i, n)
       \/ OnWrite(i) \/ WriteFails(i) \/ OnWriteFails(i)

Spec == Init /\ [][Next]_vars

-----------------------------------------------------------------------------
Idle == posted = <<>> /\ queue = <<>> /\ writes = <<>>

Typed == FlattenSeq(keys)

\* At most one write is outstanding, and only while the message it was started
\* for is still queued: on_send and on_write agree on who starts the next one.
OneWriteAtATime ==
  /\ Len(writes) <= 1
  /\ writes # <<>> => queue # <<>>

\* No wake-up is lost: when nothing is being written, a queue that is not
\* empty is the leftover of a port that failed or was cancelled.
NeverStuck == queue # <<>> /\ writes = <<>> => broken \/ cancelled

\* Whatever happens to its bytes, every code typed makes the device receive at
\* least one byte and at most as many as it has: none is skipped or repeated.
OneWritePerCode ==
  Idle /\ ~broken => Len(keys) <= Len(tty) /\ Len(tty) <= Len(Typed)

(* Claims of the documentation that the code does not keep.                *)

\* README.md:270-271: the serial state "simply" redirects input to the serial
\* port.  README.md:288: it passes on all CSI codes.
InputRedirected == Idle /\ ~broken => tty = Typed
=============================================================================
