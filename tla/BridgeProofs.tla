---------------------------- MODULE BridgeProofs ----------------------------
(***************************************************************************)
(* The output queue of the websocket alone (WsQueue), then one session and *)
(* the serial_state it connects to, for any number of messages and codes.  *)
(* To the websocket's queue the bridge is one of the behaviours of WsQueue, *)
(* so what is proved of these holds.  The queue of the port has an         *)
(* invariant of its own, which Enter begins anew; and what the port reads  *)
(* reaches the terminal through a FIFO channel.  At the end the settings of *)
(* the ports (PortOptions): what connect applied is what a scan reads, the  *)
(* names shown are names taken, and a session keeps its settings.           *)
(***************************************************************************)
EXTENDS Bridge, PortOptions, SequenceLemmas

USE MaxSendsAssumption

-----------------------------------------------------------------------------
(* WsQueue.                                                                 *)

\* The two invariants support each other: on_write starts the next write from
\* the queue that remains, which is right only because the one it completes
\* was the only one.
Inv ==
  /\ TypeOK /\ OneWriteOfFront /\ NeverStuck
  /\ \A i \in DOMAIN writes : writes[i].result = "failed" => broken

-----------------------------------------------------------------------------
(* A write begins.                                                        *)

LEMMA OneStarted ==
  ASSUME NEW m \in Messages
  PROVE  /\ Started(<<>>, m) \in Seq(Write)
         /\ Len(Started(<<>>, m)) = 1
         /\ Started(<<>>, m)[1].msg = m
         /\ Started(<<>>, m)[1].result = "busy"
<1> DEFINE e == [msg |-> m, result |-> "busy"]
<1>1. e \in Write /\ e.msg = m /\ e.result = "busy"
  BY DEF Write
<1>2. Started(<<>>, m) = Append(<<>>, e)
  BY DEF Started
<1> HIDE DEF e
<1>3. /\ Append(<<>>, e) \in Seq(Write)
      /\ Len(Append(<<>>, e)) = 1
      /\ Append(<<>>, e)[1] = e
  BY <1>1, Singleton
<1> QED
  BY <1>1, <1>2, <1>3

-----------------------------------------------------------------------------
LEMMA InitInv == ASSUME Init PROVE Inv
<1>1. DOMAIN writes = {} /\ Len(writes) = 0
  BY NoElements DEF Init
<1>2. /\ <<>> \in Seq(Messages) /\ <<>> \in Seq(Write)
      /\ 0 \in 0..MaxSends
  BY NoElements
<1>3. TypeOK
  BY <1>2 DEF Init, TypeOK
<1>4. OneWriteOfFront /\ NeverStuck
  BY <1>1 DEF Init, OneWriteOfFront, NeverStuck
<1> QED
  BY <1>1, <1>3, <1>4 DEF Inv

LEMMA SendInv == ASSUME Inv, Send PROVE Inv'
<1>1. sent + 1 \in Messages /\ (sent + 1) \in 0..MaxSends
  BY DEF Inv, TypeOK, Send, Messages
<1>2. TypeOK'
  BY <1>1, AppendHead DEF Inv, TypeOK, Send
<1> QED
  BY <1>2 DEF Inv, Send, OneWriteOfFront, NeverStuck

\* a state in which the front has just been given to async_write
LEMMA StartedInv ==
  ASSUME TypeOK', queue' # <<>>, Len(writes') = 1,
         writes'[1].msg = Head(queue'), writes'[1].result = "busy"
  PROVE  Inv'
<1>1. writes' \in Seq(Write)
  BY DEF TypeOK
<1>2. DOMAIN writes' = {1} /\ writes' # <<>>
  BY <1>1, LenProperties, NoElements
<1> QED
  BY <1>1, <1>2 DEF Inv, OneWriteOfFront, NeverStuck

LEMMA OnSendInv == ASSUME Inv, OnSend PROVE Inv'
<1> DEFINE m == Head(posted)
<1>1. /\ m \in Messages
      /\ Tail(posted) \in Seq(Messages)
      /\ queue \in Seq(Messages)
      /\ writes \in Seq(Write)
      /\ queue' = Append(queue, m)
  BY HeadTail DEF Inv, TypeOK, OnSend
<1>2. /\ queue' \in Seq(Messages) /\ queue' # <<>> /\ Len(queue') = Len(queue) + 1
      /\ queue # <<>> => Head(queue') = Head(queue)
      /\ queue = <<>> => Head(queue') = m
  BY <1>1, AppendHead
<1> HIDE DEF m
<1>3. CASE queue = <<>>
  <2>1. writes = <<>>
    BY <1>3, <1>1 DEF Inv, OneWriteOfFront
  <2>2. Len(queue) = 0 /\ Head(queue') = m
    BY <1>2, <1>3, NoElements
  <2>3. writes' = Started(<<>>, m)
    BY <1>2, <2>1, <2>2 DEF OnSend
  <2>4. /\ writes' \in Seq(Write) /\ Len(writes') = 1
        /\ writes'[1].msg = m /\ writes'[1].result = "busy"
    BY <1>1, <2>3, OneStarted
  <2> QED
    BY <1>1, <1>2, <2>2, <2>4, StartedInv DEF Inv, TypeOK, OnSend
<1>4. CASE queue # <<>>
  <2>1. writes' = writes
    BY <1>1, <1>2, <1>4 DEF OnSend
  <2>2. TypeOK'
    BY <1>1, <1>2, <2>1 DEF Inv, TypeOK, OnSend
  <2>3. OneWriteOfFront'
    BY <1>2, <1>4, <2>1 DEF Inv, OneWriteOfFront
  <2> QED
    BY <1>4, <2>1, <2>2, <2>3 DEF Inv, OnSend, NeverStuck
<1> QED
  BY <1>3, <1>4

\* a completion is always that of the only write
LEMMA OnlyWrite ==
  ASSUME Inv, NEW i \in DOMAIN writes
  PROVE  /\ i = 1 /\ Len(writes) = 1 /\ writes[1] \in Write
         /\ queue # <<>> /\ writes[1].msg = Head(queue)
         /\ RemoveAt(writes, i) = <<>>
<1>1. writes \in Seq(Write) /\ Len(writes) <= 1
  BY DEF Inv, TypeOK, OneWriteOfFront
<1>2. i = 1 /\ Len(writes) = 1 /\ writes[1] \in Write
  BY <1>1, OneElement
<1>3. RemoveAt(writes, 1) = <<>>
  BY <1>1, <1>2, RemoveOnly
<1> QED
  BY <1>2, <1>3 DEF Inv, OneWriteOfFront

\* the outcome of a write is noted
LEMMA ResultInv ==
  ASSUME Inv, NEW i \in DOMAIN writes, NEW r \in {"ok", "failed"},
         writes' = Ended(i, r), UNCHANGED queue
  PROVE  /\ writes' \in Seq(Write)
         /\ OneWriteOfFront'
         /\ writes' # <<>>
         /\ \A j \in DOMAIN writes' : writes'[j].result = r
<1>1. i = 1 /\ Len(writes) = 1 /\ writes \in Seq(Write)
  BY OnlyWrite DEF Inv, TypeOK
<1>2. /\ writes[1] \in Write
      /\ writes[1].msg = Head(queue)
      /\ queue # <<>>
  BY OnlyWrite
<1> DEFINE w == [msg |-> writes[1].msg, result |-> r]
<1>3. w \in Write /\ w.msg = writes[1].msg /\ w.result = r
  BY <1>2 DEF Write
<1>4. writes' = [writes EXCEPT ![1] = w]
  BY <1>1 DEF Ended
<1> HIDE DEF w
<1>5. writes' \in Seq(Write) /\ Len(writes') = 1 /\ writes'[1] = w
  BY <1>1, <1>3, <1>4, Replaced
<1>6. writes' # <<>> /\ DOMAIN writes' = {1}
  BY <1>5, NoElements, OneElement
<1> QED
  BY <1>2, <1>3, <1>5, <1>6 DEF OneWriteOfFront

LEMMA WrittenInv ==
  ASSUME Inv, NEW i \in DOMAIN writes, Written(i)
  PROVE  Inv'
<1>1. /\ writes' \in Seq(Write) /\ OneWriteOfFront' /\ writes' # <<>>
      /\ \A j \in DOMAIN writes' : writes'[j].result = "ok"
  BY ResultInv DEF Written
<1>2. writes[i].msg \in Messages
  BY OnlyWrite DEF Write
<1>3. wire' \in Seq(Messages)
  BY <1>2, AppendHead DEF Inv, TypeOK, Written
<1> QED
  BY <1>1, <1>3 DEF Inv, TypeOK, Written, NeverStuck

LEMMA WriteFailsInv ==
  ASSUME Inv, NEW i \in DOMAIN writes, WriteFails(i)
  PROVE  Inv'
<1>1. writes' \in Seq(Write) /\ OneWriteOfFront' /\ writes' # <<>>
  BY ResultInv DEF WriteFails
<1> QED
  BY <1>1 DEF Inv, TypeOK, WriteFails, NeverStuck

LEMMA OnWriteInv ==
  ASSUME Inv, NEW i \in DOMAIN writes, OnWrite(i)
  PROVE  Inv'
<1>1. queue # <<>> /\ RemoveAt(writes, i) = <<>> /\ queue \in Seq(Messages)
  BY OnlyWrite DEF Inv, TypeOK
<1>2. queue' = Tail(queue) /\ queue' \in Seq(Messages)
  BY <1>1, HeadTail DEF OnWrite
<1>3. CASE queue' = <<>>
  <2>1. writes' = <<>> /\ Len(writes') = 0 /\ DOMAIN writes' = {}
    BY <1>1, <1>3, NoElements DEF OnWrite
  <2>2. TypeOK'
    BY <1>2, <2>1, NoElements DEF Inv, TypeOK, OnWrite
  <2> QED
    BY <1>3, <2>1, <2>2 DEF Inv, OneWriteOfFront, NeverStuck
<1>4. CASE queue' # <<>>
  <2>1. Head(queue') \in Messages
    BY <1>2, <1>4, HeadTail
  <2>2. writes' = Started(<<>>, Head(queue'))
    BY <1>1, <1>4 DEF OnWrite
  <2>3. /\ writes' \in Seq(Write) /\ Len(writes') = 1
        /\ writes'[1].msg = Head(queue') /\ writes'[1].result = "busy"
    BY <2>1, <2>2, OneStarted
  <2>4. TypeOK'
    BY <1>2, <2>3 DEF Inv, TypeOK, OnWrite
  <2> QED
    BY <1>4, <2>3, <2>4, StartedInv
<1> QED
  BY <1>3, <1>4

\* broken is set by the failure and never reset
LEMMA OnWriteFailsInv ==
  ASSUME Inv, NEW i \in DOMAIN writes, OnWriteFails(i)
  PROVE  Inv'
<1>1. writes' = <<>> /\ Len(writes') = 0 /\ DOMAIN writes' = {}
  BY OnlyWrite, NoElements DEF OnWriteFails
<1>2. TypeOK'
  BY <1>1, NoElements DEF Inv, TypeOK, OnWriteFails
<1>3. broken'
  BY DEF Inv, OnWriteFails
<1> QED
  BY <1>1, <1>2, <1>3 DEF Inv, OneWriteOfFront, NeverStuck

LEMMA Inductive == Inv /\ [Next]_vars => Inv'
<1> SUFFICES ASSUME Inv, [Next]_vars
             PROVE  Inv'
  OBVIOUS
<1>1. CASE Send
  BY <1>1, SendInv
<1>2. CASE OnSend
  BY <1>2, OnSendInv
<1>3. CASE Break
  BY <1>3 DEF Break, Inv, TypeOK, OneWriteOfFront, NeverStuck
<1>4. CASE \E i \in DOMAIN writes :
             Written(i) \/ OnWrite(i) \/ WriteFails(i) \/ OnWriteFails(i)
  BY <1>4, WrittenInv, OnWriteInv, WriteFailsInv, OnWriteFailsInv
<1>5. CASE UNCHANGED vars
  BY <1>5 DEF vars, Inv, TypeOK, OneWriteOfFront, NeverStuck
<1> QED
  BY <1>1, <1>2, <1>3, <1>4, <1>5 DEF Next

LEMMA Invariance == Spec => []Inv
<1>1. Init => Inv
  BY InitInv
<1> QED
  BY <1>1, Inductive, PTL DEF Spec

\* on_send and on_write never have two writes under way, and the buffer of the
\* one that is under way is the string at the front of m_queue.
THEOREM OneWrite == Spec => []OneWriteOfFront
<1>1. Inv => OneWriteOfFront
  BY DEF Inv
<1> QED
  BY <1>1, Invariance, PTL

\* A queue that is not empty is being written, unless the stream has failed.
THEOREM NoLostWakeup == Spec => []NeverStuck
<1>1. Inv => NeverStuck
  BY DEF Inv
<1> QED
  BY <1>1, Invariance, PTL

-----------------------------------------------------------------------------
(* The terminal receives a FIFO channel.                                   *)

LEMMA UnwrittenType ==
  ASSUME Inv
  PROVE  /\ Unwritten \in Seq(Messages) /\ queue \in Seq(Messages)
         /\ posted \in Seq(Messages)
         /\ writes = <<>> => Unwritten = queue
         /\ writes # <<>> => /\ queue # <<>>
                             /\ writes[1].msg = Head(queue)
<1>1. /\ queue \in Seq(Messages) /\ posted \in Seq(Messages)
      /\ writes \in Seq(Write) /\ Len(writes) <= 1
  BY DEF Inv, TypeOK, OneWriteOfFront
<1>2. writes # <<>> => 1 \in DOMAIN writes
  BY <1>1, OneElement
<1>3. writes # <<>> => queue # <<>> /\ writes[1].msg = Head(queue)
  BY <1>2, OnlyWrite
<1>4. queue # <<>> => Tail(queue) \in Seq(Messages)
  BY <1>1, HeadTailProperties
<1> QED
  BY <1>1, <1>3, <1>4 DEF Unwritten

LEMMA SendArrives ==
  ASSUME Inv, Send
  PROVE  Terminal!Send(sent + 1) /\ sent + 1 \in Messages
<1>1. sent + 1 \in Messages
  BY DEF Inv, TypeOK, Send, Messages
<1>2. Unwritten' = Unwritten
  BY DEF Send, Unwritten
<1>3. Unwritten \o Append(posted, sent + 1)
        = Append(Unwritten \o posted, sent + 1)
  BY <1>1, UnwrittenType, AppendConcat
<1> QED
  BY <1>1, <1>2, <1>3 DEF Send, Terminal!Send

\* a message only moves from the executor to the queue
LEMMA OnSendStutters ==
  ASSUME Inv, OnSend
  PROVE  UNCHANGED Terminal!fifo
<1>1. /\ Unwritten \in Seq(Messages) /\ queue \in Seq(Messages)
      /\ posted \in Seq(Messages) /\ posted # <<>>
      /\ Head(posted) \in Messages
      /\ queue' = Append(queue, Head(posted)) /\ posted' = Tail(posted)
  BY UnwrittenType, HeadTailProperties DEF OnSend
<1>2. Append(Unwritten, Head(posted)) \o Tail(posted) = Unwritten \o posted
  BY <1>1, MoveHead
<1>3. /\ queue # <<>> => Len(queue') > 1
      /\ queue = <<>> => ~(Len(queue') > 1)
  BY <1>1, AppendProperties, EmptySeq
<1>4. CASE queue = <<>>
  <2>1. writes = <<>> /\ Unwritten = queue
    BY <1>4, UnwrittenType
  <2>2. writes' = Started(<<>>, Head(queue'))
    BY <1>3, <1>4, <2>1 DEF OnSend
  <2>3. Head(queue') \in Messages
    BY <1>1, <1>4, HeadTailAppend
  <2>4. writes'[1].result = "busy"
    BY <2>2, <2>3, OneStarted
  <2>5. Unwritten' = Append(Unwritten, Head(posted))
    BY <1>1, <2>1, <2>4 DEF Unwritten
  <2> QED
    BY <1>1, <1>2, <2>5 DEF OnSend, Terminal!fifo
<1>5. CASE queue # <<>>
  <2>1. writes' = writes
    BY <1>3, <1>5 DEF OnSend
  <2>2. Tail(queue') = Append(Tail(queue), Head(posted))
    BY <1>1, <1>5, HeadTailAppend
  <2>3. Unwritten' = Append(Unwritten, Head(posted))
    BY <1>1, <2>1, <2>2 DEF Unwritten
  <2> QED
    BY <1>1, <1>2, <2>3 DEF OnSend, Terminal!fifo
<1> QED
  BY <1>4, <1>5

LEMMA WrittenArrives ==
  ASSUME Inv, NEW i \in DOMAIN writes, Written(i)
  PROVE  Terminal!Arrive
<1>1. /\ i = 1 /\ Len(writes) = 1 /\ writes[1] \in Write /\ queue # <<>>
      /\ writes[1].msg = Head(queue) /\ writes \in Seq(Write)
  BY OnlyWrite DEF Inv, TypeOK
<1>2. Unwritten = queue
  BY <1>1 DEF Written, Unwritten
<1> DEFINE w == [msg |-> writes[1].msg, result |-> "ok"]
<1>3. w \in Write /\ w.result = "ok"
  BY <1>1 DEF Write
<1>4. writes' = [writes EXCEPT ![1] = w]
  BY <1>1 DEF Written, Ended
<1> HIDE DEF w
<1>5. writes' \in Seq(Write) /\ Len(writes') = 1 /\ writes'[1] = w
  BY <1>1, <1>3, <1>4, Replaced
<1>6. writes' # <<>>
  BY <1>5, NoElements
<1>7. Unwritten' = Tail(queue)
  BY <1>3, <1>5, <1>6 DEF Written, Unwritten
<1>8. /\ queue \o posted # <<>>
      /\ Head(queue \o posted) = Head(queue)
      /\ Tail(queue \o posted) = Tail(queue) \o posted
  BY <1>1, UnwrittenType, HeadOfConcat
<1> QED
  BY <1>1, <1>2, <1>7, <1>8 DEF Written, Terminal!Arrive

\* the front that on_write erases has arrived already
LEMMA OnWriteStutters ==
  ASSUME Inv, NEW i \in DOMAIN writes, OnWrite(i)
  PROVE  UNCHANGED Terminal!fifo
<1>1. /\ i = 1 /\ Len(writes) = 1 /\ queue # <<>>
      /\ RemoveAt(writes, i) = <<>> /\ queue \in Seq(Messages)
  BY OnlyWrite DEF Inv, TypeOK
<1>2. writes # <<>>
  BY <1>1, NoElements
<1>3. Unwritten = Tail(queue) /\ queue' = Tail(queue)
  BY <1>1, <1>2 DEF OnWrite, Unwritten
<1>4. Unwritten' = queue'
  <2>1. CASE queue' = <<>>
    BY <1>1, <2>1 DEF OnWrite, Unwritten
  <2>2. CASE queue' # <<>>
    <3>1. Head(queue') \in Messages
      BY <1>1, <1>3, <2>2, HeadTailProperties
    <3>2. writes' = Started(<<>>, Head(queue'))
      BY <1>1, <2>2 DEF OnWrite
    <3>3. writes'[1].result = "busy"
      BY <3>1, <3>2, OneStarted
    <3> QED
      BY <3>3 DEF Unwritten
  <2> QED
    BY <2>1, <2>2
<1> QED
  BY <1>3, <1>4 DEF OnWrite, Terminal!fifo

LEMMA WriteFailsCuts ==
  ASSUME Inv, NEW i \in DOMAIN writes, WriteFails(i)
  PROVE  Terminal!Cut
<1>1. /\ i = 1 /\ Len(writes) = 1 /\ writes \in Seq(Write)
      /\ writes[1] \in Write
  BY OnlyWrite DEF Inv, TypeOK
<1> DEFINE w == [msg |-> writes[1].msg, result |-> "failed"]
<1>2. w \in Write /\ w.result = "failed"
  BY <1>1 DEF Write
<1>3. writes' = [writes EXCEPT ![1] = w]
  BY <1>1 DEF WriteFails, Ended
<1> HIDE DEF w
<1>4. writes'[1] = w
  BY <1>1, <1>2, <1>3, Replaced
<1>5. Unwritten = queue /\ Unwritten' = queue
  BY <1>1, <1>2, <1>4 DEF WriteFails, Unwritten
<1> QED
  BY <1>5 DEF WriteFails, Terminal!Cut

LEMMA OnWriteFailsStutters ==
  ASSUME Inv, NEW i \in DOMAIN writes, OnWriteFails(i)
  PROVE  UNCHANGED Terminal!fifo
<1>1. i = 1 /\ writes' = <<>>
  BY OnlyWrite DEF OnWriteFails
<1>2. Unwritten = queue /\ Unwritten' = queue
  BY <1>1 DEF OnWriteFails, Unwritten
<1> QED
  BY <1>2 DEF OnWriteFails, Terminal!fifo

LEMMA StepImplements == Inv /\ [Next]_vars => [Terminal!Next]_(Terminal!fifo)
<1> SUFFICES ASSUME Inv, [Next]_vars
             PROVE  Terminal!Next \/ UNCHANGED Terminal!fifo
  OBVIOUS
<1>1. CASE Send
  BY <1>1, SendArrives DEF Terminal!Next
<1>2. CASE OnSend
  BY <1>2, OnSendStutters
<1>3. CASE Break
  <2>1. Terminal!Cut
    BY <1>3 DEF Break, Unwritten, Terminal!Cut
  <2> QED
    BY <2>1 DEF Terminal!Next
<1>4. ASSUME NEW i \in DOMAIN writes,
             Written(i) \/ OnWrite(i) \/ WriteFails(i) \/ OnWriteFails(i)
      PROVE  Terminal!Next \/ UNCHANGED Terminal!fifo
  <2>1. CASE Written(i)
    BY <2>1, WrittenArrives DEF Terminal!Next
  <2>2. CASE OnWrite(i)
    BY <2>2, OnWriteStutters
  <2>3. CASE WriteFails(i)
    BY <2>3, WriteFailsCuts DEF Terminal!Next
  <2>4. CASE OnWriteFails(i)
    BY <2>4, OnWriteFailsStutters
  <2> QED
    BY <1>4, <2>1, <2>2, <2>3, <2>4
<1>5. CASE UNCHANGED vars
  BY <1>5 DEF vars, Unwritten, Terminal!fifo
<1> QED
  BY <1>1, <1>2, <1>3, <1>4, <1>5 DEF Next

LEMMA InitImplements == ASSUME Init PROVE Terminal!Init
<1>1. Unwritten = <<>>
  BY DEF Init, Unwritten
<1>2. <<>> \o <<>> = <<>>
  BY ConcatEmptySeq, EmptySeq
<1> QED
  BY <1>1, <1>2 DEF Init, Terminal!Init

\* The terminal receives what was sent in order and once, whatever the order
\* in which on_send, the writes and on_write interleave.
THEOREM FifoImplemented == Spec => ImplementsFifo
<1>1. Init => Terminal!Init
  BY InitImplements
<1> QED
  BY <1>1, Invariance, StepImplements, PTL
  DEF Spec, ImplementsFifo, Terminal!Spec

-----------------------------------------------------------------------------
(* The websocket in the bridge.                                             *)

LEMMA OutputSends == ASSUME NEW c, Output(c) PROVE Send
  BY DEF Output

LEMMA BridgeStep == [BridgeNext]_all => [Next]_vars
<1> SUFFICES ASSUME [BridgeNext]_all
             PROVE  Next \/ UNCHANGED vars
  OBVIOUS
<1>1. CASE Console \/ Enter \/ Exit \/ OnRead
  <2>1. Send
    BY <1>1, OutputSends DEF Console, Enter, Exit, OnRead
  <2> QED
    BY <2>1 DEF Next
<1>2. CASE Chunk \/ ReadFails \/ OnReadFails \/ Port \/ \E c \in Codes : Key(c)
  BY <1>2 DEF Chunk, ReadFails, OnReadFails, Port, Key
<1>3. CASE Stream
  BY <1>3 DEF Stream, Next
<1>4. CASE UNCHANGED all
  BY <1>4 DEF all
<1> QED
  BY <1>1, <1>2, <1>3, <1>4 DEF BridgeNext

\* Whatever the port, the keys and the control state do, the websocket's queue
\* goes through a behaviour of WsQueue: what shares the ostream with it only
\* sends.
THEOREM BridgeIsWsQueue == BridgeSpec => Spec
<1>1. BridgeInit => Init
  BY DEF BridgeInit
<1> QED
  BY <1>1, BridgeStep, PTL DEF BridgeSpec, Spec

\* One write of the front of m_queue at a time, with a port behind it.
THEOREM BridgeOneWrite == BridgeSpec => []OneWriteOfFront
  BY BridgeIsWsQueue, OneWrite, PTL

\* No wake-up of the websocket's queue is lost, with a port behind it.
THEOREM BridgeNoLostWakeup == BridgeSpec => []NeverStuck
  BY BridgeIsWsQueue, NoLostWakeup, PTL

\* The terminal receives what was sent in order and once, with a port behind it.
THEOREM BridgeFifo == BridgeSpec => ImplementsFifo
  BY BridgeIsWsQueue, FifoImplemented, PTL

-----------------------------------------------------------------------------
(* The queue of the port.                                                   *)

\* The message being written counts as written once the port has taken its
\* bytes, although it leaves m_send_queue only in on_write.
KeysUnwritten ==
  IF inWrites # <<>> /\ inWrites[1].result = "ok" THEN Tail(inQueue) ELSE inQueue

KeysLeft == KeysUnwritten \o inPosted

\* A write fails for a reason, and its buffer is no longer than the code it was
\* started for.
WritesFit ==
  \A i \in DOMAIN inWrites :
    /\ inWrites[i].result = "failed" => unplugged \/ cancelled
    /\ Len(inWrites[i].buf) <= Len(Head(inQueue))

\* Every code that is not left made the device receive at least a byte, and all
\* that it received are no more than the bytes of these codes.
BytesCounted ==
  /\ Len(keys) <= Len(tty) + Len(KeysLeft)
  /\ Len(tty) + Len(FlattenSeq(KeysLeft)) <= Len(FlattenSeq(keys))

PipeInv ==
  /\ In!TypeOK /\ In!OneWriteAtATime /\ In!NeverStuck
  /\ WritesFit /\ BytesCounted

LEMMA CodeTypes ==
  /\ Codes \subseteq Seq(Nat)
  /\ \A c \in Codes : c \in Seq(In!Bytes) /\ Len(c) \in Nat \ {0}
  /\ <<Junk>> \in Seq(In!Bytes) /\ Len(<<Junk>>) = 1
<1>1. \A c \in Codes : c \in Seq(Nat) /\ c # <<>>
  BY CodesAssumption
<1>2. Nat \subseteq In!Bytes
  BY DEF In!Bytes
<1>3. \A c \in Codes : c \in Seq(In!Bytes)
  BY <1>1, <1>2, SeqMonotonic
<1>4. \A c \in Codes : Len(c) \in Nat \ {0}
  BY <1>1, EmptySeq
<1>5. <<Junk>> \in Seq(In!Bytes) /\ Len(<<Junk>>) = 1
  BY DEF In!Bytes
<1> QED
  BY <1>1, <1>3, <1>4, <1>5

\* the bytes of the codes of s
LEMMA CodesLength ==
  ASSUME NEW s \in Seq(Codes)
  PROVE  /\ Len(s) \in Nat /\ Len(FlattenSeq(s)) \in Nat
         /\ FlattenSeq(<<>>) = <<>>
         /\ \A c \in Codes :
              /\ Append(s, c) \in Seq(Codes)
              /\ Len(Append(s, c)) = Len(s) + 1
              /\ Len(FlattenSeq(Append(s, c))) = Len(FlattenSeq(s)) + Len(c)
         /\ s # <<>> =>
              /\ Head(s) \in Codes /\ Tail(s) \in Seq(Codes)
              /\ Len(Tail(s)) = Len(s) - 1
              /\ Len(FlattenSeq(s)) = Len(Head(s)) + Len(FlattenSeq(Tail(s)))
<1>1. s \in Seq(Seq(Nat))
  BY CodeTypes, SeqMonotonic
<1>2. FlattenSeq(s) \in Seq(Nat) /\ Len(FlattenSeq(s)) \in Nat
  BY <1>1, FlattenType, LenProperties
<1>3. ASSUME NEW c \in Codes
      PROVE  /\ Append(s, c) \in Seq(Codes)
             /\ Len(Append(s, c)) = Len(s) + 1
             /\ Len(FlattenSeq(Append(s, c))) = Len(FlattenSeq(s)) + Len(c)
  <2>1. c \in Seq(Nat)
    BY CodeTypes
  <2>2. FlattenSeq(Append(s, c)) = FlattenSeq(s) \o c
    BY <1>1, <2>1, FlattenAppend
  <2>3. Len(FlattenSeq(s) \o c) = Len(FlattenSeq(s)) + Len(c)
    BY <1>2, <2>1, ConcatProperties
  <2> QED
    BY <2>2, <2>3, AppendProperties
<1>4. ASSUME s # <<>>
      PROVE  /\ Head(s) \in Codes /\ Tail(s) \in Seq(Codes)
             /\ Len(Tail(s)) = Len(s) - 1
             /\ Len(FlattenSeq(s)) = Len(Head(s)) + Len(FlattenSeq(Tail(s)))
  <2>1. Head(s) \in Codes /\ Tail(s) \in Seq(Codes) /\ Len(Tail(s)) = Len(s) - 1
    BY <1>4, HeadTailProperties
  <2>2. Head(s) \in Seq(Nat) /\ Tail(s) \in Seq(Seq(Nat))
    BY <2>1, CodeTypes, SeqMonotonic
  <2>3. FlattenSeq(Tail(s)) \in Seq(Nat)
    BY <2>2, FlattenType
  <2>4. FlattenSeq(s) = Head(s) \o FlattenSeq(Tail(s))
    BY <1>1, <1>4, FlattenHead
  <2> QED
    BY <2>1, <2>2, <2>3, <2>4, ConcatProperties
<1>5. FlattenSeq(<<>>) = <<>>
  BY EmptySeq, FlattenIs
<1> QED
  BY <1>2, <1>3, <1>4, <1>5, LenProperties

LEMMA KeyStarted ==
  ASSUME NEW b \in Seq(In!Bytes)
  PROVE  /\ In!Started(<<>>, b) \in Seq(In!Write)
         /\ Len(In!Started(<<>>, b)) = 1
         /\ In!Started(<<>>, b)[1].buf = b
         /\ In!Started(<<>>, b)[1].result = "busy"
<1> DEFINE e == [buf |-> b, result |-> "busy"]
<1>1. e \in In!Write /\ e.buf = b /\ e.result = "busy"
  BY DEF In!Write
<1>2. In!Started(<<>>, b) = Append(<<>>, e)
  BY DEF In!Started
<1> HIDE DEF e
<1>3. /\ Append(<<>>, e) \in Seq(In!Write)
      /\ Len(Append(<<>>, e)) = 1
      /\ Append(<<>>, e)[1] = e
  BY <1>1, Singleton
<1> QED
  BY <1>1, <1>2, <1>3

\* SerialPipe's names for operators of the community modules
LEMMA SameOperators ==
  ASSUME NEW s, NEW i
  PROVE  /\ In!RemoveAt(s, i) = RemoveAt(s, i)
         /\ In!FlattenSeq(s) = FlattenSeq(s)
  BY DEF In!RemoveAt, RemoveAt, In!FlattenSeq, FlattenSeq

\* a completion is always that of the only write
LEMMA OnlyKeyWrite ==
  ASSUME PipeInv, NEW i \in DOMAIN inWrites
  PROVE  /\ i = 1 /\ Len(inWrites) = 1 /\ inWrites \in Seq(In!Write)
         /\ inWrites[1] \in In!Write /\ inWrites # <<>>
         /\ inQueue # <<>> /\ inQueue \in Seq(Codes)
         /\ In!RemoveAt(inWrites, i) = <<>>
<1>1. /\ inWrites \in Seq(In!Write) /\ Len(inWrites) <= 1
      /\ inQueue \in Seq(Codes)
      /\ inWrites # <<>> => inQueue # <<>>
  BY DEF PipeInv, In!TypeOK, In!OneWriteAtATime
<1>2. i = 1 /\ Len(inWrites) = 1 /\ inWrites[1] \in In!Write
  BY <1>1, OneElement
<1>3. In!RemoveAt(inWrites, 1) = <<>> /\ inWrites # <<>>
  BY <1>1, <1>2, RemoveOnly, OnlyElement, SameOperators
<1> QED
  BY <1>1, <1>2, <1>3

LEMMA KeysLeftType ==
  ASSUME PipeInv
  PROVE  /\ inQueue \in Seq(Codes) /\ inPosted \in Seq(Codes)
         /\ KeysUnwritten \in Seq(Codes) /\ KeysLeft \in Seq(Codes)
         /\ inWrites = <<>> => KeysUnwritten = inQueue
         /\ inWrites # <<>> => inQueue # <<>>
<1>1. /\ inQueue \in Seq(Codes) /\ inPosted \in Seq(Codes)
      /\ inWrites # <<>> => inQueue # <<>>
  BY DEF PipeInv, In!TypeOK, In!OneWriteAtATime
<1>2. inQueue # <<>> => Tail(inQueue) \in Seq(Codes)
  BY <1>1, HeadTailProperties
<1>3. KeysUnwritten \in Seq(Codes)
  BY <1>1, <1>2 DEF KeysUnwritten
<1>4. KeysLeft \in Seq(Codes)
  BY <1>1, <1>3, ConcatProperties DEF KeysLeft
<1> QED
  BY <1>1, <1>3, <1>4 DEF KeysUnwritten

\* nothing typed and nothing written: the port as Enter opens it
LEMMA PipeOpened ==
  ASSUME inPosted' = <<>>, inQueue' = <<>>, inWrites' = <<>>,
         keys' = <<>>, tty' = <<>>,
         unplugged' \in BOOLEAN, cancelled' \in BOOLEAN
  PROVE  PipeInv'
<1>1. /\ <<>> \in Seq(Codes) /\ <<>> \in Seq(In!Write) /\ <<>> \in Seq(In!Bytes)
      /\ Len(<<>>) = 0 /\ DOMAIN <<>> = {}
  BY NoElements
<1>2. In!TypeOK'
  BY <1>1 DEF In!TypeOK
<1>3. In!OneWriteAtATime' /\ In!NeverStuck' /\ WritesFit'
  BY <1>1 DEF In!OneWriteAtATime, In!NeverStuck, WritesFit
<1>4. KeysLeft' = <<>>
  <2>1. KeysUnwritten' = <<>>
    BY DEF KeysUnwritten
  <2>2. <<>> \o <<>> = <<>>
    BY ConcatEmptySeq, EmptySeq
  <2> QED
    BY <2>1, <2>2 DEF KeysLeft
<1>5. BytesCounted'
  <2>1. FlattenSeq(<<>>) = <<>>
    BY <1>1, CodesLength
  <2> QED
    BY <1>1, <1>4, <2>1 DEF BytesCounted
<1> QED
  BY <1>2, <1>3, <1>5 DEF PipeInv

LEMMA TypePipe ==
  ASSUME PipeInv, NEW c \in Codes, In!Type(c)
  PROVE  PipeInv'
<1>1. /\ keys' = Append(keys, c) /\ inPosted' = Append(inPosted, c)
      /\ UNCHANGED <<inQueue, inWrites, tty, unplugged, cancelled>>
  BY DEF In!Type
<1>2. /\ keys \in Seq(Codes) /\ inPosted \in Seq(Codes) /\ tty \in Seq(In!Bytes)
  BY DEF PipeInv, In!TypeOK
<1>3. keys' \in Seq(Codes) /\ inPosted' \in Seq(Codes)
  BY <1>1, <1>2, AppendProperties
<1>4. In!TypeOK'
  BY <1>1, <1>3 DEF PipeInv, In!TypeOK
<1>5. In!OneWriteAtATime' /\ In!NeverStuck' /\ WritesFit'
  BY <1>1 DEF PipeInv, In!OneWriteAtATime, In!NeverStuck, WritesFit
<1>6. KeysLeft' = Append(KeysLeft, c)
  <2>1. KeysUnwritten' = KeysUnwritten
    BY <1>1 DEF KeysUnwritten
  <2>2. KeysUnwritten \o Append(inPosted, c) = Append(KeysUnwritten \o inPosted, c)
    <3>1. KeysUnwritten \in Seq(Codes) /\ inPosted \in Seq(Codes)
      BY KeysLeftType
    <3> QED
      BY <3>1, AppendConcat
  <2> QED
    BY <1>1, <2>1, <2>2 DEF KeysLeft
<1>7. BytesCounted'
  <2>1. /\ Len(keys') = Len(keys) + 1
        /\ Len(FlattenSeq(keys')) = Len(FlattenSeq(keys)) + Len(c)
        /\ Len(keys) \in Nat /\ Len(FlattenSeq(keys)) \in Nat
    BY <1>1, <1>2, CodesLength
  <2>2. /\ Len(KeysLeft') = Len(KeysLeft) + 1
        /\ Len(FlattenSeq(KeysLeft')) = Len(FlattenSeq(KeysLeft)) + Len(c)
        /\ Len(KeysLeft) \in Nat /\ Len(FlattenSeq(KeysLeft)) \in Nat
    BY <1>6, KeysLeftType, CodesLength
  <2>3. Len(c) \in Nat /\ Len(tty) \in Nat /\ tty' = tty
    BY <1>1, <1>2, CodeTypes, LenProperties
  <2> QED
    BY <2>1, <2>2, <2>3 DEF PipeInv, BytesCounted
<1> QED
  BY <1>4, <1>5, <1>7 DEF PipeInv

\* what moves no byte and no code counts the same
LEMMA CountKept ==
  ASSUME PipeInv, KeysLeft' = KeysLeft, UNCHANGED <<keys, tty>>
  PROVE  BytesCounted'
  BY DEF PipeInv, BytesCounted

LEMMA OnSendPipe ==
  ASSUME PipeInv, In!OnSend
  PROVE  PipeInv'
<1> DEFINE m == Head(inPosted)
<1>1. /\ inPosted # <<>> /\ inPosted \in Seq(Codes) /\ inQueue \in Seq(Codes)
      /\ inWrites \in Seq(In!Write)
      /\ inPosted' = Tail(inPosted) /\ inQueue' = Append(inQueue, m)
      /\ UNCHANGED <<keys, tty, unplugged, cancelled>>
  BY DEF PipeInv, In!TypeOK, In!OnSend
<1>2. m \in Codes /\ Tail(inPosted) \in Seq(Codes)
  BY <1>1, HeadTailProperties
<1> HIDE DEF m
<1>3. /\ inQueue' \in Seq(Codes) /\ inQueue' # <<>>
      /\ inQueue # <<>> => /\ Head(inQueue') = Head(inQueue)
                           /\ Tail(inQueue') = Append(Tail(inQueue), m)
      /\ inQueue = <<>> => Head(inQueue') = m
      /\ inQueue # <<>> => Len(inQueue') > 1
      /\ inQueue = <<>> => ~(Len(inQueue') > 1)
  <2>1. /\ inQueue' \in Seq(Codes) /\ inQueue' # <<>>
        /\ Len(inQueue') = Len(inQueue) + 1
        /\ inQueue # <<>> => Head(inQueue') = Head(inQueue)
        /\ inQueue = <<>> => Head(inQueue') = m
    BY <1>1, <1>2, AppendHead
  <2>2. inQueue # <<>> => Tail(inQueue') = Append(Tail(inQueue), m)
    BY <1>1, HeadTailAppend
  <2>3. /\ inQueue # <<>> => Len(inQueue) \in Nat \ {0}
        /\ inQueue = <<>> => Len(inQueue) = 0
    BY <1>1, EmptySeq
  <2> QED
    BY <2>1, <2>2, <2>3
<1>4. Append(KeysUnwritten, m) \o Tail(inPosted) = KeysUnwritten \o inPosted
  BY <1>1, KeysLeftType, MoveHead DEF m
<1>5. ASSUME KeysUnwritten' = Append(KeysUnwritten, m)
      PROVE  BytesCounted'
  BY <1>1, <1>4, <1>5, CountKept DEF KeysLeft
<1>6. CASE inQueue = <<>>
  <2>1. inWrites = <<>> /\ KeysUnwritten = inQueue
    BY <1>6, KeysLeftType
  <2>2. inWrites' = In!Started(<<>>, m)
    BY <1>1, <1>3, <1>6, <2>1 DEF In!OnSend
  <2>3. /\ inWrites' \in Seq(In!Write) /\ Len(inWrites') = 1
        /\ inWrites'[1].buf = m /\ inWrites'[1].result = "busy"
    BY <1>2, <2>2, KeyStarted, CodeTypes
  <2>4. DOMAIN inWrites' = {1} /\ inWrites' # <<>>
    BY <2>3, OnlyElement
  <2>5. In!TypeOK'
    BY <1>1, <1>2, <1>3, <2>3 DEF PipeInv, In!TypeOK
  <2>6. In!OneWriteAtATime' /\ In!NeverStuck'
    BY <1>3, <2>3, <2>4 DEF In!OneWriteAtATime, In!NeverStuck
  <2>7. WritesFit'
    <3>1. Len(m) \in Nat
      BY <1>2, CodeTypes
    <3> QED
      BY <1>3, <1>6, <2>3, <2>4, <3>1 DEF WritesFit
  <2>8. KeysUnwritten' = Append(KeysUnwritten, m)
    BY <1>1, <2>1, <2>3 DEF KeysUnwritten
  <2> QED
    BY <1>5, <2>5, <2>6, <2>7, <2>8 DEF PipeInv
<1>7. CASE inQueue # <<>>
  <2>1. inWrites' = inWrites
    BY <1>1, <1>3, <1>7 DEF In!OnSend
  <2>2. In!TypeOK'
    BY <1>1, <1>2, <1>3, <2>1 DEF PipeInv, In!TypeOK
  <2>3. In!OneWriteAtATime' /\ In!NeverStuck'
    BY <1>1, <1>3, <1>7, <2>1 DEF PipeInv, In!OneWriteAtATime, In!NeverStuck
  <2>4. WritesFit'
    BY <1>1, <1>3, <1>7, <2>1 DEF PipeInv, WritesFit
  <2>5. KeysUnwritten' = Append(KeysUnwritten, m)
    BY <1>1, <1>3, <1>7, <2>1 DEF KeysUnwritten
  <2> QED
    BY <1>5, <2>2, <2>3, <2>4, <2>5 DEF PipeInv
<1> QED
  BY <1>6, <1>7

\* the outcome of a write is noted
LEMMA KeyResult ==
  ASSUME PipeInv, NEW i \in DOMAIN inWrites, NEW r \in {"ok", "failed"},
         inWrites' = In!Ended(i, r), UNCHANGED inQueue,
         r = "failed" => unplugged' \/ cancelled'
  PROVE  /\ inWrites' \in Seq(In!Write)
         /\ In!OneWriteAtATime' /\ In!NeverStuck' /\ WritesFit'
         /\ inWrites' # <<>> /\ inWrites'[1].result = r
<1>1. /\ i = 1 /\ Len(inWrites) = 1 /\ inWrites \in Seq(In!Write)
      /\ inWrites[1] \in In!Write /\ inQueue # <<>>
  BY OnlyKeyWrite
<1> DEFINE w == [buf |-> inWrites[1].buf, result |-> r]
<1>2. w \in In!Write /\ w.buf = inWrites[1].buf /\ w.result = r
  BY <1>1 DEF In!Write
<1>3. inWrites' = [inWrites EXCEPT ![1] = w]
  BY <1>1 DEF In!Ended
<1> HIDE DEF w
<1>4. inWrites' \in Seq(In!Write) /\ Len(inWrites') = 1 /\ inWrites'[1] = w
  <2>1. /\ [inWrites EXCEPT ![1] = w] \in Seq(In!Write)
        /\ Len([inWrites EXCEPT ![1] = w]) = 1
        /\ [inWrites EXCEPT ![1] = w][1] = w
    BY <1>1, <1>2, Replaced
  <2> QED
    BY <1>3, <2>1
<1>5. inWrites' # <<>> /\ DOMAIN inWrites' = {1}
  BY <1>4, OnlyElement
<1>6. Len(inWrites[1].buf) <= Len(Head(inQueue))
  BY <1>1 DEF PipeInv, WritesFit
<1>7. In!OneWriteAtATime' /\ In!NeverStuck'
  <2>1. inQueue' # <<>>
    BY <1>1
  <2>2. Len(inWrites') <= 1
    BY ONLY <1>4
  <2> QED
    BY <1>5, <2>1, <2>2 DEF In!OneWriteAtATime, In!NeverStuck
<1>8. WritesFit'
  BY <1>2, <1>4, <1>5, <1>6 DEF WritesFit
<1> QED
  BY <1>2, <1>4, <1>5, <1>7, <1>8

LEMMA WrittenPipe ==
  ASSUME PipeInv, NEW i \in DOMAIN inWrites, NEW n \in DOMAIN inWrites[i].buf,
         In!Written(i, n)
  PROVE  PipeInv'
<1> DEFINE b == inWrites[1].buf
<1>1. /\ i = 1 /\ inWrites # <<>> /\ inWrites[1] \in In!Write
      /\ inQueue # <<>> /\ inQueue \in Seq(Codes)
  BY OnlyKeyWrite
<1>2. /\ inWrites[1].result = "busy"
      /\ inWrites' = In!Ended(i, "ok")
      /\ tty' = tty \o SubSeq(b, 1, n)
      /\ UNCHANGED <<keys, inPosted, inQueue, unplugged, cancelled>>
  BY <1>1 DEF In!Written
<1>3. /\ inWrites' \in Seq(In!Write)
      /\ In!OneWriteAtATime' /\ In!NeverStuck' /\ WritesFit'
      /\ inWrites' # <<>> /\ inWrites'[1].result = "ok"
  BY <1>2, KeyResult
<1>4. /\ b \in Seq(In!Bytes) /\ n \in 1..Len(b) /\ Len(b) \in Nat
  <2>1. b \in Seq(In!Bytes)
    BY <1>1 DEF In!Write
  <2> QED
    BY <1>1, <2>1, LenProperties
<1>5. Len(b) <= Len(Head(inQueue))
  BY <1>1 DEF PipeInv, WritesFit
<1> HIDE DEF b
<1>6. tty \in Seq(In!Bytes) /\ Len(tty) \in Nat
  BY LenProperties DEF PipeInv, In!TypeOK
<1>7. tty' \in Seq(In!Bytes) /\ Len(tty') = Len(tty) + n
  <2>1. SubSeq(b, 1, n) \in Seq(In!Bytes) /\ Len(SubSeq(b, 1, n)) = n
    BY <1>4
  <2> QED
    BY <1>2, <1>6, <2>1, ConcatProperties
<1>8. In!TypeOK'
  BY <1>2, <1>3, <1>7 DEF PipeInv, In!TypeOK
<1>9. /\ KeysLeft # <<>> /\ Head(KeysLeft) = Head(inQueue)
      /\ KeysLeft' = Tail(KeysLeft)
  <2>1. KeysLeft = inQueue \o inPosted
    BY <1>2 DEF KeysLeft, KeysUnwritten
  <2>2. KeysLeft' = Tail(inQueue) \o inPosted
    BY <1>2, <1>3 DEF KeysLeft, KeysUnwritten
  <2>3. inPosted \in Seq(Codes)
    BY KeysLeftType
  <2> QED
    BY <1>1, <2>1, <2>2, <2>3, HeadOfConcat
<1>10. BytesCounted'
  <2>1. /\ Len(KeysLeft') = Len(KeysLeft) - 1 /\ Len(KeysLeft) \in Nat
        /\ Len(FlattenSeq(KeysLeft))
             = Len(Head(inQueue)) + Len(FlattenSeq(KeysLeft'))
    BY <1>9, KeysLeftType, CodesLength
  <2>2. /\ Len(FlattenSeq(KeysLeft')) \in Nat
        /\ Len(FlattenSeq(KeysLeft)) \in Nat
    BY <1>9, KeysLeftType, CodesLength, HeadTailProperties
  <2>3. Len(keys) \in Nat /\ Len(FlattenSeq(keys)) \in Nat /\ keys' = keys
    BY <1>2, CodesLength DEF PipeInv, In!TypeOK
  <2>4. Len(Head(inQueue)) \in Nat
    BY <1>1, CodeTypes, HeadTailProperties
  <2>5. /\ Len(keys) <= Len(tty) + Len(KeysLeft)
        /\ Len(tty) + Len(FlattenSeq(KeysLeft)) <= Len(FlattenSeq(keys))
    BY DEF PipeInv, BytesCounted
  <2>6. n \in Nat /\ n >= 1 /\ n <= Len(Head(inQueue))
    BY <1>4, <1>5, <2>4
  <2>7. Len(keys') <= Len(tty') + Len(KeysLeft')
    BY <1>6, <1>7, <2>1, <2>3, <2>5, <2>6
  <2>8. Len(tty') + Len(FlattenSeq(KeysLeft')) <= Len(FlattenSeq(keys'))
    BY <1>6, <1>7, <2>1, <2>2, <2>3, <2>4, <2>5, <2>6
  <2> QED
    BY <2>7, <2>8 DEF BytesCounted
<1> QED
  BY <1>3, <1>8, <1>10 DEF PipeInv

\* the front that on_write erases has been written already
LEMMA OnWritePipe ==
  ASSUME PipeInv, NEW i \in DOMAIN inWrites, In!OnWrite(i)
  PROVE  PipeInv'
<1>1. /\ i = 1 /\ inWrites # <<>> /\ inQueue # <<>> /\ inQueue \in Seq(Codes)
      /\ In!RemoveAt(inWrites, i) = <<>>
  BY OnlyKeyWrite
<1>2. /\ inWrites[1].result = "ok"
      /\ inQueue' = Tail(inQueue)
      /\ inWrites' = IF inQueue' = <<>> THEN <<>> ELSE In!Started(<<>>, <<Junk>>)
      /\ UNCHANGED <<keys, inPosted, tty, unplugged, cancelled>>
  BY <1>1 DEF In!OnWrite
<1>3. inQueue' \in Seq(Codes) /\ KeysUnwritten = inQueue'
  BY <1>1, <1>2, HeadTailProperties DEF KeysUnwritten
<1>4. ASSUME KeysUnwritten' = inQueue'
      PROVE  BytesCounted'
  BY <1>2, <1>3, <1>4, CountKept DEF KeysLeft
<1>5. CASE inQueue' = <<>>
  <2>1. inWrites' = <<>>
    BY <1>2, <1>5
  <2>2. /\ inWrites' \in Seq(In!Write) /\ Len(inWrites') = 0
        /\ DOMAIN inWrites' = {}
    BY <2>1, NoElements
  <2>3. In!TypeOK'
    BY <1>2, <1>3, <2>2 DEF PipeInv, In!TypeOK
  <2>4. In!OneWriteAtATime' /\ In!NeverStuck' /\ WritesFit'
    BY <1>5, <2>1, <2>2 DEF In!OneWriteAtATime, In!NeverStuck, WritesFit
  <2>5. KeysUnwritten' = inQueue'
    BY <2>1 DEF KeysUnwritten
  <2> QED
    BY <1>4, <2>3, <2>4, <2>5 DEF PipeInv
<1>6. CASE inQueue' # <<>>
  <2>1. inWrites' = In!Started(<<>>, <<Junk>>)
    BY <1>2, <1>6
  <2>2. /\ inWrites' \in Seq(In!Write) /\ Len(inWrites') = 1
        /\ inWrites'[1].buf = <<Junk>> /\ inWrites'[1].result = "busy"
    BY <2>1, KeyStarted, CodeTypes
  <2>3. DOMAIN inWrites' = {1} /\ inWrites' # <<>>
    BY <2>2, OnlyElement
  <2>4. In!TypeOK'
    BY <1>2, <1>3, <2>2 DEF PipeInv, In!TypeOK
  <2>5. In!OneWriteAtATime' /\ In!NeverStuck'
    BY <1>6, <2>2, <2>3 DEF In!OneWriteAtATime, In!NeverStuck
  <2>6. WritesFit'
    <3>1. Len(Head(inQueue')) \in Nat \ {0} /\ Len(<<Junk>>) = 1
      BY <1>3, <1>6, HeadTailProperties, CodeTypes
    <3>2. Len(<<Junk>>) <= Len(Head(inQueue'))
      BY <3>1
    <3> QED
      BY <2>2, <2>3, <3>2 DEF WritesFit
  <2>7. KeysUnwritten' = inQueue'
    BY <2>2 DEF KeysUnwritten
  <2> QED
    BY <1>4, <2>4, <2>5, <2>6, <2>7 DEF PipeInv
<1> QED
  BY <1>5, <1>6

LEMMA WriteFailsPipe ==
  ASSUME PipeInv, NEW i \in DOMAIN inWrites, In!WriteFails(i)
  PROVE  PipeInv'
<1>1. i = 1 /\ inWrites # <<>>
  BY OnlyKeyWrite
<1>2. /\ inWrites[1].result = "busy"
      /\ inWrites' = In!Ended(i, "failed") /\ unplugged' = TRUE
      /\ UNCHANGED <<keys, inPosted, inQueue, tty, cancelled>>
  BY <1>1 DEF In!WriteFails
<1>3. /\ inWrites' \in Seq(In!Write)
      /\ In!OneWriteAtATime' /\ In!NeverStuck' /\ WritesFit'
      /\ inWrites' # <<>> /\ inWrites'[1].result = "failed"
  BY <1>2, KeyResult
<1>4. In!TypeOK'
  BY <1>2, <1>3 DEF PipeInv, In!TypeOK
<1>5. KeysLeft' = KeysLeft
  BY <1>2, <1>3 DEF KeysLeft, KeysUnwritten
<1> QED
  BY <1>2, <1>3, <1>4, <1>5, CountKept DEF PipeInv

LEMMA OnWriteFailsPipe ==
  ASSUME PipeInv, NEW i \in DOMAIN inWrites, In!OnWriteFails(i)
  PROVE  PipeInv'
<1>1. i = 1 /\ inWrites # <<>> /\ In!RemoveAt(inWrites, i) = <<>>
  BY OnlyKeyWrite
<1>2. /\ inWrites[1].result = "failed" /\ inWrites' = <<>>
      /\ UNCHANGED <<keys, inPosted, inQueue, tty, unplugged, cancelled>>
  BY <1>1 DEF In!OnWriteFails
<1>3. /\ inWrites' \in Seq(In!Write) /\ Len(inWrites') = 0
      /\ DOMAIN inWrites' = {}
  BY <1>2, NoElements
<1>4. unplugged \/ cancelled
  BY <1>1, <1>2 DEF PipeInv, WritesFit
<1>5. In!TypeOK'
  BY <1>2, <1>3 DEF PipeInv, In!TypeOK
<1>6. In!OneWriteAtATime' /\ In!NeverStuck' /\ WritesFit'
  BY <1>2, <1>3, <1>4 DEF In!OneWriteAtATime, In!NeverStuck, WritesFit
<1>7. KeysLeft' = KeysLeft
  BY <1>2 DEF KeysLeft, KeysUnwritten
<1> QED
  BY <1>2, <1>5, <1>6, <1>7, CountKept DEF PipeInv

LEMMA UnplugPipe ==
  ASSUME PipeInv, In!Unplug
  PROVE  PipeInv'
<1>1. /\ unplugged' = TRUE
      /\ UNCHANGED <<keys, inPosted, inQueue, inWrites, tty, cancelled>>
  BY DEF In!Unplug
<1>2. KeysLeft' = KeysLeft
  BY <1>1 DEF KeysLeft, KeysUnwritten
<1>3. In!TypeOK' /\ In!OneWriteAtATime'
  BY <1>1 DEF PipeInv, In!TypeOK, In!OneWriteAtATime
<1>4. In!NeverStuck' /\ WritesFit'
  BY <1>1 DEF PipeInv, In!NeverStuck, WritesFit
<1> QED
  BY <1>1, <1>2, <1>3, <1>4, CountKept DEF PipeInv

\* The write that is given up has not been taken, so its code is still left.
LEMMA CancelPipe ==
  ASSUME PipeInv, In!Cancel
  PROVE  PipeInv'
<1> DEFINE Given(w) ==
      IF w.result = "busy" THEN [w EXCEPT !.result = "failed"] ELSE w
<1>1. /\ inWrites' = [i \in DOMAIN inWrites |-> Given(inWrites[i])]
      /\ cancelled' = TRUE
      /\ UNCHANGED <<keys, inPosted, inQueue, tty, unplugged>>
  BY DEF In!Cancel
<1>2. inWrites \in Seq(In!Write) /\ Len(inWrites) <= 1
  BY DEF PipeInv, In!TypeOK, In!OneWriteAtATime
<1>3. CASE inWrites = <<>>
  <2>1. inWrites' = <<>>
    BY <1>1, <1>3
  <2>2. In!TypeOK' /\ In!OneWriteAtATime'
    BY <1>1, <1>3, <2>1 DEF PipeInv, In!TypeOK, In!OneWriteAtATime
  <2>3. In!NeverStuck' /\ WritesFit'
    BY <1>1, <1>3, <2>1 DEF PipeInv, In!NeverStuck, WritesFit
  <2>4. KeysLeft' = KeysLeft
    BY <1>1, <1>3, <2>1 DEF KeysLeft, KeysUnwritten
  <2> QED
    BY <1>1, <2>2, <2>3, <2>4, CountKept DEF PipeInv
<1>4. CASE inWrites # <<>>
  <2>1. Len(inWrites) = 1 /\ DOMAIN inWrites = {1}
    BY <1>2, <1>4, OneElement
  <2>2. /\ inWrites[1] \in In!Write /\ inQueue # <<>>
        /\ Len(inWrites[1].buf) <= Len(Head(inQueue))
    BY <2>1, OnlyKeyWrite DEF PipeInv, WritesFit
  <2> DEFINE w == Given(inWrites[1])
  <2>3. /\ w \in In!Write /\ w.buf = inWrites[1].buf
        /\ w.result = "ok" <=> inWrites[1].result = "ok"
    BY <2>2 DEF In!Write
  <2>4. DOMAIN inWrites' = {1} /\ inWrites'[1] = w
    BY <1>1, <2>1
  <2>5. inWrites' = [inWrites EXCEPT ![1] = w]
    BY <1>1, <2>1
  <2> HIDE DEF w, Given
  <2>6. inWrites' \in Seq(In!Write) /\ Len(inWrites') = 1
    <3>1. /\ [inWrites EXCEPT ![1] = w] \in Seq(In!Write)
          /\ Len([inWrites EXCEPT ![1] = w]) = 1
      BY <1>2, <2>1, <2>3, Replaced
    <3> QED
      BY <2>5, <3>1
  <2>7. inWrites' # <<>>
    BY <2>6, OnlyElement
  <2>8. In!TypeOK'
    BY <1>1, <2>6 DEF PipeInv, In!TypeOK
  <2>9. In!OneWriteAtATime' /\ In!NeverStuck'
    <3>1. inQueue' # <<>>
      BY <1>1, <2>2
    <3>2. Len(inWrites') <= 1
      BY ONLY <2>6
    <3> QED
      BY <2>7, <3>1, <3>2 DEF In!OneWriteAtATime, In!NeverStuck
  <2>10. WritesFit'
    BY <1>1, <2>2, <2>3, <2>4 DEF WritesFit
  <2>11. KeysLeft' = KeysLeft
    BY <1>1, <1>4, <2>3, <2>4, <2>7 DEF KeysLeft, KeysUnwritten
  <2> QED
    BY <1>1, <2>8, <2>9, <2>10, <2>11, CountKept DEF PipeInv
<1> QED
  BY <1>3, <1>4

LEMMA PortPipe ==
  ASSUME PipeInv, Port
  PROVE  PipeInv'
<1>1. CASE In!OnSend
  BY <1>1, OnSendPipe
<1>2. CASE In!Unplug
  BY <1>2, UnplugPipe
<1>3. ASSUME NEW i \in DOMAIN inWrites,
             \/ \E n \in DOMAIN inWrites[i].buf : In!Written(i, n)
             \/ In!OnWrite(i) \/ In!WriteFails(i) \/ In!OnWriteFails(i)
      PROVE  PipeInv'
  BY <1>3, WrittenPipe, OnWritePipe, WriteFailsPipe, OnWriteFailsPipe
<1> QED
  BY <1>1, <1>2, <1>3 DEF Port

LEMMA PipeSame ==
  ASSUME PipeInv, UNCHANGED pipe
  PROVE  PipeInv'
<1>1. UNCHANGED <<keys, inPosted, inQueue, inWrites, tty, unplugged, cancelled>>
  BY DEF pipe
<1>2. KeysLeft' = KeysLeft
  BY <1>1 DEF KeysLeft, KeysUnwritten
<1>3. In!TypeOK' /\ In!OneWriteAtATime' /\ In!NeverStuck' /\ WritesFit'
  BY <1>1 DEF PipeInv, In!TypeOK, In!OneWriteAtATime, In!NeverStuck, WritesFit
<1> QED
  BY <1>1, <1>2, <1>3, CountKept DEF PipeInv

LEMMA PipeInit == ASSUME BridgeInit PROVE PipeInv
<1>1. /\ inPosted = <<>> /\ inQueue = <<>> /\ inWrites = <<>>
      /\ keys = <<>> /\ tty = <<>> /\ unplugged = FALSE /\ cancelled = FALSE
  BY DEF BridgeInit, In!Init
<1>2. /\ <<>> \in Seq(Codes) /\ <<>> \in Seq(In!Write) /\ <<>> \in Seq(In!Bytes)
      /\ Len(<<>>) = 0 /\ DOMAIN <<>> = {}
  BY NoElements
<1>3. In!TypeOK
  BY <1>1, <1>2 DEF In!TypeOK
<1>4. In!OneWriteAtATime /\ In!NeverStuck /\ WritesFit
  BY <1>1, <1>2 DEF In!OneWriteAtATime, In!NeverStuck, WritesFit
<1>5. KeysLeft = <<>>
  BY <1>1, ConcatEmptySeq, EmptySeq DEF KeysLeft, KeysUnwritten
<1>6. BytesCounted
  <2>1. FlattenSeq(<<>>) = <<>>
    BY <1>2, CodesLength
  <2> QED
    BY <1>1, <1>2, <1>5, <2>1 DEF BytesCounted
<1> QED
  BY <1>3, <1>4, <1>6 DEF PipeInv

LEMMA PipeStep == PipeInv /\ [BridgeNext]_all => PipeInv'
<1> SUFFICES ASSUME PipeInv, [BridgeNext]_all
             PROVE  PipeInv'
  OBVIOUS
<1>1. CASE \/ Console \/ Chunk \/ ReadFails \/ OnRead \/ OnReadFails \/ Stream
           \/ UNCHANGED all
  <2>1. UNCHANGED pipe
    BY <1>1 DEF Console, Chunk, ReadFails, OnRead, OnReadFails, Stream, port, all
  <2> QED
    BY <2>1, PipeSame
<1>2. CASE Enter
  <2>1. inPosted = <<>> /\ inWrites = <<>>
    BY <1>2 DEF Enter, Alive
  <2> QED
    BY <1>2, <2>1, PipeOpened DEF Enter
<1>3. CASE Exit
  BY <1>3, CancelPipe DEF Exit
<1>4. CASE \E c \in Codes : Key(c)
  BY <1>4, TypePipe DEF Key
<1>5. CASE Port
  BY <1>5, PortPipe
<1> QED
  BY <1>1, <1>2, <1>3, <1>4, <1>5 DEF BridgeNext

LEMMA PipeInvariance == BridgeSpec => []PipeInv
<1>1. BridgeInit => PipeInv
  BY PipeInit
<1> QED
  BY <1>1, PipeStep, PTL DEF BridgeSpec

\* on_send and on_write of the serial_state never have two writes to the port
\* under way, nor one for a code that is no longer queued.
THEOREM OneKeyWritten == BridgeSpec => []OneKeyAtATime
<1>1. PipeInv => OneKeyAtATime
  BY DEF PipeInv, OneKeyAtATime
<1> QED
  BY <1>1, PipeInvariance, PTL

\* The queue of the port is being written, unless the port has failed or was
\* cancelled.
THEOREM KeysMoveOn == BridgeSpec => []KeysNeverStuck
<1>1. PipeInv => KeysNeverStuck
  BY DEF PipeInv, KeysNeverStuck
<1> QED
  BY <1>1, PipeInvariance, PTL

\* Once all is written, the device has received at least one byte for every
\* code typed and at most their bytes, although on_write gives async_write_some
\* the wrong buffer and never looks at how much was written.
THEOREM CodesAreWritten == BridgeSpec => []OneWritePerCode
<1>1. PipeInv => OneWritePerCode
  <2> SUFFICES ASSUME PipeInv, In!Idle
               PROVE  Len(keys) <= Len(tty) /\ Len(tty) <= Len(In!FlattenSeq(keys))
    BY DEF OneWritePerCode, In!OneWritePerCode, In!Typed
  <2>1. KeysLeft = <<>>
    BY ConcatEmptySeq, EmptySeq DEF In!Idle, KeysLeft, KeysUnwritten
  <2>2. <<>> \in Seq(Codes) /\ Len(<<>>) = 0
    BY NoElements
  <2>3. FlattenSeq(<<>>) = <<>>
    BY <2>2, CodesLength
  <2>4. /\ Len(keys) <= Len(tty) + Len(KeysLeft)
        /\ Len(tty) + Len(FlattenSeq(KeysLeft)) <= Len(FlattenSeq(keys))
    BY DEF PipeInv, BytesCounted
  <2>5. Len(tty) \in Nat
    BY LenProperties DEF PipeInv, In!TypeOK
  <2>6. In!FlattenSeq(keys) = FlattenSeq(keys)
    BY SameOperators
  <2> QED
    BY <2>1, <2>2, <2>3, <2>4, <2>5, <2>6
<1> QED
  BY <1>1, PipeInvariance, PTL

-----------------------------------------------------------------------------
(* From the device to the terminal.                                         *)

\* What was read is not yet posted only between the read and on_read.
UnderWay == IF read = "ready" THEN <<buffer>> ELSE <<>>

\* what each message up to the n-th shows, when src are their sources
Show(src, n) == [m \in 1..n |-> IF src[m] = 0 THEN <<>> ELSE <<src[m]>>]

\* every message on its way was sent, and so has a source
Known ==
  /\ source \in Seq(0..MaxSends) /\ Len(source) = sent
  /\ queue \in Seq(1..sent) /\ posted \in Seq(1..sent) /\ wire \in Seq(1..sent)

ChunkRead == buffer \in 0..MaxSends /\ (read = "ready" => buffer # 0)

LinkInv == Inv /\ Known /\ ChunkRead

LEMMA ShowType ==
  ASSUME NEW n \in Nat, NEW src \in Seq(0..MaxSends), n <= Len(src)
  PROVE  Show(src, n) \in [1..n -> Seq(Chunks)]
<1>1. Len(src) \in Nat
  BY LenProperties
<1>2. ASSUME NEW m \in 1..n
      PROVE  (IF src[m] = 0 THEN <<>> ELSE <<src[m]>>) \in Seq(Chunks)
  <2>1. src[m] \in 0..MaxSends
    <3>1. m \in 1..Len(src)
      BY <1>1
    <3> QED
      BY <3>1, ElementOfSeq
  <2>2. CASE src[m] = 0
    BY <2>2, EmptySeq
  <2>3. CASE src[m] # 0
    <3>1. src[m] \in Chunks
      BY <2>1, <2>3 DEF Chunks
    <3> QED
      BY <2>3, <3>1
  <2> QED
    BY <2>2, <2>3
<1> QED
  BY <1>2 DEF Show

\* ChunksIn, of this state or the next
LEMMA ChunksAreShown ==
  ASSUME NEW src, NEW n \in Nat, NEW q \in Seq(1..n)
  PROVE  FlattenSeq([i \in DOMAIN q |-> IF src[q[i]] = 0 THEN <<>> ELSE <<src[q[i]]>>])
           = FlatMap(Show(src, n), q)
<1>1. \A i \in DOMAIN q : q[i] \in 1..n
  BY ElementOfSeq, LenProperties
<1>2. \A m \in 1..n : Show(src, n)[m] = IF src[m] = 0 THEN <<>> ELSE <<src[m]>>
  BY DEF Show
<1>3. [i \in DOMAIN q |-> IF src[q[i]] = 0 THEN <<>> ELSE <<src[q[i]]>>]
        = [i \in DOMAIN q |-> Show(src, n)[q[i]]]
  BY <1>1, <1>2
<1> QED
  BY <1>3 DEF FlatMap, Mapped

\* A message that is sent is behind the others, which show what they showed.
LEMMA ShowMore ==
  ASSUME NEW n \in Nat, NEW src \in Seq(0..MaxSends), n = Len(src),
         NEW c \in 0..MaxSends, NEW q \in Seq(1..n)
  PROVE  /\ FlatMap(Show(Append(src, c), n + 1), q) = FlatMap(Show(src, n), q)
         /\ FlatMap(Show(Append(src, c), n + 1), Append(q, n + 1))
              = FlatMap(Show(src, n), q) \o (IF c = 0 THEN <<>> ELSE <<c>>)
<1> DEFINE a == Append(src, c)
           G == Show(a, n + 1)
<1>1. /\ a \in Seq(0..MaxSends) /\ Len(a) = n + 1
      /\ \A i \in 1..n : a[i] = src[i]
      /\ a[n + 1] = c
  BY AppendProperties
<1> HIDE DEF a
<1>2. G \in [1..(n + 1) -> Seq(Chunks)]
  <2>1. n + 1 \in Nat /\ n + 1 <= Len(a)
    BY <1>1
  <2> QED
    BY <1>1, <2>1, ShowType
<1>3. /\ \A m \in 1..n : G[m] = Show(src, n)[m]
      /\ G[n + 1] = IF c = 0 THEN <<>> ELSE <<c>>
  BY <1>1 DEF Show
<1> HIDE DEF G
<1>4. q \in Seq(1..(n + 1)) /\ n + 1 \in 1..(n + 1)
  BY SeqMonotonic
<1>5. FlatMap(G, q) = FlatMap(Show(src, n), q)
  <2> DEFINE D == 1..n
             F == Show(src, n)
  <2>1. q \in Seq(D) /\ \A d \in D : G[d] = F[d]
    BY <1>3
  <2> HIDE DEF D, F
  <2>2. FlatMap(G, q) = FlatMap(F, q)
    BY <2>1, FlatMapAgree
  <2> QED
    BY <2>2 DEF F
<1>6. FlatMap(G, Append(q, n + 1)) = FlatMap(G, q) \o G[n + 1]
  <2> DEFINE D == 1..(n + 1)
             e == n + 1
  <2>1. G \in [D -> Seq(Chunks)] /\ q \in Seq(D) /\ e \in D
    BY <1>2, <1>4
  <2> HIDE DEF D, e
  <2>2. FlatMap(G, Append(q, e)) = FlatMap(G, q) \o G[e]
    BY <2>1, FlatMapAppend
  <2> QED
    BY <2>2 DEF e
<1> QED
  BY <1>3, <1>5, <1>6 DEF G, a

LEMMA OutputKnown ==
  ASSUME LinkInv, NEW c \in 0..MaxSends, Output(c)
  PROVE  Known'
<1>1. /\ sent \in Nat /\ sent' = sent + 1
      /\ posted' = Append(posted, sent + 1) /\ UNCHANGED <<queue, wire>>
      /\ source' = Append(source, c)
  BY DEF LinkInv, Inv, TypeOK, Output, Send
<1>2. /\ source \in Seq(0..MaxSends) /\ Len(source) = sent
      /\ queue \in Seq(1..sent) /\ posted \in Seq(1..sent) /\ wire \in Seq(1..sent)
  BY DEF LinkInv, Known
<1>3. 1..sent \subseteq 1..(sent + 1) /\ sent + 1 \in 1..(sent + 1)
  BY <1>1
<1>4. /\ queue \in Seq(1..(sent + 1)) /\ posted \in Seq(1..(sent + 1))
      /\ wire \in Seq(1..(sent + 1))
  BY <1>2, <1>3, SeqMonotonic
<1>5. posted' \in Seq(1..(sent + 1))
  BY <1>1, <1>3, <1>4, AppendProperties
<1>6. source' \in Seq(0..MaxSends) /\ Len(source') = sent + 1
  BY <1>1, <1>2, AppendProperties
<1> QED
  BY <1>1, <1>4, <1>5, <1>6 DEF Known

LEMMA StreamKnown ==
  ASSUME LinkInv, Stream
  PROVE  Known'
<1>1. /\ source \in Seq(0..MaxSends) /\ Len(source) = sent
      /\ queue \in Seq(1..sent) /\ posted \in Seq(1..sent) /\ wire \in Seq(1..sent)
      /\ source' = source
  BY DEF LinkInv, Known, Stream
<1>2. CASE OnSend
  <2>1. Head(posted) \in 1..sent /\ Tail(posted) \in Seq(1..sent)
    BY <1>1, <1>2, HeadTailProperties DEF OnSend
  <2>2. Append(queue, Head(posted)) \in Seq(1..sent)
    BY <1>1, <2>1, AppendProperties
  <2> QED
    BY <1>1, <1>2, <2>1, <2>2 DEF OnSend, Known
<1>3. CASE Break
  BY <1>1, <1>3 DEF Break, Known
<1>4. ASSUME NEW i \in DOMAIN writes, Written(i)
      PROVE  Known'
  <2>1. i = 1 /\ queue # <<>> /\ writes[1].msg = Head(queue)
    BY OnlyWrite DEF LinkInv
  <2>2. Head(queue) \in 1..sent
    BY <1>1, <2>1, HeadTailProperties
  <2>3. wire' \in Seq(1..sent)
    BY <1>1, <1>4, <2>1, <2>2, AppendProperties DEF Written
  <2> QED
    BY <1>1, <1>4, <2>3 DEF Written, Known
<1>5. ASSUME NEW i \in DOMAIN writes, OnWrite(i)
      PROVE  Known'
  <2>1. queue # <<>>
    BY OnlyWrite DEF LinkInv
  <2>2. Tail(queue) \in Seq(1..sent)
    BY <1>1, <2>1, HeadTailProperties
  <2> QED
    BY <1>1, <1>5, <2>2 DEF OnWrite, Known
<1>6. ASSUME NEW i \in DOMAIN writes, WriteFails(i) \/ OnWriteFails(i)
      PROVE  Known'
  BY <1>1, <1>6 DEF WriteFails, OnWriteFails, Known
<1> QED
  BY <1>2, <1>3, <1>4, <1>5, <1>6 DEF Stream

LEMMA LinkStep == LinkInv /\ [BridgeNext]_all => LinkInv'
<1> SUFFICES ASSUME LinkInv, [BridgeNext]_all
             PROVE  LinkInv'
  OBVIOUS
<1>1. Inv'
  BY BridgeStep, Inductive DEF LinkInv
<1>2. buffer \in 0..MaxSends /\ (read = "ready" => buffer # 0)
  BY DEF LinkInv, ChunkRead
<1>3. 0 \in 0..MaxSends
  BY MaxSendsAssumption
<1>4. CASE Console \/ Enter \/ Exit
  <2>1. Output(0)
    BY <1>4 DEF Console, Enter, Exit
  <2>2. ChunkRead'
    BY <1>2, <1>4 DEF Console, Enter, Exit, port, ChunkRead
  <2> QED
    BY <1>1, <1>3, <2>1, <2>2, OutputKnown DEF LinkInv
<1>5. CASE OnRead
  <2>1. Output(buffer) /\ ChunkRead'
    BY <1>2, <1>5 DEF OnRead, ChunkRead
  <2> QED
    BY <1>1, <1>2, <2>1, OutputKnown DEF LinkInv
<1>6. CASE Chunk
  <2>1. ChunkRead'
    BY <1>2, <1>6, MaxSendsAssumption DEF Chunk, ChunkRead
  <2>2. Known'
    BY <1>6 DEF Chunk, vars, LinkInv, Known
  <2> QED
    BY <1>1, <2>1, <2>2 DEF LinkInv
<1>7. CASE ReadFails \/ OnReadFails \/ Port \/ \E c \in Codes : Key(c)
  <2>1. UNCHANGED <<vars, source>> /\ ChunkRead'
    BY <1>2, <1>7 DEF ReadFails, OnReadFails, Port, Key, ChunkRead
  <2>2. Known'
    BY <2>1 DEF vars, LinkInv, Known
  <2> QED
    BY <1>1, <2>1, <2>2 DEF LinkInv
<1>8. CASE Stream
  <2>1. ChunkRead'
    BY <1>2, <1>8 DEF Stream, port, ChunkRead
  <2> QED
    BY <1>1, <1>8, <2>1, StreamKnown DEF LinkInv
<1>9. CASE UNCHANGED all
  <2>1. Known' /\ ChunkRead'
    BY <1>9 DEF all, vars, port, LinkInv, Known, ChunkRead
  <2> QED
    BY <1>1, <2>1 DEF LinkInv
<1> QED
  BY <1>4, <1>5, <1>6, <1>7, <1>8, <1>9 DEF BridgeNext

LEMMA LinkInit == ASSUME BridgeInit PROVE LinkInv
<1>1. Inv
  BY InitInv DEF BridgeInit
<1>2. Known
  BY NoElements DEF BridgeInit, Init, Known
<1>3. ChunkRead
  BY MaxSendsAssumption DEF BridgeInit, ChunkRead
<1> QED
  BY <1>1, <1>2, <1>3 DEF LinkInv

\* the messages that have not arrived
Rest == Unwritten \o posted

LinkShown ==
  /\ Rest \in Seq(1..sent) /\ wire \in Seq(1..sent)
  /\ Show(source, sent) \in [1..sent -> Seq(Chunks)]
  /\ ChunksIn(Rest) = FlatMap(Show(source, sent), Rest)
  /\ ChunksIn(wire) = FlatMap(Show(source, sent), wire)
  /\ ChunksIn(Rest) \in Seq(Chunks) /\ ChunksIn(wire) \in Seq(Chunks)

LEMMA LinkView == LinkInv => LinkShown
<1> SUFFICES ASSUME LinkInv PROVE LinkShown
  OBVIOUS
<1>1. /\ source \in Seq(0..MaxSends) /\ Len(source) = sent
      /\ queue \in Seq(1..sent) /\ posted \in Seq(1..sent) /\ wire \in Seq(1..sent)
  BY DEF LinkInv, Known
<1>2. sent \in Nat
  BY DEF LinkInv, Inv, TypeOK
<1>3. Unwritten \in Seq(1..sent)
  <2>1. writes # <<>> => queue # <<>>
    BY UnwrittenType DEF LinkInv
  <2>2. queue # <<>> => Tail(queue) \in Seq(1..sent)
    BY <1>1, HeadTailProperties
  <2> QED
    BY <1>1, <2>1, <2>2 DEF Unwritten
<1>4. Rest \in Seq(1..sent)
  BY <1>1, <1>3, ConcatProperties DEF Rest
<1>5. Show(source, sent) \in [1..sent -> Seq(Chunks)]
  BY <1>1, <1>2, ShowType
<1>6. \A q \in Seq(1..sent) : ChunksIn(q) = FlatMap(Show(source, sent), q)
  BY <1>2, ChunksAreShown DEF ChunksIn, ChunkOf
<1>7. \A q \in Seq(1..sent) : FlatMap(Show(source, sent), q) \in Seq(Chunks)
  BY <1>5, FlatMapType
<1> QED
  BY <1>1, <1>4, <1>5, <1>6, <1>7 DEF LinkShown

LEMMA LinkViewNext == LinkInv' => LinkShown'
  BY LinkView, PTL

\* What is sent adds what it was made of behind the rest.
LEMMA UnderWayType ==
  ASSUME LinkInv
  PROVE  UnderWay \in Seq(Chunks)
<1>1. read = "ready" => buffer \in Chunks
  BY DEF LinkInv, ChunkRead, Chunks
<1> QED
  BY <1>1, EmptySeq DEF UnderWay

LEMMA OutputLink ==
  ASSUME LinkInv, LinkInv', NEW c \in 0..MaxSends, Output(c)
  PROVE  /\ ChunksIn(Rest)' = ChunksIn(Rest) \o (IF c = 0 THEN <<>> ELSE <<c>>)
         /\ ChunksIn(wire)' = ChunksIn(wire)
         /\ UNCHANGED broken
<1>1. /\ Rest' = Append(Rest, sent + 1) /\ wire' = wire /\ broken' = broken
      /\ source' = Append(source, c) /\ sent' = sent + 1
  <2>1. Terminal!Send(sent + 1)
    BY SendArrives DEF Output, LinkInv
  <2> QED
    BY <2>1 DEF Terminal!Send, Rest, Output, Send
<1>2. /\ source \in Seq(0..MaxSends) /\ Len(source) = sent /\ sent \in Nat
  BY DEF LinkInv, Known, Inv, TypeOK
<1>3. /\ Rest \in Seq(1..sent) /\ wire \in Seq(1..sent)
      /\ ChunksIn(Rest) = FlatMap(Show(source, sent), Rest)
      /\ ChunksIn(wire) = FlatMap(Show(source, sent), wire)
  BY LinkView DEF LinkShown
<1>4. /\ ChunksIn(Rest)' = FlatMap(Show(source', sent'), Rest')
      /\ ChunksIn(wire)' = FlatMap(Show(source', sent'), wire')
  BY LinkViewNext DEF LinkShown
<1>5. FlatMap(Show(Append(source, c), sent + 1), wire) = FlatMap(Show(source, sent), wire)
  BY <1>2, <1>3, ShowMore
<1>6. FlatMap(Show(Append(source, c), sent + 1), Append(Rest, sent + 1))
        = FlatMap(Show(source, sent), Rest) \o (IF c = 0 THEN <<>> ELSE <<c>>)
  BY <1>2, <1>3, ShowMore
<1> QED
  BY <1>1, <1>3, <1>4, <1>5, <1>6

\* a message arrives, and a chunk if it is one
LEMMA ArriveLink ==
  ASSUME LinkInv, LinkInv', Terminal!Arrive, UNCHANGED <<sent, source, UnderWay>>
  PROVE  Link!Next \/ UNCHANGED Link!fifo
<1> DEFINE F == Show(source, sent)
           m == Head(Rest)
<1>1. /\ ~broken /\ broken' = broken /\ Rest # <<>>
      /\ wire' = Append(wire, m) /\ Rest' = Tail(Rest)
  BY DEF Terminal!Arrive, Rest
<1>2. /\ Rest \in Seq(1..sent) /\ wire \in Seq(1..sent)
      /\ F \in [1..sent -> Seq(Chunks)]
      /\ ChunksIn(Rest) = FlatMap(F, Rest) /\ ChunksIn(wire) = FlatMap(F, wire)
  BY LinkView DEF LinkShown
<1>3. ChunksIn(Rest)' = FlatMap(F, Rest') /\ ChunksIn(wire)' = FlatMap(F, wire')
  BY LinkViewNext DEF LinkShown
<1>4. m \in 1..sent /\ Tail(Rest) \in Seq(1..sent)
  BY <1>1, <1>2, HeadTailProperties
<1>5. F[m] = <<>> \/ F[m] = <<source[m]>>
  BY <1>4 DEF Show
<1> HIDE DEF F, m
<1>6. F[m] \in Seq(Chunks)
  BY <1>2, <1>4
<1>7. ChunksIn(Rest) = F[m] \o FlatMap(F, Tail(Rest))
  <2> DEFINE D == 1..sent
  <2>1. F \in [D -> Seq(Chunks)] /\ Rest \in Seq(D) /\ Rest # <<>>
    BY <1>1, <1>2
  <2> HIDE DEF D
  <2>2. FlatMap(F, Rest) = F[Head(Rest)] \o FlatMap(F, Tail(Rest))
    BY <2>1, FlatMapHead
  <2> QED
    BY <1>2, <2>2 DEF m
<1>8. ChunksIn(wire)' = ChunksIn(wire) \o F[m]
  <2> DEFINE D == 1..sent
  <2>1. F \in [D -> Seq(Chunks)] /\ wire \in Seq(D) /\ m \in D
    BY <1>2, <1>4
  <2> HIDE DEF D
  <2>2. FlatMap(F, Append(wire, m)) = FlatMap(F, wire) \o F[m]
    BY <2>1, FlatMapAppend
  <2> QED
    BY <1>1, <1>2, <1>3, <2>2
<1>9. ChunksIn(Rest)' = FlatMap(F, Tail(Rest))
  BY <1>1, <1>3
<1>10. /\ FlatMap(F, Tail(Rest)) \in Seq(Chunks)
       /\ ChunksIn(wire) \in Seq(Chunks)
  BY <1>2, <1>4, LinkView, FlatMapType DEF LinkShown
<1>11. CASE F[m] = <<>>
  <2>1. ChunksIn(Rest)' = ChunksIn(Rest)
    BY <1>7, <1>9, <1>10, <1>11, ConcatEmptySeq
  <2>2. ChunksIn(wire)' = ChunksIn(wire)
    BY <1>8, <1>10, <1>11, ConcatEmptySeq
  <2> QED
    BY <1>1, <2>1, <2>2 DEF Link!fifo, Rest, UnderWay
<1>12. CASE F[m] = <<source[m]>>
  <2> DEFINE c == source[m]
             t == FlatMap(F, Tail(Rest))
             old == ChunksIn(Rest) \o UnderWay
  <2>1. <<c>> \in Seq(Chunks) /\ t \in Seq(Chunks) /\ UnderWay \in Seq(Chunks)
    BY <1>6, <1>10, <1>12, UnderWayType
  <2>2. old = <<c>> \o (t \o UnderWay)
    BY <1>7, <1>12, <2>1, ThreeParts
  <2>3. ChunksIn(Rest)' \o UnderWay' = t \o UnderWay
    BY <1>9
  <2>4. ChunksIn(wire)' = Append(ChunksIn(wire), c)
    BY <1>8, <1>10, <1>12, <2>1, AppendOne
  <2> HIDE DEF c, t, old
  <2>5. old # <<>> /\ Head(old) = c /\ Tail(old) = t \o UnderWay
    BY <2>1, <2>2, ConsHead, ConcatProperties
  <2>6. Link!Arrive
    BY <1>1, <2>3, <2>4, <2>5 DEF Link!Arrive, old, Rest, UnderWay
  <2> QED
    BY <2>6 DEF Link!Next
<1> QED
  BY <1>5, <1>11, <1>12

LEMMA SameLink ==
  ASSUME UNCHANGED <<source, UnderWay, Rest, wire, broken>>
  PROVE  UNCHANGED Link!fifo
  BY DEF Link!fifo, ChunksIn, ChunkOf, UnderWay, Rest

LEMMA CutLink ==
  ASSUME UNCHANGED <<source, UnderWay, Rest, wire>>, broken' = TRUE
  PROVE  Link!Next
<1>1. Link!Cut
  BY DEF Link!Cut, ChunksIn, ChunkOf, UnderWay, Rest
<1> QED
  BY <1>1 DEF Link!Next

LEMMA StreamLink ==
  ASSUME LinkInv, LinkInv', Stream
  PROVE  Link!Next \/ UNCHANGED Link!fifo
<1>1. UNCHANGED <<source, UnderWay>> /\ Inv
  BY DEF Stream, port, UnderWay, LinkInv
<1>2. CASE OnSend
  <2>1. UNCHANGED <<Unwritten \o posted, wire, broken>>
    BY <1>1, <1>2, OnSendStutters DEF Terminal!fifo
  <2> QED
    BY <1>1, <2>1, SameLink DEF Rest
<1>3. CASE Break
  <2>1. UNCHANGED <<Unwritten \o posted, wire>> /\ broken' = TRUE
    BY <1>3 DEF Break, Unwritten
  <2> QED
    BY <1>1, <2>1, CutLink DEF Rest
<1>4. ASSUME NEW i \in DOMAIN writes, Written(i)
      PROVE  Link!Next \/ UNCHANGED Link!fifo
  <2>1. Terminal!Arrive
    BY <1>1, <1>4, WrittenArrives
  <2>2. sent' = sent
    BY <1>4 DEF Written
  <2> QED
    BY <1>1, <2>1, <2>2, ArriveLink
<1>5. ASSUME NEW i \in DOMAIN writes, OnWrite(i)
      PROVE  Link!Next \/ UNCHANGED Link!fifo
  <2>1. UNCHANGED <<Unwritten \o posted, wire, broken>>
    BY <1>1, <1>5, OnWriteStutters DEF Terminal!fifo
  <2> QED
    BY <1>1, <2>1, SameLink DEF Rest
<1>6. ASSUME NEW i \in DOMAIN writes, WriteFails(i)
      PROVE  Link!Next \/ UNCHANGED Link!fifo
  <2>1. UNCHANGED <<Unwritten \o posted, wire>> /\ broken' = TRUE
    BY <1>1, <1>6, WriteFailsCuts DEF Terminal!Cut
  <2> QED
    BY <1>1, <2>1, CutLink DEF Rest
<1>7. ASSUME NEW i \in DOMAIN writes, OnWriteFails(i)
      PROVE  Link!Next \/ UNCHANGED Link!fifo
  <2>1. UNCHANGED <<Unwritten \o posted, wire, broken>>
    BY <1>1, <1>7, OnWriteFailsStutters DEF Terminal!fifo
  <2> QED
    BY <1>1, <2>1, SameLink DEF Rest
<1> QED
  BY <1>2, <1>3, <1>4, <1>5, <1>6, <1>7 DEF Stream

\* a read is performed
LEMMA ChunkLink ==
  ASSUME LinkInv, Chunk
  PROVE  Link!Next
<1>1. /\ UNCHANGED <<vars, source>> /\ UnderWay = <<>> /\ UnderWay' = <<buffer + 1>>
  BY DEF Chunk, UnderWay
<1>2. buffer + 1 \in Chunks
  BY MaxSendsAssumption DEF Chunk, LinkInv, ChunkRead, Chunks
<1>3. UNCHANGED <<ChunksIn(Rest), ChunksIn(wire), broken>>
  BY <1>1 DEF vars, Rest, Unwritten, ChunksIn, ChunkOf
<1>4. ChunksIn(Rest) \in Seq(Chunks)
  BY LinkView DEF LinkShown
<1>5. ChunksIn(Rest) \o <<>> = ChunksIn(Rest)
  BY <1>4, ConcatEmptySeq
<1>6. ChunksIn(Rest) \o <<buffer + 1>> = Append(ChunksIn(Rest), buffer + 1)
  BY <1>2, <1>4, AppendIsConcat
<1>7. Link!Send(buffer + 1)
  BY <1>1, <1>3, <1>5, <1>6 DEF Link!Send, Rest, UnderWay
<1> QED
  BY <1>2, <1>7 DEF Link!Next

\* on_read moves the chunk from m_buffer to the queue; the rest sends no chunk
LEMMA SendLink ==
  ASSUME LinkInv, LinkInv', Console \/ Enter \/ Exit \/ OnRead
  PROVE  UNCHANGED Link!fifo
<1>1. ChunksIn(Rest) \in Seq(Chunks) /\ UnderWay \in Seq(Chunks)
  BY LinkView, UnderWayType DEF LinkShown
<1>2. CASE Console \/ Enter \/ Exit
  <2>1. Output(0) /\ 0 \in 0..MaxSends
    BY <1>2, MaxSendsAssumption DEF Console, Enter, Exit
  <2>2. UNCHANGED UnderWay
    BY <1>2 DEF Console, Enter, Exit, port, Alive, UnderWay
  <2>3. /\ ChunksIn(Rest)' = ChunksIn(Rest) \o <<>>
        /\ UNCHANGED <<ChunksIn(wire), broken>>
    BY <2>1, OutputLink
  <2>4. ChunksIn(Rest)' = ChunksIn(Rest)
    BY <1>1, <2>3, ConcatEmptySeq
  <2> QED
    BY <2>2, <2>3, <2>4 DEF Link!fifo, Rest, UnderWay
<1>3. CASE OnRead
  <2>1. /\ Output(buffer) /\ buffer \in 0..MaxSends /\ buffer # 0
        /\ UnderWay = <<buffer>> /\ UnderWay' = <<>>
    BY <1>3 DEF OnRead, LinkInv, ChunkRead, UnderWay
  <2>2. /\ ChunksIn(Rest)' = ChunksIn(Rest) \o <<buffer>>
        /\ UNCHANGED <<ChunksIn(wire), broken>>
    BY <2>1, OutputLink
  <2>3. (ChunksIn(Rest) \o UnderWay) \o <<>> = ChunksIn(Rest) \o UnderWay
    BY <1>1, ConcatProperties, ConcatEmptySeq
  <2>4. ChunksIn(Rest)' \o UnderWay' = ChunksIn(Rest) \o UnderWay
    BY <2>1, <2>2, <2>3
  <2> QED
    BY <2>2, <2>4 DEF Link!fifo, Rest, UnderWay
<1> QED
  BY <1>2, <1>3

LEMMA BridgeImplements ==
  LinkInv /\ LinkInv' /\ [BridgeNext]_all => [Link!Next]_(Link!fifo)
<1> SUFFICES ASSUME LinkInv, LinkInv', [BridgeNext]_all
             PROVE  Link!Next \/ UNCHANGED Link!fifo
  OBVIOUS
<1>1. CASE Console \/ Enter \/ Exit \/ OnRead
  BY <1>1, SendLink
<1>2. CASE Chunk
  BY <1>2, ChunkLink
<1>3. CASE Stream
  BY <1>3, StreamLink
<1>4. CASE \/ ReadFails \/ OnReadFails \/ Port \/ (\E c \in Codes : Key(c))
           \/ UNCHANGED all
  <2>1. UNCHANGED <<vars, source, UnderWay>>
    BY <1>4 DEF ReadFails, OnReadFails, Port, Key, all, port, UnderWay
  <2>2. UNCHANGED <<Rest, wire, broken>>
    BY <2>1 DEF vars, Rest, Unwritten
  <2> QED
    BY <2>1, <2>2, SameLink
<1> QED
  BY <1>1, <1>2, <1>3, <1>4 DEF BridgeNext

LEMMA LinkInitial == ASSUME BridgeInit PROVE Link!Init
<1>1. Rest = <<>> /\ UnderWay = <<>> /\ wire = <<>> /\ broken = FALSE
  BY ConcatEmptySeq, EmptySeq DEF BridgeInit, Init, Rest, Unwritten, UnderWay
<1>2. ChunksIn(<<>>) = <<>>
  <2>1. [i \in DOMAIN <<>> |-> ChunkOf(<<>>[i])] = <<>>
    OBVIOUS
  <2>2. FlattenSeq(<<>>) = <<>>
    BY EmptySeq, FlattenIs
  <2> QED
    BY <2>1, <2>2 DEF ChunksIn
<1>3. <<>> \o <<>> = <<>>
  BY ConcatEmptySeq, EmptySeq
<1> QED
  BY <1>1, <1>2, <1>3 DEF Link!Init, Rest, UnderWay

\* What the port reads reaches the terminal in the order it was read, once and
\* completely until the stream breaks, through every order of reads, sends,
\* Ctrl-Q and new connections.
THEOREM LinkImplemented == BridgeSpec => ImplementsLink
<1>1. BridgeInit => LinkInv /\ Link!Init
  BY LinkInit, LinkInitial
<1> QED
  BY <1>1, LinkStep, BridgeImplements, PTL
  DEF BridgeSpec, ImplementsLink, Link!Spec

-----------------------------------------------------------------------------
(* PortOptions: speeds.                                                    *)

LEMMA SlowSpeeds == \A i \in 1..15 : Slow[i] \in Nat
BY DEF Slow

LEMMA FastSpeeds == \A i \in 1..15 : Fast[i] \in Nat
BY DEF Fast

LEMMA SpeedTypes ==
  /\ \A c \in SpeedCodes : Speed[c] \in Nat
  /\ \A c : ToUint(c) \in Nat
BY SlowSpeeds, FastSpeeds DEF SpeedCodes, Speed, ToUint

\* A speed outside the range that the enum gets wrong is read as it is.
LEMMA ReadRight ==
  ASSUME NEW c \in SpeedCodes, ~Misread(Speed[c])
  PROVE  ToUint(c) = Speed[c]
<1>1. CASE c \in 0..7 \union 4097..4111
  BY <1>1 DEF ToUint
<1>2. CASE c \in 8..15
  <2>1. Misread(Slow[c])
    BY <1>2 DEF Slow, Misread
  <2>2. Speed[c] = Slow[c]
    BY <1>2 DEF Speed, SpeedCodes
  <2> QED BY <2>1, <2>2
<1> QED BY <1>1, <1>2 DEF SpeedCodes

-----------------------------------------------------------------------------
(* Types.                                                                  *)

LEMMA NameTypes ==
  /\ \A n \in DOMAIN Parity : Parity[n] \in Range(Parity)
  /\ \A n \in DOMAIN StopBits : StopBits[n] \in Range(StopBits)
BY DEF Range

LEMMA ShownTypes ==
  /\ Range(Parity) = {"none", "odd", "even"}
  /\ Range(StopBits) = {"one", "onepointfive", "two"}
<1>1. Range(Parity) = {"none", "odd", "even"}
  BY DEF Range, Parity
<1>2. Range(StopBits) = {"one", "onepointfive", "two"}
  BY DEF Range, StopBits
<1> QED BY <1>1, <1>2

LEMMA ScannedType ==
  ASSUME NEW t \in Termios
  PROVE  Scanned(t) \in Options
BY SpeedTypes, ShownTypes DEF Scanned, Options, Termios

LEMMA CodeOfSpeed ==
  ASSUME NEW v \in Range(Speed)
  PROVE  /\ (CHOOSE c \in SpeedCodes : Speed[c] = v) \in SpeedCodes
         /\ Speed[CHOOSE c \in SpeedCodes : Speed[c] = v] = v
<1>1. DOMAIN Speed = SpeedCodes
  BY DEF Speed
<1>2. \E c \in SpeedCodes : Speed[c] = v
  BY <1>1 DEF Range
<1> QED BY <1>2

LEMMA CreateOpens ==
  ASSUME NEW t \in Termios
  PROVE  Opened(t) \in Termios
<1>1. \A n \in 5..8, b \in BOOLEAN : [t EXCEPT !.csize = n, !.parenb = b] \in Termios
  BY DEF Termios
<1>2. 8 \in 5..8 /\ FALSE \in BOOLEAN
  OBVIOUS
<1> QED BY <1>1, <1>2, Zenon DEF Opened

LEMMA CreateType ==
  ASSUME NEW t \in Termios, NEW o \in Options
  PROVE  Create(t, o) \in Termios
<1>1. Opened(t) \in Termios
  BY CreateOpens
<1>2. ASSUME NEW u \in Termios
      PROVE  /\ WithParity(u, o) \in Termios
             /\ WithStopBits(u, o) \in Termios
             /\ WithSize(u, o) \in Termios
  BY DEF WithParity, WithStopBits, WithSize, Termios, Options
<1>3. ASSUME o.baud_rate \in Range(Speed), NEW u \in Termios
      PROVE  WithSpeed(u, o) \in Termios
  BY <1>3, CodeOfSpeed DEF WithSpeed, Termios
<1> QED BY <1>1, <1>2, <1>3 DEF Create

\* a scan that finds devices, once each
LEMMA TableType ==
  ASSUME settings \in [Devices -> Termios], NEW first \in Nat,
         NEW devices \in Scans \union {<<>>}
  PROVE  /\ DOMAIN Table(first, devices) = first .. (first + Len(devices) - 1)
         /\ Len(devices) \in Nat
         /\ \A id \in DOMAIN Table(first, devices) :
              /\ Table(first, devices)[id] \in Entry
              /\ ~Table(first, devices)[id].in_use
         /\ \A i, j \in DOMAIN Table(first, devices) :
              Table(first, devices)[i].device = Table(first, devices)[j].device => i = j
<1>1. /\ devices \in Seq(Devices)
      /\ \A i, j \in DOMAIN devices : devices[i] = devices[j] => i = j
  <2>1. CASE devices \in Scans
    BY <2>1, PortOptionsAssumption
  <2>2. CASE devices = <<>>
    BY <2>2
  <2> QED BY <2>1, <2>2
<1>2. /\ DOMAIN Table(first, devices) = first .. (first + Len(devices) - 1)
      /\ Len(devices) \in Nat
  BY <1>1 DEF Table
<1>3. ASSUME NEW id \in DOMAIN Table(first, devices)
      PROVE  /\ id - first + 1 \in DOMAIN devices
             /\ devices[id - first + 1] \in Devices
             /\ Table(first, devices)[id] =
                  [device |-> devices[id - first + 1],
                   options |-> Scanned(settings[devices[id - first + 1]]), in_use |-> FALSE]
  BY <1>1, <1>2 DEF Table
<1>4. ASSUME NEW id \in DOMAIN Table(first, devices)
      PROVE  Table(first, devices)[id] \in Entry /\ ~Table(first, devices)[id].in_use
  <2>1. Scanned(settings[devices[id - first + 1]]) \in Options
    BY <1>3, ScannedType
  <2>2. \A b \in BOOLEAN :
          [device |-> devices[id - first + 1],
           options |-> Scanned(settings[devices[id - first + 1]]), in_use |-> b] \in Entry
    BY <1>3, <2>1 DEF Entry
  <2>3. Table(first, devices)[id] \in Entry
    BY <1>3, <2>2, Zenon
  <2>4. ~Table(first, devices)[id].in_use
    BY <1>3
  <2> QED BY <2>3, <2>4
<1>5. ASSUME NEW i \in DOMAIN Table(first, devices), NEW j \in DOMAIN Table(first, devices),
             Table(first, devices)[i].device = Table(first, devices)[j].device
      PROVE  i = j
  <2>1. devices[i - first + 1] = devices[j - first + 1]
    BY <1>3, <1>5
  <2>2. i - first + 1 = j - first + 1
    BY <2>1, <1>1, <1>3
  <2>3. i \in Int /\ j \in Int
    BY <1>2
  <2> QED BY <2>2, <2>3
<1> QED BY <1>2, <1>4, <1>5
-----------------------------------------------------------------------------
(* What connect applies is what a scan reads.                              *)

LEMMA CreateFields ==
  ASSUME NEW t \in Termios, NEW o \in Options, Accepts(o)
  PROVE  /\ Create(t, o).ospeed = CHOOSE c \in SpeedCodes : Speed[c] = o.baud_rate
         /\ Create(t, o).csize = o.character_size
         /\ Create(t, o).parenb = (o.parity # "none")
         /\ Create(t, o).parodd = (o.parity = "odd")
         /\ Create(t, o).cstopb = (o.stop_bits = "two")
<1> DEFINE s == WithSpeed(Opened(t), o)
           p == WithParity(s, o)
           b == WithStopBits(p, o)
<1>1. Opened(t) \in Termios
  BY CreateOpens
<1>2. s \in Termios /\ s.ospeed = CHOOSE c \in SpeedCodes : Speed[c] = o.baud_rate
  BY <1>1, CodeOfSpeed DEF Accepts, WithSpeed, Termios
<1>3. /\ p \in Termios
      /\ p.ospeed = s.ospeed
      /\ p.parenb = (o.parity # "none")
      /\ p.parodd = (o.parity = "odd")
  BY <1>2 DEF WithParity, Termios
<1>4. /\ b \in Termios
      /\ b.ospeed = p.ospeed /\ b.parenb = p.parenb /\ b.parodd = p.parodd
      /\ b.cstopb = (o.stop_bits = "two")
  BY <1>3 DEF WithStopBits, Termios
<1>5. Create(t, o) = WithSize(b, o)
  BY DEF Create, Accepts
<1>6. /\ WithSize(b, o).ospeed = b.ospeed
      /\ WithSize(b, o).csize = o.character_size
      /\ WithSize(b, o).parenb = b.parenb
      /\ WithSize(b, o).parodd = b.parodd
      /\ WithSize(b, o).cstopb = b.cstopb
  BY <1>4 DEF WithSize, Termios, Options
<1> HIDE DEF s, p, b
<1> QED BY <1>2, <1>3, <1>4, <1>5, <1>6

LEMMA ReadBack ==
  ASSUME NEW t \in Termios, NEW o \in Options, Accepts(o), ~Misread(o.baud_rate)
  PROVE  Scanned(Create(t, o)) = o
<1> DEFINE r == Create(t, o)
<1>1. ToUint(r.ospeed) = o.baud_rate
  BY CreateFields, CodeOfSpeed, ReadRight DEF Accepts
<1>2. /\ o.parity \in {"none", "odd", "even"}
      /\ o.stop_bits \in {"one", "two"}
  BY ShownTypes DEF Options, Accepts
<1>3. (IF ~r.parenb THEN "none" ELSE IF r.parodd THEN "odd" ELSE "even") = o.parity
  BY <1>2, CreateFields
<1>4. (IF r.cstopb THEN "two" ELSE "one") = o.stop_bits
  BY <1>2, CreateFields
<1>5. r.csize = o.character_size
  BY CreateFields
<1>6. Scanned(r) = [baud_rate |-> o.baud_rate, parity |-> o.parity,
                    stop_bits |-> o.stop_bits, character_size |-> o.character_size]
  BY <1>1, <1>3, <1>4, <1>5 DEF Scanned
<1>7. o = [baud_rate |-> o.baud_rate, parity |-> o.parity,
           stop_bits |-> o.stop_bits, character_size |-> o.character_size]
  BY DEF Options
<1> QED BY <1>6, <1>7

-----------------------------------------------------------------------------
(* The invariant: types, one entry for a device, and what a connect that   *)
(* succeeded left behind.                                                  *)
OneEntry ==
  \A i, j \in DOMAIN ports : ports[i].device = ports[j].device => i = j

Kept ==
  \A d \in Devices :
    applied[d] # Unset =>
      /\ applied[d] \in Options /\ Accepts(applied[d])
      /\ \E t \in Termios : settings[d] = Create(t, applied[d])

OptionsInv == OptionsTypeOK /\ OneEntry /\ Kept

LEMMA OptionsInitInv == OptionsInit => OptionsInv
<1> SUFFICES ASSUME OptionsInit PROVE OptionsInv
  OBVIOUS
<1>1. settings \in [Devices -> Termios]
  BY PortOptionsAssumption DEF OptionsInit
<1>2. PICK devices \in Scans : ports = Table(0, devices) /\ current_id = Len(devices)
  BY DEF OptionsInit
<1>3. /\ DOMAIN ports = 0..(current_id - 1) /\ current_id \in Nat
      /\ \A id \in DOMAIN ports : ports[id] \in Entry
      /\ OneEntry
  <2>1. devices \in Scans \union {<<>>}
    OBVIOUS
  <2>2. 0 \in Nat
    OBVIOUS
  <2>3. /\ DOMAIN ports = 0..(0 + Len(devices) - 1) /\ Len(devices) \in Nat
        /\ \A id \in DOMAIN ports : ports[id] \in Entry
        /\ OneEntry
    BY <1>1, <1>2, <2>1, <2>2, TableType DEF OneEntry
  <2> QED BY <1>2, <2>3
<1>4. /\ applied \in [Devices -> Options \union {Unset}]
      /\ running \in BOOLEAN
      /\ Kept
  BY DEF OptionsInit, Kept
<1> QED BY <1>1, <1>3, <1>4 DEF OptionsInv, OptionsTypeOK

\* The setters: an entry gets other options, and nothing else happens.
LEMMA SetInv ==
  ASSUME OptionsInv, NEW id, NEW options, options \in Options, Set(id, options)
  PROVE  OptionsInv' /\ settings' = settings
<1>1. /\ id \in DOMAIN ports
      /\ ports' = [ports EXCEPT ![id].options = options]
      /\ UNCHANGED <<current_id, settings, applied, running>>
  BY DEF Set
<1>2. \A i \in DOMAIN ports : ports[i] \in Entry
  BY DEF OptionsInv, OptionsTypeOK
<1>3. /\ DOMAIN ports' = DOMAIN ports
      /\ \A i \in DOMAIN ports : ports'[i] \in Entry /\ ports'[i].device = ports[i].device
  BY <1>1, <1>2 DEF Entry
<1>4. OptionsTypeOK'
  BY <1>1, <1>3 DEF OptionsInv, OptionsTypeOK
<1>5. OneEntry'
  BY <1>3 DEF OptionsInv, OneEntry
<1>6. Kept'
  BY <1>1 DEF OptionsInv, Kept
<1> QED BY <1>1, <1>4, <1>5, <1>6 DEF OptionsInv

LEMMA SettersInv ==
  ASSUME OptionsInv, NEW id \in DOMAIN ports,
         SetSpeed(id) \/ SetCharacterSize(id) \/ SetStopBits(id) \/ SetParity(id)
  PROVE  OptionsInv' /\ settings' = settings
<1>1. ports[id].options \in Options
  BY DEF OptionsInv, OptionsTypeOK, Entry
<1>2. CASE SetSpeed(id)
  <2>1. PICK v \in Typed : Set(id, [ports[id].options EXCEPT !.baud_rate = v])
    BY <1>2 DEF SetSpeed
  <2>2. [ports[id].options EXCEPT !.baud_rate = v] \in Options
    BY <1>1, PortOptionsAssumption DEF Options
  <2> QED BY <2>1, <2>2, SetInv
<1>3. CASE SetCharacterSize(id)
  <2>1. PICK v \in Typed \intersect 5..8 :
          Set(id, [ports[id].options EXCEPT !.character_size = v])
    BY <1>3 DEF SetCharacterSize
  <2>2. [ports[id].options EXCEPT !.character_size = v] \in Options
    BY <1>1 DEF Options
  <2> QED BY <2>1, <2>2, SetInv
<1>4. CASE SetStopBits(id)
  <2>1. PICK n \in DOMAIN StopBits :
          Set(id, [ports[id].options EXCEPT !.stop_bits = StopBits[n]])
    BY <1>4 DEF SetStopBits
  <2>2. [ports[id].options EXCEPT !.stop_bits = StopBits[n]] \in Options
    BY <1>1, NameTypes DEF Options
  <2> QED BY <2>1, <2>2, SetInv
<1>5. CASE SetParity(id)
  <2>1. PICK n \in DOMAIN Parity :
          Set(id, [ports[id].options EXCEPT !.parity = Parity[n]])
    BY <1>5 DEF SetParity
  <2>2. [ports[id].options EXCEPT !.parity = Parity[n]] \in Options
    BY <1>1, NameTypes DEF Options
  <2> QED BY <2>1, <2>2, SetInv
<1> QED BY <1>2, <1>3, <1>4, <1>5

LEMMA ConnectInv ==
  ASSUME OptionsInv, NEW id, Connect(id)
  PROVE  OptionsInv' /\ \A d \in Devices : d # ports[id].device => settings'[d] = settings[d]
<1> DEFINE p == ports[id]
           d0 == p.device
           o == p.options
<1>1. /\ id \in DOMAIN ports
      /\ settings' = [settings EXCEPT ![d0] = Create(settings[d0], o)]
      /\ ports' = [ports EXCEPT ![id].in_use = Accepts(o)]
      /\ applied' = [applied EXCEPT ![d0] = IF Accepts(o) THEN o ELSE Unset]
      /\ UNCHANGED <<current_id, running>>
  BY DEF Connect
<1>2. /\ settings \in [Devices -> Termios]
      /\ \A i \in DOMAIN ports : ports[i] \in Entry
      /\ applied \in [Devices -> Options \union {Unset}]
  BY DEF OptionsInv, OptionsTypeOK
<1>3. d0 \in Devices /\ o \in Options
  BY <1>1, <1>2 DEF Entry
<1>4. Create(settings[d0], o) \in Termios
  BY <1>2, <1>3, CreateType
<1>5. Accepts(o) \in BOOLEAN
  BY DEF Accepts
<1>6. /\ DOMAIN ports' = DOMAIN ports
      /\ \A i \in DOMAIN ports : ports'[i] \in Entry /\ ports'[i].device = ports[i].device
  BY <1>1, <1>2, <1>5 DEF Entry
<1>7. OptionsTypeOK'
  BY <1>1, <1>2, <1>3, <1>4, <1>6 DEF OptionsInv, OptionsTypeOK
<1>8. OneEntry'
  BY <1>6 DEF OptionsInv, OneEntry
<1>9. \A d \in Devices : d # d0 => settings'[d] = settings[d] /\ applied'[d] = applied[d]
  BY <1>1, <1>2
<1>10. /\ settings'[d0] = Create(settings[d0], o)
       /\ applied'[d0] # Unset => applied'[d0] = o /\ Accepts(o)
  BY <1>1, <1>2, <1>3
<1>11. settings[d0] \in Termios
  BY <1>2, <1>3
<1>12. Kept'
  <2> HIDE DEF d0, o
  <2> SUFFICES ASSUME NEW d \in Devices, applied'[d] # Unset
               PROVE  /\ applied'[d] \in Options /\ Accepts(applied'[d])
                      /\ \E t \in Termios : settings'[d] = Create(t, applied'[d])
    BY DEF Kept
  <2>1. CASE d = d0
    BY <2>1, <1>3, <1>10, <1>11
  <2>2. CASE d # d0
    BY <2>2, <1>9 DEF OptionsInv, Kept
  <2> QED BY <2>1, <2>2
<1> QED BY <1>7, <1>8, <1>9, <1>12 DEF OptionsInv

LEMMA LeaveInv ==
  ASSUME OptionsInv, NEW id, Leave(id)
  PROVE  OptionsInv' /\ settings' = settings
<1>1. /\ id \in DOMAIN ports
      /\ ports' = [ports EXCEPT ![id].in_use = FALSE]
      /\ UNCHANGED <<current_id, settings, applied, running>>
  BY DEF Leave
<1>2. \A i \in DOMAIN ports : ports[i] \in Entry
  BY DEF OptionsInv, OptionsTypeOK
<1>3. \A b \in BOOLEAN : [ports[id] EXCEPT !.in_use = b] \in Entry
  BY <1>1, <1>2 DEF Entry
<1>4. [ports[id] EXCEPT !.in_use = FALSE] \in Entry
  BY <1>3, Zenon
<1>5. /\ DOMAIN ports' = DOMAIN ports
      /\ \A i \in DOMAIN ports : ports'[i].device = ports[i].device
  BY <1>1, <1>2 DEF Entry
<1>6. \A i \in DOMAIN ports : ports'[i] \in Entry
  BY <1>1, <1>2, <1>4
<1>7. OptionsTypeOK'
  BY <1>1, <1>5, <1>6 DEF OptionsInv, OptionsTypeOK
<1>8. OneEntry'
  BY <1>5 DEF OptionsInv, OneEntry
<1>9. Kept'
  BY <1>1 DEF OptionsInv, Kept
<1> QED BY <1>1, <1>7, <1>8, <1>9 DEF OptionsInv

\* no entry of the new table is in use, nor of the old table
LEMMA RefreshInv ==
  ASSUME OptionsInv, Refresh
  PROVE  /\ OptionsInv' /\ settings' = settings
         /\ DOMAIN ports \intersect DOMAIN ports' = {}
<1>1. PICK devices \in Scans \union {<<>>} :
        /\ ports' = Table(current_id, devices)
        /\ current_id' = current_id + Len(devices)
        /\ UNCHANGED <<settings, applied, running>>
  BY DEF Refresh
<1>2. /\ settings \in [Devices -> Termios] /\ current_id \in Nat
      /\ DOMAIN ports \subseteq 0..(current_id - 1)
  BY DEF OptionsInv, OptionsTypeOK
<1>3. /\ DOMAIN ports' = current_id .. (current_id + Len(devices) - 1)
      /\ Len(devices) \in Nat
      /\ \A i \in DOMAIN ports' : ports'[i] \in Entry
      /\ OneEntry'
  BY <1>1, <1>2, TableType DEF OneEntry
<1>4. OptionsTypeOK'
  BY <1>1, <1>2, <1>3 DEF OptionsInv, OptionsTypeOK
<1>5. Kept'
  BY <1>1 DEF OptionsInv, Kept
<1>6. DOMAIN ports \intersect DOMAIN ports' = {}
  BY <1>2, <1>3
<1> QED BY <1>1, <1>3, <1>4, <1>5, <1>6 DEF OptionsInv

LEMMA ReplugInv ==
  ASSUME OptionsInv, NEW d \in Devices, Replug(d)
  PROVE  /\ OptionsInv' /\ ports' = ports
         /\ \A e \in Devices : e # d => settings'[e] = settings[e]
<1>1. PICK t \in Termios :
        /\ settings' = [settings EXCEPT ![d] = t]
        /\ applied' = [applied EXCEPT ![d] = Unset]
        /\ UNCHANGED <<ports, current_id, running>>
  BY PortOptionsAssumption DEF Replug
<1>2. /\ settings \in [Devices -> Termios]
      /\ applied \in [Devices -> Options \union {Unset}]
  BY DEF OptionsInv, OptionsTypeOK
<1>3. OptionsTypeOK'
  BY <1>1, <1>2 DEF OptionsInv, OptionsTypeOK
<1>4. OneEntry'
  BY <1>1 DEF OptionsInv, OneEntry
<1>5. /\ \A e \in Devices : e # d => settings'[e] = settings[e] /\ applied'[e] = applied[e]
      /\ applied'[d] = Unset
  BY <1>1, <1>2
<1>6. Kept'
  BY <1>5 DEF OptionsInv, Kept
<1> QED BY <1>1, <1>3, <1>4, <1>5, <1>6 DEF OptionsInv

LEMMA QuietInv ==
  ASSUME OptionsInv, SetBadParity \/ UNCHANGED optionsVars
  PROVE  OptionsInv' /\ UNCHANGED <<ports, settings>>
<1>1. UNCHANGED <<ports, current_id, settings, applied>> /\ running' \in BOOLEAN
  BY DEF SetBadParity, optionsVars, OptionsInv, OptionsTypeOK
<1>2. OptionsTypeOK'
  BY <1>1 DEF OptionsInv, OptionsTypeOK
<1>3. OneEntry' /\ Kept'
  BY <1>1 DEF OptionsInv, OneEntry, Kept
<1> QED BY <1>1, <1>2, <1>3 DEF OptionsInv

LEMMA OptionsStepInv == OptionsInv /\ [OptionsNext]_optionsVars => OptionsInv'
<1> SUFFICES ASSUME OptionsInv, [OptionsNext]_optionsVars PROVE OptionsInv'
  OBVIOUS
<1>1. ASSUME NEW id \in DOMAIN ports,
             SetSpeed(id) \/ SetCharacterSize(id) \/ SetStopBits(id) \/ SetParity(id)
      PROVE  OptionsInv'
  BY <1>1, SettersInv
<1>2. ASSUME NEW id \in DOMAIN ports, Connect(id) PROVE OptionsInv'
  BY <1>2, ConnectInv
<1>3. ASSUME NEW id \in DOMAIN ports, Leave(id) PROVE OptionsInv'
  BY <1>3, LeaveInv
<1>4. CASE Refresh
  BY <1>4, RefreshInv
<1>5. ASSUME NEW d \in Devices, Replug(d) PROVE OptionsInv'
  BY <1>5, ReplugInv
<1>6. CASE SetBadParity \/ UNCHANGED optionsVars
  BY <1>6, QuietInv
<1> QED BY <1>1, <1>2, <1>3, <1>4, <1>5, <1>6 DEF OptionsNext

LEMMA OptionsInvariant == OptionsSpec => []OptionsInv
<1> QED BY OptionsInitInv, OptionsStepInv, PTL DEF OptionsSpec

\* Every variable keeps its type (context.cpp:96-193).
THEOREM PortTypes == OptionsSpec => []OptionsTypeOK
<1>1. OptionsInv => OptionsTypeOK
  BY DEF OptionsInv
<1> QED BY <1>1, OptionsInvariant, PTL

\* What connect applied is what the next scan reads, whatever the device was set
\* to before, for every option and every speed that the enum has right.
THEOREM AppliedIsRead == OptionsSpec => []SettingsPreserved
<1>1. OptionsInv => SettingsPreserved
  BY ReadBack DEF OptionsInv, Kept, SettingsPreserved
<1> QED BY <1>1, OptionsInvariant, PTL

\* What list shows may be given to the setters (port.cpp:39-56, 113-146).
THEOREM NamesTaken == OptionsSpec => []ShownIsTaken
<1>1. OptionsInv => ShownIsTaken
  <2> SUFFICES ASSUME OptionsInv, NEW id \in DOMAIN ports,
                      NEW o, o = ports[id].options
               PROVE  /\ Shown(o).parity \in DOMAIN Parity
                      /\ Parity[Shown(o).parity] = o.parity
                      /\ Shown(o).stop_bits \in DOMAIN StopBits
                      /\ StopBits[Shown(o).stop_bits] = o.stop_bits
    BY DEF ShownIsTaken
  <2>1. o \in Options
    BY DEF OptionsInv, OptionsTypeOK, Entry
  <2>2. /\ o.parity \in {"none", "odd", "even"}
        /\ o.stop_bits \in {"one", "onepointfive", "two"}
    BY <2>1, ShownTypes DEF Options
  <2>3. /\ Shown(o).parity = ParityShown(o.parity)
        /\ Shown(o).stop_bits = StopBitsShown(o.stop_bits)
    BY <2>1 DEF Shown, Options
  <2>4. \A p \in {"none", "odd", "even"} :
          ParityShown(p) \in DOMAIN Parity /\ Parity[ParityShown(p)] = p
    BY DEF ParityShown, Parity
  <2>5. \A s \in {"one", "onepointfive", "two"} :
          StopBitsShown(s) \in DOMAIN StopBits /\ StopBits[StopBitsShown(s)] = s
    BY DEF StopBitsShown, StopBits
  <2> QED BY <2>2, <2>3, <2>4, <2>5
<1> QED BY <1>1, OptionsInvariant, PTL

\* A step that changes options in the table leaves the devices alone.
THEOREM OptionsWait == OptionsSpec => NotImmediate
<1>1. ASSUME OptionsInv, [OptionsNext]_optionsVars,
             NEW i \in DOMAIN ports \intersect DOMAIN ports',
             ports'[i].options # ports[i].options
      PROVE  settings' = settings
  <2>1. ASSUME NEW id \in DOMAIN ports,
               SetSpeed(id) \/ SetCharacterSize(id) \/ SetStopBits(id) \/ SetParity(id)
        PROVE  settings' = settings
    BY <2>1, <1>1, SettersInv
  <2>2. ASSUME NEW id \in DOMAIN ports, Connect(id) PROVE FALSE
    <3>1. ports' = [ports EXCEPT ![id].in_use = Accepts(ports[id].options)]
      BY <2>2 DEF Connect
    <3>2. ports[id] \in Entry /\ ports[i] \in Entry
      BY <1>1 DEF OptionsInv, OptionsTypeOK
    <3>3. ports'[i].options = ports[i].options
      BY <3>1, <3>2 DEF Entry
    <3> QED BY <3>3, <1>1
  <2>3. ASSUME NEW id \in DOMAIN ports, Leave(id) PROVE settings' = settings
    BY <2>3, <1>1, LeaveInv
  <2>4. CASE Refresh
    BY <2>4, <1>1, RefreshInv
  <2>5. ASSUME NEW d \in Devices, Replug(d) PROVE FALSE
    BY <2>5, <1>1, ReplugInv
  <2>6. CASE SetBadParity \/ UNCHANGED optionsVars
    BY <2>6, <1>1, QuietInv
  <2> QED BY <1>1, <2>1, <2>2, <2>3, <2>4, <2>5, <2>6 DEF OptionsNext
<1>2. OptionsInv /\ [OptionsNext]_optionsVars =>
        [ \A id \in DOMAIN ports \intersect DOMAIN ports' :
            ports'[id].options # ports[id].options => settings' = settings ]_optionsVars
  BY <1>1
<1> QED BY <1>2, OptionsInvariant, PTL DEF OptionsSpec, NotImmediate

\* Nobody changes the settings of a device under a session that uses its entry.
THEOREM SessionsKeep == OptionsSpec => SessionKeepsSettings
<1>1. ASSUME OptionsInv, [OptionsNext]_optionsVars,
             NEW i \in DOMAIN ports \intersect DOMAIN ports',
             ports[i].in_use, ports'[i].in_use
      PROVE  settings'[ports[i].device] = settings[ports[i].device]
  <2>0. ports[i].device \in Devices
    BY <1>1 DEF OptionsInv, OptionsTypeOK, Entry
  <2>1. ASSUME NEW id \in DOMAIN ports,
               SetSpeed(id) \/ SetCharacterSize(id) \/ SetStopBits(id) \/ SetParity(id)
        PROVE  settings' = settings
    BY <2>1, <1>1, SettersInv
  <2>2. ASSUME NEW id \in DOMAIN ports, Connect(id)
        PROVE  settings'[ports[i].device] = settings[ports[i].device]
    <3>1. id # i
      BY <2>2, <1>1 DEF Connect
    <3>2. ports[i].device # ports[id].device
      BY <3>1, <1>1 DEF OptionsInv, OneEntry
    <3> QED BY <2>0, <2>2, <3>2, <1>1, ConnectInv
  <2>3. ASSUME NEW id \in DOMAIN ports, Leave(id) PROVE settings' = settings
    BY <2>3, <1>1, LeaveInv
  <2>4. CASE Refresh
    BY <2>4, <1>1, RefreshInv
  <2>5. ASSUME NEW d \in Devices, Replug(d)
        PROVE  settings'[ports[i].device] = settings[ports[i].device]
    <3>1. ports[i].device # d
      BY <2>5, <1>1 DEF Replug
    <3> QED BY <2>0, <2>5, <3>1, <1>1, ReplugInv
  <2>6. CASE SetBadParity \/ UNCHANGED optionsVars
    BY <2>6, <1>1, QuietInv
  <2> QED BY <1>1, <2>1, <2>2, <2>3, <2>4, <2>5, <2>6 DEF OptionsNext
<1>2. OptionsInv /\ [OptionsNext]_optionsVars =>
        [ \A id \in DOMAIN ports \intersect DOMAIN ports' :
            ports[id].in_use /\ ports'[id].in_use
              => settings'[ports[id].device] = settings[ports[id].device] ]_optionsVars
  BY <1>1
<1> QED BY <1>2, OptionsInvariant, PTL DEF OptionsSpec, SessionKeepsSettings
=============================================================================
