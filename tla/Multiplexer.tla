---------------------------- MODULE Multiplexer ----------------------------
(***************************************************************************)
(* The core of the web serial multiplexer: websocket sessions             *)
(* (cli_handler), the session registry (session_holder), the table of     *)
(* ports (ports_holder) and the serial_state objects which tie the two     *)
(* together.                                                               *)
(*                                                                         *)
(* The server runs one io_context on one thread (bin/main.cpp:175), so a   *)
(* completion handler is one atomic step.  What interleaves is the order   *)
(* in which completions of outstanding asynchronous operations are run.    *)
(* An object held through shared_from_this() lives until the last          *)
(* operation that captured it has completed; its destructor runs inside    *)
(* the step that drops the last reference.                                 *)
(***************************************************************************)
EXTENDS Naturals, Sequences, FiniteSets, Functions

CONSTANTS
  Handlers,      \* addresses at which a cli_handler may be allocated
  Serials,       \* addresses at which a serial_state may be allocated
  Devices,       \* paths of serial devices
  Control,       \* the value of m_state while it is a control_state
  NoDevice,      \* the empty device string of a session_info
  Scans,         \* device lists that serial::scan() may return
  MaxSessions,   \* bound on session_holder::current_id
  MaxPorts       \* bound on ports_holder::current_id

ASSUME ControlAssumption == Control \notin Serials
ASSUME DeviceAssumption  == NoDevice \notin Devices
\* scan() returns a std::map: no device is listed twice
ASSUME ScansAssumption   ==
  \A s \in Scans : /\ s \in Seq(Devices)
                   /\ \A i, j \in 1..Len(s) : s[i] = s[j] => i = j
ASSUME BoundsAssumption  == MaxSessions \in Nat /\ MaxPorts \in Nat

VARIABLES
  conn,          \* per handler: how far its websocket stream is
  sending,       \* per handler: a posted on_send or an async_write holds it
  closing,       \* per handler: an async_close holds it
  mstate,        \* per handler: m_state
  sessions,      \* session_holder::sessions
  nextSession,   \* session_holder::current_id
  ports,         \* ports_holder::ports
  nextPort,      \* ports_holder::current_id
  serial,        \* the serial_state objects that have not been destroyed
  stomped        \* auxiliary: entries hit by a write through a dangling m_info

handlerVars == <<conn, sending, closing, mstate>>
vars == <<conn, sending, closing, mstate, sessions, nextSession,
          ports, nextPort, serial, stomped>>

(***************************************************************************)
(* "free" no object, "accepting" async_accept outstanding, "open"          *)
(* async_read outstanding, "draining" neither: the object lives on only     *)
(* through writes or a close operation.                                    *)
(***************************************************************************)
Phases == {"free", "accepting", "open", "draining"}

Row   == [id : Nat, device : Devices \cup {NoDevice},
          state : {"", "control", "serial"}]
Entry == [device : Devices, in_use : BOOLEAN]

(***************************************************************************)
(* read: "pending" the descriptor is watched, "ready" the bytes have been  *)
(* read and the successful completion is queued, "failed" a completion     *)
(* with an error code is queued, "none" no read is outstanding.            *)
(* writing: a posted on_send or an async_write_some holds the object.      *)
(***************************************************************************)
SerialRec == [session : Handlers, port : Nat, device : Devices,
              read : {"none", "pending", "ready", "failed"},
              writing : BOOLEAN]

TypeOK ==
  /\ conn \in [Handlers -> Phases]
  /\ sending \in [Handlers -> BOOLEAN]
  /\ closing \in [Handlers -> BOOLEAN]
  /\ mstate \in [Handlers -> Serials \cup {Control}]
  /\ DOMAIN sessions \subseteq Handlers
  /\ sessions \in [DOMAIN sessions -> Row]
  /\ nextSession \in Nat
  /\ DOMAIN ports \subseteq Nat
  /\ ports \in [DOMAIN ports -> Entry]
  /\ nextPort \in Nat
  /\ DOMAIN serial \subseteq Serials
  /\ serial \in [DOMAIN serial -> SerialRec]
  /\ stomped \subseteq DOMAIN ports

-----------------------------------------------------------------------------
(* The two maps.                                                           *)

Put(f, x, v) == [y \in DOMAIN f \cup {x} |-> IF y = x THEN v ELSE f[y]]
Drop(f, x)   == Restrict(f, DOMAIN f \ {x})

\* mutant: a state once written is never replaced
FirstState(rows, h, name) ==
  IF h \in DOMAIN rows /\ rows[h].state = ""
  THEN [rows EXCEPT ![h].state = name] ELSE rows

SetState(rows, h, name) ==
  IF h \in DOMAIN rows THEN [rows EXCEPT ![h].state = name] ELSE rows

\* mutant: the device is set but never cleared
KeepDevice(rows, h, dev) ==
  IF h \in DOMAIN rows /\ dev # NoDevice
  THEN [rows EXCEPT ![h].device = dev] ELSE rows

SetDevice(rows, h, dev) ==
  IF h \in DOMAIN rows THEN [rows EXCEPT ![h].device = dev] ELSE rows

\* mutant: the row stays behind
StaleRow(rows, h) == rows

Unregister(rows, h) == Drop(rows, h)

\* mutant: the other state is tested
ControlRows == {h \in DOMAIN sessions : sessions[h].state = "control"}

\* the rows that refresh takes for connections
SerialRows == {h \in DOMAIN sessions : sessions[h].state = "serial"}

\* mutant: get_port without the test of in_use
Known(p) == p \in DOMAIN ports

\* a port that connect may open
Available(p) == p \in DOMAIN ports /\ ~ports[p].in_use

\* mutant: ~serial_state does not reset the flag
KeepFlag(tab, p) == tab

ClearFlag(tab, p) == [tab EXCEPT ![p].in_use = FALSE]

\* mutant: the device string has been moved from
NamelessPorts(devs) ==
  [p \in nextPort..(nextPort + Len(devs) - 1) |->
     [device |-> NoDevice, in_use |-> FALSE]]

\* one add_port per scanned device, ids counted up from current_id
NewPorts(devs) ==
  [p \in nextPort..(nextPort + Len(devs) - 1) |->
     [device |-> devs[p - nextPort + 1], in_use |-> FALSE]]

-----------------------------------------------------------------------------
(* Object lifetimes.                                                       *)

Held(x) == \E h \in Handlers : mstate[h] = x

\* m_port.cancel() aborts a read that is still pending; a completion that
\* is already queued keeps its result.
Cancelled(s) == [s EXCEPT !.read = IF @ = "pending" THEN "failed" ELSE @]

(***************************************************************************)
(* ~serial_state.  It looks its session up by address and writes through   *)
(* the reference m_info.  If the table entry is gone the write goes to     *)
(* freed memory: it is lost, or it hits the in_use flag of whichever entry *)
(* was allocated there since.                                              *)
(***************************************************************************)
DestroySerial(x, rows) ==
  LET p == serial[x].port IN
  /\ serial' = Drop(serial, x)
  /\ sessions' = SetDevice(rows, serial[x].session, NoDevice)
  /\ \/ /\ p \in DOMAIN ports
        /\ ports' = ClearFlag(ports, p)
        /\ UNCHANGED stomped
     \/ /\ p \notin DOMAIN ports
        /\ UNCHANGED <<ports, stomped>>
     \/ /\ p \notin DOMAIN ports
        /\ \E q \in DOMAIN ports :
             /\ ports' = ClearFlag(ports, q)
             /\ stomped' = stomped \cup {q}

\* x becomes the object s; if nothing refers to it any more it is destroyed
Settle(x, s, held, rows) ==
  IF held \/ s.writing \/ s.read # "none"
  THEN /\ serial' = [serial EXCEPT ![x] = s]
       /\ sessions' = rows
       /\ UNCHANGED <<ports, stomped>>
  ELSE DestroySerial(x, rows)

\* ~cli_handler: m_state->cancel(), unregister_session, release of m_state
DestroyHandler(h) ==
  /\ conn'    = [conn EXCEPT ![h] = "free"]
  /\ sending' = [sending EXCEPT ![h] = FALSE]
  /\ closing' = [closing EXCEPT ![h] = FALSE]
  /\ mstate'  = [mstate EXCEPT ![h] = Control]
  /\ IF mstate[h] = Control
     THEN /\ sessions' = Unregister(sessions, h)
          /\ UNCHANGED <<ports, serial, stomped>>
     ELSE Settle(mstate[h], Cancelled(serial[mstate[h]]), FALSE,
                 Unregister(sessions, h))

\* an operation on the websocket of h ends, leaving these ones outstanding
HandlerOp(h, phase, snd, cls) ==
  IF phase \in {"accepting", "open"} \/ snd \/ cls
  THEN /\ conn'    = [conn EXCEPT ![h] = phase]
       /\ sending' = [sending EXCEPT ![h] = snd]
       /\ closing' = [closing EXCEPT ![h] = cls]
       /\ UNCHANGED <<mstate, sessions, ports, serial, stomped>>
  ELSE DestroyHandler(h)

-----------------------------------------------------------------------------
Init ==
  /\ conn    = [h \in Handlers |-> "free"]
  /\ sending = [h \in Handlers |-> FALSE]
  /\ closing = [h \in Handlers |-> FALSE]
  /\ mstate  = [h \in Handlers |-> Control]
  /\ sessions = [h \in {} |-> {}]
  /\ nextSession = 0
  /\ \E devs \in Scans :
       /\ Len(devs) <= MaxPorts
       /\ ports = [p \in 0..(Len(devs) - 1) |->
                     [device |-> devs[p + 1], in_use |-> FALSE]]
       /\ nextPort = Len(devs)
  /\ serial = [x \in {} |-> {}]
  /\ stomped = {}

(* The websocket session.                                                  *)

\* a granted upgrade request: cli_handler, handle_request, async_accept
Upgrade(h) ==
  /\ conn[h] = "free"
  /\ nextSession < MaxSessions
  /\ conn' = [conn EXCEPT ![h] = "accepting"]
  /\ sessions' = Put(sessions, h, [id |-> nextSession, device |-> NoDevice,
                                   state |-> ""])
  /\ nextSession' = nextSession + 1
  /\ UNCHANGED <<sending, closing, mstate, ports, nextPort, serial, stomped>>

AcceptOk(h) ==
  /\ conn[h] = "accepting"
  /\ conn' = [conn EXCEPT ![h] = "open"]
  /\ sending' = [sending EXCEPT ![h] = TRUE]
  /\ sessions' = SetState(sessions, h, "control")
  /\ UNCHANGED <<closing, mstate, nextSession, ports, nextPort, serial,
                 stomped>>

AcceptFails(h) ==
  /\ conn[h] = "accepting"
  /\ HandlerOp(h, "draining", sending[h], closing[h])
  /\ UNCHANGED <<nextSession, nextPort>>

\* on_read with an error: peer gone, or the close handshake is over
ReadFails(h) ==
  /\ conn[h] = "open"
  /\ HandlerOp(h, "draining", sending[h], closing[h])
  /\ UNCHANGED <<nextSession, nextPort>>

\* the last queued send of h has been written, or a write failed
SendDone(h) ==
  /\ sending[h]
  /\ HandlerOp(h, conn[h], FALSE, closing[h])
  /\ UNCHANGED <<nextSession, nextPort>>

\* mutant: the completion handler of the close never lets go of h
CloseLeaks(h) ==
  /\ closing[h]
  /\ conn[h] # "open"
  /\ UNCHANGED vars

\* async_close completes once the read it waits for has ended
CloseDone(h) ==
  /\ closing[h]
  /\ conn[h] # "open"
  /\ HandlerOp(h, conn[h], sending[h], FALSE)
  /\ UNCHANGED <<nextSession, nextPort>>

-----------------------------------------------------------------------------
(* Input of a session in the control state.  Every command writes output.  *)

InControl(h) == conn[h] = "open" /\ mstate[h] = Control

Output(h) == sending' = [sending EXCEPT ![h] = TRUE]

\* list, help, an unknown command, and a connect or kill that is refused
OtherCommand(h) ==
  /\ InControl(h)
  /\ Output(h)
  /\ UNCHANGED <<conn, closing, mstate, sessions, nextSession, ports, nextPort,
                 serial, stomped>>

Connect(h, p, x) ==
  /\ InControl(h)
  /\ Available(p)
  /\ x \notin DOMAIN serial
  /\ serial' = Put(serial, x,
                 [session |-> h, port |-> p, device |-> ports[p].device,
                  read |-> "pending", writing |-> FALSE])
  /\ ports' = [ports EXCEPT ![p].in_use = TRUE]
  /\ sessions' = SetState(SetDevice(sessions, h, ports[p].device), h, "serial")
  /\ mstate' = [mstate EXCEPT ![h] = x]
  /\ Output(h)
  /\ UNCHANGED <<conn, closing, nextSession, nextPort, stomped>>

\* session kill: cancel() starts a close, which does nothing on a stream
\* that is not open
Kill(h, t) ==
  /\ InControl(h)
  /\ t \in DOMAIN sessions
  /\ closing' = [closing EXCEPT ![t] = @ \/ conn[t] = "open"]
  /\ Output(h)
  /\ UNCHANGED <<conn, mstate, sessions, nextSession, ports, nextPort, serial,
                 stomped>>

\* system refresh: erases the rows of serial sessions and replaces the
\* table.  The empty list is also what is left when scan() throws.
Refresh(h) ==
  /\ InControl(h)
  /\ sessions' = Restrict(sessions, DOMAIN sessions \ SerialRows)
  /\ \E devs \in Scans \cup {<<>>} :
       /\ nextPort + Len(devs) <= MaxPorts
       /\ ports' = NewPorts(devs)
       /\ nextPort' = nextPort + Len(devs)
  /\ stomped' = {}
  /\ Output(h)
  /\ UNCHANGED <<conn, closing, mstate, nextSession, serial>>

-----------------------------------------------------------------------------
(* Input of a session in the serial state.                                 *)

InSerial(h) == conn[h] = "open" /\ mstate[h] # Control

\* a character or escape sequence for the device: write_serial
Type(h) ==
  /\ InSerial(h)
  /\ serial' = [serial EXCEPT ![mstate[h]].writing = TRUE]
  /\ UNCHANGED <<conn, sending, closing, mstate, sessions, nextSession, ports,
                 nextPort, stomped>>

\* Ctrl-Q: cancel the serial_state, replace it by a control_state, run that
CtrlQ(h) ==
  /\ InSerial(h)
  /\ mstate' = [mstate EXCEPT ![h] = Control]
  /\ Output(h)
  /\ Settle(mstate[h], Cancelled(serial[mstate[h]]), FALSE,
            SetState(sessions, h, "control"))
  /\ UNCHANGED <<conn, closing, nextSession, nextPort>>

-----------------------------------------------------------------------------
(* The serial port.                                                        *)

\* the descriptor becomes readable and asio performs the read
DeviceData(x) ==
  /\ serial[x].read = "pending"
  /\ serial' = [serial EXCEPT ![x].read = "ready"]
  /\ UNCHANGED <<handlerVars, sessions, nextSession, ports, nextPort, stomped>>

\* unplugged, or a read error
DeviceFails(x) ==
  /\ serial[x].read = "pending"
  /\ serial' = [serial EXCEPT ![x].read = "failed"]
  /\ UNCHANGED <<handlerVars, sessions, nextSession, ports, nextPort, stomped>>

\* on_read without an error: forward to the session, read again
OnRead(x) ==
  LET h == serial[x].session IN
  /\ serial[x].read = "ready"
  /\ serial' = [serial EXCEPT ![x].read = "pending"]
  /\ sending' = [sending EXCEPT ![h] = @ \/ conn[h] # "free"]
  /\ UNCHANGED <<conn, closing, mstate, sessions, nextSession, ports, nextPort,
                 stomped>>

\* mutant: the error code is not tested
OnReadIgnoresError(x) ==
  /\ serial[x].read = "failed"
  /\ serial' = [serial EXCEPT ![x].read = "pending"]
  /\ UNCHANGED <<handlerVars, sessions, nextSession, ports, nextPort, stomped>>

\* on_read with an error: nothing re-arms the read
OnReadFails(x) ==
  /\ serial[x].read = "failed"
  /\ Settle(x, [serial[x] EXCEPT !.read = "none"], Held(x), sessions)
  /\ UNCHANGED <<handlerVars, nextSession, nextPort>>

\* the last on_send or on_write of x that holds it has run
WriteDone(x) ==
  /\ serial[x].writing
  /\ Settle(x, [serial[x] EXCEPT !.writing = FALSE], Held(x), sessions)
  /\ UNCHANGED <<handlerVars, nextSession, nextPort>>

-----------------------------------------------------------------------------
HandlerNext(h) ==
  \/ Upgrade(h) \/ AcceptOk(h) \/ AcceptFails(h)
  \/ ReadFails(h) \/ SendDone(h) \/ CloseDone(h)
  \/ OtherCommand(h) \/ Refresh(h) \/ Type(h) \/ CtrlQ(h)
  \/ \E p \in DOMAIN ports, x \in Serials : Connect(h, p, x)
  \/ \E t \in DOMAIN sessions : Kill(h, t)

SerialNext(x) ==
  \/ DeviceData(x) \/ DeviceFails(x)
  \/ OnRead(x) \/ OnReadFails(x) \/ WriteDone(x)

Next ==
  \/ \E h \in Handlers : HandlerNext(h)
  \/ \E x \in DOMAIN serial : SerialNext(x)

Spec == Init /\ [][Next]_vars

(***************************************************************************)
(* Completions are run.  The handshake, a stuck write and the close        *)
(* handshake are ended by the Beast timeouts (websocket.hpp:134-136); a    *)
(* tty without flow control drains.  Users, peers and devices owe nothing. *)
(***************************************************************************)
Fairness ==
  /\ \A h \in Handlers :
       /\ WF_vars(AcceptOk(h) \/ AcceptFails(h))
       /\ WF_vars(SendDone(h))
       /\ WF_vars(closing[h] /\ ReadFails(h))
       /\ WF_vars(CloseDone(h))
  /\ \A x \in Serials :
       /\ WF_vars(x \in DOMAIN serial /\ OnRead(x))
       /\ WF_vars(x \in DOMAIN serial /\ OnReadFails(x))
       /\ WF_vars(x \in DOMAIN serial /\ WriteDone(x))

FairSpec == Spec /\ Fairness

-----------------------------------------------------------------------------
(* Safety.                                                                 *)

\* Entries whose in_use flag no dangling reference has overwritten.
Sound == DOMAIN ports \ stomped

\* The in_use flag of a table entry is set exactly while a serial_state that
\* refers to the entry has not been destroyed, and no two refer to the same
\* entry: the flag is written by connect and by ~serial_state only, through
\* any order of Ctrl-Q, kill, disconnection, refresh and late completions.
EntryExclusive ==
  /\ \A p \in Sound :
       ports[p].in_use <=> \E x \in DOMAIN serial : serial[x].port = p
  /\ \A x, y \in DOMAIN serial :
       serial[x].port = serial[y].port /\ serial[x].port \in Sound => x = y

\* sessions.cancel(id) calls through the key of the row it finds, a raw
\* pointer: every row belongs to a handler that has not been destroyed, and
\* an id names one session.
RegistryLive ==
  /\ \A h \in DOMAIN sessions : conn[h] # "free"
  /\ \A g, h \in DOMAIN sessions : sessions[g].id = sessions[h].id => g = h

\* refresh tells connections apart by the state string of the row: it is
\* "serial" exactly while the session's m_state is a serial_state.
StateShown ==
  \A h \in DOMAIN sessions :
    sessions[h].state = "serial" <=> mstate[h] # Control

\* A device that the session list shows is one that a serial_state opened by
\* a session at this address still has open, whatever older serial_states
\* of the address were destroyed late.
DeviceShownIsHeld ==
  \A h \in DOMAIN sessions :
    sessions[h].device # NoDevice =>
      \E x \in DOMAIN serial : /\ serial[x].session = h
                               /\ serial[x].device = sessions[h].device

\* The README (333-336) wonders how a session may exist unregistered: a row
\* goes while its handler lives only when a refresh replaces the table, and
\* then only the row of a session in the serial state.
RowLostOnlyByRefresh ==
  [][\A h \in DOMAIN sessions :
       h \notin DOMAIN sessions' /\ conn'[h] # "free" =>
         /\ mstate[h] # Control
         /\ DOMAIN ports \cap DOMAIN ports' = {}]_vars

(* What the table promises, as an abstract specification.                  *)

Holder(p) ==
  IF ports[p].in_use
  THEN CHOOSE x \in DOMAIN serial : serial[x].port = p
  ELSE Control

Lease == INSTANCE PortLease
           WITH Holders <- Serials, Free <- Control,
                table <- Sound, holder <- [p \in Sound |-> Holder(p)]

\* Connect, the destructor of a serial_state and refresh acquire, release and
\* replace leases as PortLease allows; every other step leaves them alone.
ImplementsLease == Lease!Spec

-----------------------------------------------------------------------------
(* Liveness, under FairSpec.                                               *)

\* A websocket that was closed, or whose peer is gone, is destroyed and its
\* row is taken off the registry.
ClosedIsDestroyed ==
  \A h \in Handlers :
    closing[h] \/ conn[h] = "draining" ~> conn[h] = "free"

\* A serial_state that its session has left is destroyed, and the entry freed,
\* if the cancelled read had not been performed yet.
CancelledIsDestroyed ==
  \A x \in Serials :
    (x \in DOMAIN serial /\ ~Held(x) /\ serial[x].read = "failed")
      ~> x \notin DOMAIN serial

(* Claims of the documentation that the code does not keep.                *)

\* README.md:216: if a port is in use, the connect attempt will fail.
DeviceExclusive ==
  \A x, y \in DOMAIN serial : serial[x].device = serial[y].device => x = y

\* serial_state.cpp:61 "Type Ctrl + q to exit": the serial_state that a session
\* has left with Ctrl-Q comes to its end while the session goes on.
ExitEnds ==
  \A x \in Serials :
    (x \in DOMAIN serial /\ ~Held(x) /\ conn[serial[x].session] = "open")
      ~> (x \in DOMAIN serial => conn[serial[x].session] # "open")

\* README.md:225-227: killing a session relieves it of its port.
KillRelievesPort ==
  \A h \in Handlers, x \in Serials :
    closing[h] /\ mstate[h] = x ~> x \notin DOMAIN serial

\* Help text of system refresh (control_state.cpp:384): it terminates existing
\* connections.  A session in the serial state that lost its row leaves it.
RefreshTerminates ==
  \A h \in Handlers :
    (conn[h] = "open" /\ mstate[h] # Control /\ h \notin DOMAIN sessions)
      ~> mstate[h] = Control
=============================================================================
