------------------------- MODULE MultiplexerProofs -------------------------
(***************************************************************************)
(* Multiplexer for any number of handlers, serial_states, devices and any  *)
(* bounds: its types, the exclusive use of entries, the truth of what the  *)
(* session registry shows, and that it implements PortLease.                *)
(***************************************************************************)
EXTENDS Multiplexer, TLAPS

\* A map from sessions to rows, whatever its domain.
RowsOK(rows) ==
  /\ DOMAIN rows \subseteq Handlers
  /\ rows \in [DOMAIN rows -> Row]

LEMMA PutType ==
  ASSUME NEW D, NEW S, NEW f, DOMAIN f \subseteq D, f \in [DOMAIN f -> S],
         NEW x \in D, NEW v \in S
  PROVE  /\ DOMAIN Put(f, x, v) \subseteq D
         /\ Put(f, x, v) \in [DOMAIN Put(f, x, v) -> S]
  BY DEF Put

LEMMA DropType ==
  ASSUME NEW D, NEW S, NEW f, DOMAIN f \subseteq D, f \in [DOMAIN f -> S],
         NEW x
  PROVE  /\ DOMAIN Drop(f, x) \subseteq D
         /\ Drop(f, x) \in [DOMAIN Drop(f, x) -> S]
  BY DEF Drop, Restrict

LEMMA SetStateType ==
  ASSUME NEW rows, RowsOK(rows), NEW h \in Handlers,
         NEW name \in {"", "control", "serial"}
  PROVE  RowsOK(SetState(rows, h, name))
  BY DEF RowsOK, SetState, Row

LEMMA SetDeviceType ==
  ASSUME NEW rows, RowsOK(rows), NEW h \in Handlers,
         NEW dev \in Devices \cup {NoDevice}
  PROVE  RowsOK(SetDevice(rows, h, dev))
  BY DEF RowsOK, SetDevice, Row

LEMMA CancelledType ==
  ASSUME NEW s \in SerialRec
  PROVE  /\ Cancelled(s) \in SerialRec
         /\ Cancelled(s).port = s.port
         /\ Cancelled(s).session = s.session
         /\ Cancelled(s).device = s.device
  BY DEF Cancelled, SerialRec

LEMMA ClearFlagType ==
  ASSUME NEW tab, tab \in [DOMAIN tab -> Entry], NEW q \in DOMAIN tab
  PROVE  /\ DOMAIN ClearFlag(tab, q) = DOMAIN tab
         /\ ClearFlag(tab, q) \in [DOMAIN tab -> Entry]
  BY DEF ClearFlag, Entry

\* the variables that a late completion of a serial_state may change
ObjectsOK ==
  /\ RowsOK(sessions)
  /\ DOMAIN ports \subseteq Nat
  /\ ports \in [DOMAIN ports -> Entry]
  /\ DOMAIN serial \subseteq Serials
  /\ serial \in [DOMAIN serial -> SerialRec]
  /\ stomped \subseteq DOMAIN ports

LEMMA DestroySerialType ==
  ASSUME ObjectsOK, NEW x \in DOMAIN serial, NEW rows, RowsOK(rows),
         DestroySerial(x, rows)
  PROVE  ObjectsOK'
<1> DEFINE p == serial[x].port
<1>0. serial[x] \in SerialRec
  BY DEF ObjectsOK
<1>1. RowsOK(sessions)'
  <2>1. sessions' = SetDevice(rows, serial[x].session, NoDevice)
    BY DEF DestroySerial
  <2>2. serial[x].session \in Handlers
    BY <1>0 DEF SerialRec
  <2>3. RowsOK(SetDevice(rows, serial[x].session, NoDevice))
    BY <2>2, SetDeviceType
  <2> QED BY <2>1, <2>3 DEF RowsOK
<1>2. /\ DOMAIN serial' \subseteq Serials
      /\ serial' \in [DOMAIN serial' -> SerialRec]
  BY DEF DestroySerial, ObjectsOK, Drop, Restrict
<1>3. /\ DOMAIN ports' \subseteq Nat
      /\ ports' \in [DOMAIN ports' -> Entry]
      /\ stomped' \subseteq DOMAIN ports'
  <2>1. CASE p \in DOMAIN ports
    <3>1. ports' = ClearFlag(ports, p) /\ stomped' = stomped
      BY <2>1 DEF DestroySerial
    <3> QED BY <2>1, <3>1, ClearFlagType DEF ObjectsOK
  <2>2. CASE UNCHANGED <<ports, stomped>>
    BY <2>2 DEF ObjectsOK
  <2>3. ASSUME NEW q \in DOMAIN ports,
               ports' = ClearFlag(ports, q),
               stomped' = stomped \cup {q}
        PROVE  /\ DOMAIN ports' \subseteq Nat
               /\ ports' \in [DOMAIN ports' -> Entry]
               /\ stomped' \subseteq DOMAIN ports'
    BY <2>3, ClearFlagType DEF ObjectsOK
  <2> QED BY <2>1, <2>2, <2>3 DEF DestroySerial
<1> QED BY <1>1, <1>2, <1>3 DEF ObjectsOK

LEMMA SettleType ==
  ASSUME ObjectsOK, NEW x \in DOMAIN serial, NEW s \in SerialRec, NEW held,
         NEW rows, RowsOK(rows), Settle(x, s, held, rows)
  PROVE  ObjectsOK'
<1>1. CASE held \/ s.writing \/ s.read # "none"
  BY <1>1 DEF Settle, ObjectsOK, RowsOK
<1>2. CASE ~(held \/ s.writing \/ s.read # "none")
  BY <1>2, DestroySerialType DEF Settle
<1> QED BY <1>1, <1>2

\* m_state never points to a destroyed serial_state, nor to another session's
Owned ==
  \A h \in Handlers :
    mstate[h] # Control =>
      /\ mstate[h] \in DOMAIN serial
      /\ serial[mstate[h]].session = h

LEMMA HandlerOpType ==
  ASSUME TypeOK, Owned, NEW h \in Handlers, NEW phase \in Phases,
         NEW snd \in BOOLEAN, NEW cls \in BOOLEAN,
         HandlerOp(h, phase, snd, cls),
         UNCHANGED <<nextSession, nextPort>>
  PROVE  TypeOK'
<1> DEFINE Kept == phase \in {"accepting", "open"} \/ snd \/ cls
<1>0. ObjectsOK
  BY DEF TypeOK, ObjectsOK, RowsOK
<1>1. CASE Kept
  BY <1>1 DEF HandlerOp, TypeOK
<1>2. CASE ~Kept
  <2>1. DestroyHandler(h)
    BY <1>2 DEF HandlerOp
  <2>2. /\ conn' \in [Handlers -> Phases]
        /\ sending' \in [Handlers -> BOOLEAN]
        /\ closing' \in [Handlers -> BOOLEAN]
        /\ mstate' \in [Handlers -> Serials \cup {Control}]
    BY <2>1 DEF DestroyHandler, TypeOK, Phases
  <2>3. RowsOK(Unregister(sessions, h))
    BY <1>0, DropType DEF ObjectsOK, RowsOK, Unregister
  <2>4. ObjectsOK'
    <3>1. CASE mstate[h] = Control
      BY <1>0, <2>1, <2>3, <3>1 DEF DestroyHandler, ObjectsOK, RowsOK
    <3>2. CASE mstate[h] # Control
      <4>1. mstate[h] \in DOMAIN serial
        BY <3>2 DEF Owned
      <4>2. Cancelled(serial[mstate[h]]) \in SerialRec
        BY <4>1, CancelledType DEF TypeOK
      <4>3. Settle(mstate[h], Cancelled(serial[mstate[h]]), FALSE,
                   Unregister(sessions, h))
        BY <2>1, <3>2 DEF DestroyHandler
      <4> QED BY <1>0, <2>3, <4>1, <4>2, <4>3, SettleType
    <3> QED BY <3>1, <3>2
  <2> QED BY <2>2, <2>4 DEF TypeOK, ObjectsOK, RowsOK
<1> QED BY <1>1, <1>2

\* the table and the objects that refer to it
Numbered ==
  /\ \A p \in DOMAIN ports : p < nextPort
  /\ \A x \in DOMAIN serial : serial[x].port < nextPort

TableInv == Numbered /\ EntryExclusive

\* no serial_state is reached through a session that has not been accepted
Idle ==
  \A h \in Handlers : conn[h] \in {"free", "accepting"} => mstate[h] = Control

Inv == TypeOK /\ Owned /\ Idle /\ TableInv

LEMMA SettleOwned ==
  ASSUME TypeOK, Owned, NEW x \in DOMAIN serial, NEW s \in SerialRec,
         s.session = serial[x].session, NEW held, NEW rows,
         Settle(x, s, held, rows),
         \A h \in Handlers : mstate'[h] \in {mstate[h], Control},
         \A h \in Handlers : mstate'[h] = x => held
  PROVE  Owned'
<1>1. CASE held \/ s.writing \/ s.read # "none"
  BY <1>1 DEF Settle, Owned, TypeOK
<1>2. CASE ~(held \/ s.writing \/ s.read # "none")
  <2>1. serial' = Drop(serial, x)
    BY <1>2 DEF Settle, DestroySerial
  <2> QED BY <1>2, <2>1 DEF Owned, TypeOK, Drop, Restrict
<1> QED BY <1>1, <1>2

LEMMA DestroySerialTable ==
  ASSUME TypeOK, TableInv, NEW x \in DOMAIN serial, NEW rows,
         DestroySerial(x, rows), nextPort' = nextPort
  PROVE  TableInv'
<1> DEFINE p == serial[x].port
<1>0. /\ DOMAIN serial' = DOMAIN serial \ {x}
      /\ \A y \in DOMAIN serial' : serial'[y] = serial[y]
  BY DEF DestroySerial, Drop, Restrict
<1>1. DOMAIN ports' = DOMAIN ports /\ stomped \subseteq stomped'
  BY DEF DestroySerial, TypeOK, ClearFlag
<1>2. Numbered'
  BY <1>0, <1>1 DEF TableInv, Numbered
<1>3. ASSUME NEW q \in Sound'
      PROVE  /\ q \in Sound
             /\ q # p => ports'[q].in_use = ports[q].in_use
             /\ q = p => ports'[q].in_use = FALSE
  <2>1. q \in Sound /\ q \in DOMAIN ports /\ q \notin stomped'
    BY <1>1, <1>3 DEF Sound
  <2>2. CASE p \in DOMAIN ports
    <3>1. ports' = ClearFlag(ports, p)
      BY <2>2 DEF DestroySerial
    <3> QED BY <2>1, <2>2, <3>1 DEF TypeOK, Entry, ClearFlag
  <2>3. CASE UNCHANGED <<ports, stomped>> /\ p \notin DOMAIN ports
    BY <2>1, <2>3
  <2>4. ASSUME p \notin DOMAIN ports, NEW r \in DOMAIN ports,
               ports' = ClearFlag(ports, r),
               stomped' = stomped \cup {r}
        PROVE  /\ q \in Sound
               /\ q # p => ports'[q].in_use = ports[q].in_use
               /\ q = p => ports'[q].in_use = FALSE
    BY <2>1, <2>4 DEF TypeOK, Entry, ClearFlag
  <2> QED BY <2>2, <2>3, <2>4 DEF DestroySerial
<1>4. EntryExclusive'
  <2>1. ASSUME NEW q \in Sound'
        PROVE  ports'[q].in_use <=> \E y \in DOMAIN serial' : serial'[y].port = q
    <3>1. CASE q = p
      <4>1. \A y \in DOMAIN serial' : serial'[y].port # q
        BY <1>0, <1>3, <2>1, <3>1 DEF TableInv, EntryExclusive
      <4> QED BY <1>3, <2>1, <3>1, <4>1
    <3>2. CASE q # p
      <4>1. ports[q].in_use <=> \E y \in DOMAIN serial : serial[y].port = q
        BY <1>3, <2>1 DEF TableInv, EntryExclusive
      <4>2. (\E y \in DOMAIN serial : serial[y].port = q)
              <=> \E y \in DOMAIN serial' : serial'[y].port = q
        BY <1>0, <3>2
      <4>3. ports'[q].in_use = ports[q].in_use
        BY <1>3, <2>1, <3>2
      <4> QED BY <4>1, <4>2, <4>3
    <3> QED BY <3>1, <3>2
  <2>2. ASSUME NEW y \in DOMAIN serial', NEW z \in DOMAIN serial',
               serial'[y].port = serial'[z].port, serial'[y].port \in Sound'
        PROVE  y = z
    <3>1. serial'[y].port \in Sound
      BY <1>3, <2>2
    <3> QED BY <1>0, <2>2, <3>1 DEF TableInv, EntryExclusive
  <2> QED BY <2>1, <2>2 DEF EntryExclusive
<1> QED BY <1>2, <1>4 DEF TableInv

\* a step that moves no reference to the table and writes no flag
LEMMA SameTable ==
  ASSUME TableInv, UNCHANGED <<ports, nextPort, stomped>>,
         DOMAIN serial' = DOMAIN serial,
         \A y \in DOMAIN serial : serial'[y].port = serial[y].port
  PROVE  TableInv'
<1>1. Numbered'
  BY DEF TableInv, Numbered
<1>2. EntryExclusive'
  BY DEF TableInv, EntryExclusive, Sound
<1> QED BY <1>1, <1>2 DEF TableInv

LEMMA SettleTable ==
  ASSUME TypeOK, TableInv, NEW x \in DOMAIN serial, NEW s \in SerialRec,
         s.port = serial[x].port, NEW held, NEW rows,
         Settle(x, s, held, rows), nextPort' = nextPort
  PROVE  TableInv'
<1>1. CASE held \/ s.writing \/ s.read # "none"
  <2>1. serial' = [serial EXCEPT ![x] = s] /\ UNCHANGED <<ports, stomped>>
    BY <1>1 DEF Settle
  <2> QED BY <2>1, SameTable
<1>2. CASE ~(held \/ s.writing \/ s.read # "none")
  BY <1>2, DestroySerialTable DEF Settle
<1> QED BY <1>1, <1>2

LEMMA HandlerOpInv ==
  ASSUME Inv, NEW h \in Handlers,
         NEW phase \in {conn[h], "draining"},
         NEW snd \in BOOLEAN, NEW cls \in BOOLEAN,
         HandlerOp(h, phase, snd, cls),
         UNCHANGED <<nextSession, nextPort>>
  PROVE  Inv'
<1> DEFINE Kept == phase \in {"accepting", "open"} \/ snd \/ cls
<1>0. phase \in Phases
  BY DEF Inv, TypeOK, Phases
<1>1. TypeOK'
  BY <1>0, HandlerOpType DEF Inv
<1>2. CASE Kept
  <2>1. /\ conn' = [conn EXCEPT ![h] = phase]
        /\ UNCHANGED <<mstate, sessions, ports, serial, stomped>>
    BY <1>2 DEF HandlerOp
  <2>2. Owned' /\ TableInv'
    BY <2>1, SameTable DEF Inv, Owned
  <2>3. Idle'
    BY <2>1 DEF Inv, Idle, TypeOK
  <2> QED BY <1>1, <2>2, <2>3 DEF Inv
<1>3. CASE ~Kept
  <2>1. DestroyHandler(h)
    BY <1>3 DEF HandlerOp
  <2>2. mstate' = [mstate EXCEPT ![h] = Control] /\ conn' = [conn EXCEPT ![h] = "free"]
    BY <2>1 DEF DestroyHandler
  <2>3. Idle'
    BY <2>2 DEF Inv, Idle, TypeOK
  <2>4. CASE mstate[h] = Control
    <3>1. UNCHANGED <<ports, serial, stomped, mstate>>
      BY <2>1, <2>2, <2>4 DEF DestroyHandler, Inv, TypeOK
    <3>2. Owned' /\ TableInv'
      BY <3>1, SameTable DEF Inv, Owned
    <3> QED BY <1>1, <2>3, <3>2 DEF Inv
  <2>5. CASE mstate[h] # Control
    <3> DEFINE x == mstate[h]
               s == Cancelled(serial[x])
    <3>1. x \in DOMAIN serial /\ serial[x] \in SerialRec
      BY <2>5 DEF Inv, Owned, TypeOK
    <3>2. s \in SerialRec /\ s.port = serial[x].port /\ s.session = serial[x].session
      BY <3>1, CancelledType
    <3>3. Settle(x, s, FALSE, Unregister(sessions, h))
      BY <2>1, <2>5 DEF DestroyHandler
    <3>4. /\ \A g \in Handlers : mstate'[g] \in {mstate[g], Control}
          /\ \A g \in Handlers : mstate'[g] # x
      BY <2>2, <2>5, <3>1 DEF Inv, Owned, TypeOK
    <3> HIDE DEF x, s
    <3>5. Owned'
      BY <3>1, <3>2, <3>3, <3>4, SettleOwned DEF Inv
    <3>6. TableInv'
      BY <3>1, <3>2, <3>3, SettleTable DEF Inv
    <3> QED BY <1>1, <2>3, <3>5, <3>6 DEF Inv
  <2> QED BY <2>4, <2>5
<1> QED BY <1>2, <1>3

\* an operation of the serial port of x ends, leaving x in the form s
LEMMA SettleInv ==
  ASSUME Inv, NEW x \in DOMAIN serial, NEW s \in SerialRec,
         s.port = serial[x].port, s.session = serial[x].session,
         Settle(x, s, Held(x), sessions),
         UNCHANGED <<handlerVars, nextSession, nextPort>>
  PROVE  Inv'
<1>0. Held(x) \in BOOLEAN /\ RowsOK(sessions) /\ ObjectsOK
  BY DEF Held, Inv, TypeOK, RowsOK, ObjectsOK
<1>1. TypeOK'
  <2>1. ObjectsOK'
    BY <1>0, SettleType
  <2> QED BY <2>1 DEF Inv, TypeOK, ObjectsOK, RowsOK, handlerVars
<1>2. Owned'
  <2>1. \A h \in Handlers : /\ mstate'[h] \in {mstate[h], Control}
                            /\ mstate'[h] = x => Held(x)
    BY DEF Held, handlerVars
  <2> QED BY <2>1, SettleOwned DEF Inv
<1>3. TableInv'
  BY SettleTable DEF Inv
<1>4. Idle'
  BY DEF Inv, Idle, handlerVars
<1> QED BY <1>1, <1>2, <1>3, <1>4 DEF Inv

-----------------------------------------------------------------------------
LEMMA InitInv == Init => Inv
<1> SUFFICES ASSUME Init PROVE Inv
  OBVIOUS
<1>1. PICK devs \in Scans :
        /\ ports = [p \in 0..(Len(devs) - 1) |->
                       [device |-> devs[p + 1], in_use |-> FALSE]]
        /\ nextPort = Len(devs)
  BY DEF Init
<1>2. devs \in Seq(Devices)
  BY ScansAssumption
<1>3. TypeOK
  <2>1. /\ nextPort \in Nat
        /\ DOMAIN ports \subseteq Nat
        /\ ports \in [DOMAIN ports -> Entry]
    BY <1>1, <1>2 DEF Entry
  <2> QED BY <2>1 DEF Init, TypeOK, Phases
<1>4. Owned /\ Idle
  BY DEF Init, Owned, Idle
<1>5. TableInv
  BY <1>1, <1>2 DEF Init, TableInv, Numbered, EntryExclusive, Sound
<1> QED BY <1>3, <1>4, <1>5 DEF Inv

LEMMA UpgradeInv ==
  ASSUME Inv, NEW h \in Handlers, Upgrade(h)
  PROVE  Inv'
<1> USE DEF Inv
<1>1. TypeOK'
  <2>1. [id |-> nextSession, device |-> NoDevice, state |-> ""] \in Row
    BY DEF TypeOK, Row
  <2> DEFINE new == [id |-> nextSession, device |-> NoDevice, state |-> ""]
  <2>2. new \in Row
    BY <2>1
  <2> HIDE DEF new
  <2>3. RowsOK(Put(sessions, h, new))
    BY <2>2, PutType DEF RowsOK, TypeOK
  <2>4. RowsOK(sessions)'
    <3>1. sessions' = Put(sessions, h, new)
      BY DEF Upgrade, new
    <3> QED BY <2>3, <3>1 DEF RowsOK
  <2>5. nextSession' \in Nat /\ conn' \in [Handlers -> Phases]
    <3>1. /\ conn' = [conn EXCEPT ![h] = "accepting"]
          /\ nextSession' = nextSession + 1
      BY DEF Upgrade
    <3> QED BY <3>1 DEF TypeOK, Phases
  <2>6. UNCHANGED <<sending, closing, mstate, ports, nextPort, serial, stomped>>
    BY DEF Upgrade
  <2> QED BY <2>4, <2>5, <2>6 DEF TypeOK, RowsOK
<1>2. Owned' /\ Idle'
  BY DEF Upgrade, Owned, Idle, TypeOK
<1>3. TableInv'
  BY SameTable DEF Upgrade
<1> QED BY <1>1, <1>2, <1>3

LEMMA AcceptOkInv ==
  ASSUME Inv, NEW h \in Handlers, AcceptOk(h)
  PROVE  Inv'
<1> USE DEF Inv
<1>1. TypeOK'
  <2>1. RowsOK(sessions')
    BY SetStateType DEF AcceptOk, RowsOK, TypeOK
  <2> QED BY <2>1 DEF AcceptOk, TypeOK, Phases, RowsOK
<1>2. Owned' /\ Idle'
  BY DEF AcceptOk, Owned, Idle, TypeOK
<1>3. TableInv'
  BY SameTable DEF AcceptOk
<1> QED BY <1>1, <1>2, <1>3

LEMMA ConnectInv ==
  ASSUME Inv, NEW h \in Handlers, NEW p \in DOMAIN ports, NEW x \in Serials,
         Connect(h, p, x)
  PROVE  Inv'
<1> USE DEF Inv
<1> DEFINE new == [session |-> h, port |-> p, device |-> ports[p].device,
                   read |-> "pending", writing |-> FALSE]
<1>0. ports[p] \in Entry /\ p \in Nat /\ p < nextPort
  BY DEF TypeOK, TableInv, Numbered
<1>1. /\ x \notin DOMAIN serial
      /\ DOMAIN serial' = DOMAIN serial \cup {x}
      /\ serial'[x] = new
      /\ \A y \in DOMAIN serial : serial'[y] = serial[y]
  BY DEF Connect, Put
<1>2. TypeOK'
  <2>1. RowsOK(sessions')
    <3>1. RowsOK(SetDevice(sessions, h, ports[p].device))
      BY <1>0, SetDeviceType DEF RowsOK, TypeOK, Entry
    <3> QED BY <3>1, SetStateType DEF Connect
  <2>2. new \in SerialRec
    BY <1>0 DEF SerialRec, Entry
  <2>3. DOMAIN serial' \subseteq Serials /\ serial' \in [DOMAIN serial' -> SerialRec]
    <3>1. serial' = Put(serial, x, new)
      BY DEF Connect
    <3> HIDE DEF new
    <3>2. /\ DOMAIN Put(serial, x, new) \subseteq Serials
          /\ Put(serial, x, new) \in [DOMAIN Put(serial, x, new) -> SerialRec]
      BY <2>2, PutType DEF TypeOK
    <3> QED BY <3>1, <3>2
  <2>4. /\ DOMAIN ports' = DOMAIN ports
        /\ ports' \in [DOMAIN ports' -> Entry]
    BY <1>0 DEF Connect, TypeOK, Entry
  <2> QED BY <2>1, <2>3, <2>4 DEF Connect, Output, TypeOK, RowsOK
<1>3. Owned'
  <2>1. mstate' = [mstate EXCEPT ![h] = x] /\ new.session = h
    BY DEF Connect
  <2>2. /\ mstate'[h] = x
        /\ \A g \in Handlers : g # h => mstate'[g] = mstate[g]
    BY <2>1 DEF TypeOK
  <2> HIDE DEF new
  <2> QED BY <1>1, <2>1, <2>2 DEF Owned
<1>4. Idle'
  BY DEF Connect, InControl, Idle, TypeOK
<1>5. /\ DOMAIN ports' = DOMAIN ports /\ Sound' = Sound
      /\ nextPort' = nextPort
      /\ ports'[p].in_use = TRUE
      /\ \A q \in DOMAIN ports : q # p => ports'[q] = ports[q]
  BY <1>0 DEF Connect, Sound, TypeOK, Entry
<1>6. Numbered'
  BY <1>0, <1>1, <1>5 DEF TableInv, Numbered
<1>7. EntryExclusive'
  <2>1. p \in Sound => \A y \in DOMAIN serial : serial[y].port # p
    BY DEF Connect, Available, TableInv, EntryExclusive
  <2>2. ASSUME NEW q \in Sound'
        PROVE  ports'[q].in_use <=> \E y \in DOMAIN serial' : serial'[y].port = q
    <3>1. CASE q = p
      BY <1>1, <1>5, <3>1
    <3>2. CASE q # p
      <4>1. ports[q].in_use <=> \E y \in DOMAIN serial : serial[y].port = q
        BY <1>5, <2>2 DEF TableInv, EntryExclusive
      <4>2. (\E y \in DOMAIN serial : serial[y].port = q)
              <=> \E y \in DOMAIN serial' : serial'[y].port = q
        BY <1>1, <3>2
      <4>3. ports'[q] = ports[q]
        BY <1>5, <2>2, <3>2 DEF Sound
      <4> QED BY <4>1, <4>2, <4>3
    <3> QED BY <3>1, <3>2
  <2>3. ASSUME NEW y \in DOMAIN serial', NEW z \in DOMAIN serial',
               serial'[y].port = serial'[z].port, serial'[y].port \in Sound'
        PROVE  y = z
    BY <1>1, <1>5, <2>1, <2>3 DEF TableInv, EntryExclusive
  <2> QED BY <2>2, <2>3 DEF EntryExclusive
<1> QED BY <1>2, <1>3, <1>4, <1>6, <1>7 DEF TableInv

LEMMA RefreshInv ==
  ASSUME Inv, NEW h \in Handlers, Refresh(h)
  PROVE  Inv'
<1> USE DEF Inv
<1>1. PICK devs \in Scans \cup {<<>>} :
        /\ ports' = NewPorts(devs)
        /\ nextPort' = nextPort + Len(devs)
  BY DEF Refresh
<1>2. devs \in Seq(Devices) /\ Len(devs) \in Nat
  <2>1. CASE devs \in Scans
    BY <2>1, ScansAssumption
  <2>2. CASE devs = <<>>
    BY <2>2
  <2> QED BY <1>1, <2>1, <2>2
<1>3. /\ DOMAIN ports' = nextPort..(nextPort + Len(devs) - 1)
      /\ ports' \in [DOMAIN ports' -> Entry]
      /\ \A p \in DOMAIN ports' : ports'[p].in_use = FALSE
  BY <1>1, <1>2 DEF NewPorts, Entry, TypeOK
<1>4. TypeOK'
  <2>1. RowsOK(sessions)'
    BY DEF Refresh, Restrict, RowsOK, TypeOK
  <2>2. DOMAIN ports' \subseteq Nat /\ nextPort' \in Nat
    BY <1>1, <1>2, <1>3 DEF TypeOK
  <2>3. /\ UNCHANGED <<conn, closing, mstate, nextSession, serial>>
        /\ sending' = [sending EXCEPT ![h] = TRUE]
        /\ stomped' = {}
    BY DEF Refresh, Output
  <2> QED BY <1>3, <2>1, <2>2, <2>3 DEF TypeOK, RowsOK
<1>5. Owned' /\ Idle'
  BY DEF Refresh, Owned, Idle
<1>6. /\ UNCHANGED serial
      /\ stomped' = {}
      /\ nextPort \in Nat /\ nextPort' \in Nat /\ nextPort <= nextPort'
  BY <1>1, <1>2 DEF Refresh, TypeOK
<1>7. \A x \in DOMAIN serial : serial[x].port \in Nat /\ serial[x].port < nextPort
  BY DEF TypeOK, TableInv, Numbered, SerialRec
<1>8. Numbered'
  BY <1>1, <1>2, <1>3, <1>6, <1>7 DEF Numbered
<1>9. EntryExclusive'
  BY <1>3, <1>6, <1>7 DEF EntryExclusive, Sound
<1> QED BY <1>4, <1>5, <1>8, <1>9 DEF TableInv

LEMMA CtrlQInv ==
  ASSUME Inv, NEW h \in Handlers, CtrlQ(h)
  PROVE  Inv'
<1> USE DEF Inv
<1> DEFINE x == mstate[h]
           s == Cancelled(serial[x])
           rows == SetState(sessions, h, "control")
<1>1. x \in DOMAIN serial /\ serial[x] \in SerialRec
  BY DEF CtrlQ, InSerial, Owned, TypeOK
<1>2. s \in SerialRec /\ s.port = serial[x].port /\ s.session = serial[x].session
  BY <1>1, CancelledType
<1>3. RowsOK(rows) /\ ObjectsOK
  BY SetStateType DEF TypeOK, RowsOK, ObjectsOK
<1>4. Settle(x, s, FALSE, rows) /\ nextPort' = nextPort
  BY DEF CtrlQ
<1>5. /\ \A g \in Handlers : mstate'[g] \in {mstate[g], Control}
      /\ \A g \in Handlers : mstate'[g] # x
  BY <1>1 DEF CtrlQ, InSerial, Owned, TypeOK
<1> HIDE DEF x, s, rows
<1>6. TypeOK'
  <2>1. ObjectsOK'
    BY <1>1, <1>2, <1>3, <1>4, SettleType
  <2> QED BY <2>1 DEF CtrlQ, Output, TypeOK, ObjectsOK, RowsOK
<1>7. Owned'
  BY <1>1, <1>2, <1>4, <1>5, SettleOwned
<1>8. TableInv'
  BY <1>1, <1>2, <1>4, SettleTable
<1>9. Idle'
  BY DEF CtrlQ, Idle, TypeOK
<1> QED BY <1>6, <1>7, <1>8, <1>9

\* steps that move neither objects nor table entries
LEMMA QuietInv ==
  ASSUME Inv, TypeOK',
         UNCHANGED <<conn, mstate, ports, nextPort, stomped>>,
         DOMAIN serial' = DOMAIN serial,
         \A x \in DOMAIN serial : /\ serial'[x].port = serial[x].port
                                  /\ serial'[x].session = serial[x].session
  PROVE  Inv'
<1>1. TableInv'
  BY SameTable DEF Inv
<1>2. Owned' /\ Idle'
  BY DEF Inv, Owned, Idle
<1> QED BY <1>1, <1>2 DEF Inv

-----------------------------------------------------------------------------
LEMMA HandlerStepInv ==
  ASSUME Inv, NEW h \in Handlers, HandlerNext(h)
  PROVE  Inv'
<1> USE DEF Inv
<1>0. conn[h] \in Phases /\ sending[h] \in BOOLEAN /\ closing[h] \in BOOLEAN
  BY DEF TypeOK
<1>1. CASE Upgrade(h)
  BY <1>1, UpgradeInv
<1>2. CASE AcceptOk(h)
  BY <1>2, AcceptOkInv
<1>3. CASE AcceptFails(h)
  BY <1>0, <1>3, HandlerOpInv DEF AcceptFails
<1>4. CASE ReadFails(h)
  BY <1>0, <1>4, HandlerOpInv DEF ReadFails
<1>5. CASE SendDone(h)
  BY <1>0, <1>5, HandlerOpInv DEF SendDone
<1>6. CASE CloseDone(h)
  BY <1>0, <1>6, HandlerOpInv DEF CloseDone
<1>7. CASE OtherCommand(h)
  <2>1. TypeOK'
    BY <1>7 DEF OtherCommand, Output, TypeOK
  <2> QED BY <1>7, <2>1, QuietInv DEF OtherCommand
<1>8. CASE Refresh(h)
  BY <1>8, RefreshInv
<1>9. CASE Type(h)
  <2>1. mstate[h] \in DOMAIN serial
    BY <1>9 DEF Type, InSerial, Owned
  <2>2. serial' = [serial EXCEPT ![mstate[h]].writing = TRUE]
    BY <1>9 DEF Type
  <2>3. TypeOK'
    <3>1. serial' \in [DOMAIN serial -> SerialRec]
      <4>1. PICK y \in DOMAIN serial : y = mstate[h]
        BY <2>1
      <4>2. [serial[y] EXCEPT !.writing = TRUE] \in SerialRec
        BY DEF TypeOK, SerialRec
      <4>3. serial' = [serial EXCEPT ![y] = [serial[y] EXCEPT !.writing = TRUE]]
        BY <2>2, <4>1
      <4> QED BY <4>2, <4>3 DEF TypeOK
    <3> QED BY <1>9, <3>1 DEF Type, TypeOK
  <2> QED BY <1>9, <2>1, <2>2, <2>3, QuietInv DEF Type, TypeOK, SerialRec
<1>10. CASE CtrlQ(h)
  BY <1>10, CtrlQInv
<1>11. ASSUME NEW p \in DOMAIN ports, NEW x \in Serials, Connect(h, p, x)
       PROVE  Inv'
  BY <1>11, ConnectInv
<1>12. ASSUME NEW t \in DOMAIN sessions, Kill(h, t)
       PROVE  Inv'
  <2>1. closing' \in [Handlers -> BOOLEAN]
    BY <1>12 DEF Kill, TypeOK
  <2>2. TypeOK'
    BY <1>12, <2>1 DEF Kill, Output, TypeOK
  <2> QED BY <1>12, <2>2, QuietInv DEF Kill
<1> QED
  BY <1>1, <1>2, <1>3, <1>4, <1>5, <1>6, <1>7, <1>8, <1>9, <1>10, <1>11, <1>12
  DEF HandlerNext

LEMMA SerialStepInv ==
  ASSUME Inv, NEW x \in DOMAIN serial, SerialNext(x)
  PROVE  Inv'
<1> USE DEF Inv
<1>0. serial[x] \in SerialRec /\ serial[x].session \in Handlers
  BY DEF TypeOK, SerialRec
<1>1. CASE DeviceData(x)
  <2>1. TypeOK'
    BY <1>1 DEF DeviceData, handlerVars, TypeOK, SerialRec
  <2> QED BY <1>1, <2>1, QuietInv DEF DeviceData, handlerVars, TypeOK, SerialRec
<1>2. CASE DeviceFails(x)
  <2>1. TypeOK'
    BY <1>2 DEF DeviceFails, handlerVars, TypeOK, SerialRec
  <2> QED BY <1>2, <2>1, QuietInv DEF DeviceFails, handlerVars, TypeOK, SerialRec
<1>3. CASE OnRead(x)
  <2>1. serial' \in [DOMAIN serial -> SerialRec]
    BY <1>3 DEF OnRead, TypeOK, SerialRec
  <2>2. sending' \in [Handlers -> BOOLEAN]
    BY <1>3 DEF OnRead, TypeOK
  <2>3. TypeOK'
    BY <1>3, <2>1, <2>2 DEF OnRead, TypeOK
  <2> QED BY <1>3, <2>3, QuietInv DEF OnRead, TypeOK, SerialRec
<1>4. CASE OnReadFails(x)
  <2>1. [serial[x] EXCEPT !.read = "none"] \in SerialRec
    BY <1>0 DEF SerialRec
  <2> QED BY <1>4, <2>1, SettleInv DEF OnReadFails, SerialRec
<1>5. CASE WriteDone(x)
  <2>1. [serial[x] EXCEPT !.writing = FALSE] \in SerialRec
    BY <1>0 DEF SerialRec
  <2> QED BY <1>5, <2>1, SettleInv DEF WriteDone, SerialRec
<1> QED BY <1>1, <1>2, <1>3, <1>4, <1>5 DEF SerialNext

\* Inv is inductive.
LEMMA Inductive == Inv /\ [Next]_vars => Inv'
<1> SUFFICES ASSUME Inv, [Next]_vars PROVE Inv'
  OBVIOUS
<1>1. CASE \E h \in Handlers : HandlerNext(h)
  BY <1>1, HandlerStepInv
<1>2. CASE \E x \in DOMAIN serial : SerialNext(x)
  BY <1>2, SerialStepInv
<1>3. CASE UNCHANGED vars
  <2>1. TypeOK'
    BY <1>3 DEF vars, Inv, TypeOK
  <2> QED BY <1>3, <2>1, QuietInv DEF vars, Inv
<1> QED BY <1>1, <1>2, <1>3 DEF Next

THEOREM Invariance == Spec => []Inv
<1> QED BY InitInv, Inductive, PTL DEF Spec

\* Every variable keeps its type: in particular m_state always refers to a
\* serial_state that exists, so that no handler step reads a destroyed one.
THEOREM TypeCorrect == Spec => []TypeOK
<1>1. Inv => TypeOK
  BY DEF Inv
<1> QED BY <1>1, Invariance, PTL

\* A port entry is in use exactly while one serial_state that refers to it
\* exists, in every order of connections, Ctrl-Q, kills, disconnections,
\* refreshes and late completions, unless a dangling reference hit it.
THEOREM EntriesExclusive == Spec => []EntryExclusive
<1>1. Inv => EntryExclusive
  BY DEF Inv, TableInv
<1> QED BY <1>1, Invariance, PTL

-----------------------------------------------------------------------------
(* The registry: what it shows is true of the handlers.  Registered is     *)
(* inductive relative to Inv.                                               *)


\* ids are handed out by a counter, so a new row takes one that is not in use
Registered ==
  /\ RegistryLive
  /\ StateShown
  /\ \A h \in DOMAIN sessions : sessions[h].id < nextSession

\* old and new show the same sessions in the same states
SameShown(old, new) ==
  /\ DOMAIN new = DOMAIN old
  /\ \A g \in DOMAIN old : new[g].id = old[g].id /\ new[g].state = old[g].state

LEMMA SetDeviceShown ==
  ASSUME NEW rows, RowsOK(rows), NEW h, NEW dev
  PROVE  SameShown(rows, SetDevice(rows, h, dev))
  BY DEF SameShown, SetDevice, RowsOK, Row

LEMMA SetStateShown ==
  ASSUME NEW rows, RowsOK(rows), NEW h, NEW name
  PROVE  /\ DOMAIN SetState(rows, h, name) = DOMAIN rows
         /\ \A g \in DOMAIN rows :
              /\ SetState(rows, h, name)[g].id = rows[g].id
              /\ g # h => SetState(rows, h, name)[g].state = rows[g].state
              /\ g = h => SetState(rows, h, name)[g].state = name
  BY DEF SetState, RowsOK, Row

LEMMA SettleShown ==
  ASSUME NEW x, NEW s, NEW held, NEW rows, RowsOK(rows),
         Settle(x, s, held, rows)
  PROVE  SameShown(rows, sessions')
<1>1. \/ sessions' = rows
      \/ sessions' = SetDevice(rows, serial[x].session, NoDevice)
  BY DEF Settle, DestroySerial
<1>2. SameShown(rows, rows)
  BY DEF SameShown
<1> QED BY <1>1, <1>2, SetDeviceShown

\* a step that registers nobody
LEMMA NoNewRow ==
  ASSUME Registered, nextSession' = nextSession,
         DOMAIN sessions' \subseteq DOMAIN sessions,
         \A g \in DOMAIN sessions' :
           /\ sessions'[g].id = sessions[g].id
           /\ conn'[g] # "free"
           /\ sessions'[g].state = "serial" <=> mstate'[g] # Control
  PROVE  Registered'
<1>1. RegistryLive'
  BY DEF Registered, RegistryLive
<1>2. StateShown'
  BY DEF StateShown
<1>3. \A h \in DOMAIN sessions' : sessions'[h].id < nextSession'
  BY DEF Registered
<1> QED BY <1>1, <1>2, <1>3 DEF Registered

\* what a step that is not a refresh does to the set of rows
OnlyDestroyed ==
  \A g \in DOMAIN sessions : g \notin DOMAIN sessions' => conn'[g] = "free"

LEMMA HandlerOpRows ==
  ASSUME Inv, Registered, NEW h \in Handlers,
         NEW phase \in {conn[h], "draining"}, NEW snd, NEW cls,
         HandlerOp(h, phase, snd, cls), nextSession' = nextSession
  PROVE  Registered' /\ OnlyDestroyed
<1> DEFINE Kept == phase \in {"accepting", "open"} \/ snd \/ cls
<1>0. DOMAIN sessions \subseteq Handlers /\ RowsOK(sessions)
  BY DEF Inv, TypeOK, RowsOK
<1>1. CASE Kept
  <2>1. /\ conn' = [conn EXCEPT ![h] = phase]
        /\ UNCHANGED <<mstate, sessions>>
    BY <1>1 DEF HandlerOp
  <2>2. \A g \in DOMAIN sessions : conn'[g] # "free"
    BY <1>0, <2>1 DEF Registered, RegistryLive, Inv, TypeOK
  <2> QED BY <2>1, <2>2, NoNewRow DEF Registered, StateShown, OnlyDestroyed
<1>2. CASE ~Kept
  <2>1. DestroyHandler(h)
    BY <1>2 DEF HandlerOp
  <2>2. RowsOK(Unregister(sessions, h))
    BY <1>0, DropType DEF RowsOK, Unregister
  <2>3. SameShown(Unregister(sessions, h), sessions')
    <3>1. CASE mstate[h] = Control
      BY <2>1, <3>1 DEF DestroyHandler, SameShown
    <3>2. CASE mstate[h] # Control
      BY <2>1, <2>2, <3>2, SettleShown DEF DestroyHandler
    <3> QED BY <3>1, <3>2
  <2>4. /\ DOMAIN sessions' = DOMAIN sessions \ {h}
        /\ \A g \in DOMAIN sessions' : /\ sessions'[g].id = sessions[g].id
                                       /\ sessions'[g].state = sessions[g].state
    BY <2>3 DEF SameShown, Unregister, Drop, Restrict
  <2>5. /\ conn' = [conn EXCEPT ![h] = "free"]
        /\ mstate' = [mstate EXCEPT ![h] = Control]
    BY <2>1 DEF DestroyHandler
  <2>6. \A g \in DOMAIN sessions' : conn'[g] # "free" /\ mstate'[g] = mstate[g]
    BY <1>0, <2>4, <2>5 DEF Registered, RegistryLive, Inv, TypeOK
  <2>7. Registered'
    BY <2>4, <2>6, NoNewRow DEF Registered, StateShown
  <2>8. OnlyDestroyed
    BY <1>0, <2>4, <2>5 DEF OnlyDestroyed, Inv, TypeOK
  <2> QED BY <2>7, <2>8
<1> QED BY <1>1, <1>2

\* a completion of a serial_state
LEMMA SettleRegistered ==
  ASSUME Inv, Registered, NEW x, NEW s, NEW held,
         Settle(x, s, held, sessions),
         UNCHANGED <<conn, mstate, nextSession>>
  PROVE  Registered' /\ OnlyDestroyed
<1>1. SameShown(sessions, sessions')
  <2>1. RowsOK(sessions)
    BY DEF Inv, TypeOK, RowsOK
  <2> QED BY <2>1, SettleShown
<1>2. Registered'
  BY <1>1, NoNewRow DEF SameShown, Registered, RegistryLive, StateShown
<1> QED BY <1>1, <1>2 DEF SameShown, OnlyDestroyed

LEMMA UpgradeRows ==
  ASSUME Inv, Registered, NEW h \in Handlers, Upgrade(h)
  PROVE  Registered' /\ OnlyDestroyed
<1> DEFINE new == [id |-> nextSession, device |-> NoDevice, state |-> ""]
<1>0. new.id = nextSession /\ new.state = ""
  OBVIOUS
<1>1. /\ DOMAIN sessions' = DOMAIN sessions \cup {h}
      /\ sessions'[h] = new
      /\ \A g \in DOMAIN sessions : g # h => sessions'[g] = sessions[g]
  BY DEF Upgrade, Put
<1>2. /\ conn' = [conn EXCEPT ![h] = "accepting"]
      /\ nextSession' = nextSession + 1 /\ mstate' = mstate
      /\ nextSession \in Nat /\ conn[h] = "free"
  BY DEF Upgrade, Inv, TypeOK
<1> HIDE DEF new
<1>3. \A g \in DOMAIN sessions : /\ g # h /\ g \in Handlers
                                 /\ sessions[g].id \in Nat
                                 /\ sessions[g].id < nextSession
  BY <1>2 DEF Registered, RegistryLive, Inv, TypeOK, Row
<1>4. /\ sessions'[h].id = nextSession
      /\ \A g \in DOMAIN sessions' :
           g # h => g \in DOMAIN sessions /\ sessions'[g].id = sessions[g].id
  BY <1>0, <1>1
<1>5. RegistryLive'
  <2>1. \A g \in DOMAIN sessions' : conn'[g] # "free"
    BY <1>1, <1>2, <1>3 DEF Registered, RegistryLive, Inv, TypeOK
  <2>2. \A f, g \in DOMAIN sessions' :
          sessions'[f].id = sessions'[g].id => f = g
    BY <1>2, <1>3, <1>4 DEF Registered, RegistryLive
  <2> QED BY <2>1, <2>2 DEF RegistryLive
<1>6. StateShown'
  <2>1. mstate[h] = Control
    BY <1>2 DEF Inv, Idle
  <2> QED BY <1>0, <1>1, <1>2, <1>3, <2>1 DEF Registered, StateShown
<1>7. \A g \in DOMAIN sessions' : sessions'[g].id < nextSession'
  <2>1. ASSUME NEW g \in DOMAIN sessions', g # h
        PROVE  sessions'[g].id < nextSession'
    BY <1>2, <1>3, <1>4, <2>1
  <2>2. sessions'[h].id < nextSession'
    BY <1>2, <1>4
  <2> QED BY <2>1, <2>2
<1>8. OnlyDestroyed
  BY <1>1 DEF OnlyDestroyed
<1> QED BY <1>5, <1>6, <1>7, <1>8 DEF Registered

LEMMA AcceptOkRows ==
  ASSUME Inv, Registered, NEW h \in Handlers, AcceptOk(h)
  PROVE  Registered' /\ OnlyDestroyed
<1>1. RowsOK(sessions) /\ sessions' = SetState(sessions, h, "control")
  BY DEF AcceptOk, Inv, TypeOK, RowsOK
<1>2. /\ DOMAIN sessions' = DOMAIN sessions
      /\ \A g \in DOMAIN sessions :
           /\ sessions'[g].id = sessions[g].id
           /\ g # h => sessions'[g].state = sessions[g].state
           /\ g = h => sessions'[g].state = "control"
  BY <1>1, SetStateShown
<1>3. /\ mstate[h] = Control /\ mstate' = mstate /\ nextSession' = nextSession
      /\ conn' = [conn EXCEPT ![h] = "open"]
  BY DEF AcceptOk, Inv, Idle
<1>4. \A g \in DOMAIN sessions : conn'[g] # "free"
  BY <1>3 DEF Registered, RegistryLive, Inv, TypeOK
<1>5. Registered'
  BY <1>2, <1>3, <1>4, NoNewRow DEF Registered, StateShown
<1> QED BY <1>2, <1>5 DEF OnlyDestroyed

LEMMA ConnectRows ==
  ASSUME Inv, Registered, NEW h \in Handlers, NEW p \in DOMAIN ports,
         NEW x \in Serials, Connect(h, p, x)
  PROVE  Registered' /\ OnlyDestroyed
<1> DEFINE rows == SetDevice(sessions, h, ports[p].device)
<1>1. RowsOK(rows) /\ SameShown(sessions, rows)
  <2>1. ports[p].device \in Devices /\ RowsOK(sessions)
    BY DEF Inv, TypeOK, Entry, RowsOK
  <2> QED BY <2>1, SetDeviceType, SetDeviceShown
<1>2. sessions' = SetState(rows, h, "serial")
  BY DEF Connect
<1> HIDE DEF rows
<1>3. /\ DOMAIN sessions' = DOMAIN sessions
      /\ \A g \in DOMAIN sessions :
           /\ sessions'[g].id = sessions[g].id
           /\ g # h => sessions'[g].state = sessions[g].state
           /\ g = h => sessions'[g].state = "serial"
  BY <1>1, <1>2, SetStateShown DEF SameShown
<1>4. /\ mstate' = [mstate EXCEPT ![h] = x] /\ x # Control
      /\ conn' = conn /\ nextSession' = nextSession
  BY ControlAssumption DEF Connect
<1>5. \A g \in DOMAIN sessions :
        /\ conn'[g] # "free"
        /\ sessions'[g].state = "serial" <=> mstate'[g] # Control
  BY <1>3, <1>4 DEF Registered, RegistryLive, StateShown, Inv, TypeOK
<1>6. Registered'
  BY <1>3, <1>4, <1>5, NoNewRow
<1> QED BY <1>3, <1>6 DEF OnlyDestroyed

LEMMA CtrlQRows ==
  ASSUME Inv, Registered, NEW h \in Handlers, CtrlQ(h)
  PROVE  Registered' /\ OnlyDestroyed
<1> DEFINE rows == SetState(sessions, h, "control")
<1>1. /\ RowsOK(rows)
      /\ DOMAIN rows = DOMAIN sessions
      /\ \A g \in DOMAIN sessions :
           /\ rows[g].id = sessions[g].id
           /\ g # h => rows[g].state = sessions[g].state
           /\ g = h => rows[g].state = "control"
  <2>1. RowsOK(sessions)
    BY DEF Inv, TypeOK, RowsOK
  <2>2. RowsOK(rows)
    BY <2>1, SetStateType
  <2> QED BY <2>1, <2>2, SetStateShown
<1>2. Settle(mstate[h], Cancelled(serial[mstate[h]]), FALSE, rows)
  BY DEF CtrlQ
<1> HIDE DEF rows
<1>3. SameShown(rows, sessions')
  BY <1>1, <1>2, SettleShown
<1>4. /\ mstate' = [mstate EXCEPT ![h] = Control]
      /\ conn' = conn /\ nextSession' = nextSession
  BY DEF CtrlQ
<1>5. /\ DOMAIN sessions' = DOMAIN sessions
      /\ \A g \in DOMAIN sessions :
           /\ sessions'[g].id = sessions[g].id
           /\ conn'[g] # "free"
           /\ sessions'[g].state = "serial" <=> mstate'[g] # Control
  BY <1>1, <1>3, <1>4
  DEF SameShown, Registered, RegistryLive, StateShown, Inv, TypeOK
<1>6. Registered'
  BY <1>4, <1>5, NoNewRow
<1> QED BY <1>5, <1>6 DEF OnlyDestroyed

\* refresh erases the rows that StateShown says are of serial sessions, and
\* numbers the new entries beyond all the old ones
LEMMA RefreshRows ==
  ASSUME Inv, Registered, NEW h \in Handlers, Refresh(h)
  PROVE  /\ Registered'
         /\ \A g \in DOMAIN sessions :
              g \notin DOMAIN sessions' =>
                mstate[g] # Control /\ DOMAIN ports \cap DOMAIN ports' = {}
<1>1. /\ sessions' = Restrict(sessions, DOMAIN sessions \ SerialRows)
      /\ UNCHANGED <<conn, mstate, nextSession>>
  BY DEF Refresh
<1>2. /\ DOMAIN sessions' = DOMAIN sessions \ SerialRows
      /\ \A g \in DOMAIN sessions' : sessions'[g] = sessions[g]
  BY <1>1 DEF Restrict
<1>3. Registered'
  BY <1>1, <1>2, NoNewRow DEF Registered, RegistryLive, StateShown
<1>4. \A g \in DOMAIN sessions : g \notin DOMAIN sessions' => mstate[g] # Control
  BY <1>2 DEF SerialRows, Registered, StateShown
<1>5. DOMAIN ports \cap DOMAIN ports' = {}
  <2>1. PICK devs \in Scans \cup {<<>>} : ports' = NewPorts(devs)
    BY DEF Refresh
  <2>2. Len(devs) \in Nat
    BY ScansAssumption
  <2>3. \A q \in DOMAIN ports' : q \in Nat /\ q >= nextPort
    BY <2>1, <2>2 DEF NewPorts, Inv, TypeOK
  <2>4. \A q \in DOMAIN ports : q \in Nat /\ q < nextPort /\ nextPort \in Nat
    BY DEF Inv, TypeOK, TableInv, Numbered
  <2> QED BY <2>3, <2>4
<1> QED BY <1>3, <1>4, <1>5

\* a step that leaves the registry and the states alone
LEMMA SameRegistry ==
  ASSUME Registered, UNCHANGED <<conn, mstate, sessions, nextSession>>
  PROVE  Registered' /\ OnlyDestroyed
<1>1. Registered'
  BY NoNewRow DEF Registered, RegistryLive, StateShown
<1> QED BY <1>1 DEF OnlyDestroyed

-----------------------------------------------------------------------------
\* what RowLostOnlyByRefresh says of one step
RowsKept ==
  \A h \in DOMAIN sessions :
    h \notin DOMAIN sessions' /\ conn'[h] # "free" =>
      /\ mstate[h] # Control
      /\ DOMAIN ports \cap DOMAIN ports' = {}

LEMMA HandlerRows ==
  ASSUME Inv, Registered, NEW h \in Handlers, HandlerNext(h)
  PROVE  Registered' /\ RowsKept
<1>0. OnlyDestroyed => RowsKept
  BY DEF OnlyDestroyed, RowsKept
<1>1. CASE Upgrade(h)
  BY <1>0, <1>1, UpgradeRows
<1>2. CASE AcceptOk(h)
  BY <1>0, <1>2, AcceptOkRows
<1>3. CASE AcceptFails(h)
  BY <1>0, <1>3, HandlerOpRows DEF AcceptFails
<1>4. CASE ReadFails(h)
  BY <1>0, <1>4, HandlerOpRows DEF ReadFails
<1>5. CASE SendDone(h)
  BY <1>0, <1>5, HandlerOpRows DEF SendDone
<1>6. CASE CloseDone(h)
  BY <1>0, <1>6, HandlerOpRows DEF CloseDone
<1>7. CASE OtherCommand(h)
  BY <1>0, <1>7, SameRegistry DEF OtherCommand
<1>8. CASE Refresh(h)
  BY <1>8, RefreshRows DEF RowsKept
<1>9. CASE Type(h)
  BY <1>0, <1>9, SameRegistry DEF Type
<1>10. CASE CtrlQ(h)
  BY <1>0, <1>10, CtrlQRows
<1>11. ASSUME NEW p \in DOMAIN ports, NEW x \in Serials, Connect(h, p, x)
       PROVE  Registered' /\ RowsKept
  BY <1>0, <1>11, ConnectRows
<1>12. ASSUME NEW t \in DOMAIN sessions, Kill(h, t)
       PROVE  Registered' /\ RowsKept
  BY <1>0, <1>12, SameRegistry DEF Kill
<1> QED
  BY <1>1, <1>2, <1>3, <1>4, <1>5, <1>6, <1>7, <1>8, <1>9, <1>10, <1>11, <1>12
  DEF HandlerNext

LEMMA CompletionRows ==
  ASSUME Inv, Registered, NEW x \in DOMAIN serial, SerialNext(x)
  PROVE  Registered' /\ RowsKept
<1>0. OnlyDestroyed => RowsKept
  BY DEF OnlyDestroyed, RowsKept
<1>1. CASE DeviceData(x) \/ DeviceFails(x) \/ OnRead(x)
  BY <1>0, <1>1, SameRegistry DEF DeviceData, DeviceFails, OnRead, handlerVars
<1>2. CASE OnReadFails(x)
  BY <1>0, <1>2, SettleRegistered DEF OnReadFails, handlerVars
<1>3. CASE WriteDone(x)
  BY <1>0, <1>3, SettleRegistered DEF WriteDone, handlerVars
<1> QED BY <1>1, <1>2, <1>3 DEF SerialNext

LEMMA StepRows == Inv /\ Registered /\ [Next]_vars => Registered' /\ RowsKept
<1> SUFFICES ASSUME Inv, Registered, [Next]_vars PROVE Registered' /\ RowsKept
  OBVIOUS
<1>1. CASE \E h \in Handlers : HandlerNext(h)
  BY <1>1, HandlerRows
<1>2. CASE \E x \in DOMAIN serial : SerialNext(x)
  BY <1>2, CompletionRows
<1>3. CASE UNCHANGED vars
  <2>1. Registered' /\ OnlyDestroyed
    BY <1>3, SameRegistry DEF vars
  <2> QED BY <2>1 DEF OnlyDestroyed, RowsKept
<1> QED BY <1>1, <1>2, <1>3 DEF Next

LEMMA InitRegistered == Init => Registered
  BY DEF Init, Registered, RegistryLive, StateShown

LEMMA RegisteredInvariance == Spec => []Registered
<1>1. Inv /\ Registered /\ [Next]_vars => Registered'
  BY StepRows
<1> QED BY <1>1, InitRegistered, Invariance, PTL DEF Spec

\* Every row belongs to a handler that has not been destroyed, so that session
\* kill never calls through a dangling key, and an id names one session.
THEOREM RowsAreLive == Spec => []RegistryLive
<1>1. Registered => RegistryLive
  BY DEF Registered
<1> QED BY <1>1, RegisteredInvariance, PTL

\* The state string that refresh and session list read is "serial" exactly
\* while m_state is a serial_state.
THEOREM RowsShowState == Spec => []StateShown
<1>1. Registered => StateShown
  BY DEF Registered
<1> QED BY <1>1, RegisteredInvariance, PTL

\* A session that goes on loses its row only to a refresh that replaces the
\* table, and only while it is in the serial state.
THEOREM RowsLostByRefresh == Spec => RowLostOnlyByRefresh
<1>1. Inv /\ Registered /\ [Next]_vars => [RowsKept]_vars
  BY StepRows
<1>2. [RowsKept]_vars =>
        [\A h \in DOMAIN sessions :
           h \notin DOMAIN sessions' /\ conn'[h] # "free" =>
             /\ mstate[h] # Control
             /\ DOMAIN ports \cap DOMAIN ports' = {}]_vars
  BY DEF RowsKept
<1> QED BY <1>1, <1>2, Invariance, RegisteredInvariance, PTL
  DEF Spec, RowLostOnlyByRefresh

-----------------------------------------------------------------------------
(* The devices shown.  DeviceShownIsHeld is inductive relative to Inv: a row *)
(* loses its witness only to ~serial_state, which looks up the session of   *)
(* the object that it destroys and clears whatever device that row shows.   *)

\* the rows, with these objects as witnesses
Backed(rows, objects) ==
  \A g \in DOMAIN rows :
    rows[g].device # NoDevice =>
      \E y \in DOMAIN objects : /\ objects[y].session = g
                                /\ objects[y].device = rows[g].device

LEMMA BackedIsHeld == Backed(sessions, serial) <=> DeviceShownIsHeld
  BY DEF Backed, DeviceShownIsHeld

\* fewer rows, or rows that show less
LEMMA BackedFewer ==
  ASSUME NEW old, NEW new, NEW objects, Backed(old, objects),
         DOMAIN new \subseteq DOMAIN old,
         \A g \in DOMAIN new : new[g].device \in {old[g].device, NoDevice}
  PROVE  Backed(new, objects)
  BY DEF Backed

\* objects that keep their session and device
LEMMA BackedSame ==
  ASSUME NEW rows, NEW old, NEW new, Backed(rows, old), DOMAIN old \subseteq DOMAIN new,
         \A y \in DOMAIN old : new[y].session = old[y].session /\ new[y].device = old[y].device
  PROVE  Backed(rows, new)
  BY DEF Backed

LEMMA SetStateDevices ==
  ASSUME NEW rows, RowsOK(rows), NEW h, NEW name
  PROVE  \A g \in DOMAIN rows : SetState(rows, h, name)[g].device = rows[g].device
  BY DEF SetState, RowsOK, Row

LEMMA SetDeviceDevices ==
  ASSUME NEW rows, RowsOK(rows), NEW h, NEW dev
  PROVE  /\ DOMAIN SetDevice(rows, h, dev) = DOMAIN rows
         /\ \A g \in DOMAIN rows :
              SetDevice(rows, h, dev)[g].device = IF g = h THEN dev ELSE rows[g].device
  BY DEF SetDevice, RowsOK, Row

LEMMA SettleBacked ==
  ASSUME TypeOK, NEW x \in DOMAIN serial, NEW s \in SerialRec, NEW held, NEW rows,
         s.session = serial[x].session, s.device = serial[x].device,
         RowsOK(rows), Backed(rows, serial), Settle(x, s, held, rows)
  PROVE  Backed(sessions', serial')
<1>1. CASE held \/ s.writing \/ s.read # "none"
  <2>1. serial' = [serial EXCEPT ![x] = s] /\ sessions' = rows
    BY <1>1 DEF Settle
  <2>2. /\ DOMAIN serial' = DOMAIN serial
        /\ \A y \in DOMAIN serial : /\ serial'[y].session = serial[y].session
                                    /\ serial'[y].device = serial[y].device
    BY <2>1 DEF TypeOK
  <2> QED BY <2>1, <2>2, BackedSame
<1>2. CASE ~(held \/ s.writing \/ s.read # "none")
  <2>1. /\ DOMAIN serial' = DOMAIN serial \ {x}
        /\ \A y \in DOMAIN serial' : serial'[y] = serial[y]
        /\ sessions' = SetDevice(rows, serial[x].session, NoDevice)
    BY <1>2 DEF Settle, DestroySerial, Drop, Restrict
  <2>2. /\ DOMAIN sessions' = DOMAIN rows
        /\ \A g \in DOMAIN rows :
             sessions'[g].device = IF g = serial[x].session THEN NoDevice ELSE rows[g].device
    BY <2>1, SetDeviceDevices
  <2>3. ASSUME NEW g \in DOMAIN rows, sessions'[g].device # NoDevice
        PROVE  \E y \in DOMAIN serial' : /\ serial'[y].session = g
                                         /\ serial'[y].device = sessions'[g].device
    <3>1. g # serial[x].session /\ sessions'[g].device = rows[g].device
      BY <2>2, <2>3
    <3>2. PICK y \in DOMAIN serial : serial[y].session = g /\ serial[y].device = rows[g].device
      BY <2>3, <3>1 DEF Backed
    <3> QED BY <2>1, <3>1, <3>2
  <2> QED BY <2>2, <2>3 DEF Backed
<1> QED BY <1>1, <1>2

LEMMA HandlerOpBacked ==
  ASSUME Inv, Backed(sessions, serial), NEW h \in Handlers, NEW phase, NEW snd, NEW cls,
         HandlerOp(h, phase, snd, cls)
  PROVE  Backed(sessions', serial')
<1>1. CASE phase \in {"accepting", "open"} \/ snd \/ cls
  BY <1>1 DEF HandlerOp
<1>2. CASE ~(phase \in {"accepting", "open"} \/ snd \/ cls)
  <2> DEFINE rows == Unregister(sessions, h)
  <2>1. DestroyHandler(h)
    BY <1>2 DEF HandlerOp
  <2>2. RowsOK(rows) /\ Backed(rows, serial)
    <3>1. RowsOK(sessions)
      BY DEF Inv, TypeOK, RowsOK
    <3>2. RowsOK(rows)
      BY <3>1, DropType DEF RowsOK, Unregister
    <3>3. DOMAIN rows \subseteq DOMAIN sessions /\ \A g \in DOMAIN rows : rows[g] = sessions[g]
      BY DEF Unregister, Drop, Restrict
    <3> QED BY <3>2, <3>3, BackedFewer
  <2> HIDE DEF rows
  <2>3. CASE mstate[h] = Control
    BY <2>1, <2>2, <2>3 DEF DestroyHandler, rows
  <2>4. CASE mstate[h] # Control
    <3>1. mstate[h] \in DOMAIN serial /\ serial[mstate[h]] \in SerialRec
      BY <2>4 DEF Inv, Owned, TypeOK
    <3>2. Settle(mstate[h], Cancelled(serial[mstate[h]]), FALSE, rows)
      BY <2>1, <2>4 DEF DestroyHandler, rows
    <3> QED BY <2>2, <3>1, <3>2, CancelledType, SettleBacked DEF Inv
  <2> QED BY <2>3, <2>4
<1> QED BY <1>1, <1>2

LEMMA ConnectBacked ==
  ASSUME Inv, Backed(sessions, serial), NEW h \in Handlers, NEW p \in DOMAIN ports,
         NEW x \in Serials, Connect(h, p, x)
  PROVE  Backed(sessions', serial')
<1> DEFINE dev == ports[p].device
           rows == SetDevice(sessions, h, dev)
<1>1. RowsOK(sessions) /\ dev \in Devices
  BY DEF Inv, TypeOK, Entry, RowsOK
<1>2. RowsOK(rows)
  BY <1>1, SetDeviceType
<1>3. /\ DOMAIN rows = DOMAIN sessions
      /\ \A g \in DOMAIN sessions : rows[g].device = IF g = h THEN dev ELSE sessions[g].device
  BY <1>1, SetDeviceDevices
<1>4. sessions' = SetState(rows, h, "serial")
  BY DEF Connect
<1>5. /\ DOMAIN serial' = DOMAIN serial \union {x}
      /\ \A y \in DOMAIN serial : serial'[y] = serial[y]
      /\ serial'[x].session = h /\ serial'[x].device = dev
  BY DEF Connect, Put
<1> HIDE DEF dev, rows
<1>6. /\ DOMAIN sessions' = DOMAIN rows
      /\ \A g \in DOMAIN rows : sessions'[g].device = rows[g].device
  BY <1>2, <1>4, SetStateShown, SetStateDevices
<1>7. ASSUME NEW g \in DOMAIN sessions', sessions'[g].device # NoDevice
      PROVE  \E y \in DOMAIN serial' : /\ serial'[y].session = g
                                       /\ serial'[y].device = sessions'[g].device
  <2>1. CASE g = h
    BY <1>3, <1>5, <1>6, <2>1
  <2>2. CASE g # h
    <3>1. PICK y \in DOMAIN serial : /\ serial[y].session = g
                                     /\ serial[y].device = sessions[g].device
      BY <1>3, <1>6, <1>7, <2>2 DEF Backed
    <3> QED BY <1>3, <1>5, <1>6, <2>2, <3>1
  <2> QED BY <2>1, <2>2
<1> QED BY <1>7 DEF Backed

LEMMA HandlerBacked ==
  ASSUME Inv, Backed(sessions, serial), NEW h \in Handlers, HandlerNext(h)
  PROVE  Backed(sessions', serial')
<1>0. RowsOK(sessions)
  BY DEF Inv, TypeOK, RowsOK
<1>1. CASE Upgrade(h)
  <2>1. /\ DOMAIN sessions' = DOMAIN sessions \union {h}
        /\ sessions'[h].device = NoDevice
        /\ \A g \in DOMAIN sessions : g # h => sessions'[g] = sessions[g]
        /\ serial' = serial
    BY <1>1 DEF Upgrade, Put
  <2> QED BY <2>1 DEF Backed
<1>2. CASE AcceptOk(h)
  <2>1. sessions' = SetState(sessions, h, "control") /\ serial' = serial
    BY <1>2 DEF AcceptOk
  <2> QED BY <1>0, <2>1, SetStateShown, SetStateDevices, BackedFewer
<1>3. CASE AcceptFails(h) \/ ReadFails(h) \/ SendDone(h) \/ CloseDone(h)
  BY <1>3, HandlerOpBacked DEF AcceptFails, ReadFails, SendDone, CloseDone
<1>4. CASE OtherCommand(h)
  BY <1>4 DEF OtherCommand
<1>5. CASE Refresh(h)
  <2>1. /\ DOMAIN sessions' \subseteq DOMAIN sessions
        /\ \A g \in DOMAIN sessions' : sessions'[g] = sessions[g]
        /\ serial' = serial
    BY <1>5 DEF Refresh, Restrict
  <2> QED BY <2>1, BackedFewer
<1>6. CASE Type(h)
  <2>1. /\ sessions' = sessions /\ DOMAIN serial' = DOMAIN serial
        /\ \A y \in DOMAIN serial : /\ serial'[y].session = serial[y].session
                                    /\ serial'[y].device = serial[y].device
    BY <1>6 DEF Type, Inv, TypeOK, SerialRec
  <2> QED BY <2>1, BackedSame
<1>7. CASE CtrlQ(h)
  <2> DEFINE rows == SetState(sessions, h, "control")
  <2>1. RowsOK(rows) /\ Backed(rows, serial)
    <3>1. RowsOK(rows)
      BY <1>0, SetStateType
    <3>2. /\ DOMAIN rows = DOMAIN sessions
          /\ \A g \in DOMAIN sessions : rows[g].device = sessions[g].device
      BY <1>0, SetStateShown, SetStateDevices
    <3> HIDE DEF rows
    <3> QED BY <3>1, <3>2, BackedFewer
  <2>2. Settle(mstate[h], Cancelled(serial[mstate[h]]), FALSE, rows)
    BY <1>7 DEF CtrlQ
  <2>3. mstate[h] \in DOMAIN serial /\ serial[mstate[h]] \in SerialRec
    BY <1>7 DEF CtrlQ, InSerial, Inv, Owned, TypeOK
  <2> HIDE DEF rows
  <2> QED BY <2>1, <2>2, <2>3, CancelledType, SettleBacked DEF Inv
<1>8. ASSUME NEW p \in DOMAIN ports, NEW x \in Serials, Connect(h, p, x)
      PROVE  Backed(sessions', serial')
  BY <1>8, ConnectBacked
<1>9. CASE \E t \in DOMAIN sessions : Kill(h, t)
  BY <1>9 DEF Kill
<1> QED BY <1>1, <1>2, <1>3, <1>4, <1>5, <1>6, <1>7, <1>8, <1>9 DEF HandlerNext

LEMMA CompletionBacked ==
  ASSUME Inv, Backed(sessions, serial), NEW x \in DOMAIN serial, SerialNext(x)
  PROVE  Backed(sessions', serial')
<1>0. serial[x] \in SerialRec /\ RowsOK(sessions) /\ TypeOK
  BY DEF Inv, TypeOK, RowsOK
<1>1. CASE DeviceData(x) \/ DeviceFails(x) \/ OnRead(x)
  <2>1. PICK r : serial' = [serial EXCEPT ![x] = [serial[x] EXCEPT !.read = r]]
    BY <1>1 DEF DeviceData, DeviceFails, OnRead
  <2>2. /\ sessions' = sessions /\ DOMAIN serial' = DOMAIN serial
        /\ \A y \in DOMAIN serial : /\ serial'[y].session = serial[y].session
                                    /\ serial'[y].device = serial[y].device
    BY <1>0, <1>1, <2>1 DEF DeviceData, DeviceFails, OnRead, SerialRec, TypeOK
  <2> QED BY <2>2, BackedSame
<1>2. CASE OnReadFails(x)
  <2> DEFINE s == [serial[x] EXCEPT !.read = "none"]
  <2>1. s \in SerialRec /\ s.session = serial[x].session /\ s.device = serial[x].device
    BY <1>0 DEF SerialRec
  <2>2. Settle(x, s, Held(x), sessions)
    BY <1>2 DEF OnReadFails
  <2> HIDE DEF s
  <2> QED BY <1>0, <2>1, <2>2, SettleBacked
<1>3. CASE WriteDone(x)
  <2> DEFINE s == [serial[x] EXCEPT !.writing = FALSE]
  <2>1. s \in SerialRec /\ s.session = serial[x].session /\ s.device = serial[x].device
    BY <1>0 DEF SerialRec
  <2>2. Settle(x, s, Held(x), sessions)
    BY <1>3 DEF WriteDone
  <2> HIDE DEF s
  <2> QED BY <1>0, <2>1, <2>2, SettleBacked
<1> QED BY <1>1, <1>2, <1>3 DEF SerialNext

\* A device that the session list shows is held by a serial_state that a session at
\* this address opened, in every order of late destructions, reused addresses,
\* refreshes and reconnections.
THEOREM ShownDevicesAreHeld == Spec => []DeviceShownIsHeld
<1>1. Init => DeviceShownIsHeld
  BY DEF Init, DeviceShownIsHeld
<1>2. ASSUME Inv, DeviceShownIsHeld, [Next]_vars PROVE DeviceShownIsHeld'
  <2>1. Backed(sessions, serial)
    BY <1>2, BackedIsHeld
  <2>2. Backed(sessions', serial')
    <3>1. CASE \E h \in Handlers : HandlerNext(h)
      BY <1>2, <2>1, <3>1, HandlerBacked
    <3>2. CASE \E x \in DOMAIN serial : SerialNext(x)
      BY <1>2, <2>1, <3>2, CompletionBacked
    <3>3. CASE UNCHANGED vars
      BY <2>1, <3>3 DEF vars
    <3> QED BY <1>2, <3>1, <3>2, <3>3 DEF Next
  <2> QED BY <2>2 DEF Backed, DeviceShownIsHeld
<1>3. Inv /\ DeviceShownIsHeld /\ [Next]_vars => DeviceShownIsHeld'
  BY <1>2
<1> QED BY <1>1, <1>3, Invariance, PTL DEF Spec

-----------------------------------------------------------------------------
(* The lease: the table of ports and the serial_states implement PortLease. *)
(* EntryExclusive makes the holder of an entry unique.                      *)


\* Holder and EntryExclusive, of any table tab, objects ser and entries S
HolderIn(tab, ser, p) ==
  IF tab[p].in_use
  THEN CHOOSE x \in DOMAIN ser : ser[x].port = p
  ELSE Control

Exclusive(tab, ser, S) ==
  /\ \A p \in S : tab[p].in_use <=> \E x \in DOMAIN ser : ser[x].port = p
  /\ \A x, y \in DOMAIN ser :
       ser[x].port = ser[y].port /\ ser[x].port \in S => x = y

LEMMA HeldBy ==
  ASSUME NEW tab, NEW ser, NEW S, Exclusive(tab, ser, S),
         NEW p \in S, NEW x \in DOMAIN ser, ser[x].port = p
  PROVE  HolderIn(tab, ser, p) = x
<1>1. tab[p].in_use
  BY DEF Exclusive
<1>2. \A y \in DOMAIN ser : ser[y].port = p => y = x
  BY DEF Exclusive
<1> QED BY <1>1, <1>2 DEF HolderIn

LEMMA HeldByNone ==
  ASSUME NEW tab, NEW ser, NEW S, Exclusive(tab, ser, S), NEW p \in S,
         \A x \in DOMAIN ser : ser[x].port # p
  PROVE  HolderIn(tab, ser, p) = Control
  BY DEF Exclusive, HolderIn

LEMMA SameHolder ==
  ASSUME NEW tab, NEW ser, NEW S, Exclusive(tab, ser, S),
         NEW tab2, NEW ser2, NEW S2, Exclusive(tab2, ser2, S2),
         NEW p \in S, p \in S2,
         \A x \in DOMAIN ser :
           ser[x].port = p => x \in DOMAIN ser2 /\ ser2[x].port = p,
         \A x \in DOMAIN ser2 :
           ser2[x].port = p => x \in DOMAIN ser /\ ser[x].port = p
  PROVE  HolderIn(tab2, ser2, p) = HolderIn(tab, ser, p)
<1>1. CASE \E x \in DOMAIN ser : ser[x].port = p
  <2>1. PICK x \in DOMAIN ser : ser[x].port = p
    BY <1>1
  <2>2. HolderIn(tab, ser, p) = x
    BY <2>1, HeldBy
  <2>3. x \in DOMAIN ser2 /\ ser2[x].port = p
    BY <2>1
  <2>4. HolderIn(tab2, ser2, p) = x
    BY <2>3, HeldBy
  <2> QED BY <2>2, <2>4
<1>2. CASE \A x \in DOMAIN ser : ser[x].port # p
  <2>1. HolderIn(tab, ser, p) = Control
    BY <1>2, HeldByNone
  <2>2. HolderIn(tab2, ser2, p) = Control
    BY <1>2, HeldByNone
  <2> QED BY <2>1, <2>2
<1> QED BY <1>1, <1>2

LEMMA InvExclusive ==
  ASSUME Inv, Inv'
  PROVE  /\ Exclusive(ports, serial, Sound)
         /\ Exclusive(ports', serial', Sound')
         /\ \A p : Holder(p) = HolderIn(ports, serial, p)
         /\ \A p : Holder(p)' = HolderIn(ports', serial', p)
  BY DEF Inv, TableInv, EntryExclusive, Exclusive, Holder, HolderIn

\* the entries keep their holders, but for those in D
KeptBut(D) == \A p \in Sound \cap Sound' : p \notin D => Holder(p)' = Holder(p)

LEMMA SameLease ==
  ASSUME Sound' = Sound, KeptBut({})
  PROVE  UNCHANGED Lease!lease
<1>1. [p \in Sound |-> Holder(p)]' = [p \in Sound |-> Holder(p)]
  BY DEF KeptBut
<1> QED BY <1>1 DEF Lease!lease

\* no reference to the table comes or goes
LEMMA QuietLease ==
  ASSUME Inv, Inv', UNCHANGED <<ports, stomped>>,
         DOMAIN serial' = DOMAIN serial,
         \A x \in DOMAIN serial : serial'[x].port = serial[x].port
  PROVE  UNCHANGED Lease!lease
<1>1. Sound' = Sound
  BY DEF Sound
<1>2. KeptBut({})
  <2>1. ASSUME NEW p \in Sound
        PROVE  HolderIn(ports', serial', p) = HolderIn(ports, serial, p)
    BY <1>1, InvExclusive, SameHolder
  <2> QED BY <2>1, InvExclusive DEF KeptBut
<1> QED BY <1>1, <1>2, SameLease

LEMMA DestroyLease ==
  ASSUME Inv, Inv', NEW x \in DOMAIN serial, NEW p, p = serial[x].port,
         NEW rows, DestroySerial(x, rows)
  PROVE  [Lease!Next]_(Lease!lease)
<1>0. /\ DOMAIN serial' = DOMAIN serial \ {x}
      /\ \A y \in DOMAIN serial' : serial'[y] = serial[y]
      /\ x \in Serials /\ x # Control
  BY ControlAssumption DEF DestroySerial, Drop, Restrict, Inv, TypeOK
<1>1. KeptBut({p})
  <2>1. ASSUME NEW q \in Sound, q \in Sound', q # p
        PROVE  HolderIn(ports', serial', q) = HolderIn(ports, serial, q)
    <3>1. /\ \A y \in DOMAIN serial :
               serial[y].port = q => y \in DOMAIN serial' /\ serial'[y].port = q
          /\ \A y \in DOMAIN serial' :
               serial'[y].port = q => y \in DOMAIN serial /\ serial[y].port = q
      BY <1>0, <2>1
    <3> QED BY <2>1, <3>1, InvExclusive, SameHolder
  <2> QED BY <2>1, InvExclusive DEF KeptBut
<1>2. CASE p \in DOMAIN ports
  <2>1. DOMAIN ports' = DOMAIN ports /\ stomped' = stomped
    BY <1>2 DEF DestroySerial, ClearFlag
  <2>2. Sound' = Sound
    BY <2>1 DEF Sound
  <2>3. CASE p \in Sound
    <3>1. Holder(p) = x
      BY <2>3, InvExclusive, HeldBy
    <3>2. Holder(p)' = Control
      <4>1. \A y \in DOMAIN serial' : serial'[y].port # p
        BY <1>0, <2>3, InvExclusive DEF Exclusive
      <4> QED BY <2>2, <2>3, <4>1, InvExclusive, HeldByNone
    <3>3. [q \in Sound |-> Holder(q)]'
            = [[q \in Sound |-> Holder(q)] EXCEPT ![p] = Control]
      BY <1>1, <2>2, <3>2 DEF KeptBut
    <3>4. Lease!Release(p)
      BY <1>0, <2>2, <2>3, <3>1, <3>3 DEF Lease!Release
    <3> QED BY <2>3, <3>4 DEF Lease!Next
  <2>4. CASE p \notin Sound
    BY <1>1, <2>2, <2>4, SameLease DEF KeptBut
  <2> QED BY <2>3, <2>4
<1>3. CASE p \notin DOMAIN ports /\ UNCHANGED <<ports, stomped>>
  <2>1. Sound' = Sound /\ p \notin Sound
    BY <1>3 DEF Sound
  <2> QED BY <1>1, <2>1, SameLease DEF KeptBut
<1>4. ASSUME p \notin DOMAIN ports, NEW q \in DOMAIN ports,
             ports' = ClearFlag(ports, q), stomped' = stomped \cup {q}
      PROVE  [Lease!Next]_(Lease!lease)
  <2>1. Sound' = Sound \ {q} /\ p \notin Sound
    BY <1>4 DEF Sound, ClearFlag
  <2>2. CASE q \in Sound
    <3>1. [r \in Sound |-> Holder(r)]'
            = [r \in Sound' |-> [s \in Sound |-> Holder(s)][r]]
      BY <1>1, <2>1 DEF KeptBut
    <3>2. Lease!Forget(q)
      BY <2>1, <2>2, <3>1 DEF Lease!Forget
    <3> QED BY <2>2, <3>2 DEF Lease!Next
  <2>3. CASE q \notin Sound
    <3>1. Sound' = Sound
      BY <2>1, <2>3
    <3> QED BY <1>1, <2>1, <3>1, SameLease DEF KeptBut
  <2> QED BY <2>2, <2>3
<1> QED BY <1>2, <1>3, <1>4 DEF DestroySerial

LEMMA SettleLease ==
  ASSUME Inv, Inv', NEW x \in DOMAIN serial, NEW s \in SerialRec,
         s.port = serial[x].port, NEW held, NEW rows,
         Settle(x, s, held, rows)
  PROVE  [Lease!Next]_(Lease!lease)
<1>1. CASE held \/ s.writing \/ s.read # "none"
  <2>1. serial' = [serial EXCEPT ![x] = s] /\ UNCHANGED <<ports, stomped>>
    BY <1>1 DEF Settle
  <2> QED BY <2>1, QuietLease
<1>2. CASE ~(held \/ s.writing \/ s.read # "none")
  BY <1>2, DestroyLease DEF Settle
<1> QED BY <1>1, <1>2

LEMMA CancelLease ==
  ASSUME Inv, Inv', NEW h \in Handlers, mstate[h] # Control, NEW rows,
         Settle(mstate[h], Cancelled(serial[mstate[h]]), FALSE, rows)
  PROVE  [Lease!Next]_(Lease!lease)
<1>1. mstate[h] \in DOMAIN serial
  BY DEF Inv, Owned
<1>2. /\ Cancelled(serial[mstate[h]]) \in SerialRec
      /\ Cancelled(serial[mstate[h]]).port = serial[mstate[h]].port
  BY <1>1, CancelledType DEF Inv, TypeOK
<1> QED BY <1>1, <1>2, SettleLease

LEMMA HandlerOpLease ==
  ASSUME Inv, Inv', NEW h \in Handlers, NEW phase, NEW snd, NEW cls,
         HandlerOp(h, phase, snd, cls)
  PROVE  [Lease!Next]_(Lease!lease)
<1>1. CASE UNCHANGED <<ports, serial, stomped>>
  BY <1>1, QuietLease
<1>2. CASE DestroyHandler(h) /\ mstate[h] # Control
  BY <1>2, CancelLease DEF DestroyHandler
<1> QED BY <1>1, <1>2 DEF HandlerOp, DestroyHandler

LEMMA ConnectLease ==
  ASSUME Inv, Inv', NEW h \in Handlers, NEW p \in DOMAIN ports,
         NEW x \in Serials, Connect(h, p, x)
  PROVE  [Lease!Next]_(Lease!lease)
<1>0. /\ x \notin DOMAIN serial /\ x # Control
      /\ DOMAIN serial' = DOMAIN serial \cup {x}
      /\ serial'[x].port = p
      /\ \A y \in DOMAIN serial : serial'[y] = serial[y]
  BY ControlAssumption DEF Connect, Put
<1>1. Sound' = Sound
  BY DEF Connect, Sound
<1>2. KeptBut({p})
  <2>1. ASSUME NEW q \in Sound, q # p
        PROVE  HolderIn(ports', serial', q) = HolderIn(ports, serial, q)
    <3>1. /\ \A y \in DOMAIN serial :
               serial[y].port = q => y \in DOMAIN serial' /\ serial'[y].port = q
          /\ \A y \in DOMAIN serial' :
               serial'[y].port = q => y \in DOMAIN serial /\ serial[y].port = q
      BY <1>0, <2>1
    <3> QED BY <1>1, <3>1, InvExclusive, SameHolder
  <2> QED BY <2>1, InvExclusive DEF KeptBut
<1>3. CASE p \in Sound
  <2>1. Holder(p) = Control
    BY DEF Connect, Available, Holder
  <2>2. Holder(p)' = x
    BY <1>0, <1>1, <1>3, InvExclusive, HeldBy
  <2>3. \A q \in Sound : Holder(q) # x
    <3>1. ASSUME NEW q \in Sound PROVE HolderIn(ports, serial, q) # x
      <4>1. CASE \E y \in DOMAIN serial : serial[y].port = q
        BY <1>0, <4>1, InvExclusive, HeldBy
      <4>2. CASE \A y \in DOMAIN serial : serial[y].port # q
        BY <1>0, <4>2, InvExclusive, HeldByNone
      <4> QED BY <4>1, <4>2
    <3> QED BY <3>1, InvExclusive
  <2>4. [q \in Sound |-> Holder(q)]'
          = [[q \in Sound |-> Holder(q)] EXCEPT ![p] = x]
    BY <1>1, <1>2, <2>2 DEF KeptBut
  <2>5. Lease!Acquire(p, x)
    BY <1>1, <1>3, <2>1, <2>3, <2>4 DEF Lease!Acquire
  <2> QED BY <1>3, <2>5 DEF Lease!Next
<1>4. CASE p \notin Sound
  BY <1>1, <1>2, <1>4, SameLease DEF KeptBut
<1> QED BY <1>3, <1>4

LEMMA RefreshLease ==
  ASSUME Inv, Inv', NEW h \in Handlers, Refresh(h)
  PROVE  Lease!Next
<1>1. PICK devs \in Scans \cup {<<>>} : ports' = NewPorts(devs)
  BY DEF Refresh
<1>2. Len(devs) \in Nat /\ nextPort \in Nat
  BY ScansAssumption DEF Inv, TypeOK
<1>3. /\ DOMAIN ports' = nextPort..(nextPort + Len(devs) - 1)
      /\ \A p \in DOMAIN ports' : ports'[p].in_use = FALSE
  BY <1>1 DEF NewPorts
<1>4. Sound' \in SUBSET Nat /\ Sound' \cap Sound = {}
  <2>1. \A p \in DOMAIN ports' : p \in Nat /\ p >= nextPort
    BY <1>2, <1>3
  <2>2. \A p \in DOMAIN ports : p < nextPort
    BY DEF Inv, TableInv, Numbered
  <2> QED BY <1>2, <2>1, <2>2 DEF Sound, Inv, TypeOK
<1>5. \A p \in Sound' : Holder(p)' = Control
  BY <1>3 DEF Holder, Sound
<1>6. [p \in Sound |-> Holder(p)]' = [p \in Sound' |-> Control]
  BY <1>5
<1>7. Lease!Replace
  BY <1>4, <1>6 DEF Lease!Replace
<1> QED BY <1>7 DEF Lease!Next

-----------------------------------------------------------------------------
LEMMA HandlerLease ==
  ASSUME Inv, Inv', NEW h \in Handlers, HandlerNext(h)
  PROVE  [Lease!Next]_(Lease!lease)
<1>1. CASE Upgrade(h) \/ AcceptOk(h) \/ OtherCommand(h)
  BY <1>1, QuietLease DEF Upgrade, AcceptOk, OtherCommand
<1>2. CASE AcceptFails(h) \/ ReadFails(h) \/ SendDone(h) \/ CloseDone(h)
  BY <1>2, HandlerOpLease DEF AcceptFails, ReadFails, SendDone, CloseDone
<1>3. CASE Refresh(h)
  BY <1>3, RefreshLease
<1>4. CASE Type(h)
  <2>1. /\ UNCHANGED <<ports, stomped>>
        /\ serial' = [serial EXCEPT ![mstate[h]].writing = TRUE]
    BY <1>4 DEF Type
  <2> QED BY <2>1, QuietLease DEF Inv, TypeOK, SerialRec
<1>5. CASE CtrlQ(h)
  BY <1>5, CancelLease DEF CtrlQ, InSerial
<1>6. ASSUME NEW p \in DOMAIN ports, NEW x \in Serials, Connect(h, p, x)
      PROVE  [Lease!Next]_(Lease!lease)
  BY <1>6, ConnectLease
<1>7. ASSUME NEW t \in DOMAIN sessions, Kill(h, t)
      PROVE  [Lease!Next]_(Lease!lease)
  BY <1>7, QuietLease DEF Kill
<1> QED BY <1>1, <1>2, <1>3, <1>4, <1>5, <1>6, <1>7 DEF HandlerNext

LEMMA SerialLease ==
  ASSUME Inv, Inv', NEW x \in DOMAIN serial, SerialNext(x)
  PROVE  [Lease!Next]_(Lease!lease)
<1>0. serial[x] \in SerialRec
  BY DEF Inv, TypeOK
<1>1. CASE DeviceData(x) \/ DeviceFails(x) \/ OnRead(x)
  <2>1. /\ UNCHANGED <<ports, stomped>>
        /\ DOMAIN serial' = DOMAIN serial
        /\ \A y \in DOMAIN serial : serial'[y].port = serial[y].port
    BY <1>1 DEF DeviceData, DeviceFails, OnRead, Inv, TypeOK, SerialRec
  <2> QED BY <2>1, QuietLease
<1>2. CASE OnReadFails(x)
  <2> DEFINE s == [serial[x] EXCEPT !.read = "none"]
  <2>1. s \in SerialRec /\ s.port = serial[x].port
    BY <1>0 DEF SerialRec
  <2> QED BY <1>2, <2>1, SettleLease DEF OnReadFails
<1>3. CASE WriteDone(x)
  <2> DEFINE s == [serial[x] EXCEPT !.writing = FALSE]
  <2>1. s \in SerialRec /\ s.port = serial[x].port
    BY <1>0 DEF SerialRec
  <2> QED BY <1>3, <2>1, SettleLease DEF WriteDone
<1> QED BY <1>1, <1>2, <1>3 DEF SerialNext

LEMMA LeaseInit == Init => Lease!Init
<1> SUFFICES ASSUME Init PROVE Lease!Init
  OBVIOUS
<1>1. Sound \in SUBSET Nat /\ \A p \in Sound : ports[p].in_use = FALSE
  BY ScansAssumption DEF Init, Sound
<1>2. [p \in Sound |-> Holder(p)] = [p \in Sound |-> Control]
  BY <1>1 DEF Holder
<1> QED BY <1>1, <1>2 DEF Lease!Init

LEMMA LeaseStep == Inv /\ Inv' /\ [Next]_vars => [Lease!Next]_(Lease!lease)
<1> SUFFICES ASSUME Inv, Inv', [Next]_vars PROVE [Lease!Next]_(Lease!lease)
  OBVIOUS
<1>1. CASE \E h \in Handlers : HandlerNext(h)
  BY <1>1, HandlerLease
<1>2. CASE \E x \in DOMAIN serial : SerialNext(x)
  BY <1>2, SerialLease
<1>3. CASE UNCHANGED vars
  BY <1>3, QuietLease DEF vars
<1> QED BY <1>1, <1>2, <1>3 DEF Next

\* connect, ~serial_state and refresh grant, release and replace the entries of
\* the table as PortLease allows; no other step touches who has an entry.
THEOREM LeaseImplemented == Spec => ImplementsLease
<1> QED BY LeaseInit, LeaseStep, Invariance, PTL
  DEF Spec, ImplementsLease, Lease!Spec
=============================================================================
