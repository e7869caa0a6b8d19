---------------------------- MODULE PortOptions ----------------------------
(***************************************************************************)
(* The options of the serial ports on their way round: read from the       *)
(* devices when they are scanned, kept in the port table, listed and set   *)
(* by name in the ports menu, applied one by one by connect, and read back *)
(* by the next scan.  Who may use an entry is the subject of Multiplexer;  *)
(* here a session that leaves only clears the flag.  Flow control is none  *)
(* throughout: scan says so and the command to set it is not implemented.  *)
(***************************************************************************)
EXTENDS Integers, Sequences, Functions

CONSTANTS
  Devices,
  Scans,       \* the devices that a scan may find, each once, in order
  Found,       \* the settings with which a device may appear
  Typed,       \* what may be typed after set_speed and set_character_size
  Names,       \* what may be typed after set_parity and set_stop_bits
  MaxPorts     \* bound on current_id

VARIABLES
  ports,       \* ports_holder::ports
  current_id,  \* ports_holder::current_id
  settings,    \* the settings each device has
  applied,     \* the options connect last gave each device, if all of them
  running      \* the server has not ended

optionsVars == <<ports, current_id, settings, applied, running>>

(***************************************************************************)
(* Speeds.  A termios code is the place of the speed in the lists; beside  *)
(* it, the number that the enum of serial.cpp takes that code for.          *)
(***************************************************************************)
Slow == <<50, 75, 110, 134, 150, 200, 300,
          600, 1200, 1800, 2400, 4800, 9600, 19200, 38400>>
Fast == <<57600, 115200, 230400, 460800, 500000, 576000, 921600, 1000000,
          1152000, 1500000, 2000000, 2500000, 3000000, 3500000, 4000000>>

SpeedCodes == 0..15 \union 4097..4111

Speed == [c \in SpeedCodes |-> IF c = 0 THEN 0
                          ELSE IF c <= 15 THEN Slow[c] ELSE Fast[c - 4096]]

\* Baud600 is 10, where termios has 8
ToUint(c) == IF c \in 0..7 \union 4097..4111 THEN Speed[c]
             ELSE IF c \in 10..17 THEN Slow[c - 2] ELSE 0

(***************************************************************************)
(* Names, and what list shows.                                             *)
(***************************************************************************)
Parity == [n \in {"none", "off", "odd", "even"} |-> IF n = "off" THEN "none" ELSE n]

StopBits == [n \in {"1", "one", "1.5", "onepointfive", "2", "two"} |->
               CASE n \in {"1", "one"} -> "one"
                 [] n \in {"1.5", "onepointfive"} -> "onepointfive"
                 [] n \in {"2", "two"} -> "two"]

ParityShown(p) == p

StopBitsShown(s) == IF s = "onepointfive" THEN "1.5" ELSE s

\* the row of an entry, without what it shows of other things
Shown(o) ==
  [o EXCEPT !.parity = ParityShown(@), !.stop_bits = StopBitsShown(@)]

-----------------------------------------------------------------------------
Options == [baud_rate : Nat, parity : Range(Parity), stop_bits : Range(StopBits),
            character_size : 5..8]

Entry == [device : Devices, options : Options, in_use : BOOLEAN]

Termios == [ospeed : SpeedCodes, csize : 5..8,
            parenb : BOOLEAN, parodd : BOOLEAN, cstopb : BOOLEAN]

Unset == [baud_rate |-> -1]

ASSUME PortOptionsAssumption ==
  /\ \A s \in Scans : s \in Seq(Devices) /\ \A i, j \in DOMAIN s : s[i] = s[j] => i = j
  /\ Found \subseteq Termios
  /\ Typed \subseteq Nat
  /\ MaxPorts \in Nat

OptionsTypeOK ==
  /\ current_id \in Nat
  /\ DOMAIN ports \subseteq 0..(current_id - 1)
  /\ \A id \in DOMAIN ports : ports[id] \in Entry
  /\ settings \in [Devices -> Termios]
  /\ applied \in [Devices -> Options \union {Unset}]
  /\ running \in BOOLEAN

-----------------------------------------------------------------------------
(* The settings of a device as scan reads them.                            *)
Scanned(t) ==
  [ baud_rate |-> ToUint(t.ospeed),
    parity |-> IF ~t.parenb THEN "none" ELSE IF t.parodd THEN "odd" ELSE "even",
    stop_bits |-> IF t.cstopb THEN "two" ELSE "one",
    character_size |-> t.csize ]

(* What add_port makes of a scan: new entries, numbered from first.        *)
Table(first, devices) ==
  [ id \in first .. (first + Len(devices) - 1) |->
      LET d == devices[id - first + 1]
      IN  [device |-> d, options |-> Scanned(settings[d]), in_use |-> FALSE] ]

OptionsInit ==
  /\ settings \in [Devices -> Found]
  /\ \E devices \in Scans :
       /\ Len(devices) <= MaxPorts
       /\ ports = Table(0, devices)
       /\ current_id = Len(devices)
  /\ applied = [d \in Devices |-> Unset]
  /\ running = TRUE

(***************************************************************************)
(* The ports menu.  A port id that is not in the table is an error that    *)
(* changes nothing, and so are the values that the guards leave out.       *)
(***************************************************************************)
\* the entry keeps what the command does not name
Set(id, options) ==
  /\ id \in DOMAIN ports
  /\ ports' = [ports EXCEPT ![id].options = options]
  /\ UNCHANGED <<current_id, settings, applied, running>>

SetSpeed(id) ==
  \E v \in Typed : Set(id, [ports[id].options EXCEPT !.baud_rate = v])

\* character_size throws out_of_range, which execute reports
SetCharacterSize(id) ==
  \E v \in Typed \intersect 5..8 :
    Set(id, [ports[id].options EXCEPT !.character_size = v])

SetStopBits(id) ==
  \E n \in Names \intersect DOMAIN StopBits :
    Set(id, [ports[id].options EXCEPT !.stop_bits = StopBits[n]])

SetParity(id) ==
  \E n \in Names \intersect DOMAIN Parity :
    Set(id, [ports[id].options EXCEPT !.parity = Parity[n]])

\* a bad name is reported, and then there is no value to dereference: terminate()
SetBadParity ==
  /\ Names \ DOMAIN Parity # {}
  /\ running' = FALSE
  /\ UNCHANGED <<ports, current_id, settings, applied>>

(***************************************************************************)
(* connect: opening makes the device raw, with eight bits and no parity;   *)
(* then the options are applied until one is refused.  Devices take no     *)
(* other speed than those with a code, and not one and a half stop bits.   *)
(***************************************************************************)
Opened(t) == [t EXCEPT !.csize = 8, !.parenb = FALSE]

WithSpeed(t, o) ==
  [t EXCEPT !.ospeed = CHOOSE c \in SpeedCodes : Speed[c] = o.baud_rate]

WithParity(t, o) ==
  [t EXCEPT !.parenb = o.parity # "none", !.parodd = o.parity = "odd"]

\* mutant: one stop bit is taken for what a device has anyway
WithMoreStopBits(t, o) == [t EXCEPT !.cstopb = @ \/ o.stop_bits = "two"]

WithStopBits(t, o) == [t EXCEPT !.cstopb = o.stop_bits = "two"]

WithSize(t, o) == [t EXCEPT !.csize = o.character_size]

Accepts(o) == o.baud_rate \in Range(Speed) /\ o.stop_bits # "onepointfive"

Create(t, o) ==
  IF o.baud_rate \notin Range(Speed) THEN Opened(t)
  ELSE LET p == WithParity(WithSpeed(Opened(t), o), o)
       IN  IF o.stop_bits = "onepointfive" THEN p ELSE WithSize(WithStopBits(p, o), o)

Connect(id) ==
  /\ id \in DOMAIN ports
  /\ ~ports[id].in_use
  /\ LET p == ports[id]
     IN  /\ settings' = [settings EXCEPT ![p.device] = Create(@, p.options)]
         /\ ports' = [ports EXCEPT ![id].in_use = Accepts(p.options)]
         /\ applied' = [applied EXCEPT ![p.device] =
                          IF Accepts(p.options) THEN p.options ELSE Unset]
  /\ UNCHANGED <<current_id, running>>

\* ~serial_state
Leave(id) ==
  /\ id \in DOMAIN ports
  /\ ports[id].in_use
  /\ ports' = [ports EXCEPT ![id].in_use = FALSE]
  /\ UNCHANGED <<current_id, settings, applied, running>>

\* mutant: the table is not cleared, and add_port does not look for the device
RefreshAdds ==
  \E devices \in Scans \union {<<>>} :
    /\ current_id + Len(devices) <= MaxPorts
    /\ ports' = LET new == Table(current_id, devices)
                IN  [id \in DOMAIN ports \union DOMAIN new |->
                       IF id \in DOMAIN ports THEN ports[id] ELSE new[id]]
    /\ current_id' = current_id + Len(devices)
    /\ UNCHANGED <<settings, applied, running>>

(* The scan finds nothing if the directory is gone; one that throws leaves *)
(* the table as empty, because it is cleared first.                        *)
Refresh ==
  \E devices \in Scans \union {<<>>} :
    /\ current_id + Len(devices) <= MaxPorts
    /\ ports' = Table(current_id, devices)
    /\ current_id' = current_id + Len(devices)
    /\ UNCHANGED <<settings, applied, running>>

\* A device that no session uses is plugged in anew, or set from elsewhere.
Replug(d) ==
  /\ \A id \in DOMAIN ports : ports[id].device = d => ~ports[id].in_use
  /\ \E t \in Found : settings' = [settings EXCEPT ![d] = t]
  /\ applied' = [applied EXCEPT ![d] = Unset]
  /\ UNCHANGED <<ports, current_id, running>>

OptionsNext ==
  /\ running
  /\ \/ \E id \in DOMAIN ports :
          \/ SetSpeed(id) \/ SetCharacterSize(id) \/ SetStopBits(id) \/ SetParity(id)
          \/ Connect(id) \/ Leave(id)
     \/ SetBadParity
     \/ Refresh
     \/ \E d \in Devices : Replug(d)

OptionsSpec == OptionsInit /\ [][OptionsNext]_optionsVars

-----------------------------------------------------------------------------
(* The properties.                                                         *)

\* README.md:200-202: the settings applied by connect are preserved, so that a
\* later scan puts the same options back into the table.  Some speeds are left out:
\* see SettingsRetrieved.
Misread(v) == 600 <= v /\ v <= 38400

SettingsPreserved ==
  \A d \in Devices :
    (applied[d] # Unset /\ ~Misread(applied[d].baud_rate))
      => Scanned(settings[d]) = applied[d]

\* The names that list shows (port.cpp:39-56) are names that the commands of the
\* ports menu take (port.cpp:113-146), for the same value.
ShownIsTaken ==
  \A id \in DOMAIN ports :
    LET o == ports[id].options
        row == Shown(o)
    IN  /\ row.parity \in DOMAIN Parity /\ Parity[row.parity] = o.parity
        /\ row.stop_bits \in DOMAIN StopBits /\ StopBits[row.stop_bits] = o.stop_bits

\* README.md:197-198: options are not applied at once, only by a new session; and
\* a device's settings do not change the options in the table before a refresh.
NotImmediate ==
  [][ \A id \in DOMAIN ports \intersect DOMAIN ports' :
        ports'[id].options # ports[id].options => settings' = settings ]_optionsVars

\* While a session uses an entry of the table, nobody changes the settings of its
\* device: not the setters, which do not look at in_use, and no other connect,
\* because no two entries are of one device.
SessionKeepsSettings ==
  [][ \A id \in DOMAIN ports \intersect DOMAIN ports' :
        ports[id].in_use /\ ports'[id].in_use
          => settings'[ports[id].device] = settings[ports[id].device] ]_optionsVars

(* Claims that do not hold.                                                *)

\* README.md:192: on startup the current settings are retrieved.  A device at 9600
\* is entered as 2400, the speed that README.md:195 puts down to a reset.
SettingsRetrieved ==
  \A d \in Devices : Scanned(settings[d]).baud_rate = Speed[settings[d].ospeed]

\* README.md:187: set_stop_bits takes 1.5; a port so set can be connected to.
SettingsAccepted == \A id \in DOMAIN ports : Accepts(ports[id].options)

\* control_state.cpp:411: a bad parity is reported, and the server goes on.
BadParityReported == running

\* control_state.cpp:320: a connect that reports an error has done nothing.  It has
\* reset the size and the parity, and maybe applied some of the options.
FailedConnectHarmless ==
  [][ \A id \in DOMAIN ports :
        Connect(id) /\ ~ports'[id].in_use => settings' = settings ]_optionsVars
=============================================================================
