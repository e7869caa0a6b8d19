------------------------------ MODULE Terminal ------------------------------
(***************************************************************************)
(* What the keys typed in one browser terminal become.  Websocket messages *)
(* carry pieces of a character stream, cut anywhere.  base_state tells     *)
(* characters from escape sequences and calls on_char, on_csi, on_dcs or   *)
(* on_apc of its subclass: the control state edits a line, recalls earlier *)
(* ones and executes it, the serial state passes input on to the port.     *)
(*                                                                         *)
(* The terminal shows the prompt, which names the current menu and is one  *)
(* element so that erasing it is visible, and the line behind it.  What    *)
(* commands print is left out.                                              *)
(***************************************************************************)
EXTENDS Integers, SequencesExt

CONSTANTS
  Chars,        \* the characters that may be typed
  Finals,       \* those from 0x40 to 0x7e, which end a CSI sequence
  Messages,     \* the websocket messages
  Menus, Root,  \* the menus of commands, and the one a control state begins in
  MaxMessages   \* bound on their number

Controls == {"ESC", "DEL", "ETX", "CR", "TAB", "DC1"}

\* Characters without a case of their own in on_char, which are echoed but of which the
\* terminal shows nothing; Ctrl-Q is one of them.  Those that move the cursor, backspace
\* and line feed, are not among the characters here.
Silent == {"NUL", "DC1"}

ASSUME TerminalAssumption ==
  /\ Finals \subseteq Chars
  /\ Finals \intersect (Controls \union Silent) = {}
  /\ {"[", "P", "_", "\\", "A", "B"} \intersect Chars \subseteq Finals
  /\ Messages \subseteq Seq(Chars)
  /\ Root \in Menus /\ Menus \intersect (Chars \union {"serial"}) = {}
  /\ MaxMessages \in Nat

VARIABLES
  cli,       \* the session's m_state, its terminal line, and what the device got
  messages   \* how many messages have come

vars == <<cli, messages>>

Opened == [c \in {"[", "P", "_"} |->
             CASE c = "[" -> "csi" [] c = "P" -> "dcs" [] c = "_" -> "apc"]

ST == <<"ESC", "\\">>

(***************************************************************************)
(* A state that begins, once its run() has written the prompt.  typed are  *)
(* the characters it was fed, and calls the calls they made, "drop" for an *)
(* escape sequence that makes none: both are history.                      *)
(***************************************************************************)
Fresh(kind) ==
  [kind |-> kind, input |-> "text", cmdbuf |-> <<>>, inbuf |-> <<>>,
   commands |-> <<>>, iter |-> 1, menu |-> Root,
   shown |-> IF kind = "control" THEN <<Root>> ELSE <<>>,
   device |-> <<>>, left |-> FALSE, typed |-> <<>>, calls |-> <<>>]

Init == cli = Fresh("control") /\ messages = 0

Calls == [on : {"char", "csi", "dcs", "apc", "drop"}, text : Seq(Chars)]

States ==
  [kind : {"control", "serial"}, input : {"text", "esc", "csi", "dcs", "apc"},
   cmdbuf : Seq(Chars), inbuf : Seq(Chars),
   commands : Seq(Seq(Chars) \ {<<>>}), iter : Nat, menu : Menus,
   shown : Seq(Chars \union Menus), device : Seq(Chars), left : BOOLEAN,
   typed : Seq(Chars), calls : Seq(Calls)]

TypeOK ==
  /\ cli \in States
  /\ cli.iter \in 1..(Len(cli.commands) + 1)
  /\ cli.input = "text" => cli.cmdbuf = <<>>
  /\ messages \in 0..MaxMessages

-----------------------------------------------------------------------------
(* The control state.                                                       *)

\* what the terminal shows of characters that are echoed
Echoed(line) ==
  FlattenSeq([i \in DOMAIN line |-> IF line[i] \in Silent THEN <<>> ELSE <<line[i]>>])

\* n times backspace, blank, backspace
Erased(line, n) == SubSeq(line, 1, Len(line) - n)

\* mutant: one column is left
RecallShort(t, iter) ==
  LET line == IF iter > Len(t.commands) THEN <<>> ELSE t.commands[iter] IN
  [t EXCEPT !.iter = iter, !.inbuf = line,
            !.shown = Erased(@, IF Len(t.inbuf) = 0 THEN 0 ELSE Len(t.inbuf) - 1)
                        \o Echoed(line)]

\* clear_write_session of what the history iterator points to, nothing at its end
Recall(t, iter) ==
  LET line == IF iter > Len(t.commands) THEN <<>> ELSE t.commands[iter] IN
  [t EXCEPT !.iter = iter, !.inbuf = line,
            !.shown = Erased(@, Len(t.inbuf)) \o Echoed(line)]

\* mutant: the iterator runs past the end
NewerPast(t) == Recall(t, t.iter + 1)

\* mutant: the iterator stops at the last command
NewerStops(t) == Recall(t, IF t.iter < Len(t.commands) THEN t.iter + 1 ELSE t.iter)

Newer(t) == Recall(t, IF t.iter <= Len(t.commands) THEN t.iter + 1 ELSE t.iter)
Older(t) == Recall(t, IF t.iter > 1 THEN t.iter - 1 ELSE t.iter)

\* m_state is replaced; the loop over the message ends
Enter(kind) == [Fresh(kind) EXCEPT !.left = TRUE]

\* a new line, with the prompt of a menu
NewLine(t, menu) == [t EXCEPT !.inbuf = <<>>, !.menu = menu, !.shown = <<menu>>]

\* Any line may be a command that connects, or one that leads to a menu, which may be
\* the current one: a menu has the commands of its own, and those of others behind
\* their names.
Execute(t, next) ==
  IF t.inbuf = <<>> THEN NewLine(t, t.menu)
  ELSE IF next = "serial" THEN Enter("serial")
  ELSE [NewLine(t, next) EXCEPT !.commands = Append(@, t.inbuf),
                                !.iter = Len(t.commands) + 2]

ControlChar(t, c, next) ==
  CASE c = "DEL" -> IF t.inbuf = <<>> THEN t
                    ELSE [t EXCEPT !.inbuf = Front(@), !.shown = Erased(@, 1)]
    [] c = "ETX" -> NewLine(t, Root)
    [] c = "CR"  -> Execute(t, next)
    [] c \in {"TAB", "ESC"} -> t
    [] OTHER -> [t EXCEPT !.inbuf = Append(@, c), !.shown = @ \o Echoed(<<c>>)]

ControlState(t, call, next) ==
  CASE call.on = "char" -> ControlChar(t, call.text[1], next)
    [] call.on = "csi" /\ Last(call.text) = "A" -> Older(t)
    [] call.on = "csi" /\ Last(call.text) = "B" -> Newer(t)
    [] OTHER -> t

-----------------------------------------------------------------------------
(* The serial state.                                                        *)

\* mutant: on_csi passes its parameters on without the final character
SerialStateShort(t, call) ==
  CASE call.on = "char" -> IF call.text = <<"DC1">> THEN Enter("control")
                           ELSE [t EXCEPT !.device = @ \o call.text]
    [] call.on = "csi" -> [t EXCEPT !.device = @ \o <<"ESC", "[">> \o Front(call.text)]
    [] OTHER -> t

\* write_serial; SerialPipe is what becomes of it
SerialState(t, call) ==
  CASE call.on = "char" -> IF call.text = <<"DC1">> THEN Enter("control")
                           ELSE [t EXCEPT !.device = @ \o call.text]
    [] call.on = "csi" -> [t EXCEPT !.device = @ \o <<"ESC", "[">> \o call.text]
    [] OTHER -> t

-----------------------------------------------------------------------------
(* base_state.                                                              *)

\* A sequence ends; the text of on_csi includes the final character.
Call(t, on, text, next) ==
  LET call == [on |-> on, text |-> text]
      u == [t EXCEPT !.input = "text", !.cmdbuf = <<>>, !.calls = Append(@, call)]
  IN IF t.kind = "control" THEN ControlState(u, call, next) ELSE SerialState(u, call)

FeedText(t, c, next) ==
  IF c = "ESC" THEN [t EXCEPT !.input = "esc"] ELSE Call(t, "char", <<c>>, next)

\* a sequence of another kind is dropped after its first character
FeedEsc(t, c, next) ==
  IF c \in DOMAIN Opened THEN [t EXCEPT !.input = Opened[c]]
  ELSE Call(t, "drop", <<c>>, next)

FeedCsi(t, c, next) ==
  IF c \in Finals THEN Call(t, "csi", Append(t.cmdbuf, c), next)
  ELSE [t EXCEPT !.cmdbuf = Append(@, c)]

\* mutant: only the last character of the terminator is looked at
FeedStringEarly(t, c, next) ==
  IF c = "\\" THEN Call(t, t.input, t.cmdbuf, next)
  ELSE [t EXCEPT !.cmdbuf = Append(@, c)]

\* feed_dcs and feed_apc
FeedString(t, c, next) ==
  IF IsSuffix(ST, Append(t.cmdbuf, c)) THEN Call(t, t.input, Front(t.cmdbuf), next)
  ELSE [t EXCEPT !.cmdbuf = Append(@, c)]

Feed(t, c, next) ==
  LET u == [t EXCEPT !.typed = Append(@, c)] IN
  CASE t.input = "text" -> FeedText(u, c, next)
    [] t.input = "esc"  -> FeedEsc(u, c, next)
    [] t.input = "csi"  -> FeedCsi(u, c, next)
    [] OTHER            -> FeedString(u, c, next)

\* the loop over a message, which a change of state ends
Fed(t, m, next) ==
  FoldLeft(LAMBDA u, c : IF u.left THEN u ELSE Feed(u, c, next),
           [t EXCEPT !.left = FALSE], m)

HandleMessage(m, next) ==
  /\ messages < MaxMessages
  /\ messages' = messages + 1
  /\ cli' = Fed(cli, m, next)

Next == \E m \in Messages, next \in Menus \union {"serial"} : HandleMessage(m, next)

Spec == Init /\ [][Next]_vars

-----------------------------------------------------------------------------
Begin == [text |-> <<>>, char |-> <<>>, esc |-> <<"ESC">>, drop |-> <<"ESC">>,
          csi |-> <<"ESC", "[">>, dcs |-> <<"ESC", "P">>, apc |-> <<"ESC", "_">>]

Encoded(call) ==
  Begin[call.on] \o call.text \o IF call.on \in {"dcs", "apc"} THEN ST ELSE <<>>

EncodedAll(calls) == FlattenSeq([i \in DOMAIN calls |-> Encoded(calls[i])])

\* Whether a call is one that its own encoding, and no shorter one, stands for.
WellFormed(call) ==
  CASE call.on = "char" -> call.text # <<"ESC">>
    [] call.on = "drop" -> call.text[1] \notin DOMAIN Opened
    [] call.on = "csi"  -> \A i \in DOMAIN call.text :
                             call.text[i] \in Finals <=> i = Len(call.text)
    [] OTHER -> \A i \in 1..Len(call.text) : SubSeq(call.text \o ST, i, i + 1) # ST

\* However the stream is cut into messages, the calls made so far and the sequence
\* that is open are the one way to read it: no character lost, doubled or moved.
ReadOnce ==
  /\ cli.typed = EncodedAll(cli.calls) \o Begin[cli.input] \o cli.cmdbuf
  /\ \A i \in DOMAIN cli.calls : WellFormed(cli.calls[i])

\* the bytes that a call makes the serial state pass on
Passed(call) == IF call.on \in {"char", "csi"} THEN Encoded(call) ELSE <<>>

\* The device gets the characters and CSI sequences typed since the connect, as they
\* were typed; the rest of the message that made the connection is not among them.
Redirected ==
  cli.kind = "serial" =>
    cli.device = FlattenSeq([i \in DOMAIN cli.calls |-> Passed(cli.calls[i])])

\* no character typed since the prompt of this state was one the terminal does not show
Seen(t) ==
  \A i \in DOMAIN t.calls : t.calls[i].on = "char" => t.calls[i].text[1] \notin Silent

\* What stands behind the prompt is the line that CR would execute, and the prompt
\* names the menu it would be looked up in, through echo, erasing, recall,
\* interruption and commands that change the menu, as long as every character typed
\* was one the terminal shows.
LineShown == cli.kind = "control" /\ Seen(cli) => cli.shown = <<cli.menu>> \o cli.inbuf

\* The same of every character.  It fails: Ctrl-Q in the control state is kept in the
\* line, and erasing it erases a column of what stands before it.
LineAlwaysShown == cli.kind = "control" => cli.shown = <<cli.menu>> \o cli.inbuf

Up == <<"ESC", "[", "A">>
Down == <<"ESC", "[", "B">>

\* The iterator stays in the history as it grows: Up then Down comes back to where it
\* was, and Down from the last command gives an empty line.
UpDown ==
  cli.kind = "control" /\ cli.input = "text" /\ cli.iter > 1 =>
    LET t == Fed(cli, Up \o Down, Root) IN
    /\ t.iter = cli.iter
    /\ t.inbuf = IF cli.iter > Len(cli.commands) THEN <<>> ELSE cli.commands[cli.iter]
    /\ Fed(cli, Up, Root).inbuf = cli.commands[cli.iter - 1]

\* The greeting of the serial state, "Type Ctrl + q to exit".
CtrlQExits == cli.kind = "serial" => Fed(cli, <<"DC1">>, Root).kind = "control"
=============================================================================
