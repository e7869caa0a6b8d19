--------------------------- MODULE MCPortOptions ---------------------------
(***************************************************************************)
(* One device that comes up at 9600 or at 115200 with even parity.         *)
(***************************************************************************)
EXTENDS PortOptions
CONSTANT d1

MCScans == {<<d1>>}
MCFound == {[ospeed |-> 13, csize |-> 8, parenb |-> FALSE, parodd |-> FALSE, cstopb |-> FALSE],
            [ospeed |-> 4098, csize |-> 7, parenb |-> TRUE, parodd |-> FALSE, cstopb |-> TRUE]}
MCTyped == {4, 5, 8, 300, 9600, 12345, 115200}
MCNames == {"odd", "even", "off", "1", "1.5", "two", "mark"}
=============================================================================
