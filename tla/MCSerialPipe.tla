--------------------------- MODULE MCSerialPipe ---------------------------
EXTENDS SerialPipe

\* the letter a, and the CSI code of cursor up: ESC [ A
MCLetter == {<<97>>}
MCUp     == {<<27, 91, 65>>}
MCCodes  == MCLetter \cup MCUp
=============================================================================
