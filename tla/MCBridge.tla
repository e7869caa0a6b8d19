------------------------------ MODULE MCBridge ------------------------------
EXTENDS Bridge

\* the CSI code of cursor up, ESC [ A, its introducer counted as one byte:
\* two bytes are enough for the port to take a part of them
MCUp == {<<27, 65>>}
=============================================================================
