-------------------------------- MODULE Keys --------------------------------
(***************************************************************************)
(* What travels through the input side of a serial_state: the codes that   *)
(* the user types, as the bytes that feed hands on together.                *)
(***************************************************************************)
EXTENDS Naturals, Sequences

CONSTANTS
  Codes,      \* what the user may type: a character or a CSI code, as bytes
  Junk,       \* a byte of a pointer, or of freed memory
  MaxTyped    \* bound on the number of codes typed to one serial_state

ASSUME CodesAssumption == \A c \in Codes : c \in Seq(Nat) /\ c # <<>>
ASSUME JunkAssumption  == Junk \notin Nat

Bytes == Nat \cup {Junk}
=============================================================================
