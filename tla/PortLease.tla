----------------------------- MODULE PortLease -----------------------------
(***************************************************************************)
(* What the port table promises: an entry is granted to one holder at a    *)
(* time, and becomes free again only because that holder is destroyed.     *)
(* The whole table may be replaced by fresh entries, all of them free.     *)
(* An entry may also leave the abstraction (Forget): in the code this is   *)
(* the entry hit by a write through a dangling reference.                  *)
(***************************************************************************)
EXTENDS Naturals

CONSTANTS
  Holders,   \* who may hold an entry
  Free       \* no holder; not a member of Holders

VARIABLES
  table,     \* the entries a session may ask for
  holder     \* who has each of them

lease == <<table, holder>>

Init ==
  /\ table \in SUBSET Nat
  /\ holder = [p \in table |-> Free]

\* the "in use" check and the flag are one step
Acquire(p, x) ==
  /\ p \in table
  /\ holder[p] = Free
  /\ \A q \in table : holder[q] # x
  /\ holder' = [holder EXCEPT ![p] = x]
  /\ UNCHANGED table

Release(p) ==
  /\ p \in table
  /\ holder[p] # Free
  /\ holder' = [holder EXCEPT ![p] = Free]
  /\ UNCHANGED table

Replace ==
  /\ table' \in SUBSET Nat
  /\ table' \cap table = {}
  /\ holder' = [p \in table' |-> Free]

Forget(p) ==
  /\ p \in table
  /\ table' = table \ {p}
  /\ holder' = [q \in table' |-> holder[q]]

Next ==
  \/ \E p \in table, x \in Holders : Acquire(p, x)
  \/ \E p \in table : Release(p) \/ Forget(p)
  \/ Replace

Spec == Init /\ [][Next]_lease
=============================================================================
