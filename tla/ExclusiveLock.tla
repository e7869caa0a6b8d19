--------------------------- MODULE ExclusiveLock ---------------------------
(***************************************************************************)
(* What the users of a multiprocess mutex rely on: of all threads of all   *)
(* processes, one holds the lock.                                          *)
(***************************************************************************)
CONSTANTS Threads, Nobody

VARIABLE holder

Init == holder = Nobody

Acquire(t) == holder = Nobody /\ holder' = t

Release == holder # Nobody /\ holder' = Nobody

Next == Release \/ \E t \in Threads : Acquire(t)

Spec == Init /\ [][Next]_holder
=============================================================================
