------------------------ MODULE MCMultiprocessMutex ------------------------
(***************************************************************************)
(* Two processes, the first of which has two threads.                      *)
(***************************************************************************)
EXTENDS MultiprocessMutex, TLC

CONSTANTS p1, p2, a, b, c

MCProcessOf == (a :> p1) @@ (b :> p1) @@ (c :> p2)

\* the threads of a process are alike
Alike == Permutations({a, b})

OneEach == (a :> p1) @@ (c :> p2)

=============================================================================
