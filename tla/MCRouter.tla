------------------------------ MODULE MCRouter ------------------------------
(***************************************************************************)
(* Paths of up to three characters, and targets that may be longer.        *)
(***************************************************************************)
EXTENDS Router

From(n) == {<<Slash>> \o s : s \in BoundedSeq({1, 2}, n)}
MCPaths == From(2)
MCTargets == From(3)

MCRoutes ==
  { [exact |-> FALSE, digest |-> TRUE], [exact |-> FALSE, digest |-> FALSE],
    [exact |-> TRUE, digest |-> FALSE] }
=============================================================================
