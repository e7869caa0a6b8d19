--------------------------- MODULE MCMultiplexer ---------------------------
(* Instance of Multiplexer for TLC.                                        *)
EXTENDS Multiplexer, TLC
CONSTANTS d1, d2

MCScans2 == {<<d1, d2>>, <<d1>>}
MCScans1 == {<<d1>>}
Symmetry == Permutations(Handlers) \cup Permutations(Serials)
=============================================================================
