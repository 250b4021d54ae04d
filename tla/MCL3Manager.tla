---------------------------- MODULE MCL3Manager ----------------------------
(* L3Manager with two callers, two addresses and two endpoints. *)
EXTENDS L3Manager, TLC

CONSTANTS c1, c2, v1, v2, e1, e2

MCCallers   == {c1, c2}
MCVips      == {v1, v2}
MCEndpoints == {<<e1, e2>>, <<>>}
Symmetry    == Permutations(MCCallers) \cup Permutations(MCVips)
=============================================================================
