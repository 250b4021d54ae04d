---------------------------- MODULE MCL3Session ----------------------------
(* L3Session with two callers that compete for one destination, two virtual *)
(* addresses and two resources.                                             *)
EXTENDS L3Session, TLC

CONSTANTS c1, c2, v1, v2, r1, r2

MCCallers   == {c1, c2}
MCVips      == {v1, v2}
MCResources == {r1, r2}
Symmetry    == Permutations(MCCallers) \cup Permutations(MCVips) \cup Permutations(MCResources)
=============================================================================
