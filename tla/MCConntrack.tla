---------------------------- MODULE MCConntrack ----------------------------
(* Conntrack with three flows that do not fit in two slots, so that expiry, *)
(* eviction by recency and the growth past the capacity all happen.         *)
EXTENDS Conntrack, TLC

CONSTANTS k1, k2, k3, r1, r2

MCKeys      == {k1, k2, k3}
MCResources == {r1, r2}
Symmetry    == Permutations(MCKeys) \cup Permutations(MCResources)
=============================================================================
