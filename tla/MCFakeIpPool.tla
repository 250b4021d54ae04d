---------------------------- MODULE MCFakeIpPool ----------------------------
(* Two concurrent calls on a pool with two fake addresses. *)
EXTENDS FakeIpPool, TLC

Symmetry == Permutations(Callers) \cup Permutations(Hosts)
=============================================================================
