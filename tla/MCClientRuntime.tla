-------------------------- MODULE MCClientRuntime --------------------------
(* ClientRuntime with one node group that comes and goes, and two flows. *)
EXTENDS ClientRuntime

CONSTANTS f1, f2

MCFlows == {f1, f2}
=============================================================================
