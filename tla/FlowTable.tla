----------------------------- MODULE FlowTable -----------------------------
(***************************************************************************)
(* What the connection tracking of one L3 session promises its callers.    *)
(*                                                                         *)
(* A flow (five-tuple) is bound to at most one authorization attempt.  An  *)
(* attempt is named by an id that is never issued twice, belongs to one    *)
(* flow and one resource for ever, and receives at most one verdict.  An   *)
(* attempt that waits for its verdict is dropped only when somebody asks   *)
(* for it: its owner gives up, the flow moves to another resource, or the  *)
(* whole table is cleared.  Settled attempts may be forgotten at any claim. *)
(*                                                                         *)
(* Conntrack (the table itself) and L3Session (its users, at the           *)
(* granularity of their critical sections) both implement this module.     *)
(***************************************************************************)
EXTENDS Naturals

CONSTANTS Keys,       \* flow keys
          Resources,  \* (app_id, node_group_id) pairs
          NoEntry,    \* a key that is not tracked
          MaxAuthId   \* bound on the ids issued

VARIABLES table,        \* key -> attempt, or NoEntry
          next_auth_id  \* the last id issued

tableVars == <<table, next_auth_id>>

Ids      == 1 .. MaxAuthId
Verdicts == {"ready", "failed"}
Attempts == [id : Ids, resource : Resources, outcome : Verdicts \cup {"none"}]

Pending(k)  == table[k] # NoEntry /\ table[k].outcome = "none"
Settled     == {k \in Keys : table[k] # NoEntry /\ table[k].outcome # "none"}

TableInit == /\ table = [k \in Keys |-> NoEntry]
             /\ next_auth_id = 0

Without(forgotten) == [k \in Keys |-> IF k \in forgotten THEN NoEntry ELSE table[k]]

(* Claim flow k for resource r: forget some settled attempts, then either  *)
(* keep k's attempt for r, or start a new one under the next id.           *)
Claim(k, r) ==
    \E forgotten \in SUBSET Settled :
        LET keeps == k \notin forgotten /\ table[k] # NoEntry /\ table[k].resource = r
        IN  IF keeps
            THEN table' = Without(forgotten) /\ UNCHANGED next_auth_id
            ELSE /\ next_auth_id < MaxAuthId
                 /\ next_auth_id' = next_auth_id + 1
                 /\ table' = [Without(forgotten) EXCEPT ![k] =
                        [id |-> next_auth_id + 1, resource |-> r, outcome |-> "none"]]

ForgetSettled == \E forgotten \in SUBSET Settled :
                     table' = Without(forgotten) /\ UNCHANGED next_auth_id

(* The first verdict of a pending attempt. *)
Settle(k, v) == /\ Pending(k)
                /\ table' = [table EXCEPT ![k].outcome = v]
                /\ UNCHANGED next_auth_id

GiveUp(k) == /\ table[k] # NoEntry
             /\ table' = [table EXCEPT ![k] = NoEntry]
             /\ UNCHANGED next_auth_id

Forget == /\ table' = [k \in Keys |-> NoEntry]
          /\ UNCHANGED next_auth_id

TableNext == \/ \E k \in Keys, r \in Resources : Claim(k, r)
             \/ \E k \in Keys, v \in Verdicts : Settle(k, v)
             \/ \E k \in Keys : GiveUp(k)
             \/ ForgetSettled
             \/ Forget

TableSpec == TableInit /\ [][TableNext]_tableVars
=============================================================================
