----------------------------- MODULE Conntrack -----------------------------
(***************************************************************************)
(* The connection tracking table of one L3 session                         *)
(* (crates/atrust-l3/src/conntrack.rs): two indexes over the same entries, *)
(* idle expiry, and trimming to a capacity by least recent use.            *)
(*                                                                         *)
(* Every action is one critical section of the session's conntrack mutex.  *)
(* A resource stands for the pair (app_id, node_group_id).  try_start_auth *)
(* runs in the critical section that creates the entry, so an entry        *)
(* without an outcome is one whose authorization is in flight.  Time is    *)
(* counted in units of the sweep interval.                                 *)
(***************************************************************************)
EXTENDS Integers, FiniteSets

CONSTANTS Keys, Resources,
          NoEntry, NoKey,
          Capacity,    \* L3_CONNTRACK_CAPACITY
          IdleTtl,     \* L3_CONNTRACK_IDLE_TTL
          SweepEvery,  \* one second: full scans run at most this often
          MaxAuthId,   \* bound on the ids issued
          MaxTime      \* bound on the clock

VARIABLES by_key,        \* flow key -> entry
          by_id,         \* auth id -> flow key
          next_auth_id,  \* the last id issued
          last_sweep,
          now

vars == <<by_key, by_id, next_auth_id, last_sweep, now>>

Ids      == 1 .. MaxAuthId
Outcomes == {"none", "ready", "failed"}
Entries  == [id : Ids, resource : Resources, outcome : Outcomes, last_used : Nat]
Attempts == [id : Ids, resource : Resources, outcome : Outcomes]

ASSUME ConntrackAssumption ==
    /\ NoEntry \notin Entries /\ NoEntry \notin Attempts
    /\ NoKey \notin Keys
    /\ Capacity \in Nat \ {0} /\ MaxAuthId \in Nat /\ MaxTime \in Nat
    /\ IdleTtl \in Nat /\ SweepEvery \in Nat

TypeOK == /\ by_key \in [Keys -> Entries \cup {NoEntry}]
          /\ by_id \in [Ids -> Keys \cup {NoKey}]
          /\ next_auth_id \in 0 .. MaxAuthId
          /\ last_sweep \in 0 .. MaxTime
          /\ now \in 0 .. MaxTime

Init == /\ by_key = [k \in Keys |-> NoEntry]
        /\ by_id = [i \in Ids |-> NoKey]
        /\ next_auth_id = 0
        /\ last_sweep = 0
        /\ now = 0
-----------------------------------------------------------------------------
Present == {k \in Keys : by_key[k] # NoEntry}

InFlight(k) == by_key[k].outcome = "none"

IdleTooLong(k) == ~InFlight(k) /\ now - by_key[k].last_used >= IdleTtl

(* The two halves of evict, for a set of tracked flows. *)
KeysWithout(gone) == [k \in Keys |-> IF k \in gone THEN NoEntry ELSE by_key[k]]

IdsWithoutNothing(gone) == by_id

IdsWithout(gone) ==
    [i \in Ids |-> IF \E k \in gone : by_key[k].id = i THEN NoKey ELSE by_id[i]]

(* The flows one prune_at_with_room may evict: every idle one, then as many *)
(* settled ones as it takes to get down to `room` entries (or all of them), *)
(* least recently used first.  Equal clocks leave the choice to the order   *)
(* of the hash map.                                                         *)
ExpiredWhileWaiting == {k \in Present : now - by_key[k].last_used >= IdleTtl}

Expired == {k \in Present : IdleTooLong(k)}

LeastRecentlyUsed(left, room) ==
    LET settled == {k \in left : ~InFlight(k)}
        excess  == Cardinality(left) - room
    IN  {V \in SUBSET settled :
            /\ Cardinality(V) =
                 CASE excess <= 0                    -> 0
                   [] excess > Cardinality(settled)  -> Cardinality(settled)
                   [] OTHER                          -> excess
            /\ \A v \in V, s \in settled \ V :
                   by_key[v].last_used <= by_key[s].last_used}

Pruned(room) == {Expired \cup V : V \in LeastRecentlyUsed(Present \ Expired, room)}

(* maintain_for_flow: the packet fast path skips the scan unless the        *)
(* addressed flow expired, a second has passed, or a new flow needs space.  *)
SweepDueByClock(k) == \/ now - last_sweep >= SweepEvery
                      \/ k \notin Present /\ Cardinality(Present) >= Capacity

SweepDue(k) == \/ k \in Expired
               \/ now - last_sweep >= SweepEvery
               \/ k \notin Present /\ Cardinality(Present) >= Capacity

RoomNoReserve(k) == Capacity

Room(k) == IF k \in Present THEN Capacity ELSE Capacity - 1

FreshAuthIdFromZero == next_auth_id

FreshAuthId == next_auth_id + 1

(* The critical section of authorize_flow: maintain_for_flow, eviction of   *)
(* an entry that belongs to another resource, get_or_create, try_start_auth. *)
Authorize(k, r) ==
    \E pruned \in (IF SweepDue(k) THEN Pruned(Room(k)) ELSE {{}}) :
        LET moved == {j \in {k} \cap Present : by_key[j].resource # r}
            gone  == pruned \cup moved
        IN  /\ last_sweep' = IF SweepDue(k) THEN now ELSE last_sweep
            /\ \/ /\ k \in Present \ gone
                  /\ by_key' = [KeysWithout(gone) EXCEPT ![k].last_used = now]
                  /\ by_id' = IdsWithout(gone)
                  /\ UNCHANGED <<next_auth_id, now>>
               \/ /\ k \notin Present \ gone
                  /\ next_auth_id < MaxAuthId
                  /\ next_auth_id' = next_auth_id + 1
                  /\ by_key' = [KeysWithout(gone) EXCEPT ![k] =
                         [id |-> FreshAuthId, resource |-> r,
                          outcome |-> "none", last_used |-> now]]
                  /\ by_id' = [IdsWithout(gone) EXCEPT ![FreshAuthId] = k]
                  /\ UNCHANGED now

(* complete: idempotent after the first completion. *)
Complete(k, o) ==
    by_key' = IF InFlight(k) THEN [by_key EXCEPT ![k].outcome = o] ELSE by_key

(* What a 0x93 body or a failing wire status does to its entry.  An answer  *)
(* for an id that is not indexed changes nothing.                           *)
Replies == {"token", "empty_token", "denied", "wire_status"}

MarkAuth(i, reply) ==
    /\ by_id[i] # NoKey
    /\ by_key[by_id[i]] # NoEntry
    /\ Complete(by_id[i], IF reply = "token" THEN "ready" ELSE "failed")
    /\ UNCHANGED <<by_id, next_auth_id, last_sweep, now>>

EvictByAuthId(i) ==
    /\ by_id[i] # NoKey
    /\ by_key[by_id[i]] # NoEntry
    /\ by_key' = KeysWithout({by_id[i]})
    /\ by_id' = IdsWithout({by_id[i]})
    /\ UNCHANGED <<next_auth_id, last_sweep, now>>

Touch(k) ==
    /\ k \in Present
    /\ by_key' = [by_key EXCEPT ![k].last_used = now]
    /\ UNCHANGED <<by_id, next_auth_id, last_sweep, now>>

Clear ==
    /\ by_key' = [k \in Keys |-> NoEntry]
    /\ by_id' = [i \in Ids |-> NoKey]
    /\ UNCHANGED <<next_auth_id, last_sweep, now>>

(* prune, the public entry point: always reserves room and records no sweep. *)
Prune ==
    \E gone \in Pruned(Capacity - 1) :
        /\ by_key' = KeysWithout(gone)
        /\ by_id' = IdsWithout(gone)
        /\ UNCHANGED <<next_auth_id, last_sweep, now>>

Tick == /\ now < MaxTime
        /\ now' = now + 1
        /\ UNCHANGED <<by_key, by_id, next_auth_id, last_sweep>>

Next == \/ \E k \in Keys, r \in Resources : Authorize(k, r)
        \/ \E i \in Ids, reply \in Replies : MarkAuth(i, reply)
        \/ \E i \in Ids : EvictByAuthId(i)
        \/ \E k \in Keys : Touch(k)
        \/ Clear
        \/ Prune
        \/ Tick

Spec == Init /\ [][Next]_vars
-----------------------------------------------------------------------------
(* The two indexes describe the same set of flows: every tracked flow is    *)
(* reachable by its id, and an id leads to the entry that carries it.  evict *)
(* maintains them in two separate removals.                                  *)
IndexesAgree ==
    /\ \A k \in Present : by_id[by_key[k].id] = k
    /\ \A i \in Ids : by_id[i] # NoKey =>
           by_id[i] \in Present /\ by_key[by_id[i]].id = i

(* The table grows past its capacity only while every other entry waits for  *)
(* its verdict: as long as there is a settled flow to evict, adding a flow   *)
(* keeps the bound.                                                          *)
OverCapacityOnlyInFlight ==
    [][Cardinality(Present') > Cardinality(Present) /\ Cardinality(Present') > Capacity
          => \A k \in Present' : InFlight(k)']_vars

(* A packet is never sent on a verdict that outlived the idle TTL: claiming  *)
(* an expired flow starts a new authorization although the full scan is      *)
(* rate limited.                                                             *)
ExpiredNeverServed ==
    [][\A k \in Keys, r \in Resources :
          k \in Expired /\ Authorize(k, r) => by_key'[k].id = next_auth_id']_vars

(* The table implements FlowTable: its clocks and its second index disappear, *)
(* and whatever pruning does is forgetting settled attempts.                  *)
Attempt(e) == IF e = NoEntry THEN NoEntry
              ELSE [id |-> e.id, resource |-> e.resource, outcome |-> e.outcome]

AttemptTable == [k \in Keys |-> Attempt(by_key[k])]

Promise == INSTANCE FlowTable WITH table <- AttemptTable

ImplementsFlowTable == Promise!TableSpec
=============================================================================
