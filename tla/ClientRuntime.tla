--------------------------- MODULE ClientRuntime ---------------------------
(***************************************************************************)
(* One authenticated client session (crates/atrust-client/src/client.rs):  *)
(* the resource cache that publishes generations, the reconciler and the   *)
(* node prober that carry them to the cache of node group managers         *)
(* (crates/atrust-l3/src/manager.rs), the flows that are dispatched on     *)
(* snapshots of their own, and shutdown.                                   *)
(*                                                                         *)
(* A generation stands for its response: content is the set of groups that *)
(* the latest one advertises, and the endpoints of a group are named by    *)
(* the generation they come from.  A manager is what L3Manager promises of *)
(* it: session() connects unless it is retired, close ends the connection, *)
(* and after retire and close there is none any more.                      *)
(***************************************************************************)
EXTENDS Naturals, FiniteSets

CONSTANTS Groups, Flows, NoGroup,
          MaxGeneration,   \* bound on the generations published
          MaxManagers      \* bound on the managers ever created

VARIABLES generation, content,  \* ResourceCache.current
          stop, retired,        \* ClientSession.stop, L3SessionManagerCache.retired
          cache,                \* group -> [manager, gen], manager 0 for none
          mgr,                  \* the managers
          flow,                 \* dispatch
          prober, reconciler, shutdown

vars == <<generation, content, stop, retired, cache, mgr, flow, prober, reconciler, shutdown>>

Generations == 1 .. MaxGeneration
ManagerIds  == 1 .. MaxManagers

ASSUME ClientRuntimeAssumption ==
    MaxGeneration \in Nat \ {0} /\ MaxManagers \in Nat /\ NoGroup \notin Groups

Slots     == [manager : ManagerIds \cup {0}, gen : Generations \cup {0}]
Managers  == [group : Groups \cup {NoGroup}, endpoints : Generations \cup {0},
              retired : BOOLEAN, live : BOOLEAN]
Dispatches == [pc : {"idle", "lookup", "connect"}, gen : Generations \cup {0},
               group : Groups \cup {NoGroup}, manager : ManagerIds \cup {0}]
Probers   == [pc : {"run", "gone"}, gen : Generations \cup {0}, left : SUBSET Groups]
Reconcilers == [pc : {"wait", "lock", "apply", "gone"}, gen : Generations,
                groups : SUBSET Groups,
                updated : SUBSET ManagerIds, removed : SUBSET ManagerIds]
Shutdowns == [pc : {"no", "collect", "retire", "join", "drain", "close", "done"},
              list : SUBSET ManagerIds]

TypeOK ==
    /\ generation \in Generations
    /\ content \subseteq Groups
    /\ stop \in BOOLEAN /\ retired \in BOOLEAN
    /\ cache \in [Groups -> Slots]
    /\ mgr \in [ManagerIds -> Managers]
    /\ flow \in [Flows -> Dispatches]
    /\ prober \in Probers /\ reconciler \in Reconcilers /\ shutdown \in Shutdowns

NoFlow == [pc |-> "idle", gen |-> 0, group |-> NoGroup, manager |-> 0]
Empty  == [manager |-> 0, gen |-> 0]
Unused == [group |-> NoGroup, endpoints |-> 0, retired |-> FALSE, live |-> FALSE]

Init ==
    /\ generation = 1
    /\ content \in SUBSET Groups
    /\ stop = FALSE /\ retired = FALSE
    /\ cache = [g \in Groups |-> Empty]
    /\ mgr = [m \in ManagerIds |-> Unused]
    /\ flow = [f \in Flows |-> NoFlow]
    /\ prober = [pc |-> "run", gen |-> 0, left |-> {}]
    /\ reconciler = [pc |-> "wait", gen |-> 1, groups |-> {}, updated |-> {}, removed |-> {}]
    /\ shutdown = [pc |-> "no", list |-> {}]
-----------------------------------------------------------------------------
Cached(g) == cache[g].manager # 0


CachedManagers == {cache[g].manager : g \in Groups} \ {0}

(* An update counts only if it is as new as the last one that counted. *)
AnyGeneration(n, g) == TRUE

StrictlyNewer(n, g) == n > cache[g].gen

Current(n, g) == n >= cache[g].gen

(* retire: the flag, and a close request that is skipped while the manager's *)
(* lock is taken.                                                            *)
Retire(M) ==
    \E busy \in SUBSET M :
        mgr' = [m \in ManagerIds |-> IF m \in M
                   THEN [mgr[m] EXCEPT !.retired = TRUE, !.live = @ /\ m \in busy]
                   ELSE mgr[m]]

Close(m) == mgr' = [mgr EXCEPT ![m].live = FALSE]

(* refresh, by the periodic task or by hand: the response is published as    *)
(* the next generation and replaces what the watch channel holds.            *)
Publish(G) ==
    /\ generation < MaxGeneration
    /\ shutdown.pc \in {"no", "collect", "retire", "join"}
    /\ generation' = generation + 1
    /\ content' = G
    /\ UNCHANGED <<stop, retired, cache, mgr, flow, prober, reconciler, shutdown>>
-----------------------------------------------------------------------------
(* dispatch and connect_node_group: a snapshot, a route in it, endpoints     *)
(* (which may take a probe), then the manager of the group.                  *)
Dispatch(f, g) ==
    /\ flow[f].pc = "idle" /\ ~stop
    /\ g \in content
    /\ flow' = [flow EXCEPT ![f] = [pc |-> "lookup", gen |-> generation, group |-> g,
                                    manager |-> 0]]
    /\ UNCHANGED <<generation, content, stop, retired, cache, mgr, prober, reconciler, shutdown>>

CacheRetiredIgnored(was, busy) == was

(* A manager handed out by a retired cache is retired. *)
HandedOut(was, busy) == IF retired THEN [was EXCEPT !.retired = TRUE, !.live = @ /\ busy] ELSE was

(* manager_for_generation *)
Lookup(f) ==
    LET n     == flow[f].gen
        g     == flow[f].group
        fresh == [group |-> g, endpoints |-> n, retired |-> FALSE, live |-> FALSE]
    IN  /\ flow[f].pc = "lookup"
        /\ \E m \in ManagerIds, busy \in BOOLEAN :
             /\ IF Cached(g) THEN m = cache[g].manager
                ELSE mgr[m] = Unused /\ \A k \in 1 .. m - 1 : mgr[k] # Unused
             /\ LET found == IF ~Cached(g) THEN fresh
                             ELSE IF Current(n, g) THEN [mgr[m] EXCEPT !.endpoints = n]
                             ELSE mgr[m]
                IN  mgr' = [mgr EXCEPT ![m] = HandedOut(found, busy)]
             /\ cache' = [cache EXCEPT ![g] =
                    IF Current(n, g) THEN [manager |-> m, gen |-> n] ELSE @]
             /\ flow' = [flow EXCEPT ![f].pc = "connect", ![f].manager = m]
        /\ UNCHANGED <<generation, content, stop, retired, prober, reconciler, shutdown>>

(* session() of the manager, and the end of the call. *)
Connect(f) ==
    LET m == flow[f].manager
    IN  /\ flow[f].pc = "connect"
        /\ mgr' = [mgr EXCEPT ![m].live = @ \/ ~mgr[m].retired]
        /\ flow' = [flow EXCEPT ![f] = NoFlow]
        /\ UNCHANGED <<generation, content, stop, retired, cache, prober, reconciler, shutdown>>

(* The stop signal, the caller's own deadline or a failure ends the call. *)
Abandon(f) ==
    /\ flow[f].pc # "idle"
    /\ flow' = [flow EXCEPT ![f] = NoFlow]
    /\ UNCHANGED <<generation, content, stop, retired, cache, mgr, prober, reconciler, shutdown>>
-----------------------------------------------------------------------------
(* The node prober: one snapshot per round. *)
ProbeRound ==
    /\ prober.pc = "run" /\ prober.left = {} /\ content # {}
    /\ prober' = [prober EXCEPT !.gen = generation, !.left = content]
    /\ UNCHANGED <<generation, content, stop, retired, cache, mgr, flow, reconciler, shutdown>>

(* update_endpoints_for_generation *)
Probed(g) ==
    /\ prober.pc = "run" /\ g \in prober.left
    /\ prober' = [prober EXCEPT !.left = @ \ {g}, !.gen = IF prober.left = {g} THEN 0 ELSE @]
    /\ IF Cached(g) /\ Current(prober.gen, g)
       THEN /\ cache' = [cache EXCEPT ![g].gen = prober.gen]
            /\ mgr' = [mgr EXCEPT ![cache[g].manager].endpoints = prober.gen]
       ELSE UNCHANGED <<cache, mgr>>
    /\ UNCHANGED <<generation, content, stop, retired, flow, reconciler, shutdown>>
-----------------------------------------------------------------------------
(* The reconciler: the latest generation only, those between are skipped. *)
Changed ==
    /\ reconciler.pc = "wait" /\ reconciler.gen # generation
    /\ reconciler' = [reconciler EXCEPT !.pc = "lock", !.gen = generation, !.groups = content]
    /\ UNCHANGED <<generation, content, stop, retired, cache, mgr, flow, prober, shutdown>>

(* reconcile under the lock: which managers stay and which go. *)
Reconcile ==
    LET n       == reconciler.gen
        current == {g \in Groups : Cached(g) /\ Current(n, g)}
        removed == current \ reconciler.groups
        kept    == current \cap reconciler.groups
    IN  /\ reconciler.pc = "lock"
        /\ cache' = [g \in Groups |-> IF g \in removed THEN Empty
                                      ELSE IF g \in kept THEN [cache[g] EXCEPT !.gen = n]
                                      ELSE cache[g]]
        /\ reconciler' = [reconciler EXCEPT !.pc = "apply", !.groups = {},
                              !.updated = {cache[g].manager : g \in kept},
                              !.removed = {cache[g].manager : g \in removed}]
        /\ UNCHANGED <<generation, content, stop, retired, mgr, flow, prober, shutdown>>

(* Outside the lock: first the endpoints, then retire and close. *)
ApplyUpdate(m) ==
    /\ m \in reconciler.updated
    /\ mgr' = [mgr EXCEPT ![m].endpoints = reconciler.gen]
    /\ reconciler' = [reconciler EXCEPT !.updated = @ \ {m}]
    /\ UNCHANGED <<generation, content, stop, retired, cache, flow, prober, shutdown>>

RetireRemoved(m) ==
    /\ reconciler.updated = {} /\ m \in reconciler.removed
    /\ ~mgr[m].retired
    /\ Retire({m})
    /\ UNCHANGED <<generation, content, stop, retired, cache, flow, prober, reconciler, shutdown>>

CloseRemovedOnly(m) ==
    /\ reconciler.updated = {} /\ m \in reconciler.removed
    /\ Close(m)
    /\ reconciler' = [reconciler EXCEPT !.removed = @ \ {m}]
    /\ UNCHANGED <<generation, content, stop, retired, cache, flow, prober, shutdown>>

CloseRemoved(m) ==
    /\ reconciler.updated = {} /\ m \in reconciler.removed
    /\ mgr[m].retired
    /\ Close(m)
    /\ reconciler' = [reconciler EXCEPT !.removed = @ \ {m}]
    /\ UNCHANGED <<generation, content, stop, retired, cache, flow, prober, shutdown>>

Reconciled ==
    /\ reconciler.pc = "apply" /\ reconciler.updated = {} /\ reconciler.removed = {}
    /\ reconciler' = [reconciler EXCEPT !.pc = "wait"]
    /\ UNCHANGED <<generation, content, stop, retired, cache, mgr, flow, prober, shutdown>>
-----------------------------------------------------------------------------
(* shutdown of the session: stop, retire every manager, end the background   *)
(* tasks one after the other, close what the cache holds.                    *)
ShutdownStart ==
    /\ shutdown.pc = "no"
    /\ stop' = TRUE /\ retired' = TRUE
    /\ shutdown' = [shutdown EXCEPT !.pc = "collect"]
    /\ UNCHANGED <<generation, content, cache, mgr, flow, prober, reconciler>>

ShutdownCollect ==
    /\ shutdown.pc = "collect"
    /\ shutdown' = [pc |-> "retire", list |-> CachedManagers]
    /\ UNCHANGED <<generation, content, stop, retired, cache, mgr, flow, prober, reconciler>>

ShutdownRetire ==
    /\ shutdown.pc = "retire"
    /\ Retire(shutdown.list)
    /\ prober' = [pc |-> "gone", gen |-> 0, left |-> {}]
    /\ shutdown' = [pc |-> "join", list |-> {}]
    /\ UNCHANGED <<generation, content, stop, retired, cache, flow, reconciler>>

(* The reconciler looks at its stop signal between two generations. *)
ReconcilerStopsOnUpdate ==
    /\ shutdown.pc = "join" /\ reconciler.pc = "wait" /\ reconciler.gen # generation
    /\ reconciler' = [reconciler EXCEPT !.pc = "gone"]
    /\ UNCHANGED <<generation, content, stop, retired, cache, mgr, flow, prober, shutdown>>

ReconcilerStops ==
    /\ shutdown.pc = "join" /\ reconciler.pc = "wait"
    /\ reconciler' = [reconciler EXCEPT !.pc = "gone"]
    /\ UNCHANGED <<generation, content, stop, retired, cache, mgr, flow, prober, shutdown>>

ShutdownJoined ==
    /\ shutdown.pc = "join" /\ reconciler.pc = "gone"
    /\ shutdown' = [shutdown EXCEPT !.pc = "drain"]
    /\ UNCHANGED <<generation, content, stop, retired, cache, mgr, flow, prober, reconciler>>

ShutdownDrain ==
    /\ shutdown.pc = "drain"
    /\ Retire(CachedManagers)
    /\ cache' = [g \in Groups |-> Empty]
    /\ shutdown' = [pc |-> "close", list |-> CachedManagers]
    /\ UNCHANGED <<generation, content, stop, retired, flow, prober, reconciler>>

ShutdownClose ==
    /\ shutdown.pc = "close"
    /\ \/ \E m \in shutdown.list :
            /\ Close(m)
            /\ shutdown' = [shutdown EXCEPT !.list = @ \ {m}]
       \/ /\ shutdown.list = {}
          /\ shutdown' = [shutdown EXCEPT !.pc = "done"]
          /\ UNCHANGED mgr
    /\ UNCHANGED <<generation, content, stop, retired, cache, flow, prober, reconciler>>
-----------------------------------------------------------------------------
FlowStep(f) == Lookup(f) \/ Connect(f) \/ Abandon(f)

ProberStep == ProbeRound \/ \E g \in Groups : Probed(g)

ReconcilerStep ==
    \/ Changed \/ Reconcile \/ Reconciled \/ ReconcilerStops
    \/ \E m \in ManagerIds : ApplyUpdate(m) \/ RetireRemoved(m) \/ CloseRemoved(m)

ShutdownStep == \/ ShutdownCollect \/ ShutdownRetire \/ ShutdownJoined
                \/ ShutdownDrain \/ ShutdownClose

Next == \/ \E G \in SUBSET Groups : Publish(G)
        \/ \E f \in Flows, g \in Groups : Dispatch(f, g)
        \/ \E f \in Flows : FlowStep(f)
        \/ ProberStep \/ ReconcilerStep
        \/ ShutdownStart \/ ShutdownStep

(* The tasks run; calls have deadlines; the prober's rounds are periodic.    *)
(* Nothing makes a refresh, a dispatch or a shutdown happen.                 *)
Fairness == /\ \A f \in Flows : WF_vars(FlowStep(f))
            /\ WF_vars(ProbeRound)
            /\ \A g \in Groups : WF_vars(Probed(g))
            /\ WF_vars(ReconcilerStep)
            /\ WF_vars(ShutdownStep)

Spec     == Init /\ [][Next]_vars
FairSpec == Spec /\ Fairness
-----------------------------------------------------------------------------
(* No connection is left to itself: the manager of a live one is in the      *)
(* cache, or on the list of the reconciler or of shutdown to be closed.      *)
NoLeakedConnection ==
    \A m \in ManagerIds : mgr[m].live =>
        m \in CachedManagers \cup reconciler.removed \cup shutdown.list

(* shutdown "closes every connection": when it is over there is none, and no *)
(* call that was on its way, on any snapshot, opens another one.             *)
ShutdownLeavesNothing == shutdown.pc = "done" => \A m \in ManagerIds : ~mgr[m].live

(* Every connection has an owner until it is closed, and shutdown closes all. *)
NothingLeaks == NoLeakedConnection /\ ShutdownLeavesNothing

(* "An older flow snapshot cannot overwrite endpoint candidates published by *)
(* a refresh": only the reconciler, which applies its update after it has    *)
(* released the lock, can put older endpoints in place.                      *)
OlderSnapshotNeverOverwrites ==
    [][\A m \in ManagerIds : mgr'[m].endpoints < mgr[m].endpoints
           => m \in reconciler.updated /\ mgr'[m].endpoints = reconciler.gen]_vars

(* The delayed update of the reconciler does not last, nor does a manager    *)
(* made for an old snapshot: every manager in use ends up with the endpoints *)
(* of the latest generation.                                                 *)
EndpointsConverge ==
    <>[](stop \/ \A g \in content :
                    Cached(g) => mgr[cache[g].manager].endpoints = generation)

(* Once a shutdown has begun it comes to its end, although it waits for a    *)
(* reconciler that may be in the middle of closing managers.                 *)
ShutdownEnds == shutdown.pc # "no" ~> shutdown.pc = "done"

(* What the background work of a client comes to: the endpoints of the latest *)
(* table, or the end of the shutdown.                                         *)
ClientSettles == EndpointsConverge /\ ShutdownEnds

(* What reconcile says of itself: "removed groups are closed and evicted".   *)
(* With the latest generation applied, no group outside it is cached.        *)
RemovedGroupsAreEvicted ==
    reconciler.pc = "wait" /\ reconciler.gen = generation
        => \A g \in Groups : Cached(g) => g \in content
=============================================================================
