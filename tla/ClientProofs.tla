----------------------------- MODULE ClientProofs -----------------------------
(* The manager cache under dispatches on old snapshots, the node prober, the   *)
(* reconciler and shutdown, for any groups, flows and generations.             *)
EXTENDS ClientRuntime, TLAPS

----------------------------------------------------------------------------
(* Types *)

LEMMA TypeInit == Init => TypeOK
<1> SUFFICES ASSUME Init PROVE TypeOK
  OBVIOUS
<1> USE ClientRuntimeAssumption DEF Init, Generations, ManagerIds
<1>1. generation \in Generations /\ content \subseteq Groups
  OBVIOUS
<1>2. stop \in BOOLEAN /\ retired \in BOOLEAN
  BY Zenon
<1>3. cache \in [Groups -> Slots]
  BY DEF Empty, Slots
<1>4. mgr \in [ManagerIds -> Managers]
  BY DEF Unused, Managers
<1>5. flow \in [Flows -> Dispatches]
  BY DEF NoFlow, Dispatches
<1>6. prober \in Probers /\ reconciler \in Reconcilers /\ shutdown \in Shutdowns
  BY DEF Probers, Reconcilers, Shutdowns
<1> QED BY <1>1, <1>2, <1>3, <1>4, <1>5, <1>6 DEF TypeOK

LEMMA CachedAreManagers == TypeOK => CachedManagers \in SUBSET ManagerIds
BY DEF TypeOK, CachedManagers, Slots

LEMMA TypeRetire ==
  ASSUME TypeOK, NEW M \in SUBSET ManagerIds, Retire(M)
  PROVE  mgr' \in [ManagerIds -> Managers]
<1>1. PICK busy \in SUBSET M :
        mgr' = [m \in ManagerIds |-> IF m \in M
                   THEN [mgr[m] EXCEPT !.retired = TRUE, !.live = @ /\ m \in busy]
                   ELSE mgr[m]]
  BY DEF Retire
<1>2. ASSUME NEW m \in ManagerIds
      PROVE  [mgr[m] EXCEPT !.retired = TRUE, !.live = @ /\ m \in busy] \in Managers
  <2>1. mgr[m] \in Managers
    BY DEF TypeOK
  <2> QED BY <2>1 DEF Managers
<1> QED BY <1>1, <1>2 DEF TypeOK

LEMMA TypeFlows ==
  ASSUME TypeOK, NEW f \in Flows, FlowStep(f) PROVE TypeOK'
<1>0. flow[f] \in Dispatches
  BY DEF TypeOK
<1>1. CASE Lookup(f)
  <2> DEFINE n == flow[f].gen
             g == flow[f].group
             fresh == [group |-> g, endpoints |-> n, retired |-> FALSE, live |-> FALSE]
             found(m) == IF ~Cached(g) THEN fresh
                         ELSE IF Current(n, g) THEN [mgr[m] EXCEPT !.endpoints = n] ELSE mgr[m]
  <2>1. PICK m \in ManagerIds, busy \in BOOLEAN :
          /\ mgr' = [mgr EXCEPT ![m] = HandedOut(found(m), busy)]
          /\ cache' = [cache EXCEPT ![g] =
                 IF Current(n, g) THEN [manager |-> m, gen |-> n] ELSE @]
          /\ flow' = [flow EXCEPT ![f].pc = "connect", ![f].manager = m]
    BY <1>1 DEF Lookup
  <2>2. n \in Generations \cup {0} /\ g \in Groups \cup {NoGroup}
    BY <1>0 DEF Dispatches
  <2>3. mgr[m] \in Managers
    BY DEF TypeOK
  <2>4. found(m) \in Managers
    BY <2>2, <2>3 DEF Managers
  <2>5. HandedOut(found(m), busy) \in Managers
    <3> HIDE DEF found
    <3> QED BY <2>4 DEF HandedOut, Managers
  <2>6. mgr' \in [ManagerIds -> Managers]
    BY <2>1, <2>5 DEF TypeOK
  <2>7. cache' \in [Groups -> Slots]
    <3>1. [manager |-> m, gen |-> n] \in Slots
      BY <2>2 DEF Slots
    <3> HIDE DEF n, g
    <3> QED BY <2>1, <3>1 DEF TypeOK
  <2>8. flow' \in [Flows -> Dispatches]
    <3>1. [[flow[f] EXCEPT !.pc = "connect"] EXCEPT !.manager = m] \in Dispatches
      BY <1>0 DEF Dispatches
    <3>2. flow' = [flow EXCEPT ![f] = [[flow[f] EXCEPT !.pc = "connect"] EXCEPT !.manager = m]]
      BY <2>1 DEF TypeOK
    <3> QED BY <3>1, <3>2 DEF TypeOK
  <2> QED BY <1>1, <2>6, <2>7, <2>8 DEF TypeOK, Lookup
<1>2. CASE Connect(f)
  <2> DEFINE m == flow[f].manager
  <2>1. mgr' \in [ManagerIds -> Managers]
    <3>1. mgr' = [mgr EXCEPT ![m].live = @ \/ ~mgr[m].retired]
      BY <1>2 DEF Connect
    <3>2. CASE m \in ManagerIds
      <4>1. mgr[m] \in Managers
        BY <3>2 DEF TypeOK
      <4>2. PICK b \in BOOLEAN : b = (mgr[m].live \/ ~mgr[m].retired)
        BY Zenon
      <4>3. [mgr[m] EXCEPT !.live = b] \in Managers
        BY <4>1 DEF Managers
      <4>4. mgr' = [mgr EXCEPT ![m] = [mgr[m] EXCEPT !.live = b]]
        BY <3>1, <4>2, Zenon
      <4> QED BY <4>3, <4>4 DEF TypeOK
    <3>3. CASE m \notin ManagerIds
      BY <3>1, <3>3 DEF TypeOK
    <3> QED BY <3>2, <3>3
  <2>2. flow' \in [Flows -> Dispatches]
    BY <1>2 DEF TypeOK, Connect, NoFlow, Dispatches
  <2> QED BY <1>2, <2>1, <2>2 DEF TypeOK, Connect
<1>3. CASE Abandon(f)
  <2>1. flow' \in [Flows -> Dispatches]
    BY <1>3 DEF TypeOK, Abandon, NoFlow, Dispatches
  <2> QED BY <1>3, <2>1 DEF TypeOK, Abandon
<1> QED BY <1>1, <1>2, <1>3 DEF FlowStep

LEMMA TypeProber ==
  ASSUME TypeOK, ProberStep PROVE TypeOK'
<1>1. CASE ProbeRound
  <2>1. prober' \in Probers
    BY <1>1 DEF TypeOK, ProbeRound, Probers
  <2> QED BY <1>1, <2>1 DEF TypeOK, ProbeRound
<1>2. ASSUME NEW g \in Groups, Probed(g) PROVE TypeOK'
  <2>1. prober' \in Probers
    BY <1>2 DEF TypeOK, Probed, Probers
  <2>2. cache' \in [Groups -> Slots]
    BY <1>2 DEF TypeOK, Probed, Slots, Probers
  <2>3. mgr' \in [ManagerIds -> Managers]
    BY <1>2 DEF TypeOK, Probed, Managers, Probers
  <2> QED BY <1>2, <2>1, <2>2, <2>3 DEF TypeOK, Probed
<1> QED BY <1>1, <1>2 DEF ProberStep

LEMMA TypeReconciler ==
  ASSUME TypeOK, ReconcilerStep PROVE TypeOK'
<1>1. CASE Changed
  <2>1. reconciler' \in Reconcilers
    BY <1>1 DEF TypeOK, Changed, Reconcilers
  <2> QED BY <1>1, <2>1 DEF TypeOK, Changed
<1>2. CASE Reconcile
  <2>1. reconciler' \in Reconcilers
    <3> DEFINE current == {g \in Groups : Cached(g) /\ Current(reconciler.gen, g)}
               removed == {cache[g].manager : g \in current \ reconciler.groups}
               updated == {cache[g].manager : g \in current \cap reconciler.groups}
    <3>1. removed \in SUBSET ManagerIds /\ updated \in SUBSET ManagerIds
      BY DEF TypeOK, Cached, Slots
    <3>2. reconciler' = [reconciler EXCEPT !.pc = "apply", !.groups = {},
                                           !.updated = updated, !.removed = removed]
      BY <1>2 DEF Reconcile
    <3> HIDE DEF removed, updated
    <3> QED BY <3>1, <3>2 DEF TypeOK, Reconcilers
  <2>2. cache' \in [Groups -> Slots]
    BY <1>2 DEF TypeOK, Reconcile, Empty, Reconcilers, Slots
  <2> QED BY <1>2, <2>1, <2>2 DEF TypeOK, Reconcile
<1>3. CASE Reconciled
  <2>1. reconciler' \in Reconcilers
    BY <1>3 DEF TypeOK, Reconciled, Reconcilers
  <2> QED BY <1>3, <2>1 DEF TypeOK, Reconciled
<1>4. CASE ReconcilerStops
  <2>1. reconciler' \in Reconcilers
    BY <1>4 DEF TypeOK, ReconcilerStops, Reconcilers
  <2> QED BY <1>4, <2>1 DEF TypeOK, ReconcilerStops
<1>5. ASSUME NEW m \in ManagerIds, ApplyUpdate(m) PROVE TypeOK'
  <2>1. reconciler' \in Reconcilers
    BY <1>5 DEF TypeOK, ApplyUpdate, Reconcilers
  <2>2. mgr' \in [ManagerIds -> Managers]
    BY <1>5 DEF TypeOK, ApplyUpdate, Reconcilers, Managers
  <2> QED BY <1>5, <2>1, <2>2 DEF TypeOK, ApplyUpdate
<1>6. ASSUME NEW m \in ManagerIds, RetireRemoved(m) PROVE TypeOK'
  <2>1. mgr' \in [ManagerIds -> Managers]
    BY <1>6, TypeRetire DEF RetireRemoved
  <2> QED BY <1>6, <2>1 DEF TypeOK, RetireRemoved
<1>7. ASSUME NEW m \in ManagerIds, CloseRemoved(m) PROVE TypeOK'
  <2>1. reconciler' \in Reconcilers
    BY <1>7 DEF TypeOK, CloseRemoved, Reconcilers
  <2>2. mgr' \in [ManagerIds -> Managers]
    BY <1>7 DEF TypeOK, CloseRemoved, Close, Managers
  <2> QED BY <1>7, <2>1, <2>2 DEF TypeOK, CloseRemoved
<1> QED BY <1>1, <1>2, <1>3, <1>4, <1>5, <1>6, <1>7 DEF ReconcilerStep

LEMMA TypeShutdown ==
  ASSUME TypeOK, ShutdownStart \/ ShutdownStep PROVE TypeOK'
<1>0. CachedManagers \in SUBSET ManagerIds /\ shutdown.list \in SUBSET ManagerIds
  BY CachedAreManagers DEF TypeOK, Shutdowns
<1>1. CASE ShutdownStart
  <2>1. shutdown' \in Shutdowns
    BY <1>1 DEF TypeOK, ShutdownStart, Shutdowns
  <2>2. stop' \in BOOLEAN /\ retired' \in BOOLEAN
    BY <1>1, Zenon DEF ShutdownStart
  <2> QED BY <1>1, <2>1, <2>2 DEF TypeOK, ShutdownStart
<1>2. CASE ShutdownCollect
  <2>1. shutdown' \in Shutdowns
    BY <1>0, <1>2 DEF ShutdownCollect, Shutdowns
  <2> QED BY <1>2, <2>1 DEF TypeOK, ShutdownCollect
<1>3. CASE ShutdownRetire
  <2>1. shutdown' \in Shutdowns /\ prober' \in Probers
    BY <1>3 DEF ShutdownRetire, Shutdowns, Probers
  <2>2. mgr' \in [ManagerIds -> Managers]
    BY <1>0, <1>3, TypeRetire DEF ShutdownRetire
  <2> QED BY <1>3, <2>1, <2>2 DEF TypeOK, ShutdownRetire
<1>4. CASE ShutdownJoined
  <2>1. shutdown' \in Shutdowns
    BY <1>4 DEF TypeOK, ShutdownJoined, Shutdowns
  <2> QED BY <1>4, <2>1 DEF TypeOK, ShutdownJoined
<1>5. CASE ShutdownDrain
  <2>1. shutdown' \in Shutdowns
    BY <1>0, <1>5 DEF ShutdownDrain, Shutdowns
  <2>2. mgr' \in [ManagerIds -> Managers]
    BY <1>0, <1>5, TypeRetire DEF ShutdownDrain
  <2>3. cache' \in [Groups -> Slots]
    BY <1>5 DEF ShutdownDrain, Slots, Empty
  <2> QED BY <1>5, <2>1, <2>2, <2>3 DEF TypeOK, ShutdownDrain
<1>6. CASE ShutdownClose
  <2>1. shutdown' \in Shutdowns
    <3>1. shutdown' = [shutdown EXCEPT !.pc = "done"]
            \/ \E m \in shutdown.list : shutdown' = [shutdown EXCEPT !.list = @ \ {m}]
      BY <1>6 DEF ShutdownClose
    <3> QED BY <3>1 DEF TypeOK, Shutdowns
  <2>2. mgr' \in [ManagerIds -> Managers]
    <3>1. mgr' = mgr \/ \E m \in shutdown.list : mgr' = [mgr EXCEPT ![m].live = FALSE]
      BY <1>6 DEF ShutdownClose, Close
    <3> QED BY <1>0, <3>1 DEF TypeOK, Managers
  <2> QED BY <1>6, <2>1, <2>2 DEF TypeOK, ShutdownClose
<1> QED BY <1>1, <1>2, <1>3, <1>4, <1>5, <1>6 DEF ShutdownStep

LEMMA TypeStep == TypeOK /\ [Next]_vars => TypeOK'
<1> SUFFICES ASSUME TypeOK, [Next]_vars PROVE TypeOK'
  OBVIOUS
<1>1. ASSUME NEW G \in SUBSET Groups, Publish(G) PROVE TypeOK'
  <2>1. generation' \in Generations
    BY <1>1, ClientRuntimeAssumption DEF TypeOK, Publish, Generations
  <2> QED BY <1>1, <2>1 DEF TypeOK, Publish
<1>2. ASSUME NEW f \in Flows, NEW g \in Groups, Dispatch(f, g) PROVE TypeOK'
  <2>1. flow' \in [Flows -> Dispatches]
    BY <1>2 DEF TypeOK, Dispatch, Dispatches
  <2> QED BY <1>2, <2>1 DEF TypeOK, Dispatch
<1>3. CASE UNCHANGED vars
  BY <1>3 DEF TypeOK, vars
<1> QED BY <1>1, <1>2, <1>3, TypeFlows, TypeProber, TypeReconciler, TypeShutdown DEF Next

(* Every variable of the client runtime keeps its type. *)
THEOREM ClientTypeCorrect == Spec => []TypeOK
BY TypeInit, TypeStep, PTL DEF Spec
----------------------------------------------------------------------------
(* The inductive invariant *)

InUse(m)  == mgr[m].group # NoGroup
InCache(m) == \E g \in Groups : cache[g].manager = m

(* The cache and the managers: a slot names a manager of its own group, whose *)
(* endpoints are no newer than the slot, and an empty slot has no generation. *)
SlotsMatch ==
    \A g \in Groups : IF Cached(g) THEN /\ mgr[cache[g].manager].group = g
                                        /\ mgr[cache[g].manager].endpoints <= cache[g].gen
                                   ELSE cache[g].gen = 0

(* What the reconciler still has to do concerns managers in use, and a manager *)
(* that waits for its update is cached for that generation or a newer one.     *)
UpdatesPending ==
    /\ reconciler.pc # "apply" => reconciler.updated = {} /\ reconciler.removed = {}
    /\ \A m \in reconciler.updated \cup reconciler.removed : InUse(m)
    /\ \A g \in Groups : cache[g].manager \in reconciler.updated => reconciler.gen <= cache[g].gen

(* A call on its way has a group to look up, or a manager in use. *)
CallsKnow ==
    \A f \in Flows :
        /\ flow[f].pc = "lookup" => flow[f].group \in Groups
        /\ flow[f].pc = "connect" => flow[f].manager \in ManagerIds /\ InUse(flow[f].manager)

(* Before shutdown has drained the cache, what may connect or is connected is *)
(* cached or about to be closed; afterwards nothing may connect any more, and *)
(* what is connected is on the list of shutdown.                              *)
Owned ==
    \A m \in ManagerIds :
        /\ ~InUse(m) => ~mgr[m].live
        /\ InUse(m) /\ ~mgr[m].retired => InCache(m) \/ m \in reconciler.removed
        /\ mgr[m].live => IF shutdown.pc \in {"close", "done"} THEN m \in shutdown.list
                          ELSE InCache(m) \/ m \in reconciler.removed
        /\ shutdown.pc \in {"close", "done"} /\ InUse(m) => mgr[m].retired

(* How far shutdown is. *)
Ending ==
    /\ shutdown.pc # "no" => retired
    /\ shutdown.pc \in {"drain", "close", "done"} => reconciler.pc = "gone"
    /\ shutdown.pc = "done" => shutdown.list = {}

Clean == SlotsMatch /\ UpdatesPending /\ CallsKnow /\ Owned /\ Ending

LEMMA CleanInit == Init => Clean
<1> SUFFICES ASSUME Init PROVE Clean
  OBVIOUS
<1>1. SlotsMatch /\ UpdatesPending
  BY DEF Init, SlotsMatch, Cached, Empty, UpdatesPending
<1>2. CallsKnow /\ Ending
  BY DEF Init, CallsKnow, NoFlow, Ending
<1>3. Owned
  BY DEF Init, Owned, InUse, Unused
<1> QED BY <1>1, <1>2, <1>3 DEF Clean

LEMMA CleanLeaksNothing == TypeOK /\ Clean => NothingLeaks
BY DEF TypeOK, Clean, Owned, Ending, InCache, NothingLeaks, NoLeakedConnection,
       ShutdownLeavesNothing, CachedManagers, ManagerIds

(* Retiring changes the two flags only. *)
LEMMA RetireEffect ==
  ASSUME TypeOK, NEW M \in SUBSET ManagerIds, Retire(M), NEW m \in ManagerIds
  PROVE  /\ mgr'[m].group = mgr[m].group /\ mgr'[m].endpoints = mgr[m].endpoints
         /\ m \in M \/ mgr[m].retired => mgr'[m].retired
         /\ m \notin M => mgr'[m] = mgr[m]
         /\ mgr'[m].live => mgr[m].live
<1>1. mgr[m] \in Managers
  BY DEF TypeOK
<1>2. \/ m \notin M /\ mgr'[m] = mgr[m]
      \/ m \in M /\ \E b \in BOOLEAN :
            mgr'[m] = [mgr[m] EXCEPT !.retired = TRUE, !.live = @ /\ b]
  BY DEF Retire
<1> QED BY <1>1, <1>2 DEF Managers

(* Only shutdown and dispatches of their own touch the rest. *)
LEMMA CleanQuiet ==
  ASSUME Clean, UNCHANGED <<retired, cache, mgr, reconciler, shutdown>>, CallsKnow'
  PROVE  Clean'
<1>1. SlotsMatch' /\ UpdatesPending'
  BY DEF Clean, SlotsMatch, Cached, UpdatesPending, InUse
<1>2. Owned' /\ Ending'
  BY DEF Clean, Owned, Ending, InUse, InCache
<1> QED BY <1>1, <1>2 DEF Clean

LEMMA CleanDispatch ==
  ASSUME TypeOK, Clean, NEW f \in Flows, NEW g \in Groups, Dispatch(f, g) PROVE Clean'
<1>1. CallsKnow'
  BY DEF TypeOK, Dispatches, Dispatch, Clean, CallsKnow, InUse
<1> QED BY <1>1, CleanQuiet DEF Dispatch

LEMMA CleanAbandon ==
  ASSUME TypeOK, Clean, NEW f \in Flows, Abandon(f) PROVE Clean'
<1>1. CallsKnow'
  BY DEF TypeOK, Dispatches, Abandon, NoFlow, Clean, CallsKnow, InUse
<1> QED BY <1>1, CleanQuiet DEF Abandon

LEMMA CleanConnect ==
  ASSUME TypeOK, Clean, NEW f \in Flows, Connect(f) PROVE Clean'
<1> DEFINE m == flow[f].manager
<1>1. m \in ManagerIds /\ InUse(m)
  BY DEF Connect, Clean, CallsKnow
<1>2. mgr' = [mgr EXCEPT ![m].live = @ \/ ~mgr[m].retired]
  BY DEF Connect
<1>3. \A k \in ManagerIds : /\ mgr'[k].group = mgr[k].group
                           /\ mgr'[k].endpoints = mgr[k].endpoints
                           /\ mgr'[k].retired = mgr[k].retired
                           /\ mgr'[k].live => mgr[k].live \/ (k = m /\ ~mgr[k].retired)
  <2> HIDE DEF m
  <2> QED BY <1>2 DEF TypeOK, Managers
<1>4. SlotsMatch' /\ UpdatesPending'
  BY <1>3 DEF TypeOK, Slots, Reconcilers, Connect, Clean, SlotsMatch, UpdatesPending, Cached, InUse
<1>5. CallsKnow'
  BY <1>3 DEF TypeOK, Dispatches, Connect, NoFlow, Clean, CallsKnow, InUse
<1>6. Owned' /\ Ending'
  <2> HIDE DEF m
  <2> QED BY <1>1, <1>3 DEF TypeOK, Connect, Clean, Owned, Ending, InUse, InCache
<1> QED BY <1>4, <1>5, <1>6 DEF Clean

(* What a lookup does: the slot of the group names the manager it returns,    *)
(* which is the cached one or an unused one.                                  *)
LEMMA LookupEffect ==
  ASSUME TypeOK, Clean, NEW f \in Flows, Lookup(f)
  PROVE  LET n == flow[f].gen
             g == flow[f].group
         IN  /\ n \in Nat /\ g \in Groups
             /\ \E m \in ManagerIds :
                  /\ \A k \in ManagerIds \ {m} : mgr'[k] = mgr[k]
                  /\ IF Cached(g)
                     THEN /\ m = cache[g].manager
                          /\ mgr'[m].group = mgr[m].group
                          /\ mgr'[m].endpoints = IF Current(n, g) THEN n ELSE mgr[m].endpoints
                          /\ mgr[m].retired => mgr'[m].retired
                          /\ mgr'[m].live => mgr[m].live
                     ELSE /\ mgr[m] = Unused
                          /\ mgr'[m].group = g /\ mgr'[m].endpoints = n /\ ~mgr'[m].live
                  /\ retired => mgr'[m].retired
                  /\ cache' = [cache EXCEPT ![g] = IF Current(n, g) THEN [manager |-> m, gen |-> n] ELSE @]
                  /\ flow' = [flow EXCEPT ![f].pc = "connect", ![f].manager = m]
<1> DEFINE n == flow[f].gen
           g == flow[f].group
           fresh == [group |-> g, endpoints |-> n, retired |-> FALSE, live |-> FALSE]
           found(m) == IF ~Cached(g) THEN fresh
                       ELSE IF Current(n, g) THEN [mgr[m] EXCEPT !.endpoints = n] ELSE mgr[m]
<1>1. PICK m \in ManagerIds, busy \in BOOLEAN :
        /\ IF Cached(g) THEN m = cache[g].manager ELSE mgr[m] = Unused
        /\ mgr' = [mgr EXCEPT ![m] = HandedOut(found(m), busy)]
        /\ cache' = [cache EXCEPT ![g] = IF Current(n, g) THEN [manager |-> m, gen |-> n] ELSE @]
        /\ flow' = [flow EXCEPT ![f].pc = "connect", ![f].manager = m]
  BY DEF Lookup
<1>2. n \in Nat /\ g \in Groups
  <2>1. flow[f] \in Dispatches
    BY DEF TypeOK
  <2> QED BY <2>1 DEF Lookup, Clean, CallsKnow, Dispatches, Generations
<1>3. mgr[m] \in Managers
  BY DEF TypeOK
<1>4. mgr'[m] = HandedOut(found(m), busy) /\ \A k \in ManagerIds \ {m} : mgr'[k] = mgr[k]
  <2> HIDE DEF found
  <2> QED BY <1>1 DEF TypeOK
<1>5. retired => mgr'[m].retired
  <2>1. found(m) \in [group : {g} \cup Groups \cup {NoGroup}, endpoints : {n} \cup Generations \cup {0},
                      retired : BOOLEAN, live : BOOLEAN]
    BY <1>3 DEF Managers
  <2> HIDE DEF found
  <2> QED BY <1>4, <2>1 DEF HandedOut
<1>6. CASE Cached(g)
  <2>1. /\ mgr'[m].group = mgr[m].group
        /\ mgr'[m].endpoints = IF Current(n, g) THEN n ELSE mgr[m].endpoints
        /\ mgr[m].retired => mgr'[m].retired
        /\ mgr'[m].live => mgr[m].live
    <3> HIDE DEF n, g
    <3> QED BY <1>3, <1>4, <1>6 DEF HandedOut, Managers
  <2> QED BY <1>1, <1>2, <1>4, <1>5, <1>6, <2>1
<1>7. CASE ~Cached(g)
  <2>1. mgr'[m].group = g /\ mgr'[m].endpoints = n /\ ~mgr'[m].live
    <3>1. mgr'[m] = HandedOut(fresh, busy)
      BY <1>4, <1>7
    <3> DEFINE R == [group : {g}, endpoints : {n}, retired : BOOLEAN, live : {FALSE}]
    <3>2. fresh \in R
      OBVIOUS
    <3>3. mgr'[m] \in R
      <4> HIDE DEF fresh, g, n
      <4>1. fresh.live = FALSE
        BY <3>2
      <4>2. (fresh.live /\ busy) = FALSE
        BY <4>1, Zenon
      <4>3. [fresh EXCEPT !.retired = TRUE, !.live = FALSE] \in R
        BY <3>2
      <4>4. mgr'[m] = fresh \/ mgr'[m] = [fresh EXCEPT !.retired = TRUE, !.live = fresh.live /\ busy]
        BY <3>1 DEF HandedOut
      <4> QED BY <3>2, <4>2, <4>3, <4>4
    <3> HIDE DEF n, g
    <3> QED BY <3>3
  <2> QED BY <1>1, <1>2, <1>4, <1>5, <1>7, <2>1
<1> QED BY <1>6, <1>7

LEMMA CleanLookup ==
  ASSUME TypeOK, Clean, NEW f \in Flows, Lookup(f) PROVE Clean'
<1> DEFINE n == flow[f].gen
           g == flow[f].group
<1>1. n \in Nat /\ g \in Groups
  BY LookupEffect
<1>2. PICK m \in ManagerIds :
        /\ \A k \in ManagerIds \ {m} : mgr'[k] = mgr[k]
        /\ IF Cached(g)
           THEN /\ m = cache[g].manager
                /\ mgr'[m].group = mgr[m].group
                /\ mgr'[m].endpoints = IF Current(n, g) THEN n ELSE mgr[m].endpoints
                /\ mgr[m].retired => mgr'[m].retired
                /\ mgr'[m].live => mgr[m].live
           ELSE /\ mgr[m] = Unused
                /\ mgr'[m].group = g /\ mgr'[m].endpoints = n /\ ~mgr'[m].live
        /\ retired => mgr'[m].retired
        /\ cache' = [cache EXCEPT ![g] = IF Current(n, g) THEN [manager |-> m, gen |-> n] ELSE @]
        /\ flow' = [flow EXCEPT ![f].pc = "connect", ![f].manager = m]
  BY LookupEffect
<1>3. UNCHANGED <<retired, reconciler, shutdown>>
  BY DEF Lookup
<1> HIDE DEF n, g
<1>4. /\ \A h \in Groups \ {g} : cache'[h] = cache[h]
      /\ cache'[g].manager = m
      /\ cache'[g].gen = IF Current(n, g) THEN n ELSE cache[g].gen
      /\ cache[g].gen <= cache'[g].gen
      /\ ~Cached(g) => cache'[g].gen = n
  <2>1. cache[g] \in Slots
    BY <1>1 DEF TypeOK
  <2>2. ~Cached(g) => cache[g].gen = 0
    BY <1>1 DEF Clean, SlotsMatch
  <2> QED BY <1>1, <1>2, <2>1, <2>2 DEF TypeOK, Slots, Current, Generations
<1>5. mgr'[m].group = g /\ (Cached(g) \/ mgr[m].group = NoGroup)
  BY <1>1, <1>2 DEF Clean, SlotsMatch, Unused
<1>6. \A h \in Groups \ {g} : cache[h].manager # m
  BY <1>1, <1>2, <1>5, ClientRuntimeAssumption DEF Clean, SlotsMatch, Cached, ManagerIds, Unused
<1>7. SlotsMatch'
  <2>1. ASSUME NEW h \in Groups \ {g}
        PROVE  IF cache'[h].manager # 0 THEN /\ mgr'[cache'[h].manager].group = h
                                            /\ mgr'[cache'[h].manager].endpoints <= cache'[h].gen
                                       ELSE cache'[h].gen = 0
    BY <1>2, <1>4, <1>6 DEF TypeOK, Slots, Clean, SlotsMatch, Cached
  <2>2. mgr'[m].endpoints <= cache'[g].gen
    BY <1>1, <1>2, <1>4 DEF Clean, SlotsMatch
  <2>3. m # 0
    BY DEF ManagerIds
  <2> QED BY <1>1, <1>4, <1>5, <2>1, <2>2, <2>3 DEF SlotsMatch, Cached
<1>8. UpdatesPending'
  <2>1. \A k \in reconciler.updated \cup reconciler.removed : k \in ManagerIds /\ mgr'[k].group # NoGroup
    BY <1>1, <1>2, <1>5, ClientRuntimeAssumption DEF TypeOK, Reconcilers, Clean, UpdatesPending, InUse
  <2>2. m \in reconciler.updated => Cached(g)
    BY <1>5 DEF Clean, UpdatesPending, InUse
  <2>3. m \in reconciler.updated => reconciler.gen <= cache'[g].gen
    <3>1. reconciler.gen \in Nat /\ cache[g].gen \in Nat /\ cache'[g].gen \in Nat
      BY <1>1, <1>4 DEF TypeOK, Reconcilers, Slots, Generations
    <3> QED BY <1>1, <1>2, <1>4, <2>2, <3>1 DEF Clean, UpdatesPending
  <2> QED BY <1>3, <1>4, <2>1, <2>3 DEF Clean, UpdatesPending, InUse
<1>9. CallsKnow'
  <2>1. \A k \in ManagerIds : mgr[k].group # NoGroup => mgr'[k].group # NoGroup
    BY <1>1, <1>2, <1>5, ClientRuntimeAssumption
  <2> QED BY <1>1, <1>2, <1>5, <2>1, ClientRuntimeAssumption
        DEF TypeOK, Dispatches, Clean, CallsKnow, InUse, Lookup
<1>10. Owned'
  <2>1. \E h \in Groups : cache'[h].manager = m
    BY <1>1, <1>4
  <2>2. ASSUME NEW k \in ManagerIds \ {m}
        PROVE  mgr'[k] = mgr[k] /\ (InCache(k) => \E h \in Groups : cache'[h].manager = k)
    BY <1>1, <1>2, <1>4, <1>5 DEF InCache, Cached, Clean, SlotsMatch, ManagerIds
  <2>3. shutdown.pc \in {"close", "done"} => retired
    BY DEF Clean, Ending
  <2>4. mgr'[m].live => mgr[m].live
    BY <1>2
  <2>5. mgr'[m].group # NoGroup
    BY <1>1, <1>5, ClientRuntimeAssumption
  <2>6. shutdown.pc \in {"close", "done"} /\ mgr[m].live => m \in shutdown.list
    BY DEF Clean, Owned
  <2> QED BY <1>2, <1>3, <2>1, <2>2, <2>3, <2>4, <2>5, <2>6 DEF Clean, Owned, InUse, InCache
<1>11. Ending'
  BY <1>3 DEF Clean, Ending
<1> QED BY <1>7, <1>8, <1>9, <1>10, <1>11 DEF Clean

LEMMA CleanProbed ==
  ASSUME TypeOK, Clean, NEW g \in Groups, Probed(g) PROVE Clean'
<1> DEFINE n == prober.gen
           m == cache[g].manager
<1>1. CASE ~(Cached(g) /\ Current(n, g))
  <2>1. UNCHANGED <<retired, cache, mgr, reconciler, shutdown, flow>>
    BY <1>1 DEF Probed
  <2>2. CallsKnow'
    BY <2>1 DEF Clean, CallsKnow, InUse
  <2> QED BY <2>1, <2>2, CleanQuiet
<1>2. CASE Cached(g) /\ Current(n, g)
  <2>1. /\ cache' = [cache EXCEPT ![g].gen = n]
        /\ mgr' = [mgr EXCEPT ![m].endpoints = n]
        /\ UNCHANGED <<retired, flow, reconciler, shutdown>>
    BY <1>2 DEF Probed
  <2>2. cache[g] \in Slots /\ m \in ManagerIds /\ n \in Nat
    BY <1>2 DEF TypeOK, Slots, Cached, Probers, Generations
  <2> HIDE DEF n, m
  <2>3. /\ \A h \in Groups : cache'[h].manager = cache[h].manager
        /\ \A h \in Groups \ {g} : cache'[h] = cache[h]
        /\ cache'[g].gen = n /\ cache[g].gen <= n
    BY <1>2, <2>1 DEF TypeOK, Slots, Current
  <2>4. /\ \A k \in ManagerIds : /\ mgr'[k].group = mgr[k].group
                                 /\ mgr'[k].retired = mgr[k].retired
                                 /\ mgr'[k].live = mgr[k].live
        /\ \A k \in ManagerIds \ {m} : mgr'[k] = mgr[k]
        /\ mgr'[m].endpoints = n
    BY <2>1, <2>2 DEF TypeOK, Managers
  <2>5. \A h \in Groups \ {g} : cache[h].manager # m
    BY <1>2, <2>2 DEF Clean, SlotsMatch, Cached, m, ManagerIds
  <2>6. SlotsMatch'
    BY <1>2, <2>2, <2>3, <2>4, <2>5 DEF TypeOK, Slots, Clean, SlotsMatch, Cached, m
  <2>7. UpdatesPending'
    <3>1. reconciler.gen \in Nat /\ cache[g].gen \in Nat
      BY <2>2 DEF TypeOK, Reconcilers, Slots, Generations
    <3> QED BY <2>1, <2>2, <2>3, <2>4, <3>1 DEF TypeOK, Reconcilers, Clean, UpdatesPending, InUse
  <2>8. CallsKnow' /\ Ending'
    BY <2>1, <2>4 DEF Clean, CallsKnow, Ending, InUse
  <2>9. Owned'
    BY <2>1, <2>3, <2>4 DEF Clean, Owned, InUse, InCache
  <2> QED BY <2>6, <2>7, <2>8, <2>9 DEF Clean
<1> QED BY <1>1, <1>2

(* The reconciler moves between its states without touching a manager. *)
LEMMA CleanReconcilerMoves ==
  ASSUME TypeOK, Clean, Changed \/ Reconciled \/ ReconcilerStops PROVE Clean'
<1>1. UNCHANGED <<retired, cache, mgr, flow, shutdown>>
  BY DEF Changed, Reconciled, ReconcilerStops
<1>2. /\ reconciler.updated = {} /\ reconciler.removed = {} /\ reconciler.pc # "gone"
      /\ reconciler'.updated = {} /\ reconciler'.removed = {}
  BY DEF TypeOK, Reconcilers, Clean, UpdatesPending, Changed, Reconciled, ReconcilerStops
<1>3. SlotsMatch' /\ UpdatesPending' /\ CallsKnow'
  BY <1>1, <1>2 DEF Clean, SlotsMatch, UpdatesPending, CallsKnow, Cached, InUse
<1>4. Owned' /\ Ending'
  BY <1>1, <1>2 DEF Clean, Owned, Ending, InUse, InCache
<1> QED BY <1>3, <1>4 DEF Clean

LEMMA CleanReconcile ==
  ASSUME TypeOK, Clean, Reconcile PROVE Clean'
<1> DEFINE n       == reconciler.gen
           current == {g \in Groups : Cached(g) /\ Current(n, g)}
           removed == current \ reconciler.groups
           kept    == current \cap reconciler.groups
<1>1. /\ reconciler.pc = "lock"
      /\ cache' = [g \in Groups |-> IF g \in removed THEN Empty
                                    ELSE IF g \in kept THEN [cache[g] EXCEPT !.gen = n]
                                    ELSE cache[g]]
      /\ reconciler' = [reconciler EXCEPT !.pc = "apply", !.groups = {},
                            !.updated = {cache[g].manager : g \in kept},
                            !.removed = {cache[g].manager : g \in removed}]
      /\ UNCHANGED <<retired, mgr, flow, shutdown>>
  BY DEF Reconcile
<1>2. n \in Nat /\ \A g \in current : Cached(g) /\ cache[g].gen <= n
  BY DEF TypeOK, Reconcilers, Generations, Current
<1>3. removed \subseteq Groups /\ kept \subseteq Groups /\ removed \cap kept = {}
  OBVIOUS
<1>4. \A g \in removed \cup kept : Cached(g) /\ cache[g].gen <= n
  BY <1>2
<1> HIDE DEF n, current, removed, kept
<1>5. /\ \A g \in removed : cache'[g].manager = 0 /\ cache'[g].gen = 0
      /\ \A g \in kept : cache'[g].manager = cache[g].manager /\ cache'[g].gen = n
      /\ \A g \in Groups \ (removed \cup kept) : cache'[g] = cache[g]
  BY <1>1, <1>3 DEF TypeOK, Slots, Empty
<1>6. /\ reconciler'.pc = "apply" /\ reconciler'.gen = n
      /\ reconciler'.updated = {cache[g].manager : g \in kept}
      /\ reconciler'.removed = {cache[g].manager : g \in removed}
  BY <1>1 DEF TypeOK, Reconcilers, n
<1>7. SlotsMatch'
  <2>1. \A g \in Groups : cache[g].gen \in Nat
    BY DEF TypeOK, Slots, Generations
  <2>2. \A g \in Groups : Cached(g) => mgr[cache[g].manager].endpoints \in Nat
    BY DEF TypeOK, Slots, Cached, Managers, Generations
  <2> QED BY <1>1, <1>2, <1>3, <1>4, <1>5, <2>1, <2>2 DEF Clean, SlotsMatch, Cached
<1>8. UpdatesPending'
  <2>1. ASSUME NEW k \in reconciler'.updated \cup reconciler'.removed PROVE mgr'[k].group # NoGroup
    <3>1. PICK g \in removed \cup kept : k = cache[g].manager
      BY <1>6
    <3> QED BY <1>1, <1>3, <1>4, <3>1, ClientRuntimeAssumption DEF Clean, SlotsMatch
  <2>2. ASSUME NEW g \in Groups, cache'[g].manager \in reconciler'.updated
        PROVE  g \in kept
    <3>1. PICK h \in kept : cache'[g].manager = cache[h].manager
      BY <1>6, <2>2
    <3>2. Cached(h) /\ cache[h].manager # 0
      BY <1>4, <3>1 DEF Cached
    <3>3. g \notin removed
      BY <1>5, <3>1, <3>2
    <3>4. cache[g].manager = cache[h].manager
      BY <1>5, <3>1, <3>3
    <3> QED BY <1>3, <3>2, <3>4 DEF Clean, SlotsMatch, Cached
  <2> QED BY <1>2, <1>5, <1>6, <2>1, <2>2 DEF UpdatesPending, InUse
<1>9. CallsKnow' /\ Ending'
  BY <1>1, <1>6 DEF Clean, CallsKnow, Ending, InUse
<1>10. Owned'
  <2>1. ASSUME NEW k \in ManagerIds, InCache(k)
        PROVE  (\E g \in Groups : cache'[g].manager = k) \/ k \in reconciler'.removed
    BY <1>3, <1>5, <1>6, <2>1 DEF InCache
  <2>2. reconciler.removed = {} /\ shutdown.pc \notin {"close", "done"}
    BY <1>1 DEF Clean, UpdatesPending, Ending
  <2> QED BY <1>1, <2>1, <2>2 DEF Clean, Owned, InUse, InCache
<1> QED BY <1>7, <1>8, <1>9, <1>10 DEF Clean

LEMMA CleanApplyUpdate ==
  ASSUME TypeOK, Clean, NEW m \in ManagerIds, ApplyUpdate(m) PROVE Clean'
<1>1. /\ m \in reconciler.updated /\ UNCHANGED <<retired, cache, flow, shutdown>>
      /\ reconciler'.pc = reconciler.pc /\ reconciler'.gen = reconciler.gen
      /\ reconciler'.removed = reconciler.removed
      /\ reconciler'.updated = reconciler.updated \ {m}
  BY DEF ApplyUpdate, TypeOK, Reconcilers
<1>2. /\ \A k \in ManagerIds : /\ mgr'[k].group = mgr[k].group
                               /\ mgr'[k].retired = mgr[k].retired
                               /\ mgr'[k].live = mgr[k].live
      /\ \A k \in ManagerIds \ {m} : mgr'[k] = mgr[k]
      /\ mgr'[m].endpoints = reconciler.gen
  BY DEF ApplyUpdate, TypeOK, Managers
<1>3. SlotsMatch'
  BY <1>1, <1>2 DEF TypeOK, Slots, Clean, SlotsMatch, UpdatesPending, Cached
<1>4. UpdatesPending'
  BY <1>1, <1>2 DEF TypeOK, Reconcilers, Clean, UpdatesPending, InUse
<1>5. CallsKnow' /\ Ending'
  BY <1>1, <1>2 DEF Clean, CallsKnow, Ending, InUse
<1>6. Owned'
  BY <1>1, <1>2 DEF Clean, Owned, InUse, InCache
<1> QED BY <1>3, <1>4, <1>5, <1>6 DEF Clean

(* Flags that only fall or are only set keep everything but ownership. *)
LEMMA CleanFlags ==
  ASSUME TypeOK, Clean, UNCHANGED <<cache, flow, reconciler>>,
         \A k \in ManagerIds : mgr'[k].group = mgr[k].group /\ mgr'[k].endpoints = mgr[k].endpoints
  PROVE  SlotsMatch' /\ UpdatesPending' /\ CallsKnow'
<1>1. SlotsMatch' /\ UpdatesPending'
  BY DEF TypeOK, Slots, Reconcilers, Clean, SlotsMatch, UpdatesPending, Cached, InUse
<1>2. CallsKnow'
  BY DEF Clean, CallsKnow, InUse
<1> QED BY <1>1, <1>2

LEMMA CleanRetireRemoved ==
  ASSUME TypeOK, Clean, NEW m \in ManagerIds, RetireRemoved(m) PROVE Clean'
<1>1. UNCHANGED <<retired, cache, flow, reconciler, shutdown>>
  BY DEF RetireRemoved
<1>2. \A k \in ManagerIds : /\ mgr'[k].group = mgr[k].group /\ mgr'[k].endpoints = mgr[k].endpoints
                            /\ mgr[k].retired => mgr'[k].retired
                            /\ mgr'[k].live => mgr[k].live
  BY RetireEffect DEF RetireRemoved
<1>3. SlotsMatch' /\ UpdatesPending' /\ CallsKnow'
  BY <1>1, <1>2, CleanFlags
<1>4. Owned' /\ Ending'
  BY <1>1, <1>2 DEF Clean, Owned, Ending, InUse, InCache
<1> QED BY <1>3, <1>4 DEF Clean

LEMMA CleanCloseRemoved ==
  ASSUME TypeOK, Clean, NEW m \in ManagerIds, CloseRemoved(m) PROVE Clean'
<1>1. /\ UNCHANGED <<retired, cache, flow, shutdown>> /\ mgr[m].retired
      /\ reconciler'.pc = reconciler.pc /\ reconciler'.gen = reconciler.gen
      /\ reconciler'.updated = reconciler.updated
      /\ reconciler'.removed = reconciler.removed \ {m}
  BY DEF CloseRemoved, TypeOK, Reconcilers
<1>2. /\ \A k \in ManagerIds : /\ mgr'[k].group = mgr[k].group
                               /\ mgr'[k].endpoints = mgr[k].endpoints
                               /\ mgr'[k].retired = mgr[k].retired
                               /\ mgr'[k].live => mgr[k].live
      /\ ~mgr'[m].live
  BY DEF CloseRemoved, Close, TypeOK, Managers
<1>3. SlotsMatch'
  BY <1>1, <1>2 DEF TypeOK, Slots, Clean, SlotsMatch, Cached
<1>4. UpdatesPending'
  BY <1>1, <1>2 DEF TypeOK, Reconcilers, Clean, UpdatesPending, InUse
<1>5. CallsKnow' /\ Ending'
  BY <1>1, <1>2 DEF Clean, CallsKnow, Ending, InUse
<1>6. Owned'
  BY <1>1, <1>2 DEF Clean, Owned, InUse, InCache
<1> QED BY <1>3, <1>4, <1>5, <1>6 DEF Clean

(* Shutdown *)
LEMMA CleanShutdownMoves ==
  ASSUME TypeOK, Clean, ShutdownStart \/ ShutdownCollect \/ ShutdownJoined PROVE Clean'
<1>1. UNCHANGED <<cache, mgr, flow, reconciler>>
  BY DEF ShutdownStart, ShutdownCollect, ShutdownJoined
<1>2. /\ shutdown.pc \notin {"close", "done"} /\ shutdown'.pc \notin {"no", "close", "done"}
      /\ shutdown'.pc = "drain" => reconciler.pc = "gone"
  BY DEF TypeOK, Shutdowns, ShutdownStart, ShutdownCollect, ShutdownJoined
<1>3. retired'
  BY DEF Clean, Ending, ShutdownStart, ShutdownCollect, ShutdownJoined
<1>4. SlotsMatch' /\ UpdatesPending' /\ CallsKnow'
  BY <1>1, CleanFlags
<1>5. Owned' /\ Ending'
  BY <1>1, <1>2, <1>3 DEF Clean, Owned, Ending, InUse, InCache
<1> QED BY <1>4, <1>5 DEF Clean

LEMMA CleanShutdownRetire ==
  ASSUME TypeOK, Clean, ShutdownRetire PROVE Clean'
<1>1. /\ UNCHANGED <<retired, cache, flow, reconciler>>
      /\ shutdown.pc = "retire" /\ shutdown'.pc = "join"
  BY DEF ShutdownRetire
<1>2. shutdown.list \in SUBSET ManagerIds
  BY DEF TypeOK, Shutdowns
<1>3. \A k \in ManagerIds : /\ mgr'[k].group = mgr[k].group /\ mgr'[k].endpoints = mgr[k].endpoints
                            /\ mgr[k].retired => mgr'[k].retired
                            /\ mgr'[k].live => mgr[k].live
  BY <1>2, RetireEffect DEF ShutdownRetire
<1>4. SlotsMatch' /\ UpdatesPending' /\ CallsKnow'
  BY <1>1, <1>3, CleanFlags
<1>5. Owned' /\ Ending'
  BY <1>1, <1>3 DEF Clean, Owned, Ending, InUse, InCache
<1> QED BY <1>4, <1>5 DEF Clean

LEMMA CleanShutdownDrain ==
  ASSUME TypeOK, Clean, ShutdownDrain PROVE Clean'
<1>1. /\ UNCHANGED <<retired, flow, reconciler>>
      /\ cache' = [g \in Groups |-> Empty]
      /\ shutdown.pc = "drain" /\ shutdown'.pc = "close" /\ shutdown'.list = CachedManagers
  BY DEF ShutdownDrain
<1>2. \A k \in ManagerIds : /\ mgr'[k].group = mgr[k].group /\ mgr'[k].endpoints = mgr[k].endpoints
                            /\ k \in CachedManagers \/ mgr[k].retired => mgr'[k].retired
                            /\ mgr'[k].live => mgr[k].live
  BY CachedAreManagers, RetireEffect DEF ShutdownDrain
<1>3. reconciler.pc = "gone" /\ reconciler.removed = {} /\ reconciler.updated = {}
  BY <1>1 DEF Clean, Ending, UpdatesPending
<1>4. \A k \in ManagerIds : InCache(k) <=> k \in CachedManagers
  BY DEF InCache, CachedManagers, ManagerIds
<1>5. SlotsMatch' /\ UpdatesPending'
  BY <1>1, <1>3 DEF SlotsMatch, UpdatesPending, Cached, Empty
<1>6. CallsKnow'
  BY <1>1, <1>2 DEF Clean, CallsKnow, InUse
<1>7. Owned'
  BY <1>1, <1>2, <1>3, <1>4 DEF Clean, Owned, InUse
<1>8. Ending'
  BY <1>1, <1>3 DEF Clean, Ending
<1> QED BY <1>5, <1>6, <1>7, <1>8 DEF Clean

LEMMA CleanShutdownClose ==
  ASSUME TypeOK, Clean, ShutdownClose PROVE Clean'
<1>1. UNCHANGED <<retired, cache, flow, reconciler>> /\ shutdown.pc = "close"
  BY DEF ShutdownClose
<1>2. CASE shutdown.list = {} /\ shutdown' = [shutdown EXCEPT !.pc = "done"] /\ mgr' = mgr
  <2>1. shutdown'.pc = "done" /\ shutdown'.list = {}
    BY <1>2 DEF TypeOK, Shutdowns
  <2>2. SlotsMatch' /\ UpdatesPending' /\ CallsKnow'
    BY <1>1, <1>2, CleanFlags
  <2>3. Owned' /\ Ending'
    BY <1>1, <1>2, <2>1 DEF Clean, Owned, Ending, InUse, InCache
  <2> QED BY <2>2, <2>3 DEF Clean
<1>3. ASSUME NEW m \in shutdown.list, Close(m), shutdown' = [shutdown EXCEPT !.list = @ \ {m}]
      PROVE  Clean'
  <2>1. shutdown'.pc = "close" /\ shutdown'.list = shutdown.list \ {m}
    BY <1>1, <1>3 DEF TypeOK, Shutdowns
  <2>2. m \in ManagerIds
    BY DEF TypeOK, Shutdowns
  <2>3. /\ \A k \in ManagerIds : /\ mgr'[k].group = mgr[k].group
                                 /\ mgr'[k].endpoints = mgr[k].endpoints
                                 /\ mgr'[k].retired = mgr[k].retired
                                 /\ mgr'[k].live => mgr[k].live
        /\ ~mgr'[m].live
    BY <1>3, <2>2 DEF Close, TypeOK, Managers
  <2>4. SlotsMatch' /\ UpdatesPending' /\ CallsKnow'
    BY <1>1, <2>3, CleanFlags
  <2>5. Owned' /\ Ending'
    BY <1>1, <2>1, <2>3 DEF Clean, Owned, Ending, InUse, InCache
  <2> QED BY <2>4, <2>5 DEF Clean
<1> QED BY <1>2, <1>3 DEF ShutdownClose

LEMMA CleanStep == TypeOK /\ Clean /\ [Next]_vars => Clean'
<1> SUFFICES ASSUME TypeOK, Clean, [Next]_vars PROVE Clean'
  OBVIOUS
<1>1. ASSUME UNCHANGED <<retired, cache, mgr, flow, reconciler, shutdown>> PROVE Clean'
  <2>1. CallsKnow'
    BY <1>1 DEF Clean, CallsKnow, InUse
  <2> QED BY <1>1, <2>1, CleanQuiet
<1>2. CASE UNCHANGED vars \/ ProbeRound \/ \E G \in SUBSET Groups : Publish(G)
  BY <1>1, <1>2 DEF vars, ProbeRound, Publish
<1>3. CASE \E f \in Flows, g \in Groups : Dispatch(f, g)
  BY <1>3, CleanDispatch
<1>4. CASE \E f \in Flows : FlowStep(f)
  BY <1>4, CleanLookup, CleanConnect, CleanAbandon DEF FlowStep
<1>5. CASE \E g \in Groups : Probed(g)
  BY <1>5, CleanProbed
<1>6. CASE ReconcilerStep
  BY <1>6, CleanReconcilerMoves, CleanReconcile, CleanApplyUpdate, CleanRetireRemoved,
     CleanCloseRemoved DEF ReconcilerStep
<1>7. CASE ShutdownStart \/ ShutdownStep
  BY <1>7, CleanShutdownMoves, CleanShutdownRetire, CleanShutdownDrain, CleanShutdownClose
     DEF ShutdownStep
<1> QED BY <1>2, <1>3, <1>4, <1>5, <1>6, <1>7 DEF Next, ProberStep

(* Whatever snapshots calls were dispatched on, and wherever a refresh, the   *)
(* prober and shutdown overlap: every connection has an owner until it is     *)
(* closed, and none is left or opened after shutdown.                         *)
THEOREM NothingEverLeaks == Spec => []NothingLeaks
<1>1. Init => TypeOK /\ Clean
  BY TypeInit, CleanInit
<1>2. TypeOK /\ Clean /\ [Next]_vars => (TypeOK /\ Clean)'
  BY TypeStep, CleanStep
<1> QED BY <1>1, <1>2, CleanLeaksNothing, PTL DEF Spec

(* The endpoints of a manager before and after any step. *)
LEMMA EndpointsStep ==
  ASSUME TypeOK, Clean, [Next]_vars, NEW m \in ManagerIds
  PROVE  mgr'[m].endpoints < mgr[m].endpoints
           => m \in reconciler.updated /\ mgr'[m].endpoints = reconciler.gen
<1>0. mgr[m] \in Managers /\ mgr[m].endpoints \in Nat
  BY DEF TypeOK, Managers, Generations
<1>1. ASSUME mgr'[m].endpoints = mgr[m].endpoints
      PROVE  ~(mgr'[m].endpoints < mgr[m].endpoints)
  BY <1>0, <1>1
<1>2. ASSUME NEW f \in Flows, Lookup(f) PROVE ~(mgr'[m].endpoints < mgr[m].endpoints)
  <2> DEFINE n == flow[f].gen
             g == flow[f].group
  <2>1. n \in Nat /\ g \in Groups
    BY <1>2, LookupEffect
  <2>2. \/ mgr'[m] = mgr[m]
        \/ Cached(g) /\ m = cache[g].manager
             /\ mgr'[m].endpoints = IF Current(n, g) THEN n ELSE mgr[m].endpoints
        \/ mgr[m] = Unused /\ mgr'[m].endpoints = n
    BY <1>2, LookupEffect
  <2>3. Cached(g) => mgr[cache[g].manager].endpoints <= cache[g].gen /\ cache[g].gen \in Nat
    BY <2>1 DEF TypeOK, Slots, Generations, Clean, SlotsMatch
  <2> HIDE DEF n, g
  <2> QED BY <1>0, <2>1, <2>2, <2>3 DEF Current, Unused
<1>3. ASSUME NEW g \in Groups, Probed(g) PROVE ~(mgr'[m].endpoints < mgr[m].endpoints)
  <2>1. \/ mgr' = mgr
        \/ Cached(g) /\ Current(prober.gen, g)
             /\ mgr' = [mgr EXCEPT ![cache[g].manager].endpoints = prober.gen]
    BY <1>3 DEF Probed
  <2>2. Cached(g) => mgr[cache[g].manager].endpoints <= cache[g].gen /\ cache[g].gen \in Nat
    BY DEF TypeOK, Slots, Generations, Clean, SlotsMatch
  <2>3. prober.gen \in Nat
    BY DEF TypeOK, Probers, Generations
  <2> QED BY <1>0, <2>1, <2>2, <2>3 DEF TypeOK, Managers, Current
<1>4. ASSUME NEW k \in ManagerIds, ApplyUpdate(k)
      PROVE  mgr'[m] = mgr[m] \/ (m \in reconciler.updated /\ mgr'[m].endpoints = reconciler.gen)
  BY <1>4 DEF ApplyUpdate, TypeOK, Managers
<1>5. ASSUME NEW f \in Flows, Connect(f) PROVE mgr'[m].endpoints = mgr[m].endpoints
  BY <1>5 DEF Connect, TypeOK, Managers
<1>6. ASSUME NEW k, Close(k) PROVE mgr'[m].endpoints = mgr[m].endpoints
  BY <1>6 DEF Close, TypeOK, Managers
<1>7. ASSUME NEW k \in ManagerIds, RetireRemoved(k) PROVE mgr'[m].endpoints = mgr[m].endpoints
  BY <1>7, RetireEffect DEF RetireRemoved
<1>8. CASE ShutdownRetire \/ ShutdownDrain
  <2>1. shutdown.list \in SUBSET ManagerIds
    BY DEF TypeOK, Shutdowns
  <2> QED BY <1>1, <1>8, <2>1, CachedAreManagers, RetireEffect DEF ShutdownRetire, ShutdownDrain
<1>9. CASE ShutdownClose
  BY <1>1, <1>6, <1>9 DEF ShutdownClose
<1>10. CASE ReconcilerStep
  <2>1. CASE \E k \in ManagerIds : ApplyUpdate(k) \/ RetireRemoved(k) \/ CloseRemoved(k)
    BY <1>0, <1>1, <1>4, <1>6, <1>7, <2>1 DEF CloseRemoved
  <2>2. CASE Changed \/ Reconcile \/ Reconciled \/ ReconcilerStops
    BY <1>1, <2>2 DEF Changed, Reconcile, Reconciled, ReconcilerStops
  <2> QED BY <1>10, <2>1, <2>2 DEF ReconcilerStep
<1>11. CASE \E f \in Flows : FlowStep(f)
  BY <1>1, <1>2, <1>5, <1>11 DEF FlowStep, Abandon
<1>12. CASE ShutdownStart \/ ShutdownCollect \/ ShutdownJoined \/ ProbeRound \/ UNCHANGED vars
  BY <1>1, <1>12 DEF ShutdownStart, ShutdownCollect, ShutdownJoined, ProbeRound, vars
<1>13. CASE \/ \E G \in SUBSET Groups : Publish(G)
            \/ \E f \in Flows, g \in Groups : Dispatch(f, g)
  BY <1>1, <1>13 DEF Publish, Dispatch
<1> QED BY <1>3, <1>8, <1>9, <1>10, <1>11, <1>12, <1>13 DEF Next, ProberStep, ShutdownStep

(* A dispatch on an old snapshot, or a slow probe, never replaces the         *)
(* endpoints of a manager by older ones; only the update that the reconciler  *)
(* carries out after its lock does.                                           *)
THEOREM OlderSnapshotsNeverOverwrite == Spec => OlderSnapshotNeverOverwrites
<1>1. Init => TypeOK /\ Clean
  BY TypeInit, CleanInit
<1>2. TypeOK /\ Clean /\ [Next]_vars => (TypeOK /\ Clean)'
  BY TypeStep, CleanStep
<1>3. TypeOK /\ Clean /\ [Next]_vars =>
        [\A m \in ManagerIds : mgr'[m].endpoints < mgr[m].endpoints
            => m \in reconciler.updated /\ mgr'[m].endpoints = reconciler.gen]_vars
  BY EndpointsStep
<1> QED BY <1>1, <1>2, <1>3, PTL DEF Spec, OlderSnapshotNeverOverwrites

=============================================================================
