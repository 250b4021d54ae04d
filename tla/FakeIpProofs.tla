---------------------------- MODULE FakeIpProofs ----------------------------
(***************************************************************************)
(* Theorems about FakeIpPool, for every number of callers, hosts and       *)
(* addresses, every capacity and every number of refreshes and handovers.  *)
(***************************************************************************)
EXTENDS FakeIpPool, FiniteSetTheorems, TLAPS

(* A call that has taken its snapshot. *)
Seen == {"assign", "resolve", "recheck", "remember", "lookup", "hosts", "dial"}

(* What makes NeverReassigned inductive: no answer is at or above next. *)
GivenBelowNext == \A p \in given : p[1] < next

(* What makes NoNameFromOlderSession inductive: the epoch is read first, so  *)
(* the table that a call looks at, and a binding comes from, is never older. *)
TableNotOlder ==
    /\ \A c \in Callers : /\ view[c].epoch <= epoch
                          /\ pc[c] \in Seen => view[c].table >= view[c].epoch
                          /\ pc[c] # "dial" => served[c] = {}
    /\ \A a \in InUse(fake) : fake[a].table >= fake[a].epoch
    /\ \A r \in RealIps : \A b \in real[r] : b.table >= b.epoch

(* The pool after prune is a part of what it was, all of it in the view that *)
(* it was pruned for.                                                        *)
LEMMA PruneFacts ==
    ASSUME TypeOK, NEW v \in Views
    PROVE  /\ FakePruned(v) \in [Addrs -> Bindings \cup {NoBinding}]
           /\ RealPruned(v) \in [RealIps -> SUBSET Bindings]
           /\ InUse(FakePruned(v)) \subseteq InUse(fake)
           /\ \A a \in InUse(FakePruned(v)) : /\ FakePruned(v)[a] = fake[a]
                                              /\ fake[a] \in Bindings
                                              /\ Valid(fake[a], v)
           /\ \A a \in InUse(fake) : Valid(fake[a], v) => FakePruned(v)[a] = fake[a]
           /\ \A r \in RealIps : \A b \in RealPruned(v)[r] : b \in real[r] /\ Valid(b, v)
  BY DEF TypeOK, FakePruned, RealPruned, InUse

LEMMA FreshType ==
    ASSUME NEW h \in Hosts, NEW v \in Views
    PROVE  /\ Fresh(h, v) \in Bindings
           /\ Fresh(h, v) # NoBinding
           /\ Fresh(h, v).host = h
           /\ Fresh(h, v).epoch = v.epoch
           /\ Fresh(h, v).table = v.table
  <1>1. Fresh(h, v) \in Bindings
    BY DEF Fresh, Bindings, Views
  <1>2. Fresh(h, v) # NoBinding
    BY <1>1, PoolAssumption
  <1> QED
    BY <1>1, <1>2 DEF Fresh

LEMMA FinishType ==
    ASSUME TypeOK, NEW c \in Callers, Finish(c)
    PROVE  /\ pc' \in [Callers -> {"idle", "dns", "fake", "real", "assign", "resolve",
                                   "recheck", "remember", "lookup", "hosts", "dial"}]
           /\ query' \in [Callers -> Hosts \cup Addrs \cup RealIps \cup {NoQuery}]
           /\ view' \in [Callers -> Views]
           /\ served' \in [Callers -> SUBSET Bindings]
           /\ pc'[c] = "idle" /\ served'[c] = {} /\ view'[c] = NoView
           /\ \A d \in Callers \ {c} : /\ pc'[d] = pc[d] /\ query'[d] = query[d]
                                       /\ view'[d] = view[d] /\ served'[d] = served[d]
  <1>1. NoView \in Views
    BY PoolAssumption DEF NoView, Views, Epochs, Generations
  <1> QED
    BY <1>1 DEF Finish, TypeOK

(* The three outcomes of assign, with the pruned pool named. *)
LEMMA AssignCases ==
    ASSUME TypeOK, NEW c \in Callers, Assign(c)
    PROVE  /\ view[c] \in Views /\ query[c] \in Hosts
           /\ real' = RealPruned(view[c])
           /\ Finish(c) /\ UNCHANGED policy
           /\ \/ /\ fake' = FakePruned(view[c])
                 /\ next' = next
                 /\ \/ given' = given
                    \/ \E a \in InUse(FakePruned(view[c])) :
                          /\ FakePruned(view[c])[a].host = query[c]
                          /\ given' = given \cup {<<a, query[c]>>}
              \/ /\ \A a \in InUse(FakePruned(view[c])) : FakePruned(view[c])[a].host # query[c]
                 /\ ~Full(FakePruned(view[c]), RealPruned(view[c]))
                 /\ next < Last /\ next \in Addrs
                 /\ fake' = [FakePruned(view[c]) EXCEPT ![next] = Fresh(query[c], view[c])]
                 /\ next' = next + 1
                 /\ given' = given \cup {<<next, query[c]>>}
  <1>1. view[c] \in Views /\ query[c] \in Hosts
    BY DEF TypeOK, Assign
  <1>2. next \in 1 .. Last
    BY DEF TypeOK
  <1>3. ~(next >= Last) => next < Last /\ next \in Addrs
    BY <1>2, PoolAssumption DEF Addrs
  <1> QED
    BY <1>1, <1>2, <1>3, SMTT(30) DEF Assign, Assigned, NextOffset, Exhausted

(* Every step keeps the types. *)
LEMMA NextKeepsTypes ==
    ASSUME TypeOK, [Next]_vars
    PROVE  TypeOK'
  <1> USE DEF policy, pool, calls
  <1>1. CASE Refresh
    BY <1>1, PoolAssumption DEF Refresh, TypeOK, Generations
  <1>2. CASE Handover
    BY <1>2, PoolAssumption DEF Handover, TypeOK, Generations, Epochs
  <1>3. CASE Expire
    <2>1. \A b \in Bindings : [b EXCEPT !.expired = TRUE] \in Bindings
      BY DEF Bindings
    <2>2. ASSUME NEW a \in InUse(fake), fake' = [fake EXCEPT ![a].expired = TRUE]
          PROVE  fake' \in [Addrs -> Bindings \cup {NoBinding}]
      BY <2>1, <2>2 DEF TypeOK, InUse
    <2>3. ASSUME NEW r \in RealIps, NEW b \in real[r],
                 real' = [real EXCEPT ![r] = (@ \ {b}) \cup {[b EXCEPT !.expired = TRUE]}]
          PROVE  real' \in [RealIps -> SUBSET Bindings]
      <3>1. b \in Bindings
        BY DEF TypeOK
      <3>2. (real[r] \ {b}) \cup {[b EXCEPT !.expired = TRUE]} \in SUBSET Bindings
        BY <2>1, <3>1 DEF TypeOK
      <3> QED
        BY <2>3, <3>2 DEF TypeOK
    <2>4. /\ fake' \in [Addrs -> Bindings \cup {NoBinding}]
          /\ real' \in [RealIps -> SUBSET Bindings]
      BY <1>3, <2>2, <2>3 DEF Expire, TypeOK
    <2> QED
      BY <1>3, <2>4 DEF Expire, TypeOK
  <1>4. ASSUME NEW c \in Callers, CallStep(c)
        PROVE  TypeOK'
    <2>1. ASSUME NEW p \in {"dns", "fake", "real"}, NEW q \in Hosts \cup Addrs \cup RealIps,
                 Begin(c, p, q)
          PROVE  TypeOK'
      <3>1. view' \in [Callers -> Views]
        BY <2>1 DEF Begin, TypeOK, Views
      <3> QED
        BY <2>1, <3>1 DEF Begin, TypeOK
    <2>2. CASE Snapshot(c)
      <3>1. view' \in [Callers -> Views]
        BY <2>2 DEF Snapshot, TypeOK, Views
      <3> QED
        BY <2>2, <3>1 DEF Snapshot, TypeOK
    <2>3. CASE Assign(c)
      <3>1. /\ fake' \in [Addrs -> Bindings \cup {NoBinding}]
            /\ real' \in [RealIps -> SUBSET Bindings]
            /\ next' \in 1 .. Last
            /\ given' \subseteq Addrs \X Hosts
        <4>1. view[c] \in Views /\ query[c] \in Hosts
          BY <2>3, AssignCases
        <4>2. Fresh(query[c], view[c]) \in Bindings
          BY <4>1, FreshType
        <4>3. InUse(FakePruned(view[c])) \subseteq Addrs
          BY DEF InUse
        <4>4. next \in 1 .. Last /\ Last \in Nat /\ given \subseteq Addrs \X Hosts
          BY PoolAssumption DEF TypeOK
        <4>5. next < Last => next + 1 \in 1 .. Last
          BY <4>4
        <4> QED
          BY <2>3, <4>1, <4>2, <4>3, <4>4, <4>5, AssignCases, PruneFacts
      <3>2. Finish(c) /\ UNCHANGED policy
        BY <2>3, AssignCases
      <3> QED
        BY <3>1, <3>2, FinishType DEF TypeOK
    <2>4. CASE Resolved(c)
      BY <2>4, FinishType DEF Resolved, Goto, TypeOK
    <2>5. CASE Rechecked(c)
      BY <2>5, FinishType DEF Rechecked, Goto, TypeOK
    <2>6. ASSUME NEW r \in RealIps, Remember(c, r)
          PROVE  TypeOK'
      <3>1. view[c] \in Views /\ query[c] \in Hosts
        BY <2>6 DEF Remember, TypeOK
      <3>2. Fresh(query[c], view[c]) \in Bindings
        BY <3>1, FreshType
      <3>3. /\ fake' \in [Addrs -> Bindings \cup {NoBinding}]
            /\ real' \in [RealIps -> SUBSET Bindings]
        BY <2>6, <3>1, <3>2, PruneFacts DEF Remember
      <3> QED
        BY <2>6, <3>3, FinishType DEF Remember, TypeOK
    <2>7. CASE Lookup(c)
      <3>1. view[c] \in Views /\ query[c] \in Addrs
        BY <2>7 DEF Lookup, TypeOK
      <3>2. /\ fake' \in [Addrs -> Bindings \cup {NoBinding}]
            /\ real' \in [RealIps -> SUBSET Bindings]
        BY <2>7, <3>1, PruneFacts DEF Lookup
      <3>3. FakePruned(view[c])[query[c]] \in Bindings \cup {NoBinding}
        BY <3>1, PruneFacts
      <3>4. CASE FakePruned(view[c])[query[c]] = NoBinding
        BY <2>7, <3>2, <3>4, FinishType DEF Lookup, TypeOK
      <3>5. CASE FakePruned(view[c])[query[c]] # NoBinding
        BY <2>7, <3>2, <3>3, <3>5 DEF Lookup, TypeOK
      <3> QED
        BY <3>4, <3>5
    <2>8. CASE RealHosts(c)
      <3>1. view[c] \in Views /\ query[c] \in RealIps
        BY <2>8 DEF RealHosts, TypeOK
      <3>2. /\ fake' \in [Addrs -> Bindings \cup {NoBinding}]
            /\ real' \in [RealIps -> SUBSET Bindings]
            /\ RealPruned(view[c])[query[c]] \in SUBSET Bindings
        BY <2>8, <3>1, PruneFacts DEF RealHosts
      <3> QED
        BY <2>8, <3>2 DEF RealHosts, TypeOK
    <2>9. CASE End(c)
      BY <2>9, FinishType DEF End, TypeOK
    <2> QED
      BY <1>4, <2>1, <2>2, <2>3, <2>4, <2>5, <2>6, <2>7, <2>8, <2>9 DEF CallStep
  <1>5. CASE UNCHANGED vars
    BY <1>5 DEF vars, TypeOK
  <1> QED
    BY <1>1, <1>2, <1>3, <1>4, <1>5 DEF Next
-----------------------------------------------------------------------------
(* What a step can do to the fake addresses: nothing, let one binding pass   *)
(* its deadline, prune them for the view of a caller, or assign.             *)
LEMMA FakeSteps ==
    ASSUME TypeOK, [Next]_vars
    PROVE  \/ UNCHANGED <<fake, next, given>>
           \/ /\ \E a \in InUse(fake) : fake' = [fake EXCEPT ![a].expired = TRUE]
              /\ UNCHANGED <<next, given>>
           \/ \E c \in Callers : /\ pc[c] \in {"remember", "lookup", "hosts"}
                                 /\ view[c] \in Views
                                 /\ fake' = FakePruned(view[c])
                                 /\ UNCHANGED <<next, given>>
           \/ \E c \in Callers : Assign(c)
  <1> USE DEF pool, calls, policy
  <1>1. ASSUME NEW c \in Callers, CallStep(c)
        PROVE  \/ UNCHANGED <<fake, next, given>>
               \/ /\ pc[c] \in {"remember", "lookup", "hosts"}
                  /\ view[c] \in Views
                  /\ fake' = FakePruned(view[c])
                  /\ UNCHANGED <<next, given>>
               \/ Assign(c)
    <2>1. view[c] \in Views
      BY DEF TypeOK
    <2> QED
      BY <1>1, <2>1 DEF CallStep, Begin, Snapshot, Resolved, Rechecked, Remember, Lookup,
                        RealHosts, End
  <1>2. CASE Expire
    BY <1>2 DEF Expire
  <1>3. CASE Refresh \/ Handover \/ UNCHANGED vars
    BY <1>3 DEF Refresh, Handover, vars
  <1> QED
    BY <1>1, <1>2, <1>3 DEF Next

(* An expired binding is the binding it was. *)
LEMMA ExpireFacts ==
    ASSUME TypeOK, NEW a \in InUse(fake), fake' = [fake EXCEPT ![a].expired = TRUE]
    PROVE  /\ InUse(fake') = InUse(fake)
           /\ \A x \in InUse(fake) : /\ fake'[x] \in Bindings
                                     /\ fake'[x].host = fake[x].host
                                     /\ fake'[x].epoch = fake[x].epoch
                                     /\ fake'[x].table = fake[x].table
  <1>1. \A b \in Bindings : LET e == [b EXCEPT !.expired = TRUE]
                            IN  /\ e \in Bindings /\ e.host = b.host
                                /\ e.epoch = b.epoch /\ e.table = b.table
    BY DEF Bindings
  <1>2. \A x \in InUse(fake) : fake[x] \in Bindings
    BY DEF InUse, TypeOK
  <1>3. \A x \in Addrs : fake'[x] = IF x = a THEN [fake[x] EXCEPT !.expired = TRUE] ELSE fake[x]
    BY DEF TypeOK
  <1>4. \A x \in InUse(fake) : /\ fake'[x] \in Bindings
                               /\ fake'[x].host = fake[x].host
                               /\ fake'[x].epoch = fake[x].epoch
                               /\ fake'[x].table = fake[x].table
    BY <1>1, <1>2, <1>3 DEF InUse
  <1>5. InUse(fake') = InUse(fake)
    BY <1>3, <1>4, PoolAssumption DEF InUse
  <1> QED
    BY <1>4, <1>5

(* Every step keeps the answers unique. *)
LEMMA NextKeepsAnswers ==
    ASSUME TypeOK, GivenBelowNext, NeverReassigned, [Next]_vars
    PROVE  GivenBelowNext' /\ NeverReassigned'
  <1>0. next \in Nat /\ given \subseteq Addrs \X Hosts
    BY PoolAssumption DEF TypeOK
  <1>1. CASE UNCHANGED <<fake, next, given>>
    BY <1>1 DEF GivenBelowNext, NeverReassigned, InUse
  <1>2. CASE /\ \E a \in InUse(fake) : fake' = [fake EXCEPT ![a].expired = TRUE]
             /\ UNCHANGED <<next, given>>
    <2>1. InUse(fake)' = InUse(fake) /\ \A x \in InUse(fake) : fake'[x].host = fake[x].host
      BY <1>2, ExpireFacts DEF InUse
    <2> QED
      BY <1>2, <2>1 DEF GivenBelowNext, NeverReassigned
  <1>3. ASSUME NEW c \in Callers, view[c] \in Views, fake' = FakePruned(view[c]),
               UNCHANGED <<next, given>>
        PROVE  GivenBelowNext' /\ NeverReassigned'
    <2>1. \A a \in InUse(fake)' : a \in InUse(fake) /\ fake'[a] = fake[a]
      BY <1>3, PruneFacts DEF InUse
    <2> QED
      BY <1>3, <2>1 DEF GivenBelowNext, NeverReassigned
  <1>4. ASSUME NEW c \in Callers, Assign(c)
        PROVE  GivenBelowNext' /\ NeverReassigned'
    <2> DEFINE v == view[c]
               h == query[c]
               f == FakePruned(v)
    <2>1. v \in Views /\ h \in Hosts
      BY <1>4, AssignCases
    <2>2. \A a \in InUse(f) : /\ a \in InUse(fake) /\ f[a] = fake[a]
                              /\ <<a, f[a].host>> \in given
      BY <2>1, PruneFacts DEF NeverReassigned
    <2>3. CASE /\ fake' = f /\ next' = next
               /\ \/ given' = given
                  \/ \E a \in InUse(f) : f[a].host = h /\ given' = given \cup {<<a, h>>}
      <3>1. given' = given
        BY <2>2, <2>3
      <3>2. InUse(fake)' = InUse(f)
        BY <2>3 DEF InUse
      <3> QED
        BY <2>2, <2>3, <3>1, <3>2 DEF GivenBelowNext, NeverReassigned
    <2>4. CASE /\ next \in Addrs
               /\ fake' = [f EXCEPT ![next] = Fresh(h, v)]
               /\ next' = next + 1
               /\ given' = given \cup {<<next, h>>}
      <3>1. \A p \in given : p[1] \in Nat /\ p[1] < next
        BY <1>0 DEF GivenBelowNext, Addrs
      <3>2. GivenBelowNext'
        BY <1>0, <2>4, <3>1 DEF GivenBelowNext
      <3>3. \A p, q \in given' : p[1] = q[1] => p[2] = q[2]
        <4>1. \A p \in given : p[1] # next
          BY <1>0, <3>1
        <4> QED
          BY <2>4, <4>1 DEF NeverReassigned
      <3>4. \A a \in InUse(fake)' : <<a, fake'[a].host>> \in given'
        <4>1. f \in [Addrs -> Bindings \cup {NoBinding}]
          BY <2>1, PruneFacts
        <4>2. ASSUME NEW a \in InUse(fake)'
              PROVE  <<a, fake'[a].host>> \in given'
          <5>1. CASE a = next
            BY <2>1, <2>4, <4>1, <5>1, FreshType
          <5>2. CASE a # next
            BY <2>2, <2>4, <4>1, <4>2, <5>2 DEF InUse
          <5> QED
            BY <5>1, <5>2
        <4> QED
          BY <4>2
      <3> QED
        BY <3>2, <3>3, <3>4 DEF NeverReassigned
    <2> HIDE DEF v, h, f
    <2> QED
      BY <1>4, <2>3, <2>4, AssignCases DEF v, h, f
  <1> QED
    BY <1>1, <1>2, <1>3, <1>4, FakeSteps
-----------------------------------------------------------------------------
(* assign looks for the host before it takes an address. *)
LEMMA NextKeepsOneAddress ==
    ASSUME TypeOK, OneAddressPerHost, [Next]_vars
    PROVE  OneAddressPerHost'
  <1>1. CASE UNCHANGED <<fake, next, given>>
    BY <1>1 DEF OneAddressPerHost, InUse
  <1>2. CASE \E a \in InUse(fake) : fake' = [fake EXCEPT ![a].expired = TRUE]
    <2>1. InUse(fake)' = InUse(fake) /\ \A x \in InUse(fake) : fake'[x].host = fake[x].host
      BY <1>2, ExpireFacts DEF InUse
    <2> QED
      BY <2>1 DEF OneAddressPerHost
  <1>3. ASSUME NEW c \in Callers, view[c] \in Views, fake' = FakePruned(view[c])
        PROVE  OneAddressPerHost'
    <2>1. \A a \in InUse(fake)' : a \in InUse(fake) /\ fake'[a] = fake[a]
      BY <1>3, PruneFacts DEF InUse
    <2> QED
      BY <2>1 DEF OneAddressPerHost
  <1>4. ASSUME NEW c \in Callers, Assign(c)
        PROVE  OneAddressPerHost'
    <2> DEFINE v == view[c]
               h == query[c]
               f == FakePruned(v)
    <2>1. v \in Views /\ h \in Hosts
      BY <1>4, AssignCases
    <2>2. \A a \in InUse(f) : a \in InUse(fake) /\ f[a] = fake[a]
      BY <2>1, PruneFacts
    <2>3. CASE fake' = f
      <3>1. InUse(fake)' = InUse(f)
        BY <2>3 DEF InUse
      <3> QED
        BY <2>2, <2>3, <3>1 DEF OneAddressPerHost
    <2>4. CASE /\ \A a \in InUse(f) : f[a].host # h
               /\ next \in Addrs
               /\ fake' = [f EXCEPT ![next] = Fresh(h, v)]
      <3>1. f \in [Addrs -> Bindings \cup {NoBinding}]
        BY <2>1, PruneFacts
      <3>2. fake'[next].host = h
        BY <2>1, <2>4, <3>1, FreshType
      <3>3. \A a \in InUse(fake)' : a # next => /\ a \in InUse(f) /\ a \in InUse(fake)
                                                /\ fake'[a] = fake[a]
                                                /\ fake'[a].host # h
        BY <2>2, <2>4, <3>1 DEF InUse
      <3> QED
        BY <3>2, <3>3 DEF OneAddressPerHost
    <2> HIDE DEF v, h, f
    <2> QED
      BY <1>4, <2>3, <2>4, AssignCases DEF v, h, f
  <1> QED
    BY <1>1, <1>2, <1>3, <1>4, FakeSteps
-----------------------------------------------------------------------------
(* Bindings are as new as the view they are made in. *)
LEMMA NextKeepsTables ==
    ASSUME TypeOK, TableNotOlder, NoNameFromOlderSession, [Next]_vars
    PROVE  TableNotOlder' /\ NoNameFromOlderSession'
  <1> DEFINE BindingsOK == /\ \A a \in InUse(fake) : fake[a].table >= fake[a].epoch
                           /\ \A r \in RealIps : \A b \in real[r] : b.table >= b.epoch
             CallsOK == \A c \in Callers :
                           /\ view[c].epoch <= epoch
                           /\ pc[c] \in Seen => view[c].table >= view[c].epoch
                           /\ pc[c] # "dial" => served[c] = {}
                           /\ \A b \in served[c] : b.table >= view[c].epoch
  <1> USE DEF policy, pool, calls
  <1>0. /\ BindingsOK /\ CallsOK
        /\ epoch \in Nat
        /\ \A c \in Callers : view[c] \in Views /\ view[c].epoch \in Nat /\ view[c].epoch >= 1
    BY DEF TableNotOlder, NoNameFromOlderSession, TypeOK, Views, Epochs
  <1>1. SUFFICES BindingsOK' /\ CallsOK'
    BY DEF TableNotOlder, NoNameFromOlderSession
  <1>2. ASSUME NEW c \in Callers, Finish(c), UNCHANGED epoch
        PROVE  CallsOK'
    BY <1>0, <1>2, FinishType DEF NoView, Seen
  <1>3. ASSUME NEW v \in Views, fake' = FakePruned(v), real' = RealPruned(v)
        PROVE  BindingsOK'
    BY <1>0, <1>3, PruneFacts DEF InUse
  <1>4. CASE Refresh \/ Handover \/ UNCHANGED vars
    <2>1. BindingsOK'
      BY <1>0, <1>4 DEF Refresh, Handover, vars, InUse
    <2>2. CallsOK'
      BY <1>0, <1>4 DEF Refresh, Handover, vars
    <2> QED
      BY <2>1, <2>2
  <1>5. CASE Expire
    <2>1. CallsOK'
      BY <1>0, <1>5 DEF Expire
    <2>2. ASSUME NEW a \in InUse(fake), fake' = [fake EXCEPT ![a].expired = TRUE], UNCHANGED real
          PROVE  BindingsOK'
      <3>1. InUse(fake)' = InUse(fake)
        BY <2>2, ExpireFacts DEF InUse
      <3> QED
        BY <1>0, <2>2, <3>1, ExpireFacts
    <2>3. ASSUME NEW r \in RealIps, NEW b \in real[r], UNCHANGED fake,
                 real' = [real EXCEPT ![r] = (@ \ {b}) \cup {[b EXCEPT !.expired = TRUE]}]
          PROVE  BindingsOK'
      <3>1. b \in Bindings
        BY DEF TypeOK
      <3>2. [b EXCEPT !.expired = TRUE].table >= [b EXCEPT !.expired = TRUE].epoch
        BY <1>0, <3>1 DEF Bindings
      <3>3. \A s \in RealIps : \A x \in real'[s] : x \in real[s] \/ x = [b EXCEPT !.expired = TRUE]
        BY <2>3 DEF TypeOK
      <3>4. InUse(fake)' = InUse(fake)
        BY <2>3 DEF InUse
      <3> QED
        BY <1>0, <2>3, <3>2, <3>3, <3>4
    <2> QED
      BY <1>5, <2>1, <2>2, <2>3 DEF Expire
  <1>6. ASSUME NEW c \in Callers, CallStep(c)
        PROVE  BindingsOK' /\ CallsOK'
    <2>1. ASSUME NEW p \in {"dns", "fake", "real"}, NEW q, Begin(c, p, q)
          PROVE  BindingsOK' /\ CallsOK'
      <3>1. BindingsOK'
        BY <1>0, <2>1 DEF Begin, InUse
      <3>2. /\ pc'[c] \notin Seen /\ view'[c].epoch = epoch
            /\ \A d \in Callers \ {c} : pc'[d] = pc[d] /\ view'[d] = view[d]
        BY <2>1 DEF Begin, Seen, Views, TypeOK
      <3>3. served' = served /\ served[c] = {} /\ epoch' = epoch
        BY <1>0, <2>1 DEF Begin
      <3> QED
        BY <1>0, <3>1, <3>2, <3>3
    <2>2. CASE Snapshot(c)
      <3>1. BindingsOK'
        BY <1>0, <2>2 DEF Snapshot, InUse
      <3>2. /\ view'[c].epoch = view[c].epoch /\ view'[c].table = epoch
            /\ \A d \in Callers \ {c} : pc'[d] = pc[d] /\ view'[d] = view[d]
        BY <2>2 DEF Snapshot, TypeOK
      <3>3. served' = served /\ served[c] = {} /\ epoch' = epoch
        BY <1>0, <2>2 DEF Snapshot
      <3> QED
        BY <1>0, <3>1, <3>2, <3>3
    <2>3. CASE Assign(c)
      <3>1. CallsOK'
        BY <1>2, <2>3, AssignCases
      <3>2. CASE fake' = FakePruned(view[c])
        BY <1>0, <1>3, <2>3, <3>1, <3>2, AssignCases
      <3>3. CASE /\ next \in Addrs
                 /\ fake' = [FakePruned(view[c]) EXCEPT ![next] = Fresh(query[c], view[c])]
        <4>1. query[c] \in Hosts /\ real' = RealPruned(view[c])
          BY <2>3, AssignCases
        <4>2. view[c].table >= view[c].epoch
          BY <1>0, <2>3 DEF Assign, Seen
        <4>3. fake'[next].table >= fake'[next].epoch
          BY <1>0, <3>3, <4>1, <4>2, FreshType, PruneFacts
        <4>4. \A a \in InUse(fake)' : a # next => a \in InUse(fake) /\ fake'[a] = fake[a]
          BY <1>0, <3>3, PruneFacts DEF InUse
        <4> QED
          BY <1>0, <3>1, <4>1, <4>3, <4>4, PruneFacts
      <3> QED
        BY <2>3, <3>1, <3>2, <3>3, AssignCases
    <2>4. CASE Resolved(c) \/ Rechecked(c) \/ End(c)
      <3>1. BindingsOK'
        BY <1>0, <2>4 DEF Resolved, Rechecked, End, InUse
      <3>2. ASSUME NEW p \in {"recheck", "remember"}, Goto(c, p), pc[c] \in {"resolve", "recheck"},
                   UNCHANGED epoch
            PROVE  CallsOK'
        BY <1>0, <3>2 DEF Goto, Seen, TypeOK
      <3> QED
        BY <1>2, <2>4, <3>1, <3>2 DEF Resolved, Rechecked, End
    <2>5. ASSUME NEW r \in RealIps, Remember(c, r)
          PROVE  BindingsOK' /\ CallsOK'
      <3>1. CallsOK'
        BY <1>2, <2>5 DEF Remember
      <3>2. query[c] \in Hosts /\ view[c].table >= view[c].epoch
        BY <1>0, <2>5 DEF Remember, TypeOK, Seen
      <3>3. \A s \in RealIps : \A b \in real'[s] : b \in real[s] \/ b = Fresh(query[c], view[c])
        BY <1>0, <2>5, PruneFacts DEF Remember
      <3>4. \A a \in InUse(fake)' : a \in InUse(fake) /\ fake'[a] = fake[a]
        BY <1>0, <2>5, PruneFacts DEF Remember, InUse
      <3> QED
        BY <1>0, <3>1, <3>2, <3>3, <3>4, FreshType
    <2>6. CASE Lookup(c)
      <3>1. BindingsOK'
        BY <1>0, <1>3, <2>6 DEF Lookup
      <3>2. CASE FakePruned(view[c])[query[c]] = NoBinding
        BY <1>2, <2>6, <3>1, <3>2 DEF Lookup
      <3>3. CASE FakePruned(view[c])[query[c]] # NoBinding
        <4> DEFINE b == FakePruned(view[c])[query[c]]
        <4>1. query[c] \in InUse(FakePruned(view[c]))
          BY <2>6, <3>3 DEF Lookup, TypeOK, InUse
        <4>2. b.epoch = view[c].epoch /\ b.table >= b.epoch
          BY <1>0, <4>1, PruneFacts DEF Valid
        <4>3. /\ served'[c] = {b} /\ view' = view /\ epoch' = epoch /\ pc'[c] = "dial"
              /\ \A d \in Callers \ {c} : pc'[d] = pc[d] /\ served'[d] = served[d]
          BY <2>6, <3>3 DEF Lookup, TypeOK
        <4>4. view[c].table >= view[c].epoch
          BY <1>0, <2>6 DEF Lookup, Seen
        <4> HIDE DEF b
        <4> QED
          BY <1>0, <3>1, <4>2, <4>3, <4>4
      <3> QED
        BY <3>2, <3>3
    <2>7. CASE RealHosts(c)
      <3>1. BindingsOK'
        BY <1>0, <1>3, <2>7 DEF RealHosts
      <3>2. \A b \in RealPruned(view[c])[query[c]] : b.epoch = view[c].epoch /\ b.table >= b.epoch
        BY <1>0, <2>7, PruneFacts DEF RealHosts, TypeOK, Valid
      <3>3. /\ served'[c] = RealPruned(view[c])[query[c]] /\ view' = view /\ epoch' = epoch
            /\ pc'[c] = "dial"
            /\ \A d \in Callers \ {c} : pc'[d] = pc[d] /\ served'[d] = served[d]
        BY <2>7 DEF RealHosts, TypeOK
      <3>4. view[c].table >= view[c].epoch
        BY <1>0, <2>7 DEF RealHosts, Seen
      <3> QED
        BY <1>0, <3>1, <3>2, <3>3, <3>4
    <2> QED
      BY <1>6, <2>1, <2>2, <2>3, <2>4, <2>5, <2>6, <2>7 DEF CallStep
  <1> QED
    BY <1>4, <1>5, <1>6 DEF Next
-----------------------------------------------------------------------------
LEMMA FiniteUse ==
    ASSUME NEW f, NEW g
    PROVE  /\ IsFiniteSet(InUse(f)) /\ Cardinality(InUse(f)) \in Nat
           /\ IsFiniteSet(Shared(g)) /\ Cardinality(Shared(g)) \in Nat
  <1>1. IsFiniteSet(Addrs)
    BY FS_Interval, PoolAssumption DEF Addrs
  <1>2. IsFiniteSet(InUse(f))
    BY <1>1, FS_Subset DEF InUse
  <1>3. IsFiniteSet(Shared(g))
    BY PoolAssumption, FS_Subset DEF Shared
  <1> QED
    BY <1>2, <1>3, FS_CardinalityType

LEMMA OneMore ==
    ASSUME NEW S, NEW x, IsFiniteSet(S)
    PROVE  /\ Cardinality(S) \in Nat
           /\ IsFiniteSet(S \cup {x})
           /\ Cardinality(S \cup {x}) \in Nat
           /\ Cardinality(S \cup {x}) <= Cardinality(S) + 1
  <1>1. Cardinality(S) \in Nat
    BY FS_CardinalityType
  <1>2. /\ IsFiniteSet(S \cup {x})
        /\ Cardinality(S \cup {x}) = IF x \in S THEN Cardinality(S) ELSE Cardinality(S) + 1
    BY FS_AddElement
  <1> QED
    BY <1>1, <1>2

(* The names of an address are finitely many, so that they can be counted. *)
RealFinite == \A r \in RealIps : IsFiniteSet(real[r])

(* prune frees room and takes none. *)
LEMMA PruneShrinks ==
    ASSUME TypeOK, RealFinite, WithinCapacity, NEW v \in Views
    PROVE  LET f == FakePruned(v)
               g == RealPruned(v)
           IN  /\ Cardinality(InUse(f)) + Cardinality(Shared(g)) <= Capacity
               /\ \A r \in RealIps : IsFiniteSet(g[r]) /\ Cardinality(g[r]) <= MaxShared
  <1> DEFINE f == FakePruned(v)
             g == RealPruned(v)
  <1>1. InUse(f) \subseteq InUse(fake) /\ Shared(g) \subseteq Shared(real)
    BY PruneFacts DEF Shared
  <1>2. /\ Cardinality(InUse(f)) <= Cardinality(InUse(fake))
        /\ Cardinality(Shared(g)) <= Cardinality(Shared(real))
    BY <1>1, FiniteUse, FS_Subset
  <1>3. Cardinality(InUse(f)) + Cardinality(Shared(g)) <= Capacity
    <2>1. /\ Cardinality(InUse(f)) \in Nat /\ Cardinality(InUse(fake)) \in Nat
          /\ Cardinality(Shared(g)) \in Nat /\ Cardinality(Shared(real)) \in Nat
      BY FiniteUse
    <2>2. Cardinality(InUse(fake)) + Cardinality(Shared(real)) <= Capacity
      BY DEF WithinCapacity
    <2> HIDE DEF f, g
    <2> QED
      BY <1>2, <2>1, <2>2, PoolAssumption
  <1>4. ASSUME NEW r \in RealIps
        PROVE  IsFiniteSet(g[r]) /\ Cardinality(g[r]) <= MaxShared
    <2>1. g[r] \subseteq real[r] /\ IsFiniteSet(real[r])
      BY PruneFacts DEF RealFinite
    <2>2. /\ IsFiniteSet(g[r]) /\ Cardinality(g[r]) <= Cardinality(real[r])
          /\ Cardinality(g[r]) \in Nat /\ Cardinality(real[r]) \in Nat
      BY <2>1, FS_Subset, FS_CardinalityType
    <2>3. Cardinality(real[r]) <= MaxShared
      BY DEF WithinCapacity
    <2> HIDE DEF f, g
    <2> QED
      BY <2>2, <2>3, PoolAssumption
  <1> QED
    BY <1>3, <1>4

(* Every step stays within the capacity. *)
LEMMA NextKeepsCapacity ==
    ASSUME TypeOK, RealFinite, WithinCapacity, [Next]_vars
    PROVE  RealFinite' /\ WithinCapacity'
  <1> USE DEF policy, pool, calls
  <1>1. ASSUME UNCHANGED <<fake, real>>
        PROVE  RealFinite' /\ WithinCapacity'
    BY <1>1 DEF RealFinite, WithinCapacity, InUse, Shared
  <1>2. ASSUME NEW v \in Views, fake' = FakePruned(v), real' = RealPruned(v)
        PROVE  RealFinite' /\ WithinCapacity'
    <2>1. InUse(fake)' = InUse(FakePruned(v)) /\ Shared(real)' = Shared(RealPruned(v))
      BY <1>2 DEF InUse, Shared
    <2> QED
      BY <1>2, <2>1, PruneShrinks DEF RealFinite, WithinCapacity
  <1>3. CASE Refresh \/ Handover \/ UNCHANGED vars
    BY <1>1, <1>3 DEF Refresh, Handover, vars
  <1>4. CASE Expire
    <2>1. ASSUME NEW a \in InUse(fake), fake' = [fake EXCEPT ![a].expired = TRUE], UNCHANGED real
          PROVE  RealFinite' /\ WithinCapacity'
      <3>1. InUse(fake)' = InUse(fake) /\ Shared(real)' = Shared(real)
        BY <2>1, ExpireFacts DEF InUse, Shared
      <3> QED
        BY <2>1, <3>1 DEF RealFinite, WithinCapacity
    <2>2. ASSUME NEW r \in RealIps, NEW b \in real[r], UNCHANGED fake,
                 real' = [real EXCEPT ![r] = (@ \ {b}) \cup {[b EXCEPT !.expired = TRUE]}]
          PROVE  RealFinite' /\ WithinCapacity'
      <3> DEFINE x == [b EXCEPT !.expired = TRUE]
                 S == real[r] \ {b}
      <3>1. real'[r] = S \cup {x} /\ \A s \in RealIps \ {r} : real'[s] = real[s]
        BY <2>2 DEF TypeOK
      <3>2. InUse(fake)' = InUse(fake) /\ Shared(real)' = Shared(real)
        BY <2>2, <3>1 DEF InUse, Shared
      <3>3. IsFiniteSet(real[r]) /\ IsFiniteSet(S)
            /\ Cardinality(S) = Cardinality(real[r]) - 1
            /\ Cardinality(real[r]) \in Nat /\ Cardinality(S) \in Nat
        BY FS_RemoveElement, FS_CardinalityType DEF RealFinite
      <3> HIDE DEF S, x
      <3>4. IsFiniteSet(S \cup {x}) /\ Cardinality(S \cup {x}) <= Cardinality(real[r])
        <4>1. /\ IsFiniteSet(S \cup {x}) /\ Cardinality(S \cup {x}) \in Nat
              /\ Cardinality(S \cup {x}) <= Cardinality(S) + 1
          BY <3>3, OneMore
        <4> QED
          BY <3>3, <4>1
      <3>5. Cardinality(S \cup {x}) <= MaxShared
        <4>1. Cardinality(real[r]) <= MaxShared
          BY DEF WithinCapacity
        <4>2. Cardinality(S \cup {x}) \in Nat
          BY <3>3, OneMore
        <4> QED
          BY <3>3, <3>4, <4>1, <4>2, PoolAssumption
      <3> QED
        BY <3>1, <3>2, <3>4, <3>5 DEF RealFinite, WithinCapacity
    <2> QED
      BY <1>4, <2>1, <2>2 DEF Expire
  <1>5. ASSUME NEW c \in Callers, Assign(c)
        PROVE  RealFinite' /\ WithinCapacity'
    <2> DEFINE v == view[c]
               f == FakePruned(v)
               g == RealPruned(v)
    <2>1. v \in Views /\ query[c] \in Hosts /\ real' = g
      BY <1>5, AssignCases
    <2>2. CASE fake' = f
      BY <1>2, <2>1, <2>2
    <2>3. CASE /\ ~Full(f, g) /\ next \in Addrs
               /\ fake' = [f EXCEPT ![next] = Fresh(query[c], v)]
      <3>1. f \in [Addrs -> Bindings \cup {NoBinding}]
        BY <2>1, PruneFacts
      <3>2. InUse(fake)' = InUse(f) \cup {next} /\ Shared(real)' = Shared(g)
        BY <2>1, <2>3, <3>1, FreshType DEF InUse, Shared
      <3>3. /\ IsFiniteSet(InUse(f)) /\ Cardinality(InUse(f)) \in Nat
            /\ Cardinality(Shared(g)) \in Nat
        BY FiniteUse
      <3>4. /\ Cardinality(InUse(f) \cup {next}) \in Nat
            /\ Cardinality(InUse(f) \cup {next}) <= Cardinality(InUse(f)) + 1
        BY <3>3, OneMore
      <3>5. ~(Cardinality(InUse(f)) + Cardinality(Shared(g)) >= Capacity)
        BY <2>3 DEF Full
      <3>6. \A r \in RealIps : IsFiniteSet(g[r]) /\ Cardinality(g[r]) <= MaxShared
        BY <2>1, PruneShrinks
      <3> HIDE DEF v, f, g
      <3>7. Cardinality(InUse(f) \cup {next}) + Cardinality(Shared(g)) <= Capacity
        BY <3>3, <3>4, <3>5, PoolAssumption
      <3> QED
        BY <2>1, <3>2, <3>6, <3>7 DEF RealFinite, WithinCapacity
    <2> HIDE DEF v, f, g
    <2> QED
      BY <1>5, <2>2, <2>3, AssignCases DEF v, f, g
  <1>6. ASSUME NEW c \in Callers, NEW r \in RealIps, Remember(c, r)
        PROVE  RealFinite' /\ WithinCapacity'
    <2> DEFINE v == view[c]
               f == FakePruned(v)
               g == RealPruned(v)
               x == Fresh(query[c], v)
    <2>1. v \in Views
      BY DEF TypeOK
    <2>2. CASE real' = g
      BY <1>2, <1>6, <2>1, <2>2 DEF Remember
    <2>3. CASE /\ fake' = f /\ real' = [g EXCEPT ![r] = @ \cup {x}]
               /\ ~(g[r] = {} /\ Full(f, g)) /\ ~(Cardinality(g[r]) >= MaxShared)
      <3>1. g \in [RealIps -> SUBSET Bindings]
        BY <2>1, PruneFacts
      <3>2. InUse(fake)' = InUse(f) /\ Shared(real)' = Shared(g) \cup {r}
        BY <2>3, <3>1 DEF InUse, Shared
      <3>3. /\ Cardinality(InUse(f)) + Cardinality(Shared(g)) <= Capacity
            /\ \A s \in RealIps : IsFiniteSet(g[s]) /\ Cardinality(g[s]) <= MaxShared
        BY <2>1, PruneShrinks
      <3>4. /\ Cardinality(InUse(f)) \in Nat /\ IsFiniteSet(Shared(g))
            /\ Cardinality(Shared(g)) \in Nat
        BY FiniteUse
      <3>5. g[r] = {} => ~(Cardinality(InUse(f)) + Cardinality(Shared(g)) >= Capacity)
        BY <2>3 DEF Full
      <3>6. g[r] # {} => Shared(g) \cup {r} = Shared(g)
        BY DEF Shared
      <3>7. real'[r] = g[r] \cup {x} /\ \A s \in RealIps \ {r} : real'[s] = g[s]
        BY <2>3, <3>1
      <3> HIDE DEF v, f, g, x
      <3>8. Cardinality(InUse(f)) + Cardinality(Shared(g) \cup {r}) <= Capacity
        <4>1. CASE g[r] = {}
          <5>1. /\ Cardinality(Shared(g) \cup {r}) \in Nat
                /\ Cardinality(Shared(g) \cup {r}) <= Cardinality(Shared(g)) + 1
            BY <3>4, OneMore
          <5> QED
            BY <3>4, <3>5, <4>1, <5>1, PoolAssumption
        <4>2. CASE g[r] # {}
          BY <3>3, <3>6, <4>2
        <4> QED
          BY <4>1, <4>2
      <3>9. IsFiniteSet(g[r] \cup {x}) /\ Cardinality(g[r] \cup {x}) <= MaxShared
        <4>1. IsFiniteSet(g[r]) /\ Cardinality(g[r]) \in Nat
          BY <3>3, FS_CardinalityType
        <4>2. /\ IsFiniteSet(g[r] \cup {x}) /\ Cardinality(g[r] \cup {x}) \in Nat
              /\ Cardinality(g[r] \cup {x}) <= Cardinality(g[r]) + 1
          BY <4>1, OneMore
        <4> QED
          BY <2>3, <4>1, <4>2, PoolAssumption
      <3> QED
        BY <3>2, <3>3, <3>7, <3>8, <3>9 DEF RealFinite, WithinCapacity
    <2> HIDE DEF v, f, g, x
    <2> QED
      BY <1>6, <2>2, <2>3 DEF Remember, v, f, g, x
  <1>7. ASSUME NEW c \in Callers, CallStep(c)
        PROVE  RealFinite' /\ WithinCapacity'
    <2>1. CASE Lookup(c) \/ RealHosts(c)
      <3>1. view[c] \in Views
        BY DEF TypeOK
      <3> QED
        BY <1>2, <2>1, <3>1 DEF Lookup, RealHosts
    <2>2. CASE \/ Snapshot(c) \/ Resolved(c) \/ Rechecked(c) \/ End(c)
               \/ \E p \in {"dns", "fake", "real"}, q \in Hosts \cup Addrs \cup RealIps :
                     Begin(c, p, q)
      BY <1>1, <2>2 DEF Snapshot, Resolved, Rechecked, End, Begin
    <2> QED
      BY <1>5, <1>6, <1>7, <2>1, <2>2 DEF CallStep
  <1> QED
    BY <1>3, <1>4, <1>7 DEF Next
-----------------------------------------------------------------------------
(* The inductive invariant. *)
Inv == /\ TypeOK
       /\ GivenBelowNext /\ NeverReassigned
       /\ OneAddressPerHost
       /\ TableNotOlder /\ NoNameFromOlderSession
       /\ RealFinite /\ WithinCapacity

LEMMA InitInv ==
    Init => Inv
  <1> SUFFICES ASSUME Init
               PROVE  Inv
    OBVIOUS
  <1>1. NoView \in Views
    BY PoolAssumption DEF NoView, Views, Epochs, Generations
  <1>2. TypeOK
    BY <1>1, PoolAssumption DEF Init, TypeOK, Epochs, Generations
  <1>3. InUse(fake) = {} /\ Shared(real) = {}
    BY DEF Init, InUse, Shared
  <1>4. /\ GivenBelowNext /\ NeverReassigned /\ OneAddressPerHost
        /\ TableNotOlder /\ NoNameFromOlderSession
    BY <1>3 DEF Init, GivenBelowNext, NeverReassigned, OneAddressPerHost, TableNotOlder,
                NoNameFromOlderSession, NoView, Seen
  <1>5. RealFinite /\ WithinCapacity
    <2>1. IsFiniteSet({}) /\ Cardinality({}) = 0
      BY FS_EmptySet
    <2>2. \A r \in RealIps : real[r] = {}
      BY DEF Init
    <2> QED
      <3>1. 0 + 0 <= Capacity /\ 0 <= MaxShared
        BY PoolAssumption
      <3> QED
        BY <1>3, <2>1, <2>2, <3>1 DEF RealFinite, WithinCapacity
  <1> QED
    BY <1>2, <1>4, <1>5 DEF Inv

LEMMA InvAlways ==
    Spec => []Inv
  <1>1. Inv /\ [Next]_vars => Inv'
    BY NextKeepsTypes, NextKeepsAnswers, NextKeepsOneAddress, NextKeepsTables,
       NextKeepsCapacity DEF Inv
  <1> QED
    BY <1>1, InitInv, PTL DEF Spec

(* The pool, the views and the calls have their types. *)
THEOREM PoolTypeCorrect ==
    Spec => []TypeOK
  BY InvAlways, PTL DEF Inv

(* "Fake addresses are never reassigned during this pool's lifetime": for    *)
(* every pool, no address is ever answered for two hosts.                    *)
THEOREM AddressesNeverReassigned ==
    Spec => []NeverReassigned
  BY InvAlways, PTL DEF Inv

(* assign never gives one host two addresses. *)
THEOREM HostsHaveOneAddress ==
    Spec => []OneAddressPerHost
  BY InvAlways, PTL DEF Inv

(* assign and remember_real never exceed the capacity they share. *)
THEOREM CapacityNeverExceeded ==
    Spec => []WithinCapacity
  BY InvAlways, PTL DEF Inv

(* The three together: what applications that keep fake addresses rely on. *)
THEOREM PoolIsSound ==
    Spec => []AddressesAreSound
  BY AddressesNeverReassigned, HostsHaveOneAddress, CapacityNeverExceeded, PTL
     DEF AddressesAreSound

(* No name of an older session's resource table is served, although a view   *)
(* may be mixed.                                                             *)
THEOREM OlderSessionsNeverServed ==
    Spec => []NoNameFromOlderSession
  BY InvAlways, PTL DEF Inv

(* prune forgets a binding of the policy in force only for an outdated view. *)
THEOREM OnlyOutdatedViewsPrune ==
    Spec => OnlyOutdatedViewsForget
  <1> DEFINE A == \A a \in InUse(fake) :
                     /\ fake'[a] = NoBinding
                     /\ fake[a].epoch = epoch /\ fake[a].gen = generation /\ ~fake[a].expired
                     => \E c \in Callers : /\ pc[c] \in {"assign", "remember", "lookup", "hosts"}
                                           /\ \/ view[c].epoch # epoch
                                              \/ view[c].gen # generation
  <1>1. TypeOK /\ [Next]_vars => A
    <2> SUFFICES ASSUME TypeOK, [Next]_vars, NEW a \in InUse(fake), fake'[a] = NoBinding,
                        fake[a].epoch = epoch, fake[a].gen = generation, ~fake[a].expired
                 PROVE  \E c \in Callers : /\ pc[c] \in {"assign", "remember", "lookup", "hosts"}
                                           /\ \/ view[c].epoch # epoch
                                              \/ view[c].gen # generation
      OBVIOUS
    <2>1. ~UNCHANGED <<fake, next, given>>
      BY DEF InUse
    <2>2. ~\E x \in InUse(fake) : fake' = [fake EXCEPT ![x].expired = TRUE]
      BY ExpireFacts, PoolAssumption
    <2>3. ASSUME NEW c \in Callers, FakePruned(view[c])[a] = NoBinding
          PROVE  view[c].epoch # epoch \/ view[c].gen # generation
      <3>1. view[c] \in Views /\ fake[a] # NoBinding
        BY DEF TypeOK, InUse
      <3> QED
        BY <2>3, <3>1, PruneFacts DEF Valid
    <2>4. ASSUME NEW c \in Callers, Assign(c)
          PROVE  FakePruned(view[c])[a] = NoBinding /\ pc[c] = "assign"
      <3>1. view[c] \in Views /\ query[c] \in Hosts
        BY <2>4, AssignCases
      <3>2. FakePruned(view[c]) \in [Addrs -> Bindings \cup {NoBinding}] /\ a \in Addrs
        BY <3>1, PruneFacts DEF InUse
      <3>3. \/ fake' = FakePruned(view[c])
            \/ fake' = [FakePruned(view[c]) EXCEPT ![next] = Fresh(query[c], view[c])]
        BY <2>4, AssignCases
      <3>4. Fresh(query[c], view[c]) # NoBinding
        BY <3>1, FreshType
      <3> DEFINE f == FakePruned(view[c])
                 b == Fresh(query[c], view[c])
      <3> HIDE DEF f, b
      <3>5. f[a] = NoBinding
        <4>1. f \in [Addrs -> Bindings \cup {NoBinding}] /\ a \in Addrs /\ b # NoBinding
          BY <3>2, <3>4 DEF f, b
        <4>2. fake' = f \/ fake' = [f EXCEPT ![next] = b]
          BY <3>3 DEF f, b
        <4> QED
          BY <4>1, <4>2
      <3> QED
        BY <2>4, <3>5 DEF Assign, f
    <2> QED
      BY <2>1, <2>2, <2>3, <2>4, FakeSteps
  <1>2. Spec => [][A]_vars
    BY <1>1, PoolTypeCorrect, PTL DEF Spec
  <1> QED
    BY <1>2 DEF OnlyOutdatedViewsForget
=============================================================================
