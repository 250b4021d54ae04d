-------------------------- MODULE ConntrackProofs --------------------------
(***************************************************************************)
(* Proofs about Conntrack, for every set of flows and resources, every     *)
(* capacity, TTL and sweep interval.                                       *)
(*                                                                         *)
(* The inductive invariant is Inv: the two indexes agree and no id in the  *)
(* table lies ahead of the sequence.  IndexesAgree alone is not inductive: *)
(* a new id that was already indexed would overwrite another flow's entry, *)
(* which IdsIssued excludes.                                               *)
(***************************************************************************)
EXTENDS Conntrack, TLAPS

(* Every id in the table has been issued, so the next one is fresh: a late   *)
(* 0x93 can only reach the attempt that asked for it.                        *)
IdsIssued == \A k \in Present : by_key[k].id <= next_auth_id

Inv == TypeOK /\ IndexesAgree /\ IdsIssued

(* prune_at_with_room evicts settled flows only: both the idle scan and the *)
(* trimming by recency pass over an authorization in flight.                *)
LEMMA PruneSparesInFlight ==
    ASSUME NEW room, NEW gone \in Pruned(room)
    PROVE  gone \subseteq {k \in Present : ~InFlight(k)}
  BY DEF Pruned, Expired, IdleTooLong, LeastRecentlyUsed

(* The flows authorize_flow removes before it claims k: settled ones, and k *)
(* itself when it moves to another resource.                                *)
LEMMA AuthorizeCases ==
    ASSUME NEW k \in Keys, NEW r \in Resources, Authorize(k, r)
    PROVE  \E gone \in SUBSET Present :
             /\ \A j \in gone : InFlight(j) => j = k /\ by_key[k].resource # r
             /\ k \in Present \ gone => by_key[k].resource = r
             /\ last_sweep' \in {now, last_sweep}
             /\ \/ /\ k \in Present \ gone
                   /\ by_key' = [KeysWithout(gone) EXCEPT ![k].last_used = now]
                   /\ by_id' = IdsWithout(gone)
                   /\ UNCHANGED <<next_auth_id, now>>
                \/ /\ k \notin Present \ gone
                   /\ next_auth_id < MaxAuthId
                   /\ next_auth_id' = next_auth_id + 1
                   /\ by_key' = [KeysWithout(gone) EXCEPT ![k] =
                          [id |-> FreshAuthId, resource |-> r,
                           outcome |-> "none", last_used |-> now]]
                   /\ by_id' = [IdsWithout(gone) EXCEPT ![FreshAuthId] = k]
                   /\ UNCHANGED now
  <1> DEFINE moved == {j \in {k} \cap Present : by_key[j].resource # r}
  <1>1. PICK pruned \in (IF SweepDue(k) THEN Pruned(Room(k)) ELSE {{}}) :
             /\ last_sweep' = IF SweepDue(k) THEN now ELSE last_sweep
             /\ \/ /\ k \in Present \ (pruned \cup moved)
                   /\ by_key' = [KeysWithout(pruned \cup moved) EXCEPT ![k].last_used = now]
                   /\ by_id' = IdsWithout(pruned \cup moved)
                   /\ UNCHANGED <<next_auth_id, now>>
                \/ /\ k \notin Present \ (pruned \cup moved)
                   /\ next_auth_id < MaxAuthId
                   /\ next_auth_id' = next_auth_id + 1
                   /\ by_key' = [KeysWithout(pruned \cup moved) EXCEPT ![k] =
                          [id |-> FreshAuthId, resource |-> r,
                           outcome |-> "none", last_used |-> now]]
                   /\ by_id' = [IdsWithout(pruned \cup moved) EXCEPT ![FreshAuthId] = k]
                   /\ UNCHANGED now
    BY DEF Authorize
  <1>2. pruned \subseteq {j \in Present : ~InFlight(j)}
    BY PruneSparesInFlight
  <1>3. pruned \cup moved \in SUBSET Present
    BY <1>2
  <1>4. \A j \in pruned \cup moved : InFlight(j) => j = k /\ by_key[k].resource # r
    BY <1>2
  <1>5. k \in Present \ (pruned \cup moved) => by_key[k].resource = r
    OBVIOUS
  <1>6. last_sweep' \in {now, last_sweep}
    BY <1>1
  <1> HIDE DEF moved
  <1> QED
    BY <1>1, <1>3, <1>4, <1>5, <1>6

LEMMA InitInv == Init => Inv
  BY ConntrackAssumption DEF Init, Inv, TypeOK, IndexesAgree, IdsIssued, Present, Ids

(* Evicting any set of tracked flows from both indexes keeps them in step. *)
LEMMA EvictionKeepsInv ==
    ASSUME Inv, NEW gone \in SUBSET Present,
           by_key' = KeysWithout(gone), by_id' = IdsWithout(gone),
           next_auth_id' = next_auth_id, last_sweep' = last_sweep, now' = now
    PROVE  Inv'
  BY ConntrackAssumption
  DEF Inv, TypeOK, IndexesAgree, IdsIssued, Present, KeysWithout, IdsWithout, Entries

LEMMA AuthorizeKeepsInv ==
    ASSUME Inv, NEW k \in Keys, NEW r \in Resources, Authorize(k, r)
    PROVE  Inv'
  <1>1. PICK gone \in SUBSET Present :
             /\ last_sweep' \in {now, last_sweep}
             /\ \/ /\ k \in Present \ gone
                   /\ by_key' = [KeysWithout(gone) EXCEPT ![k].last_used = now]
                   /\ by_id' = IdsWithout(gone)
                   /\ UNCHANGED <<next_auth_id, now>>
                \/ /\ k \notin Present \ gone
                   /\ next_auth_id < MaxAuthId
                   /\ next_auth_id' = next_auth_id + 1
                   /\ by_key' = [KeysWithout(gone) EXCEPT ![k] =
                          [id |-> FreshAuthId, resource |-> r,
                           outcome |-> "none", last_used |-> now]]
                   /\ by_id' = [IdsWithout(gone) EXCEPT ![FreshAuthId] = k]
                   /\ UNCHANGED now
    BY AuthorizeCases
  <1>2. CASE k \in Present \ gone
    <2>1. /\ by_key' = [KeysWithout(gone) EXCEPT ![k].last_used = now]
          /\ by_id' = IdsWithout(gone)
          /\ UNCHANGED <<next_auth_id, now>>
      BY <1>1, <1>2
    <2>2. TypeOK'
      BY <1>1, <1>2, <2>1, ConntrackAssumption
      DEF Inv, TypeOK, KeysWithout, IdsWithout, Entries, Present
    <2>3. IndexesAgree' /\ IdsIssued'
      BY <1>1, <1>2, <2>1, ConntrackAssumption
      DEF Inv, TypeOK, IndexesAgree, IdsIssued, Present, KeysWithout, IdsWithout, Entries
    <2> QED BY <2>2, <2>3 DEF Inv
  <1>3. CASE k \notin Present \ gone
    <2>1. /\ next_auth_id < MaxAuthId
          /\ next_auth_id' = next_auth_id + 1
          /\ by_key' = [KeysWithout(gone) EXCEPT ![k] =
                 [id |-> next_auth_id + 1, resource |-> r,
                  outcome |-> "none", last_used |-> now]]
          /\ by_id' = [IdsWithout(gone) EXCEPT ![next_auth_id + 1] = k]
          /\ UNCHANGED now
      BY <1>1, <1>3 DEF FreshAuthId
    <2>2. next_auth_id + 1 \in Ids /\ next_auth_id' \in 0 .. MaxAuthId
      BY <2>1, ConntrackAssumption DEF Inv, TypeOK, Ids
    <2>3. [id |-> next_auth_id + 1, resource |-> r,
           outcome |-> "none", last_used |-> now] \in Entries
      BY <2>2, ConntrackAssumption DEF Inv, TypeOK, Entries, Outcomes
    <2>4. TypeOK'
      BY <1>1, <2>1, <2>2, <2>3, ConntrackAssumption
      DEF Inv, TypeOK, KeysWithout, IdsWithout
    <2>5. IdsIssued'
      BY <2>1, <2>2, <2>3, ConntrackAssumption
      DEF Inv, TypeOK, IdsIssued, Present, KeysWithout, Entries, Ids
    <2>6. \A j \in Present : by_key[j].id # next_auth_id + 1
      BY ConntrackAssumption DEF Inv, TypeOK, IdsIssued, Present, Entries, Ids
    <2>7. \A j \in Keys : by_key'[j] =
             IF j = k THEN [id |-> next_auth_id + 1, resource |-> r,
                            outcome |-> "none", last_used |-> now]
             ELSE IF j \in gone THEN NoEntry ELSE by_key[j]
      BY <2>1 DEF KeysWithout
    <2>8. \A i \in Ids : by_id'[i] =
             IF i = next_auth_id + 1 THEN k
             ELSE IF \E j \in gone : by_key[j].id = i THEN NoKey ELSE by_id[i]
      BY <2>1, <2>2 DEF IdsWithout
    <2>9. ASSUME NEW j \in Keys, by_key'[j] # NoEntry
          PROVE  by_id'[by_key'[j].id] = j
      <3>1. CASE j = k
        BY <2>2, <2>7, <2>8, <3>1
      <3>2. CASE j # k
        <4>1. by_key'[j] = by_key[j] /\ j \in Present \ gone
          BY <2>7, <2>9, <3>2 DEF Present
        <4>2. by_key[j].id \in Ids /\ by_key[j].id # next_auth_id + 1
          BY <2>6, <4>1 DEF Inv, TypeOK, Present, Entries
        <4>3. ~ \E h \in gone : by_key[h].id = by_key[j].id
          BY <4>1 DEF Inv, IndexesAgree
        <4> QED BY <2>8, <4>1, <4>2, <4>3 DEF Inv, IndexesAgree
      <3> QED BY <3>1, <3>2
    <2>10. ASSUME NEW i \in Ids, by_id'[i] # NoKey
           PROVE  /\ by_id'[i] \in Keys
                  /\ by_key'[by_id'[i]] # NoEntry
                  /\ by_key'[by_id'[i]].id = i
      <3>1. CASE i = next_auth_id + 1
        BY <2>2, <2>3, <2>7, <2>8, <3>1, ConntrackAssumption
      <3>2. CASE i # next_auth_id + 1
        <4>1. by_id'[i] = by_id[i] /\ ~ \E j \in gone : by_key[j].id = i
          BY <2>8, <2>10, <3>2
        <4>2. by_id[i] \in Present \ gone /\ by_key[by_id[i]].id = i
          BY <2>10, <4>1 DEF Inv, IndexesAgree
        <4>3. by_id[i] # k
          BY <1>3, <4>2
        <4> QED BY <2>7, <4>1, <4>2, <4>3 DEF Present
      <3> QED BY <3>1, <3>2
    <2>11. IndexesAgree'
      BY <2>9, <2>10 DEF IndexesAgree, Present
    <2> QED BY <2>4, <2>5, <2>11 DEF Inv
  <1> QED BY <1>2, <1>3

LEMMA NextKeepsInv == Inv /\ [Next]_vars => Inv'
  <1> SUFFICES ASSUME Inv, [Next]_vars PROVE Inv'
    OBVIOUS
  <1>1. ASSUME NEW k \in Keys, NEW r \in Resources, Authorize(k, r) PROVE Inv'
    BY <1>1, AuthorizeKeepsInv
  <1>2. ASSUME NEW i \in Ids, NEW reply \in Replies, MarkAuth(i, reply) PROVE Inv'
    BY <1>2, ConntrackAssumption
    DEF MarkAuth, Complete, InFlight, Inv, TypeOK, IndexesAgree, IdsIssued, Present,
        Entries, Outcomes
  <1>3. ASSUME NEW i \in Ids, EvictByAuthId(i) PROVE Inv'
    <2>1. {by_id[i]} \in SUBSET Present
      BY <1>3 DEF EvictByAuthId, Inv, TypeOK, Present
    <2> QED BY <1>3, <2>1, EvictionKeepsInv DEF EvictByAuthId
  <1>4. ASSUME NEW k \in Keys, Touch(k) PROVE Inv'
    BY <1>4, ConntrackAssumption
    DEF Touch, Inv, TypeOK, IndexesAgree, IdsIssued, Present, Entries
  <1>5. CASE Clear
    BY <1>5, ConntrackAssumption
    DEF Clear, Inv, TypeOK, IndexesAgree, IdsIssued, Present
  <1>6. CASE Prune
    <2>1. PICK gone \in Pruned(Capacity - 1) :
               /\ by_key' = KeysWithout(gone)
               /\ by_id' = IdsWithout(gone)
               /\ UNCHANGED <<next_auth_id, last_sweep, now>>
      BY <1>6 DEF Prune
    <2>2. gone \in SUBSET Present
      BY PruneSparesInFlight
    <2> QED BY <2>1, <2>2, EvictionKeepsInv
  <1>7. CASE Tick
    BY <1>7, ConntrackAssumption
    DEF Tick, Inv, TypeOK, IndexesAgree, IdsIssued, Present
  <1>8. CASE UNCHANGED vars
    BY <1>8 DEF vars, Inv, TypeOK, IndexesAgree, IdsIssued, Present
  <1> QED BY <1>1, <1>2, <1>3, <1>4, <1>5, <1>6, <1>7, <1>8 DEF Next

LEMMA InvAlways == Spec => []Inv
  BY InitInv, NextKeepsInv, PTL DEF Spec

(* Every reachable table is well formed. *)
THEOREM TypeCorrect == Spec => []TypeOK
  BY InvAlways, PTL DEF Inv

(* evict, clear and get_or_create never let the two hash maps drift apart. *)
THEOREM IndexesAlwaysAgree == Spec => []IndexesAgree
  BY InvAlways, PTL DEF Inv

(* No id in the table is ahead of the sequence, so a new id is fresh. *)
THEOREM IdsAlwaysIssued == Spec => []IdsIssued
  BY InvAlways, PTL DEF Inv
-----------------------------------------------------------------------------
(* An attempt of the abstract table is settled, or absent, exactly when the  *)
(* entry it stands for is.                                                   *)
LEMMA AttemptFacts ==
    ASSUME TypeOK
    PROVE  \A k \in Keys :
             /\ AttemptTable[k] # NoEntry <=> k \in Present
             /\ k \in Present => /\ AttemptTable[k].id = by_key[k].id
                                 /\ AttemptTable[k].resource = by_key[k].resource
                                 /\ AttemptTable[k].outcome = by_key[k].outcome
             /\ k \in Promise!Settled <=> k \in Present /\ ~InFlight(k)
  <1> SUFFICES ASSUME NEW k \in Keys, k \in Present
               PROVE  [id |-> by_key[k].id, resource |-> by_key[k].resource,
                       outcome |-> by_key[k].outcome] # NoEntry
    BY DEF AttemptTable, Attempt, Present, Promise!Settled, InFlight
  <1> QED BY ConntrackAssumption DEF TypeOK, Present, Entries, Attempts

(* A claim of the session's is a claim of FlowTable: the settled flows it    *)
(* removed are forgotten.                                                    *)
LEMMA AuthorizeClaims ==
    ASSUME Inv, Inv', NEW k \in Keys, NEW r \in Resources, Authorize(k, r)
    PROVE  Promise!Claim(k, r)
  <1>1. PICK gone \in SUBSET Present :
             /\ \A j \in gone : InFlight(j) => j = k /\ by_key[k].resource # r
             /\ k \in Present \ gone => by_key[k].resource = r
             /\ \/ /\ k \in Present \ gone
                   /\ by_key' = [KeysWithout(gone) EXCEPT ![k].last_used = now]
                   /\ next_auth_id' = next_auth_id
                \/ /\ k \notin Present \ gone
                   /\ next_auth_id < MaxAuthId
                   /\ next_auth_id' = next_auth_id + 1
                   /\ by_key' = [KeysWithout(gone) EXCEPT ![k] =
                          [id |-> FreshAuthId, resource |-> r,
                           outcome |-> "none", last_used |-> now]]
    BY AuthorizeCases
  <1> DEFINE forgotten == {j \in gone : ~InFlight(j)}
             rest == [j \in Keys |-> IF j \in forgotten THEN NoEntry ELSE AttemptTable[j]]
  <1>2. forgotten \in SUBSET Promise!Settled
    BY AttemptFacts DEF Inv, Present
  <1>3. CASE k \in Present \ gone
    <2>1. k \notin forgotten /\ AttemptTable[k] # NoEntry /\ AttemptTable[k].resource = r
      BY <1>1, <1>3, AttemptFacts DEF Inv
    <2>2. \A j \in gone : j \in forgotten
      BY <1>1, <1>3
    <2>3. ASSUME NEW j \in Keys PROVE AttemptTable'[j] = rest[j]
      <3>1. CASE j = k
        BY <1>1, <1>3, <3>1, ConntrackAssumption
        DEF AttemptTable, Attempt, KeysWithout, Inv, TypeOK, Entries, Present
      <3>2. CASE j # k
        BY <1>1, <1>3, <2>2, <3>2 DEF AttemptTable, Attempt, KeysWithout
      <3> QED BY <3>1, <3>2
    <2>4. AttemptTable' = rest
      BY <2>3 DEF AttemptTable
    <2> QED BY <1>1, <1>2, <1>3, <2>1, <2>4 DEF Promise!Claim, Promise!Without
  <1>4. CASE k \notin Present \ gone
    <2>1. /\ next_auth_id < MaxAuthId
          /\ next_auth_id' = next_auth_id + 1
          /\ by_key' = [KeysWithout(gone) EXCEPT ![k] =
                 [id |-> next_auth_id + 1, resource |-> r,
                  outcome |-> "none", last_used |-> now]]
      BY <1>1, <1>4 DEF FreshAuthId
    <2>2. ~(k \notin forgotten /\ AttemptTable[k] # NoEntry /\ AttemptTable[k].resource = r)
      BY <1>1, <1>4, AttemptFacts DEF Inv
    <2>3. by_key'[k] = [id |-> next_auth_id + 1, resource |-> r,
                        outcome |-> "none", last_used |-> now] /\ by_key'[k] # NoEntry
      BY <2>1, ConntrackAssumption DEF KeysWithout, Inv, TypeOK, Entries, Ids, Outcomes
    <2>4. ASSUME NEW j \in Keys
          PROVE  AttemptTable'[j] = [rest EXCEPT ![k] =
                    [id |-> next_auth_id + 1, resource |-> r, outcome |-> "none"]][j]
      <3>1. CASE j = k
        BY <2>3, <3>1 DEF AttemptTable, Attempt
      <3>2. CASE j # k
        <4>1. j \in gone <=> j \in forgotten
          BY <1>1, <3>2
        <4>2. by_key'[j] = IF j \in gone THEN NoEntry ELSE by_key[j]
          BY <2>1, <3>2 DEF KeysWithout
        <4> QED BY <3>2, <4>1, <4>2 DEF AttemptTable, Attempt
      <3> QED BY <3>1, <3>2
    <2>5. AttemptTable' = [rest EXCEPT ![k] =
              [id |-> next_auth_id + 1, resource |-> r, outcome |-> "none"]]
      BY <2>4 DEF AttemptTable
    <2> QED BY <1>2, <2>1, <2>2, <2>5 DEF Promise!Claim, Promise!Without
  <1> QED BY <1>3, <1>4

LEMMA NextImplements ==
    ASSUME Inv, Inv', [Next]_vars
    PROVE  [Promise!TableNext]_Promise!tableVars
  <1>1. ASSUME NEW k \in Keys, NEW r \in Resources, Authorize(k, r)
        PROVE  Promise!TableNext
    BY <1>1, AuthorizeClaims DEF Promise!TableNext
  <1>2. ASSUME NEW i \in Ids, NEW reply \in Replies, MarkAuth(i, reply)
        PROVE  Promise!TableNext \/ UNCHANGED Promise!tableVars
    <2> DEFINE k == by_id[i]
               v == IF reply = "token" THEN "ready" ELSE "failed"
    <2>1. k \in Present /\ k \in Keys
      BY <1>2 DEF MarkAuth, Inv, TypeOK, Present
    <2>2. CASE InFlight(k)
      <3>1. by_key' = [by_key EXCEPT ![k].outcome = v] /\ next_auth_id' = next_auth_id
        BY <1>2, <2>2 DEF MarkAuth, Complete
      <3>2. Promise!Pending(k)
        BY <2>1, <2>2, AttemptFacts DEF Promise!Pending, Inv, InFlight
      <3>3. by_key'[k] # NoEntry /\ by_key[k] # NoEntry
        BY <2>1, <3>1, ConntrackAssumption
        DEF Inv, TypeOK, Present, Entries, Outcomes
      <3>4. \A j \in Keys : AttemptTable'[j] = [AttemptTable EXCEPT ![k].outcome = v][j]
        BY <2>1, <3>1, <3>3, ConntrackAssumption
        DEF AttemptTable, Attempt, Inv, TypeOK, Entries, Present
      <3>5. AttemptTable' = [AttemptTable EXCEPT ![k].outcome = v]
        BY <3>4 DEF AttemptTable
      <3>6. Promise!Settle(k, v)
        BY <3>1, <3>2, <3>5 DEF Promise!Settle
      <3>7. v \in Promise!Verdicts
        BY DEF Promise!Verdicts
      <3> QED BY <2>1, <3>6, <3>7 DEF Promise!TableNext
    <2>3. CASE ~InFlight(k)
      BY <1>2, <2>3 DEF MarkAuth, Complete, Promise!tableVars, AttemptTable
    <2> QED BY <2>2, <2>3
  <1>3. ASSUME NEW i \in Ids, EvictByAuthId(i) PROVE Promise!TableNext
    <2>1. by_id[i] \in Keys /\ by_id[i] \in Present
      BY <1>3 DEF EvictByAuthId, Inv, TypeOK, Present
    <2>2. AttemptTable' = [AttemptTable EXCEPT ![by_id[i]] = NoEntry]
      BY <1>3, <2>1 DEF EvictByAuthId, KeysWithout, AttemptTable, Attempt
    <2>3. Promise!GiveUp(by_id[i])
      BY <1>3, <2>1, <2>2, AttemptFacts DEF Promise!GiveUp, EvictByAuthId, Inv
    <2> QED BY <2>1, <2>3 DEF Promise!TableNext
  <1>4. ASSUME NEW k \in Keys, Touch(k) PROVE UNCHANGED Promise!tableVars
    <2>1. by_key'[k] # NoEntry /\ by_key[k] # NoEntry
      BY <1>4, ConntrackAssumption DEF Touch, Inv, TypeOK, Present, Entries
    <2>2. \A j \in Keys : AttemptTable'[j] = AttemptTable[j]
      BY <1>4, <2>1, ConntrackAssumption
      DEF Touch, AttemptTable, Attempt, Inv, TypeOK, Entries, Present
    <2> QED BY <1>4, <2>2 DEF Touch, Promise!tableVars, AttemptTable
  <1>5. CASE Clear
    <2>1. Promise!Forget
      BY <1>5 DEF Clear, Promise!Forget, AttemptTable, Attempt
    <2> QED BY <2>1 DEF Promise!TableNext
  <1>6. CASE Prune
    <2>1. PICK gone \in Pruned(Capacity - 1) :
               by_key' = KeysWithout(gone) /\ next_auth_id' = next_auth_id
      BY <1>6 DEF Prune
    <2>2. gone \in SUBSET Promise!Settled
      BY PruneSparesInFlight, AttemptFacts DEF Inv, Present
    <2>3. AttemptTable' = Promise!Without(gone)
      BY <2>1 DEF KeysWithout, AttemptTable, Attempt, Promise!Without
    <2> QED BY <2>1, <2>2, <2>3 DEF Promise!TableNext, Promise!ForgetSettled
  <1>7. CASE Tick
    BY <1>7 DEF Tick, Promise!tableVars, AttemptTable
  <1>8. CASE UNCHANGED vars
    BY <1>8 DEF vars, Promise!tableVars, AttemptTable
  <1> QED BY <1>1, <1>2, <1>3, <1>4, <1>5, <1>6, <1>7, <1>8 DEF Next

(* The table keeps FlowTable's promises: ids are never issued twice, the first *)
(* verdict stands, and an authorization in flight is dropped only on request.  *)
THEOREM ConntrackImplementsFlowTable == Spec => ImplementsFlowTable
  <1>1. Init => Promise!TableInit
    BY DEF Init, Promise!TableInit, AttemptTable, Attempt
  <1>2. Inv /\ Inv' /\ [Next]_vars => [Promise!TableNext]_Promise!tableVars
    BY NextImplements
  <1> QED BY <1>1, <1>2, InvAlways, PTL DEF Spec, ImplementsFlowTable, Promise!TableSpec
=============================================================================
