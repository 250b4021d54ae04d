------------------------------- MODULE Resolver -------------------------------
(* Resolver::lookup_with_ttl, lookup_remote and resolve, and the stack's dial  *)
(* that uses the result. Calls share an answer cache keyed by (epoch,          *)
(* generation, host) and one gate per key; handovers and refreshes of the      *)
(* resource table happen between any two awaits, and a call may be dropped.    *)
EXTENDS Naturals, Sequences, FiniteSets, FiniteSetsExt

CONSTANTS Lookups,      \* concurrent calls
          Hosts,
          DnsServers,   \* number of servers a lookup asks in turn
          CacheSize,    \* ResolverConfig::capacity
          MaxSession, MaxTable,  \* bounds: sessions; sessions and generations together
          MaxDials      \* bound: dials the calls make one after the other

ASSUME ResolverAssumption ==
    /\ CacheSize \in Nat /\ DnsServers \in Nat
    /\ MaxSession \in Nat \ {0} /\ MaxTable \in Nat \ {0} /\ MaxDials \in Nat

Policies == (1..MaxSession) \X (1..MaxTable)
NoPolicy == <<0, 0>>
Keys     == Policies \X Hosts
Gates    == 1..Cardinality(Lookups)

VARIABLES policy,   \* <<session_epoch, generation>> of the active session
          answers,  \* cache: key -> [src, live]; src is the table it was resolved with
          flights,  \* key -> gate, with 0 for none; dead gates are dropped
          lk,       \* call -> its progress
          dials     \* dials begun so far

resolverVars == <<policy, answers, flights, lk, dials>>

Fresh == [pc |-> "idle", key |-> <<NoPolicy, "none">>, table |-> NoPolicy, gate |-> 0,
          hint |-> NoPolicy, start |-> NoPolicy, src |-> NoPolicy, returned |-> NoPolicy,
          used |-> NoPolicy, server |-> 0]

Holding == {"udp", "tcp", "generation", "store"}
LookupPcs == Holding \cup {"idle", "begin", "snapshot", "join", "wait", "done",
                           "dialled", "failed"}

ResolverTypeOK ==
    /\ policy \in Policies /\ dials \in 0..MaxDials
    /\ \A k \in DOMAIN answers : k \in Keys /\ answers[k].src \in Policies
    /\ Cardinality(DOMAIN answers) <= CacheSize
    /\ \A c \in Lookups : lk[c].pc \in LookupPcs /\ lk[c].gate \in Gates \cup {0}

ResolverInit ==
    /\ policy = <<1, 1>> /\ dials = 0
    /\ answers = [k \in {} |-> [src |-> NoPolicy, live |-> TRUE]]
    /\ flights = [k \in Keys |-> 0]
    /\ lk = [c \in Lookups |-> Fresh]

Keep(c, rec) == lk' = [lk EXCEPT ![c] = rec]
Step(c, from, rec) == lk[c].pc = from /\ Keep(c, rec)
Fails(c) == [Fresh EXCEPT !.pc = "failed"]

(* p was current before q, or they are the same *)
NotAfter(p, q) == p[1] < q[1] \/ (p[1] = q[1] /\ p[2] <= q[2])

(* the environment: a handover restarts the generations; an answer expires *)
HandOver ==
    /\ policy[1] < MaxSession /\ policy' = <<policy[1] + 1, 1>>
    /\ UNCHANGED <<answers, flights, lk, dials>>

NewTable ==
    /\ policy[1] + policy[2] <= MaxTable /\ policy' = <<policy[1], policy[2] + 1>>
    /\ UNCHANGED <<answers, flights, lk, dials>>

AnswerExpires ==
    /\ \E k \in DOMAIN answers : answers[k].live /\ answers' = [answers EXCEPT ![k].live = FALSE]
    /\ UNCHANGED <<policy, flights, lk, dials>>

(* resolve: the domain's resource, or none for an address, before the lookup *)
Resolve(c) ==
    /\ dials < MaxDials /\ dials' = dials + 1
    /\ lk[c].pc \in {"idle", "dialled", "failed"}
    /\ Keep(c, [Fresh EXCEPT !.pc = "begin", !.hint = policy])
    /\ UNCHANGED <<policy, answers, flights>>

(* check_session, then the epoch; an address or a bad name ends the lookup *)
LookupBegin(c) ==
    /\ \/ \E h \in Hosts :
            Step(c, "begin", [lk[c] EXCEPT !.pc = "snapshot", !.start = policy,
                                           !.key = <<<<policy[1], 1>>, h>>])
       \/ Step(c, "begin", [lk[c] EXCEPT !.pc = "done", !.start = policy, !.src = policy,
                                         !.returned = policy])
       \/ Step(c, "begin", Fails(c))
    /\ UNCHANGED <<policy, answers, flights, dials>>

SnapshotBeforeEpoch(c) ==
    /\ Step(c, "snapshot", [lk[c] EXCEPT !.pc = "join", !.table = lk[c].start,
                                         !.key = <<<<policy[1], lk[c].start[2]>>, @[2]>>])
    /\ UNCHANGED <<policy, answers, flights, dials>>
(* the snapshot is read after the epoch: it may be of a later session *)
Snapshot(c) ==
    /\ Step(c, "snapshot", [lk[c] EXCEPT !.pc = "join", !.table = policy,
                                         !.key = <<<<@[1][1], policy[2]>>, @[2]>>])
    /\ UNCHANGED <<policy, answers, flights, dials>>

Held(g) == \E d \in Lookups : lk[d].gate = g
FreeGate == CHOOSE g \in Gates : ~Held(g)

LiveGateAlone(c) == 0
(* the gate of the key while a call still holds it *)
LiveGate(c) == IF Held(flights[lk[c].key]) THEN flights[lk[c].key] ELSE 0

JoinGate(c) ==
    LET gate == IF LiveGate(c) # 0 THEN LiveGate(c) ELSE FreeGate
    IN /\ Step(c, "join", [lk[c] EXCEPT !.pc = "wait", !.gate = gate])
       /\ flights' = [k \in Keys |-> IF k = lk[c].key THEN gate
                                     ELSE IF flights[k] # 0 /\ Held(flights[k]) THEN flights[k]
                                     ELSE 0]
       /\ UNCHANGED <<policy, answers, dials>>

Answered(c, src) ==
    [Fresh EXCEPT !.pc = "done", !.start = lk[c].start, !.src = src, !.hint = lk[c].hint,
                  !.returned = policy]

(* a cached answer counts only while the caller's epoch is the current one *)
Hit(c) ==
    /\ lk[c].key \in DOMAIN answers /\ answers[lk[c].key].live
    /\ policy[1] = lk[c].key[1][1]

(* the epoch is checked as soon as there are addresses, the generation an *)
(* await later                                                            *)
CheckEpoch(c) ==
    IF policy[1] = lk[c].key[1][1] THEN [lk[c] EXCEPT !.pc = "generation"] ELSE Fails(c)

(* behind the gate: a cached answer, addresses of the resource table itself, *)
(* or the first server                                                       *)
LockGate(c) ==
    /\ \A d \in Lookups \ {c} : ~(lk[d].gate = lk[c].gate /\ lk[d].pc \in Holding)
    /\ IF Hit(c)
         THEN Step(c, "wait", Answered(c, answers[lk[c].key].src))
         ELSE \/ Step(c, "wait", CheckEpoch(c))
              \/ Step(c, "wait", IF DnsServers = 0 THEN Fails(c)
                                 ELSE [lk[c] EXCEPT !.pc = "udp", !.server = 1])
    /\ UNCHANGED <<policy, answers, flights, dials>>

(* lookup_remote: any UDP outcome but addresses leads to TCP *)
AskUdp(c) ==
    /\ \/ Step(c, "udp", CheckEpoch(c))
       \/ Step(c, "udp", [lk[c] EXCEPT !.pc = "tcp"])
    /\ UNCHANGED <<policy, answers, flights, dials>>

AskTcp(c) ==
    /\ \/ Step(c, "tcp", CheckEpoch(c))
       \/ Step(c, "tcp", IF lk[c].server < DnsServers
                           THEN [lk[c] EXCEPT !.pc = "udp", !.server = @ + 1]
                           ELSE Fails(c))
    /\ UNCHANGED <<policy, answers, flights, dials>>

CheckGeneration(c) ==
    /\ Step(c, "generation", IF policy[2] = lk[c].key[1][2] THEN [lk[c] EXCEPT !.pc = "store"]
                                                            ELSE Fails(c))
    /\ UNCHANGED <<policy, answers, flights, dials>>

(* the entries retained: of the same epoch and generation and not expired *)
Retained(c) == {k \in DOMAIN answers : k[1] = lk[c].key[1] /\ answers[k].live}

(* store the answer, evicting one entry of a full cache; a zero TTL or a *)
(* zero capacity stores nothing                                          *)
Store(c) ==
    /\ lk[c].pc = "store"
    /\ \/ UNCHANGED answers
       \/ /\ CacheSize # 0
          /\ \E victim \in IF Cardinality(Retained(c)) >= CacheSize
                             THEN Retained(c) ELSE {lk[c].key} :
               LET kept == (Retained(c) \ {victim}) \cup {lk[c].key}
               IN answers' = [k \in kept |-> IF k = lk[c].key
                                               THEN [src |-> lk[c].table, live |-> TRUE]
                                               ELSE answers[k]]
    /\ Keep(c, Answered(c, lk[c].table))
    /\ UNCHANGED <<policy, flights, dials>>

(* resolve's result goes to dial_tcp or dial_udp, which route again *)
DialHint(c) ==
    /\ Step(c, "done", [Fresh EXCEPT !.pc = "dialled", !.returned = lk[c].returned,
                                         !.used = lk[c].hint])
    /\ UNCHANGED <<policy, answers, flights, dials>>
Dial(c) ==
    /\ \/ Step(c, "done", [Fresh EXCEPT !.pc = "dialled", !.returned = lk[c].returned,
                                            !.used = policy])
       \/ Step(c, "done", Fails(c))       \* no longer authorized, or no L3 stack
    /\ UNCHANGED <<policy, answers, flights, dials>>

(* the caller gives up, or the lookup_timeout passes *)
LookupDropped(c) ==
    /\ lk[c].pc \notin {"idle", "dialled", "failed"} /\ Keep(c, Fails(c))
    /\ UNCHANGED <<policy, answers, flights, dials>>

ResolverNext ==
    \/ HandOver \/ NewTable \/ AnswerExpires
    \/ \E c \in Lookups :
         \/ Resolve(c) \/ LookupBegin(c) \/ Snapshot(c) \/ JoinGate(c) \/ LockGate(c)
         \/ AskUdp(c) \/ AskTcp(c) \/ CheckGeneration(c) \/ Store(c) \/ Dial(c) \/ LookupDropped(c)

ResolverSpec == ResolverInit /\ [][ResolverNext]_resolverVars

----------------------------------------------------------------------------
(* An answer, fresh or cached, was resolved with a resource table that was   *)
(* current at some time during the call, although key and snapshot are read  *)
(* one after the other; and a dial uses the policy at the point of use, not  *)
(* the one the name was resolved under ("a hint, never an authority").       *)
AnswersAreCurrent ==
    \A c \in Lookups :
        /\ lk[c].pc = "done" => NotAfter(lk[c].start, lk[c].src)
        /\ lk[c].pc = "dialled" => NotAfter(lk[c].returned, lk[c].used)

(* Calls for the same key never look it up at the same time, even when gates *)
(* are dropped and made again while other calls still wait on an older one.  *)
OneLookupPerKey ==
    \A c, d \in Lookups :
        lk[c].pc \in Holding /\ lk[d].pc \in Holding /\ lk[c].key = lk[d].key => c = d

(* What the cache and its gates promise together: at most one lookup of a key *)
(* runs, and its answer is never older than the call it is given to.          *)
LookupsAreSound == AnswersAreCurrent /\ OneLookupPerKey
=============================================================================
