----------------------------- MODULE FakeIpPool -----------------------------
(***************************************************************************)
(* The domain identities of the local proxies: the pool of fake addresses  *)
(* and remembered real ones (crates/atrust-net/src/fake_ip.rs), and the    *)
(* two operations of ProxyDialer that use it (dial.rs): dns_record, which  *)
(* answers a DNS query, and original_host, which turns an address back     *)
(* into the name it was handed out for.                                    *)
(*                                                                         *)
(* The policy of the client is the pair of session epoch and resource      *)
(* generation.  A caller reads the two one after the other and takes the   *)
(* lock of the pool later, so its view may be outdated, or mixed: the      *)
(* epoch of one session and the generation of the next.  Time is a flag: a *)
(* binding may pass its deadline at any moment.                            *)
(***************************************************************************)
EXTENDS Naturals, FiniteSets

CONSTANTS Callers, Hosts,
          RealIps,         \* addresses outside 198.18.0.0/15
          NoBinding, NoQuery,
          Capacity,        \* 8192
          MaxShared,       \* 16 names on one real address
          Last,            \* 131071, one past the last offset handed out
          MaxEpoch, MaxGeneration   \* bounds on handovers and refreshes

VARIABLES fake, real, next,    \* FakeIpPool; a fake address is its offset
          epoch, generation,   \* session_epoch and the active generation
          pc, query, view,     \* the calls
          served,              \* the bindings original_host works on
          given                \* history: every (address, host) ever answered

pool   == <<fake, real, next, given>>
policy == <<epoch, generation>>
calls  == <<pc, query, view, served>>
vars   == <<fake, real, next, epoch, generation, pc, query, view, served, given>>

Addrs       == 1 .. Last - 1
Epochs      == 1 .. MaxEpoch
Generations == 1 .. MaxGeneration

(* table is a ghost: the session whose resource table the caller looked at. *)
Bindings == [host : Hosts, epoch : Epochs, gen : Generations, table : Epochs,
             expired : BOOLEAN]
Views    == [epoch : Epochs, gen : Generations, table : Epochs]

ASSUME PoolAssumption ==
    /\ Capacity \in Nat /\ MaxShared \in Nat /\ Last \in Nat \ {0}
    /\ MaxEpoch \in Nat \ {0} /\ MaxGeneration \in Nat \ {0}
    /\ NoBinding \notin Bindings
    /\ IsFiniteSet(RealIps)

TypeOK ==
    /\ fake \in [Addrs -> Bindings \cup {NoBinding}]
    /\ real \in [RealIps -> SUBSET Bindings]
    /\ next \in 1 .. Last
    /\ epoch \in Epochs /\ generation \in Generations
    /\ pc \in [Callers -> {"idle", "dns", "fake", "real", "assign", "resolve", "recheck",
                           "remember", "lookup", "hosts", "dial"}]
    /\ query \in [Callers -> Hosts \cup Addrs \cup RealIps \cup {NoQuery}]
    /\ \A c \in Callers : /\ pc[c] \in {"dns", "assign", "resolve", "recheck", "remember"}
                                => query[c] \in Hosts
                          /\ pc[c] \in {"fake", "lookup"} => query[c] \in Addrs
                          /\ pc[c] \in {"real", "hosts"} => query[c] \in RealIps
    /\ view \in [Callers -> Views]
    /\ served \in [Callers -> SUBSET Bindings]
    /\ given \subseteq Addrs \X Hosts

NoView == [epoch |-> 1, gen |-> 1, table |-> 1]

Init ==
    /\ fake = [a \in Addrs |-> NoBinding]
    /\ real = [r \in RealIps |-> {}]
    /\ next = 1
    /\ epoch = 1 /\ generation = 1
    /\ pc = [c \in Callers |-> "idle"]
    /\ query = [c \in Callers |-> NoQuery]
    /\ view = [c \in Callers |-> NoView]
    /\ served = [c \in Callers |-> {}]
    /\ given = {}
-----------------------------------------------------------------------------
(* prune: whatever the caller's view does not account for is forgotten. *)
ValidInAnySession(b, v) == b.gen = v.gen /\ ~b.expired

ValidGenerationBefore(b, v) == b.epoch = v.epoch /\ b.gen + 1 = v.gen /\ ~b.expired

Valid(b, v) == b.epoch = v.epoch /\ b.gen = v.gen /\ ~b.expired

FakePruned(v) == [a \in Addrs |-> IF fake[a] # NoBinding /\ Valid(fake[a], v)
                                  THEN fake[a] ELSE NoBinding]

RealPruned(v) == [r \in RealIps |-> {b \in real[r] : Valid(b, v)}]

InUse(f)  == {a \in Addrs : f[a] # NoBinding}
Shared(g) == {r \in RealIps : g[r] # {}}

FullLate(f, g) == Cardinality(InUse(f)) + Cardinality(Shared(g)) > Capacity

Full(f, g) == Cardinality(InUse(f)) + Cardinality(Shared(g)) >= Capacity

Fresh(h, v) == [host |-> h, epoch |-> v.epoch, gen |-> v.gen, table |-> v.table,
                expired |-> FALSE]

(* The call is over: it has answered, failed or been dropped. *)
Finish(c) ==
    /\ pc' = [pc EXCEPT ![c] = "idle"]
    /\ query' = [query EXCEPT ![c] = NoQuery]
    /\ view' = [view EXCEPT ![c] = NoView]
    /\ served' = [served EXCEPT ![c] = {}]

Goto(c, p) == pc' = [pc EXCEPT ![c] = p] /\ UNCHANGED <<query, view, served>>
-----------------------------------------------------------------------------
(* A refresh publishes the next generation; a handover starts over at the    *)
(* first generation of the next session.                                     *)
Refresh ==
    /\ generation < MaxGeneration
    /\ generation' = generation + 1
    /\ UNCHANGED epoch /\ UNCHANGED pool /\ UNCHANGED calls

Handover ==
    /\ epoch < MaxEpoch
    /\ epoch' = epoch + 1
    /\ generation' = 1
    /\ UNCHANGED pool /\ UNCHANGED calls

(* A call begins by reading the epoch. *)
Begin(c, p, q) ==
    /\ pc[c] = "idle"
    /\ \/ p = "dns"  /\ q \in Hosts
       \/ p = "fake" /\ q \in Addrs
       \/ p = "real" /\ q \in RealIps
    /\ pc' = [pc EXCEPT ![c] = p]
    /\ query' = [query EXCEPT ![c] = q]
    /\ view' = [view EXCEPT ![c].epoch = epoch]
    /\ UNCHANGED served /\ UNCHANGED policy /\ UNCHANGED pool

(* Then it takes the snapshot, which tells a DNS query whether its host is   *)
(* answered with a fake address, is to be remembered, or is no resource.     *)
Snapshot(c) ==
    /\ \/ pc[c] = "dns"  /\ \E p \in {"assign", "resolve"} : pc' = [pc EXCEPT ![c] = p]
       \/ pc[c] = "fake" /\ pc' = [pc EXCEPT ![c] = "lookup"]
       \/ pc[c] = "real" /\ pc' = [pc EXCEPT ![c] = "hosts"]
    /\ view' = [view EXCEPT ![c] = [epoch |-> @.epoch, gen |-> generation, table |-> epoch]]
    /\ UNCHANGED <<query, served>> /\ UNCHANGED policy /\ UNCHANGED pool
-----------------------------------------------------------------------------
(* The offset of the next fake address. *)
LowestFree(f) == CHOOSE a \in Addrs \cup {Last} : /\ a \notin InUse(f)
                                                  /\ \A x \in 1 .. a - 1 : x \in InUse(f)

NextOffset(f) == next

ExhaustedLate(n) == n > Last

Exhausted(n) == n >= Last

(* assign: the address the host has, renewed, or the next one of the range.  *)
(* What prune leaves has not expired, so a renewal only moves a deadline.    *)
AlwaysNew(f, h) == {}

Assigned(f, h) == {a \in InUse(f) : f[a].host = h}

Assign(c) ==
    LET v == view[c]
        h == query[c]
        f == FakePruned(v)
        g == RealPruned(v)
        n == NextOffset(f)
    IN  /\ pc[c] = "assign"
        /\ real' = g
        /\ \/ \E a \in Assigned(f, h) :
                /\ fake' = f
                /\ given' = given \cup {<<a, h>>}
                /\ UNCHANGED next
           \/ /\ Assigned(f, h) = {}
              /\ ~Full(f, g) /\ ~Exhausted(n)
              /\ fake' = [f EXCEPT ![n] = Fresh(h, v)]
              /\ next' = n + 1
              /\ given' = given \cup {<<n, h>>}
           \/ /\ Assigned(f, h) = {}
              /\ Full(f, g) \/ Exhausted(n)
              /\ fake' = f
              /\ UNCHANGED <<next, given>>
        /\ Finish(c)
        /\ UNCHANGED policy

(* The resolver has answered: is the epoch, then the generation, still that  *)
(* of the call?                                                              *)
Resolved(c) ==
    /\ pc[c] = "resolve"
    /\ IF epoch = view[c].epoch THEN Goto(c, "recheck") ELSE Finish(c)
    /\ UNCHANGED policy /\ UNCHANGED pool

Rechecked(c) ==
    /\ pc[c] = "recheck"
    /\ IF generation = view[c].gen THEN Goto(c, "remember") ELSE Finish(c)
    /\ UNCHANGED policy /\ UNCHANGED pool

(* remember_real *)
Remember(c, r) ==
    LET v     == view[c]
        f     == FakePruned(v)
        g     == RealPruned(v)
        known == {b \in g[r] : b.host = query[c]}
    IN  /\ pc[c] = "remember"
        /\ fake' = f
        /\ real' = IF \/ g[r] = {} /\ Full(f, g)
                      \/ known # {}
                      \/ Cardinality(g[r]) >= MaxShared
                   THEN g
                   ELSE [g EXCEPT ![r] = @ \cup {Fresh(query[c], v)}]
        /\ Finish(c)
        /\ UNCHANGED <<next, given>> /\ UNCHANGED policy
-----------------------------------------------------------------------------
(* lookup: a fake address that is not bound in this view is refused. *)
Lookup(c) ==
    LET f == FakePruned(view[c])
        b == f[query[c]]
    IN  /\ pc[c] = "lookup"
        /\ fake' = f
        /\ real' = RealPruned(view[c])
        /\ IF b = NoBinding THEN Finish(c)
           ELSE /\ served' = [served EXCEPT ![c] = {b}]
                /\ pc' = [pc EXCEPT ![c] = "dial"]
                /\ UNCHANGED <<query, view>>
        /\ UNCHANGED <<next, given>> /\ UNCHANGED policy

(* real_hosts *)
RealHosts(c) ==
    /\ pc[c] = "hosts"
    /\ fake' = FakePruned(view[c])
    /\ real' = RealPruned(view[c])
    /\ served' = [served EXCEPT ![c] = RealPruned(view[c])[query[c]]]
    /\ pc' = [pc EXCEPT ![c] = "dial"]
    /\ UNCHANGED <<query, view, next, given>> /\ UNCHANGED policy

(* The rest of original_host and of the dial: the names are routed, and one  *)
(* name, none or several decide what is dialled; the pool is left alone.     *)
(* A call that is dropped ends in the same way.                              *)
End(c) ==
    /\ pc[c] # "idle"
    /\ Finish(c)
    /\ UNCHANGED policy /\ UNCHANGED pool

(* Time passes. *)
Expire ==
    /\ \/ \E a \in InUse(fake) :
            fake' = [fake EXCEPT ![a].expired = TRUE] /\ UNCHANGED real
       \/ \E r \in RealIps : \E b \in real[r] :
            /\ real' = [real EXCEPT ![r] = (@ \ {b}) \cup {[b EXCEPT !.expired = TRUE]}]
            /\ UNCHANGED fake
    /\ UNCHANGED <<next, given>> /\ UNCHANGED policy /\ UNCHANGED calls

CallStep(c) ==
    \/ \E p \in {"dns", "fake", "real"}, q \in Hosts \cup Addrs \cup RealIps : Begin(c, p, q)
    \/ Snapshot(c) \/ Assign(c) \/ Resolved(c) \/ Rechecked(c)
    \/ \E r \in RealIps : Remember(c, r)
    \/ Lookup(c) \/ RealHosts(c) \/ End(c)

Next == Refresh \/ Handover \/ Expire \/ \E c \in Callers : CallStep(c)

Spec == Init /\ [][Next]_vars
-----------------------------------------------------------------------------
(* "Fake addresses are never reassigned during this pool's lifetime, even    *)
(* after TTL expiry. An application retaining an old IP cannot reach a       *)
(* different host" (fake_ip.rs:15): one host for every address ever          *)
(* answered, through every expiry, refresh and handover, and a binding in    *)
(* the pool is always one of those answers.                                  *)
NeverReassigned ==
    /\ \A p, q \in given : p[1] = q[1] => p[2] = q[2]
    /\ \A a \in InUse(fake) : <<a, fake[a].host>> \in given

(* A host has one fake address at a time, whoever asked for it: assign       *)
(* renews the binding it finds.                                              *)
OneAddressPerHost ==
    \A a, x \in InUse(fake) : fake[a].host = fake[x].host => a = x

(* "Fake IP pool is exhausted": fake and remembered addresses share one      *)
(* capacity, which no interleaving of assign and remember_real exceeds, and  *)
(* no real address stands for more than MaxShared names.                     *)
WithinCapacity ==
    /\ Cardinality(InUse(fake)) + Cardinality(Shared(real)) <= Capacity
    /\ \A r \in RealIps : Cardinality(real[r]) <= MaxShared

(* What an application may rely on: an address means one host for ever, a     *)
(* host has one address at a time, and the pool keeps to its size.            *)
AddressesAreSound == NeverReassigned /\ OneAddressPerHost /\ WithinCapacity

(* session_epoch: "Resolver and Fake IP caches use this alongside the        *)
(* resource generation to reject stale state".  Generations start over with  *)
(* every session and a caller's view may be mixed, yet original_host never   *)
(* works on a name that comes from the resource table of a session older     *)
(* than the one that was active when the call began.                         *)
NoNameFromOlderSession ==
    \A c \in Callers : \A b \in served[c] : b.table >= view[c].epoch

(* A binding of the policy in force is lost before its time only to a caller *)
(* that comes to the pool with an outdated view, whose prune spares nothing  *)
(* but its own generation.                                                   *)
OnlyOutdatedViewsForget ==
    [][\A a \in InUse(fake) :
           /\ fake'[a] = NoBinding
           /\ fake[a].epoch = epoch /\ fake[a].gen = generation /\ ~fake[a].expired
           => \E c \in Callers : /\ pc[c] \in {"assign", "remember", "lookup", "hosts"}
                                 /\ \/ view[c].epoch # epoch
                                    \/ view[c].gen # generation]_vars
=============================================================================
