------------------------------ MODULE UdpSockets ------------------------------
(* Connected UDP over the shared L3 session (AtrustUdp): a source port leased  *)
(* from a pool of the whole process, an exclusive packet subscription on the   *)
(* session, and the reader that hands out packets, changes the VIP, or ends    *)
(* the session while sockets connect, receive and are dropped.                 *)
EXTENDS Naturals, FiniteSets, FiniteSetsExt

CONSTANTS Sockets,
          LastPort,      \* the pool is 1..LastPort
          UdpVips,
          MaxL3,         \* bound: sessions, one after the other
          MaxUpdates,    \* bound: VIP updates
          ChannelDepth,  \* packets a subscription may hold
          MaxConnects    \* bound: connections

ASSUME UdpAssumption ==
    /\ UdpVips \subseteq Nat \ {0} /\ LastPort \in Nat /\ MaxL3 \in Nat \ {0} /\ MaxUpdates \in Nat
    /\ ChannelDepth \in Nat \ {0} /\ MaxConnects \in Nat

Ports == 1..LastPort
L3s   == 1..MaxL3

VARIABLES l3,          \* the session the manager hands out
          l3Vip,       \* session -> its VIP
          l3Down,      \* closed sessions
          clearing,    \* sessions whose subscribers are about to be cleared
          subscribers, \* [l3, vip, port, id]: packet_subscribers; the target is one
          nextSub,     \* next_subscriber
          used,        \* leased ports
          sock,        \* socket -> [pc, l3, vip, port, id, inbox]
          rawQueue,    \* packets nobody subscribed to
          updates

udpVars == <<l3, l3Vip, l3Down, clearing, subscribers, nextSub, used, sock, rawQueue, updates>>

NoSocket == [pc |-> "none", l3 |-> 0, vip |-> 0, port |-> 0, id |-> 0, inbox |-> 0]

UdpTypeOK ==
    /\ l3 \in L3s /\ l3Down \subseteq L3s /\ clearing \subseteq L3s
    /\ used \subseteq Ports /\ nextSub \in Nat \ {0}
    /\ subscribers \subseteq [l3 : L3s, vip : UdpVips, port : Ports, id : 1..(nextSub - 1)]
    /\ rawQueue \in 0..ChannelDepth
    /\ \A s \in Sockets : /\ sock[s].inbox \in 0..ChannelDepth
                          /\ sock[s].pc \in {"none", "leased", "open", "dropping", "reset",
                                             "refused", "exhausted", "already"}

UdpInit ==
    /\ l3 = 1 /\ l3Vip = [s \in L3s |-> CHOOSE v \in UdpVips : TRUE] /\ l3Down = {}
    /\ clearing = {} /\ subscribers = {} /\ nextSub = 1 /\ used = {} /\ rawQueue = 0
    /\ sock = [s \in Sockets |-> NoSocket] /\ updates = 0

Become(s, rec) == sock' = [sock EXCEPT ![s] = rec]

(* A closed session is replaced by the manager, with any VIP. *)
NextSession ==
    /\ l3 \in l3Down /\ l3 < MaxL3 /\ l3' = l3 + 1
    /\ \E v \in UdpVips : l3Vip' = [l3Vip EXCEPT ![l3 + 1] = v]
    /\ UNCHANGED <<l3Down, clearing, subscribers, nextSub, used, sock, rawQueue, updates>>

(* connect: route, the group's session, the lowest free port, the VIP *)
UdpLease(s) ==
    /\ sock[s].pc \in {"none", "refused", "exhausted"} /\ nextSub <= MaxConnects
    /\ IF used = Ports
         THEN Become(s, [NoSocket EXCEPT !.pc = "exhausted"]) /\ UNCHANGED used
         ELSE LET port == Min(Ports \ used)
              IN /\ used' = used \cup {port}
                 /\ Become(s, [NoSocket EXCEPT !.pc = "leased", !.l3 = l3, !.vip = l3Vip[l3],
                                               !.port = port])
    /\ UNCHANGED <<l3, l3Vip, l3Down, clearing, subscribers, nextSub, rawQueue, updates>>

SubscribableUnchecked(s) == TRUE
(* the checks of subscribe_flow, made with the subscribers locked *)
Subscribable(s) == sock[s].l3 \notin l3Down /\ sock[s].vip = l3Vip[sock[s].l3]

Taken(s) == \E e \in subscribers :
    e.l3 = sock[s].l3 /\ e.vip = sock[s].vip /\ e.port = sock[s].port

(* subscribe_flow; a refusal drops the port *)
UdpSubscribe(s) ==
    /\ sock[s].pc = "leased"
    /\ \/ /\ Subscribable(s) /\ ~Taken(s)
          /\ subscribers' = subscribers \cup
               {[l3 |-> sock[s].l3, vip |-> sock[s].vip, port |-> sock[s].port, id |-> nextSub]}
          /\ nextSub' = nextSub + 1
          /\ Become(s, [sock[s] EXCEPT !.pc = "open", !.id = nextSub])
          /\ UNCHANGED used
       \/ /\ ~Subscribable(s) \/ Taken(s)
          /\ Become(s, [NoSocket EXCEPT !.pc = IF Subscribable(s) THEN "already" ELSE "refused"])
          /\ used' = used \ {sock[s].port}
          /\ UNCHANGED <<subscribers, nextSub>>
    /\ UNCHANGED <<l3, l3Vip, l3Down, clearing, rawQueue, updates>>

Current(s) == sock[s].l3 \notin l3Down /\ sock[s].vip = l3Vip[sock[s].l3]
Connected(s) == \E e \in subscribers : e.id = sock[s].id

(* send: refused once the session ended or moved; a packet that went out on *)
(* another session, or was refused by it, is an error too                   *)
UdpSend(s) ==
    /\ sock[s].pc = "open"
    /\ ~Current(s) \/ sock[s].l3 # l3
    /\ Become(s, [sock[s] EXCEPT !.pc = "reset"])
    /\ UNCHANGED <<l3, l3Vip, l3Down, clearing, subscribers, nextSub, used, rawQueue, updates>>

(* recv: a packet, or a reset when the session moved or the channel ended *)
UdpRecv(s) ==
    /\ sock[s].pc = "open"
    /\ IF Current(s) /\ sock[s].inbox > 0
         THEN Become(s, [sock[s] EXCEPT !.inbox = @ - 1])
         ELSE ~(Current(s) /\ Connected(s)) /\ Become(s, [sock[s] EXCEPT !.pc = "reset"])
    /\ UNCHANGED <<l3, l3Vip, l3Down, clearing, subscribers, nextSub, used, rawQueue, updates>>

DeclaredPortFirst == <<"port", "receiver">>
(* the fields of AtrustUdp that own something, in the order of declaration, *)
(* which is the order in which they are dropped                             *)
Declared == <<"receiver", "port">>

(* FlowPackets' drop removes a subscription of its own id; Port's frees it *)
DropField(s, field) ==
    /\ subscribers' = IF field = "receiver" THEN {e \in subscribers : e.id # sock[s].id}
                                            ELSE subscribers
    /\ used' = IF field = "port" THEN used \ {sock[s].port} ELSE used

UdpDrop(s) ==
    /\ \/ /\ sock[s].pc \in {"open", "reset"} /\ DropField(s, Declared[1])
          /\ Become(s, [sock[s] EXCEPT !.pc = "dropping"])
       \/ /\ sock[s].pc = "dropping" /\ DropField(s, Declared[2])
          /\ Become(s, NoSocket)
    /\ UNCHANGED <<l3, l3Vip, l3Down, clearing, nextSub, rawQueue, updates>>

(* deliver: to the subscriber of the flow, else to the raw queue; a packet *)
(* that finds its queue full is dropped                                    *)
Deliver ==
    /\ l3 \notin l3Down \cup clearing
    /\ \E s \in Sockets :
         /\ sock[s].pc \in {"leased", "open", "reset"} /\ sock[s].l3 = l3
         /\ IF Connected(s) /\ sock[s].vip = l3Vip[l3]
              THEN /\ Become(s, [sock[s] EXCEPT !.inbox = IF @ < ChannelDepth THEN @ + 1 ELSE @])
                   /\ UNCHANGED rawQueue
              ELSE /\ rawQueue' = IF rawQueue < ChannelDepth THEN rawQueue + 1 ELSE rawQueue
                   /\ UNCHANGED sock
    /\ UNCHANGED <<l3, l3Vip, l3Down, clearing, subscribers, nextSub, used, updates>>

(* recv_packet *)
RecvPacket ==
    /\ rawQueue > 0 /\ rawQueue' = rawQueue - 1
    /\ UNCHANGED <<l3, l3Vip, l3Down, clearing, subscribers, nextSub, used, sock, updates>>

(* apply_vip_update and shutdown store first and clear the subscribers later *)
ApplyVipUpdate ==
    /\ updates < MaxUpdates /\ updates' = updates + 1
    /\ l3 \notin l3Down \cup clearing
    /\ \E v \in UdpVips \ {l3Vip[l3]} : l3Vip' = [l3Vip EXCEPT ![l3] = v]
    /\ clearing' = clearing \cup {l3}
    /\ UNCHANGED <<l3, l3Down, subscribers, nextSub, used, sock, rawQueue>>

L3Shutdown ==
    /\ l3 \notin l3Down
    /\ l3Down' = l3Down \cup {l3} /\ clearing' = clearing \cup {l3}
    /\ UNCHANGED <<l3, l3Vip, subscribers, nextSub, used, sock, rawQueue, updates>>

ClearSubscribers ==
    /\ \E n \in clearing :
         /\ clearing' = clearing \ {n}
         /\ subscribers' = {e \in subscribers : e.l3 # n}
    /\ UNCHANGED <<l3, l3Vip, l3Down, nextSub, used, sock, rawQueue, updates>>

UdpNext ==
    \/ NextSession \/ Deliver \/ RecvPacket \/ ApplyVipUpdate \/ L3Shutdown \/ ClearSubscribers
    \/ \E s \in Sockets : \/ UdpLease(s) \/ UdpSubscribe(s) \/ UdpSend(s) \/ UdpRecv(s)
                          \/ UdpDrop(s)

UdpSpec == UdpInit /\ [][UdpNext]_udpVars

----------------------------------------------------------------------------
(* A leased port is nobody else's: a new socket never finds the flow of its  *)
(* port still subscribed by a socket that is being dropped, although ports   *)
(* are reused at once and pool and subscriptions have locks of their own.    *)
LeasedPortsAreExclusive ==
    /\ \A s \in Sockets : sock[s].pc # "already"
    /\ \A s, t \in Sockets : s # t /\ sock[s].port # 0 => sock[s].port # sock[t].port

(* Whatever connects while the VIP changes or the session ends, once the     *)
(* clearing is over a closed session has no subscriber, and a live one none  *)
(* for an earlier VIP.                                                       *)
SubscriptionsMatchSession ==
    \A e \in subscribers : e.l3 \notin clearing => e.l3 \notin l3Down /\ e.vip = l3Vip[e.l3]

(* Port pool, subscriptions and session, each with a lock of its own, agree:  *)
(* no two sockets share a port and no subscription outlives its session.      *)
SocketsAreConsistent == LeasedPortsAreExclusive /\ SubscriptionsMatchSession
=============================================================================
