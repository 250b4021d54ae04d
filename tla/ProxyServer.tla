----------------------------- MODULE ProxyServer -----------------------------
(* The accept loops of ProxyServer (SOCKS, HTTP) and DnsServer: the limit on   *)
(* concurrent clients, the client's stages with their deadlines, and the ways  *)
(* a server stops: shutdown(), a dropped handle, a failing listener.           *)
EXTENDS Naturals, FiniteSets

CONSTANTS Clients,       \* connections (or DNS requests) that may be made
          MaxConnections \* permits; 128 tasks for DNS

ASSUME ProxyAssumption == MaxConnections \in Nat \ {0}

VARIABLES serverKind,  \* "unbound", "proxy" or "dns"
          acceptLoop,  \* "run", "draining", "returned", "failed" or "aborted"
          stopSent,    \* the watch channel holds true
          stopCall,    \* "none", "waiting", "ok", "error" or "dropped"
          client       \* stage of each client

proxyVars == <<serverKind, acceptLoop, stopSent, stopCall, client>>

Stages == {"none", "queued", "handshake", "dial", "relay", "finished"}
Serving == {"handshake", "dial", "relay"}
Live == {c \in Clients : client[c] \in Serving}
Unjoined == {c \in Clients : client[c] = "finished"}

ProxyInit ==
    /\ serverKind = "unbound" /\ acceptLoop = "run"
    /\ stopSent = FALSE /\ stopCall = "none"
    /\ client = [c \in Clients |-> "none"]

Bind(kind) ==
    /\ serverKind = "unbound" /\ serverKind' = kind
    /\ UNCHANGED <<acceptLoop, stopSent, stopCall, client>>

Moves(c, stage) ==
    /\ client' = [client EXCEPT ![c] = stage]
    /\ UNCHANGED <<serverKind, acceptLoop, stopSent, stopCall>>

(* The kernel queues a connection or datagram while the listener exists. *)
Dials(c) ==
    /\ serverKind # "unbound" /\ acceptLoop = "run" /\ client[c] = "none"
    /\ Moves(c, "queued")

(* select! is biased: the stop signal, finished tasks, then new clients. *)
Polls == serverKind # "unbound" /\ acceptLoop = "run" /\ ~stopSent

Joins(c) == Polls /\ client[c] = "finished" /\ Moves(c, "none")

PermitsHandshakesOnly == Cardinality({c \in Live : client[c] = "handshake"})
(* a client's permit lives as long as its task; DNS counts unjoined tasks too *)
PermitsTaken == Cardinality(Live)

(* accept(): without a permit the connection is closed; DNS leaves it queued *)
Accepts(c) ==
    /\ Polls /\ Unjoined = {} /\ client[c] = "queued"
    /\ IF serverKind = "dns"
         THEN PermitsTaken < MaxConnections /\ Moves(c, "relay")
         ELSE Moves(c, IF PermitsTaken < MaxConnections THEN "handshake" ELSE "none")

(* leaving the loop drops the listener and its queue *)
Unqueued(stages) == [c \in Clients |-> IF stages[c] = "queued" THEN "none" ELSE stages[c]]

(* accept() or recv_from() fails: the task returns the error and drops its    *)
(* JoinSet, which aborts every client                                         *)
AcceptFails ==
    /\ Polls /\ Unjoined = {}
    /\ (serverKind = "dns" => PermitsTaken < MaxConnections)
    /\ acceptLoop' = "failed"
    /\ client' = Unqueued(client)
    /\ UNCHANGED <<serverKind, stopSent, stopCall>>

----------------------------------------------------------------------------
(* serve(): the handshake and the dial have deadlines, the relay has none.    *)
(* A DNS request is answered within its deadline; the proxy reports a failed  *)
(* dial and ends.                                                             *)
HandshakeEnds(c) == client[c] = "handshake" /\ \E s \in {"dial", "relay", "finished"} : Moves(c, s)
ConnectEnds(c) == client[c] = "dial" /\ \E s \in {"relay", "finished"} : Moves(c, s)
RelayEnds(c) == client[c] = "relay" /\ Moves(c, "finished")

----------------------------------------------------------------------------
(* shutdown() *)
ShutdownCalled ==
    /\ serverKind # "unbound" /\ stopCall = "none" /\ acceptLoop # "aborted"
    /\ stopSent' = TRUE /\ stopCall' = "waiting"
    /\ UNCHANGED <<serverKind, acceptLoop, client>>

(* The server's handle, or the future of shutdown(), is dropped: the task is *)
(* aborted wherever it is, and its JoinSet with it.                           *)
HandleDropped ==
    /\ serverKind # "unbound" /\ stopCall \in {"none", "waiting"}
    /\ stopSent' = TRUE /\ stopCall' = "dropped"
    /\ acceptLoop' = IF acceptLoop \in {"run", "draining"} THEN "aborted" ELSE acceptLoop
    /\ client' = Unqueued(client)
    /\ UNCHANGED serverKind

StopBehindQueue == serverKind # "unbound" /\ acceptLoop = "run" /\ stopSent
                   /\ \A c \in Clients : client[c] # "queued"
(* the loop sees the signal, whatever else is ready *)
SeesStop == serverKind # "unbound" /\ acceptLoop = "run" /\ stopSent

DrainBegins ==
    /\ SeesStop
    /\ acceptLoop' = "draining"
    /\ client' = Unqueued(client)
    /\ UNCHANGED <<serverKind, stopSent, stopCall>>

(* an aborted task ends at its next await *)
AbortLands(c) ==
    /\ acceptLoop \in {"draining", "failed", "aborted"} /\ c \in Live
    /\ Moves(c, "finished")

DrainedUnawaited == TRUE
(* JoinSet::shutdown waits for every task *)
Drained == Live = {}

DrainEnds ==
    /\ acceptLoop = "draining" /\ Drained
    /\ acceptLoop' = "returned"
    /\ UNCHANGED <<serverKind, stopSent, stopCall, client>>

ShutdownReturns ==
    /\ stopCall = "waiting" /\ acceptLoop \in {"returned", "failed"}
    /\ stopCall' = IF acceptLoop = "returned" THEN "ok" ELSE "error"
    /\ UNCHANGED <<serverKind, acceptLoop, stopSent, client>>

ProxyNext ==
    \/ \E kind \in {"proxy", "dns"} : Bind(kind)
    \/ \E c \in Clients : Dials(c) \/ Joins(c) \/ Accepts(c) \/ HandshakeEnds(c)
                          \/ ConnectEnds(c) \/ RelayEnds(c) \/ AbortLands(c)
    \/ AcceptFails \/ ShutdownCalled \/ HandleDropped \/ DrainBegins \/ DrainEnds
    \/ ShutdownReturns

(* The task is polled, deadlines fire, aborted tasks end. Nothing is assumed *)
(* of peers: a relay may last forever.                                        *)
ProxyFairness ==
    /\ WF_proxyVars(DrainBegins) /\ WF_proxyVars(DrainEnds) /\ WF_proxyVars(ShutdownReturns)
    /\ \A c \in Clients : WF_proxyVars(HandshakeEnds(c)) /\ WF_proxyVars(ConnectEnds(c))
                          /\ WF_proxyVars(AbortLands(c))

ProxySpec == ProxyInit /\ [][ProxyNext]_proxyVars /\ ProxyFairness

----------------------------------------------------------------------------
ProxyTypeOK ==
    /\ serverKind \in {"unbound", "proxy", "dns"}
    /\ acceptLoop \in {"run", "draining", "returned", "failed", "aborted"}
    /\ stopSent \in BOOLEAN
    /\ stopCall \in {"none", "waiting", "ok", "error", "dropped"}
    /\ client \in [Clients -> Stages]

(* Whatever the order of arrivals, ends and joins, no more clients are served *)
(* at once than the limit of the accept loop.                                 *)
ClientsWithinLimit == Cardinality(Live) <= MaxConnections

(* When shutdown() has returned Ok, no client is served any more and none will *)
(* be: stopping, draining and late arrivals cannot overlap.                    *)
ShutdownLeavesNoClient == stopCall = "ok" => Live = {} /\ acceptLoop = "returned"

(* shutdown() returns although relays have no deadline and new clients keep   *)
(* arriving, unless its caller drops it.                                      *)
ShutdownEndsRelays == stopCall = "waiting" ~> stopCall # "waiting"

(* The server keeps to its limit, and its shutdown both returns and leaves no *)
(* client behind.                                                             *)
ProxyStopsCleanly == [](ClientsWithinLimit /\ ShutdownLeavesNoClient) /\ ShutdownEndsRelays
=============================================================================
