---------------------------- MODULE SocksAssociate ----------------------------
(* One SOCKS UDP association: the loop of associate() over the control         *)
(* connection and the client's datagrams, the peers it dials, and the task per *)
(* peer that carries answers back.                                             *)
EXTENDS Naturals, FiniteSets

CONSTANTS Targets,     \* destinations of the client's datagrams
          Senders,     \* source addresses on the client's host
          MaxPeers,    \* 64 in the code
          MaxReceivers \* bound: receiver tasks ever started

ASSUME AssociateAssumption == MaxPeers \in Nat \ {0}

VARIABLES assoc,      \* "run", "dialling", "sending" or "ended"
          owner,      \* the client's address once known, or "any"
          datagramIn, \* the datagram being handled: [to, from]
          peers,      \* destinations to [task, stale]
          receivers   \* task id to [to, replyTo, running]

assocVars == <<assoc, owner, datagramIn, peers, receivers>>
NoDatagram == [to |-> "none", from |-> "none"]
Tasks == DOMAIN receivers

AssociateInit ==
    /\ assoc = "run" /\ owner = "any" /\ datagramIn = NoDatagram
    /\ peers = <<>> /\ receivers = <<>>

LeftRunning(tasks) == receivers
(* dropping a Peer aborts its task *)
Aborted(tasks) == [t \in Tasks |-> [receivers[t] EXCEPT !.running = @ /\ t \notin tasks]]

Without(gone) == [d \in DOMAIN peers \ gone |-> peers[d]]
TasksOf(gone) == {peers[d].task : d \in gone}

(* A datagram with a readable destination: only the client's address counts,  *)
(* peers that are idle or whose task ended are dropped, then the destination  *)
(* is dialled unless it is known or the table is full.                        *)
Received(source, target) ==
    /\ assoc = "run" /\ owner \in {"any", source}
    /\ owner' = source
    /\ LET gone == {d \in DOMAIN peers : peers[d].stale \/ ~receivers[peers[d].task].running}
           left == DOMAIN peers \ gone
       IN /\ peers' = Without(gone) /\ receivers' = Aborted(TasksOf(gone))
          /\ IF target \notin left /\ Cardinality(left) >= MaxPeers
               THEN UNCHANGED <<assoc, datagramIn>>
               ELSE /\ assoc' = IF target \in left THEN "sending" ELSE "dialling"
                    /\ datagramIn' = [to |-> target, from |-> source]

(* dial_udp fails or its deadline passes *)
PeerDialFails ==
    /\ assoc = "dialling" /\ assoc' = "run" /\ datagramIn' = NoDatagram
    /\ UNCHANGED <<owner, peers, receivers>>

PeerDialled ==
    /\ assoc = "dialling" /\ Cardinality(Tasks) < MaxReceivers
    /\ LET task == Cardinality(Tasks) + 1
       IN /\ receivers' = [t \in Tasks \cup {task} |->
                 IF t = task THEN [to |-> datagramIn.to, replyTo |-> datagramIn.from, running |-> TRUE]
                 ELSE receivers[t]]
          /\ peers' = [d \in DOMAIN peers \cup {datagramIn.to} |->
                 IF d = datagramIn.to THEN [task |-> task, stale |-> FALSE] ELSE peers[d]]
    /\ assoc' = "sending"
    /\ UNCHANGED <<owner, datagramIn>>

(* send: a peer whose send fails is dropped *)
Sends ==
    /\ assoc = "sending" /\ assoc' = "run" /\ datagramIn' = NoDatagram
    /\ \/ /\ peers' = [peers EXCEPT ![datagramIn.to].stale = FALSE]
          /\ UNCHANGED receivers
       \/ /\ peers' = Without({datagramIn.to})
          /\ receivers' = Aborted(TasksOf({datagramIn.to}))
    /\ UNCHANGED owner

(* recv or the answer's send_to fails *)
ReceiverEnds(t) ==
    /\ receivers[t].running
    /\ receivers' = [receivers EXCEPT ![t].running = FALSE]
    /\ UNCHANGED <<assoc, owner, datagramIn, peers>>

(* 120 s without a datagram to the peer *)
PeerIdles(d) ==
    /\ ~peers[d].stale /\ ~(assoc = "sending" /\ datagramIn.to = d)
    /\ peers' = [peers EXCEPT ![d].stale = TRUE]
    /\ UNCHANGED <<assoc, owner, datagramIn, receivers>>

(* The control connection closes, the socket fails, or the server stops and  *)
(* drops the future wherever it waits.                                        *)
AssociateEnds ==
    /\ assoc # "ended" /\ assoc' = "ended" /\ datagramIn' = NoDatagram
    /\ peers' = <<>> /\ receivers' = Aborted(TasksOf(DOMAIN peers))
    /\ UNCHANGED owner

AssociateNext ==
    \/ \E s \in Senders, d \in Targets : Received(s, d)
    \/ PeerDialFails \/ PeerDialled \/ Sends \/ AssociateEnds
    \/ \E t \in Tasks : ReceiverEnds(t)
    \/ \E d \in DOMAIN peers : PeerIdles(d)

AssociateSpec == AssociateInit /\ [][AssociateNext]_assocVars

----------------------------------------------------------------------------
AssociateTypeOK ==
    /\ assoc \in {"run", "dialling", "sending", "ended"}
    /\ owner \in Senders \cup {"any"}
    /\ DOMAIN peers \subseteq Targets /\ Cardinality(DOMAIN peers) <= MaxPeers
    /\ \A d \in DOMAIN peers : peers[d].task \in Tasks

(* Every running task that carries answers back belongs to a peer of the      *)
(* table, answers for that peer's destination, and sends to the one client of *)
(* the association; after the association no task is left.                    *)
AnswersOnlyThroughPeers ==
    \A t \in Tasks : receivers[t].running =>
        /\ receivers[t].to \in DOMAIN peers /\ peers[receivers[t].to].task = t
        /\ receivers[t].replyTo = owner /\ assoc # "ended"
=============================================================================
