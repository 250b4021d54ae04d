------------------------------- MODULE TcpDial -------------------------------
(* Opening a TCP tunnel: the endpoints of the routed group in the order of a   *)
(* shared probe (NodeSelector), then one dial after the other with retries     *)
(* (AtrustClient::dial_tcp, dial_tcp_with_retry). Generations of the resource  *)
(* table pass by, rankings grow old, and a call may be dropped at any await.   *)
EXTENDS Naturals, Sequences, SequencesExt, FiniteSets

CONSTANTS Dialers,
          MaxGen,       \* bound: generations of the resource table
          Configured,   \* generation -> sequence of the group's endpoints
          DialRetries,  \* TCP_DIAL_RETRIES
          NoDialer

Gens == 1..MaxGen
Retryable == {"timeout", "io"}         \* DialTcpError::is_retryable
Refusals  == {"rejected"}              \* everything else

VARIABLES current,    \* generation of the resource table
          rankGen,    \* generation of the cached ranking, 0 without one
          ranking,    \* its endpoints in order
          fresh,      \* it is younger than node_refresh_interval
          rankLock,   \* holder of the lock on the rankings
          dial        \* dialer -> [pc, gen, list, at, tries, tried, last, refused]

tcpDialVars == <<current, rankGen, ranking, fresh, rankLock, dial>>

Idle == [pc |-> "idle", gen |-> 0, list |-> <<>>, at |-> 0, tries |-> 0, tried |-> <<>>,
         last |-> "none", refused |-> 0]
Endpoints == UNION {Range(Configured[g]) : g \in Gens}

TcpDialTypeOK ==
    /\ current \in Gens /\ rankGen \in 0..MaxGen /\ fresh \in BOOLEAN
    /\ ranking \in Seq(Endpoints) /\ rankLock \in Dialers \cup {NoDialer}
    /\ \A d \in Dialers :
         /\ dial[d].pc \in {"idle", "rank", "probe", "dial", "opened", "failed"}
         /\ dial[d].tried \in Seq(Endpoints) /\ dial[d].tries \in 0..DialRetries

TcpDialInit ==
    /\ current = 1 /\ rankGen = 0 /\ ranking = <<>> /\ fresh = FALSE
    /\ rankLock = NoDialer
    /\ dial = [d \in Dialers |-> Idle]

Set(d, rec) == dial' = [dial EXCEPT ![d] = rec]

(* a refresh publishes another generation; the ranking's deadline passes *)
NextGeneration ==
    /\ current < MaxGen /\ current' = current + 1
    /\ UNCHANGED <<rankGen, ranking, fresh, rankLock, dial>>

RankingExpires ==
    /\ fresh /\ fresh' = FALSE
    /\ UNCHANGED <<current, rankGen, ranking, rankLock, dial>>

(* Snapshot and route: unauthorized, L3 preferred, or a group of endpoints *)
Route(d) ==
    /\ dial[d].pc = "idle"
    /\ \/ Set(d, [Idle EXCEPT !.pc = "rank", !.gen = current])
       \/ Set(d, [Idle EXCEPT !.pc = "failed", !.last = "refused_locally"])
    /\ UNCHANGED <<current, rankGen, ranking, fresh, rankLock>>

RankingServesAny(d) == fresh
(* a ranking is used if it is of the caller's generation and still fresh *)
RankingServes(d) == rankGen = dial[d].gen /\ fresh

StartDialling(d, list) ==
    Set(d, IF list = <<>> THEN [dial[d] EXCEPT !.pc = "failed", !.last = "no_endpoints"]
                          ELSE [dial[d] EXCEPT !.pc = "dial", !.list = list, !.at = 1])

(* NodeSelector::endpoints under the lock: a cached ranking, or a probe *)
LockRankings(d) ==
    /\ dial[d].pc = "rank" /\ rankLock = NoDialer
    /\ IF RankingServes(d)
         THEN StartDialling(d, ranking) /\ UNCHANGED rankLock
         ELSE Set(d, [dial[d] EXCEPT !.pc = "probe"]) /\ rankLock' = d
    /\ UNCHANGED <<current, rankGen, ranking, fresh>>

(* rank: reachable endpoints first; unreachable ones are kept behind *)
Ranked(list, reachable) ==
    SelectSeq(list, LAMBDA e : e \in reachable) \o SelectSeq(list, LAMBDA e : e \notin reachable)

(* The probes end (each has a timeout); elapsed times may reorder the list. *)
Probe(d) ==
    /\ dial[d].pc = "probe"
    /\ \E reachable \in SUBSET Range(Configured[dial[d].gen]) :
       \E order \in SetToSeqs(Range(Configured[dial[d].gen])) :
         /\ ranking' = Ranked(order, reachable)
         /\ rankGen' = dial[d].gen /\ fresh' = TRUE
         /\ StartDialling(d, ranking')
    /\ rankLock' = NoDialer
    /\ UNCHANGED current

Here(d) == dial[d].list[dial[d].at]

(* A connection and its handshake succeed. *)
DialOpens(d) ==
    /\ dial[d].pc = "dial"
    /\ Set(d, [dial[d] EXCEPT !.pc = "opened", !.tried = Append(@, Here(d)), !.last = "none"])
    /\ UNCHANGED <<current, rankGen, ranking, fresh, rankLock>>

RetriedOnceMore(d, error) == dial[d].tries <= DialRetries /\ error \in Retryable
(* dial_tcp_with_retry: the same endpoint again *)
Retried(d, error) == dial[d].tries < DialRetries /\ error \in Retryable
MovesOnNever(d, error) == FALSE
(* dial_tcp: the next endpoint, unless the refusal is about the destination *)
MovesOn(d, error) == error \in Retryable /\ dial[d].at < Len(dial[d].list)

DialFails(d) ==
    /\ dial[d].pc = "dial"
    /\ \E error \in Retryable \cup Refusals :
         LET rec == [dial[d] EXCEPT !.tried = Append(@, Here(d)), !.last = error,
                                   !.refused = @ + (IF error \in Refusals THEN 1 ELSE 0)]
         IN Set(d, IF Retried(d, error) THEN [rec EXCEPT !.tries = @ + 1]
                   ELSE IF MovesOn(d, error) THEN [rec EXCEPT !.tries = 0, !.at = @ + 1]
                   ELSE [rec EXCEPT !.pc = "failed"])
    /\ UNCHANGED <<current, rankGen, ranking, fresh, rankLock>>

(* The session is stopped or the caller gives up: the lock is released. *)
DialDropped(d) ==
    /\ dial[d].pc \in {"rank", "probe", "dial"}
    /\ Set(d, Idle)
    /\ rankLock' = IF rankLock = d THEN NoDialer ELSE rankLock
    /\ UNCHANGED <<current, rankGen, ranking, fresh>>

TcpDialNext ==
    \/ NextGeneration \/ RankingExpires
    \/ \E d \in Dialers : \/ Route(d) \/ LockRankings(d) \/ Probe(d) \/ DialOpens(d)
                          \/ DialFails(d) \/ DialDropped(d)

TcpDialSpec == TcpDialInit /\ [][TcpDialNext]_tcpDialVars

----------------------------------------------------------------------------
(* A call dials endpoints of its own snapshot only, although the ranking is  *)
(* shared with calls on other generations; none of them is lost by a probe   *)
(* that found it unreachable.                                                *)
DialsOwnGeneration ==
    \A d \in Dialers : dial[d].list # <<>> =>
        /\ Range(dial[d].list) = Range(Configured[dial[d].gen])
        /\ Len(dial[d].list) = Len(Configured[dial[d].gen])

Times(d, e) == Cardinality({i \in 1..Len(dial[d].tried) : dial[d].tried[i] = e})

(* A dial that fails for want of a connection has tried every endpoint, each *)
(* as often as the retries allow; a refusal is not provoked a second time.   *)
FailoverIsComplete ==
    \A d \in Dialers : dial[d].pc = "failed" =>
        /\ dial[d].last \in Retryable =>
             \A e \in Range(Configured[dial[d].gen]) : Times(d, e) = DialRetries + 1
        /\ dial[d].refused <= 1

(* dial_tcp with the shared ranking: the endpoints of its own table, and all  *)
(* of them before it gives up.                                                *)
DialsAreComplete == DialsOwnGeneration /\ FailoverIsComplete
=============================================================================
