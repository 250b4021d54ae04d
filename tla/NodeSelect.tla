------------------------------ MODULE NodeSelect ------------------------------
(* select_node_with: every candidate is probed at once, the answers come in    *)
(* any order, and one endpoint is picked or the request is refused.            *)
EXTENDS Naturals, Sequences, SequencesExt

CONSTANTS CandidateLists, \* advertised endpoints, as sequences; repeats allowed
          Requests,       \* endpoints an operator may name
          NoRequest, Malformed,
          Latencies       \* how long a probe may take

VARIABLES ask,       \* candidates, requested endpoint and override policy
          measured,  \* measurements in the order of the candidates; <<>> pending
          selection  \* the outcome

selectVars == <<ask, measured, selection>>

Unasked == [candidates |-> <<>>, requested |-> NoRequest, allow |-> FALSE]
Unselected == [kind |-> "none", failover |-> <<>>]
Measurement == [endpoint : UNION {ToSet(l) : l \in CandidateLists} \cup Requests,
                reachable : BOOLEAN, elapsed : Latencies]

SelectInit == ask = Unasked /\ measured = <<>> /\ selection = Unselected

Refused(why) == [kind |-> why, failover |-> <<>>]

(* What is settled before a probe; an endpoint that was not advertised is not *)
(* touched unless the policy allows it, and then it is the only one probed.   *)
Before(c, requested, allow) ==
    IF requested = Malformed THEN "malformed"
    ELSE IF requested # NoRequest /\ requested \notin ToSet(c)
         THEN IF allow THEN "override" ELSE "notAdvertised"
    ELSE IF c = <<>> THEN "noCandidates" ELSE "probe"

SelectNode(c, requested, allow) ==
    LET before == Before(c, requested, allow)
        probes == CASE before = "override" -> <<requested>>
                    [] before = "probe" -> c
                    [] OTHER -> <<>>
    IN /\ ask = Unasked /\ selection = Unselected
       /\ ask' = [candidates |-> c, requested |-> requested, allow |-> allow]
       /\ measured' = [i \in 1..Len(probes) |-> <<probes[i]>>]
       /\ selection' = IF probes = <<>> THEN Refused(before) ELSE Unselected

(* the probe of one candidate ends, or its timeout does *)
ProbeAnswers(i, reachable, elapsed) ==
    /\ selection = Unselected /\ i \in DOMAIN measured /\ Len(measured[i]) = 1
    /\ measured' = [measured EXCEPT ![i] = Append(@, [endpoint |-> @[1], reachable |-> reachable,
                                                      elapsed |-> elapsed])]
    /\ UNCHANGED <<ask, selection>>

FasterFirst(l, r) == l.elapsed < r.elapsed
RankedBefore(l, r) ==
    \/ l.reachable /\ ~r.reachable
    \/ l.reachable = r.reachable /\ l.elapsed < r.elapsed

(* the stable sort of the measurements *)
Ranking(ms) ==
    LET Precedes(i, j) == RankedBefore(ms[i], ms[j]) \/ (~RankedBefore(ms[j], ms[i]) /\ i < j)
        order == SetToSortSeq(DOMAIN ms, Precedes)
    IN [i \in 1..Len(ms) |-> ms[order[i]]]

IsReachable(m) == m.reachable
Reached(ranked) == SelectSeq(ranked, IsReachable)
EndpointsOf(ms) == [i \in 1..Len(ms) |-> ms[i].endpoint]

(* failover_endpoints: a request stays pinned, otherwise all that answered *)
Selected(ranked, requested) ==
    LET Is(m) == m.endpoint = requested
    IN IF requested # NoRequest
       THEN IF SelectSeq(ranked, Is)[1].reachable
            THEN [kind |-> "requested", failover |-> <<requested>>]
            ELSE Refused("requestedUnreachable")
       ELSE IF Reached(ranked) = <<>> THEN Refused("allUnreachable")
            ELSE [kind |-> "lowestLatency", failover |-> EndpointsOf(Reached(ranked))]

Decide ==
    /\ selection = Unselected /\ measured # <<>>
    /\ \A i \in DOMAIN measured : Len(measured[i]) = 2
    /\ selection' = Selected(Ranking([i \in DOMAIN measured |-> measured[i][2]]), ask.requested)
    /\ UNCHANGED <<ask, measured>>

SelectNext ==
    \/ \E c \in CandidateLists, r \in Requests \cup {NoRequest, Malformed}, allow \in BOOLEAN :
         SelectNode(c, r, allow)
    \/ \E i \in DOMAIN measured, reachable \in BOOLEAN, t \in Latencies : ProbeAnswers(i, reachable, t)
    \/ Decide

SelectTypeOK ==
    /\ \A i \in DOMAIN measured : Len(measured[i]) = 2 => measured[i][2] \in Measurement
    /\ selection.kind \in {"none", "malformed", "notAdvertised", "noCandidates", "requested",
                           "requestedUnreachable", "lowestLatency", "allUnreachable"}

(* select_node_with fails closed: only advertised endpoints are probed unless *)
(* the operator allowed the one they named; a request is never answered with  *)
(* another endpoint and is refused only if no probe of it answered, even when *)
(* it is advertised twice; without a request every endpoint that answered is  *)
(* offered, the quickest first, and nothing else is.                          *)
SelectionFailsClosed ==
    LET answered == {measured[i][2] : i \in {j \in DOMAIN measured : Len(measured[j]) = 2}}
        up == {m \in answered : m.reachable}
        offered == ToSet(selection.failover)
    IN /\ \A i \in DOMAIN measured :
            \/ measured[i][1] \in ToSet(ask.candidates)
            \/ ask.allow /\ measured[i][1] = ask.requested
       /\ offered \subseteq {m.endpoint : m \in up}
       /\ ask.requested # NoRequest => offered \subseteq {ask.requested}
       /\ selection.kind = "requestedUnreachable" =>
            ~\E m \in up : m.endpoint = ask.requested
       /\ selection.kind \in {"lowestLatency", "allUnreachable"} =>
            /\ offered = {m.endpoint : m \in up}
            /\ \A n \in 1..Len(selection.failover) : \E m \in up :
                 /\ m.endpoint = selection.failover[n]
                 /\ \A o \in up : (\A k \in 1..(n - 1) : selection.failover[k] # o.endpoint)
                                    => m.elapsed <= o.elapsed
=============================================================================
