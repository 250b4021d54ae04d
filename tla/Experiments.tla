----------------------------- MODULE Experiments -----------------------------
(* The l3-session command of the probe tool: one packet (probe), a session     *)
(* held for hours (hold), held until it closes and replaced (reconnect), and   *)
(* many callers of few flows at once (concurrency). Each reads the counters of *)
(* the session it started on and passes or fails. Around it are the calls of   *)
(* the runtime, the gateway and Ctrl-C. Calls reach the session through its    *)
(* manager, which replaces a closed session and repeats within a budget.       *)
EXTENDS Naturals, FiniteSets

CONSTANTS Grids,           \* pairs of --concurrent-flows and --callers-per-flow
          MaxLinks,        \* bound: sessions that are made
          MaxTicks,        \* bound: wake-ups during the hold
          MaxFaults,       \* bound: closes, VIP updates, timeouts, expiries,
                           \* failed connects and repeated answers
          ClosedBudget, TimeoutBudget   \* L3_CLOSED_RETRIES, L3_AUTH_TIMEOUT_RETRIES

Addresses == 1..2
BatchCallers == UNION {(1..g[1]) \X (1..g[2]) : g \in Grids}   \* <<flow, number>>
ProbeFlows == 1..2 \cup {c[1] : c \in BatchCallers}           \* source ports from src_port on
Main == <<1, 1>>           \* the caller of the experiments that make one call at a time
Links == 1..MaxLinks

VARIABLES mode,     \* "probe", "hold", "reconnect" or "concurrency"
          grid,     \* flows and callers of each of them, in the last of these
          reached,  \* where the command is
          verdict,  \* "none", "passed", "failed" or "interrupted"
          held,     \* the session the experiment started on
          second,   \* its replacement
          ticks,
          source,   \* the address the packets of the experiment carry
          owned,    \* the manager's session, 0 without one
          link,     \* session -> its state and counters
          call,     \* caller -> its call of authorize_ipv4 or send_ipv4
          faults,   \* counts towards MaxFaults
          asked     \* session -> flow -> requests on the wire (history)

experimentVars == <<mode, grid, reached, verdict, held, second, ticks, source, owned, link, call,
                    faults, asked>>

Attempt(state, id) == [state |-> state, id |-> id]
NoAttempt == Attempt("none", 0)
NewLink(vip) == [made |-> TRUE, up |-> TRUE, vip |-> vip, entry |-> [f \in ProbeFlows |-> NoAttempt],
                 ids |-> 0, sent |-> 0, outcomes |-> 0, timeouts |-> 0, flying |-> 0, peak |-> 0]
NoLink == [NewLink(1) EXCEPT !.made = FALSE, !.up = FALSE]
NoCall == [pc |-> "idle", flow |-> 1, link |-> 0, id |-> 0, must |-> FALSE, heard |-> "none",
           closed |-> ClosedBudget, late |-> TimeoutBudget]

ExperimentInit ==
    /\ mode = "probe" /\ grid = <<1, 1>> /\ reached = "start" /\ verdict = "none"
    /\ held = 0 /\ second = 0 /\ ticks = 0 /\ source = 1
    /\ owned = 0 /\ link = [l \in Links |-> NoLink]
    /\ call = [c \in BatchCallers |-> NoCall]
    /\ faults = 0 /\ asked = [l \in Links |-> [f \in ProbeFlows |-> 0]]

Less(n) == IF n = 0 THEN 0 ELSE n - 1
Larger(a, b) == IF a > b THEN a ELSE b
Plan == <<mode, grid, ticks, source>>
Fault == faults < MaxFaults /\ faults' = faults + 1

----------------------------------------------------------------------------
(* Sessions *)

(* every waiter on session l that has no verdict loses its sender *)
Dropped(calls, l) ==
    [c \in BatchCallers |->
       IF calls[c].link = l /\ calls[c].heard = "none" /\ calls[c].pc \in {"write", "record", "wait"}
         THEN [calls[c] EXCEPT !.heard = "dropped"] ELSE calls[c]]

(* the same for the waiters of one attempt: abandon_flow *)
Abandoned(calls, l, id) ==
    [c \in BatchCallers |->
       IF calls[c].id = id THEN Dropped(calls, l)[c] ELSE calls[c]]

LinkCloses(l) ==
    /\ link[l].up /\ Fault
    /\ link' = [link EXCEPT ![l].up = FALSE]
    /\ call' = Dropped(call, l)
    /\ UNCHANGED <<Plan, reached, verdict, held, second, owned, asked>>

(* apply_vip_update: the table is cleared, nothing is in flight *)
VipMoves(l) ==
    /\ link[l].up /\ Fault
    /\ \E v \in Addresses \ {link[l].vip} :
         link' = [link EXCEPT ![l].vip = v, ![l].flying = 0,
                              ![l].entry = [f \in ProbeFlows |-> NoAttempt]]
    /\ call' = Dropped(call, l)
    /\ UNCHANGED <<Plan, reached, verdict, held, second, owned, asked>>

(* settle_auth(false) *)
Settled(rec) == [rec EXCEPT !.outcomes = @ + 1, !.flying = Less(@)]

(* The first answer to a request: counted, then its waiters are told. *)
AuthAnswer(l, f) ==
    /\ link[l].up /\ link[l].entry[f].state = "asked"
    /\ \E v \in {"ready", "failed"} :
         /\ link' = [link EXCEPT ![l] = [Settled(@) EXCEPT !.entry[f].state = v]]
         /\ call' = [c \in BatchCallers |->
                       IF call[c].link = l /\ call[c].id = link[l].entry[f].id
                          /\ call[c].heard = "none"
                         THEN [call[c] EXCEPT !.heard = v] ELSE call[c]]
    /\ UNCHANGED <<Plan, reached, verdict, held, second, owned, faults, asked>>

(* another answer to it is counted as well *)
AnswerAgain(l, f) ==
    /\ link[l].up /\ link[l].entry[f].state \in {"ready", "failed"}
    /\ Fault
    /\ link' = [link EXCEPT ![l] = Settled(@)]
    /\ UNCHANGED <<Plan, reached, verdict, held, second, owned, call, asked>>

----------------------------------------------------------------------------
(* Calls *)

(* L3SessionManager::session: the live session, or a new one. Only the later  *)
(* ones differ in their address: that of the first is 1.                      *)
Live == owned # 0 /\ link[owned].up
Unmade == {l \in Links : ~link[l].made /\ \A k \in 1..(l - 1) : link[k].made}
NewVips(unmade) == IF 1 \in unmade THEN {1} ELSE Addresses
SessionsReached == IF Live THEN {<<owned, link>>}
           ELSE {<<l, [link EXCEPT ![l] = NewLink(v)]>> : l \in Unmade,
                                                        v \in NewVips(Unmade)}

SetCall(c, rec) == call' = [call EXCEPT ![c] = rec]
RefusedCall == [NoCall EXCEPT !.pc = "error"]
Authorized(l) == [NoCall EXCEPT !.pc = "ok", !.link = l]

(* The call reaches a session: wrong address, a cached verdict, an attempt to *)
(* wait for or one to make. A settled entry may have expired meanwhile.       *)
CallClaim(c) ==
    /\ call[c].pc = "session"
    /\ \/ SetCall(c, RefusedCall) /\ UNCHANGED <<link, owned>> /\ Fault
       \/ \E <<l, links>> \in SessionsReached :
            /\ owned' = l
            /\ LET f == call[c].flow
                   known == links[l].entry[f]
                   rec == [call[c] EXCEPT !.link = l, !.heard = "none", !.must = FALSE]
                   id == links[l].ids + 1
               IN IF links[l].vip # source
                    THEN SetCall(c, RefusedCall) /\ link' = links /\ UNCHANGED faults
                    ELSE \/ /\ known.state = "ready" /\ link' = links /\ UNCHANGED faults
                            /\ SetCall(c, Authorized(l))
                         \/ /\ known.state = "failed" /\ link' = links /\ UNCHANGED faults
                            /\ SetCall(c, RefusedCall)
                         \/ /\ known.state \in {"claimed", "asked"} /\ link' = links /\ UNCHANGED faults
                            /\ SetCall(c, [rec EXCEPT !.pc = "wait", !.id = known.id])
                         \/ /\ known.state # "claimed" /\ known.state # "asked"
                            /\ IF known.state = "none" THEN UNCHANGED faults ELSE Fault
                            /\ link' = [links EXCEPT ![l].entry[f] = Attempt("claimed", id),
                                                     ![l].ids = id]
                            /\ SetCall(c, [rec EXCEPT !.pc = "write", !.must = TRUE, !.id = id])
    /\ UNCHANGED <<Plan, reached, verdict, held, second, asked>>

(* The request is written out; without a connection the attempt is abandoned. *)
Mine(c) == link[call[c].link].entry[call[c].flow].id = call[c].id

CallWrite(c) ==
    LET l == call[c].link
        f == call[c].flow IN
    /\ call[c].pc = "write"
    /\ IF link[l].up
         THEN /\ asked' = [asked EXCEPT ![l][f] = @ + 1]
              /\ link' = IF Mine(c) THEN [link EXCEPT ![l].entry[f].state = "asked"] ELSE link
              /\ SetCall(c, [call[c] EXCEPT !.pc = "record"])
         ELSE /\ link' = IF Mine(c) THEN [link EXCEPT ![l].entry[f] = NoAttempt] ELSE link
              /\ SetCall(c, [call[c] EXCEPT !.pc = "closed"])
              /\ UNCHANGED asked
    /\ UNCHANGED <<Plan, reached, verdict, held, second, owned, faults>>

(* record_auth_sent: only after the write was reported back to the caller *)
CallRecord(c) ==
    /\ call[c].pc = "record"
    /\ link' = [link EXCEPT ![call[c].link].sent = @ + 1, ![call[c].link].flying = @ + 1,
                            ![call[c].link].peak = Larger(@, link[call[c].link].flying + 1)]
    /\ SetCall(c, [call[c] EXCEPT !.pc = "wait"])
    /\ UNCHANGED <<Plan, reached, verdict, held, second, owned, faults, asked>>

(* a verdict; or the sender is gone, which means another address or a close *)
CallHears(c) ==
    LET l == call[c].link IN
    /\ call[c].pc = "wait" /\ call[c].heard # "none"
    /\ SetCall(c, IF link[l].vip # source \/ call[c].heard = "failed" THEN RefusedCall
                  ELSE IF call[c].heard = "ready" THEN Authorized(l)
                  ELSE [call[c] EXCEPT !.pc = "closed"])
    /\ UNCHANGED <<Plan, reached, verdict, held, second, owned, link, faults, asked>>

(* the deadline of the call: only the caller that sent counts it *)
CallTimesOut(c) ==
    LET l == call[c].link
        f == call[c].flow IN
    /\ call[c].pc = "wait" /\ call[c].heard = "none" /\ Fault
    /\ link' = [link EXCEPT ![l].entry[f] = IF Mine(c) THEN NoAttempt ELSE @,
                            ![l].timeouts = IF call[c].must THEN @ + 1 ELSE @,
                            ![l].flying = IF call[c].must THEN Less(@) ELSE @]
    /\ call' = [Abandoned(call, l, call[c].id) EXCEPT ![c] = [call[c] EXCEPT !.pc = "late"]]
    /\ UNCHANGED <<Plan, reached, verdict, held, second, owned, asked>>

(* authorize_with_budget: invalidate the session and begin again, or give up *)
CallRetries(c) ==
    LET l == call[c].link
        left == IF call[c].pc = "closed" THEN call[c].closed ELSE call[c].late IN
    /\ call[c].pc \in {"closed", "late"}
    /\ IF left = 0 THEN SetCall(c, RefusedCall) /\ UNCHANGED <<link, owned>>
       ELSE LET rec == [call[c] EXCEPT !.pc = "session", !.link = 0, !.id = 0, !.heard = "none", !.must = FALSE,
                          !.closed = IF call[c].pc = "closed" THEN @ - 1 ELSE @,
                          !.late = IF call[c].pc = "late" THEN @ - 1 ELSE @] IN
            IF owned = l
              THEN /\ owned' = 0 /\ link' = [link EXCEPT ![l].up = FALSE]
                   /\ call' = [Dropped(call, l) EXCEPT ![c] = rec]
              ELSE SetCall(c, rec) /\ UNCHANGED <<link, owned>>
    /\ UNCHANGED <<Plan, reached, verdict, held, second, faults, asked>>

----------------------------------------------------------------------------
(* The command *)
InExperiment == reached \notin {"start", "begin", "ended"}

ShutDownNever(links) == links
(* runtime.shutdown(): every session is closed and its state gone with it *)
ShutDown(links) == [l \in Links |-> [NoLink EXCEPT !.made = links[l].made]]

(* The experiment ends, whatever was in progress is dropped, the runtime is   *)
(* shut down and the command returns.                                         *)
EndsAs(v) ==
    /\ verdict' = v /\ reached' = "ended"
    /\ call' = [c \in BatchCallers |-> NoCall]
    /\ link' = ShutDown(link) /\ owned' = 0
    /\ UNCHANGED <<Plan, held, second, faults, asked>>

GoesOn == UNCHANGED <<mode, grid, ticks, source, verdict, held, second, owned, link, faults, asked>>

(* the options of the command, after their checks *)
StartExperiment ==
    /\ reached = "start" /\ reached' = "begin"
    /\ mode' \in {"probe", "hold", "reconnect", "concurrency"}
    /\ grid' \in (IF mode' = "concurrency" THEN Grids ELSE {<<1, 1>>})
    /\ UNCHANGED <<verdict, held, second, ticks, source, owned, link, call, faults, asked>>

(* The runtime has started. Without a route the command returns and drops it, *)
(* for another application it is shut down: nothing is connected yet.         *)
Begin ==
    /\ reached = "begin"
    /\ \/ EndsAs("failed")
       \/ reached' = "connect" /\ UNCHANGED call /\ GoesOn

Calling(flow) == [call EXCEPT ![Main] = [NoCall EXCEPT !.pc = "session", !.flow = flow]]
InBatch == (1..grid[1]) \X (1..grid[2])
Batch == [c \in BatchCallers |->
            IF c \in InBatch THEN [NoCall EXCEPT !.pc = "session", !.flow = c[1]] ELSE NoCall]

(* route, connect_node_group and the address packets are built with; a failure *)
(* of any of them fails the experiment *)
ConnectHeld ==
    /\ reached = "connect"
    /\ \/ EndsAs("failed")
       \/ \E <<l, links>> \in SessionsReached :
            /\ owned' = l /\ link' = links /\ held' = l /\ source' = links[l].vip
            /\ IF mode = "concurrency" THEN reached' = "batch" /\ call' = Batch
                                       ELSE reached' = "first" /\ call' = Calling(1)
            /\ UNCHANGED <<mode, grid, ticks, verdict, second, faults, asked>>

(* run_l3_probe after its call: --auth-only, a reply, or none of use *)
ProbeEnds ==
    /\ mode = "probe" /\ reached = "first" /\ call[Main].pc = "ok"
    /\ EndsAs("passed") \/ EndsAs("failed")

CallFails ==
    /\ reached \in {"first", "final", "again"} /\ call[Main].pc = "error"
    /\ EndsAs("failed")

(* run_l3_longevity: the first authorization must be on the session held *)
HoldBegins ==
    /\ mode \in {"hold", "reconnect"} /\ reached = "first" /\ call[Main].pc = "ok"
    /\ IF call[Main].link = held
         THEN reached' = "hold" /\ call' = [call EXCEPT ![Main] = NoCall] /\ GoesOn
         ELSE EndsAs("failed")

(* a wake-up; a keepalive is due only while the session is not closed *)
HoldWakes ==
    /\ reached = "hold" /\ ticks < MaxTicks /\ ticks' = ticks + 1
    /\ \/ reached' = "sample" /\ UNCHANGED call
       \/ link[held].up /\ reached' = "keepalive" /\ call' = Calling(1)
    /\ UNCHANGED <<mode, grid, source, verdict, held, second, owned, link, faults, asked>>

(* whatever became of the keepalive, it is only counted *)
KeepaliveEnds ==
    /\ reached = "keepalive" /\ call[Main].pc \in {"ok", "error"}
    /\ reached' = "sample" /\ call' = [call EXCEPT ![Main] = NoCall] /\ GoesOn

(* --force-reconnect-after-seconds: manager.close() *)
ForcedReconnect ==
    /\ mode = "reconnect" /\ reached = "sample" /\ Live
    /\ link' = [link EXCEPT ![owned].up = FALSE] /\ owned' = 0
    /\ UNCHANGED <<Plan, reached, verdict, held, second, call, faults, asked>>

Sample ==
    /\ reached = "sample"
    /\ IF link[held].up THEN reached' = "hold" /\ UNCHANGED call /\ GoesOn
       ELSE IF mode = "hold" THEN EndsAs("failed")
       ELSE reached' = "replace" /\ UNCHANGED call /\ GoesOn

Replace ==
    /\ reached = "replace"
    /\ \/ EndsAs("failed")
       \/ \E <<l, links>> \in SessionsReached :
            /\ owned' = l /\ link' = links /\ second' = l /\ source' = links[l].vip
            /\ reached' = "again" /\ call' = Calling(2)
            /\ UNCHANGED <<mode, grid, ticks, verdict, held, faults, asked>>

PassedReconnect(c) ==
    LET r == link[second] IN
    /\ second # held /\ r.up /\ call[c].link = second
    /\ r.sent = 1 /\ r.outcomes = 1 /\ r.timeouts = 0

ReconnectEnds ==
    /\ reached = "again" /\ call[Main].pc = "ok"
    /\ EndsAs(IF PassedReconnect(Main) THEN "passed" ELSE "failed")

(* the deadline; then one more authorization on a flow of its own *)
HoldEnds ==
    /\ reached = "hold"
    /\ IF mode = "reconnect" THEN EndsAs("failed")
       ELSE reached' = "final" /\ call' = Calling(2) /\ GoesOn

PassedHold(c) ==
    LET h == link[held] IN
    /\ call[c].link = held /\ h.up /\ h.vip = source
    /\ h.sent = 2 /\ h.outcomes = 2 /\ h.timeouts = 0

LongevityEnds ==
    /\ reached = "final" /\ call[Main].pc = "ok"
    /\ EndsAs(IF PassedHold(Main) THEN "passed" ELSE "failed")

SameSessionAny == TRUE
(* every caller was answered on the session the experiment began with *)
SameSession == \A c \in InBatch : call[c].link = held

(* run_l3_concurrency; its counters start at zero, the session being new *)
PassedBatch ==
    LET h == link[held] IN
    /\ \A c \in InBatch : call[c].pc = "ok"
    /\ SameSession
    /\ h.sent = grid[1] /\ h.outcomes = grid[1] /\ h.timeouts = 0
    /\ h.peak >= (IF grid[1] < 2 THEN grid[1] ELSE 2)
    /\ Cardinality({f \in ProbeFlows : h.entry[f].state # "none"}) = grid[1]

BatchEnds ==
    /\ reached = "batch" /\ \A c \in InBatch : call[c].pc \in {"ok", "error"}
    /\ EndsAs(IF PassedBatch THEN "passed" ELSE "failed")

(* the batch's own timeout drops the JoinSet and with it all callers *)
BatchTimesOut == reached = "batch" /\ EndsAs("failed")

(* Ctrl-C drops the experiment and goes on to the shutdown *)
CtrlCPressed == InExperiment /\ EndsAs("interrupted")

CallNext(c) ==
    CallClaim(c) \/ CallWrite(c) \/ CallRecord(c) \/ CallHears(c) \/ CallTimesOut(c)
    \/ CallRetries(c)

ExperimentNext ==
    \/ StartExperiment \/ Begin \/ ConnectHeld \/ ProbeEnds \/ CallFails \/ HoldBegins \/ HoldWakes
    \/ KeepaliveEnds \/ ForcedReconnect \/ Sample \/ Replace \/ ReconnectEnds \/ HoldEnds
    \/ LongevityEnds \/ BatchEnds \/ BatchTimesOut \/ CtrlCPressed
    \/ \E c \in BatchCallers : CallNext(c)
    \/ InExperiment /\ \E l \in Links : LinkCloses(l) \/ VipMoves(l)
                                       \/ \E f \in ProbeFlows : AuthAnswer(l, f) \/ AnswerAgain(l, f)

ExperimentSpec == ExperimentInit /\ [][ExperimentNext]_experimentVars

----------------------------------------------------------------------------
ExperimentTypeOK ==
    /\ verdict \in {"none", "passed", "failed", "interrupted"}
    /\ held \in 0..MaxLinks /\ second \in 0..MaxLinks /\ owned \in 0..MaxLinks
    /\ \A l \in Links : link[l].vip \in Addresses /\ link[l].peak \in 0..Cardinality(BatchCallers)
    /\ \A c \in BatchCallers : call[c].pc \in {"idle", "session", "write", "record", "wait", "ok",
                                             "error", "closed", "late"}

Made == {l \in Links : link[l].made}

(* A passed verdict means what the experiment says it measured, although it   *)
(* was read off counters that answers, timeouts and other callers change too: *)
(* the hold kept one session and put two requests on its wire, no keepalive   *)
(* among them; the replacement is another session with one request of its     *)
(* own; the batch had one request for each flow, however many callers, all on *)
(* one session. However the command ends (an error, Ctrl-C, a timeout), no    *)
(* connection to a node is left open.                                         *)
VerdictsAreEarned ==
    /\ verdict = "passed" =>
         /\ mode = "hold" => Made = {held} /\ \A f \in {1, 2} : asked[held][f] = 1
         /\ mode = "reconnect" => /\ second # held /\ ~link[held].up
                                  /\ asked[second][1] = 0 /\ asked[second][2] = 1
         /\ mode = "concurrency" => Made = {held} /\ \A f \in 1..grid[1] : asked[held][f] = 1
    /\ reached = "ended" => \A l \in Links : ~link[l].up
=============================================================================
