----------------------------- MODULE L3Manager -----------------------------
(***************************************************************************)
(* The reconnect owner of one node group (crates/atrust-l3/src/            *)
(* manager.rs): concurrent authorize_and_send calls share one session      *)
(* behind an async mutex, dial endpoints in rotation, retry under a budget, *)
(* and race with reconnect (close), with retirement, and with the VIP      *)
(* updates and failures of the sessions themselves.                        *)
(*                                                                         *)
(* What authorize_flow and send_packet may answer is L3Session's subject;  *)
(* here every answer is possible, and a packet may carry any source        *)
(* address.  Time is left out: the retry delay (250 ms doubling to 8 s) is *)
(* a sleep that may last any while.                                        *)
(***************************************************************************)
EXTENDS Naturals, Sequences, FiniteSets, SequencesExt

CONSTANTS Callers, Vips, NoVip, Nobody,
          EndpointLists,   \* candidate lists a refresh may install, deduplicated
          ClosedRetries,   \* L3_CLOSED_RETRIES
          TimeoutRetries,  \* L3_AUTH_TIMEOUT_RETRIES
          MaxSessions,     \* bound on the sessions alive at a time
          MaxUpdates       \* bound on VIP updates

VARIABLES lock,           \* holder of the mutex `current`
          session,        \* state.session, 0 for None
          last_vip, next_endpoint, retry_at,
          retired, endpoints,
          dial,           \* locals of session() while it dials
          sess,           \* the session objects
          pc, call,       \* authorize_and_send
          ctl,            \* reconnect and retire-then-close
          told,           \* the VIP a consumer of the events believes in
          updates

lockVars  == <<lock, session, last_vip, next_endpoint, retry_at, dial>>
vars == <<lock, session, last_vip, next_endpoint, retry_at, retired, endpoints,
          dial, sess, pc, call, ctl, told, updates>>

ASSUME L3ManagerAssumption ==
    /\ NoVip \notin Vips
    /\ Nobody \notin Callers \cup {"reconnect", "retire"}
    /\ Callers \cap {"reconnect", "retire"} = {}
    /\ ClosedRetries \in Nat /\ TimeoutRetries \in Nat
    /\ \A eps \in EndpointLists : IsInjective(eps)

SessionIds == 1 .. MaxSessions
Controls   == {"reconnect", "retire"}

TypeOK ==
    /\ lock \in Callers \cup Controls \cup {Nobody}
    /\ session \in SessionIds \cup {0}
    /\ last_vip \in Vips \cup {NoVip} /\ told \in Vips \cup {NoVip}
    /\ next_endpoint \in Nat /\ retry_at \in BOOLEAN /\ retired \in BOOLEAN
    /\ endpoints \in EndpointLists
    /\ dial.eps \in EndpointLists \cup {<<>>} /\ dial.offset \in 0 .. Len(dial.eps)
    /\ dial.tried \subseteq ToSet(dial.eps)
    /\ dial.vip \in Vips \cup {NoVip} /\ dial.previous \in Vips \cup {NoVip}
    /\ sess \in [SessionIds -> [status : {"none", "open", "closing", "stopped"},
                                vip : Vips \cup {NoVip}, pending : Vips \cup {NoVip}]]
    /\ pc \in [Callers -> {"idle", "lock", "closing", "sleep", "dial", "install", "report",
                           "authorize", "send", "invalidate", "close", "join"}]
    /\ call \in [Callers -> [session : SessionIds \cup {0}, closed : 0 .. ClosedRetries,
                             timeouts : 0 .. TimeoutRetries]]
    /\ ctl \in [Controls -> [pc : {"idle", "try", "close", "join", "done"},
                             session : SessionIds \cup {0}]]

NoDial == [eps |-> <<>>, start |-> 0, offset |-> 0, tried |-> {},
           vip |-> NoVip, previous |-> NoVip]
NoCall == [session |-> 0, closed |-> 0, timeouts |-> 0]

Init ==
    /\ lock = Nobody /\ session = 0
    /\ last_vip = NoVip /\ next_endpoint = 0 /\ retry_at = FALSE
    /\ retired = FALSE
    /\ endpoints \in EndpointLists
    /\ dial = NoDial
    /\ sess = [s \in SessionIds |-> [status |-> "none", vip |-> NoVip, pending |-> NoVip]]
    /\ pc = [c \in Callers |-> "idle"] /\ call = [c \in Callers |-> NoCall]
    /\ ctl = [x \in Controls |-> [pc |-> "idle", session |-> 0]]
    /\ told = NoVip
    /\ updates = 0
-----------------------------------------------------------------------------
IsOpen(s) == sess[s].status = "open"

(* shutdown: only the first request has an effect. *)
RequestCloseNothing(s) == UNCHANGED sess

RequestClose(s) == sess' = [sess EXCEPT ![s].status = IF @ = "open" THEN "closing" ELSE @]

Goto(c, label) == pc' = [pc EXCEPT ![c] = label]

Return(c) == Goto(c, "idle") /\ call' = [call EXCEPT ![c] = NoCall]

Release(c) == lock' = (IF lock = c THEN Nobody ELSE lock) /\ dial' = (IF lock = c THEN NoDial ELSE dial)

(* session() starts with a look at the flag before it queues for the lock. *)
EnterSession(c) == IF retired THEN Return(c)
                   ELSE Goto(c, "lock") /\ call' = [call EXCEPT ![c].session = 0]

Begin(c) ==
    /\ pc[c] = "idle"
    /\ ~retired
    /\ Goto(c, "lock")
    /\ call' = [call EXCEPT ![c] = [session |-> 0, closed |-> ClosedRetries,
                                    timeouts |-> TimeoutRetries]]
    /\ UNCHANGED <<lockVars, retired, endpoints, sess, ctl, told, updates>>

(* The checks that session() makes once it holds the lock: at the start, and *)
(* again when a connection has been established.                             *)
NeverRefused == FALSE

Refused == retired

(* session() gets the lock: refuse, share the live session, or take the     *)
(* closed one out and keep the lock.                                        *)
Acquire(c) ==
    /\ pc[c] = "lock" /\ lock = Nobody
    /\ \/ Refused /\ Return(c) /\ UNCHANGED lockVars
       \/ /\ ~Refused /\ session # 0 /\ IsOpen(session)
          /\ call' = [call EXCEPT ![c].session = session]
          /\ Goto(c, "authorize")
          /\ UNCHANGED lockVars
       \/ /\ ~Refused /\ session # 0 /\ ~IsOpen(session)
          /\ lock' = c
          /\ last_vip' = sess[session].vip
          /\ session' = 0
          /\ call' = [call EXCEPT ![c].session = session]
          /\ Goto(c, "closing")
          /\ UNCHANGED <<next_endpoint, retry_at, dial>>
       \/ /\ ~Refused /\ session = 0
          /\ lock' = c
          /\ Goto(c, "sleep")
          /\ UNCHANGED <<session, last_vip, next_endpoint, retry_at, dial, call>>
    /\ UNCHANGED <<retired, endpoints, sess, ctl, told, updates>>

(* closed.close().await has joined the tasks of the old session. *)
JoinClosed(c) ==
    /\ pc[c] = "closing" /\ sess[call[c].session].status = "stopped"
    /\ retry_at' = TRUE
    /\ Goto(c, "sleep")
    /\ UNCHANGED <<lock, session, last_vip, next_endpoint, dial, retired, endpoints, sess,
                   call, ctl, told, updates>>

(* sleep_until(retry_at), if any; then the candidates are read. *)
Wake(c) ==
    /\ pc[c] = "sleep"
    /\ \/ endpoints = <<>> /\ Return(c) /\ Release(c)
       \/ /\ endpoints # <<>>
          /\ dial' = [NoDial EXCEPT !.eps = endpoints,
                                    !.start = next_endpoint % Len(endpoints)]
          /\ Goto(c, "dial")
          /\ UNCHANGED <<lock, call>>
    /\ UNCHANGED <<session, last_vip, next_endpoint, retry_at, retired, endpoints, sess,
                   ctl, told, updates>>

IndexWithoutWrap == IF dial.start + dial.offset < Len(dial.eps)
                    THEN dial.start + dial.offset ELSE dial.start

Index == (dial.start + dial.offset) % Len(dial.eps)

Tried == dial.tried \cup {dial.eps[Index + 1]}

(* A retryable error moves on to the next candidate, the last one arms the   *)
(* delay.                                                                    *)
DialFails(c) ==
    /\ pc[c] = "dial"
    /\ dial.offset < Len(dial.eps)
    /\ dial' = [dial EXCEPT !.offset = @ + 1, !.tried = Tried]
    /\ UNCHANGED <<lock, session, last_vip, next_endpoint, retry_at, retired, endpoints,
                   sess, pc, call, ctl, told, updates>>

DialExhausted(c) ==
    /\ pc[c] = "dial" /\ dial.offset = Len(dial.eps)
    /\ retry_at' = TRUE
    /\ Return(c) /\ Release(c)
    /\ UNCHANGED <<session, last_vip, next_endpoint, retired, endpoints, sess, ctl, told,
                   updates>>

(* Any other error ends the call at once. *)
DialRejected(c) ==
    /\ pc[c] = "dial" /\ dial.offset < Len(dial.eps)
    /\ Return(c) /\ Release(c)
    /\ UNCHANGED <<session, last_vip, next_endpoint, retry_at, retired, endpoints, sess,
                   ctl, told, updates>>

(* A name that no live session and nobody's handle uses. *)
Free(s) == /\ sess[s].status \in {"none", "stopped"} /\ s # session
           /\ \A c \in Callers : call[c].session # s
           /\ \A x \in Controls : ctl[x].session # s

(* Get-IP assigned an address; the tasks of the new session are running. *)
DialSucceeds(c, v) ==
    /\ pc[c] = "dial" /\ dial.offset < Len(dial.eps)
    /\ \E s \in SessionIds :
         /\ Free(s) /\ \A t \in 1 .. s - 1 : ~Free(t)
         /\ sess' = [sess EXCEPT ![s] = [status |-> "open", vip |-> v, pending |-> NoVip]]
         /\ call' = [call EXCEPT ![c].session = s]
    /\ Goto(c, "install")
    /\ UNCHANGED <<lockVars, retired, endpoints, ctl, told, updates>>

Install(c) ==
    LET s == call[c].session
    IN  /\ pc[c] = "install"
        /\ \/ /\ Refused
              /\ RequestClose(s)
              /\ Return(c) /\ Release(c)
              /\ UNCHANGED <<session, last_vip, next_endpoint, retry_at>>
           \/ /\ ~Refused
              /\ retry_at' = FALSE
              /\ next_endpoint' = (Index + 1) % Len(dial.eps)
              /\ session' = s
              /\ last_vip' = sess[s].vip
              /\ dial' = [dial EXCEPT !.vip = sess[s].vip, !.previous = last_vip]
              /\ Goto(c, "report")
              /\ UNCHANGED <<lock, sess, call>>
        /\ UNCHANGED <<retired, endpoints, ctl, told, updates>>

(* What a consumer makes of the events: the first address it hears of, then *)
(* whatever L3VipChanged says.                                              *)
ChangedNever(previous, vip) == previous = NoVip /\ previous # vip

Changed(previous, vip) == previous # NoVip /\ previous # vip

(* report_established, still under the lock. *)
Report(c) ==
    /\ pc[c] = "report"
    /\ told' = IF told = NoVip \/ Changed(dial.previous, dial.vip) THEN dial.vip ELSE told
    /\ Goto(c, "authorize")
    /\ Release(c)
    /\ UNCHANGED <<session, last_vip, next_endpoint, retry_at, retired, endpoints, sess,
                   call, ctl, updates>>
-----------------------------------------------------------------------------
(* authorize_with_budget and the send that follows it. *)

ConsumeNothing(c, kind) ==
    IF call[c][kind] > 0
    THEN Goto(c, "invalidate") /\ UNCHANGED call
    ELSE Return(c)

ConsumeUnchecked(c, kind) ==
    /\ call' = [call EXCEPT ![c] = [@ EXCEPT ![kind] = @ - 1]]
    /\ Goto(c, "invalidate")

Consume(c, kind) ==
    IF call[c][kind] > 0
    THEN /\ call' = [call EXCEPT ![c] = [@ EXCEPT ![kind] = @ - 1]]
         /\ Goto(c, "invalidate")
    ELSE Return(c)

Authorize(c) ==
    /\ pc[c] = "authorize"
    /\ \/ Return(c)                       \* denied, or not the packet's address
       \/ Goto(c, "send") /\ UNCHANGED call
       \/ Consume(c, "closed")
       \/ Consume(c, "timeouts")
    /\ UNCHANGED <<lockVars, retired, endpoints, sess, ctl, told, updates>>

Send(c) ==
    /\ pc[c] = "send"
    /\ \/ IsOpen(call[c].session) /\ Return(c)   \* sent, or not the packet's address
       \/ ~IsOpen(call[c].session) /\ Consume(c, "closed")
    /\ UNCHANGED <<lockVars, retired, endpoints, sess, ctl, told, updates>>

(* invalidate: only the session that failed is taken out, and it is closed   *)
(* after the lock has been released.                                         *)
Invalidate(c) ==
    /\ pc[c] = "invalidate" /\ lock = Nobody
    /\ \/ /\ session = call[c].session
          /\ session' = 0
          /\ last_vip' = sess[session].vip
          /\ Goto(c, "close") /\ UNCHANGED call
       \/ /\ session # call[c].session
          /\ EnterSession(c)
          /\ UNCHANGED <<session, last_vip>>
    /\ UNCHANGED <<lock, next_endpoint, retry_at, dial, retired, endpoints, sess, ctl, told,
                   updates>>

CloseFailed(c) ==
    /\ pc[c] = "close"
    /\ RequestClose(call[c].session)
    /\ Goto(c, "join")
    /\ UNCHANGED <<lockVars, retired, endpoints, call, ctl, told, updates>>

JoinFailed(c) ==
    /\ pc[c] = "join" /\ sess[call[c].session].status = "stopped"
    /\ EnterSession(c)
    /\ UNCHANGED <<lockVars, retired, endpoints, sess, ctl, told, updates>>

(* The caller's future is dropped while it awaits; a held lock is released. *)
Cancel(c) ==
    /\ pc[c] \in {"lock", "closing", "sleep", "dial", "authorize", "send", "invalidate", "join"}
    /\ Return(c) /\ Release(c)
    /\ UNCHANGED <<session, last_vip, next_endpoint, retry_at, retired, endpoints, sess,
                   ctl, told, updates>>
-----------------------------------------------------------------------------
(* close, called by reconnect, and after retire by the cache. *)

CtlGoto(x, label, s) == ctl' = [ctl EXCEPT ![x] = [pc |-> label, session |-> s]]

Reconnect ==
    /\ ctl["reconnect"].pc = "idle"
    /\ CtlGoto("reconnect", "close", 0)
    /\ UNCHANGED <<lockVars, retired, endpoints, sess, pc, call, told, updates>>

Finished(x) == IF x = "retire" THEN "done" ELSE "idle"

(* The guard of the mutex lives as long as the body of the `if let`. *)
Close(x) ==
    /\ ctl[x].pc = "close" /\ lock = Nobody
    /\ \/ session = 0 /\ CtlGoto(x, Finished(x), 0) /\ UNCHANGED <<lock, session, sess>>
       \/ /\ session # 0
          /\ lock' = x
          /\ session' = 0
          /\ RequestClose(session)
          /\ CtlGoto(x, "join", session)
    /\ UNCHANGED <<last_vip, next_endpoint, retry_at, dial, retired, endpoints, pc, call,
                   told, updates>>

Closed(x) ==
    /\ ctl[x].pc = "join" /\ sess[ctl[x].session].status = "stopped"
    /\ lock' = Nobody
    /\ CtlGoto(x, Finished(x), 0)
    /\ UNCHANGED <<session, last_vip, next_endpoint, retry_at, dial, retired, endpoints,
                   sess, pc, call, told, updates>>

Retire ==
    /\ ctl["retire"].pc = "idle"
    /\ retired' = TRUE
    /\ CtlGoto("retire", "try", 0)
    /\ UNCHANGED <<lockVars, endpoints, sess, pc, call, told, updates>>

RetireTry ==
    /\ ctl["retire"].pc = "try"
    /\ IF lock = Nobody /\ session # 0 THEN RequestClose(session) ELSE UNCHANGED sess
    /\ CtlGoto("retire", "close", 0)
    /\ UNCHANGED <<lockVars, retired, endpoints, pc, call, told, updates>>

UpdateEndpoints(eps) ==
    /\ endpoints' = eps
    /\ UNCHANGED <<lockVars, retired, sess, pc, call, ctl, told, updates>>
-----------------------------------------------------------------------------
(* The sessions: they fail by themselves, their readers apply 0x97 until     *)
(* they have noticed the stop signal, and emit the event after the change.   *)
SessionFails(s) ==
    /\ IsOpen(s)
    /\ RequestClose(s)
    /\ UNCHANGED <<lockVars, retired, endpoints, pc, call, ctl, told, updates>>

VipUpdate(s, v) ==
    /\ sess[s].status \in {"open", "closing"} /\ sess[s].pending = NoVip
    /\ v # sess[s].vip
    /\ updates < MaxUpdates
    /\ updates' = updates + 1
    /\ sess' = [sess EXCEPT ![s].vip = v, ![s].pending = v]
    /\ UNCHANGED <<lockVars, retired, endpoints, pc, call, ctl, told>>

VipEmit(s) ==
    /\ sess[s].pending # NoVip
    /\ told' = sess[s].pending
    /\ sess' = [sess EXCEPT ![s].pending = NoVip]
    /\ UNCHANGED <<lockVars, retired, endpoints, pc, call, ctl, updates>>

ReaderStops(s) ==
    /\ sess[s].status = "closing" /\ sess[s].pending = NoVip
    /\ sess' = [sess EXCEPT ![s].status = "stopped"]
    /\ UNCHANGED <<lockVars, retired, endpoints, pc, call, ctl, told, updates>>
-----------------------------------------------------------------------------
Locking(c) == Acquire(c) \/ Invalidate(c)

Working(c) == \/ JoinClosed(c) \/ Wake(c) \/ DialFails(c) \/ DialExhausted(c)
              \/ DialRejected(c) \/ (\E v \in Vips : DialSucceeds(c, v))
              \/ Install(c) \/ Report(c) \/ Authorize(c) \/ Send(c)
              \/ CloseFailed(c) \/ JoinFailed(c)

Next ==
    \/ \E c \in Callers : Begin(c) \/ Locking(c) \/ Working(c) \/ Cancel(c)
    \/ Reconnect \/ Retire \/ RetireTry
    \/ \E x \in Controls : Close(x) \/ Closed(x)
    \/ \E eps \in EndpointLists : UpdateEndpoints(eps)
    \/ \E s \in SessionIds : SessionFails(s) \/ VipEmit(s) \/ ReaderStops(s)
    \/ \E s \in SessionIds, v \in Vips : VipUpdate(s, v)

(* The mutex is handed over in FIFO order, so whoever waits gets it.  Sleeps *)
(* end, dialling and authorizing have deadlines of their own, tasks that     *)
(* were told to stop do.                                                     *)
Fairness ==
    /\ \A c \in Callers : SF_vars(Locking(c)) /\ WF_vars(Working(c))
    /\ \A x \in Controls : SF_vars(Close(x)) /\ WF_vars(Closed(x))
    /\ WF_vars(RetireTry)
    /\ \A s \in SessionIds : WF_vars(VipEmit(s) \/ ReaderStops(s))

Spec     == Init /\ [][Next]_vars
FairSpec == Spec /\ Fairness
-----------------------------------------------------------------------------
(* A node group has one connection: every open session is the installed one, *)
(* or in the hands of the caller that is about to install or to close it.    *)
NoOrphanSession ==
    \A s \in SessionIds : IsOpen(s) =>
        \/ s = session
        \/ \E c \in Callers : pc[c] \in {"install", "close"} /\ call[c].session = s

(* Retirement is final: once retire and the close after it are over, no      *)
(* caller that was already queueing or dialling brings a session back.       *)
RetiredForGood == ctl["retire"].pc = "done" => session = 0

(* Every session the manager opened is accounted for, and none comes after    *)
(* the manager was retired.                                                   *)
SessionsAccounted == NoOrphanSession /\ RetiredForGood

(* A round of session() gives up as unreachable only after every candidate   *)
(* was tried once, wherever the rotation started and whatever list a refresh *)
(* put in place since.                                                       *)
TriesEveryEndpoint ==
    \A c \in Callers : pc[c] = "dial" /\ dial.offset = Len(dial.eps)
                       => dial.tried = ToSet(dial.eps)

(* The promise to a device layer, kept as long as an address changes by      *)
(* reconnecting only: when nobody is just about to report, the address of    *)
(* the live session is the one that its events have led the consumer to.     *)
Quiet == /\ \A c \in Callers : pc[c] # "report"
         /\ \A s \in SessionIds : sess[s].pending = NoVip

ReconnectsAnnounced ==
    updates = 0 /\ Quiet /\ session # 0 /\ IsOpen(session) => told = sess[session].vip

(* A reconnect leaves no candidate out and ends with the new address known.  *)
ReconnectsAreComplete == TriesEveryEndpoint /\ ReconnectsAnnounced

(* What the comment on last_vip says of it: "VIP of the last established     *)
(* connection, kept across reconnects so a change can be reported".  Between *)
(* two connections it must be the address that the consumers believe in.     *)
LastVipKept ==
    /\ Quiet /\ session = 0 /\ last_vip # NoVip
    /\ \A s \in SessionIds : sess[s].status \in {"none", "stopped"}
    => last_vip = told

(* Every authorize_and_send returns: the retries are bounded across both of  *)
(* its phases, and no holder of the lock waits for another.                  *)
EveryCallReturns == \A c \in Callers : pc[c] # "idle" ~> pc[c] = "idle"
=============================================================================
