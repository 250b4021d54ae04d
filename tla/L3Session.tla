----------------------------- MODULE L3Session -----------------------------
(***************************************************************************)
(* Flow authorization on one L3 connection (crates/atrust-l3/src/          *)
(* session.rs and auth.rs): callers of authorize_flow, the writer, the     *)
(* reader dispatching 0x93 answers and 0x97 VIP updates, the auth retry    *)
(* scheduler and shutdown, interleaved at the granularity of their         *)
(* critical sections (conntrack, waiters and VIP mutex, each on its own).  *)
(*                                                                         *)
(* The conntrack table is FlowTable's: any set of settled flows may be     *)
(* pruned when a flow is claimed (Conntrack says which).  A caller's       *)
(* future may be dropped wherever it awaits: the DNS resolver, the proxies *)
(* and the client put their own deadlines around it.  The gateway may      *)
(* answer any request it has received, late, repeatedly or never.  The     *)
(* connect token of an answer is identified by the auth id it answers.     *)
(***************************************************************************)
EXTENDS Naturals, Sequences, FiniteSets

CONSTANTS Callers, Vips, Dsts, Resources,
          NoEntry, NoCall,
          MaxAuthId,        \* bound on the ids issued
          WriteQueueDepth,  \* WRITE_QUEUE_DEPTH
          RetryQueueDepth,  \* AUTH_RETRY_QUEUE_DEPTH
          RetryBudget       \* max_wire_retries_per_flow; 0 disables retries

VARIABLES vip,           \* current_vip
          close,         \* progress of shutdown: open, closing, cleared, closed
          table,         \* conntrack: flow key -> entry
          next_auth_id,
          outbox,        \* write queue
          sent,          \* auth requests that reached the gateway
          writes,        \* how often the request of an id was written
          jobs,          \* retry queue
          reader,        \* what the reader still has to do for the last frame
          sched,         \* the retry scheduler
          pc, call, rx, ret

tableVars  == <<table, next_auth_id>>
wireVars   == <<outbox, sent, writes>>
callerVars == <<pc, call, rx, ret>>
vars == <<vip, close, table, next_auth_id, outbox, sent, writes, jobs,
          reader, sched, pc, call, rx, ret>>

ASSUME L3SessionAssumption ==
    /\ MaxAuthId \in Nat /\ RetryBudget \in Nat
    /\ WriteQueueDepth \in Nat \ {0} /\ RetryQueueDepth \in Nat

Ids      == 1 .. MaxAuthId
Keys     == [src : Vips, dst : Dsts]
Verdicts == {"ready", "failed"}
Frames   == [id : Ids, key : Keys, resource : Resources]
Entries  == [id : Ids, resource : Resources, outcome : Verdicts \cup {"none"},
             retries : 0 .. RetryBudget, retry_scheduled : BOOLEAN,
             reusable_frame : BOOLEAN]
Calls    == [key : Keys, resource : Resources, id : Ids \cup {0}]

CallerStates == {"idle", "claim", "build", "write", "flush", "wait",
                 "evict", "unregister"}
Results      == {"none", "ok", "denied", "timeout", "closed", "vip_changed", "build_error"}

TypeOK ==
    /\ vip \in Vips
    /\ close \in {"open", "closing", "cleared", "closed"}
    /\ table \in [Keys -> Entries \cup {NoEntry}]
    /\ next_auth_id \in 0 .. MaxAuthId
    /\ outbox \in Seq(Frames) /\ Len(outbox) <= WriteQueueDepth
    /\ sent \subseteq Frames
    /\ writes \in [Ids -> Nat]
    /\ jobs \in Seq(Ids) /\ Len(jobs) <= RetryQueueDepth
    /\ reader \in [pc : {"read", "notify", "enqueue", "clear", "drain"}, id : Ids \cup {0},
                   outcome : Verdicts \cup {"none"}]
    /\ sched \in [pc : {"recv", "sleep", "verdict", "write", "flush"}, id : Ids \cup {0}]
    /\ pc \in [Callers -> CallerStates]
    /\ call \in [Callers -> Calls \cup {NoCall}]
    /\ rx \in [Callers -> Verdicts \cup {"none", "open", "dropped"}]
    /\ ret \in [Callers -> Results]

Reading == [pc |-> "read", id |-> 0, outcome |-> "none"]
Receiving == [pc |-> "recv", id |-> 0]

Init ==
    /\ vip \in Vips
    /\ close = "open"
    /\ table = [k \in Keys |-> NoEntry]
    /\ next_auth_id = 0
    /\ outbox = <<>> /\ sent = {} /\ writes = [i \in Ids |-> 0]
    /\ jobs = <<>>
    /\ reader = Reading
    /\ sched = Receiving
    /\ pc = [c \in Callers |-> "idle"]
    /\ call = [c \in Callers |-> NoCall]
    /\ rx = [c \in Callers |-> "none"]
    /\ ret = [c \in Callers |-> "none"]
-----------------------------------------------------------------------------
(* The table, as its users see it. *)
HoldsId(k, i) == table[k] # NoEntry /\ table[k].id = i
Indexed(i)    == \E k \in Keys : HoldsId(k, i)
KeyOf(i)      == CHOOSE k \in Keys : HoldsId(k, i)
InFlight(k)   == table[k] # NoEntry /\ table[k].outcome = "none"
Settled       == {k \in Keys : table[k] # NoEntry /\ table[k].outcome # "none"}

EvictId(i) == [k \in Keys |-> IF HoldsId(k, i) THEN NoEntry ELSE table[k]]

CompletedAgain(e, o) == [e EXCEPT !.outcome = o, !.retry_scheduled = FALSE,
                                  !.reusable_frame = FALSE]

Completed(e, o) == IF e.outcome # "none" THEN e
                   ELSE [e EXCEPT !.outcome = o, !.retry_scheduled = FALSE,
                                  !.reusable_frame = FALSE]

Complete(i, o) == [table EXCEPT ![KeyOf(i)] = Completed(@, o)]

(* The waiters map owns the sending ends: a caller's receiver is open exactly *)
(* while its sender is registered under its auth id.  Notifying or dropping   *)
(* the senders of an id wakes their callers.  A sender whose caller went away *)
(* has no effect.                                                             *)
Waiters(i) == {c \in Callers : call[c] # NoCall /\ rx[c] = "open" /\ call[c].id = i}

Woken(S, what) == [c \in Callers |-> IF c \in S THEN what ELSE rx[c]]

NotifyOne(i, outcome) ==
    \/ Waiters(i) = {} /\ UNCHANGED rx
    \/ \E c \in Waiters(i) : rx' = Woken({c}, outcome)

Notify(i, outcome) == rx' = Woken(Waiters(i), outcome)

DropWaiters(i) == rx' = Woken(Waiters(i), "dropped")

DrainNothing == UNCHANGED rx

DrainWaiters == rx' = Woken({c \in Callers : rx[c] = "open"}, "dropped")
-----------------------------------------------------------------------------
(* authorize_flow *)

Goto(c, label) == pc' = [pc EXCEPT ![c] = label]

(* A call is over: its result is kept until the caller's next call, and so   *)
(* is what it asked for if it was given a token.                             *)
Return(c, result) == /\ Goto(c, "idle")
                     /\ ret' = [ret EXCEPT ![c] = result]
                     /\ call' = [call EXCEPT ![c] = IF result = "ok" THEN @ ELSE NoCall]

(* The checks before the first lock.  The bound on ids is kept here so that *)
(* a call that starts is never stuck for want of an id.                     *)
Call(c, k, r) ==
    /\ pc[c] = "idle"
    /\ next_auth_id + Cardinality({d \in Callers : pc[d] = "claim"}) < MaxAuthId
    /\ \/ close # "open" /\ Return(c, "closed")
       \/ close = "open" /\ k.src # vip /\ Return(c, "vip_changed")
       \/ /\ close = "open" /\ k.src = vip
          /\ Goto(c, "claim")
          /\ ret' = [ret EXCEPT ![c] = "none"]
          /\ call' = [call EXCEPT ![c] = [key |-> k, resource |-> r, id |-> 0]]
    /\ UNCHANGED <<vip, close, tableVars, wireVars, jobs, reader, sched, rx>>

FreshEntry(r) == [id |-> next_auth_id + 1, resource |-> r, outcome |-> "none",
                  retries |-> 0, retry_scheduled |-> FALSE, reusable_frame |-> FALSE]

(* An existing entry is used only by calls for the resource it was made for. *)
OwnedByAny(k, r) == table[k] # NoEntry

OwnedBy(k, r) == table[k] # NoEntry /\ table[k].resource = r

(* Phase 1, one critical section: prune, retire the attempt of another      *)
(* resource (its waiters hear a failure), then use the cached outcome, join  *)
(* the attempt in flight, or start one.                                      *)
Claim(c) ==
    LET k == call[c].key
        r == call[c].resource
    IN  /\ pc[c] = "claim"
        /\ \E pruned \in SUBSET Settled :
             LET keeps == k \notin pruned /\ OwnedBy(k, r)
                 moved == k \notin pruned /\ table[k] # NoEntry /\ ~OwnedBy(k, r)
                 kept  == [j \in Keys |-> IF j \in pruned THEN NoEntry ELSE table[j]]
             IN  \/ /\ keeps /\ table[k].outcome # "none"
                    /\ table' = kept
                    /\ Goto(c, "idle")
                    /\ \/ /\ table[k].outcome = "ready"
                          /\ call' = [call EXCEPT ![c].id = table[k].id]
                          /\ ret' = [ret EXCEPT ![c] = "ok"]
                       \/ /\ table[k].outcome = "failed"
                          /\ Return(c, "denied")
                    /\ UNCHANGED <<next_auth_id, rx>>
                 \/ /\ keeps /\ table[k].outcome = "none"
                    /\ table' = kept
                    /\ call' = [call EXCEPT ![c].id = table[k].id]
                    /\ rx' = [rx EXCEPT ![c] = "open"]
                    /\ Goto(c, "wait")
                    /\ UNCHANGED <<next_auth_id, ret>>
                 \/ /\ ~keeps
                    /\ next_auth_id' = next_auth_id + 1
                    /\ table' = [kept EXCEPT ![k] = FreshEntry(r)]
                    /\ call' = [call EXCEPT ![c].id = next_auth_id']
                    /\ rx' = [Woken(IF moved THEN Waiters(table[k].id) ELSE {}, "failed")
                                 EXCEPT ![c] = "open"]
                    /\ Goto(c, "build")
                    /\ UNCHANGED ret
        /\ UNCHANGED <<vip, close, wireVars, jobs, reader, sched>>

(* Giving up starts with abandon_flow; the receiver is not looked at again. *)
Abandon(c, result) == /\ Goto(c, "evict")
                      /\ ret' = [ret EXCEPT ![c] = result]
                      /\ rx' = [rx EXCEPT ![c] = "none"]

(* Phase 2: signing may fail; the frame is kept for retries while the       *)
(* attempt still waits.                                                     *)
Build(c) ==
    LET i == call[c].id
    IN  /\ pc[c] = "build"
        /\ \/ Abandon(c, "build_error") /\ UNCHANGED table
           \/ /\ Goto(c, "write")
              /\ table' = [k \in Keys |-> IF HoldsId(k, i) /\ InFlight(k)
                                          THEN [table[k] EXCEPT !.reusable_frame = TRUE]
                                          ELSE table[k]]
              /\ UNCHANGED <<ret, rx>>
        /\ UNCHANGED <<vip, close, next_auth_id, wireVars, jobs, reader, sched, call>>

FrameOf(c) == [id |-> call[c].id, key |-> call[c].key, resource |-> call[c].resource]

(* write_frame: wait for room in the queue, then for the flush. *)
Write(c) ==
    /\ pc[c] = "write"
    /\ \/ /\ close = "open"
          /\ Len(outbox) < WriteQueueDepth
          /\ outbox' = Append(outbox, FrameOf(c))
          /\ Goto(c, "flush")
          /\ UNCHANGED <<ret, rx>>
       \/ close # "open" /\ Abandon(c, "closed") /\ UNCHANGED outbox
    /\ UNCHANGED <<vip, close, tableVars, sent, writes, jobs, reader, sched, call>>

(* The stop signal, or the writer's error, ends the wait for the flush. *)
FlushUninterrupted(c) == pc[c] = "flush" /\ close # "open" /\ FALSE /\ UNCHANGED vars

FlushInterrupted(c) ==
    /\ pc[c] = "flush" /\ close # "open"
    /\ Abandon(c, "closed")
    /\ UNCHANGED <<vip, close, tableVars, wireVars, jobs, reader, sched, call>>

(* The receiver yields an outcome, or the sender is gone. *)
Receive(c) ==
    LET here == call[c].key.src = vip
    IN  /\ pc[c] = "wait"
        /\ \/ rx[c] = "ready"   /\ Return(c, IF here THEN "ok" ELSE "vip_changed")
           \/ rx[c] = "failed"  /\ Return(c, "denied")
           \/ rx[c] = "dropped" /\ Return(c, IF here THEN "closed" ELSE "vip_changed")
        /\ rx' = [rx EXCEPT ![c] = "none"]
        /\ UNCHANGED <<vip, close, tableVars, wireVars, jobs, reader, sched>>

(* The deadline passes; the receiver is polled first, so nothing is in it. *)
Timeout(c) ==
    /\ pc[c] = "wait" /\ rx[c] = "open"
    /\ Abandon(c, "timeout")
    /\ UNCHANGED <<vip, close, tableVars, wireVars, jobs, reader, sched, call>>

(* abandon_flow: the entry under one lock, then the waiters under another. *)
Evict(c) ==
    /\ pc[c] = "evict"
    /\ table' = EvictId(call[c].id)
    /\ Goto(c, "unregister")
    /\ UNCHANGED <<vip, close, next_auth_id, wireVars, jobs, reader, sched, call, rx, ret>>

Unregister(c) ==
    /\ pc[c] = "unregister"
    /\ DropWaiters(call[c].id)
    /\ Return(c, ret[c])
    /\ UNCHANGED <<vip, close, tableVars, wireVars, jobs, reader, sched>>

(* The caller's future is dropped while it awaits.  Nothing is cleaned up:  *)
(* the entry and a queued frame stay behind.                                *)
Cancel(c) ==
    /\ \/ pc[c] \in {"flush", "wait"}
       \/ pc[c] = "write" /\ close = "open"
    /\ Return(c, "none")
    /\ rx' = [rx EXCEPT ![c] = "none"]
    /\ UNCHANGED <<vip, close, tableVars, wireVars, jobs, reader, sched>>
-----------------------------------------------------------------------------
(* The writer task: the frame at the head reaches the gateway and its owner *)
(* is told, unless the write fails or times out and closes the session.     *)
Flush ==
    /\ outbox # <<>>
    /\ close \in {"open", "closing"}
    /\ LET f == Head(outbox)
       IN  /\ outbox' = Tail(outbox)
           /\ sent' = sent \cup {f}
           /\ writes' = [writes EXCEPT ![f.id] = @ + 1]
           /\ IF sched = [pc |-> "flush", id |-> f.id]
              THEN sched' = Receiving /\ UNCHANGED pc
              ELSE /\ UNCHANGED sched
                   /\ pc' = [c \in Callers |-> IF pc[c] = "flush" /\ call[c].id = f.id
                                               THEN "wait" ELSE pc[c]]
    /\ UNCHANGED <<vip, close, tableVars, jobs, reader, call, rx, ret>>

(* shutdown, first caller wins: a read, write, heartbeat or framing failure, *)
(* the peer's EOF, a close request or the drop of the session.               *)
Shutdown ==
    /\ close = "open"
    /\ close' = "closing"
    /\ UNCHANGED <<vip, tableVars, wireVars, jobs, reader, sched, callerVars>>

ShutdownClear ==
    /\ close = "closing"
    /\ close' = "cleared"
    /\ table' = [k \in Keys |-> NoEntry]
    /\ UNCHANGED <<vip, next_auth_id, wireVars, jobs, reader, sched, callerVars>>

ShutdownDrain ==
    /\ close = "cleared"
    /\ close' = "closed"
    /\ DrainWaiters
    /\ outbox' = <<>> /\ jobs' = <<>>
    /\ UNCHANGED <<vip, tableVars, sent, writes, reader, sched, pc, call, ret>>
-----------------------------------------------------------------------------
(* The reader: dispatch of the frames that matter to authorization.  It     *)
(* runs until it notices the stop signal.                                   *)
ReaderAt(label) == reader.pc = label

Listening == ReaderAt("read") /\ close # "closed"

ReaderUnchanged == UNCHANGED <<vip, close, wireVars, sched, pc, call, ret>>

(* 0x93 with a verdict: the outcome is recorded under the table lock and     *)
(* announced after it.  A transient status is a verdict when retries are off. *)
AuthVerdict(f, o) ==
    /\ Listening /\ f \in sent
    /\ Indexed(f.id)
    /\ table' = Complete(f.id, o)
    /\ reader' = [pc |-> "notify", id |-> f.id, outcome |-> table'[KeyOf(f.id)].outcome]
    /\ UNCHANGED <<next_auth_id, jobs, rx>>
    /\ ReaderUnchanged

ReaderNotify ==
    /\ ReaderAt("notify")
    /\ Notify(reader.id, reader.outcome)
    /\ reader' = Reading
    /\ UNCHANGED <<tableVars, jobs>>
    /\ ReaderUnchanged

RetryExhaustedOffByOne(e) == e.retries > RetryBudget

RetryExhausted(e) == e.retries >= RetryBudget

(* 0x93 with a transient status: schedule a retry of the same request, or   *)
(* fail the flow when its budget is spent.                                  *)
AuthTransient(f) ==
    /\ Listening /\ f \in sent /\ RetryBudget > 0
    /\ Indexed(f.id)
    /\ LET k == KeyOf(f.id)
           e == table[k]
       IN  /\ e.outcome = "none" /\ ~e.retry_scheduled
           /\ \/ /\ RetryExhausted(e)
                 /\ table' = Complete(f.id, "failed")
                 /\ reader' = [pc |-> "notify", id |-> f.id, outcome |-> "failed"]
              \/ /\ ~RetryExhausted(e) /\ e.reusable_frame
                 /\ table' = [table EXCEPT ![k].retries = @ + 1, ![k].retry_scheduled = TRUE]
                 /\ reader' = [pc |-> "enqueue", id |-> f.id, outcome |-> "none"]
    /\ UNCHANGED <<next_auth_id, jobs, rx>>
    /\ ReaderUnchanged

ReaderEnqueue ==
    /\ ReaderAt("enqueue")
    /\ \/ /\ Len(jobs) < RetryQueueDepth /\ close # "closed"
          /\ jobs' = Append(jobs, reader.id)
          /\ reader' = Reading
          /\ UNCHANGED table
       \/ /\ Len(jobs) = RetryQueueDepth \/ close = "closed"
          /\ IF Indexed(reader.id)
             THEN /\ table' = Complete(reader.id, "failed")
                  /\ reader' = [pc |-> "notify", id |-> reader.id,
                                outcome |-> table'[KeyOf(reader.id)].outcome]
             ELSE UNCHANGED table /\ reader' = Reading
          /\ UNCHANGED jobs
    /\ UNCHANGED <<next_auth_id, rx>>
    /\ ReaderUnchanged

(* 0x97: the address first, then the table, then the waiters. *)
VipUpdate(v) ==
    /\ Listening /\ v # vip
    /\ vip' = v
    /\ reader' = [pc |-> "clear", id |-> 0, outcome |-> "none"]
    /\ UNCHANGED <<close, tableVars, wireVars, jobs, sched, callerVars>>

VipClear ==
    /\ ReaderAt("clear")
    /\ table' = [k \in Keys |-> NoEntry]
    /\ reader' = [reader EXCEPT !.pc = "drain"]
    /\ UNCHANGED <<next_auth_id, jobs, rx>>
    /\ ReaderUnchanged

VipDrain ==
    /\ ReaderAt("drain")
    /\ DrainWaiters
    /\ reader' = Reading
    /\ UNCHANGED <<tableVars, jobs>>
    /\ ReaderUnchanged
-----------------------------------------------------------------------------
(* The retry scheduler: one job at a time. *)
SchedAt(label) == sched.pc = label

SchedUnchanged == UNCHANGED <<vip, next_auth_id, sent, writes, reader, pc, call, ret>>

TakeJob ==
    /\ SchedAt("recv") /\ close # "closed" /\ jobs # <<>>
    /\ jobs' = Tail(jobs)
    /\ sched' = [pc |-> "sleep", id |-> Head(jobs)]
    /\ UNCHANGED <<close, table, outbox, rx>>
    /\ SchedUnchanged

(* After the delay.  An entry that is gone cancels the job; one past its    *)
(* deadline fails; otherwise the retained frame is due.                     *)
Fire ==
    /\ SchedAt("sleep")
    /\ LET i == sched.id
           k == KeyOf(i)
       IN  \/ /\ ~Indexed(i)
              /\ sched' = Receiving /\ UNCHANGED table
           \/ /\ Indexed(i)
              /\ table' = Complete(i, "failed")
              /\ sched' = [pc |-> "verdict", id |-> i]
           \/ /\ Indexed(i) /\ table[k].outcome = "none" /\ table[k].retry_scheduled
              /\ table' = [table EXCEPT ![k].retry_scheduled = FALSE]
              /\ sched' = [pc |-> IF table[k].reusable_frame THEN "write" ELSE "verdict",
                           id |-> i]
           \/ /\ Indexed(i) /\ ~(table[k].outcome = "none" /\ table[k].retry_scheduled)
              /\ sched' = [pc |-> "verdict", id |-> i] /\ UNCHANGED table
    /\ UNCHANGED <<close, outbox, jobs, rx>>
    /\ SchedUnchanged

SchedVerdict ==
    /\ SchedAt("verdict")
    /\ IF Indexed(sched.id) /\ table[KeyOf(sched.id)].outcome # "none"
       THEN Notify(sched.id, table[KeyOf(sched.id)].outcome)
       ELSE UNCHANGED <<rx>>
    /\ sched' = Receiving
    /\ UNCHANGED <<close, table, outbox, jobs>>
    /\ SchedUnchanged

(* The retained bytes are those of the request that was sent before. *)
SchedWrite ==
    /\ SchedAt("write") /\ close = "open"
    /\ Len(outbox) < WriteQueueDepth
    /\ outbox' = Append(outbox, CHOOSE f \in sent : f.id = sched.id)
    /\ sched' = [sched EXCEPT !.pc = "flush"]
    /\ UNCHANGED <<close, table, jobs, rx>>
    /\ SchedUnchanged

(* The stop signal, or the writer's end, ends the scheduler. *)
SchedStop ==
    /\ sched.pc \in {"sleep", "write", "flush"} /\ close # "open"
    /\ sched' = Receiving
    /\ UNCHANGED <<close, table, outbox, jobs, rx>>
    /\ SchedUnchanged
-----------------------------------------------------------------------------
CallerStep(c) == \/ Claim(c) \/ Build(c) \/ Write(c) \/ FlushInterrupted(c)
                 \/ Receive(c) \/ Evict(c) \/ Unregister(c)

ReaderStep == ReaderNotify \/ ReaderEnqueue \/ VipClear \/ VipDrain

SchedStep == TakeJob \/ Fire \/ SchedVerdict \/ SchedWrite \/ SchedStop

ShutdownStep == ShutdownClear \/ ShutdownDrain

Next ==
    \/ \E c \in Callers, k \in Keys, r \in Resources : Call(c, k, r)
    \/ \E c \in Callers : CallerStep(c) \/ Timeout(c) \/ Cancel(c)
    \/ Flush
    \/ Shutdown
    \/ ShutdownStep
    \/ \E f \in Frames, o \in Verdicts : AuthVerdict(f, o)
    \/ \E f \in Frames : AuthTransient(f)
    \/ \E v \in Vips : VipUpdate(v)
    \/ ReaderStep
    \/ SchedStep

(* Every task that can run is run: the callers' synchronous code, the        *)
(* writer (a frame is flushed, or the write deadline closes the session),    *)
(* the rest of a dispatch or of a shutdown, the scheduler.  Nothing is       *)
(* assumed of the gateway, of new calls, or of deadlines.                    *)
Fairness ==
    /\ \A c \in Callers : WF_vars(CallerStep(c))
    /\ WF_vars(Flush \/ (outbox # <<>> /\ Shutdown))
    /\ WF_vars(ReaderStep)
    /\ WF_vars(SchedStep)
    /\ WF_vars(ShutdownStep)

Deadlines == \A c \in Callers : WF_vars(Timeout(c))

Spec     == Init /\ [][Next]_vars
FairSpec == Spec /\ Fairness

DeadlineSpec == FairSpec /\ Deadlines
-----------------------------------------------------------------------------
Busy(c) == pc[c] # "idle"

(* A caller that was given a token was given the token of a request for its  *)
(* own flow and resource, whatever was cached, joined, retried, replaced or  *)
(* answered late in between.                                                 *)
TokenMatchesFlow ==
    \A c \in Callers : ret[c] = "ok" =>
        /\ \E f \in sent : f.id = call[c].id
        /\ \A f \in sent : f.id = call[c].id => f = FrameOf(c)

(* Concurrent callers of one flow share one request on the wire: an id is    *)
(* written once, plus its retries.                                           *)
OneRequestPerAttempt == \A i \in Ids : writes[i] <= 1 + RetryBudget

(* Nobody waits in vain for a verdict that is already in: a settled attempt  *)
(* with registered waiters is one that the reader or the scheduler is just   *)
(* announcing.                                                               *)
VerdictIsAnnounced ==
    \A k \in Settled : Waiters(table[k].id) # {} =>
        \/ reader.pc = "notify" /\ reader.id = table[k].id
        \/ sched.pc = "verdict" /\ sched.id = table[k].id

(* Callers of one flow share the request and its answer: no second request,   *)
(* and no verdict that a registered waiter misses.                            *)
AttemptsAreShared == OneRequestPerAttempt /\ VerdictIsAnnounced

(* The session drives its table through legal FlowTable steps only. *)
Promise == INSTANCE FlowTable WITH table <-
    [k \in Keys |-> IF table[k] = NoEntry THEN NoEntry
                    ELSE [id |-> table[k].id, resource |-> table[k].resource,
                          outcome |-> table[k].outcome]]

ImplementsFlowTable == Promise!TableSpec

(* shutdown wakes every waiter, so that no caller blocks for the full auth   *)
(* timeout on a connection already gone: no deadline is needed.              *)
CloseWakesCallers ==
    \A c \in Callers : (close # "open" /\ Busy(c)) ~> ~Busy(c)

(* With the deadline of authorize_flow every call returns, whatever the      *)
(* gateway does.                                                             *)
EveryCallReturns ==
    Deadlines => \A c \in Callers : Busy(c) ~> ~Busy(c)

(* No caller blocks for ever, with a deadline or with the connection gone. *)
CallersAreReleased == CloseWakesCallers /\ EveryCallReturns

(* What conntrack.rs says of the entries that pruning spares: "An in-flight  *)
(* auth clears itself within the 8s timeout".  The deadline belongs to the   *)
(* caller, and a caller that is dropped takes it along.                      *)
InFlightClears == \A k \in Keys : InFlight(k) ~> ~InFlight(k)

(* What the error's text says: a caller that is told "L3 session is closed"   *)
(* was on a session that is closed.                                          *)
ClosedMeansClosed ==
    \A c \in Callers : pc[c] = "idle" /\ ret[c] = "closed" => close # "open"
=============================================================================
