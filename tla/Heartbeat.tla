------------------------------- MODULE Heartbeat -------------------------------
(* The heartbeat task of an L3 session against the bounded write queue, the   *)
(* writer with its deadline, and a gateway that may fall silent, answer late  *)
(* or answer unasked. Time is discrete and passes when no task is due.        *)
EXTENDS Integers, Sequences, SequencesExt, FiniteSets

CONSTANTS Interval,     \* heartbeat_interval
          MissLimit,    \* L3_HEARTBEAT_MISS_LIMIT
          WriteLimit,   \* WRITE_TIMEOUT
          QueueDepth,   \* WRITE_QUEUE_DEPTH
          MaxClock,     \* bound: time
          MaxUnasked,   \* bound: acknowledgements without a request
          MaxData       \* bound: other frames that compete for the writer

ASSUME HeartbeatAssumption ==
    /\ Interval \in Nat \ {0} /\ MissLimit \in Nat \ {0} /\ WriteLimit \in Nat \ {0}
    /\ QueueDepth \in Nat \ {0} /\ MaxClock \in Nat /\ MaxUnasked \in Nat /\ MaxData \in Nat

Never == -1

VARIABLES clock,
          tickAt,      \* when the ticker fires next; the first tick is skipped
          blocked,     \* the task awaits room in the write queue
          outbound,    \* write_rx: "heartbeat" or "data"
          writing,     \* the frame being written, with the time it started
          hbSent, hbAcks, firstWritten, lastAck,
          closeReason, \* "none" while the session is open
          unasked, dataSent

heartbeatVars == <<clock, tickAt, blocked, outbound, writing, hbSent, hbAcks, firstWritten,
                   lastAck, closeReason, unasked, dataSent>>

NotWriting == [frame |-> "none", since |-> Never]
Open == closeReason = "none"

HeartbeatTypeOK ==
    /\ clock \in 0..MaxClock /\ tickAt \in Nat /\ blocked \in BOOLEAN
    /\ outbound \in Seq({"heartbeat", "data"}) /\ Len(outbound) <= QueueDepth
    /\ writing.frame \in {"none", "heartbeat", "data"}
    /\ hbSent \in Nat /\ hbAcks \in Nat /\ unasked \in 0..MaxUnasked
    /\ closeReason \in {"none", "HeartbeatTimeout", "WriteTimeout", "WriteError", "Caller"}

HeartbeatInit ==
    /\ clock = 0 /\ tickAt = Interval /\ blocked = FALSE /\ outbound = <<>>
    /\ writing = NotWriting /\ hbSent = 0 /\ hbAcks = 0
    /\ firstWritten = Never /\ lastAck = Never
    /\ closeReason = "none" /\ unasked = 0 /\ dataSent = 0

Due        == Open /\ ~blocked /\ tickAt <= clock
WriterIdle == writing = NotWriting
Overdue    == Open /\ ~WriterIdle /\ clock - writing.since >= WriteLimit

TimePasses ==
    /\ clock < MaxClock /\ ~Due /\ ~Overdue
    /\ ~(Open /\ WriterIdle /\ outbound # <<>>)
    /\ ~(blocked /\ Len(outbound) < QueueDepth)
    /\ clock' = clock + 1
    /\ UNCHANGED <<tickAt, blocked, outbound, writing, hbSent, hbAcks, firstWritten, lastAck,
                   closeReason, unasked, dataSent>>

Unanswered == IF hbSent > hbAcks THEN hbSent - hbAcks ELSE 0
Since      == IF lastAck # Never THEN lastAck ELSE firstWritten

TimedOutLate ==
    /\ Unanswered > MissLimit /\ firstWritten # Never /\ clock - Since >= Interval * MissLimit
(* the peer left so many requests unanswered and was silent for so long *)
TimedOut ==
    /\ Unanswered >= MissLimit /\ firstWritten # Never /\ clock - Since >= Interval * MissLimit

(* A tick: close, or queue a heartbeat, waiting for room if there is none. *)
Tick ==
    /\ Due /\ tickAt' = tickAt + Interval
    /\ IF TimedOut
         THEN closeReason' = "HeartbeatTimeout" /\ UNCHANGED <<blocked, outbound>>
         ELSE /\ UNCHANGED closeReason
              /\ IF Len(outbound) < QueueDepth
                   THEN outbound' = Append(outbound, "heartbeat") /\ UNCHANGED blocked
                   ELSE blocked' = TRUE /\ UNCHANGED outbound
    /\ UNCHANGED <<clock, writing, hbSent, hbAcks, firstWritten, lastAck, unasked, dataSent>>

(* room in the queue, or the writer has stopped and dropped it *)
Unblock ==
    /\ blocked /\ (Len(outbound) < QueueDepth \/ ~Open)
    /\ blocked' = FALSE
    /\ outbound' = IF Open THEN Append(outbound, "heartbeat") ELSE outbound
    /\ UNCHANGED <<clock, tickAt, writing, hbSent, hbAcks, firstWritten, lastAck, closeReason,
                   unasked, dataSent>>

(* write_frame by some caller *)
QueueData ==
    /\ Open /\ ~blocked /\ dataSent < MaxData /\ Len(outbound) < QueueDepth
    /\ outbound' = Append(outbound, "data") /\ dataSent' = dataSent + 1
    /\ UNCHANGED <<clock, tickAt, blocked, writing, hbSent, hbAcks, firstWritten, lastAck,
                   closeReason, unasked>>

StartWrite ==
    /\ Open /\ WriterIdle /\ outbound # <<>>
    /\ writing' = [frame |-> Head(outbound), since |-> clock]
    /\ outbound' = Tail(outbound)
    /\ UNCHANGED <<clock, tickAt, blocked, hbSent, hbAcks, firstWritten, lastAck, closeReason,
                   unasked, dataSent>>

(* The frame is flushed; a heartbeat is counted, the first one is timed. *)
Flushed ==
    /\ Open /\ ~WriterIdle /\ writing' = NotWriting
    /\ LET beat == writing.frame = "heartbeat"
       IN /\ hbSent' = IF beat THEN hbSent + 1 ELSE hbSent
          /\ firstWritten' = IF beat /\ firstWritten = Never THEN clock ELSE firstWritten
    /\ UNCHANGED <<clock, tickAt, blocked, outbound, hbAcks, lastAck, closeReason, unasked,
                   dataSent>>

(* the write's deadline, an I/O error, or a close from outside *)
Shut(reason) ==
    /\ Open /\ closeReason' = reason
    /\ UNCHANGED <<clock, tickAt, blocked, outbound, writing, hbSent, hbAcks, firstWritten,
                   lastAck, unasked, dataSent>>
WriteTimesOut == Overdue /\ Shut("WriteTimeout")
WriteFails    == ~WriterIdle /\ Shut("WriteError")
CallerCloses  == Shut("Caller")

(* record_heartbeat_ack, for a request or out of the blue *)
Acknowledged ==
    /\ Open
    /\ IF hbSent > hbAcks - unasked THEN UNCHANGED unasked
       ELSE unasked < MaxUnasked /\ unasked' = unasked + 1
    /\ hbAcks' = hbAcks + 1 /\ lastAck' = clock
    /\ UNCHANGED <<clock, tickAt, blocked, outbound, writing, hbSent, firstWritten,
                   closeReason, dataSent>>

HeartbeatNext ==
    \/ TimePasses \/ Tick \/ Unblock \/ QueueData \/ StartWrite \/ Flushed
    \/ WriteTimesOut \/ WriteFails \/ CallerCloses \/ Acknowledged

----------------------------------------------------------------------------
(* A silent peer is found out: an open session has heard from its peer, or   *)
(* begun to ask, within the limit, one interval, and the time the frames     *)
(* ahead of a heartbeat may take. An answer that nobody asked for buys a     *)
(* dead peer at most one interval more; early misses are never forgotten;    *)
(* a queue of stalled writes cannot hide it, for a write has a deadline.     *)
DeadPeerDetected ==
    Open /\ firstWritten # Never =>
        clock - Since <= Interval * (MissLimit + unasked + 1) + WriteLimit * (QueueDepth + 2)
=============================================================================
