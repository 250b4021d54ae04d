----------------------------- MODULE TunnelWrite -----------------------------
(* The sending side of a TCP tunnel. The stream below takes any part of a      *)
(* frame at a time, so a frame can stay half written when the caller drops its *)
(* write; later calls meet it. A frame is a sequence of two parts.             *)
EXTENDS Naturals, Sequences, SequencesExt

CONSTANTS Buffers,      \* the buffers the caller wants written, in order
          DirectCalls   \* close() and send_probe() are used after a dropped write

CloseMark == "close"
ProbeMark == "probe"
Frame(x)  == << <<x, 1>>, <<x, 2>> >>

VARIABLES writePending, writeOffset, shut,  \* write_pending, write_offset, closed
          todo,        \* buffers still to be written
          told,        \* buffers the caller was told are written (history)
          wire,        \* parts handed to the stream (history)
          dropped,     \* the caller dropped a write of Head(todo)
          ending       \* "open", "closing", "ok" or "failed": the caller's end

tunnelWriteVars == <<writePending, writeOffset, shut, todo, told, wire, dropped, ending>>

Marks == Range(Buffers) \cup {CloseMark, ProbeMark}

TunnelWriteTypeOK ==
    /\ writePending \in {<<>>} \cup {Frame(x) : x \in Marks} /\ writeOffset \in 0..2
    /\ shut \in BOOLEAN /\ dropped \in BOOLEAN
    /\ \A i \in 1..Len(wire) : wire[i] \in Marks \X {1, 2}
    /\ ending \in {"open", "closing", "ok", "failed"}

TunnelWriteInit ==
    /\ writePending = <<>> /\ writeOffset = 0 /\ shut = FALSE
    /\ todo = Buffers /\ told = <<>> /\ wire = <<>>
    /\ dropped = FALSE /\ ending = "open"

(* the parts of `frame` from `offset` to `upTo` reach the stream *)
Pushed(frame, offset, upTo) == wire' = wire \o SubSeq(frame, offset + 1, upTo)

(* poll_write: a new frame only if none is pending; the result is the length *)
(* of the frame that was completed. On an error the caller gives up.         *)
PollWrite ==
    /\ ending = "open" /\ ~shut /\ ~dropped /\ todo # <<>>
    /\ LET frame  == IF writePending = <<>> THEN Frame(Head(todo)) ELSE writePending
           offset == IF writePending = <<>> THEN 0 ELSE writeOffset
       IN \E upTo \in offset..2 :
            /\ Pushed(frame, offset, upTo)
            /\ IF upTo = 2
                 THEN /\ writePending' = <<>> /\ writeOffset' = 0
                      /\ todo' = Tail(todo) /\ told' = Append(told, Head(todo))
                      /\ ending' = ending
                 ELSE /\ writePending' = frame /\ writeOffset' = upTo
                      /\ ending' \in {"open", "failed"}
                      /\ UNCHANGED <<todo, told>>
    /\ UNCHANGED <<shut, dropped>>

(* the caller drops a pending write *)
DropWrite ==
    /\ ending = "open" /\ writePending # <<>> /\ ~dropped
    /\ dropped' = TRUE
    /\ UNCHANGED <<writePending, writeOffset, shut, todo, told, wire, ending>>

(* The reading side finds the end of the stream: writes fail from now on. *)
PeerClosed ==
    /\ ~shut /\ shut' = TRUE
    /\ UNCHANGED <<writePending, writeOffset, todo, told, wire, dropped, ending>>

ShutdownFrameAnyway == Frame(CloseMark)
(* poll_shutdown: the close frame, unless a frame is pending or closed is set *)
ShutdownFrame ==
    IF ~shut /\ writePending = <<>> THEN Frame(CloseMark) ELSE writePending

ShutdownOffset == IF ~shut /\ writePending = <<>> THEN 0 ELSE writeOffset

PollShutdown ==
    /\ \/ ending = "open" /\ (writePending = <<>> \/ dropped)
       \/ ending = "closing"
    /\ \E upTo \in ShutdownOffset..(IF Len(ShutdownFrame) = 0 THEN ShutdownOffset ELSE 2) :
         /\ Pushed(ShutdownFrame, ShutdownOffset, upTo)
         /\ \/ /\ upTo >= Len(ShutdownFrame)
               /\ writePending' = <<>> /\ shut' = TRUE /\ ending' = "ok"
            \/ /\ upTo < Len(ShutdownFrame)
               /\ writePending' = ShutdownFrame /\ ending' = "closing" /\ UNCHANGED shut
            \/ /\ upTo < Len(ShutdownFrame)
               /\ writePending' = <<>> /\ shut' = TRUE /\ ending' = "failed"
         /\ writeOffset' = upTo
    /\ UNCHANGED <<todo, told, dropped>>

(* these two borrow the tunnel, so no write runs; one may have been dropped *)
Between == writePending = <<>> \/ (DirectCalls /\ dropped)

(* close(): the flag first, then the close frame straight to the stream *)
Close ==
    /\ ending = "open" /\ Between
    /\ IF shut THEN UNCHANGED wire /\ ending' = "ok"
               ELSE \E upTo \in 0..2 : /\ Pushed(Frame(CloseMark), 0, upTo)
                                       /\ ending' = IF upTo = 2 THEN "ok" ELSE "failed"
    /\ shut' = TRUE
    /\ UNCHANGED <<writePending, writeOffset, todo, told, dropped>>

(* send_probe(): an empty data frame straight to the stream *)
SendProbe ==
    /\ ending = "open" /\ Between /\ ~shut
    /\ ~\E i \in 1..Len(wire) : wire[i][1] = ProbeMark   \* bound: one probe
    /\ \E upTo \in 0..2 : /\ Pushed(Frame(ProbeMark), 0, upTo)
                          /\ ending' = IF upTo = 2 THEN "open" ELSE "failed"
    /\ UNCHANGED <<writePending, writeOffset, shut, todo, told, dropped>>

TunnelWriteNext ==
    PollWrite \/ DropWrite \/ PeerClosed \/ PollShutdown \/ Close \/ SendProbe

TunnelWriteSpec == TunnelWriteInit /\ [][TunnelWriteNext]_tunnelWriteVars

----------------------------------------------------------------------------
Whole(i) == wire[i][2] = 2
DataOnWire == SelectSeq([i \in 1..Len(wire) |-> IF Whole(i) THEN wire[i][1] ELSE ProbeMark],
                        LAMBDA x : x \notin {CloseMark, ProbeMark})

(* No short write, pending stream or dropped write lets one frame run into   *)
(* another: the second part of a frame follows its own first part.           *)
FramesNeverInterleave ==
    \A i \in 1..Len(wire) :
      /\ wire[i][2] = 2 => i > 1 /\ wire[i - 1] = <<wire[i][1], 1>>
      /\ wire[i][2] = 1 /\ i < Len(wire) => wire[i + 1] = <<wire[i][1], 2>>

(* Every buffer reported as written is on the wire, once and in order, and   *)
(* nothing but a dropped write's buffer was sent without being reported. A   *)
(* clean shutdown with no dropped write ends with a whole close frame.       *)
WireMatchesCalls ==
    /\ IsPrefix(told, DataOnWire)
    /\ DataOnWire # told => dropped /\ Len(DataOnWire) = Len(told) + 1
    /\ ending = "ok" /\ ~dropped /\ wire # <<>> /\ (\E i \in 1..Len(wire) : wire[i][1] = CloseMark)
         => wire[Len(wire)] = <<CloseMark, 2>>
=============================================================================
