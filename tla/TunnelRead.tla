----------------------------- MODULE TunnelRead -----------------------------
(* The receiving side of a TCP tunnel: the handshake's replies, then framed    *)
(* data, from a byte stream that arrives in pieces of any size and may be cut  *)
(* anywhere. Bytes are numbers; `closed` is shared with the sending side.      *)
EXTENDS Naturals, Sequences, SequencesExt

CONSTANTS Preludes,     \* byte sequences a node may start with
          FrameLists,   \* sequences of encoded frames sent after the handshake
          OkBodies,     \* status bodies that is_status_ok accepts
          MaxSkipped,   \* MAX_SKIPPED_CHATTER_BYTES
          ReadSize      \* room in the reader's buffer

VARIABLES sent,     \* [prelude, frames] the node sends
          ahead,    \* bytes not yet arrived
          socket,   \* bytes arrived and not yet read
          ended,    \* the peer's stream ends after `socket`
          phase,    \* "address", "status", "data", or how the tunnel ended
          readBuf,
          appPending,
          closedFlag,
          api,      \* the reader uses poll_read ("poll") or read_app ("app")
          out,      \* application bytes handed out (history)
          ownClose, \* this side shut the tunnel down (history)
          came      \* bytes that arrived after the prelude (history)

tunnelReadVars == <<sent, ahead, socket, ended, phase, readBuf, appPending, closedFlag,
                    api, out, ownClose, came>>

Bytes == Seq(0..255)

TunnelReadTypeOK ==
    /\ {ahead, socket, readBuf, appPending, out} \subseteq Bytes
    /\ phase \in {"off", "address", "status", "data", "eof", "error", "failed"}
    /\ {ended, closedFlag, ownClose} \subseteq BOOLEAN
    /\ api \in {"poll", "app"} /\ came \in Nat

TunnelReadInit ==
    /\ sent = [prelude |-> <<>>, frames |-> <<>>]
    /\ ahead = <<>> /\ socket = <<>> /\ ended = FALSE /\ phase = "off"
    /\ readBuf = <<>> /\ appPending = <<>> /\ closedFlag = FALSE
    /\ api = "poll" /\ out = <<>> /\ ownClose = FALSE /\ came = 0

Take(s, n) == SubSeq(s, 1, n)
Rest(s, n) == SubSeq(s, n + 1, Len(s))
U16(s, i) == s[i] * 256 + s[i + 1]

----------------------------------------------------------------------------
(* init and target frames are sent, the node starts to answer (from_stream   *)
(* later gives the tunnel empty buffers)                                     *)
Connect ==
    /\ phase = "off" /\ phase' = "address"
    /\ sent' \in [prelude : Preludes, frames : FrameLists]
    /\ ahead' = sent'.prelude \o FlattenSeq(sent'.frames)
    /\ api' \in {"poll", "app"}
    /\ UNCHANGED <<socket, ended, readBuf, appPending, closedFlag, out, ownClose, came>>

(* The network delivers the next piece, or the stream ends. *)
Arrive ==
    /\ ~ended /\ ahead # <<>>
    /\ \E n \in 1..Len(ahead) :
         /\ socket' = socket \o Take(ahead, n)
         /\ ahead' = Rest(ahead, n)
         /\ came' = came + n
    /\ UNCHANGED <<sent, ended, phase, readBuf, appPending, closedFlag, api, out, ownClose>>

StreamEnds ==
    /\ phase # "off" /\ ~ended /\ ended' = TRUE
    /\ UNCHANGED <<sent, ahead, socket, phase, readBuf, appPending, closedFlag, api, out,
                   ownClose, came>>

(* Handshake: read_exact takes the bytes it needs and no more. *)
(* wait_for_address_ok: bytes it consumes and what it finds; 0 while it waits *)
NestedBody(body) ==
    IF Len(body) >= 4 /\ body[1] = 83 /\ body[2] = 0 /\ Len(body) >= 4 + U16(body, 3)
      THEN SubSeq(body, 5, 4 + U16(body, 3)) ELSE body
AddressReply ==
    CASE Len(socket) < 2 -> [used |-> 0, next |-> "address"]
      [] Take(socket, 2) = <<5, 129>> -> [used |-> 2, next |-> "address"]
      [] Len(socket) >= 2 /\ Take(socket, 2) \notin {<<5, 129>>, <<83, 0>>} -> [used |-> 2, next |-> "failed"]
      [] Take(socket, 2) = <<83, 0>> /\ (Len(socket) < 4 \/ Len(socket) < 4 + U16(socket, 3)) ->
           [used |-> 0, next |-> "address"]
      [] OTHER ->
           [used |-> 4 + U16(socket, 3),
            next |-> IF NestedBody(SubSeq(socket, 5, 4 + U16(socket, 3))) \in OkBodies
                       THEN "status" ELSE "failed"]

WaitForAddressOk ==
    /\ phase = "address"
    /\ \/ /\ AddressReply.used > 0
          /\ socket' = Rest(socket, AddressReply.used)
          /\ phase' = AddressReply.next
       \/ /\ AddressReply.used = 0 /\ ended
          /\ phase' = "failed" /\ UNCHANGED socket
    /\ UNCHANGED <<sent, ahead, ended, readBuf, appPending, closedFlag, api, out, ownClose, came>>

WaitForConnectStatusTakingAll ==
    /\ phase = "status" /\ Len(socket) >= 2
    /\ socket' = <<>>
    /\ phase' = IF Take(socket, 2) = <<5, 0>> THEN "data" ELSE "failed"
    /\ UNCHANGED <<sent, ahead, ended, readBuf, appPending, closedFlag, api, out, ownClose, came>>

(* wait_for_connect_status: 05 00, exactly two bytes *)
WaitForConnectStatus ==
    /\ phase = "status"
    /\ \/ /\ Len(socket) >= 2
          /\ socket' = Rest(socket, 2)
          /\ phase' = IF Take(socket, 2) = <<5, 0>> THEN "data" ELSE "failed"
       \/ /\ Len(socket) < 2 /\ ended
          /\ phase' = "failed" /\ UNCHANGED socket
    /\ UNCHANGED <<sent, ahead, ended, readBuf, appPending, closedFlag, api, out, ownClose, came>>

----------------------------------------------------------------------------
(* try_decode_app on a buffer of which `skip` bytes are unknown headers:     *)
(* the kind of result, the payload, and the buffer that is left.             *)
Result(kind, payload, left) == [kind |-> kind, payload |-> payload, left |-> left]

RECURSIVE DecodeFrom(_, _)
DecodeFrom(buf, skip) ==
    LET b    == Rest(buf, skip)
        head == Take(b, 2)
        more == Result("more", <<>>, buf)
    IN IF Len(b) < 2 THEN more
       ELSE IF head = <<1, 0>>
         THEN IF Len(b) < 4 \/ Len(b) < 4 + U16(b, 3) THEN more
              ELSE Result("app", SubSeq(b, 5, 4 + U16(b, 3)), Rest(b, 4 + U16(b, 3)))
       ELSE IF head = <<1, 1>>
         THEN IF Len(b) < 4 THEN more
              ELSE IF SubSeq(b, 3, 4) = <<48, 48>> THEN Result("closed", <<>>, Rest(b, 4))
              ELSE DecodeFrom(Rest(b, 4), 0)
       ELSE IF head = <<5, 129>> THEN DecodeFrom(Rest(b, 2), 0)
       ELSE IF head = <<83, 0>>
         THEN IF Len(b) < 4 \/ Len(b) < 4 + U16(b, 3) THEN more
              ELSE IF SubSeq(b, 5, 4 + U16(b, 3)) \in OkBodies
                THEN DecodeFrom(Rest(b, 4 + U16(b, 3)), 0)
                ELSE Result("error", <<>>, Rest(b, 4 + U16(b, 3)))
       ELSE IF skip + 2 > MaxSkipped THEN Result("error", <<>>, buf)
       ELSE DecodeFrom(buf, skip + 2)


(* the loops of poll_read and read_app pass over empty frames (probes) *)
RECURSIVE Decode(_)
Decode(buf) == LET r == DecodeFrom(buf, 0)
               IN IF r.kind = "app" /\ r.payload = <<>> THEN Decode(r.left) ELSE r

(* What a read decodes: first from the buffer, then with what the socket has *)
(* (a stream that has nothing and is not ended leaves the read pending).     *)
Decoded ==
    LET r == Decode(readBuf)
    IN IF r.kind # "more" \/ socket = <<>> THEN r ELSE Decode(r.left \o socket)

TookSocket == Decode(readBuf).kind = "more" /\ socket # <<>>

Room(n) == IF api = "poll" /\ ReadSize < n THEN ReadSize ELSE n

(* poll_read serves what an earlier frame left over, even once closed. *)
ReadPending ==
    /\ phase = "data" /\ appPending # <<>>
    /\ out' = out \o Take(appPending, Room(Len(appPending)))
    /\ appPending' = Rest(appPending, Room(Len(appPending)))
    /\ UNCHANGED <<sent, ahead, socket, ended, phase, readBuf, closedFlag, api, ownClose, came>>

ReadFrame ==
    /\ phase = "data" /\ appPending = <<>> /\ ~closedFlag
    /\ LET r == Decoded
       IN /\ r.kind # "more" \/ ended \/ TookSocket
          /\ readBuf' = r.left
          /\ socket' = IF TookSocket THEN <<>> ELSE socket
          /\ out' = out \o Take(r.payload, Room(Len(r.payload)))
          /\ appPending' = Rest(r.payload, Room(Len(r.payload)))
          /\ closedFlag' = (r.kind = "closed" \/ (r.kind = "more" /\ ended))
          /\ phase' = CASE r.kind = "error" -> "error"
                        [] r.kind = "closed" \/ (r.kind = "more" /\ ended) -> "eof"
                        [] OTHER -> "data"
    /\ UNCHANGED <<sent, ahead, ended, api, ownClose, came>>

(* a read after this side closed the tunnel: end of file at once *)
ReadClosed ==
    /\ phase = "data" /\ appPending = <<>> /\ closedFlag
    /\ phase' = "eof"
    /\ UNCHANGED <<sent, ahead, socket, ended, readBuf, appPending, closedFlag, api, out,
                   ownClose, came>>

(* close or poll_shutdown on the sending side *)
OwnClose ==
    /\ phase = "data" /\ ~closedFlag
    /\ closedFlag' = TRUE /\ ownClose' = TRUE
    /\ UNCHANGED <<sent, ahead, socket, ended, phase, readBuf, appPending, api, out, came>>

TunnelReadNext ==
    \/ Connect \/ Arrive \/ StreamEnds \/ WaitForAddressOk \/ WaitForConnectStatus
    \/ ReadPending \/ ReadFrame \/ ReadClosed \/ OwnClose

----------------------------------------------------------------------------
(* The reference: from the frames as they were sent, not from bytes. *)
Ends(f)  == Take(f, 2) = <<1, 1>> /\ SubSeq(f, 3, 4) = <<48, 48>>
Breaks(f) == Take(f, 2) = <<83, 0>> /\ Rest(f, 4) \notin OkBodies
Unknown(f) == Take(f, 2) \notin {<<1, 0>>, <<1, 1>>, <<5, 129>>, <<83, 0>>}
TooMuch(i) == \E k \in 1..i : /\ 2 * (i - k + 1) > MaxSkipped
                              /\ \A j \in k..i : Unknown(sent.frames[j])

(* the frames that arrived whole, up to the first that ends the stream *)
Arrived(i) == Len(sent.prelude) + Len(FlattenSeq(SubSeq(sent.frames, 1, i))) <= came
Readable == {i \in 1..Len(sent.frames) :
               /\ Arrived(i)
               /\ \A j \in 1..i : ~Ends(sent.frames[j]) /\ ~Breaks(sent.frames[j]) /\ ~TooMuch(j)}
Payload(i) == IF Take(sent.frames[i], 2) = <<1, 0>> THEN Rest(sent.frames[i], 4) ELSE <<>>
Promised == FlattenSeq([i \in 1..Len(sent.frames) |-> IF i \in Readable THEN Payload(i) ELSE <<>>])

(* However the stream is cut into pieces, the reader gets the payloads of    *)
(* the frames that were sent, in order, nothing else; and when it sees the   *)
(* end of the stream without having closed the tunnel itself, every frame    *)
(* that arrived whole before the end was handed out.                         *)
ReadsWhatWasSent ==
    /\ IsPrefix(out, Promised)
    /\ phase = "eof" /\ ~ownClose => out = Promised
=============================================================================
