------------------------------- MODULE L3Stream -------------------------------
(* The byte stream of an L3 connection as the client reads it: the Get-IP      *)
(* exchange (request_ipv4), then the session's frames (next_frame, read_loop)  *)
(* with the two layouts of the data frame 0x94 (decode_l3_data_resp_body).     *)
(* Bytes arrive in any pieces.                                                 *)
EXTENDS Naturals, Sequences, SequencesExt

CONSTANTS L3Streams,   \* sequence of streams; a stream is a sequence of frames,
                       \* a frame [kind, bytes, parts], parts the packets in it
          Pieces,      \* how many bytes may arrive at once
          MaxStatus,   \* MAX_RESPONSE_FRAMES
          MaxBuffered, \* MAX_PENDING_READ
          LargeLength  \* 4096: up to it, a length is taken for one

Word(a, b) == 256 * a + b
High(n) == n \div 256
Low(n)  == n % 256
Nibble(b) == b \div 16

(* the encoders: what a well-behaved gateway sends *)
EncodeDataResp(packet) == <<5, 148, High(Len(packet)), Low(Len(packet))>> \o packet
EncodeTokenBody(token, packets) ==
    <<Len(token)>> \o token \o <<0, 0, Len(packets)>>
    \o FlattenSeq([i \in DOMAIN packets |->
                     <<High(Len(packets[i])), Low(Len(packets[i]))>> \o packets[i]])

VARIABLES stream,    \* index of the stream, 0 before the connection
          content,   \* its bytes
          arrived,   \* bytes of it that arrived
          consumed,  \* bytes of it that were decoded
          peerGone,  \* the gateway closed its side
          stage,     \* "getip", "session", or why the reading ended
          statuses,  \* frames of the Get-IP exchange so far
          got        \* what was dispatched: [kind, parts]

l3StreamVars == <<stream, content, arrived, consumed, peerGone, stage, statuses, got>>

Byte(i)   == content[consumed + i]
Buffered  == arrived - consumed
More      == [st |-> "more"]
Bad       == [st |-> "bad"]
Item(kind, n, parts) == [st |-> "frame", kind |-> kind, n |-> n, parts |-> parts]
Part(from, n) == SubSeq(content, consumed + from, consumed + from + n - 1)
Unless(n, item) == IF Buffered < n THEN More ELSE item

L3StreamTypeOK ==
    /\ stream \in 0..Len(L3Streams) /\ consumed <= arrived
    /\ stage \in {"getip", "session", "FramingError", "PeerEof", "InboundBufferLimit", "NoAddress"}

L3StreamInit ==
    /\ stream = 0 /\ content = <<>> /\ arrived = 0 /\ consumed = 0 /\ peerGone = FALSE
    /\ stage = "getip" /\ statuses = 0 /\ got = <<>>

OpenStream ==
    /\ stream = 0 /\ stream' \in DOMAIN L3Streams
    /\ content' = FlattenSeq([i \in DOMAIN L3Streams[stream'] |-> L3Streams[stream'][i].bytes])
    /\ UNCHANGED <<arrived, consumed, peerGone, stage, statuses, got>>

BytesArrive ==
    /\ stream # 0 /\ ~peerGone /\ \E n \in Pieces :
         arrived' = IF arrived + n < Len(content) THEN arrived + n ELSE Len(content)
    /\ arrived' # arrived
    /\ UNCHANGED <<stream, content, consumed, peerGone, stage, statuses, got>>

PeerCloses ==
    /\ stream # 0 /\ ~peerGone /\ peerGone' = TRUE
    /\ UNCHANGED <<stream, content, arrived, consumed, stage, statuses, got>>

----------------------------------------------------------------------------
(* Get-IP: method acknowledgement, status envelopes, the address *)

VipPayloadFour(type) == 4
VipPayload(type) == CASE type = 1 -> 6 [] type = 4 -> 18 [] type = 5 -> 22 [] OTHER -> 4

GetIpFrame ==
    CASE Buffered < 2 -> More
      [] Byte(1) = 5 /\ Byte(2) = 208 -> Item("method", 2, <<>>)
      [] Byte(1) = 83 /\ Byte(2) # 0 -> Bad
      [] Byte(1) = 83 -> IF Buffered < 4 THEN More
                         ELSE LET n == 4 + Word(Byte(3), Byte(4)) IN Unless(n, Item("status", n, <<>>))
      [] Byte(1) = 5 /\ Byte(2) = 0 ->
           IF Buffered < 4 THEN More
           ELSE IF Byte(3) # 0 THEN Bad
           ELSE LET n == 4 + VipPayload(Byte(4))
                IN IF Buffered < n THEN More
                   ELSE IF Byte(4) \in {1, 5} THEN Item("vip", n, <<Part(5, 4)>>) ELSE Bad
      [] OTHER -> Bad

GetIp ==
    /\ stage = "getip" /\ stream # 0
    /\ LET f == GetIpFrame
       IN \/ /\ f.st = "frame"
             /\ consumed' = consumed + f.n /\ statuses' = statuses + 1
             /\ stage' = IF f.kind = "vip" THEN "session"
                         ELSE IF statuses + 1 = MaxStatus THEN "NoAddress" ELSE stage
             /\ got' = IF f.kind = "vip" THEN <<[kind |-> "vip", parts |-> f.parts]>> ELSE got
          \/ /\ f = Bad \/ (f = More /\ peerGone)
             /\ stage' = "NoAddress" /\ UNCHANGED <<consumed, statuses, got>>
    /\ UNCHANGED <<stream, content, arrived, peerGone>>

----------------------------------------------------------------------------
(* the session: next_frame on the buffered bytes *)

LengthPrefixed(kind) ==
    IF Buffered < 4 THEN More
    ELSE LET n == 4 + Word(Byte(3), Byte(4)) IN Unless(n, Item(kind, n, <<Part(5, n - 4)>>))

StatusAndJson(kind) ==
    IF Buffered < 5 THEN More
    ELSE LET n == 5 + Word(Byte(4), Byte(5))
         IN Unless(n, Item(kind, n, << <<Byte(3)>> \o Part(6, n - 5) >>))

(* large_length_prefixed_packet, above the limit: an IP packet whose         *)
(* own length is the one announced (body[k] is Byte(k + 3))                  *)
LargePacket(n) ==
    CASE Buffered < 5 -> "more"
      [] Nibble(Byte(5)) = 4 /\ n >= 20 ->
           IF Buffered < 8 THEN "more"
           ELSE IF LET ihl == 4 * (Byte(5) % 16)
                   IN ihl >= 20 /\ ihl <= n /\ Word(Byte(7), Byte(8)) = n
                THEN "valid" ELSE "token"
      [] Nibble(Byte(5)) = 6 /\ n >= 40 ->
           IF Buffered < 10 THEN "more"
           ELSE IF Word(Byte(9), Byte(10)) + 40 = n THEN "valid" ELSE "token"
      [] OTHER -> "token"

LayoutByLength(n) == IF n > 0 /\ n <= LargeLength THEN "valid" ELSE "token"
(* classify_data_resp_prefix and the check of larger lengths *)
Layout(n) ==
    IF n > 0 /\ n <= LargeLength THEN "valid" ELSE IF n > LargeLength THEN LargePacket(n) ELSE "token"

(* token_body_len, parse_l3_token_data_body: packet k of the body starts at *)
(* Starts(k), or nothing does as long as bytes are missing                  *)
TokenFramed ==
    IF Buffered < 3 \/ Buffered < 6 + Byte(3) THEN More
    ELSE LET first == 7 + Byte(3)
             count == Byte(6 + Byte(3))
             starts[k \in 1..(count + 1)] ==
                 IF k = 1 THEN first
                 ELSE IF starts[k - 1] = 0 \/ Buffered < starts[k - 1] + 1 THEN 0
                 ELSE LET next == starts[k - 1] + 2
                                  + Word(Byte(starts[k - 1]), Byte(starts[k - 1] + 1))
                      IN IF Buffered < next - 1 THEN 0 ELSE next
         IN IF starts[count + 1] = 0 THEN More
            ELSE Item("data", starts[count + 1] - 1,
                      [k \in 1..count |-> Part(starts[k] + 2, starts[k + 1] - starts[k] - 2)])

DataResp ==
    IF Buffered < 4 THEN More
    ELSE LET n == Word(Byte(3), Byte(4)) layout == Layout(n)
         IN CASE layout = "more"  -> More
              [] layout = "valid" -> Unless(4 + n, Item("data", 4 + n, <<Part(5, n)>>))
              [] layout = "token" -> TokenFramed

NextFrame ==
    CASE Buffered < 2 -> More
      [] Byte(1) = 83 -> IF Byte(2) # 0 THEN Bad ELSE LengthPrefixed("protocol")
      [] Byte(1) # 5 -> Bad
      [] Byte(2) = 147 -> StatusAndJson("auth")
      [] Byte(2) = 150 -> StatusAndJson("second_vip")
      [] Byte(2) = 151 -> StatusAndJson("vip_update")
      [] Byte(2) = 149 -> LengthPrefixed("heartbeat")
      [] Byte(2) = 148 -> DataResp
      [] OTHER -> LengthPrefixed("ignored")

(* read_loop: dispatch every complete frame; then the limit, then a read *)
ReadLoop ==
    /\ stage = "session"
    /\ LET f == NextFrame
       IN \/ /\ f.st = "frame" /\ consumed' = consumed + f.n
             /\ got' = Append(got, [kind |-> f.kind, parts |-> f.parts]) /\ UNCHANGED stage
          \/ /\ f = Bad /\ stage' = "FramingError" /\ UNCHANGED <<consumed, got>>
          \/ /\ f = More /\ Buffered > MaxBuffered
             /\ stage' = "InboundBufferLimit" /\ UNCHANGED <<consumed, got>>
          \/ /\ f = More /\ Buffered <= MaxBuffered /\ peerGone
             /\ stage' = "PeerEof" /\ UNCHANGED <<consumed, got>>
    /\ UNCHANGED <<stream, content, arrived, peerGone, statuses>>

L3StreamNext == OpenStream \/ BytesArrive \/ PeerCloses \/ GetIp \/ ReadLoop

----------------------------------------------------------------------------
(* what was sent, up to the first frame that is no frame *)
SentFrames ==
    LET all  == SelectSeq(L3Streams[stream], LAMBDA f : f.kind \notin {"method", "status"})
        good == {n \in 0..Len(all) : \A i \in 1..n : all[i].kind # "bad"}
        last == CHOOSE n \in good : \A k \in good : k <= n
    IN [i \in 1..last |-> [kind |-> all[i].kind, parts |-> all[i].parts]]

(* However the bytes are cut into pieces, the frames dispatched are those    *)
(* sent, in order, with their packets; none is stuck once all its bytes are  *)
(* there; and the Get-IP exchange leaves the stream where the session starts.*)
FramesReassembled ==
    stream # 0 =>
        /\ IsPrefix(got, SentFrames)
        /\ (arrived = Len(content) /\ stage \in {"PeerEof", "FramingError"}) =>
              got = SentFrames
        /\ stage = "FramingError" => Len(got) < Len(L3Streams[stream])
=============================================================================
