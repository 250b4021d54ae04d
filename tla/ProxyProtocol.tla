---------------------------- MODULE ProxyProtocol ----------------------------
(* One client of a proxy listener, from its first byte to the relay: http.rs    *)
(* (CONNECT or a request with an absolute URL) and the SOCKS 5 handshake. The   *)
(* client's bytes are a script of tokens that arrive one after the other, ahead *)
(* of the replies if the client likes. HTTP is read through a BufReader, which  *)
(* may take more than the header; SOCKS reads exactly what it parses.           *)
EXTENDS Naturals, Sequences, SequencesExt

CONSTANTS HeaderLists,   \* the header lines a client may send
          MaxHeader      \* the 32 KiB of a header, in tokens

Token(what, is) == [what |-> what, is |-> is]
RequestLines == {"get", "get-https", "connect", "connect-path", "connect-no-port", "no-url", "bad"}
Body == <<Token("body", "1"), Token("body", "2")>>

HttpScripts ==
    {<<Token("line", l)>> \o [i \in 1..Len(h) |-> Token("header", h[i])] \o <<Token("end", "")>> \o Body :
       l \in RequestLines, h \in HeaderLists}
SocksScripts(auths) ==
    {<<Token("methods", m)>> \o a \o <<Token("request", r), Token("address", d)>> \o Body :
       m \in {"version4", "none", "plain", "password", "both"}, a \in auths,
       r \in {"connect", "associate", "bind", "bad"}, d \in {"host", "empty", "type"}}

VARIABLES served,    \* "http" or "socks"
          secured,   \* config.credentials is set
          script,    \* what the client sends
          sentUpTo,  \* how much of it has arrived
          readUpTo,  \* how much of it was read from the socket
          parsedUpTo,\* how much of it the handshake consumed or the relay sent on
          talk,      \* where serve() is
          replies,   \* what the proxy itself told the client
          dialled,     \* calls of connect()
          upstream   \* what the target received

protocolVars == <<served, secured, script, sentUpTo, readUpTo, parsedUpTo, talk, replies, dialled,
                  upstream>>

Credentials == {<<Token("auth", a)>> : a \in {"right", "wrong", "version"}}

ProtocolInit ==
    /\ served = "http" /\ secured = FALSE /\ script = <<>> /\ talk = "accept"
    /\ sentUpTo = 0 /\ readUpTo = 0 /\ parsedUpTo = 0
    /\ replies = <<>> /\ dialled = 0 /\ upstream = <<>>

(* a connection to one of the listeners *)
Accepted ==
    /\ talk = "accept"
    /\ served' \in {"http", "socks"} /\ secured' \in BOOLEAN
    /\ script' \in (IF served' = "http" THEN HttpScripts
                    ELSE SocksScripts(IF secured' THEN Credentials ELSE {<<>>}))
    /\ talk' = IF served' = "http" THEN "header" ELSE "methods"
    /\ UNCHANGED <<sentUpTo, readUpTo, parsedUpTo, replies, dialled, upstream>>

Client == <<served, secured, script>>

Arrives ==
    /\ talk # "closed" /\ sentUpTo < Len(script) /\ sentUpTo' = sentUpTo + 1
    /\ UNCHANGED <<Client, readUpTo, parsedUpTo, talk, replies, dialled, upstream>>

(* handshake_timeout, the end of the stream, an error of either connection *)
ConnectionBreaks ==
    /\ talk \notin {"accept", "closed"} /\ talk' = "closed"
    /\ UNCHANGED <<Client, sentUpTo, readUpTo, parsedUpTo, replies, dialled, upstream>>

Says(what, next) == replies' = Append(replies, what) /\ talk' = next
Silently(next)   == talk' = next /\ UNCHANGED replies

----------------------------------------------------------------------------
(* HTTP *)
EndOfHeader == CHOOSE i \in 1..Len(script) : script[i].what = "end"
Headers == [i \in 1..(EndOfHeader - 2) |-> script[i + 1].is]
Occurrences(kinds) == Len(SelectSeq(Headers, LAMBDA h : h \in kinds))

BadRequest ==
    \/ script[1].is = "bad"
    \/ Occurrences({"malformed", "bad-length"}) > 0
    \/ Occurrences({"auth", "wrong-auth"}) > 1 \/ Occurrences({"length"}) > 1
    \/ Occurrences({"chunked"}) > 0 /\ Occurrences({"length"}) > 0

TunnelLine == script[1].is \in {"connect", "connect-path", "connect-no-port", "no-url"}
GoodTarget == script[1].is \in {"get", "connect"}

(* the credentials of the one proxy-authorization line *)
CredentialsShown == ~secured \/ Occurrences({"auth"}) = 1

(* header(): byte by byte out of the buffer, which was filled with whatever   *)
(* had arrived; then the checks of serve() in their order                     *)
ReadHeader ==
    /\ talk = "header"
    /\ IF sentUpTo >= EndOfHeader /\ EndOfHeader <= MaxHeader
         THEN /\ readUpTo' \in EndOfHeader..sentUpTo
              /\ parsedUpTo' = EndOfHeader
              /\ IF BadRequest THEN Silently("closed")
                 ELSE IF ~CredentialsShown THEN Says("407", "closed")
                 ELSE IF ~GoodTarget THEN Silently("closed")
                 ELSE Silently("dial")
         ELSE /\ sentUpTo >= MaxHeader /\ EndOfHeader > MaxHeader
              /\ Silently("closed") /\ UNCHANGED <<readUpTo, parsedUpTo>>
    /\ UNCHANGED <<Client, sentUpTo, dialled, upstream>>

RewrittenWhole == SubSeq(script, 1, EndOfHeader)
(* The request line with a path, host and connection lines of its own, and    *)
(* the client's lines without those that concern the proxy                    *)
Rewritten ==
    <<Token("line", "path"), Token("header", "host"), Token("header", "connection")>>
    \o SelectSeq(SubSeq(script, 2, EndOfHeader - 1),
                 LAMBDA t : t.is \notin {"host", "connection", "proxy-connection", "auth", "wrong-auth"})
    \o <<Token("end", "")>>

----------------------------------------------------------------------------
(* SOCKS: read_exact takes one token from the socket *)
Takes(what, state) ==
    /\ talk = state /\ readUpTo < sentUpTo /\ script[readUpTo + 1].what = what
    /\ readUpTo' = readUpTo + 1 /\ parsedUpTo' = parsedUpTo + 1
    /\ UNCHANGED <<Client, sentUpTo, dialled, upstream>>
Read == script[readUpTo + 1].is

AcceptedMethods == IF secured THEN {"password", "both"} ELSE {"plain", "both"}

SocksMethods ==
    /\ Takes("methods", "methods")
    /\ IF Read = "version4" THEN Silently("closed")
       ELSE IF Read \notin AcceptedMethods THEN Says("no method", "closed")
       ELSE Says("method", IF secured THEN "auth" ELSE "request")

SocksAuth ==
    /\ Takes("auth", "auth")
    /\ CASE Read = "version" -> Silently("closed")
         [] Read = "wrong" -> Says("denied", "closed")
         [] OTHER -> Says("welcome", "request")

SocksRequest ==
    /\ Takes("request", "request")
    /\ Silently(IF Read = "bad" THEN "closed" ELSE "address")

Command == script[parsedUpTo].is

(* address(), then the dispatch of serve(); UDP is another component's *)
SocksAddress ==
    /\ Takes("address", "address")
    /\ IF Read # "host" THEN Silently("closed")
       ELSE CASE Command = "connect" -> Silently("dial")
              [] Command = "associate" -> Silently("closed")
              [] OTHER -> Says("unsupported", "closed")

----------------------------------------------------------------------------
(* connect(): a stream, a refusal of the policy, or any other failure *)
DialTarget ==
    /\ talk = "dial" /\ dialled' = dialled + 1
    /\ \/ /\ IF served = "http" /\ ~TunnelLine
               THEN Silently("relay") /\ upstream' = upstream \o Rewritten
               ELSE Says("established", "relay") /\ UNCHANGED upstream
       \/ Says("forbidden", "closed") /\ UNCHANGED upstream
       \/ Says("unreachable", "closed") /\ UNCHANGED upstream
    /\ UNCHANGED <<Client, sentUpTo, readUpTo, parsedUpTo>>

RelaySocketOnly == readUpTo
(* copy_bidirectional over the BufReader: what it holds goes first *)
RelayFrom == parsedUpTo

Relay ==
    /\ talk = "relay" /\ RelayFrom < sentUpTo
    /\ upstream' = Append(upstream, script[RelayFrom + 1])
    /\ parsedUpTo' = RelayFrom + 1
    /\ readUpTo' = IF readUpTo > RelayFrom THEN readUpTo ELSE RelayFrom + 1
    /\ UNCHANGED <<Client, sentUpTo, talk, replies, dialled>>

ProtocolNext ==
    Accepted \/ Arrives \/ ConnectionBreaks \/ ReadHeader \/ SocksMethods \/ SocksAuth \/ SocksRequest \/ SocksAddress
    \/ DialTarget \/ Relay

ProtocolSpec == ProtocolInit /\ [][ProtocolNext]_protocolVars

----------------------------------------------------------------------------
ProtocolTypeOK ==
    /\ parsedUpTo <= readUpTo /\ readUpTo <= sentUpTo /\ sentUpTo <= Len(script)
    /\ talk \in {"accept", "header", "methods", "auth", "request", "address", "dial", "relay", "closed"}
    /\ dialled \in 0..1

Sent(w, set) == SelectSeq(w, LAMBDA t : t.what = "header" /\ t.is \in set)
BodyOf(w) == SelectSeq(w, LAMBDA t : t.what = "body")
EndToEnd == {"length", "chunked", "other"}

(* Wherever the bytes a client sent ahead of the reply were held, the target   *)
(* gets them all, once and in order, and before them nothing (a tunnel) or the *)
(* client's request with one host line, its end-to-end headers in order and    *)
(* none of the lines meant for the proxy. There is one dial at most, only for  *)
(* a client whose credentials were shown when they are asked for; it is told   *)
(* of success exactly when a tunnel is relayed, and of one failure otherwise.  *)
RelaysWhatWasAsked ==
    /\ IsPrefix(BodyOf(upstream), Body)
    /\ talk = "relay" /\ parsedUpTo = Len(script) => BodyOf(upstream) = Body
    /\ upstream # <<>> /\ served = "http" /\ script[1].is = "get" =>
         /\ Sent(upstream, EndToEnd) = Sent(script, EndToEnd)
         /\ Sent(upstream, {"host"}) = <<Token("header", "host")>>
         /\ Sent(upstream, {"auth", "wrong-auth", "proxy-connection"}) = <<>>
    /\ dialled = 1 /\ secured =>
         \E i \in 1..Len(script) : script[i] \in {Token("header", "auth"), Token("auth", "right")}
    /\ "established" \in Range(replies) => replies[Len(replies)] = "established" /\ dialled = 1
    /\ Cardinality({i \in 1..Len(replies) : replies[i] \notin {"method", "welcome"}}) <= 1
=============================================================================
