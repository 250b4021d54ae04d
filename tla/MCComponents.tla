----------------------------- MODULE MCComponents -----------------------------
(* The components on the way of a connection or packet, and the commands of   *)
(* the probe, one at a time: the first choice is which component runs, the    *)
(* others stay as they began.                                                 *)
EXTENDS Resolver, UdpSockets, Heartbeat, TcpDial, SocksAssociate, TunnelRead, TunnelWrite,
        L3Stream, Routing, NodeSelect, SessionCommands, CoverageArms, Experiments, ProxyProtocol,
        DnsWire

VARIABLE running

CONSTANTS d1, d2, d3, t1, t2, q1, q2, s1, s2

MCDialers == {t1, t2}
MCLookups == {q1, q2}
MCSockets == {s1, s2}
MCTargets == {d1, d2, d3}

MCConfigured == << <<"e1", "e2">>, <<"e2", "e3">>, <<>> >>
MCBuffers == <<"a", "b", "c">>

(* TunnelRead: frames and handshakes, whole, refused, unknown and misleading *)
MCFrames == {<<1, 0, 0, 2, 7, 8>>, <<1, 0, 0, 0>>, <<1, 1, 0, 0>>, <<1, 1, 48, 48>>, <<5, 129>>,
             <<83, 0, 0, 2, 79, 75>>, <<83, 0, 0, 1, 33>>, <<9, 9>>}
MCFirst == {<<1, 0, 0, 2, 7, 8>>, <<1, 0, 0, 0>>, <<1, 1, 0, 0>>, <<1, 1, 48, 48>>}
MCFrameLists == UNION {[1..n -> MCFrames] : n \in 0..1} \cup (MCFirst \X MCFrames)
MCPreludes == {<<5, 129, 83, 0, 0, 2, 79, 75, 5, 0>>, <<83, 0, 0, 1, 33>>,
               <<83, 0, 0, 2, 79, 75, 5, 4>>, <<9, 9>>, <<83, 0, 0, 6, 83, 0, 0, 2, 79, 75, 5, 0>>}
MCOkBodies == {<<79, 75>>}

(* L3Stream: the frames of both 0x94 layouts among all the others *)
MCFrame(kind, bytes, parts) == [kind |-> kind, bytes |-> bytes, parts |-> parts]
Filled(n, with) == [i \in 1..n |-> with]
Method == MCFrame("method", <<5, 208>>, <<>>)
Status == MCFrame("status", <<83, 0, 0, 2, 79, 75>>, <<>>)
Vip(type, n) == MCFrame("vip", <<5, 0, 0, type>> \o [i \in 1..n |-> i], <<<<1, 2, 3, 4>>>>)
Packet == <<69, 0, 0, 5, 1>>
BigPacket == <<69, 0, 0, 24>> \o Filled(20, 7)
Small == MCFrame("data", EncodeDataResp(Packet), <<Packet>>)
Big == MCFrame("data", EncodeDataResp(BigPacket), <<BigPacket>>)
Tokens(packets) == MCFrame("data", <<5, 148>> \o EncodeTokenBody(Filled(17, 69), packets), packets)
Auth == MCFrame("auth", <<5, 147, 0, 0, 2, 123, 125>>, <<<<0, 123, 125>>>>)
Beat == MCFrame("heartbeat", <<5, 149, 0, 0>>, <<<<>>>>)
NewVip == MCFrame("vip_update", <<5, 151, 0, 0, 1, 9>>, <<<<0, 9>>>>)
SecondVip == MCFrame("second_vip", <<5, 150, 1, 0, 0>>, <<<<1>>>>)
Note == MCFrame("protocol", <<83, 0, 0, 1, 83>>, <<<<83>>>>)
Odd == MCFrame("ignored", <<5, 160, 0, 1, 5>>, <<<<5>>>>)
Bogus(bytes) == MCFrame("bad", bytes, <<>>)
MCStreams ==
    << <<Method, Status, Vip(1, 6), Auth, Small, Tokens(<<Packet, <<>>>>), Beat>>,
       <<Vip(5, 22), Big, Tokens(<<>>), NewVip, SecondVip>>,
       <<Status, Vip(1, 6), Note, Odd, Tokens(<<Packet>>), Bogus(<<83, 1>>)>>,
       <<Method, Vip(1, 6), Small, Bogus(<<9, 9>>)>>,
       <<Status, Status, Status>>,
       <<Vip(1, 6), Bogus(<<5, 160, 255, 255>> \o Filled(50, 1))>>,
       <<Bogus(<<5, 0, 0, 4>> \o Filled(18, 3))>> >>

(* Routing: overlapping ranges, blocks and names, with malformed entries *)
Ip(kind, a, b, ports, protocol) ==
    [kind |-> kind, a |-> a, b |-> b, ports |-> ports, protocol |-> protocol, app |-> "app"]
MCIpEntries ==
    {Ip("ip", 3, 0, <<0, 2>>, "all"), Ip("ip", 3, 0, <<1, 1>>, "tcp"),
     Ip("cidr", 5, 0, <<0, 2>>, "all"), Ip("cidr", 6, 2, <<0, 1>>, "udp"),
     Ip("range", 1, 4, <<1, 2>>, "icmp"), Ip("range", 2, 7, <<0, 0>>, "tcp"), Ip("ip", 0, 0, <<>>, "tcp"),
     [Ip("ip", 7, 0, <<0, 2>>, "all") EXCEPT !.app = ""]}
Name(wild, suffix, ports, protocol) ==
    [kind |-> "name", wild |-> wild, suffix |-> suffix, ports |-> ports,
     protocol |-> protocol, app |-> "app"]
MCNameEntries ==
    {Name(TRUE, <<>>, <<0, 2>>, "all"), Name(FALSE, <<>>, <<0, 2>>, "all"),
     Name(TRUE, <<"e">>, <<0, 1>>, "tcp"), Name(TRUE, <<"a", ".", "e">>, <<0, 2>>, "all"),
     Name(FALSE, <<"a", ".", "e">>, <<1, 1>>, "tcp"), Name(FALSE, <<"e">>, <<0, 2>>, "udp"),
     Name(FALSE, <<"b", ".", "a", ".", "e">>, <<0, 0>>, "tcp")}
MCFlowHosts == {<<"e">>, <<"a", ".", "e">>, <<"b", ".", "a", ".", "e">>,
                <<"b", "a", ".", "e">>, <<"x">>}
MCNodeTexts == [kind : {"node"}, app : {"app"}, bracket : BOOLEAN, port : {8443},
                host : {"", "name", "v6", "sdpc"}, tail : {"", "junk", "0", "port"},
                wirePort : {0, 9, 70000}]

(* NodeSelect: one endpoint advertised by two groups *)
MCCandidates == {<<>>, <<"a">>, <<"a", "b">>, <<"a", "b", "a">>}

(* CoverageArms: both families, one with another cookie, one without signature *)
MCSessionFiles ==
    {{"sid", "sid.sig", "sid-legacy", "sid-legacy.sig", "other"}, {"sid-legacy", "sid-legacy.sig"},
     {"sid", "other"}, {"sid", "sid.sig", "sid-legacy"}}

(* SessionCommands, Experiments *)
MCPlans == [first : {0, 3}, valid : {1, 2}, every : {0, 2, 9}, repeats : {0, 2}]
MCGrids == {<<1, 2>>, <<2, 1>>}

(* ProxyProtocol: every pair of header lines, and one line too many *)
HeaderKinds == {"auth", "wrong-auth", "length", "bad-length", "chunked", "host", "connection",
                "proxy-connection", "other", "malformed"}
MCHeaderLists == UNION {[1..n -> HeaderKinds] : n \in 0..2} \cup {<<"other", "other", "other">>}

(* DnsWire: aliases among three names, one of them below another *)
MCDnsNames == {<<"q">>, <<"x">>, <<"x", "q">>}
DnsRecords(addrs, ttls) ==
    [owner : MCDnsNames, kind : {"A"}, alias : {<<>>}, addr : addrs, ttl : {2}]
    \cup [owner : MCDnsNames, kind : {"CNAME"}, alias : MCDnsNames, addr : {0}, ttl : ttls]
OtherRecord == [owner |-> <<"x">>, kind |-> "other", alias |-> <<>>, addr |-> 0, ttl |-> 1]
MCRecordLists == UNION {[1..n -> DnsRecords({1, 2}, {1, 3}) \cup {OtherRecord}] : n \in 0..2}
                 \cup [1..3 -> DnsRecords({1}, {1})] \cup [1..4 -> {OtherRecord}]

----------------------------------------------------------------------------
MCInit ==
    /\ running \in {"resolver", "udp", "heartbeat", "dial", "associate", "read", "write",
                    "stream", "routing", "select", "command", "arms", "experiment",
                    "protocol", "wire"}
    /\ ResolverInit /\ UdpInit /\ HeartbeatInit /\ TcpDialInit /\ AssociateInit
    /\ TunnelReadInit /\ TunnelWriteInit /\ L3StreamInit /\ RoutingInit /\ SelectInit
    /\ CommandInit /\ ArmsInit /\ ExperimentInit /\ ProtocolInit /\ WireInit

RunResolver ==
    /\ running = "resolver" /\ ResolverNext
    /\ UNCHANGED <<running, udpVars, heartbeatVars, tcpDialVars, assocVars, tunnelReadVars,
                   tunnelWriteVars, l3StreamVars, published, selectVars, commandVars, armVars,
                   experimentVars, protocolVars, wireVars>>

RunUdp ==
    /\ running = "udp" /\ UdpNext
    /\ UNCHANGED <<running, resolverVars, heartbeatVars, tcpDialVars, assocVars,
                   tunnelReadVars, tunnelWriteVars, l3StreamVars, published, selectVars,
                   commandVars, armVars, experimentVars, protocolVars, wireVars>>

RunHeartbeat ==
    /\ running = "heartbeat" /\ HeartbeatNext
    /\ UNCHANGED <<running, resolverVars, udpVars, tcpDialVars, assocVars, tunnelReadVars,
                   tunnelWriteVars, l3StreamVars, published, selectVars, commandVars, armVars,
                   experimentVars, protocolVars, wireVars>>

RunDial ==
    /\ running = "dial" /\ TcpDialNext
    /\ UNCHANGED <<running, resolverVars, udpVars, heartbeatVars, assocVars, tunnelReadVars,
                   tunnelWriteVars, l3StreamVars, published, selectVars, commandVars, armVars,
                   experimentVars, protocolVars, wireVars>>

RunAssociate ==
    /\ running = "associate" /\ AssociateNext
    /\ UNCHANGED <<running, resolverVars, udpVars, heartbeatVars, tcpDialVars, tunnelReadVars,
                   tunnelWriteVars, l3StreamVars, published, selectVars, commandVars, armVars,
                   experimentVars, protocolVars, wireVars>>

RunRead ==
    /\ running = "read" /\ TunnelReadNext
    /\ UNCHANGED <<running, resolverVars, udpVars, heartbeatVars, tcpDialVars, assocVars,
                   tunnelWriteVars, l3StreamVars, published, selectVars, commandVars, armVars,
                   experimentVars, protocolVars, wireVars>>

RunWrite ==
    /\ running = "write" /\ TunnelWriteNext
    /\ UNCHANGED <<running, resolverVars, udpVars, heartbeatVars, tcpDialVars, assocVars,
                   tunnelReadVars, l3StreamVars, published, selectVars, commandVars, armVars,
                   experimentVars, protocolVars, wireVars>>

RunStream ==
    /\ running = "stream" /\ L3StreamNext
    /\ UNCHANGED <<running, resolverVars, udpVars, heartbeatVars, tcpDialVars, assocVars,
                   tunnelReadVars, tunnelWriteVars, published, selectVars, commandVars,
                   armVars, experimentVars, protocolVars, wireVars>>

RunRouting ==
    /\ running = "routing" /\ RoutingNext
    /\ UNCHANGED <<running, resolverVars, udpVars, heartbeatVars, tcpDialVars, assocVars,
                   tunnelReadVars, tunnelWriteVars, l3StreamVars, selectVars, commandVars,
                   armVars, experimentVars, protocolVars, wireVars>>

RunSelect ==
    /\ running = "select" /\ SelectNext
    /\ UNCHANGED <<running, resolverVars, udpVars, heartbeatVars, tcpDialVars, assocVars,
                   tunnelReadVars, tunnelWriteVars, l3StreamVars, published, commandVars,
                   armVars, experimentVars, protocolVars, wireVars>>

RunCommand ==
    /\ running = "command" /\ CommandNext
    /\ UNCHANGED <<running, resolverVars, udpVars, heartbeatVars, tcpDialVars, assocVars,
                   tunnelReadVars, tunnelWriteVars, l3StreamVars, published, selectVars,
                   armVars, experimentVars, protocolVars, wireVars>>

RunArms ==
    /\ running = "arms" /\ ArmsNext
    /\ UNCHANGED <<running, resolverVars, udpVars, heartbeatVars, tcpDialVars, assocVars,
                   tunnelReadVars, tunnelWriteVars, l3StreamVars, published, selectVars,
                   commandVars, experimentVars, protocolVars, wireVars>>

RunExperiment ==
    /\ running = "experiment" /\ ExperimentNext
    /\ UNCHANGED <<running, resolverVars, udpVars, heartbeatVars, tcpDialVars, assocVars,
                   tunnelReadVars, tunnelWriteVars, l3StreamVars, published, selectVars,
                   commandVars, armVars, protocolVars, wireVars>>

RunProtocol ==
    /\ running = "protocol" /\ ProtocolNext
    /\ UNCHANGED <<running, resolverVars, udpVars, heartbeatVars, tcpDialVars, assocVars,
                   tunnelReadVars, tunnelWriteVars, l3StreamVars, published, selectVars,
                   commandVars, armVars, experimentVars, wireVars>>

RunWire ==
    /\ running = "wire" /\ WireNext
    /\ UNCHANGED <<running, resolverVars, udpVars, heartbeatVars, tcpDialVars, assocVars,
                   tunnelReadVars, tunnelWriteVars, l3StreamVars, published, selectVars,
                   commandVars, armVars, experimentVars, protocolVars>>

MCNext == RunResolver \/ RunUdp \/ RunHeartbeat \/ RunDial \/ RunAssociate \/ RunRead
          \/ RunWrite \/ RunStream \/ RunRouting \/ RunSelect \/ RunCommand \/ RunArms
          \/ RunExperiment \/ RunProtocol \/ RunWire

(* The state of the component that runs is well typed. *)
TypesOK ==
    CASE running = "resolver" -> ResolverTypeOK
      [] running = "udp" -> UdpTypeOK
      [] running = "heartbeat" -> HeartbeatTypeOK
      [] running = "dial" -> TcpDialTypeOK
      [] running = "associate" -> AssociateTypeOK
      [] running = "read" -> TunnelReadTypeOK
      [] running = "write" -> TunnelWriteTypeOK
      [] running = "stream" -> L3StreamTypeOK
      [] running = "routing" -> RoutingTypeOK
      [] running = "command" -> CommandTypeOK
      [] running = "arms" -> ArmsTypeOK
      [] running = "experiment" -> ExperimentTypeOK
      [] running = "protocol" -> ProtocolTypeOK
      [] running = "wire" -> WireTypeOK
      [] running = "select" -> SelectTypeOK

=============================================================================
