------------------------------- MODULE Routing -------------------------------
(* Which published resource authorizes a flow: the parsing of the server's     *)
(* table (ClientResources::from_data), the order by specificity and the two    *)
(* indexes (IpNode, DomainNode) that answer queries, against a definition that *)
(* looks at every entry. Also the endpoints of node groups.                    *)
EXTENDS Naturals, Sequences, SequencesExt, FiniteSets

CONSTANTS IpEntries,     \* entries with an address, a CIDR block or a range
          NameEntries,   \* entries with a host name or a pattern
          NodeTexts,     \* addresses of node groups with their published port
          TableSize,     \* bound: entries of a table
          AddressBits,   \* 32 in the code
          FlowPorts, FlowHosts

VARIABLES published    \* the table as the server sent it: sequence of entries

Protocols == {"tcp", "udp", "icmp"}

RoutingInit == published = <<>>
(* The server publishes any table. *)
Publishes ==
    /\ published = <<>>
    /\ published' \in (UNION {[1..n -> IpEntries] : n \in 1..TableSize})
                 \cup (UNION {[1..n -> NameEntries] : n \in 1..TableSize})
                 \cup {<<t>> : t \in NodeTexts}
RoutingNext == Publishes

----------------------------------------------------------------------------
(* from_data: entries that do not parse are left out, the others are kept in *)
(* the server's order. An entry is [kind, a, b, ports, protocol, app].        *)
Parses(e) == e.app # "" /\ e.protocol \in Protocols \cup {"all"} /\ Len(e.ports) = 2

Above(bits) == 2 ^ (AddressBits - bits)
(* classify_host: a CIDR block a/b is the range with the low bits cleared, set *)
Range4(e) ==
    CASE e.kind = "ip"    -> <<e.a, e.a>>
      [] e.kind = "cidr"  -> IF e.b = 0 THEN <<0, 2 ^ AddressBits - 1>>
                             ELSE LET min == e.a - (e.a % Above(e.b))
                                  IN <<min, min + Above(e.b) - 1>>
      [] e.kind = "range" -> <<e.a, e.b>>

Kept(kinds) == SelectSeq(published, LAMBDA e : e.kind \in kinds /\ Parses(e))
IpTable   == [i \in DOMAIN Kept({"ip", "cidr", "range"}) |->
                [range |-> Range4(Kept({"ip", "cidr", "range"})[i]),
                 ports |-> Kept({"ip", "cidr", "range"})[i].ports,
                 protocol |-> Kept({"ip", "cidr", "range"})[i].protocol]]
(* DomainPattern::parse: "*", "*." before a suffix, or an exact name *)
NameTable == SelectSeq(Kept({"name"}), LAMBDA e : e.wild \/ e.suffix # <<>>)

Span(p) == IF p[2] > p[1] THEN p[2] - p[1] ELSE 0
ProtocolRank(p) == IF p = "all" THEN 1 ELSE 0
LabelCount(s) == IF s = <<>> THEN 0 ELSE 1 + Len(SelectSeq(s, LAMBDA c : c = "."))

(* lexicographic order of keys of numbers *)
LexLess(p, q) == \E i \in DOMAIN p : p[i] < q[i] /\ \A j \in 1..(i - 1) : p[j] = q[j]

IpKey(e) == <<Span(e.range), Span(e.ports), ProtocolRank(e.protocol)>>
NameKey(e) == <<IF e.wild THEN 1 ELSE 0, 99 - LabelCount(e.suffix), Span(e.ports),
                ProtocolRank(e.protocol)>>

(* sort_by_key is stable; keys[i] is the key of the i-th entry *)
Sorted(table, keys) ==
    LET order == SetToSortSeq(DOMAIN table,
                     LAMBDA i, j : LexLess(Append(keys[i], i), Append(keys[j], j)))
    IN [k \in DOMAIN order |-> table[order[k]]]

ProtocolMatches(resource, flow) == resource = "all" \/ resource = flow
PortMatches(ports, port, protocol) == protocol = "icmp" \/ (port >= ports[1] /\ port <= ports[2])
Admits(e, port, protocol) ==
    ProtocolMatches(e.protocol, protocol) /\ PortMatches(e.ports, port, protocol)
InRange(e, ip) == e.range[1] <= ip /\ ip <= e.range[2]

----------------------------------------------------------------------------
(* IpNode: a balanced tree over the entries by first address; a node knows the *)
(* largest last address below it. lo..hi are positions in that order.          *)

ByStart(ips) ==
    SetToSortSeq(DOMAIN ips, LAMBDA i, j : ips[i].range[1] < ips[j].range[1]
                                           \/ (ips[i].range[1] = ips[j].range[1] /\ i < j))
MaxEnd(ips, order, lo, hi) ==
    LET ends == {ips[order[k]].range[2] : k \in lo..hi} IN CHOOSE m \in ends : \A e \in ends : e <= m

(* no interval below a node reaches the address *)
Pruned(maxEnd, ip) == ip > maxEnd

RECURSIVE FindIp(_, _, _, _, _, _, _, _)
(* find: left, the node itself if it precedes the best so far, right *)
FindIp(ips, order, lo, hi, ip, port, protocol, best) ==
    IF lo > hi \/ Pruned(MaxEnd(ips, order, lo, hi), ip) THEN best
    ELSE LET mid  == lo + ((hi - lo + 1) \div 2)
             i    == order[mid]
             left == FindIp(ips, order, lo, mid - 1, ip, port, protocol, best)
             here == IF /\ InRange(ips[i], ip) /\ (left = 0 \/ i < left)
                        /\ Admits(ips[i], port, protocol)
                     THEN i ELSE left
         IN IF ips[i].range[1] <= ip
              THEN FindIp(ips, order, mid + 1, hi, ip, port, protocol, here) ELSE here

MatchIp(ip, port, protocol) ==
    LET ips   == Sorted(IpTable, [i \in DOMAIN IpTable |-> IpKey(IpTable[i])])
        order == ByStart(ips)
        hit == FindIp(ips, order, 1, Len(order), ip, port, protocol, 0)
    IN IF hit = 0 THEN <<>> ELSE <<ips[hit]>>

----------------------------------------------------------------------------
(* DomainNode: a trie over suffixes read backwards *)

EndsWith(host, suffix) ==
    Len(host) >= Len(suffix) /\ SubSeq(host, Len(host) - Len(suffix) + 1, Len(host)) = suffix

PatternMatches(e, host) ==
    IF ~e.wild THEN host = e.suffix
    ELSE \/ e.suffix = <<>>
         \/ /\ Len(host) > Len(e.suffix) + 1 /\ EndsWith(host, e.suffix)
            /\ host[Len(host) - Len(e.suffix)] = "."

(* find walks from the root along the host as far as the trie has nodes and *)
(* keeps the entry of the lowest index that is accepted                     *)
FirstAccepted(names, host, accept) ==
    IF accept = {} THEN 0 ELSE CHOOSE i \in accept : \A j \in accept : i <= j

MatchDomain(host, port, protocol) ==
    LET names  == Sorted(NameTable, [i \in DOMAIN NameTable |-> NameKey(NameTable[i])])
        onPath == {i \in DOMAIN names : EndsWith(host, names[i].suffix)}
        accept == {i \in onPath : PatternMatches(names[i], host) /\ Admits(names[i], port, protocol)}
        hit    == FirstAccepted(names, host, accept)
    IN IF hit = 0 THEN <<>> ELSE <<names[hit]>>

----------------------------------------------------------------------------
(* Node groups. A text is [bracket, host, tail, port, wirePort]: host "",      *)
(* "name", "v6" (several colons) or "sdpc" (the placeholder for the gateway),  *)
(* tail what follows it: "", "junk", "0" or "port"; wirePort is sent beside it. *)

DefaultNodePort == 441
NoEndpoint == [host |-> "", port |-> 0]

(* split_host_port: an unbracketed text with several colons is all host *)
SplitHostPort(t, default) ==
    LET bare == ~t.bracket /\ t.host = "v6"
    IN IF bare /\ t.tail # "" THEN [host |-> "v6+", port |-> default]
       ELSE IF bare \/ (t.bracket /\ t.tail = "") THEN [host |-> t.host, port |-> default]
       ELSE IF t.tail \in {"junk", "0"} \/ (~t.bracket /\ t.host = "") THEN NoEndpoint
       ELSE [host |-> t.host, port |-> IF t.tail = "" THEN default ELSE t.port]

WirePortFirst(t) ==
    IF t.wirePort \in 1..65535 THEN [t EXCEPT !.tail = "port", !.port = t.wirePort] ELSE t
(* node_address_with_wire_port: the wire port is written into the text, with      *)
(* brackets around a host that has colons                                      *)
WithWirePort(t) ==
    LET split == SplitHostPort(t, t.wirePort)
    IN IF t.wirePort \notin 1..65535 \/ split = NoEndpoint THEN t
       ELSE [t EXCEPT !.bracket = split.host \in {"v6", "v6+"}, !.host = split.host,
                      !.tail = "port", !.port = split.port]

(* resolve_node_address: the placeholder becomes the gateway's host, as text *)
ResolveNode(t, gateway) ==
    LET text  == WithWirePort(t)
        split == SplitHostPort([text EXCEPT !.host = IF @ = "sdpc" THEN gateway ELSE @],
                               DefaultNodePort)
    IN IF split.host = "" THEN NoEndpoint ELSE split

----------------------------------------------------------------------------
RoutingTypeOK == published \in Seq(IpEntries \cup NameEntries \cup NodeTexts)

(* Best(table, Key, hits): the first in the order of specificity, then of the *)
(* server, among all entries that match.                                      *)
Best(table, Key(_), hits) ==
    {table[i] : i \in {k \in hits : \A j \in hits \ {k} :
        LexLess(Append(Key(table[k]), k), Append(Key(table[j]), j))}}

Blocks(e, ip) ==
    CASE e.kind = "cidr" -> ip \div Above(e.b) = e.a \div Above(e.b)
      [] OTHER -> Range4(e)[1] <= ip /\ ip <= Range4(e)[2]

(* The interval tree and the suffix trie return what a search of the whole   *)
(* table would: the most specific entry that admits the flow, and nothing    *)
(* exactly if no entry does; a CIDR block covers the addresses with its      *)
(* prefix, the block of length 0 all of them.                                *)
RouteIsMostSpecific ==
    published # <<>> =>
        /\ \A ip \in 0..(2 ^ AddressBits - 1), port \in FlowPorts, p \in Protocols :
             /\ Range(MatchIp(ip, port, p)) =
                  Best(IpTable, IpKey, {i \in DOMAIN IpTable :
                         InRange(IpTable[i], ip) /\ Admits(IpTable[i], port, p)})
             /\ MatchIp(ip, port, p) = <<>> <=>
                  \A e \in Range(Kept({"ip", "cidr", "range"})) :
                      ~(Blocks(e, ip) /\ Admits(e, port, p))
        /\ \A host \in FlowHosts, port \in FlowPorts, p \in Protocols :
             Range(MatchDomain(host, port, p)) =
                  Best(NameTable, NameKey, {i \in DOMAIN NameTable :
                         PatternMatches(NameTable[i], host) /\ Admits(NameTable[i], port, p)})

(* The port written in a node's address wins over the port beside it, which  *)
(* wins over the default, although the second is written into the text and   *)
(* parsed again. Left out: the placeholder for a gateway given as an IPv6    *)
(* literal, whose text can swallow the port.                                 *)
NodePortPrecedence ==
    \A t \in Range(published) \cap NodeTexts, gateway \in {"name", "v6"} :
        LET out == ResolveNode(t, gateway)
        IN out # NoEndpoint /\ (t.host # "sdpc" \/ gateway # "v6") =>
             out.port = IF t.tail = "port" /\ (t.bracket \/ t.host # "v6") THEN t.port
                        ELSE IF t.wirePort \in 1..65535 THEN t.wirePort ELSE DefaultNodePort

=============================================================================
