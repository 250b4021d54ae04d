------------------------------- MODULE DnsWire -------------------------------
(* dns_wire.rs: questions, answers and the names in them. A message is a header *)
(* and a sequence of cells; a cell is a label, a pointer to an earlier cell,    *)
(* the end of a name, the fixed fields of a question or record, or its data. A  *)
(* server writes records in any order, with names written out or compressed.    *)
EXTENDS Naturals, Sequences, SequencesExt, FiniteSetsExt

CONSTANTS DnsNames,     \* names of owners and aliases
          RecordLists,  \* lists of [owner, kind, alias, addr, ttl] a server may send
          MaxSteps,     \* the 64 cells of a name
          MaxLabels,    \* the 253 bytes of a name, in labels
          MaxChain,     \* the 16 owners of a chain of aliases
          MaxRecords    \* the 512 records of a response

Cell(t, l, n, len) == [t |-> t, l |-> l, n |-> n, len |-> len]
Label(l)   == Cell("label", l, 0, 0)
Pointer(p) == Cell("pointer", "", p, 0)
End        == Cell("end", "", 0, 0)

(* to_ascii_lowercase of the labels that occur *)
Lower(l) == IF l = "Q" THEN "q" ELSE l

NoName == [ok |-> FALSE, name |-> <<>>, after |-> 0]

AfterEveryJump(after, cursor) == cursor + 1
(* the offset moves behind the first pointer only; later ones lie elsewhere *)
After(after, cursor) == IF after = 0 THEN cursor + 1 ELSE after

RECURSIVE Walk(_, _, _, _, _)
Walk(cells, cursor, steps, after, labels) ==
    IF steps = MaxSteps \/ cursor \notin DOMAIN cells THEN NoName
    ELSE LET c == cells[cursor] IN
         CASE c.t = "pointer" ->
                IF c.n < cursor  \* a pointer leads backwards
                THEN Walk(cells, c.n, steps + 1, After(after, cursor), labels)
                ELSE NoName
           [] c.t = "end" ->
                IF Len(labels) > MaxLabels THEN NoName
                ELSE [ok |-> TRUE, name |-> labels, after |-> IF after = 0 THEN cursor + 1 ELSE after]
           [] c.t = "label" -> Walk(cells, cursor + 1, steps + 1, after, Append(labels, Lower(c.l)))
           [] OTHER -> NoName

(* name(): the labels and the position after the name *)
ReadName(cells, offset) == Walk(cells, offset, 0, 0, <<>>)

----------------------------------------------------------------------------
LookupResult(kind, ips, ttl) == [kind |-> kind, ips |-> ips, ttl |-> ttl]
Garbled == LookupResult("bad", <<>>, 0)
Minimum(a, b) == IF a < b THEN a ELSE b
MaxU32 == 9   \* the TTL before any record was used

(* The loop over the records: [ok, seq of the records in the answer section]. *)
RECURSIVE ReadRecords(_, _, _, _)
ReadRecords(m, cursor, index, read) ==
    IF index > m.count THEN [ok |-> TRUE, records |-> read]
    ELSE LET owner == ReadName(m.cells, cursor)
             fields == m.cells[owner.after]
             data == owner.after + 1
             alias == ReadName(m.cells, data) IN
         IF ~owner.ok \/ owner.after \notin DOMAIN m.cells \/ data + fields.len > Len(m.cells) + 1
           THEN [ok |-> FALSE, records |-> <<>>]
         ELSE IF index > m.answers \/ fields.l \notin {"A", "CNAME"}
           THEN ReadRecords(m, data + fields.len, index + 1, read)
         ELSE IF fields.l = "CNAME" /\ (~alias.ok \/ alias.after # data + fields.len)
           THEN [ok |-> FALSE, records |-> <<>>]
         ELSE ReadRecords(m, data + fields.len, index + 1,
                Append(read, [owner |-> owner.name, kind |-> fields.l, ttl |-> fields.n,
                              alias |-> IF fields.l = "A" THEN <<>> ELSE alias.name,
                              addr |-> IF fields.l = "A" THEN m.cells[data].n ELSE 0]))

Of(records, kind, owner) == SelectSeq(records, LAMBDA r : r.kind = kind /\ r.owner = owner)

(* aliases.insert returned another alias of the same owner *)
Conflict(records) ==
    \E i, j \in DOMAIN records : /\ records[i].kind = "CNAME" /\ records[j].kind = "CNAME"
                                 /\ records[i].owner = records[j].owner
                                 /\ records[i].alias # records[j].alias

Distinct(records) ==
    FoldLeft(LAMBDA ips, r : IF Contains(ips, r.addr) THEN ips ELSE Append(ips, r.addr), <<>>, records)

(* The loop over the owners, beginning with the host that was asked for. *)
RECURSIVE Chain(_, _, _, _)
Chain(records, owner, ttl, seen) ==
    LET here == Of(records, "A", owner)
        aliases == Of(records, "CNAME", owner)
        alias == aliases[Len(aliases)] IN   \* the last insertion counts
    IF Len(seen) = MaxChain THEN LookupResult("none", <<>>, 0)
    ELSE IF owner \in Range(seen) THEN Garbled
    ELSE IF here # <<>>
      THEN LookupResult("addresses", Distinct(here),
                  Min({ttl} \cup {here[i].ttl : i \in DOMAIN here}))
    ELSE IF aliases = <<>> THEN LookupResult("none", <<>>, 0)
    ELSE Chain(records, alias.alias, Minimum(ttl, alias.ttl), Append(seen, owner))
(* parse() *)
Parse(m, host, id) ==
    LET asked == ReadName(m.cells, 1)
        read == ReadRecords(m, asked.after + 1, 1, <<>>) IN
    IF m.id # id \/ ~m.response \/ m.questions # 1 \/ ~asked.ok \/ asked.name # host
       \/ m.cells[asked.after].l # "A" THEN Garbled
    ELSE IF m.truncated THEN LookupResult("truncated", <<>>, 0)
    ELSE IF m.rcode # 0 THEN LookupResult("rejected", <<>>, 0)
    ELSE IF m.count > MaxRecords \/ ~read.ok \/ Conflict(read.records) THEN Garbled
    ELSE Chain(read.records, host, MaxU32, <<>>)

(* query(): one question, the name written out *)
QuestionCells(labels, kind) ==
    [i \in DOMAIN labels |-> Label(labels[i])] \o <<End, Cell("fields", kind, 0, 0)>>
Query(id, labels, kind) ==
    [id |-> id, response |-> FALSE, questions |-> 1, truncated |-> FALSE, rcode |-> 0,
     answers |-> 0, count |-> 0, cells |-> QuestionCells(labels, kind)]

(* reply(): the question as it came, then a record whose name is a pointer to it *)
Reply(request, questionEnd, ip, ttl, rcode) ==
    [request EXCEPT !.response = TRUE, !.rcode = rcode,
       !.answers = IF ip = 0 THEN 0 ELSE 1, !.count = IF ip = 0 THEN 0 ELSE 1,
       !.cells = SubSeq(@, 1, questionEnd - 1) \o
                 (IF ip = 0 THEN <<>> ELSE <<Pointer(1), Cell("fields", "A", ttl, 1), Cell("addr", "", ip, 0)>>)]

(* answer_dns(): question(), then the record of the policy or its failure (0) *)
AnswerDns(request, ip, ttl) ==
    LET asked == ReadName(request.cells, 1) IN
    IF request.cells[asked.after].l # "A" THEN Reply(request, asked.after + 1, 0, 0, 0)
    ELSE IF ip = 0 THEN Reply(request, asked.after + 1, 0, 0, 2)
    ELSE Reply(request, asked.after + 1, ip, ttl, 0)

----------------------------------------------------------------------------
(* A name server: records one after the other, names compressed or not *)
WrittenOut(cells, labels) == [i \in DOMAIN labels |-> Label(labels[i])] \o <<End>>
Known(cells, labels) == {p \in DOMAIN cells : ReadName(cells, p).ok /\ ReadName(cells, p).name = labels}
Compressed(cells, labels) ==
    IF Known(cells, labels) # {} THEN <<Pointer(Max(Known(cells, labels)))>>
    ELSE IF Len(labels) > 1 /\ Known(cells, Tail(labels)) # {}
      THEN <<Label(Head(labels)), Pointer(Max(Known(cells, Tail(labels))))>>
    ELSE WrittenOut(cells, labels)

Encode(question, records, compress) ==
    LET Put(cells, labels) == IF compress THEN Compressed(cells, labels) ELSE WrittenOut(cells, labels)
        One(cells, r) ==
          LET owner == cells \o Put(cells, r.owner)
              data == IF r.kind = "CNAME" THEN Put(owner, r.alias) ELSE <<Cell("addr", "", r.addr, 0)>>
          IN owner \o <<Cell("fields", r.kind, r.ttl, Len(data))>> \o data
    IN FoldLeft(One, question, records)

VARIABLES lookup,    \* [host, labels, kind, id]: the query of a resolver
          records,   \* what the server wrote, in order
          section,   \* how many of them it put into the answer section
          message,   \* its response
          parsed     \* what the resolver made of it

wireVars == <<lookup, records, section, message, parsed>>

NoMessage == Query(0, <<"q">>, "A")
NoResult == LookupResult("waiting", <<>>, 0)

WireInit ==
    /\ lookup = [host |-> <<"q">>, labels |-> <<"q">>, kind |-> "A", id |-> 0]
    /\ records = <<>> /\ section = 0 /\ message = NoMessage /\ parsed = NoResult

Asked == Query(lookup.id, lookup.labels, lookup.kind)

(* A resolver's query; an application may write the name as it likes and ask  *)
(* the policy's DNS service for other types.                                  *)
Queries ==
    /\ lookup.id = 0
    /\ lookup' \in [host : {<<"q">>}, labels : {<<"q">>, <<"Q">>}, kind : {"A", "AAAA"}, id : {1}]
    /\ UNCHANGED <<records, section, message, parsed>>

(* a response of a server of the network *)
ServerAnswers ==
    /\ lookup.id # 0 /\ message = NoMessage /\ lookup.kind = "A"
    /\ records' \in RecordLists /\ section' \in {Len(records'), Len(records') \div 2}
    /\ \E compress \in BOOLEAN :
         message' = [Asked EXCEPT !.response = TRUE, !.answers = section', !.count = Len(records'),
                                  !.cells = Encode(@, records', compress)]
    /\ UNCHANGED <<lookup, parsed>>

(* one that is late, truncated, a refusal, or about something else *)
ServerRefuses ==
    /\ lookup.id # 0 /\ message = NoMessage
    /\ LET m == [Asked EXCEPT !.response = TRUE] IN
       message' \in {[m EXCEPT !.id = 2], [m EXCEPT !.truncated = TRUE], [m EXCEPT !.rcode = 3],
                     [m EXCEPT !.questions = 0], [m EXCEPT !.cells = QuestionCells(<<"x">>, "A")],
                     [m EXCEPT !.cells = Tail(@)], Asked}
    /\ UNCHANGED <<lookup, records, section, parsed>>

(* the policy's own DNS service *)
PolicyAnswers ==
    /\ lookup.id # 0 /\ message = NoMessage
    /\ \E ip \in 0..2, ttl \in 1..2 :
         /\ message' = AnswerDns(Asked, ip, ttl)
         /\ records' = IF ip = 0 \/ lookup.kind # "A" THEN <<>>
                       ELSE <<[owner |-> lookup.host, kind |-> "A", alias |-> <<>>, addr |-> ip, ttl |-> ttl]>>
         /\ section' = Len(records')
    /\ UNCHANGED <<lookup, parsed>>

ResolverParses ==
    /\ message # NoMessage /\ parsed = NoResult
    /\ parsed' = Parse(message, lookup.host, lookup.id)
    /\ UNCHANGED <<lookup, records, section, message>>

WireNext == Queries \/ ServerAnswers \/ ServerRefuses \/ PolicyAnswers \/ ResolverParses

WireSpec == WireInit /\ [][WireNext]_wireVars

----------------------------------------------------------------------------
WireTypeOK ==
    /\ parsed.kind \in {"waiting", "bad", "none", "truncated", "rejected", "addresses"}
    /\ section \in 0..Len(records) /\ message.count \in {0, 1, Len(records)}

AnswerSection == SubSeq(records, 1, section)
Paths == UNION {SetToSeqs(T) : T \in SUBSET DnsNames}
AliasAt(owner) == LET all == SelectSeq(AnswerSection, LAMBDA r : r.kind = "CNAME" /\ r.owner = owner)
                  IN all[Len(all)]
AddressesAt(owner) == {r \in Range(AnswerSection) : r.kind = "A" /\ r.owner = owner}
HasAlias(owner) == \E r \in Range(AnswerSection) : r.kind = "CNAME" /\ r.owner = owner

(* p leads from the host through aliases to the first owner of addresses *)
Leads(p) ==
    /\ p # <<>> /\ Len(p) <= MaxChain /\ p[1] = lookup.host
    /\ \A i \in 1..(Len(p) - 1) : /\ AddressesAt(p[i]) = {} /\ HasAlias(p[i])
                                 /\ AliasAt(p[i]).alias = p[i + 1]
    /\ AddressesAt(p[Len(p)]) # {}
Contradictory == \E r, s \in Range(AnswerSection) : /\ r.kind = "CNAME" /\ s.kind = "CNAME"
                                             /\ r.owner = s.owner /\ r.alias # s.alias

(* However the records are ordered and their names compressed, a lookup ends   *)
(* with addresses exactly if aliases lead from the name it asked for to their  *)
(* owner, without a loop or a contradiction; it ends with all of them and with *)
(* the shortest lifetime on the way. Records outside the answer section and    *)
(* responses to other questions yield nothing; what the policy's own DNS       *)
(* service replies is read back as it was meant.                               *)
AnswersFollowAliases ==
    parsed # NoResult =>
      /\ parsed.kind = "addresses" <=> /\ ~Contradictory /\ Len(records) <= MaxRecords
                                       /\ \E p \in Paths : Leads(p)
      /\ parsed.kind = "addresses" =>
           \A p \in Paths : Leads(p) =>
             LET found == AddressesAt(p[Len(p)]) IN
             /\ Range(parsed.ips) = {r.addr : r \in found} /\ IsInjective(parsed.ips)
             /\ parsed.ttl = Min({r.ttl : r \in found} \cup {AliasAt(p[i]).ttl : i \in 1..(Len(p) - 1)})
=============================================================================
