------------------------------ MODULE SnmpCodec -------------------------------
(***************************************************************************)
(* The packets of nms/snmp.py and nms/snmp_trap.py, which carry a BER      *)
(* codec each: the client builds requests and reads answers, the receiver  *)
(* reads traps, and builds them for its own test endpoint.  A packet is a  *)
(* sequence of octets, a text one of characters, and a name one of arcs,   *)
(* where the code has dotted text.  A value that may be absent is a        *)
(* sequence of at most one.                                                *)
(***************************************************************************)
EXTENDS Integers, Sequences, SequencesExt

CONSTANTS
    NameLists,       \* lists of OIDs put into one request
    AnswerLists,     \* lists of values of an agent, each [tag, int, text]
    Numbers,         \* request-ids, indexes, uptimes and repetitions
    CommunityTexts,  \* communities, and descriptions of traps
    CommunityMost,   \* the characters of a community that are sent: 128
    TextMost,        \* the octets of a text a walk takes: 256
    Cuts             \* lengths to which a datagram may be cut

Byte == 0..255

\* The most octets that fit into one datagram, and the largest number sent.
Datagram == 65507
Largest == 2147483647

\* No surrogates: Python refuses to encode them.
Character(c) == c < 55296 \/ (c >= 57344 /\ c < 1114112)

ASSUME CodecAssumption ==
    /\ Numbers \subseteq 0..Largest /\ Cuts \subseteq Nat
    /\ NameLists \subseteq Seq(Seq(Nat))
    /\ CommunityMost \in Nat /\ TextMost \in Nat
    /\ \A t \in CommunityTexts :
          t \in Seq(Nat) /\ \A i \in DOMAIN t : Character(t[i])

VARIABLES
    sent,    \* the trap or the request of this exchange
    packet,  \* the datagram as it arrives
    hop,     \* "new", "sent" or, of a request, "answered"
    reply,   \* what the agent put into its answer: [status, values]
    whole    \* the datagram was not cut

codecVars == <<sent, packet, hop, reply, whole>>

-----------------------------------------------------------------------------
(* Octets                                                                   *)

Digits(n, base) ==
    LET d[m \in Nat] == IF m < base THEN <<m>> ELSE Append(d[m \div base], m % base)
    IN d[n]

\* Mutant: no octet is put before one whose sign bit is set.
OctetsBare(n) == Digits(n, 256)
\* A number that is not negative, the sign bit of its first octet clear.
Octets(n) ==
    LET d == Digits(n, 256) IN IF d[1] >= 128 THEN <<0>> \o d ELSE d

From(start, raw) ==
    LET n[i \in 0..Len(raw)] == IF i = 0 THEN start ELSE n[i - 1] * 256 + raw[i]
    IN n[Len(raw)]
Unsigned(raw) == From(0, raw)
Signed(raw) == From(IF raw # << >> /\ raw[1] >= 128 THEN -1 ELSE 0, raw)

\* Mutant: the short form holds one length too many.
LengthShort(n) ==
    IF n <= 128 THEN <<n>> ELSE <<128 + Len(Digits(n, 256))>> \o Digits(n, 256)
\* _encode_len knows no more than two octets, which no packet built needs.
Length(n) ==
    IF n < 128 THEN <<n>> ELSE <<128 + Len(Digits(n, 256))>> \o Digits(n, 256)

Tlv(tag, payload) == <<tag>> \o Length(Len(payload)) \o payload

NoElement == [ok |-> FALSE, tag |-> 0, value |-> << >>, start |-> 0, end |-> 0]

ElementFrom(raw, pos, start, size) ==
    IF start + size > Len(raw) + 1 THEN NoElement
    ELSE [ok |-> TRUE, tag |-> raw[pos], start |-> start, end |-> start + size,
          value |-> SubSeq(raw, start, start + size - 1)]

(* The element of raw at pos: where its value starts and where the next    *)
(* one does.  The client takes lengths of up to 4 octets, the receiver of  *)
(* up to 3.                                                                *)
ReadTlv(raw, pos, most) ==
    IF pos + 1 > Len(raw) THEN NoElement
    ELSE LET first == raw[pos + 1]
             start == pos + first - 126   \* the octets of the length are first - 128
         IN IF first < 128 THEN ElementFrom(raw, pos, pos + 2, first)
            ELSE IF first = 128 \/ first - 128 > most \/ start > Len(raw) + 1 THEN NoElement
            ELSE ElementFrom(raw, pos, start, Unsigned(SubSeq(raw, pos + 2, start - 1)))

\* The elements of raw from pos on, up to the first that cannot be read.
Elements(raw, pos, most) ==
    LET from[p \in 1..Len(raw) + 1] ==
            LET e == ReadTlv(raw, p, most)
            IN IF ~e.ok THEN << >> ELSE <<e>> \o from[e.end]
    IN from[pos]

Tags(elements) == [i \in DOMAIN elements |-> elements[i].tag]
Starts(elements, tags) == IsPrefix(tags, Tags(elements))

-----------------------------------------------------------------------------
(* Texts: Python's UTF-8 and str.strip                                      *)

Low(n) == 128 + (n % 64)
Utf8Of(c) ==
    IF c < 128 THEN <<c>>
    ELSE IF c < 2048 THEN <<192 + (c \div 64), Low(c)>>
    ELSE IF c < 65536 THEN <<224 + (c \div 4096), Low(c \div 64), Low(c)>>
    ELSE <<240 + (c \div 262144), Low(c \div 4096), Low(c \div 64), Low(c)>>
Utf8(text) == FlattenSeq([i \in DOMAIN text |-> Utf8Of(text[i])])

\* How many octets there are of a character that begins with this one, if any does.
Wanted(first) ==
    IF first < 128 THEN 1 ELSE IF first \in 194..223 THEN 2
    ELSE IF first \in 224..239 THEN 3 ELSE IF first \in 240..244 THEN 4 ELSE 0

\* What may come second: no form longer than needed, no surrogate, and nothing
\* beyond the last character.
Second(first) ==
    IF first = 224 THEN 160..191 ELSE IF first = 237 THEN 128..159
    ELSE IF first = 240 THEN 144..191 ELSE IF first = 244 THEN 128..143 ELSE 128..191

\* Whether n octets from p on begin a character, and how many of them do.
Belong(raw, p, n) ==
    /\ n <= Wanted(raw[p]) /\ p + n - 1 <= Len(raw)
    /\ n >= 2 => raw[p + 1] \in Second(raw[p])
    /\ \A i \in 2..n - 1 : raw[p + i] \in 128..191
Taken(raw, p) ==
    IF Belong(raw, p, 4) THEN 4 ELSE IF Belong(raw, p, 3) THEN 3
    ELSE IF Belong(raw, p, 2) THEN 2 ELSE 1

Six(bits, octet) == bits * 64 + (octet - 128)
CharacterOf(raw, p, n) ==
    IF n = 1 THEN raw[p]
    ELSE IF n = 2 THEN Six(raw[p] - 192, raw[p + 1])
    ELSE IF n = 3 THEN Six(Six(raw[p] - 224, raw[p + 1]), raw[p + 2])
    ELSE Six(Six(Six(raw[p] - 240, raw[p + 1]), raw[p + 2]), raw[p + 3])

\* decode("utf-8", "replace"): what breaks off is one character by itself.
Replacement == 65533
CharacterAt(raw, p) ==
    IF Taken(raw, p) = Wanted(raw[p]) THEN CharacterOf(raw, p, Taken(raw, p)) ELSE Replacement
Characters(raw) ==
    LET from[p \in 1..Len(raw) + 1] ==
            IF p = Len(raw) + 1 THEN << >>
            ELSE <<CharacterAt(raw, p)>> \o from[p + Taken(raw, p)]
    IN from[1]

\* What needed no replacement is what its characters are encoded as.
ValidUtf8(raw) == Utf8(Characters(raw)) = raw

Space == 9..13 \cup 28..32 \cup 8192..8202
         \cup {133, 160, 5760, 8232, 8233, 8239, 8287, 12288}
Strip(text) ==
    LET kept == {i \in DOMAIN text : text[i] \notin Space}
    IN IF kept = {} THEN << >> ELSE SubSeq(text, Min(kept), Max(kept))

-----------------------------------------------------------------------------
(* Names                                                                    *)

Base128(arc) ==
    LET d == Digits(arc, 128)
    IN [i \in DOMAIN d |-> IF i < Len(d) THEN d[i] + 128 ELSE d[i]]

Arcs128(arcs) == FlattenSeq([i \in DOMAIN arcs |-> Base128(arcs[i])])
Roots(arcs) == arcs[1] * 40 + arcs[2]
Beyond(arcs) == SubSeq(arcs, 3, Len(arcs))

\* _encode_oid of the receiver, none for what is no OID.
TrapName(arcs) ==
    IF Len(arcs) < 2 \/ arcs[1] > 2 \/ (arcs[1] < 2 /\ arcs[2] > 39) THEN << >>
    ELSE Base128(Roots(arcs)) \o Arcs128(Beyond(arcs))

\* encode_oid of the client, which raises for what is no OID or has a first
\* octet above 255.
Askable(arcs) == Len(arcs) >= 2 /\ arcs[1] <= 2 /\ Roots(arcs) <= 255
RequestName(arcs) == <<Roots(arcs)>> \o Arcs128(Beyond(arcs))

\* What is read so far: whole subidentifiers, and the one that goes on.
ReadOctet(s, octet) ==
    IF octet >= 128 THEN [done |-> s.done, open |-> s.open * 128 + (octet - 128)]
    ELSE [done |-> Append(s.done, s.open * 128 + octet), open |-> 0]

Subidentifiers(raw) ==
    LET s[i \in 0..Len(raw)] ==
            IF i = 0 THEN [done |-> << >>, open |-> 0] ELSE ReadOctet(s[i - 1], raw[i])
    IN s[Len(raw)].done

Truncated(raw) == raw = << >> \/ Last(raw) >= 128

\* The first subidentifier is two arcs.
Unrooted(s) ==
    (IF s[1] < 40 THEN <<0, s[1]>>
     ELSE IF s[1] < 80 THEN <<1, s[1] - 40>> ELSE <<2, s[1] - 80>>) \o Tail(s)

\* _ber_oid of the receiver.
NameOfTrap(raw) == IF Truncated(raw) THEN << >> ELSE Unrooted(Subidentifiers(raw))

\* _decode_oid of the client, which takes the first octet for two arcs whatever
\* it is.
NameOfAnswer(raw) ==
    IF raw = << >> \/ (Len(raw) > 1 /\ Truncated(raw)) THEN << >>
    ELSE <<raw[1] \div 40, raw[1] % 40>> \o Subidentifiers(Tail(raw))

-----------------------------------------------------------------------------
(* Traps                                                                    *)

SysUptime   == <<1, 3, 6, 1, 2, 1, 1, 3, 0>>
SnmpTrapOid == <<1, 3, 6, 1, 6, 3, 1, 1, 4, 1, 0>>
IfIndex     == <<1, 3, 6, 1, 2, 1, 2, 2, 1, 1>>
IfOper      == <<1, 3, 6, 1, 2, 1, 2, 2, 1, 10>>
IfDescr     == <<1, 3, 6, 1, 2, 1, 2, 2, 1, 2>>
TrapBase    == <<1, 3, 6, 1, 6, 3, 1, 1, 5>>
Enterprise  == <<1, 3, 6, 1, 4, 1, 8072, 9999>>
Description == <<1, 3, 6, 1, 4, 1, 9999, 1>>

GenericTraps ==
    <<"coldstart", "warmstart", "linkdown", "linkup", "authfailure", "egpneigh">>

\* What the test endpoint can send; port and oper are absent for some.
Traps ==
    [version : {"2c", "v1"}, code : DOMAIN GenericTraps,
     community : CommunityTexts, uptime : Numbers,
     port : {<<n>> : n \in Numbers} \cup {<< >>}, oper : {<<1>>, <<2>>, << >>},
     description : CommunityTexts \cup {<< >>}]

Bind(arcs, tag, payload) == Tlv(48, Tlv(6, TrapName(arcs)) \o Tlv(tag, payload))
When(present, octets) == IF present THEN octets ELSE << >>

PortBinds(t) ==
    When(t.port # << >>,
         Bind(IfIndex \o t.port, 2, Octets(t.port[1]))
         \o When(t.oper # << >>, Bind(IfOper \o t.port, 2, Octets(t.oper[1]))))

Message(version, community, tag, pdu) ==
    Tlv(48, Tlv(2, <<version>>) \o Tlv(4, community) \o Tlv(tag, pdu))

TrapV2c(t) ==
    Message(1, Utf8(t.community), 167,
        Tlv(2, <<0>>) \o Tlv(2, <<0>>) \o Tlv(2, <<0>>)
        \o Tlv(48, Bind(SysUptime, 67, Octets(t.uptime))
                   \o Bind(SnmpTrapOid, 6, TrapName(Append(TrapBase, t.code)))
                   \o PortBinds(t)
                   \o When(t.port # << >>, Bind(IfDescr \o t.port, 4, <<101, 116, 104>>))
                   \o When(t.description # << >>, Bind(Description, 4, Utf8(t.description)))))

TrapV1(t) ==
    Message(0, Utf8(t.community), 164,
        Tlv(6, TrapName(Enterprise)) \o Tlv(64, <<127, 0, 0, 1>>)
        \o Tlv(2, <<t.code - 1>>) \o Tlv(2, <<0>>) \o Tlv(67, Octets(t.uptime))
        \o Tlv(48, PortBinds(t)
                   \o When(t.description # << >>, Bind(Description, 4, Utf8(t.description)))))

(* What a varbind says: its name, its value as text, and the number it is, *)
(* if it is one.                                                           *)
NumberOf(tag, raw) ==
    IF tag = 2 THEN <<Signed(raw)>>
    ELSE IF tag \in {65, 66, 67} THEN <<Unsigned(raw)>> ELSE << >>
ValueOf(tag, raw) ==
    IF tag = 6 THEN NameOfTrap(raw)
    ELSE IF tag \in {2, 65, 66, 67} THEN NumberOf(tag, raw)
    ELSE IF tag = 4 THEN Characters(raw) ELSE raw

\* What a varbind of this name and value tells.
Learn(known, oid, value, number) ==
    [uptime |-> IF oid = SysUptime /\ number # << >> THEN number ELSE known.uptime,
     trap_oid |-> IF value.ok /\ oid = SnmpTrapOid
                  THEN ValueOf(value.tag, value.value) ELSE known.trap_oid,
     port |-> IF /\ number # << >> /\ known.port = << >>
                 /\ IsPrefix(IfIndex, oid) /\ Len(oid) = Len(IfIndex) + 1
              THEN <<Last(oid)>> ELSE known.port,
     oper |-> IF number # << >> /\ IsStrictPrefix(IfOper, oid) THEN number ELSE known.oper]
LearnFrom(known, oid, value) ==
    Learn(known, oid, value, IF value.ok THEN NumberOf(value.tag, value.value) ELSE << >>)

\* One step of _parse_varbind_list, and all of them.
TakeBind(known, bind) ==
    LET name == ReadTlv(bind.value, 1, 3)
    IN IF bind.tag # 48 \/ ~name.ok \/ name.tag # 6 THEN known
       ELSE LearnFrom(known, NameOfTrap(name.value), ReadTlv(bind.value, name.end, 3))

TakeBinds(start, binds) ==
    LET known[i \in 0..Len(binds)] == IF i = 0 THEN start ELSE TakeBind(known[i - 1], binds[i])
    IN known[Len(binds)]

Refused == [ok |-> FALSE, category |-> "", community |-> << >>, uptime |-> << >>,
            port |-> << >>, oper |-> << >>]

NameOfCode(n) == IF n \in DOMAIN GenericTraps THEN GenericTraps[n] ELSE "other"

\* _finalize: the category of a v2c trap is that of its snmpTrapOID.
CategoryOf(known, generic) ==
    IF generic # << >> THEN NameOfCode(generic[1] + 1)
    ELSE IF IsStrictPrefix(TrapBase, known.trap_oid)
         THEN NameOfCode(known.trap_oid[Len(TrapBase) + 1]) ELSE "other"

Finalize(community, generic, known) ==
    [ok |-> TRUE, category |-> CategoryOf(known, generic),
     community |-> Characters(community),
     uptime |-> known.uptime, port |-> known.port, oper |-> known.oper]

\* The fields of a v1 trap and of a v2c trap; the varbinds are read to the end of
\* the PDU, not to the end of their list.
DecodeV1(community, pdu, fields) ==
    IF ~Starts(fields, <<6>>) \/ Len(fields) < 6
       \/ \E i \in 3..6 : fields[i].tag # <<2, 2, 67, 48>>[i - 2] THEN Refused
    ELSE Finalize(community, <<Signed(fields[3].value)>>,
             TakeBinds(
                 [uptime |-> <<Unsigned(fields[5].value)>>,
                  trap_oid |-> NameOfTrap(fields[1].value), port |-> << >>, oper |-> << >>],
                 Elements(pdu, fields[6].start, 3)))
DecodeV2c(community, pdu, fields) ==
    IF ~Starts(fields, <<2, 2, 2, 48>>) THEN Refused
    ELSE Finalize(community, << >>,
             TakeBinds(
                 [uptime |-> << >>, trap_oid |-> << >>, port |-> << >>, oper |-> << >>],
                 Elements(pdu, fields[4].start, 3)))

\* Version, community and PDU, of which the tag says whether it is a v1 trap.
DecodeMessage(msg) ==
    IF \/ Len(msg) < 3 \/ ~Starts(msg, <<2, 4>>) \/ Len(msg[1].value) \notin 1..8
       \/ msg[3].tag \notin {167, 164} THEN Refused
    ELSE IF msg[3].tag = 164
         THEN DecodeV1(msg[2].value, msg[3].value, Elements(msg[3].value, 1, 3))
         ELSE DecodeV2c(msg[2].value, msg[3].value, Elements(msg[3].value, 1, 3))

\* decode_trap.  The message is read to the end of the datagram.
DecodeTrap(data) ==
    LET head == ReadTlv(data, 1, 3)
    IN IF Len(data) < 20 \/ ~head.ok \/ head.tag # 48 THEN Refused
       ELSE DecodeMessage(Elements(data, head.start, 3))

-----------------------------------------------------------------------------
(* Requests and answers                                                     *)

\* GET, GETNEXT and GETBULK, the latter with the most repetitions.
Requests ==
    {r \in [tag : {160, 161, 165}, names : NameLists, id : Numbers,
            repetitions : Numbers, community : CommunityTexts] :
        r.names # << >> /\ (r.tag # 165 => r.repetitions = 0)}

Leading(s) == SubSeq(s, 1, IF Len(s) < CommunityMost THEN Len(s) ELSE CommunityMost)
\* Mutant: the octets are cut, not the characters.
CommunityCut(text) == Leading(Utf8(text))
CommunitySent(text) == Utf8(Leading(text))

Request(r) ==
    Message(1, CommunitySent(r.community), r.tag,
        Tlv(2, Octets(r.id))
        \o (IF r.tag = 165 THEN Tlv(2, Octets(0)) \o Tlv(2, Octets(r.repetitions))
            ELSE Tlv(2, <<0>>) \o Tlv(2, <<0>>))
        \o Tlv(48, FlattenSeq([i \in DOMAIN r.names |->
                       Tlv(48, Tlv(6, RequestName(r.names[i])) \o <<5, 0>>)])))

\* The agent: a request is read by the rules of the receiver's codec, and
\* answered with one value for each name.
NamesAsRead(binds) ==
    [i \in DOMAIN binds |-> NameOfTrap(ReadTlv(binds[i].value, 1, 3).value)]
FieldsAsRead(msg, pdu) ==
    [tag |-> msg[3].tag, community |-> msg[2].value,
     id |-> Signed(pdu[1].value), repetitions |-> Signed(pdu[3].value),
     names |-> NamesAsRead(Elements(pdu[4].value, 1, 3))]
MessageAsRead(msg) == FieldsAsRead(msg, Elements(msg[3].value, 1, 3))
RequestAsRead(data) == MessageAsRead(Elements(ReadTlv(data, 1, 3).value, 1, 3))

IntegerTags == {2, 65, 66, 67, 70}

Raw(v) ==
    IF v.tag \notin IntegerTags THEN v.text
    ELSE IF v.int >= 0 THEN Octets(v.int)
    ELSE LET d == Octets(-v.int - 1) IN [i \in DOMAIN d |-> 255 - d[i]]

\* Values are not made up of others, and a number fits into 8 octets: counters of
\* 64 bits are left out.
Answerable(v) ==
    /\ v \in [tag : Byte, int : Int, text : Seq(Byte)]
    /\ (v.tag \div 32) % 2 = 0
    /\ v.tag \in IntegerTags => Len(Raw(v)) <= 8 /\ (v.tag # 2 => v.int >= 0)
ASSUME AnswerAssumption ==
    \A values \in AnswerLists :
        /\ values \in Seq([tag : Byte, int : Int, text : Seq(Byte)])
        /\ \A i \in DOMAIN values : Answerable(values[i])

Response(r, status, values) ==
    Message(1, CommunitySent(r.community), 162,
        Tlv(2, Octets(r.id)) \o Tlv(2, <<status>>) \o Tlv(2, <<0>>)
        \o Tlv(48, FlattenSeq([i \in DOMAIN values |->
                       Bind(r.names[i], values[i].tag, Raw(values[i]))])))

PduOf(msg) == IF Len(msg) < 3 THEN << >> ELSE Elements(msg[3].value, 1, 4)
Within(top) == IF Tags(top) # <<48>> THEN << >> ELSE PduOf(Elements(top[1].value, 1, 4))
Pdu(data) == Within(Elements(data, 1, 4))

\* _parse_pdu_header: request-id, error-status and error-index, or none.
HeaderOf(pdu) ==
    IF Starts(pdu, <<2, 2, 2>>) THEN [i \in 1..3 |-> Signed(pdu[i].value)] ELSE << >>
Header(data) == HeaderOf(Pdu(data))

\* _extract_snmp_varbinds: names, tags and values; longer texts are dropped.
Varbind(name, tag, raw) ==
    IF name = << >> THEN << >>
    ELSE <<[name |-> name, tag |-> tag,
            int |-> IF tag \notin IntegerTags \/ Len(raw) \notin 1..8 THEN << >>
                    ELSE IF tag = 2 THEN <<Signed(raw)>> ELSE <<Unsigned(raw)>>,
            text |-> IF tag = 4 /\ Len(raw) <= TextMost
                     THEN <<Strip(Characters(raw))>> ELSE << >>]>>
VarbindOf(parts) ==
    IF Len(parts) < 2 \/ parts[1].tag # 6 THEN << >>
    ELSE Varbind(NameOfAnswer(parts[1].value), parts[2].tag, parts[2].value)
VarbindsOf(binds) ==
    FlattenSeq([i \in DOMAIN binds |->
        IF binds[i].tag # 48 THEN << >> ELSE VarbindOf(Elements(binds[i].value, 1, 4))])
VarbindsIn(pdu) == IF Len(pdu) < 4 THEN << >> ELSE VarbindsOf(Elements(pdu[4].value, 1, 4))
Varbinds(data) == VarbindsIn(Pdu(data))

\* _extract_snmp_values: what follows a name in whatever the answer holds, numbers
\* as sequences of one here.  A text that is not UTF-8 is taken for Latin-1, where
\* an octet is its character.
ValueAfterName(tag, raw) ==
    IF tag = 4 THEN <<IF ValidUtf8(raw) THEN Characters(raw) ELSE raw>>
    ELSE IF tag \in IntegerTags /\ Len(raw) \in 1..9
         THEN <<<<IF tag = 2 THEN Signed(raw) ELSE Unsigned(raw)>>>> ELSE << >>
\* A place in a text: a name may come right before it.
Places == [raw : Seq(Byte), pos : Nat \ {0}, named : BOOLEAN]
Place(raw, pos, named) == [raw |-> raw, pos |-> pos, named |-> named]
AnswerValues(data) ==
    LET within[at \in Places] ==
            LET e == ReadTlv(at.raw, at.pos, 4)
            IN IF ~e.ok THEN << >>
               ELSE IF e.tag = 6 THEN within[Place(at.raw, e.end, TRUE)]
               ELSE IF (e.tag \div 32) % 2 = 1
                    THEN within[Place(e.value, 1, FALSE)] \o within[Place(at.raw, e.end, FALSE)]
               ELSE When(at.named, ValueAfterName(e.tag, e.value))
                    \o within[Place(at.raw, e.end, FALSE)]
    IN within[Place(data, 1, FALSE)]

\* Mutant: an answer that lacks a value is filled from the left.
PlacedShort(values, r) ==
    [i \in DOMAIN r.names |-> IF i \in DOMAIN values THEN <<values[i]>> ELSE << >>]
\* _snmp_get: a value for each name asked for, or for none.
Placed(values, r) ==
    [i \in DOMAIN r.names |->
        IF Len(values) = Len(r.names) THEN <<values[i]>> ELSE << >>]
Positions(data, r) == Placed(AnswerValues(data), r)

-----------------------------------------------------------------------------
(* Exchanges                                                                *)

NoAnswer == [status |-> 0, values |-> << >>]

CodecInit ==
    /\ \/ \E t \in Traps : sent = [what |-> "trap", trap |-> t]
       \/ \E r \in Requests : sent = [what |-> "request", request |-> r]
    /\ packet = << >> /\ hop = "new" /\ reply = NoAnswer /\ whole = TRUE

IsTrap == sent.what = "trap"

SendPacket ==
    /\ hop = "new" /\ hop' = "sent"
    /\ IF IsTrap
       THEN packet' = IF sent.trap.version = "v1" THEN TrapV1(sent.trap) ELSE TrapV2c(sent.trap)
       ELSE /\ \A i \in DOMAIN sent.request.names : Askable(sent.request.names[i])
            /\ packet' = Request(sent.request)
    /\ Len(packet') <= Datagram
    /\ UNCHANGED <<sent, reply, whole>>

Answer(status, values) ==
    /\ hop = "sent" /\ ~IsTrap /\ whole
    /\ Len(values) = Len(sent.request.names)
    /\ packet' = Response(sent.request, status, values)
    /\ Len(packet') <= Datagram
    /\ hop' = "answered"
    /\ reply' = [status |-> status, values |-> values]
    /\ UNCHANGED <<sent, whole>>

\* The end of the datagram is missing.
Cut(n) ==
    /\ whole /\ hop = (IF IsTrap THEN "sent" ELSE "answered")
    /\ n < Len(packet)
    /\ packet' = SubSeq(packet, 1, n)
    /\ whole' = FALSE
    /\ UNCHANGED <<sent, hop, reply>>

CodecNext ==
    \/ SendPacket
    \/ \E status \in {0, 2}, values \in AnswerLists : Answer(status, values)
    \/ \E n \in Cuts : Cut(n)

CodecSpec == CodecInit /\ [][CodecNext]_codecVars

-----------------------------------------------------------------------------
(* Properties                                                               *)

CodecTypeOK ==
    /\ packet \in Seq(Byte) /\ Len(packet) <= Datagram
    /\ hop \in {"new", "sent", "answered"}
    /\ whole \in BOOLEAN

\* The receiver reads from a trap what its builder put there, whatever the
\* lengths and numbers, and nothing at all from one that lost its end.
TrapUnderstood ==
    IsTrap /\ hop = "sent" =>
        LET t == sent.trap
        IN DecodeTrap(packet) =
            IF ~whole THEN Refused
            ELSE [ok |-> TRUE, category |-> GenericTraps[t.code],
                  community |-> t.community, uptime |-> <<t.uptime>>, port |-> t.port,
                  oper |-> IF t.port = << >> THEN << >> ELSE t.oper]

\* Names: under 0 and 1 there are forty arcs.  One octet tells two arcs apart as
\* the client reads them below 2.40, and as the rules have it below 2.48.
Named(arcs) == arcs[1] < 2 => arcs[2] < 40
Plain(arcs) == Roots(arcs) < 120

\* A device that goes by the rules reads from a request what was asked, and of the
\* community the characters that are sent.
RequestUnderstood ==
    ~IsTrap /\ hop = "sent" =>
        LET r == sent.request
        IN (\A i \in DOMAIN r.names : Named(r.names[i]) /\ Roots(r.names[i]) < 128)
               => RequestAsRead(packet) = [r EXCEPT !.community = Utf8(Leading(r.community))]

\* A number; a text as UTF-8 or, if it is none, octet by octet.
Expected(v) ==
    IF v.tag # 4 THEN <<v.int>>
    ELSE IF ValidUtf8(v.text) THEN Characters(v.text) ELSE v.text
HasValue(v) == v.tag \in IntegerTags \cup {4}

BindAsAnswered(arcs, v, bind) ==
    /\ Plain(arcs) => bind.name = arcs
    /\ bind.tag = v.tag
    /\ v.tag \in IntegerTags => bind.int = <<v.int>>
    /\ v.tag = 4 => bind.text = IF Len(v.text) <= TextMost
                               THEN <<Strip(Characters(v.text))>> ELSE << >>

ReadAsAnswered(r, v, header, binds, positions) ==
    /\ header = <<r.id, reply.status, 0>>
    /\ (\A i \in DOMAIN v : Named(r.names[i])) =>
           /\ Len(binds) = Len(v)
           /\ \A i \in DOMAIN v : BindAsAnswered(r.names[i], v[i], binds[i])
    /\ \A i \in DOMAIN v :
          positions[i] = IF \A j \in DOMAIN v : HasValue(v[j])
                         THEN <<Expected(v[i])>> ELSE << >>

\* The client reads from an answer the request-id, the status and the values
\* the agent gave, each at the name it was asked for: values of some names
\* missing, no value is taken for another's.  From one that lost its end it
\* takes no request-id, which is how it comes to ignore it.
AnswerUnderstood ==
    hop = "answered" =>
        IF ~whole THEN Header(packet) = << >>
        ELSE ReadAsAnswered(sent.request, reply.values, Header(packet), Varbinds(packet),
                            Positions(packet, sent.request))

\* What one end writes into a packet the other reads from it: traps, requests
\* and answers (nms/snmp.py:13-285, 690-723, nms/snmp_trap.py:33-489).
PacketsUnderstood == TrapUnderstood /\ RequestUnderstood /\ AnswerUnderstood
=============================================================================
