-------------------------------- MODULE Wire --------------------------------
(***************************************************************************)
(* The wire format (babel-protocol: wire.rs and wire/): what the engine    *)
(* says of a next hop (engine/output.rs), how the packetizer turns TLVs    *)
(* into datagrams that can be read on their own, and how a receiver        *)
(* resolves the state that TLVs of one datagram share: router id, next     *)
(* hops, default prefixes.  Octets of addresses and prefixes are kept      *)
(* where TLVs share or count them; prefix lengths are whole octets.        *)
(* Sequence numbers, intervals, nonces and costs are copied unread and     *)
(* left out, as is the value of a sub-TLV that is kept but not used.       *)
(***************************************************************************)
EXTENDS Integers, Sequences, SequencesExt, FiniteSets, FiniteSetsExt

CONSTANT
    Links       \* what a behaviour is about: [source (address of the sender), budget
                \* (max_packet_size), sent (TLVs a packet of the engine may hold), read
                \* (TLVs a datagram of another implementation may hold), length]

INFINITY == 65535
HEADER == 4
\* None of an Option.
Absent == << >>

VARIABLES
    link,
    phase,      \* "encoding", "sent" or "failed"; "reading", "read" or "rejected"
    packet,     \* OutboundPacket, or the TLVs of the datagram that is read
    offset,     \* how many of its TLVs are done
    packets,    \* the datagrams that are complete
    body,       \* the datagram that is being filled
    context,    \* EncodeContext
    has_hello,
    state,      \* ParserState
    tlvs        \* what decode_packet has made of the datagram so far

sender == <<packets, body, context, has_hello>>
receiver == <<state, tlvs>>
vars == <<link, phase, packet, offset, sender, receiver>>

-----------------------------------------------------------------------------
(* Addresses, prefixes and sizes *)

\* AddressEncoding
Wildcard == 0
Ipv4 == 1
Ipv6 == 2
Ipv6LinkLocal == 3
Ipv4ViaIpv6 == 4
Encodings == 0..4

Family(ae) == IF ae \in {Ipv4, Ipv4ViaIpv6} THEN 4 ELSE 6

AddressLen(ae) == <<4, 16, 8, 4>>[ae]

\* Of an address, net stands for the octets that the link-local encoding
\* leaves out.
LinkLocal == "fe80::/64"

EncodeAddress(a) ==
    IF a.family = 4 THEN [ae |-> Ipv4, net |-> a.net, host |-> a.host]
    ELSE IF a.net = LinkLocal THEN [ae |-> Ipv6LinkLocal, host |-> a.host]
    ELSE [ae |-> Ipv6, net |-> a.net, host |-> a.host]

DecodeAddress(e) ==
    IF e.ae = Ipv6LinkLocal THEN [family |-> 6, net |-> LinkLocal, host |-> e.host]
    ELSE [family |-> Family(e.ae), net |-> e.net, host |-> e.host]

Prefix(family, local, octets) == [family |-> family, local |-> local, octets |-> octets]

AeForKey(key, via_v6) ==
    IF key.destination.family = 6 THEN Ipv6
    ELSE IF via_v6 THEN Ipv4ViaIpv6
    ELSE Ipv4

Zeroes(n) == [i \in 1..n |-> 0]

Padded(octets, n) == octets \o Zeroes(n - Len(octets))

\* RouterId::new
NewRouterId(octets) ==
    IF Range(octets) \in {{0}, {255}} THEN Absent ELSE octets

\* router_id_from_prefix: the last eight octets of the address.
RouterIdFromPrefix(prefix) ==
    IF prefix.family = 4 THEN Zeroes(4) \o Padded(prefix.octets, 4)
    ELSE IF prefix.local THEN Padded(prefix.octets, 8)
    ELSE SubSeq(Padded(prefix.octets, 16), 9, 16)

\* The octets of an encoded sub-TLV and of an encoded TLV (put_tlv).
SubLen(s) ==
    CASE s.type = "source" -> 3 + Len(s.octets)
      [] s.type = "timestamp" -> 2 + s.length
      [] OTHER -> 2

ValueLen(w) ==
    CASE w.type = "ack" -> 2
      [] w.type = "hello" -> 6
      [] w.type = "ihu" -> 6 + (IF w.address.ae = Wildcard THEN 0 ELSE AddressLen(w.address.ae))
      [] w.type = "router_id" -> 10
      [] w.type = "next_hop" -> 2 + AddressLen(w.address.ae)
      [] w.type = "update" -> 10 + Len(w.octets)
      [] w.type = "route_request" -> 2 + Len(w.octets)
      [] w.type = "seqno_request" -> 14 + Len(w.octets)

TlvLen(w) == 2 + ValueLen(w) + FoldLeft(LAMBDA n, s : n + SubLen(s), 0, w.subs)

BodyLen(ws) == FoldLeft(LAMBDA n, w : n + TlvLen(w), 0, ws)

-----------------------------------------------------------------------------
(* What the engine says *)

\* advertisement: the route key to a neighbour on interface i, with the metric
\* and the next hop that its addresses and policy allow.  i is [transport,
\* ipv4_next_hop, ipv4, ipv6 (addresses or Absent), ipv4_via_ipv6].
Advertisement(i, key, router_id, metric) ==
    LET ipv4 == IF i.ipv4_next_hop = "ipv6" THEN Absent ELSE i.ipv4
        is_v4 == key.destination.family = 4
        unavailable ==
            \/ is_v4 /\ ipv4 = Absent /\ (~i.ipv4_via_ipv6 \/ i.ipv4_next_hop = "ipv4")
            \/ i.transport = 4 /\ (~is_v4 \/ ipv4 = Absent) /\ i.ipv6 = Absent
        finite == metric # INFINITY /\ ~unavailable
    IN  [type |-> "update", key |-> key, router_id |-> router_id,
         metric |-> IF finite THEN metric ELSE INFINITY,
         next_hop |-> IF ~finite THEN Absent
                      ELSE IF is_v4 /\ ipv4 # Absent THEN ipv4
                      ELSE IF i.transport = 4 THEN i.ipv6
                      ELSE Absent,
         v4_via_v6 |-> is_v4 /\ finite /\ ipv4 = Absent]

-----------------------------------------------------------------------------
(* Encoding: encode_outbound_tlv *)

NoContext == [router_id |-> Absent, next_hop |-> [f \in {4, 6} |-> Absent]]

SourceSub(key) ==
    IF key.source = Absent THEN << >> ELSE <<[type |-> "source", octets |-> key.source]>>

StampSub(t, length) ==
    IF t.stamped THEN <<[type |-> "timestamp", length |-> length, at |-> "queued"]>> ELSE << >>

\* The encoder omits no octets and sets no flags.
KeyTlv(type, key, via_v6) ==
    IF key = Absent
    THEN [type |-> type, ae |-> Wildcard, octets |-> << >>, subs |-> << >>]
    ELSE [type |-> type, ae |-> AeForKey(key, via_v6), octets |-> key.destination.octets,
          subs |-> SourceSub(key)]

WireUpdate(u) ==
    KeyTlv("update", u.key, u.v4_via_v6)
      @@ [omitted |-> 0, default |-> FALSE, identifies |-> FALSE, metric |-> u.metric]

\* A finite Update is preceded by the router id and the next hop it needs,
\* unless this datagram has said them already.
EncodeUpdate(u, c) ==
    LET names == u.key # Absent /\ u.metric # INFINITY /\ c.router_id # u.router_id
        family == IF u.v4_via_v6 \/ u.next_hop.family = 6 THEN 6 ELSE 4
        points == /\ u.metric # INFINITY /\ u.next_hop # Absent
                  /\ c.next_hop[family] # u.next_hop
    IN  [tlvs |-> (IF names THEN <<[type |-> "router_id", id |-> u.router_id, subs |-> << >>]>>
                   ELSE << >>)
                  \o (IF points THEN <<[type |-> "next_hop", address |-> EncodeAddress(u.next_hop),
                                        subs |-> << >>]>>
                      ELSE << >>)
                  \o <<WireUpdate(u)>>,
         context |-> [router_id |-> IF names THEN u.router_id ELSE c.router_id,
                      next_hop |-> IF points THEN [c.next_hop EXCEPT ![family] = u.next_hop]
                                   ELSE c.next_hop]]

EncodeTlv(t, c) ==
    IF t.type = "update" THEN EncodeUpdate(t, c)
    ELSE [tlvs |-> << CASE t.type = "ack" -> [type |-> "ack", subs |-> << >>]
                        [] t.type = "hello" -> [type |-> "hello", subs |-> StampSub(t, 4)]
                        [] t.type = "ihu" ->
                              [type |-> "ihu", subs |-> StampSub(t, 8),
                               address |-> IF t.address = Absent THEN [ae |-> Wildcard]
                                           ELSE EncodeAddress(t.address)]
                        [] t.type = "route_request" -> KeyTlv("route_request", t.key, FALSE)
                        [] t.type = "seqno_request" ->
                              KeyTlv("seqno_request", t.key, FALSE)
                                @@ [id |-> t.router_id, hop_count |-> t.hop_count] >>,
          context |-> c]

EncodeGroup(group, c) ==
    FoldLeft(LAMBDA r, t : LET e == EncodeTlv(t, r.context)
                           IN  [tlvs |-> r.tlvs \o e.tlvs, context |-> e.context],
             [tlvs |-> << >>, context |-> c], group)

\* stamp_hello_timestamps, when the datagram leaves.
StampHello(d) ==
    [i \in DOMAIN d |->
        IF d[i].type = "hello"
        THEN [d[i] EXCEPT !.subs = [j \in DOMAIN @ |-> [@[j] EXCEPT !.at = "sent"]]]
        ELSE d[i]]

-----------------------------------------------------------------------------
(* Packets: encode_packets *)

Stamped(t) == t.type \in {"hello", "ihu"} /\ t.stamped

\* The end of the group at the offset: a timestamped Hello takes the IHUs that
\* follow it along.
GroupEnd ==
    IF packet[offset + 1].type = "hello" /\ Stamped(packet[offset + 1])
    THEN Max({n \in offset + 1 .. Len(packet) :
                \A i \in offset + 2 .. n : packet[i].type = "ihu"})
    ELSE offset + 1

\* requires_fresh_next_hop_context: the datagram has named another next hop than
\* the sender, who is meant here.
RequiresFreshNextHop(t, c) ==
    /\ t.type = "update" /\ t.metric # INFINITY /\ t.next_hop = Absent
    /\ c.next_hop[IF t.v4_via_v6 \/ (t.key # Absent /\ t.key.destination.family = 6)
                  THEN 6 ELSE 4] # Absent

Fail ==
    /\ phase' = "failed"
    /\ packets' = << >> /\ body' = << >> /\ context' = NoContext /\ has_hello' = FALSE
    /\ UNCHANGED <<link, packet, offset, receiver>>

\* Mutant: a second Hello goes into the same datagram.
SplitsByContext(t) == body # << >> /\ RequiresFreshNextHop(t, context)

\* Before this group the datagram ends, whatever its size.
Splits(t) ==
    body # << >> /\ (RequiresFreshNextHop(t, context) \/ (t.type = "hello" /\ has_hello))

BodyBudget == Min({link.budget, 65535 + HEADER}) - HEADER

\* Mutant: what an earlier datagram has said is not said again.
SplitContextKept == context

\* A datagram starts without context.
SplitContext == NoContext

\* One round of the loop.
Encode ==
    /\ phase = "encoding"
    /\ offset < Len(packet)
    /\ link.budget >= HEADER
    /\ LET first == packet[offset + 1]
           group == SubSeq(packet, offset + 1, GroupEnd)
           split == Splits(first)
           tried == EncodeGroup(group, IF split THEN SplitContext ELSE context)
           full == ~split /\ body # << >> /\ BodyLen(body) + BodyLen(tried.tlvs) > BodyBudget
           encoded == IF full THEN EncodeGroup(group, SplitContext) ELSE tried
           fresh == split \/ full
       IN  IF \/ first.type = "ihu" /\ Stamped(first)
              \/ BodyLen(tried.tlvs) > BodyBudget \/ BodyLen(encoded.tlvs) > BodyBudget
           THEN Fail
           ELSE /\ packets' = IF fresh THEN Append(packets, StampHello(body)) ELSE packets
                /\ body' = (IF fresh THEN << >> ELSE body) \o encoded.tlvs
                /\ context' = encoded.context
                /\ has_hello' = (first.type = "hello" \/ (~fresh /\ has_hello))
                /\ offset' = GroupEnd
                /\ UNCHANGED <<link, phase, packet, receiver>>

\* The last datagram; or a budget without room for a header.
Finish ==
    /\ phase = "encoding"
    /\ IF link.budget < HEADER THEN Fail
       ELSE /\ offset = Len(packet)
            /\ phase' = "sent"
            /\ packets' = Append(packets, StampHello(body))
            /\ body' = << >> /\ context' = NoContext /\ has_hello' = FALSE
            /\ UNCHANGED <<link, packet, offset, receiver>>

-----------------------------------------------------------------------------
(* Decoding: decode_packet *)

\* ParserState::new
NewState(source) ==
    [router_id |-> Absent, prefixes |-> [ae \in Ipv4..Ipv4ViaIpv6 |-> Absent],
     next_hop |-> [f \in {4, 6} |-> IF source.family = f THEN source ELSE Absent]]

\* decode_sub_tlvs, up to the values that are only kept.  In a TLV without a
\* prefix ae is the wildcard.
DecodeSubs(subs, ae) ==
    LET sources == SelectSeq(subs, LAMBDA s : s.type = "source")
    IN  [invalid |-> \E s \in Range(subs) : s.type = "truncated",
         unknown |-> \/ \E s \in Range(subs) : s.type = "mandatory"
                     \/ Len(sources) > 1
                     \/ sources # << >> /\ (ae = Wildcard \/ sources[1].octets = << >>
                                              \/ Len(sources[1].octets) > AddressLen(ae)),
         source |-> IF sources = << >> THEN Absent ELSE sources[1].octets]

\* What a TLV comes to: an error of the whole datagram; nothing; or a value.
Invalid(st) == [state |-> st, values |-> << >>, invalid |-> TRUE]
Nothing(st) == [state |-> st, values |-> << >>, invalid |-> FALSE]
Value(st, v) == [state |-> st, values |-> <<v>>, invalid |-> FALSE]

Checked(st, subs, v) ==
    IF subs.invalid THEN Invalid(st) ELSE IF subs.unknown THEN Nothing(st) ELSE Value(st, v)

Octets(w, default) == SubSeq(default, 1, w.omitted) \o w.octets

KeyOf(ae, octets, source) ==
    [destination |-> Prefix(Family(ae), ae = Ipv6LinkLocal, octets), source |-> source]

\* The state that an Update with a prefix leaves to those after it.
AfterPrefix(w, octets, st) ==
    [st EXCEPT
       !.prefixes[w.ae] = IF w.default THEN Padded(octets, AddressLen(w.ae)) ELSE @,
       !.router_id = IF w.identifies
                     THEN NewRouterId(RouterIdFromPrefix(KeyOf(w.ae, octets, Absent).destination))
                     ELSE @]

\* Mutant: an Update that is not understood leaves the state alone.
ResolveUpdateOnly(w, octets, st) ==
    LET after == AfterPrefix(w, octets, st)
        subs == DecodeSubs(w.subs, w.ae)
        next_hop == after.next_hop[IF w.ae = Ipv4 THEN 4 ELSE 6]
    IN  IF subs.unknown THEN Nothing(st)
        ELSE IF ~subs.invalid /\ w.metric # INFINITY
                  /\ (after.router_id = Absent \/ next_hop = Absent) THEN Nothing(after)
        ELSE Checked(after, subs,
                [type |-> "update", key |-> KeyOf(w.ae, octets, subs.source),
                 router_id |-> after.router_id, metric |-> w.metric,
                 next_hop |-> IF w.metric = INFINITY THEN Absent ELSE next_hop,
                 v4_via_v6 |-> w.ae = Ipv4ViaIpv6])

\* The state changes first, whatever becomes of the Update ("Parser state changes
\* happen before mandatory sub-TLV handling").
ResolveUpdate(w, octets, st) ==
    LET after == AfterPrefix(w, octets, st)
        subs == DecodeSubs(w.subs, w.ae)
        next_hop == after.next_hop[IF w.ae = Ipv4 THEN 4 ELSE 6]
    IN  IF ~subs.invalid /\ w.metric # INFINITY
             /\ (after.router_id = Absent \/ next_hop = Absent) THEN Nothing(after)
        ELSE Checked(after, subs,
                [type |-> "update", key |-> KeyOf(w.ae, octets, subs.source),
                 router_id |-> after.router_id, metric |-> w.metric,
                 next_hop |-> IF w.metric = INFINITY THEN Absent ELSE next_hop,
                 v4_via_v6 |-> w.ae = Ipv4ViaIpv6])

WildcardRetraction ==
    [type |-> "update", key |-> Absent, router_id |-> Absent, metric |-> INFINITY,
     next_hop |-> Absent, v4_via_v6 |-> FALSE]

DecodeUpdate(w, st) ==
    LET length == w.omitted + Len(w.octets)
    IN  CASE w.ae \notin Encodings -> Nothing(st)
          [] w.ae = Wildcard ->
                IF w.metric # INFINITY \/ length # 0 THEN Nothing(st)
                ELSE Checked(st, DecodeSubs(w.subs, Wildcard), WildcardRetraction)
          [] w.ae = Ipv6LinkLocal /\ w.omitted # 0 -> Nothing(st)
          [] w.ae \in Ipv4..Ipv4ViaIpv6 /\ length > AddressLen(w.ae) -> Invalid(st)
          [] w.omitted # 0 /\ st.prefixes[w.ae] = Absent -> Nothing(st)
          [] OTHER -> ResolveUpdate(w, Octets(w, st.prefixes[w.ae]), st)

\* decode_route_request, decode_seqno_request
DecodeRequest(w, st) ==
    CASE w.ae \notin Encodings -> Nothing(st)
      [] w.ae = Wildcard ->
            IF w.type = "seqno_request" \/ w.octets # << >> THEN Nothing(st)
            ELSE Checked(st, DecodeSubs(w.subs, Wildcard), [type |-> w.type, key |-> Absent])
      [] w.ae \in Ipv4..Ipv4ViaIpv6 /\ Len(w.octets) > AddressLen(w.ae) -> Invalid(st)
      [] w.type = "seqno_request" /\ (w.hop_count = 0 \/ NewRouterId(w.id) = Absent) -> Invalid(st)
      [] OTHER ->
            LET subs == DecodeSubs(w.subs, w.ae)
                key == KeyOf(w.ae, w.octets, subs.source)
            IN  Checked(st, subs, IF w.type = "route_request" THEN [type |-> w.type, key |-> key]
                                  ELSE [type |-> w.type, key |-> key, router_id |-> w.id,
                                        hop_count |-> w.hop_count])

\* The state follows a Router-ID or a Next Hop even if its sub-TLVs make it void.
DecodeTlv(w, st) ==
    LET subs == DecodeSubs(w.subs, Wildcard)
        stamps == SelectSeq(w.subs, LAMBDA s :
                     s.type = "timestamp" /\ s.length >= IF w.type = "ihu" THEN 8 ELSE 4)
    IN  CASE w.type = "update" -> DecodeUpdate(w, st)
          [] w.type \in {"route_request", "seqno_request"} -> DecodeRequest(w, st)
          [] w.type = "router_id" ->
                IF NewRouterId(w.id) = Absent THEN Invalid(st)
                ELSE Checked([st EXCEPT !.router_id = w.id], subs, [type |-> "router_id"])
          [] w.type = "next_hop" ->
                IF w.address.ae \notin {Ipv4, Ipv6, Ipv6LinkLocal} THEN Nothing(st)
                ELSE LET a == DecodeAddress(w.address)
                     IN  Checked([st EXCEPT !.next_hop[a.family] = a], subs, [type |-> "next_hop"])
          [] w.type = "ihu" ->
                IF w.address.ae \notin {Wildcard, Ipv4, Ipv6, Ipv6LinkLocal} THEN Nothing(st)
                ELSE Checked(st, subs,
                        [type |-> "ihu", stamps |-> stamps,
                         address |-> IF w.address.ae = Wildcard THEN Absent
                                     ELSE DecodeAddress(w.address)])
          [] w.type = "hello" -> Checked(st, subs, [type |-> "hello", stamps |-> stamps])
          [] OTHER -> Checked(st, subs, [type |-> w.type])

\* One round of the loop.
Read ==
    /\ phase = "reading"
    /\ offset < Len(packet)
    /\ LET r == DecodeTlv(packet[offset + 1], state)
       IN  /\ state' = r.state
           /\ IF r.invalid THEN phase' = "rejected" /\ tlvs' = << >>
              ELSE phase' = phase /\ tlvs' = tlvs \o r.values
    /\ offset' = offset + 1
    /\ UNCHANGED <<link, packet, sender>>

ReadAll ==
    /\ phase = "reading"
    /\ offset = Len(packet)
    /\ phase' = "read"
    /\ UNCHANGED <<link, packet, offset, sender, receiver>>

-----------------------------------------------------------------------------
Init ==
    /\ link \in Links
    /\ \/ phase = "encoding" /\ packet \in SeqOf(link.sent, link.length)
       \/ phase = "reading" /\ packet \in SeqOf(link.read, link.length)
    /\ offset = 0
    /\ packets = << >> /\ body = << >> /\ context = NoContext /\ has_hello = FALSE
    /\ state = NewState(link.source) /\ tlvs = << >>

Next == Encode \/ Finish \/ Read \/ ReadAll

Spec == Init /\ [][Next]_vars

-----------------------------------------------------------------------------
(* Properties *)

Decoded(d) ==
    FoldLeft(LAMBDA r, w : LET v == DecodeTlv(w, r.state)
                           IN  [state |-> v.state, values |-> r.values \o v.values],
             [state |-> NewState(link.source), values |-> << >>], d).values

\* What a TLV of the engine says to the neighbour.
Said(t) ==
    CASE t.type = "hello" ->
            [type |-> "hello", stamps |-> StampHello(EncodeTlv(t, NoContext).tlvs)[1].subs]
      [] t.type = "ihu" -> [type |-> "ihu", stamps |-> StampSub(t, 8), address |-> t.address]
      [] t.type = "update" ->
            [t EXCEPT !.router_id = IF t.metric = INFINITY THEN Absent ELSE @,
                      !.next_hop = IF t.metric # INFINITY /\ @ = Absent THEN link.source ELSE @]
      [] OTHER -> t

\* A retraction is for the key, whoever originates it.
Heard(v) == IF v.type = "update" /\ v.metric = INFINITY THEN [v EXCEPT !.router_id = Absent] ELSE v

\* However a packet is cut into datagrams, each of them says what its TLVs say
\* without the others: the same routes by the same router id, with a next hop of
\* the right family that is the one the engine chose, or the sender.  So it does
\* not matter which of them are lost or overtaken (encode_packets: "independently
\* decodable", decode_packet, advertisement).
Independent ==
    phase = "sent" =>
        LET heard == SelectSeq(FlattenSeq([i \in DOMAIN packets |-> Decoded(packets[i])]),
                               LAMBDA v : v.type \notin {"router_id", "next_hop"})
        IN  [i \in DOMAIN heard |-> Heard(heard[i])] = [i \in DOMAIN packet |-> Said(packet[i])]

\* A datagram fits the budget with the context it repeats, has one Hello at
\* most, and what echoes a timestamp comes after a timestamped Hello of the same
\* datagram ("each such group stays in one datagram").
Framed ==
    \A d \in Range(Append(packets, body)) :
        /\ HEADER + BodyLen(d) <= Max({link.budget, HEADER})
        /\ Cardinality({i \in DOMAIN d : d[i].type = "hello"}) <= 1
        /\ \A i \in DOMAIN d : d[i].type = "ihu" /\ d[i].subs # << >> =>
              \E j \in 1..i - 1 : d[j].type = "hello" /\ d[j].subs # << >>

-----------------------------------------------------------------------------
(* The meaning of a datagram by looking back from each TLV *)

IsPrefixed(w) ==
    w.type = "update" /\ w.ae \in Ipv4..Ipv4ViaIpv6 /\ ~(w.ae = Ipv6LinkLocal /\ w.omitted # 0)

\* The octets of the prefix of each Update: those it has, after those it omits,
\* which are the first of the last default prefix of its encoding.
PrefixAt ==
    LET octets[i \in 1..Len(packet)] ==
            LET w == packet[i]
                defaults == {j \in 1..i - 1 : /\ IsPrefixed(packet[j]) /\ packet[j].default
                                              /\ packet[j].ae = w.ae /\ octets[j].known}
            IN  IF ~IsPrefixed(w) \/ (w.omitted # 0 /\ defaults = {})
                THEN [known |-> FALSE]
                ELSE [known |-> TRUE,
                      octets |->
                         (IF w.omitted = 0 THEN << >>
                          ELSE SubSeq(octets[Max(defaults)].octets \o Zeroes(16), 1, w.omitted))
                         \o w.octets]
    IN  octets

\* The last TLV up to the i-th that names a router id.
RouterIdAt(i) ==
    LET naming == {j \in 1..i : \/ packet[j].type = "router_id"
                                \/ PrefixAt[j].known /\ packet[j].identifies}
        j == Max(naming)
    IN  IF naming = {} THEN Absent
        ELSE IF packet[j].type = "router_id" THEN packet[j].id
        ELSE LET key == KeyOf(packet[j].ae, PrefixAt[j].octets, Absent)
             IN  NewRouterId(RouterIdFromPrefix(key.destination))

\* The last next hop of a family before the i-th TLV, or the sender.
NextHopAt(i, family) ==
    LET pointing == {j \in 1..i : /\ packet[j].type = "next_hop"
                                  /\ packet[j].address.ae \in Ipv4..Ipv6LinkLocal
                                  /\ Family(packet[j].address.ae) = family}
    IN  IF pointing # {} THEN DecodeAddress(packet[Max(pointing)].address)
        ELSE IF link.source.family = family THEN link.source
        ELSE Absent

\* The i-th TLV, an Update with a known prefix, says a route, or nothing.
RouteAt(i) ==
    LET w == packet[i]
        subs == DecodeSubs(w.subs, w.ae)
        finite == w.metric # INFINITY
        hop == NextHopAt(i, IF w.ae = Ipv4 THEN 4 ELSE 6)
    IN  IF subs.unknown \/ (finite /\ (RouterIdAt(i) = Absent \/ hop = Absent)) THEN << >>
        ELSE << [type |-> "update", key |-> KeyOf(w.ae, PrefixAt[i].octets, subs.source),
                 router_id |-> RouterIdAt(i), metric |-> w.metric,
                 next_hop |-> IF finite THEN hop ELSE Absent,
                 v4_via_v6 |-> w.ae = Ipv4ViaIpv6] >>

\* Of a datagram that is read to its end every Update with a prefix has been
\* given what the TLVs before it say, by looking back from the Update: also
\* those that were void or not understood, and never those after it
\* (decode_update: "Parser state changes happen before mandatory sub-TLV handling").
LooksBack ==
    phase = "read" =>
        SelectSeq(tlvs, LAMBDA v : v.type = "update" /\ v.key # Absent)
          = FlattenSeq([i \in DOMAIN packet |-> IF PrefixAt[i].known THEN RouteAt(i) ELSE << >>])
=============================================================================
