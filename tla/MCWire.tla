------------------------------- MODULE MCWire -------------------------------
(***************************************************************************)
(* Small instances of Wire.                                                *)
(***************************************************************************)
EXTENDS Wire

Address(f, net, host) == [family |-> f, net |-> net, host |-> host]
Local == Address(6, LinkLocal, 1)
Four == Address(4, "10.0.0.0", 1)
Global == Address(6, "2001:db8::/64", 1)

R == <<1, 1, 1, 1, 1, 1, 1, 1>>
S == <<2, 2, 2, 2, 2, 2, 2, 2>>

Key(f, octets, source) == [destination |-> Prefix(f, FALSE, octets), source |-> source]
Key4 == Key(4, <<10, 1>>, Absent)
Key6 == Key(6, <<32, 1>>, Absent)
KeyS == Key(6, <<32, 1>>, <<32>>)

\* The interfaces: IPv6 with or without an IPv4 address, and IPv4.
Dual == [transport |-> 6, ipv4_next_hop |-> "auto", ipv4 |-> Four, ipv6 |-> Local,
         ipv4_via_ipv6 |-> TRUE]
Only6 == [Dual EXCEPT !.ipv4 = Absent]
Only4 == [Dual EXCEPT !.transport = 4]
Via6 == [Only4 EXCEPT !.ipv4_next_hop = "ipv6"]

Updates(i) ==
    {Advertisement(i, k, r, 1) : k \in {Key4, Key6}, r \in {R, S}}
      \cup {Advertisement(i, KeyS, R, m) : m \in {1, INFINITY}}

Sensing ==
    {[type |-> "hello", stamped |-> x] : x \in BOOLEAN}
      \cup {[type |-> "ihu", stamped |-> x, address |-> Absent] : x \in BOOLEAN}

Requests ==
    {[type |-> "route_request", key |-> Key4], [type |-> "route_request", key |-> Absent],
     [type |-> "seqno_request", key |-> KeyS, router_id |-> R, hop_count |-> 1],
     [type |-> "ack"],
     WildcardRetraction}

Link(source, budget, sent, read, length) ==
    [source |-> source, budget |-> budget, sent |-> sent, read |-> read, length |-> length]

\* Updates of another implementation, with omitted octets and flags.
Foreign(ae, default, identifies, omitted, octets, metric, subs) ==
    [type |-> "update", ae |-> ae, default |-> default, identifies |-> identifies,
     omitted |-> omitted, octets |-> octets, metric |-> metric, subs |-> subs]

SeqnoRequest(ae, octets, id, hop_count) ==
    [type |-> "seqno_request", ae |-> ae, octets |-> octets, id |-> id, hop_count |-> hop_count,
     subs |-> << >>]

Sub(t) == [type |-> t]
Source(octets) == [type |-> "source", octets |-> octets]

ForeignTlvs ==
    {[type |-> "router_id", id |-> R, subs |-> << >>],
     [type |-> "router_id", id |-> S, subs |-> <<Sub("mandatory")>>],
     [type |-> "next_hop", address |-> EncodeAddress(Four), subs |-> << >>],
     [type |-> "next_hop", address |-> EncodeAddress(Global), subs |-> <<Sub("mandatory")>>],
     Foreign(Ipv4, TRUE, FALSE, 0, <<10, 1>>, 1, << >>),
     Foreign(Ipv4, TRUE, TRUE, 1, <<2, 3, 4>>, 1, <<Sub("mandatory")>>),
     Foreign(Ipv4, FALSE, FALSE, 3, << >>, 1, << >>),
     Foreign(Ipv4ViaIpv6, FALSE, FALSE, 0, <<11>>, 1, <<Source(<<10>>)>>),
     Foreign(Ipv4ViaIpv6, FALSE, FALSE, 1, <<12>>, INFINITY, << >>),
     Foreign(Ipv6, TRUE, TRUE, 0, <<32, 1>>, INFINITY, << >>),
     Foreign(Ipv6, FALSE, FALSE, 4, << >>, 1, <<Sub("optional")>>),
     Foreign(Ipv6LinkLocal, TRUE, TRUE, 0, <<1, 2>>, 1, << >>)}

Odd ==
    {Foreign(Ipv6LinkLocal, FALSE, FALSE, 1, <<2>>, 1, << >>),
     Foreign(Wildcard, FALSE, FALSE, 0, << >>, INFINITY, << >>),
     Foreign(Wildcard, FALSE, FALSE, 0, << >>, 1, << >>),
     Foreign(7, TRUE, TRUE, 0, <<10, 1>>, 1, << >>),
     Foreign(Ipv4, TRUE, FALSE, 0, <<10, 1, 2, 3, 4>>, 1, << >>),
     Foreign(Ipv4, TRUE, FALSE, 0, <<10, 1>>, 1, <<Source(<<10>>), Source(<<11>>)>>),
     Foreign(Ipv4, TRUE, FALSE, 0, <<10, 1>>, 1, <<Sub("truncated")>>),
     Foreign(Ipv4, TRUE, FALSE, 0, <<10, 1>>, 1, << >>),
     Foreign(Ipv4, FALSE, FALSE, 2, <<7>>, 1, << >>),
     [type |-> "router_id", id |-> Zeroes(8), subs |-> << >>],
     [type |-> "router_id", id |-> R, subs |-> << >>],
     [type |-> "next_hop", address |-> [ae |-> Wildcard], subs |-> << >>],
     [type |-> "next_hop", address |-> EncodeAddress(Four), subs |-> << >>],
     [type |-> "ihu", address |-> [ae |-> Ipv4ViaIpv6, net |-> "", host |-> 1], subs |-> << >>],
     [type |-> "ihu", address |-> EncodeAddress(Local), subs |-> <<Source(<<10>>)>>],
     [type |-> "route_request", ae |-> Ipv4, octets |-> <<10>>, subs |-> <<Sub("mandatory")>>],
     SeqnoRequest(Wildcard, << >>, R, 1), SeqnoRequest(Ipv4, <<10>>, Zeroes(8), 1),
     SeqnoRequest(Ipv4, <<10>>, R, 0)}

MCLinks ==
    {Link(Local, 62, Sensing \cup Updates(Dual) \cup {Advertisement(Only6, Key4, R, 1)}, {}, 4),
     Link(Four, 74, Updates(Only4) \cup Updates(Via6), {}, 4),
     Link(Local, 40, Sensing \cup Updates(Only6) \cup Requests, {}, 3),
     Link(Local, 3, Sensing, {}, 1),
     Link(Local, 0, {}, ForeignTlvs, 4),
     Link(Four, 0, {}, ForeignTlvs, 3),
     Link(Local, 0, {}, Odd, 3)}
=============================================================================
