----------------------------- MODULE MCSpeaker ------------------------------
(* Small instances of Speaker: a router 7 with neighbours 1 and 2, each on    *)
(* an interface of its own, which announce routes originated by router 9, and *)
(* an IPv4 neighbour 3 on the first interface.                                *)
EXTENDS Speaker

None == [kind |-> "none"]

Announce(key, rid, seqno, metric) ==
    [kind |-> "update", key |-> key, rid |-> rid, seqno |-> seqno, metric |-> metric,
     interval |-> 400]

Ask(key) == [kind |-> "route", key |-> key]

AskSeqno(key, rid, seqno, hops) ==
    [kind |-> "seqno", key |-> key, rid |-> rid, seqno |-> seqno, hops |-> hops]

Packet(n, first, second) ==
    [from |-> n, hello |-> FALSE, cost |-> Unobserved, first |-> first, second |-> second]

Hello(n, cost) ==
    [from |-> n, hello |-> TRUE, cost |-> cost, first |-> None, second |-> None]

ThreeNeighbors == 1..3

TwoIfaces == <<"eth1", "eth2", "eth1">>

Families == <<6, 6, 4>>

Costs(c) == <<c, 96, 96>>

Ethernet == [family |-> 6, update_interval |-> 1600, split_horizon |-> TRUE, no_next_hop |-> {}]

\* The interfaces are up and the neighbours have been heard.
Warm(e) ==
    LET order == CHOOSE o \in OrdersOf({1, 2}) : TRUE
        t == [expired |-> {}, cost |-> Costs(96)]
        Up(f, i) == Finish(InterfaceUp(Begin(f), i, Ethernet, t, order, 0))
        Heard(f, n) == Finish(Receive(Begin(f), n, Hello(n, 96), order, 0))
    IN  Heard(Heard(Up(Up(e, "eth1"), "eth2"), 1), 2)

Quiet == {[expired |-> {}, cost |-> Costs(96)]}

\* The host that receives packets p at instants i and does nothing else.
Host(i, p) ==
    [instants |-> i, attached |-> {}, policies |-> {}, resets |-> {}, no_next_hops |-> {},
     lost |-> {}, packets |-> p, origin_metrics |-> {}, origin_sets |-> {}, withdrawn |-> {},
     route_policies |-> {}, timers |-> Quiet]

-----------------------------------------------------------------------------
(* Route selection: a key, two neighbours, two sequence numbers, and a link  *)
(* that fails and comes back.                                                *)

SelectionPackets ==
    {Packet(1, Announce("k", 9, s, 0), None) : s \in {0, 1}}
      \cup {Packet(2, Announce("k", 9, s, 50 + 50 * s), None) : s \in {0, 1}}
      \cup {Packet(1, Announce("k", 9, 0, INFINITY), None)}

SelectionTimers ==
    {[expired |-> {}, cost |-> Costs(c)] : c \in {96, INFINITY}}

SelectionHost ==
    [Host({0, 12000, 200000}, SelectionPackets) EXCEPT !.timers = SelectionTimers]

-----------------------------------------------------------------------------
(* Source collection: one neighbour, long silences. *)

\* The worse announcement has an interval of 60 s: it outlives the history
\* that makes it infeasible.
CollectionPackets ==
    {Packet(1, Announce("k", 9, 0, m), None) : m \in {0, 50, INFINITY}}
      \cup {Packet(1, [Announce("k", 9, 0, 200) EXCEPT !.interval = 6000], None)}

CollectionHost == [Host({0, 80000, 200000}, CollectionPackets) EXCEPT !.lost = {"eth1"}]

-----------------------------------------------------------------------------
(* Local origins: two keys, one of them also learned from a neighbour. *)

OriginPackets ==
    {Packet(1, Announce("k", 9, 0, m), None) : m \in {0, INFINITY}}
      \cup {Packet(1, AskSeqno("k", 7, 0, 64), Ask("l"))}

OriginSetChoices ==
    {[x \in {"k", "l"} |-> 0], [x \in {"k"} |-> 50]}

OriginHost ==
    [Host({0, 60000}, OriginPackets) EXCEPT !.origin_metrics = {50},
                                            !.origin_sets = OriginSetChoices,
                                            !.withdrawn = {"k"}]

-----------------------------------------------------------------------------
(* Sequence-number requests: neighbour 1 asks, neighbour 2 has the route. *)

RequestPackets ==
    {Packet(1, AskSeqno("k", 9, 1, h), None) : h \in {1, 2}}
      \cup {Packet(2, Announce("k", 9, 0, m), None) : m \in {0, 50}}
      \cup {Packet(2, Announce("k", 9, 1, 0), None)}

RequestHost ==
    [Host({0, 2000, 6000, 14000, 30000}, RequestPackets)
       EXCEPT !.route_policies = {[reject |-> {<<2, "k">>}, deny |-> {}]},
              !.lost = {"eth2"}]

-----------------------------------------------------------------------------
(* Interfaces: one link with an IPv6 and an IPv4 neighbour. *)

LinkPolicies ==
    {Ethernet,
     [Ethernet EXCEPT !.update_interval = 400, !.split_horizon = FALSE],
     [Ethernet EXCEPT !.family = 4, !.no_next_hop = {"k"}]}

LinkPackets ==
    {Hello(1, 96), Hello(3, 96), Packet(1, Announce("k", 9, 0, 0), Ask(AllKeys)),
     Packet(3, Announce("k", 9, 0, 0), Ask("k")),
     Packet(1, Announce("k", 9, 0, INFINITY), None)}

LinkResets == {<< >>, Costs(200)}

LinkTimers == {[expired |-> x, cost |-> Costs(96)] : x \in {{}, {1}}}

LinkHost ==
    [Host({0, 30000}, LinkPackets)
       EXCEPT !.attached = {"eth1"}, !.policies = LinkPolicies, !.resets = LinkResets,
              !.no_next_hops = {{}, {"k"}}, !.lost = {"eth1"}, !.timers = LinkTimers]

-----------------------------------------------------------------------------
(* Policy and limits: two keys, room for three candidates. *)

PolicyPackets ==
    {Packet(1, Announce("k", 9, 0, 0), Announce("l", 9, 0, 0)),
     Packet(2, Announce("k", 9, 0, 50), Announce("l", 8, 0, 0)),
     Packet(1, Announce(AllKeys, 9, 0, INFINITY), None),
     Packet(2, Ask("k"), Ask(AllKeys))}

PolicyChoices ==
    {[reject |-> {}, deny |-> {<<"eth2", "k">>}],
     [reject |-> {<<1, "k">>}, deny |-> {}]}

PolicyHost ==
    [Host({0, 15000}, PolicyPackets) EXCEPT !.route_policies = PolicyChoices]

-----------------------------------------------------------------------------
(* The instances *)

AllHosts == {SelectionHost, CollectionHost, RequestHost, PolicyHost, OriginHost, LinkHost}

OnlyOriginHost == {OriginHost}

\* All but the host that attaches the interfaces itself meet a warm engine.
WarmInit ==
    /\ host \in Hosts
    /\ engine = IF host = LinkHost THEN NewEngine(Self, FirstSeqno)
                ELSE Warm(NewEngine(Self, FirstSeqno))
    /\ now = Min(host.instants)

WarmSpec == WarmInit /\ [][Next]_vars

=============================================================================
