------------------------------ MODULE Network -------------------------------
(***************************************************************************)
(* Several protocol engines over point-to-point links that lose, delay and *)
(* reorder messages.  A router is named by its router id; the interface    *)
(* and the neighbour at the other end of a link are named by the router    *)
(* they lead to.  One router originates the only route key.                *)
(***************************************************************************)
EXTENDS Engine

CONSTANTS
    Origin,       \* the router that originates the key
    FirstSeqno,   \* its first sequence number
    Cost,         \* Cost[r][n]: cost of the link from r to n, as r measures it
    Fragile,      \* the links <<r, n>> that r may find dead
    Scenarios     \* the bounds a behaviour may have: records of
                  \*   instants    at which events happen (ms)
                  \*   in_flight   capacity of the network: what exceeds it is lost
                  \*   seqno       largest sequence number of the origin

Routers == Neighbors

VARIABLES
    engines,      \* the engine of each router
    network,      \* the messages in flight
    now,
    scenario      \* the bounds, the same throughout

vars == <<engines, network, now, scenario>>

Linked(r) == {n \in Routers \ {r} : Cost[r][n] < INFINITY}

Key == CHOOSE k \in Keys : TRUE

\* What arrives of an outbound message: its TLV, without its send timing.
Tlv(m) ==
    CASE m.kind = "update" -> [kind |-> "update", key |-> m.key, rid |-> m.rid,
                               seqno |-> m.seqno, metric |-> m.metric, interval |-> m.interval]
      [] m.kind = "route"  -> [kind |-> "route", key |-> m.key]
      [] m.kind = "seqno"  -> [kind |-> "seqno", key |-> m.key, rid |-> m.rid,
                               seqno |-> m.seqno, hops |-> m.hops]

\* The messages of router r, addressed over the link they leave by.
Output(r, e) == {[from |-> r, to |-> m.iface, tlv |-> Tlv(m)] : m \in e.sent}

Order == [n \in Neighbors |-> n]

\* Router r handles an event; its output is handed to the network, and any
\* part of it is lost.
Handle(r, e, inFlight) ==
    /\ e.sequence_number <= scenario.seqno
    /\ engines' = [engines EXCEPT ![r] = Begin(Finish(e))]
    /\ \E kept \in SUBSET Output(r, e) :
         /\ network' = inFlight \cup kept
         /\ Cardinality(network') <= scenario.in_flight
    /\ UNCHANGED <<now, scenario>>

-----------------------------------------------------------------------------

Ethernet == [family |-> FamilyOf[Origin], update_interval |-> DefaultInterval,
             split_horizon |-> TRUE, no_next_hop |-> {}]

Quiet(r) == [expired |-> {}, cost |-> Cost[r]]

Heard(cost) == [hello |-> TRUE, cost |-> cost, first |-> [kind |-> "none"],
                second |-> [kind |-> "none"]]

\* A router with its links up and its neighbours heard, before any route.
Attached(r, t) ==
    LET e0 == NewEngine(r, FirstSeqno)
        state == [family |-> Ethernet.family, update_interval |-> DefaultInterval,
                  split_horizon |-> TRUE, no_next_hop |-> {},
                  next_update |-> t + DefaultInterval * 10,
                  last_full_update |-> NeverSent]
    IN  [e0 EXCEPT !.interfaces = [n \in Linked(r) |-> state],
                   !.neighbours = [n \in Linked(r) |-> [cost |-> Cost[r][n], candidates |-> 0]]]

Init ==
    /\ scenario \in Scenarios
    /\ now = Min(scenario.instants)
    /\ LET o == Finish(Originate(Attached(Origin, now), Key, 0, Order, now))
       IN  /\ engines = [r \in Routers |-> IF r = Origin THEN Begin(o) ELSE Attached(r, now)]
           /\ network = Output(Origin, o)

Deliver ==
    \E m \in network :
        Handle(m.to, Receive(Begin(engines[m.to]), m.from,
                             [hello |-> FALSE, cost |-> Unobserved, first |-> m.tlv,
                              second |-> [kind |-> "none"]], Order, now),
               network \ {m})

\* Router r finds its link to n dead; n has not noticed.
LinkFails ==
    \E l \in Fragile :
        /\ l[2] \in DOMAIN engines[l[1]].interfaces
        /\ Handle(l[1], InterfaceDown(Begin(engines[l[1]]), l[2], Order, now), network)

LinkReturns ==
    \E l \in Fragile :
        /\ l[2] \notin DOMAIN engines[l[1]].interfaces
        /\ Handle(l[1], InterfaceUp(Begin(engines[l[1]]), l[2], Ethernet, Quiet(l[1]), Order, now),
                  network)

\* A Hello and an IHU arrive from the other end of a link that is up.
HearHello ==
    \E r \in Routers : \E n \in Linked(r) :
        /\ n \in DOMAIN engines[r].interfaces /\ n \notin DOMAIN engines[r].neighbours
        /\ Handle(r, Receive(Begin(engines[r]), n, Heard(Cost[r][n]), Order, now), network)

RunTimers ==
    \E r \in Routers : Handle(r, Tick(Begin(engines[r]), Quiet(r), Order, now), network)

Advance ==
    /\ now' \in {t \in scenario.instants : t > now}
    /\ UNCHANGED <<engines, network, scenario>>

Next ==
    \/ Deliver
    \/ LinkFails
    \/ LinkReturns
    \/ HearHello
    \/ RunTimers
    \/ Advance

Spec == Init /\ [][Next]_vars

-----------------------------------------------------------------------------
(* Properties *)

\* The routers of S send the key to each other for ever.
ForwardingLoop(S) ==
    /\ S # {}
    /\ \A r \in S : /\ r # Origin
                    /\ Key \in DOMAIN engines[r].selected
                    /\ engines[r].selected[Key].via \in S

\* Is the announcement behind the selected route of r still feasible?
SelectedFeasible(r) ==
    LET e == engines[r]
        c == Candidate(e, Key, e.selected[Key].via)
    IN  WithinHistory(e, Key, c.rid, [seqno |-> c.seqno, metric |-> c.advertised_metric])

\* A forwarding loop needs a router that keeps a selected route which is no
\* longer feasible against the router's own history: as long as every router
\* of a cycle holds a feasible route, distances decrease along the cycle.
\* Loss, delay and reordering alone never produce a loop.
LoopNeedsStaleRoute ==
    \A S \in SUBSET Routers : ForwardingLoop(S) => \E r \in S : ~SelectedFeasible(r)

\* Following the selected routes never revisits a router.
NoForwardingLoop == \A S \in SUBSET Routers : ~ForwardingLoop(S)

=============================================================================
