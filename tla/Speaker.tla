------------------------------ MODULE Speaker -------------------------------
(***************************************************************************)
(* One protocol engine driven by an arbitrary host: every event of the API *)
(* (crates/babel-protocol/src/engine/api.rs) in every order, at instants   *)
(* that never decrease, with any packet of a given set from any neighbour. *)
(* Each event is one action, because the engine is owned by a single task  *)
(* and handles an event to its end before it takes the next one.           *)
(*                                                                         *)
(* A host is the set of inputs it can feed the engine; an event whose      *)
(* inputs are an empty set does not happen with that host.                 *)
(***************************************************************************)
EXTENDS Engine

CONSTANTS
    Self,         \* router id of this engine
    FirstSeqno,   \* sequence number it is started with
    MaxBumps,     \* bound on the increments of its own sequence number
    Hosts         \* the hosts it may be driven by: records of
                  \*   instants        at which events happen (ms)
                  \*   attached        interfaces that may come up
                  \*   policies        of interfaces
                  \*   resets          link costs after a change of metric profile
                  \*   no_next_hops    keys without a next hop, after an address change
                  \*   lost            interfaces that may go down
                  \*   packets         received
                  \*   origin_metrics, origin_sets, route_policies
                  \*   withdrawn       keys that may be withdrawn
                  \*   timers          what link sensing may decide in a tick

\* The TLVs that carry routing information, and none at all.
ASSUME SpeakerAssumption ==
    \A h \in Hosts : \A p \in h.packets :
        {p.first.kind, p.second.kind} \subseteq {"update", "route", "seqno", "none"}

VARIABLES
    engine,
    now,
    host          \* the host, the same throughout

vars == <<engine, now, host>>

\* The iteration orders of a hash map with the keys S.  The candidates are
\* the only one whose order shows, by the neighbours they come from.
OrdersOf(S) ==
    {f \in [S -> 1..Cardinality(S)] : \A m, n \in S : m # n => f[m] # f[n]}

Announcers == {c[2] : c \in DOMAIN engine.candidates}

Orders == OrdersOf(Announcers)

\* try_handle: the engine e left by the handler, with its output accounted for.
Handle(e) ==
    /\ (e.sequence_number - FirstSeqno) % 65536 <= MaxBumps
    /\ engine' = Finish(e)
    /\ UNCHANGED <<now, host>>

\* Link sensing only removes neighbours that exist.
TimersFor(e) == {t \in host.timers : t.expired \subseteq DOMAIN e.neighbours}

-----------------------------------------------------------------------------

Init ==
    /\ engine = NewEngine(Self, FirstSeqno)
    /\ host \in Hosts
    /\ now = Min(host.instants)

BringUp ==
    \E i \in host.attached, p \in host.policies, t \in TimersFor(engine), o \in Orders :
        Handle(InterfaceUp(Begin(engine), i, p, t, o, now))

ChangeInterfacePolicy ==
    \E i \in DOMAIN engine.interfaces, p \in host.policies, r \in host.resets,
       t \in TimersFor(engine), o \in Orders :
        /\ p.family # engine.interfaces[i].family =>
             \A n \in t.expired : IfaceOf[n] # i
        /\ Handle(InterfacePolicyChanged(Begin(engine), i, p, r, t, o, now))

ChangeAddresses ==
    \E i \in DOMAIN engine.interfaces, a \in host.no_next_hops :
        Handle(InterfaceAddressesChanged(Begin(engine), i, a, now))

TakeDown ==
    \E i \in host.lost, o \in Orders : Handle(InterfaceDown(Begin(engine), i, o, now))

ReceivePacket ==
    \E p \in host.packets : \E o \in OrdersOf(Announcers \cup {p.from}) :
        Handle(Receive(Begin(engine), p.from, p, o, now))

OriginateRoute ==
    \E k \in Keys, m \in host.origin_metrics, o \in Orders :
        Handle(Originate(Begin(engine), k, m, o, now))

WithdrawRoute ==
    \E k \in host.withdrawn, o \in Orders : Handle(Withdraw(Begin(engine), k, o, now))

ReplaceAllOrigins ==
    \E s \in host.origin_sets, o \in Orders : Handle(ReplaceOrigins(Begin(engine), s, o, now))

ReplacePolicy ==
    \E p \in host.route_policies, o \in Orders :
        Handle(ReplaceRoutePolicy(Begin(engine), p, o, now))

RunTimers ==
    \E t \in TimersFor(engine), o \in Orders : Handle(Tick(Begin(engine), t, o, now))

\* Time passes while no event is handled.
Advance ==
    /\ now' \in {t \in host.instants : t > now}
    /\ UNCHANGED <<engine, host>>

Next ==
    \/ BringUp
    \/ ChangeInterfacePolicy
    \/ ChangeAddresses
    \/ TakeDown
    \/ ReceivePacket
    \/ OriginateRoute
    \/ WithdrawRoute
    \/ ReplaceAllOrigins
    \/ ReplacePolicy
    \/ RunTimers
    \/ Advance

Spec == Init /\ [][Next]_vars

-----------------------------------------------------------------------------
(* Properties *)

\* Every neighbour is on an attached interface and of the address family that
\* interface speaks now: neither a removed interface nor a changed control
\* transport leaves one behind.  Its counter is the number of its candidates,
\* whatever mix of installs, rejections, expiries and policy changes led here
\* (the subtractions of timers.rs and rib.rs cannot underflow), and no
\* admission exceeds a limit.
NeighborsExact ==
    /\ \A n \in DOMAIN engine.neighbours :
         /\ IfaceOf[n] \in DOMAIN engine.interfaces
         /\ engine.interfaces[IfaceOf[n]].family = FamilyOf[n]
         /\ engine.neighbours[n].candidates =
              Cardinality({c \in DOMAIN engine.candidates : c[2] = n})
         /\ engine.neighbours[n].candidates <= MaxPerNeighbor
    /\ Cardinality(DOMAIN engine.candidates) <= MaxCandidates
    /\ Cardinality(DOMAIN engine.neighbours) <= MaxNeighbors

\* Between events the selected table is the exact image of the candidate
\* table: a selected route is a copy of a live finite candidate, and every
\* key with a usable candidate is selected.  A handler that changes a
\* selection input (a candidate, a link cost, the history) and forgets to
\* reselect breaks it.
SelectionCurrent ==
    /\ DOMAIN engine.selected = {k \in Keys : Usable(engine, k) # {}}
    /\ \A k \in DOMAIN engine.selected :
         LET r == engine.selected[k]
             c == Candidate(engine, k, r.via)
         IN  /\ HasCandidate(engine, k, r.via)
             /\ c.rid = r.rid /\ c.seqno = r.seqno /\ c.metric = r.metric
             /\ r.metric < INFINITY

\* The last snapshot handed to the exporter says what the engine holds: no
\* handler changes the selected routes or the holds without a RoutesChanged.
PublishedCurrent ==
    /\ engine.published.routes = engine.selected
    /\ engine.published.unreachable = DOMAIN engine.tombstones

\* A key is never exported both as a route and as unreachable.
NeverBothWays == DOMAIN engine.selected \cap DOMAIN engine.tombstones = {}

\* All local origins carry the sequence number of the router: a bump reaches
\* every one of them, whichever event caused it.
OriginsCarrySeqno ==
    \A k \in DOMAIN engine.originated : engine.originated[k].seqno = engine.sequence_number

\* While a neighbour may still hold a finite route learned from us, the key
\* is routed, originated or held unreachable: traffic never falls through to
\* a less specific route.  The slack is the time an urgent update may wait.
HeldWhileAdvertised ==
    \A k \in DOMAIN engine.advertised_until :
        engine.advertised_until[k] > now + URGENT_TIMEOUT_MS =>
            k \in DOMAIN engine.selected \cup DOMAIN engine.originated
                    \cup DOMAIN engine.tombstones

\* Every finite update of an event is covered by the feasibility history the
\* event leaves behind: its echo from any neighbour would be infeasible.
SentCovered ==
    \A u \in Finite(engine.sent) :
        /\ Source(u.key, u.rid) \in DOMAIN engine.feasible
        /\ ~FeasibleAgainst([seqno |-> u.seqno, metric |-> u.metric],
                            engine.feasible[Source(u.key, u.rid)].distance)

\* The history of a source only improves, and is forgotten only after the
\* collection time has passed since its last use.
HistoryImproves ==
    [][\A s \in DOMAIN engine.feasible :
         engine.feasible[s].expires >= now =>
           /\ s \in DOMAIN engine'.feasible
           /\ LET d == engine'.feasible[s].distance
              IN  d = engine.feasible[s].distance
                    \/ FeasibleAgainst(d, engine.feasible[s].distance)]_vars

\* The feasibility condition: a route is adopted only if its announcement was
\* strictly better than all this router had announced for that source, or
\* the history of the source had run out.
FeasibleAdoption ==
    [][\A k \in DOMAIN engine'.selected :
         LET r == engine'.selected[k]
             c == Candidate(engine', k, r.via)
             s == Source(k, r.rid)
             kept == /\ k \in DOMAIN engine.selected
                     /\ engine.selected[k].rid = r.rid /\ engine.selected[k].via = r.via
                     /\ engine.selected[k].seqno = r.seqno
         IN  \/ kept
             \/ s \notin DOMAIN engine.feasible
             \/ engine.feasible[s].expires < now
             \/ FeasibleAgainst([seqno |-> c.seqno, metric |-> c.advertised_metric],
                                engine.feasible[s].distance)]_vars

\* Hysteresis: once a key has settled, a usable route is left for another one
\* only after that one has been the pending switch for the whole dwell.
DwellHonoured ==
    [][\A k \in DOMAIN engine.selected \cap DOMAIN engine'.selected :
         LET old == engine.selected[k].via
             new == engine'.selected[k]
             left == /\ \/ k \in engine.settled_routes
                        \/ /\ k \in DOMAIN engine.settling_since
                           /\ now - engine.settling_since[k] >= BetterFor
                     /\ new.via # old
                     /\ HasCandidate(engine', k, old)
                     /\ Candidate(engine', k, old).metric < INFINITY
                     /\ Candidate(engine', k, old).rid = engine.selected[k].rid
         IN  left => /\ k \in DOMAIN engine.pending_switches
                     /\ engine.pending_switches[k].via = new.via
                     /\ engine.pending_switches[k].rid = new.rid
                     /\ now - engine.pending_switches[k].since >= BetterFor]_vars

\* A request leaves the pending table only answered (its requester, if it has
\* one, is sent the route), given up after the last retry, or because a new
\* policy removed the route it was sent through; answered and given-up ones
\* are remembered, so that their copies are not forwarded again.
PendingResolved ==
    [][\A s \in DOMAIN engine.pending_seqno \ DOMAIN engine'.pending_seqno :
         LET p == engine.pending_seqno[s]
             givenUp  == p.retries_left = 0 /\ now >= p.next_retry
             answered == \/ p.requester = Nobody
                         \/ \E u \in engine'.sent :
                              /\ u.kind = "update" /\ u.to = p.requester /\ u.key = s[1]
                              /\ u.rid = s[2] => SeqnoGe(u.seqno, p.seqno)
             removed  == ~HasCandidate(engine', s[1], p.next_hop)
         IN  \/ /\ givenUp \/ answered
                /\ s \in DOMAIN engine'.recent_seqno
                /\ engine'.recent_seqno[s].seqno = p.seqno
             \/ removed]_vars

\* The policies hold for the whole table and for all output: no candidate, and
\* so no selected route, is one the import policy rejects, also after it was
\* replaced, and a key the export policy denies is only announced as
\* unreachable, be it periodically, triggered, repeated or requested.
PolicyEnforced ==
    /\ \A c \in DOMAIN engine.candidates : <<c[2], c[1]>> \notin engine.policy.reject
    /\ \A u \in Finite(engine.sent) : <<u.iface, u.key>> \notin engine.policy.deny

-----------------------------------------------------------------------------
(* Statements of the sources that the code does not meet *)

\* A locally originated key is never exported as unreachable.
OriginNeverUnreachable == DOMAIN engine.originated \cap DOMAIN engine.tombstones = {}

=============================================================================
