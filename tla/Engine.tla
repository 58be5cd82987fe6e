------------------------------- MODULE Engine -------------------------------
(***************************************************************************)
(* The protocol engine of crates/babel-protocol/src/engine: a synchronous  *)
(* state machine that owns all protocol state, performs no I/O and reads   *)
(* no clock.  An engine is a record e, and each method of the Rust type    *)
(* is an operator that maps an engine (and the instant now, in ms) to the  *)
(* engine the method leaves behind.  Packets it asks its host to send      *)
(* accumulate in e.sent, route snapshots in e.published.                   *)
(*                                                                         *)
(* Maps are functions on the set of keys they contain.  A neighbour        *)
(* stands for its (interface, address) pair, and the next hop of a route   *)
(* is the neighbour that announced it.  Hello and IHU processing           *)
(* (link sensing) enters as an input: the link cost it leaves behind.      *)
(***************************************************************************)
EXTENDS Distance, FiniteSets, FiniteSetsExt, Functions

CONSTANTS
    Keys,            \* route keys (destination and source prefix)
    Neighbors,       \* positive integers, in the order of (interface, address)
    Ifaces,          \* interface names
    IfaceOf,         \* the interface of each neighbour
    FamilyOf,        \* the address family of each neighbour
    MaxNeighbors,    \* ResourceLimits
    MaxCandidates,
    MaxPerNeighbor,
    BetterFor,       \* RouteSelectionConfig: dwell, and the two margins
    MarginMetric,
    MarginPercent,
    DefaultInterval, \* config.update_interval_cs
    HelloInterval,   \* config.hello_interval_cs
    Generations      \* the number of values of the snapshot generation (2^64)

ASSUME EngineAssumption ==
    /\ Neighbors \subseteq Nat \ {0}
    /\ IfaceOf \in [Neighbors -> Ifaces]
    /\ {MaxNeighbors, MaxCandidates, MaxPerNeighbor, BetterFor} \subseteq Nat
    /\ {MarginMetric, MarginPercent} \subseteq Nat
    /\ {DefaultInterval, HelloInterval} \subseteq Nat \ {0}
    /\ Generations \in Nat \ {0, 1}

SOURCE_GC_TIME_MS == 180000
REQUEST_RETRY_INITIAL_MS == 2000
REQUEST_RETRIES == 3
REQUEST_HOP_COUNT == 64
RECENT_REQUEST_MS == 16000
URGENT_TIMEOUT_MS == 200
MAX_TRIGGERED_JITTER_MS == 100
REPEAT_MS == 1000

\* "no requester" and "to the multicast group", where a neighbour is expected.
Nobody == 0

\* The wildcard of an update or a route request, where a key is expected.
AllKeys == "all"

\* A route received with this interval (in cs) lives for three and a half.
Lifetime(interval) == interval * 35

\* Every source is a route key with the router that originates it.
Source(key, rid) == <<key, rid>>

Put(f, x, v) == [y \in DOMAIN f \cup {x} |-> IF y = x THEN v ELSE f[y]]

Drop(f, S) == Restrict(f, DOMAIN f \ S)

\* The state of try_new.
NewEngine(id, seqno) ==
    [id |-> id, sequence_number |-> seqno,
     interfaces |-> << >>, neighbours |-> << >>, candidates |-> << >>,
     feasible |-> << >>, originated |-> << >>, selected |-> << >>,
     pending_seqno |-> << >>, recent_seqno |-> << >>,
     tombstones |-> << >>, advertised_until |-> << >>,
     pending_advertisements |-> << >>, pending_switches |-> << >>,
     settling_since |-> << >>, settled_routes |-> {},
     generation |-> 0, published |-> [routes |-> << >>, unreachable |-> {}],
     policy |-> [reject |-> {}, deny |-> {}], sent |-> {}]

-----------------------------------------------------------------------------
(* Interfaces: engine/interfaces.rs, engine/timers.rs *)

UpdateInterval(e, i) ==
    IF i \in DOMAIN e.interfaces THEN e.interfaces[i].update_interval ELSE DefaultInterval

\* The longest update interval in use, which bounds every neighbour's timers.
LongestInterval(e) ==
    IF e.interfaces = << >>
      THEN DefaultInterval
      ELSE Max({e.interfaces[i].update_interval : i \in DOMAIN e.interfaces})

NextPeriodicDeadline(deadline, now, interval) ==
    IF deadline + interval * 10 > now THEN deadline + interval * 10 ELSE now + interval * 10

PeriodicWindowOpen(now, deadline) == now + MAX_TRIGGERED_JITTER_MS >= deadline

-----------------------------------------------------------------------------
(* Feasibility history and sequence-number requests: engine/sources.rs *)

\* A route of e.candidates, named by its index <<key, neighbour>>.
Candidate(e, key, n) == e.candidates[<<key, n>>]

HasCandidate(e, key, n) == <<key, n>> \in DOMAIN e.candidates

\* Mutant: any route of the same router counts as the selected one.
RetainedSelectedAnyHop(e, key, n) ==
    key \in DOMAIN e.selected /\ e.selected[key].rid = Candidate(e, key, n).rid

\* Same router, interface and next hop as the selected route.
RetainedSelected(e, key, n) ==
    /\ key \in DOMAIN e.selected
    /\ e.selected[key].rid = Candidate(e, key, n).rid
    /\ e.selected[key].via = n

\* Strictly better than everything we ever announced for that source.
WithinHistory(e, key, rid, distance) ==
    Source(key, rid) \in DOMAIN e.feasible =>
        FeasibleAgainst(distance, e.feasible[Source(key, rid)].distance)

CandidateIsFeasible(e, key, n) ==
    LET c == Candidate(e, key, n)
    IN  \/ RetainedSelected(e, key, n)
        \/ WithinHistory(e, key, c.rid, [seqno |-> c.seqno, metric |-> c.advertised_metric])

\* Mutant: the last announcement replaces the history.
MaintainSourceLatest(e, source, distance, now) ==
    [distance |-> distance, expires |-> now + SOURCE_GC_TIME_MS]

\* maintain_source for one source: the history only improves, and each use
\* puts off its collection.
MaintainSource(e, source, distance, now) ==
    [distance |-> IF /\ source \in DOMAIN e.feasible
                     /\ ~FeasibleAgainst(distance, e.feasible[source].distance)
                    THEN e.feasible[source].distance
                    ELSE distance,
     expires  |-> now + SOURCE_GC_TIME_MS]

Update(i, to, key, rid, seqno, metric, interval, deadline) ==
    [kind |-> "update", iface |-> i, to |-> to, key |-> key, rid |-> rid, seqno |-> seqno,
     metric |-> metric, interval |-> interval, deadline |-> deadline]

Finite(messages) == {m \in messages : m.kind = "update" /\ m.metric # INFINITY}

\* maintain_source for every finite update about to be sent.
MaintainSources(e, updates, now) ==
    LET Of(s) == {[seqno |-> u.seqno, metric |-> u.metric] :
                    u \in {v \in Finite(updates) : Source(v.key, v.rid) = s}}
        Touched == {Source(u.key, u.rid) : u \in Finite(updates)}
        Entry(s) == IF s \in Touched
                      THEN MaintainSource(e, s, CHOOSE d \in Of(s) : TRUE, now)
                      ELSE e.feasible[s]
    IN  [e EXCEPT !.feasible = [s \in DOMAIN e.feasible \cup Touched |-> Entry(s)]]

Send(e, messages) == [e EXCEPT !.sent = @ \cup messages]

SeqnoRequest(key, rid, seqno, hops, n) ==
    [kind |-> "seqno", iface |-> IfaceOf[n], to |-> n, key |-> key, rid |-> rid,
     seqno |-> seqno, hops |-> hops]

\* SeqnoRequestSpec
RequestSpec(key, rid, seqno, hops, n, requester) ==
    [key |-> key, rid |-> rid, seqno |-> seqno, hops |-> hops, next_hop |-> n,
     requester |-> requester]

\* originate_seqno_request, for a set of requests about different sources.
OriginateSeqnoRequests(e, specs, now) ==
    LET sources == {Source(r.key, r.rid) : r \in specs}
        Pending(s) == LET r == CHOOSE r \in specs : Source(r.key, r.rid) = s
                      IN  [seqno |-> r.seqno, hops |-> r.hops, next_hop |-> r.next_hop,
                           requester |-> r.requester, retries_left |-> REQUEST_RETRIES,
                           next_retry |-> now + REQUEST_RETRY_INITIAL_MS]
        e1 == [e EXCEPT !.pending_seqno = [s \in DOMAIN e.pending_seqno \cup sources |->
                 IF s \in sources THEN Pending(s) ELSE e.pending_seqno[s]]]
    IN  Send(e1, {SeqnoRequest(r.key, r.rid, r.seqno, r.hops, r.next_hop) : r \in specs})

\* Mutant: the origins keep the old sequence number.
BumpSequenceNumberOnly(e) == [e EXCEPT !.sequence_number = SeqnoNext(@)]

BumpSequenceNumber(e) ==
    LET s == SeqnoNext(e.sequence_number)
    IN  [e EXCEPT !.sequence_number = s,
                  !.originated = [k \in DOMAIN e.originated |->
                                    [e.originated[k] EXCEPT !.seqno = s]]]

-----------------------------------------------------------------------------
(* Advertisements and retractions: engine/output.rs *)

\* advertisement: without a usable next hop on the interface, or when the
\* policy denies it, the route is announced as unreachable.
AdvertisedMetric(e, i, key, metric) ==
    IF \/ i \in DOMAIN e.interfaces /\ key \in e.interfaces[i].no_next_hop
       \/ <<i, key>> \in e.policy.deny
      THEN INFINITY
      ELSE metric

Advertisement(e, i, to, key, rid, seqno, metric, deadline) ==
    Update(i, to, key, rid, seqno, AdvertisedMetric(e, i, key, metric),
           UpdateInterval(e, i), deadline)

\* Mutant: replies are not recorded in the history.
UpdateToUnrecorded(e, key, rid, seqno, metric, destinations, now) ==
    Send(e, {Advertisement(e, IfaceOf[n], n, key, rid, seqno, metric,
                           now + URGENT_TIMEOUT_MS) : n \in destinations})

\* update_action_to_candidate, to each of several destinations.
UpdateTo(e, key, rid, seqno, metric, destinations, now) ==
    LET updates == {Advertisement(e, IfaceOf[n], n, key, rid, seqno, metric,
                                  now + URGENT_TIMEOUT_MS) : n \in destinations}
    IN  Send(MaintainSources(e, updates, now), updates)

\* A specific request is answered to the requester, split horizon or not.
ReplyToRouteRequest(e, key, n, now) ==
    IF key \in DOMAIN e.originated
      THEN UpdateTo(e, key, e.id, e.originated[key].seqno, e.originated[key].metric, {n}, now)
      ELSE IF key \in DOMAIN e.selected
      THEN UpdateTo(e, key, e.selected[key].rid, e.selected[key].seqno,
                    e.selected[key].metric, {n}, now)
      ELSE Send(e, {Update(IfaceOf[n], n, key, Nobody, e.sequence_number, INFINITY,
                           UpdateInterval(e, IfaceOf[n]), now + URGENT_TIMEOUT_MS)})

\* Split horizon suppresses a finite update on the interface of the route.
Suppressed(e, i, key, update) ==
    /\ e.interfaces[i].split_horizon
    /\ IfaceOf[e.selected[key].via] = i
    /\ update.metric # INFINITY

\* What the periodic, triggered and repeated updates say about one route key.
UpdatesFor(e, i, key, deadline) ==
    LET origin == {Advertisement(e, i, Nobody, key, e.id, o.seqno, o.metric, deadline) :
                     o \in {e.originated[k] : k \in {key} \cap DOMAIN e.originated}}
        route  == {Advertisement(e, i, Nobody, key, r.rid, r.seqno, r.metric, deadline) :
                     r \in {e.selected[k] : k \in {key} \cap DOMAIN e.selected}}
        hold   == {Advertisement(e, i, Nobody, k, e.id, e.sequence_number, INFINITY, deadline) :
                     k \in ({key} \cap DOMAIN e.tombstones)
                            \ (DOMAIN e.originated \cup DOMAIN e.selected)}
    IN  origin \cup {u \in route : ~Suppressed(e, i, key, u)} \cup hold

\* send_updates about the given keys on the given interfaces; full marks a
\* dump of the whole table, and deadline[i] says how late it may leave.
SendUpdates(e, keys, ifaces, full, deadline, now) ==
    LET on == ifaces \cap DOMAIN e.interfaces
        Tlvs(i) == UNION {UpdatesFor(e, i, k, deadline[i]) : k \in keys}
        updates == UNION {Tlvs(i) : i \in on}
        e1 == Send(MaintainSources(e, updates, now), updates)
    IN  [e1 EXCEPT !.interfaces =
           [i \in DOMAIN e.interfaces |->
              IF full /\ i \in on /\ Tlvs(i) # {}
                THEN [e.interfaces[i] EXCEPT !.last_full_update = now]
                ELSE e.interfaces[i]]]

Urgent(now) == [i \in Ifaces |-> now + URGENT_TIMEOUT_MS]

Triggered(now) == [i \in Ifaces |-> now + HelloInterval * 5]

\* last_full_update is None
NeverSent == -1

FullUpdateRequestAllowed(e, i, now) ==
    LET last == e.interfaces[i].last_full_update
    IN  last = NeverSent \/ now - last >= HelloInterval * 10

\* send_retraction of the keys of seqno, each with its sequence number.
SendRetraction(e, seqno, now) ==
    Send(e, {Update(i, Nobody, k, e.id, seqno[k], INFINITY, e.interfaces[i].update_interval,
                    now + URGENT_TIMEOUT_MS) : i \in DOMAIN e.interfaces, k \in DOMAIN seqno})

\* advertise_learned for the given selected routes, with their feasibility
\* history (selected_delta).
AdvertiseLearned(e, keys, now) ==
    LET Learned(i, k) == Advertisement(e, i, Nobody, k, e.selected[k].rid, e.selected[k].seqno,
                                       e.selected[k].metric, now + URGENT_TIMEOUT_MS)
        updates == {Learned(i, k) : i \in DOMAIN e.interfaces, k \in keys}
        out     == {u \in updates : ~Suppressed(e, u.iface, u.key, u)}
    IN  Send(MaintainSources(e, out, now), out)

\* The initial copy of an important change is followed by two repeats.
RepeatAdvertisement(e, keys, now) ==
    [e EXCEPT !.pending_advertisements =
       [k \in DOMAIN e.pending_advertisements \cup keys |->
          IF k \in keys THEN [deadline |-> now + REPEAT_MS, left |-> 2]
                        ELSE e.pending_advertisements[k]]]

\* route_snapshot: a full snapshot under a new generation.
RouteSnapshot(e) ==
    [e EXCEPT !.generation = IF @ = Generations - 1 THEN 0 ELSE @ + 1,
              !.published = [routes |-> e.selected, unreachable |-> DOMAIN e.tombstones]]

-----------------------------------------------------------------------------
(* Route selection: engine/rib.rs *)

\* The usable routes of a key: finite and feasible.
Usable(e, key) ==
    {n \in Neighbors : /\ HasCandidate(e, key, n)
                       /\ Candidate(e, key, n).metric < INFINITY
                       /\ CandidateIsFeasible(e, key, n)}

\* candidate_order: metric, then router, then (interface, next hop).
CandidateOrder(e, key, m, n) ==
    LET a == Candidate(e, key, m)
        b == Candidate(e, key, n)
    IN  \/ a.metric < b.metric
        \/ a.metric = b.metric /\ a.rid < b.rid
        \/ a.metric = b.metric /\ a.rid = b.rid /\ m <= n

Best(e, key) ==
    CHOOSE m \in Usable(e, key) : \A n \in Usable(e, key) : CandidateOrder(e, key, m, n)

\* The selected route is still usable.
HasCurrent(e, key) ==
    /\ key \in DOMAIN e.selected
    /\ e.selected[key].via \in Usable(e, key)
    /\ RetainedSelected(e, key, e.selected[key].via)

SettlingSince(e, key, now) ==
    IF key \in DOMAIN e.settling_since THEN e.settling_since[key] ELSE now

\* Mutant: no key ever settles.
SettledNever(e, key, now) == FALSE

Settled(e, key, now) ==
    key \in e.settled_routes \/ now - SettlingSince(e, key, now) >= BetterFor

\* The dwell of the switch from the current route to the best one: the one
\* under way if it is about the same route, a new one otherwise; the peak of
\* the current metric is tracked from there.
Dwell(e, key, best, now) ==
    LET rid    == Candidate(e, key, best).rid
        metric == Candidate(e, key, e.selected[key].via).metric
        fresh  == [rid |-> rid, via |-> best, since |-> now, peak |-> metric]
        known  == /\ key \in DOMAIN e.pending_switches
                  /\ e.pending_switches[key].rid = rid
                  /\ e.pending_switches[key].via = best
    IN  IF known
          THEN [e.pending_switches[key] EXCEPT !.peak = Larger(@, metric)]
          ELSE fresh

\* What reselect decides for one key with a usable route, given the best one
\* and its dwell: the neighbour it chooses, the dwell it leaves pending (none
\* or one) and the new instant the key has been settling since.
Decide(e, key, best, dwell, now) ==
    LET cur  == e.selected[key].via
        metric(n) == Candidate(e, key, n).metric
        since == SettlingSince(e, key, now)
        Better(m, worse) == Significant(m, worse, MarginMetric, MarginPercent)
    IN  CASE ~HasCurrent(e, key) ->
               [via |-> best, dwell |-> {}, since |-> IF Settled(e, key, now) THEN since ELSE now]
          [] HasCurrent(e, key) /\ (best = cur \/ ~Better(metric(best), metric(cur))) ->
               [via |-> cur, dwell |-> {}, since |-> since]
          [] HasCurrent(e, key) /\ best # cur /\ Better(metric(best), metric(cur)) ->
               IF ~Settled(e, key, now)
                 THEN [via |-> best, dwell |-> {}, since |-> now]
               ELSE IF Better(metric(cur), dwell.peak)
                 THEN [via |-> cur, since |-> since,
                       dwell |-> {[dwell EXCEPT !.since = now, !.peak = metric(cur)]}]
               ELSE IF now - dwell.since >= BetterFor
                 THEN [via |-> best, dwell |-> {}, since |-> since]
               ELSE [via |-> cur, dwell |-> {dwell}, since |-> since]

Choice(e, key, now) ==
    LET best == Best(e, key)
    IN  Decide(e, key, best, Dwell(e, key, best, now), now)

\* Mutant: the hold forgets what the neighbours were promised.
HoldUntilInterval(e, key, now) == now + Lifetime(LongestInterval(e))

\* Lost routes stay unreachable until no neighbour can still believe in them.
HoldUntil(e, key, now) ==
    LET of  == {c \in DOMAIN e.candidates : c[1] = key}
        own == {e.advertised_until[k] : k \in {key} \cap DOMAIN e.advertised_until}
    IN  Max({e.candidates[c].expires : c \in of} \cup own
              \cup {now + Lifetime(LongestInterval(e))})

\* HashMap iteration: the first of a set of neighbours in an arbitrary order.
FirstOf(S, order) == CHOOSE n \in S : \A m \in S : order[n] <= order[m]

\* selected_delta: retract and ask again for what was lost, announce what changed.
SelectedDelta(e, before, order, now) ==
    LET lost == DOMAIN before \ DOMAIN e.selected
        Targets(k) == {n \in Neighbors : /\ HasCandidate(e, k, n)
                                         /\ Candidate(e, k, n).metric < INFINITY
                                         /\ ~CandidateIsFeasible(e, k, n)}
        Src(k) == Source(k, before[k].rid)
        asked == {k \in lost : Src(k) \notin DOMAIN e.pending_seqno /\ Targets(k) # {}}
        Wanted(k) == SeqnoNext(IF Src(k) \in DOMAIN e.feasible
                                 THEN e.feasible[Src(k)].distance.seqno
                                 ELSE before[k].seqno)
        requests == {RequestSpec(k, before[k].rid, Wanted(k), REQUEST_HOP_COUNT,
                                 FirstOf(Targets(k), order), Nobody) : k \in asked}
        changed == {k \in DOMAIN e.selected :
                      \/ k \notin DOMAIN before
                      \/ before[k].rid # e.selected[k].rid
                      \/ TriggersUpdate(before[k].metric, e.selected[k].metric)}
        e1 == SendRetraction(RepeatAdvertisement(e, lost \cup changed, now),
                             [k \in lost |-> before[k].seqno], now)
    IN  AdvertiseLearned(OriginateSeqnoRequests(e1, requests, now), changed, now)

\* A route that is gone is held; a key that has a route again is not.
HoldsAfter(e, keys, now) ==
    LET lost == DOMAIN e.selected \ keys
    IN  [k \in (DOMAIN e.tombstones \ keys) \cup lost |->
           IF k \in lost THEN HoldUntil(e, k, now) ELSE e.tombstones[k]]

\* Mutant: only the set of keys is compared.
SelectionChangedKeys(before, after) == DOMAIN after.selected # DOMAIN before.selected

\* A change that the exporter and the neighbours must hear of.
SelectionChanged(before, after) ==
    \/ after.selected # before.selected
    \/ DOMAIN after.tombstones # DOMAIN before.tombstones

\* The selection and the damping state that follow from the choices.
SelectFrom(e, keys, choice, now) ==
    LET Route(k) == LET c == Candidate(e, k, choice[k].via)
                    IN  [rid |-> c.rid, seqno |-> c.seqno, metric |-> c.metric,
                         via |-> choice[k].via]
        settling == {k \in keys : k \in DOMAIN e.settling_since \/ k \notin e.settled_routes}
    IN  [e EXCEPT
           !.selected = [k \in keys |-> Route(k)],
           !.tombstones = HoldsAfter(e, keys, now),
           !.pending_switches = [k \in {j \in keys : choice[j].dwell # {}} |->
                                   CHOOSE d \in choice[k].dwell : TRUE],
           !.settling_since = [k \in settling |-> choice[k].since],
           !.settled_routes = {k \in keys : Settled(e, k, now)}]

\* A changed selection is published and announced.
PublishChange(before, after, order, now) ==
    IF SelectionChanged(before, after)
      THEN SelectedDelta(RouteSnapshot(after), before.selected, order, now)
      ELSE after

Reselect(e, order, now) ==
    LET keys == {k \in Keys : Usable(e, k) # {}}
    IN  PublishChange(e, SelectFrom(e, keys, [k \in keys |-> Choice(e, k, now)], now), order, now)

-----------------------------------------------------------------------------
(* Candidate admission: engine/rib.rs.  A step of the packet loop works on   *)
(* w = [e, changed, rids]: the engine, whether a selection input changed,    *)
(* and the keys whose candidate changed its router.                          *)

\* The number of candidates a neighbour holds, as counted by the engine.
AddCandidates(e, n, count) == [e EXCEPT !.neighbours[n].candidates = @ + count]

\* A retraction marks what is already known, whoever originated it.
Retract(w, indices) ==
    LET known == indices \cap DOMAIN w.e.candidates
        live  == {c \in known : \/ w.e.candidates[c].advertised_metric # INFINITY
                                \/ w.e.candidates[c].metric # INFINITY}
    IN  [w EXCEPT !.changed = @ \/ live # {},
                  !.e.candidates = [c \in DOMAIN @ |->
                     IF c \in known
                       THEN [w.e.candidates[c] EXCEPT !.advertised_metric = INFINITY,
                                                      !.metric = INFINITY]
                       ELSE w.e.candidates[c]]]

\* The limits bind new entries only; existing ones may refresh.
Admitted(e, n, key) ==
    \/ HasCandidate(e, key, n)
    \/ /\ e.neighbours[n].candidates < MaxPerNeighbor
       /\ Cardinality(DOMAIN e.candidates) < MaxCandidates

\* Mutant: satisfied requests are dropped without an answer.
SatisfyRequestsSilently(e, u, metric, now) ==
    [e EXCEPT !.pending_seqno =
       Drop(@, {s \in DOMAIN e.pending_seqno :
                  /\ s[1] = u.key
                  /\ s[2] # u.rid \/ SeqnoGe(u.seqno, e.pending_seqno[s].seqno)})]

\* A feasible update answers the pending requests for its key.
SatisfyRequests(e, u, metric, now) ==
    LET satisfied == {s \in DOMAIN e.pending_seqno :
                        /\ s[1] = u.key
                        /\ s[2] # u.rid \/ SeqnoGe(u.seqno, e.pending_seqno[s].seqno)}
        requesters == {e.pending_seqno[s].requester : s \in satisfied} \ {Nobody}
        e1 == UpdateTo(e, u.key, u.rid, u.seqno, metric, requesters, now)
    IN  [e1 EXCEPT
           !.pending_seqno = Drop(e.pending_seqno, satisfied),
           !.recent_seqno = [s \in DOMAIN e.recent_seqno \cup satisfied |->
              IF s \in satisfied THEN [seqno   |-> e.pending_seqno[s].seqno,
                                       expires |-> now + RECENT_REQUEST_MS]
                                 ELSE e.recent_seqno[s]]]

\* The next sequence number is asked of the neighbour that sent the update.
AskNewer(e, n, u, now) ==
    LET fd == e.feasible[Source(u.key, u.rid)].distance
    IN  OriginateSeqnoRequests(e, {RequestSpec(u.key, u.rid, SeqnoNext(fd.seqno),
                                               REQUEST_HOP_COUNT, n, Nobody)}, now)

\* The candidate is installed or refreshed.
Install(w, n, u, metric, now) ==
    LET c == [rid |-> u.rid, seqno |-> u.seqno, advertised_metric |-> u.metric,
              metric |-> metric, interval |-> u.interval,
              expires |-> now + Lifetime(u.interval), refresh_requested |-> FALSE]
        new == ~HasCandidate(w.e, u.key, n)
        old == Candidate(w.e, u.key, n)
        e1  == AddCandidates(w.e, n, IF new THEN 1 ELSE 0)
    IN  [w EXCEPT
           !.e = [e1 EXCEPT !.candidates = Put(@, <<u.key, n>>, c)],
           !.changed = \/ @
                       \/ new
                       \/ old.rid # u.rid \/ old.seqno # u.seqno \/ old.metric # metric
                       \/ old.advertised_metric # u.metric]

\* A finite update that the policy, the limits and the metric let through.
AcceptUpdate(w, n, u, metric, now) ==
    LET e == w.e
        feasible == WithinHistory(e, u.key, u.rid, [seqno |-> u.seqno, metric |-> u.metric])
        current  == /\ u.key \in DOMAIN e.selected
                    /\ e.selected[u.key].rid = u.rid
                    /\ e.selected[u.key].via = n
        wanted   == /\ Source(u.key, u.rid) \notin DOMAIN e.pending_seqno
                    /\ u.key \in DOMAIN e.selected => metric < e.selected[u.key].metric
    IN  IF ~feasible /\ current
          THEN [w EXCEPT !.e = AskNewer(e, n, u, now)]
        ELSE IF feasible
          THEN Install([w EXCEPT !.e = SatisfyRequests(e, u, metric, now)], n, u, metric, now)
        ELSE Install([w EXCEPT !.e = IF wanted THEN AskNewer(e, n, u, now) ELSE e],
                     n, u, metric, now)

ReceiveUpdate(w, n, u, now) ==
    LET e == w.e
        metric == SafeExtend(u.metric, e.neighbours[n].cost)
    IN  IF u.metric = INFINITY
          THEN Retract(w, {<<k, n>> : k \in IF u.key = AllKeys THEN Keys ELSE {u.key}})
        ELSE IF u.key = AllKeys \/ u.rid = e.id \/ n \notin DOMAIN e.neighbours
          THEN w
        ELSE IF <<n, u.key>> \in e.policy.reject
          THEN IF HasCandidate(e, u.key, n)
                 THEN [w EXCEPT !.changed = TRUE,
                                !.e = [AddCandidates(e, n, -1) EXCEPT
                                         !.candidates = Drop(@, {<<u.key, n>>})]]
                 ELSE w
        ELSE IF ~Admitted(e, n, u.key) \/ (metric # INFINITY /\ metric <= u.metric)
          THEN w
        ELSE AcceptUpdate(w, n, u, metric, now)

-----------------------------------------------------------------------------
(* Sequence-number requests: engine/sources.rs *)

\* Where a request is forwarded: a feasible route if there is one, then the
\* smallest metric and sequence number; ties follow the hash map.
ForwardsTo(e, key, rid, requester, order) ==
    LET routes == {n \in Neighbors \ {requester} :
                     HasCandidate(e, key, n) /\ Candidate(e, key, n).rid = rid}
        Class(n) == IF CandidateIsFeasible(e, key, n) THEN 0 ELSE 1
        Leq(m, n) == LET a == Candidate(e, key, m)
                         b == Candidate(e, key, n)
                     IN  \/ Class(m) < Class(n)
                         \/ /\ Class(m) = Class(n)
                            /\ \/ a.metric < b.metric
                               \/ a.metric = b.metric /\ a.seqno <= b.seqno
        best == {m \in routes : \A n \in routes : Leq(m, n)}
    IN  IF best = {} THEN {} ELSE {FirstOf(best, order)}

\* Already asked, or asked too recently to ask again.
RequestKnown(e, source, seqno, now) ==
    \/ /\ source \in DOMAIN e.pending_seqno
       /\ SeqnoGe(e.pending_seqno[source].seqno, seqno)
    \/ /\ source \in DOMAIN e.recent_seqno
       /\ e.recent_seqno[source].expires >= now
       /\ SeqnoGe(e.recent_seqno[source].seqno, seqno)

HandleSeqnoRequest(e, n, r, order, now) ==
    LET answered == /\ r.key \in DOMAIN e.selected
                    /\ \/ e.selected[r.key].rid # r.rid
                       \/ SeqnoGe(e.selected[r.key].seqno, r.seqno)
        route == e.selected[r.key]
        bumped == IF SeqnoGt(r.seqno, e.originated[r.key].seqno)
                    THEN BumpSequenceNumber(e) ELSE e
        hops == ForwardsTo(e, r.key, r.rid, n, order)
    IN  IF r.key \in DOMAIN e.originated /\ r.rid # e.id
          THEN ReplyToRouteRequest(e, r.key, n, now)
        ELSE IF answered
          THEN UpdateTo(e, r.key, route.rid, route.seqno, route.metric, {n}, now)
        ELSE IF r.rid = e.id /\ r.key \in DOMAIN e.originated
          THEN SendUpdates(bumped, {r.key}, Ifaces, FALSE, Urgent(now), now)
        ELSE IF r.hops <= 1 \/ RequestKnown(e, Source(r.key, r.rid), r.seqno, now)
          THEN e
        ELSE OriginateSeqnoRequests(
               e, {RequestSpec(r.key, r.rid, r.seqno, r.hops - 1, m, n) : m \in hops}, now)

-----------------------------------------------------------------------------
(* Received packets: engine/neighbors.rs *)

RecomputeCandidateMetrics(e, ns) ==
    [e EXCEPT !.candidates =
       [c \in DOMAIN e.candidates |->
          IF c[2] \in ns \cap DOMAIN e.neighbours
            THEN [e.candidates[c] EXCEPT
                    !.metric = SafeExtend(e.candidates[c].advertised_metric,
                                          e.neighbours[c[2]].cost)]
            ELSE e.candidates[c]]]

RouteRequest(i, to, key) == [kind |-> "route", iface |-> i, to |-> to, key |-> key]

\* One TLV of the packet loop, from neighbour n.  TLVs that touch no route
\* (acknowledgements, padding) are "none".
ReceiveTlv(w, n, tlv, order, now) ==
    LET i == IfaceOf[n]
        renamed == /\ tlv.kind = "update" /\ tlv.metric < INFINITY
                   /\ HasCandidate(w.e, tlv.key, n)
                   /\ Candidate(w.e, tlv.key, n).rid # tlv.rid
    IN  CASE tlv.kind = "update" ->
               ReceiveUpdate(IF renamed THEN [w EXCEPT !.rids = @ \cup {tlv.key}] ELSE w,
                             n, tlv, now)
          [] tlv.kind = "route" ->
               [w EXCEPT !.changed = TRUE,
                         !.e = IF tlv.key # AllKeys
                                 THEN ReplyToRouteRequest(@, tlv.key, n, now)
                               ELSE IF FullUpdateRequestAllowed(@, i, now)
                                 THEN SendUpdates(@, Keys, {i}, TRUE, Urgent(now), now)
                               ELSE @]
          [] tlv.kind = "seqno" ->
               [w EXCEPT !.changed = TRUE,
                         !.e = HandleSeqnoRequest(@, n, tlv, order, now)]
          [] tlv.kind = "none" -> w

\* The cost of the link after the Hello and IHU TLVs of a packet; a packet
\* without them leaves it alone.
Unobserved == -1

\* Hello and IHU: a Hello creates the neighbour, a changed cost recomputes
\* the metrics of its candidates.
Observe(e, n, hello, cost) ==
    LET known == n \in DOMAIN e.neighbours
        e1 == IF known \/ ~hello
                THEN e
                ELSE [e EXCEPT !.neighbours = Put(@, n, [cost |-> INFINITY, candidates |-> 0])]
    IN  IF n \notin DOMAIN e1.neighbours \/ cost = Unobserved
          THEN e1
          ELSE RecomputeCandidateMetrics([e1 EXCEPT !.neighbours[n].cost = cost], {n})

\* After the TLVs: one reselection, then the triggered updates for the keys
\* whose candidate changed its router.
EndOfPacket(w, order, now) ==
    LET Announced(e) ==
          LET known == DOMAIN e.originated \cup DOMAIN e.selected
          IN  SendRetraction(
                SendUpdates(e, w.rids \cap known, Ifaces, FALSE, Urgent(now), now),
                [k \in w.rids \ known |-> e.sequence_number], now)
    IN  Announced(IF w.changed THEN Reselect(w.e, order, now) ELSE w.e)

\* A packet of (at most) two routing TLVs, in order.
Receive(e, n, packet, order, now) ==
    LET i == IfaceOf[n]
        ignored == \/ i \notin DOMAIN e.interfaces
                   \/ e.interfaces[i].family # FamilyOf[n]
                   \/ /\ packet.hello /\ n \notin DOMAIN e.neighbours
                      /\ Cardinality(DOMAIN e.neighbours) >= MaxNeighbors
        e1 == Observe(e, n, packet.hello, packet.cost)
        w0 == [e |-> e1, changed |-> e1.candidates # e.candidates, rids |-> {}]
        w1 == ReceiveTlv(w0, n, packet.first, order, now)
    IN  IF ignored
          THEN e ELSE EndOfPacket(ReceiveTlv(w1, n, packet.second, order, now), order, now)

-----------------------------------------------------------------------------
(* Timers: engine/timers.rs.  What the Hello and IHU timers of a tick do is *)
(* an input, timers: the neighbours that expire, and the new link costs.    *)

\* Neighbours are removed together with their candidates.
RemoveNeighbours(e, ns) ==
    [e EXCEPT !.neighbours = Drop(@, ns),
              !.candidates = Restrict(@, {c \in DOMAIN @ : c[2] \notin ns})]

\* An expired route is first retracted and kept for another lifetime, then removed.
ExpireCandidates(e, now) ==
    LET expired == {c \in DOMAIN e.candidates : e.candidates[c].expires < now}
        removed == {c \in expired : e.candidates[c].metric = INFINITY}
        kept    == DOMAIN e.candidates \ removed
        Expire(c) == [c EXCEPT !.advertised_metric = INFINITY, !.metric = INFINITY,
                               !.expires = now + Lifetime(c.interval)]
    IN  [e EXCEPT
           !.candidates = [c \in kept |-> IF c \in expired THEN Expire(e.candidates[c])
                                                          ELSE e.candidates[c]],
           !.neighbours = [n \in DOMAIN e.neighbours |->
              [e.neighbours[n] EXCEPT
                 !.candidates = @ - Cardinality({c \in removed : c[2] = n})]]]

\* The selected route is asked for once when it comes close to its expiry.
RefreshCandidates(e, now) ==
    LET due == {c \in DOMAIN e.candidates :
                  /\ RetainedSelected(e, c[1], c[2])
                  /\ e.candidates[c].metric < INFINITY
                  /\ ~e.candidates[c].refresh_requested
                  /\ now + e.candidates[c].interval * 10 >= e.candidates[c].expires}
        e1 == [e EXCEPT !.candidates =
                 [c \in DOMAIN e.candidates |->
                    [e.candidates[c] EXCEPT !.refresh_requested = @ \/ c \in due]]]
    IN  Send(e1, {RouteRequest(IfaceOf[c[2]], c[2], c[1]) : c \in due})

\* Holds, promises, sources and recent requests that have run out.
CollectExpired(e, now) ==
    [e EXCEPT
       !.tombstones = Restrict(@, {k \in DOMAIN e.tombstones : e.tombstones[k] >= now}),
       !.advertised_until =
          Restrict(@, {k \in DOMAIN e.advertised_until : e.advertised_until[k] >= now}),
       !.feasible = Restrict(@, {s \in DOMAIN e.feasible : e.feasible[s].expires >= now}),
       !.recent_seqno =
          Restrict(@, {s \in DOMAIN e.recent_seqno : e.recent_seqno[s].expires >= now})]

\* A due request is repeated with a doubled delay, or given up.
RetryRequests(e, now) ==
    LET due  == {s \in DOMAIN e.pending_seqno : now >= e.pending_seqno[s].next_retry}
        over == {s \in due : e.pending_seqno[s].retries_left = 0}
        Again(p) == [p EXCEPT !.retries_left = @ - 1,
                              !.next_retry = now + REQUEST_RETRY_INITIAL_MS
                                  * 2^(REQUEST_RETRIES - p.retries_left + 1)]
        e1 == [e EXCEPT
                 !.pending_seqno = [s \in DOMAIN e.pending_seqno \ over |->
                    IF s \in due THEN Again(e.pending_seqno[s]) ELSE e.pending_seqno[s]],
                 !.recent_seqno = [s \in DOMAIN e.recent_seqno \cup over |->
                    IF s \in over THEN [seqno   |-> e.pending_seqno[s].seqno,
                                        expires |-> now + RECENT_REQUEST_MS]
                                  ELSE e.recent_seqno[s]]]
    IN  Send(e1, {LET p == e.pending_seqno[s]
                  IN  SeqnoRequest(s[1], s[2], p.seqno, p.hops, p.next_hop) : s \in due \ over})

\* The repeats of important updates that are due.
RepeatUpdates(e, now) ==
    LET due  == {k \in DOMAIN e.pending_advertisements :
                   now >= e.pending_advertisements[k].deadline}
        last == {k \in due : e.pending_advertisements[k].left <= 1}
        e1 == SendUpdates(e, due, Ifaces, FALSE, Urgent(now), now)
    IN  [e1 EXCEPT !.pending_advertisements =
           [k \in DOMAIN e.pending_advertisements \ last |->
              IF k \in due THEN [deadline |-> now + REPEAT_MS,
                                 left |-> e.pending_advertisements[k].left - 1]
                           ELSE e.pending_advertisements[k]]]

\* The full update of every interface whose period is over.
PeriodicUpdates(e, now) ==
    LET due == {i \in DOMAIN e.interfaces :
                  PeriodicWindowOpen(now, e.interfaces[i].next_update)}
        deadline == [i \in Ifaces |->
                       IF i \in due THEN e.interfaces[i].next_update ELSE now]
        e1 == [e EXCEPT !.interfaces = [i \in DOMAIN e.interfaces |->
                 IF i \in due
                   THEN [e.interfaces[i] EXCEPT
                           !.next_update = NextPeriodicDeadline(@, now, e.interfaces[i].update_interval)]
                   ELSE e.interfaces[i]]]
    IN  SendUpdates(e1, Keys, due, TRUE, deadline, now)

\* Mutant: the collection of a source is not a selection input.
RoutesMayHaveChangedByExpiry(e, e1, e2) ==
    \/ DOMAIN e1.neighbours # DOMAIN e.neighbours
    \/ DOMAIN e1.candidates # DOMAIN e.candidates
    \/ \E c \in DOMAIN e1.candidates : e1.candidates[c].expires # e.candidates[c].expires
    \/ DOMAIN e2.tombstones # DOMAIN e.tombstones
    \/ \E c \in DOMAIN e2.candidates : e2.candidates[c].metric # e1.candidates[c].metric
    \/ DOMAIN e.pending_switches # {}

\* Does a tick reselect?  e is the engine before it, e1 after the expiry of
\* neighbours and candidates, e2 after the collection and the new metrics.
RoutesMayHaveChanged(e, e1, e2) ==
    \/ DOMAIN e1.neighbours # DOMAIN e.neighbours
    \/ DOMAIN e1.candidates # DOMAIN e.candidates
    \/ \E c \in DOMAIN e1.candidates : e1.candidates[c].expires # e.candidates[c].expires
    \/ DOMAIN e2.tombstones # DOMAIN e.tombstones
    \/ DOMAIN e2.feasible # DOMAIN e.feasible
    \/ \E c \in DOMAIN e2.candidates : e2.candidates[c].metric # e1.candidates[c].metric
    \/ DOMAIN e.pending_switches # {}

\* The link costs after the timers, and the metrics that follow from them.
NewCosts(e, cost) ==
    LET changed == {n \in DOMAIN e.neighbours : e.neighbours[n].cost # cost[n]}
    IN  RecomputeCandidateMetrics(
          [e EXCEPT !.neighbours =
             [n \in DOMAIN e.neighbours |-> [e.neighbours[n] EXCEPT !.cost = cost[n]]]],
          changed)

\* The reselection of a tick; a collected hold is published by it or by itself.
TickRoutes(e, e1, e2, order, now) ==
    LET Collected(f) ==
          IF DOMAIN e2.tombstones # DOMAIN e.tombstones /\ f.generation = e.generation
            THEN RouteSnapshot(f) ELSE f
    IN  Collected(IF RoutesMayHaveChanged(e, e1, e2) THEN Reselect(e2, order, now) ELSE e2)

Tick(e, timers, order, now) ==
    LET e1 == ExpireCandidates(RemoveNeighbours(e, timers.expired), now)
        e2 == NewCosts(CollectExpired(RefreshCandidates(e1, now), now), timers.cost)
        e3 == TickRoutes(e, e1, e2, order, now)
    IN  PeriodicUpdates(RepeatUpdates(RetryRequests(e3, now), now), now)

-----------------------------------------------------------------------------
(* Interface events: engine/interfaces.rs and handle_validated *)

\* An interface that is already attached keeps its state; then a tick.
InterfaceUp(e, i, policy, timers, order, now) ==
    LET state == [family |-> policy.family, update_interval |-> policy.update_interval,
                  split_horizon |-> policy.split_horizon, no_next_hop |-> policy.no_next_hop,
                  next_update |-> now, last_full_update |-> NeverSent]
        e1 == IF i \in DOMAIN e.interfaces
                THEN e ELSE [e EXCEPT !.interfaces = Put(@, i, state)]
    IN  Send(Tick(e1, timers, order, now), {RouteRequest(i, Nobody, AllKeys)})

\* A changed metric profile (reset, the costs under the new one) recomputes
\* the metrics.
ResetMetrics(e, i, reset, order, now) ==
    LET e1 == [e EXCEPT !.neighbours = [n \in DOMAIN e.neighbours |->
                 IF IfaceOf[n] = i THEN [e.neighbours[n] EXCEPT !.cost = reset[n]]
                                   ELSE e.neighbours[n]]]
        e2 == RecomputeCandidateMetrics(e1, Neighbors)
    IN  IF reset = << >> THEN e
        ELSE IF e2.candidates # e1.candidates THEN Reselect(e2, order, now) ELSE e2

\* A changed control family drops the adjacencies of the interface, then the
\* metric profile applies; then a full update and a tick.
InterfacePolicyChanged(e, i, policy, reset, timers, order, now) ==
    LET e1 == [e EXCEPT !.interfaces[i] =
                 [family |-> policy.family, update_interval |-> policy.update_interval,
                  split_horizon |-> policy.split_horizon, no_next_hop |-> policy.no_next_hop,
                  next_update |-> now, last_full_update |-> NeverSent]]
        e2 == IF policy.family = e.interfaces[i].family
                THEN e1
                ELSE Reselect(RemoveNeighbours(e1, {n \in DOMAIN e.neighbours : IfaceOf[n] = i}),
                              order, now)
        e3 == ResetMetrics(e2, i, reset, order, now)
        e4 == SendUpdates(e3, Keys, {i}, TRUE, Urgent(now), now)
    IN  IF i \notin DOMAIN e.interfaces THEN e ELSE Tick(e4, timers, order, now)

\* A changed list of addresses, which may offer other next hops; a list that
\* is the same returns at once.
InterfaceAddressesChanged(e, i, no_next_hop, now) ==
    LET e1 == [e EXCEPT !.interfaces[i].no_next_hop = no_next_hop,
                        !.interfaces[i].last_full_update = NeverSent]
    IN  IF i \notin DOMAIN e.interfaces
          THEN e ELSE SendUpdates(e1, Keys, {i}, TRUE, Urgent(now), now)

\* Mutant: the neighbours of the interface stay.
InterfaceDownAlone(e, i, order, now) ==
    Reselect([e EXCEPT !.interfaces = Drop(@, {i})], order, now)

InterfaceDown(e, i, order, now) ==
    Reselect(RemoveNeighbours([e EXCEPT !.interfaces = Drop(@, {i})],
                              {n \in Neighbors : IfaceOf[n] = i}),
             order, now)

-----------------------------------------------------------------------------
(* Local origins and policy: engine.rs and engine/policy.rs *)

HoldWithdrawal(e, key, now) ==
    LET until == now + Lifetime(LongestInterval(e))
    IN  [e EXCEPT !.tombstones =
           Put(@, key, IF key \in DOMAIN e.advertised_until
                         THEN Larger(until, e.advertised_until[key]) ELSE until)]

\* Only a metric that grows needs a new sequence number.
Originate(e, key, metric, order, now) ==
    LET e1 == IF key \in DOMAIN e.tombstones
                THEN RouteSnapshot([e EXCEPT !.tombstones = Drop(@, {key})]) ELSE e
        e2 == RepeatAdvertisement(e1, {key}, now)
        grows == key \in DOMAIN e.originated /\ metric > e.originated[key].metric
        e3 == IF grows THEN BumpSequenceNumber(e2) ELSE e2
        e4 == [e3 EXCEPT !.originated =
                 Put(@, key, [metric |-> metric, seqno |-> e3.sequence_number])]
    IN  IF key \in DOMAIN e.originated /\ e.originated[key].metric = metric
          THEN e
          ELSE SendUpdates(Reselect(e4, order, now), {key}, Ifaces, FALSE, Triggered(now), now)

\* Keys that lost their origin and have no route are held.
HoldUnselected(e, keys, now) ==
    LET held == keys \ DOMAIN e.selected
    IN  [e EXCEPT !.tombstones =
           [k \in DOMAIN e.tombstones \cup held |->
              IF k \in held THEN HoldWithdrawal(e, k, now).tombstones[k] ELSE e.tombstones[k]]]

Withdraw(e, key, order, now) ==
    LET Held(f) == IF key \in DOMAIN f.selected
                     THEN f ELSE RouteSnapshot(HoldWithdrawal(f, key, now))
        e1 == Reselect([e EXCEPT !.originated = Drop(@, {key})], order, now)
    IN  IF key \notin DOMAIN e.originated
          THEN e1
          ELSE SendUpdates(RepeatAdvertisement(Held(e1), {key}, now), {key}, Ifaces, FALSE,
                           Urgent(now), now)

\* The whole origin set is replaced: at most one bump, holds for what went
\* away, no hold for what is there.
ReplaceOrigins(e, origins, order, now) ==
    LET same == /\ DOMAIN origins = DOMAIN e.originated
                /\ \A k \in DOMAIN origins : origins[k] = e.originated[k].metric
        removed == DOMAIN e.originated \ DOMAIN origins
        grows == \E k \in DOMAIN e.originated \cap DOMAIN origins :
                   origins[k] > e.originated[k].metric
        e1 == IF grows THEN BumpSequenceNumber(e) ELSE e
        e2 == Reselect([e1 EXCEPT !.originated =
                          [k \in DOMAIN origins |->
                             [metric |-> origins[k], seqno |-> e1.sequence_number]]], order, now)
        e3 == HoldUnselected(e2, removed, now)
        e4 == SendUpdates(RepeatAdvertisement(e3, removed, now), removed, Ifaces, FALSE,
                          Urgent(now), now)
        e5 == RepeatAdvertisement([e4 EXCEPT !.tombstones = Drop(@, DOMAIN origins)],
                                  DOMAIN origins, now)
    IN  IF same
          THEN e
          ELSE SendUpdates(RouteSnapshot(e5), Keys, Ifaces, TRUE, Triggered(now), now)

\* Mutant: only retracted candidates are removed.
PermittedAll(e, policy) ==
    {c \in DOMAIN e.candidates : e.candidates[c].advertised_metric # INFINITY}

\* The candidates a new policy keeps.
Permitted(e, policy) ==
    {c \in DOMAIN e.candidates : /\ e.candidates[c].advertised_metric # INFINITY
                                 /\ <<c[2], c[1]>> \notin policy.reject}

\* Rejected and retracted candidates go, with the requests through them.
ReplaceRoutePolicy(e, policy, order, now) ==
    LET kept == Permitted(e, policy)
        e1 == [e EXCEPT
                 !.policy = policy,
                 !.candidates = Restrict(@, kept),
                 !.neighbours = [n \in DOMAIN e.neighbours |->
                    [e.neighbours[n] EXCEPT !.candidates = Cardinality({c \in kept : c[2] = n})]],
                 !.pending_seqno = Restrict(@, {s \in DOMAIN e.pending_seqno :
                    <<s[1], e.pending_seqno[s].next_hop>> \in kept})]
        Readvertised(f) ==
          LET keys == DOMAIN f.originated \cup DOMAIN f.selected \cup DOMAIN f.tombstones
          IN  SendUpdates(RepeatAdvertisement(f, keys, now), Keys, Ifaces, TRUE, Urgent(now), now)
    IN  Send(Readvertised(Reselect(e1, order, now)),
             {RouteRequest(i, Nobody, AllKeys) : i \in DOMAIN e.interfaces})

\* try_handle: each event starts with no output, and every finite update of
\* its output extends the lifetime its key may have at a neighbour.
Begin(e) == [e EXCEPT !.sent = {}]

Finish(e) ==
    LET Until(k) == {u.deadline + Lifetime(u.interval) : u \in {v \in Finite(e.sent) : v.key = k}}
        announced == {u.key : u \in Finite(e.sent)}
    IN  [e EXCEPT !.advertised_until =
           [k \in DOMAIN e.advertised_until \cup announced |->
              Max(Until(k) \cup {e.advertised_until[j] : j \in {k} \cap DOMAIN e.advertised_until})]]

=============================================================================
