--------------------------- MODULE SpeakerProofs ----------------------------
(***************************************************************************)
(* Proofs about Speaker for every value of its constants.  The invariant   *)
(* is Coherent: what the exporter was told is what the engine holds, no    *)
(* key is both routed and held, and the origins carry the sequence number. *)
(* Most methods of the engine do not touch the fields it speaks of         *)
(* (SameCore); each has a lemma that says so.                              *)
(***************************************************************************)
EXTENDS Speaker, TLAPS

Fields ==
    {"id", "sequence_number", "interfaces", "neighbours", "candidates", "feasible",
     "originated", "selected", "pending_seqno", "recent_seqno", "tombstones",
     "advertised_until", "pending_advertisements", "pending_switches", "settling_since",
     "settled_routes", "generation", "published", "policy", "sent"}

IsEngine(e) == e = [f \in Fields |-> e[f]] /\ e.generation \in 0..(Generations - 1)

SameCore(e, f) ==
    /\ IsEngine(f)
    /\ f.selected = e.selected
    /\ f.tombstones = e.tombstones
    /\ f.published = e.published
    /\ f.generation = e.generation
    /\ f.originated = e.originated
    /\ f.sequence_number = e.sequence_number

Published(e) ==
    /\ e.published.routes = e.selected
    /\ e.published.unreachable = DOMAIN e.tombstones

Disjoint(e) == DOMAIN e.selected \cap DOMAIN e.tombstones = {}

Numbered(e) ==
    \A k \in DOMAIN e.originated : e.originated[k].seqno = e.sequence_number

Coherent(e) == IsEngine(e) /\ Published(e) /\ Disjoint(e) /\ Numbered(e)

-----------------------------------------------------------------------------
(* Methods that leave the core alone *)

\* SameCore is reflexive and transitive, and keeps Coherent.
LEMMA SameCoreRefl == ASSUME NEW e, IsEngine(e) PROVE SameCore(e, e)
  BY DEF SameCore

\* Keeping the core alone composes.
LEMMA SameCoreTrans ==
    ASSUME NEW e, NEW f, NEW g, SameCore(e, f), SameCore(f, g) PROVE SameCore(e, g)
  BY DEF SameCore

\* Coherent only speaks of the core.
LEMMA SameCoreCoherent ==
    ASSUME NEW e, NEW f, Coherent(e), SameCore(e, f) PROVE Coherent(f)
  BY DEF SameCore, Coherent, Published, Disjoint, Numbered

\* Output only accumulates in sent.
LEMMA SendCore ==
    ASSUME NEW e, IsEngine(e), NEW m PROVE SameCore(e, Send(e, m))
  BY DEF IsEngine, SameCore, Send, Fields

\* The feasibility history is not part of the core.
LEMMA MaintainSourcesCore ==
    ASSUME NEW e, IsEngine(e), NEW u, NEW t PROVE SameCore(e, MaintainSources(e, u, t))
  BY DEF IsEngine, SameCore, MaintainSources, Fields

\* An update is recorded in the history and sent.
LEMMA RecordedSendCore ==
    ASSUME NEW e, IsEngine(e), NEW u, NEW t
    PROVE  SameCore(e, Send(MaintainSources(e, u, t), u))
<1>1. SameCore(e, MaintainSources(e, u, t))
  BY MaintainSourcesCore
<1>2. SameCore(MaintainSources(e, u, t), Send(MaintainSources(e, u, t), u))
  BY <1>1, SendCore DEF SameCore
<1> QED
  BY <1>1, <1>2, SameCoreTrans

\* Requests are sent and remembered as pending.
LEMMA OriginateSeqnoRequestsCore ==
    ASSUME NEW e, IsEngine(e), NEW r, NEW t
    PROVE  SameCore(e, OriginateSeqnoRequests(e, r, t))
  BY DEF IsEngine, SameCore, OriginateSeqnoRequests, Send, Fields

\* A unicast update leaves the core alone.
LEMMA UpdateToCore ==
    ASSUME NEW e, IsEngine(e), NEW k, NEW rid, NEW s, NEW m, NEW d, NEW t
    PROVE  SameCore(e, UpdateTo(e, k, rid, s, m, d, t))
  BY RecordedSendCore DEF UpdateTo

\* So does the answer to a route request, an update or a retraction.
LEMMA ReplyToRouteRequestCore ==
    ASSUME NEW e, IsEngine(e), NEW k, NEW n, NEW t
    PROVE  SameCore(e, ReplyToRouteRequest(e, k, n, t))
  BY UpdateToCore, SendCore DEF ReplyToRouteRequest

\* Periodic, triggered and repeated updates write the history, the output and
\* the time of the last full update, which are not in the core.
LEMMA SendUpdatesCore ==
    ASSUME NEW e, IsEngine(e), NEW keys, NEW i, NEW full, NEW d, NEW t
    PROVE  SameCore(e, SendUpdates(e, keys, i, full, d, t))
<1> DEFINE on == i \cap DOMAIN e.interfaces
           Tlvs(j) == UNION {UpdatesFor(e, j, k, d[j]) : k \in keys}
           updates == UNION {Tlvs(j) : j \in on}
           e1 == Send(MaintainSources(e, updates, t), updates)
<1>1. SameCore(e, e1)
  BY RecordedSendCore
<1> HIDE DEF e1
<1>2. ASSUME NEW v PROVE SameCore(e1, [e1 EXCEPT !.interfaces = v])
  BY <1>1 DEF IsEngine, SameCore, Fields
<1>3. SendUpdates(e, keys, i, full, d, t) =
        [e1 EXCEPT !.interfaces =
           [j \in DOMAIN e.interfaces |->
              IF full /\ j \in on /\ Tlvs(j) # {}
                THEN [e.interfaces[j] EXCEPT !.last_full_update = t]
                ELSE e.interfaces[j]]]
  BY DEF SendUpdates, e1
<1> QED
  BY <1>1, <1>2, <1>3, SameCoreTrans

\* A retraction is only output.
LEMMA SendRetractionCore ==
    ASSUME NEW e, IsEngine(e), NEW s, NEW t PROVE SameCore(e, SendRetraction(e, s, t))
  BY SendCore DEF SendRetraction

\* A triggered update is recorded in the history and sent.
LEMMA AdvertiseLearnedCore ==
    ASSUME NEW e, IsEngine(e), NEW k, NEW t PROVE SameCore(e, AdvertiseLearned(e, k, t))
  BY RecordedSendCore DEF AdvertiseLearned

\* Scheduling the repeats of an update leaves the core alone.
LEMMA RepeatAdvertisementCore ==
    ASSUME NEW e, IsEngine(e), NEW k, NEW t PROVE SameCore(e, RepeatAdvertisement(e, k, t))
  BY DEF IsEngine, SameCore, RepeatAdvertisement, Fields

\* What follows a changed selection (retractions, updates, requests) leaves
\* the selection itself alone.
LEMMA SelectedDeltaCore ==
    ASSUME NEW e, IsEngine(e), NEW b, NEW o, NEW t
    PROVE  SameCore(e, SelectedDelta(e, b, o, t))
<1>1. ASSUME NEW k1, NEW s PROVE SameCore(e, SendRetraction(RepeatAdvertisement(e, k1, t), s, t))
  BY RepeatAdvertisementCore, SendRetractionCore, SameCoreTrans DEF SameCore
<1>2. ASSUME NEW f, SameCore(e, f), NEW r, NEW k
      PROVE  SameCore(e, AdvertiseLearned(OriginateSeqnoRequests(f, r, t), k, t))
  <2>1. SameCore(e, OriginateSeqnoRequests(f, r, t))
    BY <1>2, OriginateSeqnoRequestsCore, SameCoreTrans DEF SameCore
  <2> QED
    BY <2>1, AdvertiseLearnedCore, SameCoreTrans DEF SameCore
<1> QED
  BY <1>1, <1>2 DEF SelectedDelta

-----------------------------------------------------------------------------
(* Route selection *)

\* A snapshot takes a new generation and says what is selected and held.
LEMMA RouteSnapshotPublishes ==
    ASSUME NEW e, IsEngine(e)
    PROVE  LET f == RouteSnapshot(e)
           IN  /\ IsEngine(f) /\ Published(f)
               /\ f.generation # e.generation
               /\ f.selected = e.selected /\ f.tombstones = e.tombstones
               /\ f.originated = e.originated /\ f.sequence_number = e.sequence_number
<1> USE EngineAssumption DEF EngineAssumption
<1>1. Generations \in Nat /\ Generations >= 2
  BY SMT
<1>2. /\ RouteSnapshot(e).generation # e.generation
      /\ RouteSnapshot(e).generation \in 0..(Generations - 1)
  BY <1>1 DEF IsEngine, RouteSnapshot, Fields
<1> QED
  BY <1>2 DEF IsEngine, RouteSnapshot, Fields, Published

\* What reselect does: the keys it leaves selected are not held, and either
\* it publishes a new generation or the two tables have not changed.
Reselected(e, f) ==
    /\ IsEngine(f)
    /\ Disjoint(f)
    /\ f.originated = e.originated /\ f.sequence_number = e.sequence_number
    /\ \/ Published(f) /\ f.generation # e.generation
       \/ /\ f.selected = e.selected /\ DOMAIN f.tombstones = DOMAIN e.tombstones
          /\ f.published = e.published /\ f.generation = e.generation

\* Route selection replaces the routes, holds no key that has one, and
\* publishes whenever the routes or the held keys change.
LEMMA ReselectReselects ==
    ASSUME NEW e, IsEngine(e), NEW o, NEW t PROVE Reselected(e, Reselect(e, o, t))
<1>1. PICK keys, sel, e1 :
        /\ keys = {k \in Keys : Usable(e, k) # {}}
        /\ sel = [k \in keys |-> sel[k]]
        /\ SameCore([e EXCEPT !.selected = sel, !.tombstones = HoldsAfter(e, keys, t)], e1)
        /\ Reselect(e, o, t) = PublishChange(e, e1, o, t)
  <2> DEFINE keys == {k \in Keys : Usable(e, k) # {}}
             choice == [k \in keys |-> Choice(e, k, t)]
             e1 == SelectFrom(e, keys, choice, t)
             sel == e1.selected
  <2>1. /\ SameCore([e EXCEPT !.selected = sel, !.tombstones = HoldsAfter(e, keys, t)], e1)
        /\ sel = [k \in keys |-> sel[k]]
    <3>1. ASSUME NEW K, NEW c
          PROVE  LET f == SelectFrom(e, K, c, t)
                 IN  /\ SameCore([e EXCEPT !.selected = f.selected,
                                           !.tombstones = HoldsAfter(e, K, t)], f)
                     /\ f.selected = [k \in K |-> f.selected[k]]
      BY DEF SelectFrom, IsEngine, SameCore, Fields
    <3> HIDE DEF keys, choice
    <3> QED
      BY <3>1
  <2>2. Reselect(e, o, t) = PublishChange(e, e1, o, t)
    BY DEF Reselect
  <2> HIDE DEF e1, sel, keys
  <2> QED
    BY <2>1, <2>2 DEF keys
<1>2. /\ IsEngine(e1) /\ e1.selected = sel /\ e1.tombstones = HoldsAfter(e, keys, t)
      /\ e1.published = e.published /\ e1.generation = e.generation
      /\ e1.originated = e.originated /\ e1.sequence_number = e.sequence_number
  BY <1>1 DEF SameCore, IsEngine, Fields
<1>3. Disjoint(e1)
  <2>1. DOMAIN e1.selected = keys
    BY <1>1, <1>2
  <2>2. DOMAIN e1.tombstones = (DOMAIN e.tombstones \ keys) \cup (DOMAIN e.selected \ keys)
    BY <1>2 DEF HoldsAfter
  <2> QED
    BY <2>1, <2>2 DEF Disjoint
<1>4. CASE SelectionChanged(e, e1)
  <2> DEFINE f == RouteSnapshot(e1)
  <2>1. /\ IsEngine(f) /\ Published(f) /\ f.generation # e1.generation
        /\ f.selected = e1.selected /\ f.tombstones = e1.tombstones
        /\ f.originated = e1.originated /\ f.sequence_number = e1.sequence_number
    BY <1>2, RouteSnapshotPublishes
  <2> HIDE DEF f
  <2>2. SameCore(f, SelectedDelta(f, e.selected, o, t))
    BY <2>1, SelectedDeltaCore
  <2>3. Reselect(e, o, t) = SelectedDelta(f, e.selected, o, t)
    BY <1>1, <1>4 DEF f, PublishChange
  <2> QED
    BY <2>1, <2>2, <2>3, <1>2, <1>3 DEF SameCore, Reselected, Disjoint, Published
<1>5. CASE ~SelectionChanged(e, e1)
  BY <1>1, <1>2, <1>3, <1>5 DEF Reselected, SelectionChanged, PublishChange
<1> QED
  BY <1>4, <1>5

\* Whatever a reselection may do keeps Coherent.
LEMMA ReselectedCoherent ==
    ASSUME NEW e, Coherent(e), NEW f, Reselected(e, f) PROVE Coherent(f)
  BY DEF Coherent, Reselected, Published, Disjoint, Numbered

\* Route selection keeps Coherent.
LEMMA ReselectCoherent ==
    ASSUME NEW e, Coherent(e), NEW o, NEW t PROVE Coherent(Reselect(e, o, t))
  BY ReselectReselects, ReselectedCoherent DEF Coherent

\* A new sequence number is given to every origin.
LEMMA BumpSequenceNumberCoherent ==
    ASSUME NEW e, Coherent(e) PROVE Coherent(BumpSequenceNumber(e))
<1> DEFINE s == SeqnoNext(e.sequence_number)
           o == [k \in DOMAIN e.originated |-> [e.originated[k] EXCEPT !.seqno = s]]
           f == BumpSequenceNumber(e)
<1> HIDE DEF s
<1>1. /\ IsEngine(f) /\ f.originated = o /\ f.sequence_number = s
      /\ f.selected = e.selected /\ f.tombstones = e.tombstones /\ f.published = e.published
  BY DEF Coherent, IsEngine, Fields, BumpSequenceNumber, s
<1>2. \A k \in DOMAIN o : o[k].seqno = s
  OBVIOUS
<1> HIDE DEF o, f
<1>3. Coherent(f)
  BY <1>1, <1>2 DEF Coherent, Published, Disjoint, Numbered
<1> QED
  BY <1>3 DEF f

-----------------------------------------------------------------------------
(* Received packets *)

\* The state of the packet loop: an engine, and what the loop remembers.
IsWork(w) == w = [f \in {"e", "changed", "rids"} |-> w[f]] /\ IsEngine(w.e)

SameWork(w, x) == IsWork(x) /\ SameCore(w.e, x.e)

\* Keeping the core alone composes over the TLVs of a packet.
LEMMA SameWorkTrans ==
    ASSUME NEW w, NEW x, NEW y, SameWork(w, x), SameWork(x, y) PROVE SameWork(w, y)
  BY SameCoreTrans DEF SameWork

\* A step of the TLV loop that only replaces the engine.
LEMMA ReplaceEngine ==
    ASSUME NEW w, IsWork(w), NEW f, SameCore(w.e, f) PROVE SameWork(w, [w EXCEPT !.e = f])
  BY DEF SameWork, IsWork, SameCore

\* The candidates are not part of the core.
LEMMA CandidatesCore ==
    ASSUME NEW e, IsEngine(e), NEW v PROVE SameCore(e, [e EXCEPT !.candidates = v])
  BY DEF IsEngine, SameCore, Fields

\* The neighbours are not part of the core.
LEMMA NeighboursCore ==
    ASSUME NEW e, IsEngine(e), NEW v PROVE SameCore(e, [e EXCEPT !.neighbours = v])
  BY DEF IsEngine, SameCore, Fields

\* The candidate count of a neighbour is not part of the core.
LEMMA AddCandidatesCore ==
    ASSUME NEW e, IsEngine(e), NEW n, NEW c PROVE SameCore(e, AddCandidates(e, n, c))
  BY DEF IsEngine, SameCore, Fields, AddCandidates

\* A retraction from a neighbour changes candidates only; the selection
\* follows at the end of the packet.
LEMMA RetractCore ==
    ASSUME NEW w, IsWork(w), NEW S PROVE SameWork(w, Retract(w, S))
<1> DEFINE known == S \cap DOMAIN w.e.candidates
           v == [c \in DOMAIN w.e.candidates |->
                   IF c \in known
                     THEN [w.e.candidates[c] EXCEPT !.advertised_metric = INFINITY,
                                                    !.metric = INFINITY]
                     ELSE w.e.candidates[c]]
           b == Retract(w, S).changed
           x == [w EXCEPT !.changed = b, !.e = [w.e EXCEPT !.candidates = v]]
<1>1. Retract(w, S) = x
  BY DEF Retract, IsWork
<1>2. SameCore(w.e, [w.e EXCEPT !.candidates = v])
  BY CandidatesCore DEF IsWork
<1> HIDE DEF v, b
<1>3. SameWork(w, x)
  BY <1>2 DEF SameWork, IsWork, SameCore
<1> QED
  BY <1>1, <1>3

\* Answering the requester of a satisfied request leaves the core alone.
LEMMA SatisfyRequestsCore ==
    ASSUME NEW e, IsEngine(e), NEW u, NEW m, NEW t
    PROVE  SameCore(e, SatisfyRequests(e, u, m, t))
<1>1. ASSUME NEW f, SameCore(e, f), NEW p, NEW r
      PROVE  SameCore(e, [f EXCEPT !.pending_seqno = p, !.recent_seqno = r])
  BY <1>1 DEF IsEngine, SameCore, Fields
<1>2. ASSUME NEW k, NEW rid, NEW s, NEW d PROVE SameCore(e, UpdateTo(e, k, rid, s, m, d, t))
  BY UpdateToCore
<1> QED
  BY <1>1, <1>2 DEF SatisfyRequests

\* Asking for a newer sequence number leaves the core alone.
LEMMA AskNewerCore ==
    ASSUME NEW e, IsEngine(e), NEW n, NEW u, NEW t PROVE SameCore(e, AskNewer(e, n, u, t))
  BY OriginateSeqnoRequestsCore DEF AskNewer

\* Installing a candidate leaves the core alone.
LEMMA InstallCore ==
    ASSUME NEW w, IsWork(w), NEW n, NEW u, NEW m, NEW t
    PROVE  SameWork(w, Install(w, n, u, m, t))
<1>1. ASSUME NEW c, NEW v PROVE SameCore(w.e, [AddCandidates(w.e, n, c) EXCEPT !.candidates = v])
  BY AddCandidatesCore, CandidatesCore, SameCoreTrans DEF IsWork, SameCore
<1>2. ASSUME NEW f, SameCore(w.e, f), NEW b
      PROVE  SameWork(w, [w EXCEPT !.e = f, !.changed = b])
  BY <1>2 DEF SameWork, IsWork, SameCore
<1> QED
  BY <1>1, <1>2 DEF Install

\* An admitted update leaves the core alone: the selection follows at the end
\* of the packet.
LEMMA AcceptUpdateCore ==
    ASSUME NEW w, IsWork(w), NEW n, NEW u, NEW m, NEW t
    PROVE  SameWork(w, AcceptUpdate(w, n, u, m, t))
<1>1. SameWork(w, [w EXCEPT !.e = AskNewer(w.e, n, u, t)])
  BY AskNewerCore, ReplaceEngine DEF IsWork
<1>2. SameWork(w, [w EXCEPT !.e = SatisfyRequests(w.e, u, m, t)])
  BY SatisfyRequestsCore, ReplaceEngine DEF IsWork
<1>3. SameWork(w, [w EXCEPT !.e = w.e])
  BY SameCoreRefl, ReplaceEngine DEF IsWork
<1>4. ASSUME NEW x, SameWork(w, x) PROVE SameWork(w, Install(x, n, u, m, t))
  BY <1>4, InstallCore, SameWorkTrans DEF SameWork
<1> QED
  BY <1>1, <1>2, <1>3, <1>4 DEF AcceptUpdate

\* Any update, refused, retracting or admitted, leaves the core alone.
LEMMA ReceiveUpdateCore ==
    ASSUME NEW w, IsWork(w), NEW n, NEW u, NEW t
    PROVE  SameWork(w, ReceiveUpdate(w, n, u, t))
<1>1. SameWork(w, w)
  BY SameCoreRefl DEF SameWork, IsWork
<1>2. ASSUME NEW S PROVE SameWork(w, Retract(w, S))
  BY RetractCore
<1>3. ASSUME NEW v PROVE SameWork(w, [w EXCEPT !.changed = TRUE,
                                !.e = [AddCandidates(w.e, n, -1) EXCEPT !.candidates = v]])
  <2>1. SameCore(w.e, [AddCandidates(w.e, n, -1) EXCEPT !.candidates = v])
    BY AddCandidatesCore, CandidatesCore, SameCoreTrans DEF IsWork, SameCore
  <2> QED
    BY <2>1 DEF SameWork, IsWork, SameCore
<1>4. ASSUME NEW m PROVE SameWork(w, AcceptUpdate(w, n, u, m, t))
  BY AcceptUpdateCore
<1> QED
  BY <1>1, <1>2, <1>3, <1>4 DEF ReceiveUpdate

\* Sending updates keeps Coherent.
LEMMA SendUpdatesCoherent ==
    ASSUME NEW e, Coherent(e), NEW keys, NEW i, NEW full, NEW d, NEW t
    PROVE  Coherent(SendUpdates(e, keys, i, full, d, t))
  BY SendUpdatesCore, SameCoreCoherent DEF Coherent

\* A request may make the origin increase its sequence number; all its
\* origins follow.
LEMMA HandleSeqnoRequestCoherent ==
    ASSUME NEW e, Coherent(e), NEW n, NEW r, NEW o, NEW t
    PROVE  Coherent(HandleSeqnoRequest(e, n, r, o, t))
<1>1. Coherent(ReplyToRouteRequest(e, r.key, n, t))
  BY ReplyToRouteRequestCore, SameCoreCoherent DEF Coherent
<1>2. ASSUME NEW k, NEW rid, NEW s, NEW m, NEW d PROVE Coherent(UpdateTo(e, k, rid, s, m, d, t))
  BY UpdateToCore, SameCoreCoherent DEF Coherent
<1>3. ASSUME NEW S PROVE Coherent(OriginateSeqnoRequests(e, S, t))
  BY OriginateSeqnoRequestsCore, SameCoreCoherent DEF Coherent
<1>4. ASSUME NEW f, Coherent(f), NEW k
      PROVE  Coherent(SendUpdates(f, k, Ifaces, FALSE, Urgent(t), t))
  BY <1>4, SendUpdatesCoherent
<1>5. Coherent(BumpSequenceNumber(e))
  BY BumpSequenceNumberCoherent
<1> QED
  BY <1>1, <1>2, <1>3, <1>4, <1>5 DEF HandleSeqnoRequest

\* New link costs change the candidates only.
LEMMA RecomputeCandidateMetricsCore ==
    ASSUME NEW e, IsEngine(e), NEW S PROVE SameCore(e, RecomputeCandidateMetrics(e, S))
  BY CandidatesCore DEF RecomputeCandidateMetrics

\* The engine within the TLV loop of a packet is coherent.
CoherentWork(w) == IsWork(w) /\ Coherent(w.e)

\* One TLV keeps it so.
LEMMA ReceiveTlvCoherent ==
    ASSUME NEW w, CoherentWork(w), NEW n, NEW tlv, NEW o, NEW t,
           tlv.kind \in {"update", "route", "seqno", "none"}
    PROVE  CoherentWork(ReceiveTlv(w, n, tlv, o, t))
<1>1. CASE tlv.kind = "update"
  <2> DEFINE renamed == /\ tlv.kind = "update" /\ tlv.metric < INFINITY
                        /\ HasCandidate(w.e, tlv.key, n)
                        /\ Candidate(w.e, tlv.key, n).rid # tlv.rid
             x == IF renamed THEN [w EXCEPT !.rids = @ \cup {tlv.key}] ELSE w
  <2>1. IsWork(x) /\ x.e = w.e
    BY DEF CoherentWork, IsWork
  <2>2. ReceiveTlv(w, n, tlv, o, t) = ReceiveUpdate(x, n, tlv, t)
    BY <1>1 DEF ReceiveTlv
  <2> HIDE DEF x
  <2>3. SameWork(x, ReceiveUpdate(x, n, tlv, t))
    BY <2>1, ReceiveUpdateCore
  <2> QED
    BY <2>1, <2>2, <2>3, SameCoreCoherent DEF SameWork, CoherentWork
<1>2. ASSUME NEW f, Coherent(f) PROVE CoherentWork([w EXCEPT !.changed = TRUE, !.e = f])
  BY <1>2 DEF CoherentWork, IsWork, Coherent
<1>3. CASE tlv.kind = "route"
  <2>1. Coherent(ReplyToRouteRequest(w.e, tlv.key, n, t))
    BY ReplyToRouteRequestCore, SameCoreCoherent DEF Coherent, CoherentWork
  <2>2. Coherent(SendUpdates(w.e, Keys, {IfaceOf[n]}, TRUE, Urgent(t), t))
    BY SendUpdatesCoherent DEF CoherentWork
  <2>3. Coherent(w.e)
    BY DEF CoherentWork
  <2> QED
    BY <1>2, <1>3, <2>1, <2>2, <2>3 DEF ReceiveTlv
<1>4. CASE tlv.kind = "seqno"
  <2>1. Coherent(HandleSeqnoRequest(w.e, n, tlv, o, t))
    BY HandleSeqnoRequestCoherent DEF CoherentWork
  <2> QED
    BY <1>2, <1>4, <2>1 DEF ReceiveTlv
<1>5. CASE tlv.kind = "none"
  BY <1>5 DEF ReceiveTlv
<1> QED
  BY <1>1, <1>3, <1>4, <1>5

\* Link sensing changes the neighbours and their candidates only.
LEMMA ObserveCore ==
    ASSUME NEW e, IsEngine(e), NEW n, NEW h, NEW c PROVE SameCore(e, Observe(e, n, h, c))
<1>1. ASSUME NEW f, SameCore(e, f), NEW v PROVE SameCore(e, [f EXCEPT !.neighbours = v])
  BY <1>1, NeighboursCore, SameCoreTrans DEF SameCore
<1>2. SameCore(e, e)
  BY SameCoreRefl
<1>3. ASSUME NEW f, SameCore(e, f)
      PROVE  SameCore(e, RecomputeCandidateMetrics([f EXCEPT !.neighbours[n].cost = c], {n}))
  <2>1. SameCore(e, [f EXCEPT !.neighbours[n].cost = c])
    BY <1>3 DEF SameCore, IsEngine, Fields
  <2>2. ASSUME NEW g, SameCore(e, g) PROVE SameCore(e, RecomputeCandidateMetrics(g, {n}))
    BY <2>2, RecomputeCandidateMetricsCore, SameCoreTrans DEF SameCore
  <2> QED
    BY <2>1, <2>2
<1> DEFINE e1 == IF n \in DOMAIN e.neighbours \/ ~h
                   THEN e
                   ELSE [e EXCEPT !.neighbours = Put(e.neighbours, n,
                                                     [cost |-> INFINITY, candidates |-> 0])]
<1>4. SameCore(e, e1)
  BY <1>1, <1>2
<1>5. Observe(e, n, h, c) = IF n \notin DOMAIN e1.neighbours \/ c = Unobserved
                              THEN e1
                              ELSE RecomputeCandidateMetrics([e1 EXCEPT !.neighbours[n].cost = c], {n})
  BY DEF Observe
<1> HIDE DEF e1
<1> QED
  BY <1>3, <1>4, <1>5

\* A packet ends with at most one reselection and with updates.
LEMMA EndOfPacketCoherent ==
    ASSUME NEW w, CoherentWork(w), NEW o, NEW t PROVE Coherent(EndOfPacket(w, o, t))
<1> DEFINE e1 == IF w.changed THEN Reselect(w.e, o, t) ELSE w.e
           known == DOMAIN e1.originated \cup DOMAIN e1.selected
           e2 == SendUpdates(e1, w.rids \cap known, Ifaces, FALSE, Urgent(t), t)
<1>1. Coherent(e1)
  BY ReselectCoherent DEF CoherentWork
<1> HIDE DEF e1
<1>2. Coherent(e2)
  BY <1>1, SendUpdatesCoherent
<1> HIDE DEF e2
<1>3. ASSUME NEW s PROVE Coherent(SendRetraction(e2, s, t))
  BY <1>2, SendRetractionCore, SameCoreCoherent DEF Coherent
<1>4. EndOfPacket(w, o, t) =
        SendRetraction(e2, [k \in w.rids \ known |-> e1.sequence_number], t)
  BY DEF EndOfPacket, e2, e1
<1> QED
  BY <1>3, <1>4

\* The TLVs of the packets of an instance are of the four kinds.
LEMMA ReceiveCoherent ==
    ASSUME NEW e, Coherent(e), NEW n, NEW p, NEW o, NEW t,
           p.first.kind \in {"update", "route", "seqno", "none"},
           p.second.kind \in {"update", "route", "seqno", "none"}
    PROVE  Coherent(Receive(e, n, p, o, t))
<1> DEFINE e1 == Observe(e, n, p.hello, p.cost)
           w0 == [e |-> e1, changed |-> e1.candidates # e.candidates, rids |-> {}]
           w1 == ReceiveTlv(w0, n, p.first, o, t)
           w  == ReceiveTlv(w1, n, p.second, o, t)
<1>1. Coherent(e1)
  BY ObserveCore, SameCoreCoherent DEF Coherent
<1>2. CoherentWork(w0)
  <2> HIDE DEF e1
  <2> QED
    BY <1>1 DEF CoherentWork, IsWork, Coherent
<1> HIDE DEF w0
<1>3. CoherentWork(w1)
  BY <1>2, ReceiveTlvCoherent
<1> HIDE DEF w1
<1>4. CoherentWork(w)
  BY <1>3, ReceiveTlvCoherent
<1> HIDE DEF w
<1>5. Coherent(EndOfPacket(w, o, t))
  BY <1>4, EndOfPacketCoherent
<1>6. \/ Receive(e, n, p, o, t) = e
      \/ Receive(e, n, p, o, t) = EndOfPacket(w, o, t)
  BY DEF Receive, w, w1, w0
<1> QED
  BY <1>5, <1>6

-----------------------------------------------------------------------------
(* Timers *)

\* An expired neighbour takes its candidates with it; the selection follows
\* later in the tick.
LEMMA RemoveNeighboursCore ==
    ASSUME NEW e, IsEngine(e), NEW S PROVE SameCore(e, RemoveNeighbours(e, S))
  BY DEF IsEngine, SameCore, Fields, RemoveNeighbours

\* Expiry retracts or removes candidates only.
LEMMA ExpireCandidatesCore ==
    ASSUME NEW e, IsEngine(e), NEW t PROVE SameCore(e, ExpireCandidates(e, t))
<1>1. ASSUME NEW c, NEW n PROVE SameCore(e, [e EXCEPT !.candidates = c, !.neighbours = n])
  BY DEF IsEngine, SameCore, Fields
<1> QED
  BY <1>1 DEF ExpireCandidates

\* A refresh marks candidates and sends route requests.
LEMMA RefreshCandidatesCore ==
    ASSUME NEW e, IsEngine(e), NEW t PROVE SameCore(e, RefreshCandidates(e, t))
<1>1. ASSUME NEW c, NEW m PROVE SameCore(e, Send([e EXCEPT !.candidates = c], m))
  <2>1. SameCore(e, [e EXCEPT !.candidates = c])
    BY CandidatesCore
  <2>2. ASSUME NEW f, SameCore(e, f) PROVE SameCore(e, Send(f, m))
    <3>1. SameCore(f, Send(f, m))
      BY <2>2, SendCore DEF SameCore
    <3> QED
      BY <2>2, <3>1, SameCoreTrans
  <2> QED
    BY <2>1, <2>2
<1> QED
  BY <1>1 DEF RefreshCandidates

\* The collection only removes holds.
LEMMA CollectExpiredCore ==
    ASSUME NEW e, IsEngine(e), NEW t
    PROVE  LET f == CollectExpired(e, t)
           IN  /\ IsEngine(f)
               /\ DOMAIN f.tombstones \subseteq DOMAIN e.tombstones
               /\ f.selected = e.selected /\ f.published = e.published
               /\ f.generation = e.generation /\ f.originated = e.originated
               /\ f.sequence_number = e.sequence_number
  BY DEF IsEngine, Fields, CollectExpired, Restrict

\* A retry sends a request again or gives it up.
LEMMA RetryRequestsCore ==
    ASSUME NEW e, IsEngine(e), NEW t PROVE SameCore(e, RetryRequests(e, t))
<1>1. ASSUME NEW p, NEW r, NEW m
      PROVE  SameCore(e, Send([e EXCEPT !.pending_seqno = p, !.recent_seqno = r], m))
  <2>1. SameCore(e, [e EXCEPT !.pending_seqno = p, !.recent_seqno = r])
    BY DEF IsEngine, SameCore, Fields
  <2>2. ASSUME NEW f, SameCore(e, f) PROVE SameCore(e, Send(f, m))
    <3>1. SameCore(f, Send(f, m))
      BY <2>2, SendCore DEF SameCore
    <3> QED
      BY <2>2, <3>1, SameCoreTrans
  <2> QED
    BY <2>1, <2>2
<1> QED
  BY <1>1 DEF RetryRequests

\* A repeat is an update.
LEMMA RepeatUpdatesCore ==
    ASSUME NEW e, IsEngine(e), NEW t PROVE SameCore(e, RepeatUpdates(e, t))
<1>1. ASSUME NEW k PROVE SameCore(e, SendUpdates(e, k, Ifaces, FALSE, Urgent(t), t))
  BY SendUpdatesCore
<1>2. ASSUME NEW f, SameCore(e, f), NEW v
      PROVE  SameCore(e, [f EXCEPT !.pending_advertisements = v])
  BY <1>2 DEF IsEngine, SameCore, Fields
<1> QED
  BY <1>1, <1>2 DEF RepeatUpdates

\* A periodic update moves the deadlines of the interfaces and is an update.
LEMMA PeriodicUpdatesCore ==
    ASSUME NEW e, IsEngine(e), NEW t PROVE SameCore(e, PeriodicUpdates(e, t))
<1>1. ASSUME NEW v PROVE SameCore(e, [e EXCEPT !.interfaces = v])
  BY DEF IsEngine, SameCore, Fields
<1>2. ASSUME NEW f, SameCore(e, f), NEW i, NEW d
      PROVE  SameCore(e, SendUpdates(f, Keys, i, TRUE, d, t))
  <2>0. IsEngine(f)
    BY <1>2 DEF SameCore
  <2>1. SameCore(f, SendUpdates(f, Keys, i, TRUE, d, t))
    BY <2>0, SendUpdatesCore, Zenon
  <2> QED
    BY <1>2, <2>1, SameCoreTrans
<1> QED
  BY <1>1, <1>2 DEF PeriodicUpdates

\* e may have lost holds on the way to f, and nothing else.
Pruned(e, f) ==
    /\ IsEngine(f)
    /\ DOMAIN f.tombstones \subseteq DOMAIN e.tombstones
    /\ f.selected = e.selected /\ f.published = e.published
    /\ f.generation = e.generation /\ f.originated = e.originated
    /\ f.sequence_number = e.sequence_number

\* New link costs touch candidates and neighbours only.
LEMMA NewCostsCore ==
    ASSUME NEW e, IsEngine(e), NEW c PROVE SameCore(e, NewCosts(e, c))
<1> DEFINE changed == {n \in DOMAIN e.neighbours : e.neighbours[n].cost # c[n]}
           e1 == [e EXCEPT !.neighbours =
                    [n \in DOMAIN e.neighbours |-> [e.neighbours[n] EXCEPT !.cost = c[n]]]]
<1>1. SameCore(e, e1)
  BY NeighboursCore
<1>2. NewCosts(e, c) = RecomputeCandidateMetrics(e1, changed)
  BY DEF NewCosts
<1> HIDE DEF e1
<1>3. SameCore(e1, RecomputeCandidateMetrics(e1, changed))
  BY <1>1, RecomputeCandidateMetricsCore DEF SameCore
<1> QED
  BY <1>1, <1>2, <1>3, SameCoreTrans

\* The reselection of a tick publishes the holds that were collected, or the
\* tick does it itself.
LEMMA TickRoutesCoherent ==
    ASSUME NEW e, Coherent(e), NEW e1, NEW e2, Pruned(e, e2), NEW o, NEW t
    PROVE  Coherent(TickRoutes(e, e1, e2, o, t))
<1> DEFINE e3 == IF RoutesMayHaveChanged(e, e1, e2) THEN Reselect(e2, o, t) ELSE e2
           collected == DOMAIN e2.tombstones # DOMAIN e.tombstones /\ e3.generation = e.generation
<1>1. TickRoutes(e, e1, e2, o, t) = IF collected THEN RouteSnapshot(e3) ELSE e3
  BY DEF TickRoutes
<1>2. /\ IsEngine(e3) /\ Disjoint(e3) /\ Numbered(e3)
      /\ \/ Published(e3) /\ e3.generation # e.generation
         \/ /\ e3.selected = e.selected /\ DOMAIN e3.tombstones = DOMAIN e2.tombstones
            /\ e3.published = e.published /\ e3.generation = e.generation
  <2>1. CASE RoutesMayHaveChanged(e, e1, e2)
    <3>1. Reselected(e2, e3)
      BY <2>1, ReselectReselects DEF Pruned
    <3> HIDE DEF e3
    <3> QED
      BY <3>1 DEF Pruned, Reselected, Coherent, Numbered
  <2>2. CASE ~RoutesMayHaveChanged(e, e1, e2)
    BY <2>2 DEF Pruned, Coherent, Disjoint, Numbered
  <2> QED
    BY <2>1, <2>2
<1> HIDE DEF e3
<1>3. CASE collected
  <2> DEFINE f == RouteSnapshot(e3)
  <2>1. /\ IsEngine(f) /\ Published(f)
        /\ f.selected = e3.selected /\ f.tombstones = e3.tombstones
        /\ f.originated = e3.originated /\ f.sequence_number = e3.sequence_number
    BY <1>2, RouteSnapshotPublishes
  <2>2. TickRoutes(e, e1, e2, o, t) = f
    BY <1>1, <1>3
  <2> HIDE DEF f
  <2> QED
    BY <2>1, <2>2, <1>2 DEF Coherent, Disjoint, Numbered
<1>4. CASE ~collected
  BY <1>1, <1>2, <1>4 DEF Coherent, Published
<1> QED
  BY <1>3, <1>4

\* A tick that collects a hold publishes.
LEMMA TickCoherent ==
    ASSUME NEW e, Coherent(e), NEW m, NEW o, NEW t PROVE Coherent(Tick(e, m, o, t))
<1> DEFINE e0 == RemoveNeighbours(e, m.expired)
           e1 == ExpireCandidates(e0, t)
           r1 == RefreshCandidates(e1, t)
           c1 == CollectExpired(r1, t)
           e2 == NewCosts(c1, m.cost)
           e3 == TickRoutes(e, e1, e2, o, t)
           e4 == RetryRequests(e3, t)
           e5 == RepeatUpdates(e4, t)
<1>0. Tick(e, m, o, t) = PeriodicUpdates(e5, t)
  BY DEF Tick
<1>1. SameCore(e, r1)
  <2>1. SameCore(e, e0)
    BY RemoveNeighboursCore DEF Coherent
  <2> HIDE DEF e0
  <2>2. SameCore(e0, e1) /\ SameCore(e, e1)
    <3>1. IsEngine(e0)
      BY <2>1 DEF SameCore
    <3>2. SameCore(e0, e1)
      BY <3>1, ExpireCandidatesCore
    <3> QED
      BY <2>1, <3>2, SameCoreTrans
  <2> HIDE DEF e1
  <2>3. SameCore(e1, r1)
    <3>1. IsEngine(e1)
      BY <2>2 DEF SameCore
    <3> QED
      BY <3>1, RefreshCandidatesCore
  <2> HIDE DEF r1
  <2> QED
    BY <2>2, <2>3, SameCoreTrans
<1> HIDE DEF r1
<1>2. Pruned(e, c1)
  BY <1>1, CollectExpiredCore DEF SameCore, Pruned
<1> HIDE DEF c1
<1>3. Pruned(e, e2)
  <2>1. SameCore(c1, e2)
    BY <1>2, NewCostsCore DEF Pruned
  <2> QED
    BY <1>2, <2>1 DEF SameCore, Pruned
<1> HIDE DEF e2, e1
<1>4. Coherent(e3)
  BY <1>3, TickRoutesCoherent
<1> HIDE DEF e3
<1>5. Coherent(e4)
  BY <1>4, RetryRequestsCore, SameCoreCoherent DEF Coherent
<1> HIDE DEF e4
<1>6. Coherent(e5)
  BY <1>5, RepeatUpdatesCore, SameCoreCoherent DEF Coherent
<1> HIDE DEF e5
<1>7. Coherent(PeriodicUpdates(e5, t))
  BY <1>6, PeriodicUpdatesCore, SameCoreCoherent DEF Coherent
<1> QED
  BY <1>0, <1>7

-----------------------------------------------------------------------------
(* Interfaces *)

\* An interface that comes up with new metrics is followed by a reselection.
LEMMA InterfaceUpCoherent ==
    ASSUME NEW e, Coherent(e), NEW i, NEW p, NEW m, NEW o, NEW t
    PROVE  Coherent(InterfaceUp(e, i, p, m, o, t))
<1> DEFINE state == [family |-> p.family, update_interval |-> p.update_interval,
                     split_horizon |-> p.split_horizon, no_next_hop |-> p.no_next_hop,
                     next_update |-> t, last_full_update |-> NeverSent]
           e1 == IF i \in DOMAIN e.interfaces
                   THEN e ELSE [e EXCEPT !.interfaces = Put(@, i, state)]
           e2 == Tick(e1, m, o, t)
<1>1. Coherent(e1)
  <2>1. ASSUME NEW v PROVE SameCore(e, [e EXCEPT !.interfaces = v])
    BY DEF Coherent, IsEngine, SameCore, Fields
  <2> QED
    BY <2>1, SameCoreCoherent
<1> HIDE DEF e1
<1>2. Coherent(e2)
  BY <1>1, TickCoherent
<1> HIDE DEF e2
<1>3. Coherent(Send(e2, {RouteRequest(i, Nobody, AllKeys)}))
  BY <1>2, SendCore, SameCoreCoherent DEF Coherent
<1> QED
  BY <1>3 DEF InterfaceUp, e1, e2

\* A metric profile that changes candidates is followed by a reselection.
LEMMA ResetMetricsCoherent ==
    ASSUME NEW e, Coherent(e), NEW i, NEW r, NEW o, NEW t
    PROVE  Coherent(ResetMetrics(e, i, r, o, t))
<1> DEFINE e1 == [e EXCEPT !.neighbours = [n \in DOMAIN e.neighbours |->
                    IF IfaceOf[n] = i THEN [e.neighbours[n] EXCEPT !.cost = r[n]]
                                      ELSE e.neighbours[n]]]
           e2 == RecomputeCandidateMetrics(e1, Neighbors)
<1>0. ResetMetrics(e, i, r, o, t) =
        IF r = << >> THEN e
        ELSE IF e2.candidates # e1.candidates THEN Reselect(e2, o, t) ELSE e2
  BY DEF ResetMetrics
<1>1. Coherent(e1)
  <2>1. ASSUME NEW v PROVE Coherent([e EXCEPT !.neighbours = v])
    BY NeighboursCore, SameCoreCoherent DEF Coherent
  <2> QED
    BY <2>1
<1> HIDE DEF e1
<1>2. Coherent(e2)
  BY <1>1, RecomputeCandidateMetricsCore, SameCoreCoherent DEF Coherent
<1> HIDE DEF e2
<1> QED
  BY <1>0, <1>2, ReselectCoherent

\* A policy that changes link costs is followed by a reselection.
LEMMA InterfacePolicyChangedCoherent ==
    ASSUME NEW e, Coherent(e), NEW i, NEW p, NEW r, NEW m, NEW o, NEW t
    PROVE  Coherent(InterfacePolicyChanged(e, i, p, r, m, o, t))
<1> DEFINE e1 == [e EXCEPT !.interfaces[i] =
                    [family |-> p.family, update_interval |-> p.update_interval,
                     split_horizon |-> p.split_horizon, no_next_hop |-> p.no_next_hop,
                     next_update |-> t, last_full_update |-> NeverSent]]
           gone == {n \in DOMAIN e.neighbours : IfaceOf[n] = i}
           e2 == IF p.family = e.interfaces[i].family
                   THEN e1 ELSE Reselect(RemoveNeighbours(e1, gone), o, t)
           e3 == ResetMetrics(e2, i, r, o, t)
           e4 == SendUpdates(e3, Keys, {i}, TRUE, Urgent(t), t)
<1>0. InterfacePolicyChanged(e, i, p, r, m, o, t) =
        IF i \notin DOMAIN e.interfaces THEN e ELSE Tick(e4, m, o, t)
  BY DEF InterfacePolicyChanged
<1>1. Coherent(e1)
  <2>1. ASSUME NEW v PROVE SameCore(e, [e EXCEPT !.interfaces[i] = v])
    BY DEF Coherent, IsEngine, SameCore, Fields
  <2> QED
    BY <2>1, SameCoreCoherent
<1> HIDE DEF e1
<1>2. Coherent(e2)
  <2> DEFINE f == RemoveNeighbours(e1, gone)
  <2>1. Coherent(f)
    <3>1. IsEngine(e1)
      BY <1>1 DEF Coherent
    <3>2. SameCore(e1, f)
      BY <3>1, RemoveNeighboursCore
    <3> HIDE DEF f
    <3> QED
      BY <1>1, <3>2, SameCoreCoherent
  <2> HIDE DEF f
  <2>2. Coherent(Reselect(f, o, t))
    BY <2>1, ReselectCoherent
  <2> QED
    BY <1>1, <2>2 DEF f
<1> HIDE DEF e2
<1>3. Coherent(e3)
  BY <1>2, ResetMetricsCoherent
<1> HIDE DEF e3
<1>4. Coherent(e4)
  BY <1>3, SendUpdatesCoherent
<1> HIDE DEF e4
<1>5. Coherent(Tick(e4, m, o, t))
  BY <1>4, TickCoherent
<1> QED
  BY <1>0, <1>5

\* New addresses are answered by updates only.
LEMMA InterfaceAddressesChangedCoherent ==
    ASSUME NEW e, Coherent(e), NEW i, NEW a, NEW t
    PROVE  Coherent(InterfaceAddressesChanged(e, i, a, t))
<1> DEFINE e1 == [e EXCEPT !.interfaces[i].no_next_hop = a,
                           !.interfaces[i].last_full_update = NeverSent]
<1>1. SameCore(e, e1)
  <2> DEFINE c == [e EXCEPT !.interfaces[i].no_next_hop = a]
  <2>1. ASSUME NEW f, IsEngine(f), NEW v PROVE SameCore(f, [f EXCEPT !.interfaces = v])
    BY <2>1 DEF IsEngine, SameCore, Fields
  <2>2. IsEngine(e)
    BY DEF Coherent
  <2>3. SameCore(e, c)
    BY <2>1, <2>2
  <2>4. IsEngine(c)
    BY <2>3 DEF SameCore
  <2>5. e1 = [c EXCEPT !.interfaces[i].last_full_update = NeverSent]
    OBVIOUS
  <2> HIDE DEF c
  <2>6. SameCore(c, e1)
    BY <2>1, <2>4, <2>5
  <2> QED
    BY <2>3, <2>6, SameCoreTrans
<1> HIDE DEF e1
<1>2. Coherent(e1)
  BY <1>1, SameCoreCoherent
<1>3. Coherent(SendUpdates(e1, Keys, {i}, TRUE, Urgent(t), t))
  BY <1>2, SendUpdatesCoherent
<1> QED
  BY <1>3 DEF InterfaceAddressesChanged, e1

\* A lost interface takes its neighbours along and is followed by a
\* reselection.
LEMMA InterfaceDownCoherent ==
    ASSUME NEW e, Coherent(e), NEW i, NEW o, NEW t
    PROVE  Coherent(InterfaceDown(e, i, o, t))
<1> DEFINE e1 == [e EXCEPT !.interfaces = Drop(@, {i})]
           gone == {n \in Neighbors : IfaceOf[n] = i}
           e2 == RemoveNeighbours(e1, gone)
<1>1. SameCore(e, e1)
  BY DEF Coherent, IsEngine, SameCore, Fields
<1> HIDE DEF e1
<1>2. Coherent(e1)
  BY <1>1, SameCoreCoherent
<1>3. Coherent(e2)
  BY <1>2, RemoveNeighboursCore, SameCoreCoherent DEF Coherent
<1> HIDE DEF e2
<1>4. Coherent(Reselect(e2, o, t))
  BY <1>3, ReselectCoherent
<1> QED
  BY <1>4 DEF InterfaceDown, e1, e2

-----------------------------------------------------------------------------
(* Origins and policy *)

\* Dropping the hold of a key and publishing it.
LEMMA ReleaseHoldCoherent ==
    ASSUME NEW e, Coherent(e), NEW K
    PROVE  Coherent(RouteSnapshot([e EXCEPT !.tombstones = Drop(@, K)]))
<1> DEFINE f == [e EXCEPT !.tombstones = Drop(@, K)]
           g == RouteSnapshot(f)
<1>1. /\ IsEngine(f) /\ Disjoint(f) /\ Numbered(f)
  BY DEF Coherent, IsEngine, Fields, Disjoint, Numbered, Drop, Restrict
<1> HIDE DEF f
<1>2. /\ IsEngine(g) /\ Published(g)
      /\ g.selected = f.selected /\ g.tombstones = f.tombstones
      /\ g.originated = f.originated /\ g.sequence_number = f.sequence_number
  BY <1>1, RouteSnapshotPublishes
<1> HIDE DEF g
<1>3. Coherent(g)
  BY <1>1, <1>2 DEF Coherent, Disjoint, Numbered
<1> QED
  BY <1>3 DEF f, g

\* An event changes the sequence number before it installs the new origins.
LEMMA InstallOriginCoherent ==
    ASSUME NEW e, Coherent(e), NEW k, NEW m
    PROVE  Coherent([e EXCEPT !.originated =
                       Put(@, k, [metric |-> m, seqno |-> e.sequence_number])])
  BY DEF Coherent, IsEngine, Fields, Published, Disjoint, Numbered, Put

\* A new origin takes the current or the next sequence number and releases
\* the hold of its key, published.
LEMMA OriginateCoherent ==
    ASSUME NEW e, Coherent(e), NEW k, NEW m, NEW o, NEW t
    PROVE  Coherent(Originate(e, k, m, o, t))
<1> DEFINE e1 == IF k \in DOMAIN e.tombstones
                   THEN RouteSnapshot([e EXCEPT !.tombstones = Drop(@, {k})]) ELSE e
           e2 == RepeatAdvertisement(e1, {k}, t)
           grows == k \in DOMAIN e.originated /\ m > e.originated[k].metric
           e3 == IF grows THEN BumpSequenceNumber(e2) ELSE e2
           e4 == [e3 EXCEPT !.originated =
                    Put(@, k, [metric |-> m, seqno |-> e3.sequence_number])]
           e5 == Reselect(e4, o, t)
<1>0. \/ Originate(e, k, m, o, t) = e
      \/ Originate(e, k, m, o, t) = SendUpdates(e5, {k}, Ifaces, FALSE, Triggered(t), t)
  BY DEF Originate
<1>1. Coherent(e1)
  BY ReleaseHoldCoherent
<1> HIDE DEF e1
<1>2. Coherent(e2)
  BY <1>1, RepeatAdvertisementCore, SameCoreCoherent DEF Coherent
<1> HIDE DEF e2
<1>3. Coherent(e3)
  BY <1>2, BumpSequenceNumberCoherent
<1> HIDE DEF e3
<1>4. Coherent(e4)
  BY <1>3, InstallOriginCoherent
<1> HIDE DEF e4
<1>5. Coherent(e5)
  BY <1>4, ReselectCoherent
<1> HIDE DEF e5
<1>6. Coherent(SendUpdates(e5, {k}, Ifaces, FALSE, Triggered(t), t))
  BY <1>5, SendUpdatesCoherent
<1> QED
  BY <1>0, <1>6

\* A key that lost its origin and has no route is held, and published so.
LEMMA HoldWithdrawalCoherent ==
    ASSUME NEW e, Coherent(e), NEW k, k \notin DOMAIN e.selected, NEW t
    PROVE  Coherent(RouteSnapshot(HoldWithdrawal(e, k, t)))
<1> DEFINE f == HoldWithdrawal(e, k, t)
           g == RouteSnapshot(f)
<1>1. ASSUME NEW v
      PROVE  LET h == [e EXCEPT !.tombstones = Put(@, k, v)]
             IN  /\ IsEngine(h) /\ h.selected = e.selected
                 /\ DOMAIN h.tombstones = DOMAIN e.tombstones \cup {k}
                 /\ h.originated = e.originated /\ h.sequence_number = e.sequence_number
  BY DEF Coherent, IsEngine, Fields, Put
<1>2. /\ IsEngine(f) /\ f.selected = e.selected
      /\ DOMAIN f.tombstones = DOMAIN e.tombstones \cup {k}
      /\ f.originated = e.originated /\ f.sequence_number = e.sequence_number
  BY <1>1 DEF HoldWithdrawal
<1> HIDE DEF f
<1>3. /\ IsEngine(g) /\ Published(g)
      /\ g.selected = f.selected /\ g.tombstones = f.tombstones
      /\ g.originated = f.originated /\ g.sequence_number = f.sequence_number
  BY <1>2, RouteSnapshotPublishes
<1> HIDE DEF g
<1>4. Coherent(g)
  BY <1>2, <1>3 DEF Coherent, Disjoint, Numbered
<1> QED
  BY <1>4 DEF f, g

\* A withdrawn origin leaves its key to a learned route or to a hold.
LEMMA WithdrawCoherent ==
    ASSUME NEW e, Coherent(e), NEW k, NEW o, NEW t
    PROVE  Coherent(Withdraw(e, k, o, t))
<1> DEFINE e0 == [e EXCEPT !.originated = Drop(@, {k})]
           e1 == Reselect(e0, o, t)
           e2 == IF k \in DOMAIN e1.selected
                   THEN e1 ELSE RouteSnapshot(HoldWithdrawal(e1, k, t))
           e3 == RepeatAdvertisement(e2, {k}, t)
<1>0. \/ Withdraw(e, k, o, t) = e1
      \/ Withdraw(e, k, o, t) = SendUpdates(e3, {k}, Ifaces, FALSE, Urgent(t), t)
  BY DEF Withdraw
<1>1. Coherent(e0)
  BY DEF Coherent, IsEngine, Fields, Published, Disjoint, Numbered, Drop, Restrict
<1> HIDE DEF e0
<1>2. Coherent(e1)
  BY <1>1, ReselectCoherent
<1> HIDE DEF e1
<1>3. Coherent(e2)
  BY <1>2, HoldWithdrawalCoherent
<1> HIDE DEF e2
<1>4. Coherent(e3)
  BY <1>3, RepeatAdvertisementCore, SameCoreCoherent DEF Coherent
<1> HIDE DEF e3
<1>5. Coherent(SendUpdates(e3, {k}, Ifaces, FALSE, Urgent(t), t))
  BY <1>4, SendUpdatesCoherent
<1> QED
  BY <1>0, <1>2, <1>5

\* A replaced origin set: the holds of what went away are published together
\* with the release of what is originated now.
LEMMA ReplaceOriginsCoherent ==
    ASSUME NEW e, Coherent(e), NEW origins, NEW o, NEW t
    PROVE  Coherent(ReplaceOrigins(e, origins, o, t))
<1> DEFINE removed == DOMAIN e.originated \ DOMAIN origins
           grows == \E k \in DOMAIN e.originated \cap DOMAIN origins :
                      origins[k] > e.originated[k].metric
           e1 == IF grows THEN BumpSequenceNumber(e) ELSE e
           m1 == [e1 EXCEPT !.originated =
                    [k \in DOMAIN origins |->
                       [metric |-> origins[k], seqno |-> e1.sequence_number]]]
           e2 == Reselect(m1, o, t)
           e3 == HoldUnselected(e2, removed, t)
           r3 == RepeatAdvertisement(e3, removed, t)
           e4 == SendUpdates(r3, removed, Ifaces, FALSE, Urgent(t), t)
           m4 == [e4 EXCEPT !.tombstones = Drop(@, DOMAIN origins)]
           e5 == RepeatAdvertisement(m4, DOMAIN origins, t)
           e6 == RouteSnapshot(e5)
           Sound(f) == IsEngine(f) /\ Disjoint(f) /\ Numbered(f)
<1>0. \/ ReplaceOrigins(e, origins, o, t) = e
      \/ ReplaceOrigins(e, origins, o, t) =
           SendUpdates(e6, Keys, Ifaces, TRUE, Triggered(t), t)
  BY DEF ReplaceOrigins
<1>1. Coherent(e1)
  BY BumpSequenceNumberCoherent
<1> HIDE DEF e1, grows
<1>2. Coherent(m1)
  BY <1>1 DEF Coherent, IsEngine, Fields, Published, Disjoint, Numbered
<1> HIDE DEF m1
<1>3. Coherent(e2)
  BY <1>2, ReselectCoherent
<1> HIDE DEF e2, removed
<1>4. Sound(e3)
  BY <1>3 DEF HoldUnselected, Coherent, IsEngine, Fields, Disjoint, Numbered
<1> HIDE DEF e3
<1>a. ASSUME NEW f, NEW g, Sound(f), SameCore(f, g) PROVE Sound(g)
  BY <1>a DEF SameCore, Disjoint, Numbered
<1>5. Sound(r3)
  BY <1>4, <1>a, RepeatAdvertisementCore
<1> HIDE DEF r3
<1>6. Sound(e4)
  BY <1>5, <1>a, SendUpdatesCore
<1> HIDE DEF e4
<1>7. Sound(m4)
  BY <1>6 DEF IsEngine, Fields, Disjoint, Numbered, Drop, Restrict
<1> HIDE DEF m4
<1>8. Sound(e5)
  BY <1>7, <1>a, RepeatAdvertisementCore
<1> HIDE DEF e5
<1>9. Coherent(e6)
  <2>1. /\ IsEngine(e6) /\ Published(e6)
        /\ e6.selected = e5.selected /\ e6.tombstones = e5.tombstones
        /\ e6.originated = e5.originated /\ e6.sequence_number = e5.sequence_number
    BY <1>8, RouteSnapshotPublishes
  <2> HIDE DEF e6
  <2> QED
    BY <2>1, <1>8 DEF Coherent, Disjoint, Numbered
<1> HIDE DEF e6
<1>10. Coherent(SendUpdates(e6, Keys, Ifaces, TRUE, Triggered(t), t))
  BY <1>9, SendUpdatesCoherent
<1> QED
  BY <1>0, <1>10

\* A new route policy drops candidates and is followed by a reselection.
LEMMA ReplaceRoutePolicyCoherent ==
    ASSUME NEW e, Coherent(e), NEW p, NEW o, NEW t
    PROVE  Coherent(ReplaceRoutePolicy(e, p, o, t))
<1>1. ASSUME NEW a, NEW c, NEW n, NEW s
      PROVE  Coherent([e EXCEPT !.policy = a, !.candidates = c, !.neighbours = n,
                                !.pending_seqno = s])
  <2>1. SameCore(e, [e EXCEPT !.policy = a, !.candidates = c, !.neighbours = n,
                              !.pending_seqno = s])
    BY DEF Coherent, IsEngine, SameCore, Fields
  <2> QED
    BY <2>1, SameCoreCoherent
<1> DEFINE kept == Permitted(e, p)
           e1 == [e EXCEPT
                    !.policy = p,
                    !.candidates = Restrict(@, kept),
                    !.neighbours = [n \in DOMAIN e.neighbours |->
                       [e.neighbours[n] EXCEPT !.candidates = Cardinality({c \in kept : c[2] = n})]],
                    !.pending_seqno = Restrict(@, {s \in DOMAIN e.pending_seqno :
                       <<s[1], e.pending_seqno[s].next_hop>> \in kept})]
           e2 == Reselect(e1, o, t)
           keys == DOMAIN e2.originated \cup DOMAIN e2.selected \cup DOMAIN e2.tombstones
           r2 == RepeatAdvertisement(e2, keys, t)
           e3 == SendUpdates(r2, Keys, Ifaces, TRUE, Urgent(t), t)
           asks == {RouteRequest(i, Nobody, AllKeys) : i \in DOMAIN e.interfaces}
<1>2. ReplaceRoutePolicy(e, p, o, t) = Send(e3, asks)
  BY DEF ReplaceRoutePolicy
<1>3. Coherent(e1)
  BY <1>1
<1> HIDE DEF e1
<1>4. Coherent(e2)
  BY <1>3, ReselectCoherent
<1> HIDE DEF e2
<1>5. Coherent(r2)
  BY <1>4, RepeatAdvertisementCore, SameCoreCoherent DEF Coherent
<1> HIDE DEF r2
<1>6. Coherent(e3)
  BY <1>5, SendUpdatesCoherent
<1> HIDE DEF e3
<1>7. Coherent(Send(e3, asks))
  BY <1>6, SendCore, SameCoreCoherent DEF Coherent
<1> QED
  BY <1>2, <1>7

\* An event starts by forgetting the output of the one before.
LEMMA BeginCoherent == ASSUME NEW e, Coherent(e) PROVE Coherent(Begin(e))
<1>1. SameCore(e, Begin(e))
  BY DEF Coherent, IsEngine, SameCore, Fields, Begin
<1> QED
  BY <1>1, SameCoreCoherent

\* An event ends by noting until when its finite updates live elsewhere.
LEMMA FinishCoherent == ASSUME NEW e, Coherent(e) PROVE Coherent(Finish(e))
<1>1. ASSUME NEW v PROVE SameCore(e, [e EXCEPT !.advertised_until = v])
  BY DEF Coherent, IsEngine, SameCore, Fields
<1> QED
  BY <1>1, SameCoreCoherent DEF Finish

-----------------------------------------------------------------------------
(* The theorems *)

\* A new engine has published what it has: nothing.
LEMMA InitCoherent == Init => Coherent(engine) /\ host \in Hosts
<1>1. ASSUME NEW n, NEW s PROVE Coherent(NewEngine(n, s))
  <2> DEFINE e == NewEngine(n, s)
  <2>1. /\ e.generation = 0
        /\ e.selected = << >> /\ e.tombstones = << >> /\ e.originated = << >>
        /\ e.published.routes = << >> /\ e.published.unreachable = {}
    BY DEF NewEngine
  <2>2. e = [f \in Fields |-> e[f]]
    BY DEF NewEngine, Fields
  <2> HIDE DEF e
  <2>3. DOMAIN << >> = {}
    OBVIOUS
  <2>4. 0 \in 0..(Generations - 1)
    BY EngineAssumption
  <2>5. Coherent(e)
    BY <2>1, <2>2, <2>3, <2>4 DEF Coherent, IsEngine, Published, Disjoint, Numbered
  <2> QED
    BY <2>5 DEF e
<1> QED
  BY <1>1 DEF Init

\* Every event the engine handles keeps Coherent; there is one step per kind
\* of event.
LEMMA NextCoherent ==
    Coherent(engine) /\ host \in Hosts /\ [Next]_vars => Coherent(engine)'
<1> SUFFICES ASSUME Coherent(engine), host \in Hosts, [Next]_vars PROVE Coherent(engine')
  OBVIOUS
<1> DEFINE b == Begin(engine)
<1>b. Coherent(b)
  BY BeginCoherent
<1> HIDE DEF b
<1>h. ASSUME NEW e, Coherent(e), Handle(e) PROVE Coherent(engine')
  BY <1>h, FinishCoherent DEF Handle
<1>1. CASE BringUp
  BY <1>1, <1>b, <1>h, InterfaceUpCoherent DEF BringUp, b
<1>2. CASE ChangeInterfacePolicy
  BY <1>2, <1>b, <1>h, InterfacePolicyChangedCoherent DEF ChangeInterfacePolicy, b
<1>3. CASE ChangeAddresses
  BY <1>3, <1>b, <1>h, InterfaceAddressesChangedCoherent DEF ChangeAddresses, b
<1>4. CASE TakeDown
  BY <1>4, <1>b, <1>h, InterfaceDownCoherent DEF TakeDown, b
<1>5. CASE ReceivePacket
  <2>1. PICK p \in host.packets :
             \E o \in OrdersOf(Announcers \cup {p.from}) :
                 Handle(Receive(b, p.from, p, o, now))
    BY <1>5 DEF ReceivePacket, b
  <2>2. /\ p.first.kind \in {"update", "route", "seqno", "none"}
        /\ p.second.kind \in {"update", "route", "seqno", "none"}
    BY SpeakerAssumption
  <2>3. PICK o : Handle(Receive(b, p.from, p, o, now))
    BY <2>1
  <2>4. Coherent(Receive(b, p.from, p, o, now))
    BY <1>b, <2>2, ReceiveCoherent
  <2> QED
    BY <2>3, <2>4, <1>h
<1>6. CASE OriginateRoute
  BY <1>6, <1>b, <1>h, OriginateCoherent DEF OriginateRoute, b
<1>7. CASE WithdrawRoute
  BY <1>7, <1>b, <1>h, WithdrawCoherent DEF WithdrawRoute, b
<1>8. CASE ReplaceAllOrigins
  BY <1>8, <1>b, <1>h, ReplaceOriginsCoherent DEF ReplaceAllOrigins, b
<1>9. CASE ReplacePolicy
  BY <1>9, <1>b, <1>h, ReplaceRoutePolicyCoherent DEF ReplacePolicy, b
<1>10. CASE RunTimers
  BY <1>10, <1>b, <1>h, TickCoherent DEF RunTimers, b
<1>11. CASE Advance
  BY <1>11 DEF Advance
<1>12. CASE UNCHANGED vars
  BY <1>12 DEF vars
<1> QED
  BY <1>1, <1>2, <1>3, <1>4, <1>5, <1>6, <1>7, <1>8, <1>9, <1>10, <1>11, <1>12 DEF Next

\* No event replaces the host (the engine never chooses its inputs).
LEMMA HostKept == host \in Hosts /\ [Next]_vars => (host \in Hosts)'
<1> SUFFICES ASSUME [Next]_vars PROVE host' = host
  OBVIOUS
<1>h. ASSUME NEW e, Handle(e) PROVE host' = host
  BY <1>h DEF Handle
<1>1. CASE BringUp
  BY <1>1, <1>h DEF BringUp
<1>2. CASE ChangeInterfacePolicy
  BY <1>2, <1>h DEF ChangeInterfacePolicy
<1>3. CASE ChangeAddresses
  BY <1>3, <1>h DEF ChangeAddresses
<1>4. CASE TakeDown
  BY <1>4, <1>h DEF TakeDown
<1>5. CASE ReceivePacket
  BY <1>5, <1>h DEF ReceivePacket
<1>6. CASE OriginateRoute
  BY <1>6, <1>h DEF OriginateRoute
<1>7. CASE WithdrawRoute
  BY <1>7, <1>h DEF WithdrawRoute
<1>8. CASE ReplaceAllOrigins
  BY <1>8, <1>h DEF ReplaceAllOrigins
<1>9. CASE ReplacePolicy
  BY <1>9, <1>h DEF ReplacePolicy
<1>10. CASE RunTimers
  BY <1>10, <1>h DEF RunTimers
<1>11. CASE Advance
  BY <1>11 DEF Advance
<1>12. CASE UNCHANGED vars
  BY <1>12 DEF vars
<1> QED
  BY <1>1, <1>2, <1>3, <1>4, <1>5, <1>6, <1>7, <1>8, <1>9, <1>10, <1>11, <1>12 DEF Next

\* The inductive invariant: after every event the last snapshot says what is
\* selected and held, no key is both, and every origin carries the sequence
\* number of the router (Engine::try_handle).
THEOREM SpeakerCoherent == Spec => []Coherent(engine)
<1>1. Init => Coherent(engine) /\ host \in Hosts
  BY InitCoherent
<1>2. Coherent(engine) /\ host \in Hosts /\ [Next]_vars
        => Coherent(engine)' /\ (host \in Hosts)'
  BY NextCoherent, HostKept
<1> QED
  BY <1>1, <1>2, PTL DEF Spec

\* For every set of keys, neighbours, interfaces, packets and policies:
\* whatever the engine selected or holds unreachable is what it last handed
\* to the exporter (Action::RoutesChanged).
THEOREM SpeakerPublishes == Spec => []PublishedCurrent
<1>1. Coherent(engine) => PublishedCurrent
  BY DEF Coherent, Published, PublishedCurrent
<1> QED
  BY <1>1, SpeakerCoherent, PTL

\* No key is ever both routed and held unreachable, so that the exporter
\* never installs both for it (reselect, hold_withdrawal).
THEOREM SpeakerNeverBothWays == Spec => []NeverBothWays
<1>1. Coherent(engine) => NeverBothWays
  BY DEF Coherent, Disjoint, NeverBothWays
<1> QED
  BY <1>1, SpeakerCoherent, PTL

\* Every originated route carries the current sequence number, so that no
\* request for a newer one is answered with an old one (bump_sequence_number,
\* replace_origins).
THEOREM SpeakerNumbersOrigins == Spec => []OriginsCarrySeqno
<1>1. Coherent(engine) => OriginsCarrySeqno
  BY DEF Coherent, Numbered, OriginsCarrySeqno
<1> QED
  BY <1>1, SpeakerCoherent, PTL

====
