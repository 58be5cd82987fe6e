---------------------------- MODULE LinkSensing ----------------------------
(***************************************************************************)
(* What a router knows of one neighbour (babel-protocol: metric.rs, the    *)
(* Hello and IHU parts of engine/neighbors.rs and engine/timers.rs, the    *)
(* metric reset of engine/interfaces.rs): two histories of sixteen Hellos, *)
(* their timers, the cost the neighbour reports, and the costs computed    *)
(* from them.  Hellos and IHUs are lost, repeated and reordered at will.   *)
(***************************************************************************)
EXTENDS Distance, FiniteSets

CONSTANTS
    Profiles,       \* metric profiles: [kind, window, received, nominal]
    HelloInterval,  \* of our interface, in centiseconds
    Packets,        \* what may arrive: [hello, ihu], either may be NoHello, NoIhu
    Instants        \* when something happens, in milliseconds

VARIABLES
    now,
    profile,        \* of the interface
    nb,             \* Neighbor, or Nobody
    told,           \* the receive cost in the last IHU sent to the neighbour
    heard,          \* history: the Hellos behind each Hello history
    heardAt,        \* history: when the last scheduled Hello of each kind came, and its interval
    ihuAt,          \* history: when an IHU last came, since the last restart
    overshifted     \* history: a Hello sixteen behind has been recorded

vars == <<now, profile, nb, told, heard, heardAt, ihuAt, overshifted>>

Kinds == {"multicast", "unicast"}

Never == -1

NoSeqno == -1

NoHello == [kind |-> "none", seqno |-> 0, interval |-> 0]

NoIhu == [rxcost |-> 0, interval |-> 0]

NoTimer == [interval |-> 0, expiry |-> Never]

NoHistory == [bits |-> 0, samples |-> 0, expected |-> NoSeqno]

-----------------------------------------------------------------------------
(* HelloHistory *)

Least(a, b) == IF a < b THEN a ELSE b

Bits(n) == 2^n

\* append_missed
AppendMissed(h, count) ==
    IF count >= 16
    THEN [h EXCEPT !.bits = 0, !.samples = 16]
    ELSE [h EXCEPT !.bits = (@ * Bits(count)) % Bits(16), !.samples = Least(@ + count, 16)]

\* u16 >>= n: the optimised build takes the count modulo the width.
ShiftRight(bits, n) == bits \div Bits(n % 16)

\* "undo history": forget the newest n positions.
Undo(h, n) ==
    [h EXCEPT !.bits = ShiftRight(@, n), !.samples = IF @ > n THEN @ - n ELSE 0]

Begin(seqno) == [bits |-> 1, samples |-> 1, expected |-> SeqnoNext(seqno)]

\* The last lines of record, and its appended Hello.
Appended(h, seqno) ==
    [bits |-> (h.bits * 2 + 1) % Bits(16), samples |-> Least(h.samples + 1, 16),
     expected |-> SeqnoNext(seqno)]

Forward(h, seqno) == (seqno - h.expected) % 65536

Backward(h, seqno) == (h.expected - seqno) % 65536

\* The result Restarted of record.
Restarts(h, seqno) == h.expected # NoSeqno /\ Forward(h, seqno) > 16 /\ Backward(h, seqno) > 16

\* Mutant: a late Hello is appended without the undo.
RecordLate(h, seqno) ==
    IF h.expected = NoSeqno \/ Restarts(h, seqno) THEN Begin(seqno)
    ELSE IF Forward(h, seqno) <= 16 THEN Appended(AppendMissed(h, Forward(h, seqno)), seqno)
    ELSE Appended(h, seqno)

\* record
Record(h, seqno) ==
    IF h.expected = NoSeqno \/ Restarts(h, seqno) THEN Begin(seqno)
    ELSE IF Forward(h, seqno) <= 16 THEN Appended(AppendMissed(h, Forward(h, seqno)), seqno)
    ELSE Appended(Undo(h, Backward(h, seqno)), seqno)

\* missed_many
MissedMany(h, count) ==
    IF h.expected = NoSeqno THEN h
    ELSE [AppendMissed(h, Least(count, 16)) EXCEPT !.expected = (h.expected + count) % 65536]

Bit(h, i) == (h.bits \div Bits(i)) % 2 = 1

\* received
ReceivedIn(h, window) == Cardinality({i \in 0..(window - 1) : Bit(h, i)})

-----------------------------------------------------------------------------
(* NeighborMetric *)

NewMetric(p) ==
    [profile |-> p, multicast |-> NoHistory, unicast |-> NoHistory, transmit |-> INFINITY]

\* on_hello
OnHello(m, multicast, unicast) == [m EXCEPT !.multicast = multicast, !.unicast = unicast]

CeilDiv(a, b) == (a + b - 1) \div b

\* WiredNeighbor: k out of j, in either history.
Reachable(m) ==
    \E k \in Kinds : ReceivedIn(m[k], m.profile.window) >= m.profile.received

\* EtxNeighbor::computed_receive_cost
EtxReceiveCost(m) ==
    LET n == ReceivedIn(m.multicast, m.profile.window)
    IN  IF n = 0 THEN INFINITY
        ELSE Least(CeilDiv(m.profile.nominal * m.profile.window, n), INFINITY)

ReceiveCost(m) ==
    IF m.profile.kind = "etx" THEN EtxReceiveCost(m)
    ELSE IF Reachable(m) THEN m.profile.nominal ELSE INFINITY

Unusable(m) == ReceiveCost(m) = INFINITY \/ m.transmit \in {0, INFINITY}

WiredLinkCost(m) == IF Unusable(m) THEN INFINITY ELSE m.transmit

EtxLinkCost(m) ==
    LET transmit == IF m.transmit < m.profile.nominal THEN m.profile.nominal ELSE m.transmit
    IN  IF Unusable(m) THEN INFINITY
        ELSE Least(CeilDiv(transmit * ReceiveCost(m), m.profile.nominal), INFINITY)

LinkCost(m) == IF m.profile.kind = "etx" THEN EtxLinkCost(m) ELSE WiredLinkCost(m)

ValidCost(cost) == IF cost = 0 THEN INFINITY ELSE cost

-----------------------------------------------------------------------------
(* The neighbour *)

Nobody == [absent |-> TRUE]

\* or_insert_with: a neighbour is born with its first Hello.
NewNeighbor ==
    [absent |-> FALSE, multicast |-> NoHistory, unicast |-> NoHistory,
     timer |-> [k \in Kinds |-> NoTimer], lastIhu |-> Never, lastCost |-> Never,
     ihuInterval |-> 3 * HelloInterval, nextIhu |-> now, metric |-> NewMetric(profile)]

\* A Hello far from the expected one: the neighbour has restarted.
Restarted(n, hello) ==
    [n EXCEPT !.multicast = NoHistory, !.unicast = NoHistory, ![hello.kind] = Begin(hello.seqno),
              !.timer = [k \in Kinds |-> NoTimer], !.lastIhu = Never, !.lastCost = Never,
              !.nextIhu = now, !.metric = NewMetric(profile)]

\* The Hello loop of receive.  A Hello with interval 0 is not recorded.
HelloReceived(n, hello) ==
    LET scheduled == hello.interval # 0
        recorded == IF ~scheduled THEN n
                    ELSE IF Restarts(n[hello.kind], hello.seqno) THEN Restarted(n, hello)
                    ELSE [n EXCEPT ![hello.kind] = Record(@, hello.seqno)]
        noted == [recorded EXCEPT !.metric = OnHello(@, recorded.multicast, recorded.unicast)]
    IN  IF scheduled
        THEN [noted EXCEPT !.timer[hello.kind] =
                [interval |-> hello.interval, expiry |-> now + 15 * hello.interval]]
        ELSE noted

\* send_ihu
SendsIhu(before, after) ==
    \/ ReceiveCost(after.metric) # ReceiveCost(before.metric)
    \/ now >= after.nextIhu
    \/ ReceivedIn(after.multicast, 16) < after.multicast.samples

\* The IHU loop of receive; an interval of 0 does not count.
IhuReceived(n, ihu) ==
    IF ihu.interval = 0 THEN n
    ELSE [n EXCEPT !.metric.transmit = ihu.rxcost, !.lastIhu = now, !.lastCost = ihu.rxcost,
                   !.ihuInterval = ihu.interval]

\* ihu_action with no deadline
Answered(n) == [n EXCEPT !.nextIhu = now + 30 * HelloInterval]

-----------------------------------------------------------------------------
(* Timers *)

\* Mutant: after a pause only one Hello counts as missed.
MissedSinceOne(t) == 1

\* The Hellos that should have come by now.
MissedSince(t) == 1 + (now - t.expiry) \div (10 * t.interval)

\* advance_hello_timer, for one kind
Advanced(n, k) ==
    LET t == n.timer[k]
    IN  IF t = NoTimer \/ now < t.expiry THEN n
        ELSE [n EXCEPT ![k] = MissedMany(@, MissedSince(t)),
                       !.timer[k].expiry = t.expiry + MissedSince(t) * 10 * t.interval]

\* Mutant: the neighbour is not told that its Hellos no longer arrive.
AgedUntold(n) ==
    LET advanced == Advanced(Advanced(n, "multicast"), "unicast")
    IN  [advanced EXCEPT !.metric = OnHello(@, advanced.multicast, advanced.unicast)]

\* The first loop of tick.
Aged(n) ==
    LET advanced == Advanced(Advanced(n, "multicast"), "unicast")
        noted == [advanced EXCEPT !.metric = OnHello(@, advanced.multicast, advanced.unicast)]
    IN  IF ReceiveCost(noted.metric) # ReceiveCost(n.metric)
        THEN [noted EXCEPT !.nextIhu = now] ELSE noted

Expired(n) == n.multicast.bits = 0 /\ n.unicast.bits = 0

IhuExpires(n) == n.lastIhu # Never /\ now > n.lastIhu + 35 * n.ihuInterval

IhuChecked(n) ==
    IF IhuExpires(n)
    THEN [n EXCEPT !.lastIhu = Never, !.lastCost = Never, !.metric.transmit = INFINITY]
    ELSE n

\* periodic_window_open
WindowOpen(deadline) == now + 100 >= deadline

\* next_periodic_deadline
NextDeadline(deadline, interval) ==
    IF deadline + 10 * interval > now THEN deadline + 10 * interval ELSE now + 10 * interval

-----------------------------------------------------------------------------
(* Steps *)

Init ==
    /\ now = 0
    /\ profile \in Profiles
    /\ nb = Nobody
    /\ told = Never
    /\ heard = [k \in Kinds |-> {}]
    /\ heardAt = [k \in Kinds |-> NoTimer]
    /\ ihuAt = Never
    /\ overshifted = FALSE

Forget ==
    /\ heard' = [k \in Kinds |-> {}]
    /\ heardAt' = [k \in Kinds |-> NoTimer]
    /\ ihuAt' = Never
    /\ overshifted' = FALSE

\* What the histories of this module note of a packet.
Note(before, packet) ==
    LET hello == packet.hello
        scheduled == hello # NoHello /\ hello.interval # 0
        restart == scheduled /\ Restarts(before[hello.kind], hello.seqno)
        at == [interval |-> hello.interval, expiry |-> now]
    IN  /\ heard' = IF restart
                    THEN [k \in Kinds |-> IF k = hello.kind THEN {hello.seqno} ELSE {}]
                    ELSE IF scheduled THEN [heard EXCEPT ![hello.kind] = @ \cup {hello.seqno}]
                    ELSE heard
        /\ heardAt' = IF restart
                      THEN [k \in Kinds |-> IF k = hello.kind THEN at ELSE NoTimer]
                      ELSE IF scheduled THEN [heardAt EXCEPT ![hello.kind] = at]
                      ELSE heardAt
        /\ ihuAt' = IF packet.ihu.interval # 0 THEN now ELSE IF restart THEN Never ELSE ihuAt
        /\ overshifted' = \/ overshifted /\ ~restart
                          \/ /\ scheduled
                             /\ before[hello.kind].expected # NoSeqno
                             /\ Backward(before[hello.kind], hello.seqno) = 16

\* receive, up to the routes.  Without a Hello nothing is known of a stranger.
Receive(packet) ==
    LET before == IF nb = Nobody THEN NewNeighbor ELSE nb
        hello == IF packet.hello = NoHello THEN before ELSE HelloReceived(before, packet.hello)
        full == IhuReceived(hello, packet.ihu)
        send == packet.hello # NoHello /\ SendsIhu(before, hello)
    IN  /\ nb # Nobody \/ packet.hello # NoHello
        /\ nb' = IF send THEN Answered(full) ELSE full
        /\ told' = IF send THEN ValidCost(ReceiveCost(full.metric)) ELSE told
        /\ Note(before, packet)
        /\ UNCHANGED <<now, profile>>

\* tick, the part about neighbours, of the neighbour n.
TickOf(n) ==
    LET aged == Aged(n)
        checked == IhuChecked(aged)
        due == WindowOpen(checked.nextIhu)
    IN  IF Expired(aged)
        THEN nb' = Nobody /\ told' = Never /\ Forget
        ELSE /\ nb' = IF due
                      THEN [checked EXCEPT !.nextIhu = NextDeadline(@, 3 * HelloInterval)]
                      ELSE checked
             /\ told' = IF due THEN ValidCost(ReceiveCost(checked.metric)) ELSE told
             /\ UNCHANGED <<heard, heardAt, ihuAt, overshifted>>

Tick ==
    /\ nb # Nobody
    /\ TickOf(nb)
    /\ UNCHANGED <<now, profile>>

\* The metric rebuilt from what is retained of the neighbour.
Remeasured(n, p) ==
    [n EXCEPT !.metric = [OnHello(NewMetric(p), n.multicast, n.unicast) EXCEPT
                            !.transmit = IF n.lastCost = Never THEN @ ELSE n.lastCost],
              !.nextIhu = now]

\* interface_policy_changed with another metric; it ends with a tick.
InterfacePolicyChanged(p) ==
    /\ p # profile
    /\ profile' = p
    /\ IF nb = Nobody
       THEN UNCHANGED <<nb, told, heard, heardAt, ihuAt, overshifted>>
       ELSE TickOf(Remeasured(nb, p))
    /\ UNCHANGED now

Advance ==
    \E t \in Instants :
        /\ t > now
        /\ \A u \in Instants : u > now => t <= u
        /\ now' = t
        /\ UNCHANGED <<profile, nb, told, heard, heardAt, ihuAt, overshifted>>

Next ==
    \/ \E packet \in Packets : Receive(packet)
    \/ Tick
    \/ \E p \in Profiles : InterfacePolicyChanged(p)
    \/ Advance

Spec == Init /\ [][Next]_vars

-----------------------------------------------------------------------------
(* Properties *)

\* Every Hello a history counts was received, at the sequence number its
\* position stands for (HelloHistory: "record of the latest 16 Hello sequence
\* numbers").
HistoryTruthful ==
    nb # Nobody =>
        \A k \in Kinds : \A i \in 0..15 :
            Bit(nb[k], i) => (nb[k].expected - 1 - i) % 65536 \in heard[k]

\* The same, of histories in which no Hello exactly sixteen behind the
\* expected one has been recorded.
HistoryTruthfulWithin == overshifted \/ HistoryTruthful

\* How long one kind of Hello may be silent while n of them still count.
Fresh(k, silent) ==
    heardAt[k] # NoTimer /\ now < heardAt[k].expiry + heardAt[k].interval * (10 * silent + 15)

\* What a tick leaves: a neighbour has sent a Hello within sixteen intervals
\* and a half, a usable one within what its window tolerates, and a usable one
\* has reported a cost within three intervals and a half, since its last
\* restart (tick: timers of Hellos and IHUs, after any pause of the loop).
Lively ==
    nb # Nobody =>
        /\ \E k \in Kinds : Fresh(k, 15)
        /\ LinkCost(nb.metric) # INFINITY =>
              /\ \E k \in Kinds : Fresh(k, profile.window - profile.received)
              /\ ihuAt # Never /\ now <= ihuAt + 35 * nb.ihuInterval

\* After every tick the neighbour is as lively as what is still believed of it.
SilenceNoticed == [][Tick => Lively']_vars

\* The metric of a neighbour, which keeps copies of the histories and of the
\* reported cost, agrees with the neighbour, through restarts, timeouts and
\* changes of the metric (on_hello, on_ihu, reset_metric); and the neighbour has
\* been told the cost that results: every change of it, by Hellos, by their
\* absence or by another metric, is followed by an IHU in the same step
\* (send_ihu, next_ihu_ms).
CostTold ==
    nb # Nobody =>
        /\ nb.metric.profile = profile
        /\ \A k \in Kinds : nb.metric[k] = nb[k]
        /\ nb.metric.transmit = IF nb.lastCost = Never THEN INFINITY ELSE nb.lastCost
        /\ told = ValidCost(ReceiveCost(nb.metric))
=============================================================================
