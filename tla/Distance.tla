------------------------------ MODULE Distance ------------------------------
(***************************************************************************)
(* Sequence numbers, metrics and distances: crates/babel-protocol/src      *)
(* model.rs and metric.rs, and the numeric helpers of engine/rib.rs.       *)
(* Every number keeps the width it has in the code: u16 sequence numbers   *)
(* wrap at 2^16 and u16 metrics stop at INFINITY.                          *)
(***************************************************************************)
EXTENDS Integers

INFINITY == 65535

Seqnos == 0..65535

Metrics == 0..INFINITY

Distances == [seqno : Seqnos, metric : Metrics]

\* u16::wrapping_sub, then "newer" is the lower half of the circle.
SeqnoGt(a, b) ==
    LET delta == (a - b) % 65536
    IN  delta # 0 /\ delta < 32768

\* seqno.wrapping_add(1)
SeqnoNext(s) == (s + 1) % 65536

\* "at least s": the test made before a request counts as answered.
SeqnoGe(a, b) == a = b \/ SeqnoGt(a, b)

FeasibleAgainst(d, fd) ==
    \/ SeqnoGt(d.seqno, fd.seqno)
    \/ d.seqno = fd.seqno /\ d.metric < fd.metric

\* AdditiveMetric, the algebra of the daemon.
Extend(advertised, link) ==
    IF advertised = INFINITY \/ link \in {0, INFINITY} \/ advertised + link >= INFINITY
      THEN INFINITY
      ELSE advertised + link

\* A link of cost 0 or INFINITY carries nothing, and an algebra that does not
\* increase the metric is not believed.
SafeExtend(advertised, link) ==
    LET result == Extend(advertised, link)
    IN  IF advertised = INFINITY \/ link \in {0, INFINITY} \/ result <= advertised
          THEN INFINITY
          ELSE result

\* saturating_sub and abs_diff on u16
Sub(a, b) == IF a > b THEN a - b ELSE 0

AbsDiff(a, b) == Sub(a, b) + Sub(b, a)

\* u32 div_ceil(100), capped to u16
Percentage(metric, percent) ==
    LET p == (metric * percent + 99) \div 100
    IN  IF p > 65535 THEN 65535 ELSE p

Larger(a, b) == IF a >= b THEN a ELSE b

\* metric_improvement_is_significant: both switch margins are met.
Significant(better, worse, marginMetric, marginPercent) ==
    LET improvement == Sub(worse, better)
    IN  /\ improvement >= Larger(marginMetric, Percentage(worse, marginPercent))
        /\ improvement > 0

\* The change of a selected metric that is worth a triggered update.
TriggersUpdate(old, new) ==
    \/ AbsDiff(old, new) >= 96
    \/ AbsDiff(old, new) * 4 >= Larger(old, 1)

=============================================================================
