------------------------------ MODULE MCOutput ------------------------------
(* Instances of Output for TLC. *)
EXTENDS Output

\* A withdrawal and its urgent repeat to one destination, an update of two
\* TLVs for another, and a batch beyond the budget.
Batches ==
    {[dest |-> "group", tlvs |-> 2, charge |-> 2, late |-> 0, delay |-> 100, jitter |-> 60],
     [dest |-> "group", tlvs |-> 1, charge |-> 1, late |-> 50, delay |-> 0, jitter |-> 0],
     [dest |-> "peer", tlvs |-> 1, charge |-> 2, late |-> 0, delay |-> 100, jitter |-> 0]}

\* From the submissions over their deadlines to their expiry.
Times == {0, 50, 100, 1040, 1150, 2500}
=============================================================================
