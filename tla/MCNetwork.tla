----------------------------- MODULE MCNetwork ------------------------------
(* Three routers in a triangle.  Router 3 originates the key; 1 reaches it    *)
(* over a cheap link that may die, 2 over an expensive one.                   *)
EXTENDS Network

Triangle == << <<INFINITY, 1, 1>>, <<1, INFINITY, 50>>, <<1, 50, INFINITY>> >>

Three == 1..3

CheapLink == {<<1, 3>>}

\* Messages overtake each other and the origin changes its sequence number.
Reordering == [instants |-> {0}, in_flight |-> 2, seqno |-> 1]

\* The routes of the start run out, as long as nobody refreshes them.
Expiring == [instants |-> {0, 60000}, in_flight |-> 1, seqno |-> 0]

Both == {Reordering, Expiring}

OnlyReordering == {Reordering}

Itself == <<1, 2, 3>>

Ipv6 == <<6, 6, 6>>
=============================================================================
