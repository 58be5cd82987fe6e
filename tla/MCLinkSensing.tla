--------------------------- MODULE MCLinkSensing ---------------------------
EXTENDS LinkSensing

\* WiredMetric and EtxMetric, with smaller windows than the defaults.
Wired == [kind |-> "wired", window |-> 3, received |-> 2, nominal |-> 96]

Etx == [kind |-> "etx", window |-> 4, received |-> 1, nominal |-> 256]

Both == {Wired, Etx}

OnlyWired == {Wired}

Hello(k, s, i) == [kind |-> k, seqno |-> s, interval |-> i]

Ihu(c, i) == [rxcost |-> c, interval |-> i]

Pack(h, i) == [hello |-> h, ihu |-> i]

\* Hellos around the wrap, one far away, an unscheduled one, and IHUs.
Traffic ==
    {Pack(Hello("multicast", s, 100), NoIhu) : s \in {65535, 1, 30000}}
    \cup {Pack(Hello("unicast", 7, 200), NoIhu), Pack(Hello("unicast", 3, 0), NoIhu)}
    \cup {Pack(NoHello, Ihu(INFINITY, 100)), Pack(Hello("multicast", 0, 100), Ihu(96, 100))}

\* Up to the first missed Hellos and the end of an IHU.
Short == {0, 500, 1500, 2500, 4000}

\* The same and sixteen intervals later: the limits of the window, of the IHU
\* and of the history fall between these.
Long == Short \cup {16500}

\* Two Hellos, fifteen apart, out of order.
Repeated == {Pack(Hello("multicast", s, 100), NoIhu) : s \in {0, 15}}
=============================================================================
