------------------------------- MODULE MCMac -------------------------------
(***************************************************************************)
(* Small instances of Mac: two or three speakers of a link, counters that  *)
(* wrap at 3.                                                              *)
(***************************************************************************)
EXTENDS Mac, TLC

CONSTANTS a, b, c

Strict == [keys |-> {"k"}, unverified |-> FALSE]
Both == [keys |-> {"j", "k"}, unverified |-> FALSE]
Open == [keys |-> {"j"}, unverified |-> TRUE]
Off == [keys |-> {}, unverified |-> FALSE]

\* c takes no part unless it is given a configuration or traffic of its own.
Having(left, right, third) == (a :> left) @@ (b :> right) @@ (c :> third)

Budget(configs, traffic, stamps, opens, instants) ==
    [configs |-> configs, traffic |-> traffic, stamps |-> stamps, opens |-> opens,
     instants |-> instants]

OneWay == {<<a, b>>, <<a, All>>}
Ordinary == Having({Strict}, {Strict}, {Off})

\* Counters that wrap; challenges renewed and answered late; sockets opened again;
\* entries that expire; other keys, none, or unverified peers; more peers than the
\* limit; traffic both ways.
MCBudgets ==
    {Budget(Ordinary, OneWay, 10, 0, {0}),
     Budget(Ordinary, OneWay, 9, 0, {0, 300}),
     Budget(Ordinary, OneWay, 8, 1, {0, 300}),
     Budget(Ordinary, OneWay, 8, 0, {0, 30000, 300000}),
     Budget(Having({Strict, Both, Open}, {Strict, Both, Off}, {Off}), OneWay, 7, 1, {0}),
     Budget(Having({Strict}, {Open}, {Off, Strict}), {<<a, b>>, <<c, b>>}, 7, 0, {0, 300000}),
     Budget(Ordinary, OneWay \cup {<<b, a>>}, 8, 0, {0})}
=============================================================================
