------------------------------- MODULE MCFib -------------------------------
(***************************************************************************)
(* Small instances of Fib: two destinations, two next hops, one or two     *)
(* source prefixes.                                                        *)
(***************************************************************************)
EXTENDS Fib

K(d, s) == [dest |-> d, source |-> s]
R(h, m) == [hop |-> h, metric |-> m]
Main(deny) == [table |-> 1, source |-> 0, deny |-> deny]

One(k, r) == [x \in {k} |-> r]
Two(k, r, l, s) == [x \in {k, l} |-> IF x = k THEN r ELSE s]

\* Two destinations by different next hops.
Selected == [routes |-> Two(K("d", 0), R("i", 2), K("e", 0), R("h", 1)), unreachable |-> {}]

\* Source-specific routes for one destination come and go; a prefix may lie in
\* another, and an ordinary route shows in every view.
BySource == [routes |-> Two(K("d", 1), R("h", 1), K("d", 0), R("i", 1)), unreachable |-> {}]
SourceGone == [routes |-> One(K("d", 0), R("h", 1)), unreachable |-> {K("d", 2)}]
InnerOuter == {<<1, 2>>}

Everything ==
    [views |-> {Main({})}, automatic |-> FALSE, admits |-> {"d", "e"}, interfaces |-> {"h", "i"}]
OneInterface == [Everything EXCEPT !.interfaces = {"h"}]
OtherTable == [Everything EXCEPT !.views = {[Main({}) EXCEPT !.table = 2]}, !.admits = {"d"}]
Automatic == [Everything EXCEPT !.automatic = TRUE]

Scene(snapshots, configs, instants, e, f, l, n) ==
    [snapshots |-> snapshots, configs |-> configs, instants |-> instants,
     edits |-> e, failures |-> f, flushes |-> l, lives |-> n]

\* Three lives with source tables; two with a failing request; a reload that drops
\* an interface; one that changes the table and the policy; a failing request
\* and the loss of an interface.
MCScenes ==
    [crashes |-> Scene({BySource, SourceGone}, {Automatic}, {0, 1, 2}, 0, 0, 0, 3),
     retries |-> Scene({BySource}, {Automatic}, {0, 1}, 0, 1, 0, 2),
     fewer |-> Scene({Selected}, {Everything, OneInterface}, {0, 1}, 1, 0, 0, 2),
     moved |-> Scene({Selected}, {Everything, OtherTable}, {0, 1}, 1, 0, 0, 2),
     flushed |-> Scene({Selected}, {Everything}, {0, 1}, 0, 1, 1, 1)]
=============================================================================
