-------------------------------- MODULE Fib --------------------------------
(***************************************************************************)
(* The Linux route exporter of the daemon (babel-rs: linux.rs, linux/*.rs, *)
(* and the reload and shutdown paths of main.rs).  The exporter makes the  *)
(* kernel's routes and rules follow the selected routes, one netlink       *)
(* message at a time; the export worker, the periodic reconciler, a reload *)
(* and the shutdown take turns at it.  Kernel state outlives the process:  *)
(* after a crash the next process adopts the routes it finds for a limited *)
(* time, and a journal on disk keeps a second crash from renewing it.      *)
(***************************************************************************)
EXTENDS Integers, Sequences, FiniteSets, Functions, SequencesExt, FiniteSetsExt

CONSTANTS
    Dests,          \* destination prefixes
    Hops,           \* next hops, one per interface
    Sources,        \* source prefixes, numbered in their order; 0 is no source
    Nested,         \* pairs <<outer, inner>> of source prefixes
    SourceTableBase,\* export.source_table_base
    Window,         \* restart_recovery_seconds, in units of the clock
    MaxPublishes,   \* bound on the snapshots of one process
    Scenes          \* what a behaviour is about, by name: [snapshots (what the router may
                    \* select: [routes, unreachable]), configs (configuration files: [views,
                    \* automatic, admits, interfaces]), instants (readings of the boot-time
                    \* clock), and bounds: edits of the configuration file, failures of a
                    \* netlink or journal operation, flushes (losses) of an interface by
                    \* the kernel, lives (starts) of the daemon]

ASSUME FibAssumption ==
    /\ Sources \subseteq Nat \ {0} /\ SourceTableBase \in Nat
    /\ Window \in Nat
    /\ \A n \in DOMAIN Scenes :
          /\ Scenes[n].instants \subseteq Nat /\ 0 \in Scenes[n].instants
          /\ \A c \in Scenes[n].configs : c.admits \subseteq Dests /\ c.interfaces \subseteq Hops

VARIABLES
    now,
    file,       \* the configuration file
    kernel,     \* the routes with the daemon's protocol number
    rules,      \* its policy rules, from a source to a table
    journal,    \* the recovery journal on disk
    p,          \* the memory of the process
    inherited,  \* history: the routes taken over unconfirmed, and until when at most
    scene,      \* the name of the scene
    budget      \* what is left of the bounds; history: the interfaces lost, and the life
                \* that left, by a reload, the scope it has in the journal

vars == <<now, file, kernel, rules, journal, p, inherited, scene, budget>>

Snapshots == Scenes[scene].snapshots
Configs == Scenes[scene].configs
Instants == Scenes[scene].instants

INFINITY == 65535

Unreachable == "unreachable"

-----------------------------------------------------------------------------
(* Projection of the selected routes into tables *)

Empty == [routes |-> << >>, unreachable |-> {}]

Covers(outer, inner) == outer = 0 \/ outer = inner \/ <<outer, inner>> \in Nested

\* route_matches_view: a view without a source takes ordinary routes only.
MatchesView(v, key) == Covers(key.source, v.source)

\* The keys of a snapshot that compete for one destination of a view.  A
\* filter cannot remove a withdrawal hold.
Competing(v, d, s) ==
    {k \in DOMAIN s.routes : k.dest = d /\ MatchesView(v, k) /\ k \notin v.deny}
      \cup {k \in s.unreachable : k.dest = d /\ MatchesView(v, k)}

\* specificity: the keys that match one view are nested.
MostSpecific(keys) ==
    CHOOSE k \in keys : \A l \in keys : Covers(l.source, k.source)

Identity(v, k, s) ==
    IF k \in s.unreachable
      THEN [table |-> v.table, dest |-> k.dest, metric |-> INFINITY, hop |-> Unreachable]
      ELSE [table |-> v.table, dest |-> k.dest, metric |-> s.routes[k].metric,
            hop |-> s.routes[k].hop]

ProjectRoutes(views, s) ==
    UNION {{Identity(v, MostSpecific(Competing(v, d, s)), s)
              : d \in {x \in Dests : Competing(v, x, s) # {}}} : v \in views}

\* RouteReplace: an entry of the kernel is found by table, prefix and metric.
Replace(routes, r) ==
    {x \in routes : <<x.table, x.dest, x.metric>> # <<r.table, r.dest, r.metric>>} \cup {r}

Confirmed(routes) == {<<r.table, r.dest>> : r \in {x \in routes : x.hop # Unreachable}}

-----------------------------------------------------------------------------
(* Recovery of the routes of an earlier process *)

Export(c) == [views |-> c.views, automatic |-> c.automatic]

RecoveryScope(c) == [export |-> Export(c), admits |-> c.admits]

NoScope == [export |-> [views |-> {}, automatic |-> FALSE], admits |-> {}]

\* With no scope on record, only an unrestricted configuration inherits.
Scoped(c) == c.admits # Dests \/ \E v \in c.views : v.deny # {}

RuleOf(v) == [source |-> v.source, table |-> v.table]

\* eligible_rule: a rule of a configured view, or of an automatic table.
EligibleRule(u, c) ==
    \/ \E v \in c.views : v.source # 0 /\ RuleOf(v) = u
    \/ /\ c.automatic
       /\ u.table >= SourceTableBase
       /\ \A v \in c.views : v.table # u.table

EligibleRoutes(c) ==
    {r \in kernel :
        /\ r.hop # Unreachable
        /\ r.metric < INFINITY
        /\ r.hop \in c.interfaces
        /\ \/ \E v \in c.views : v.table = r.table
           \/ \E u \in rules : EligibleRule(u, c) /\ u.table = r.table}

ScopeChanged(c) ==
    IF journal.scope = NoScope THEN Scoped(c) ELSE journal.scope # RecoveryScope(c)

Deadline(c) == IF ScopeChanged(c) THEN 0 ELSE now + Window

\* Mutant: what the journal says of a route found in the kernel is forgotten.
InheritedDeadlineRenewed(r, c) == Deadline(c)

\* A crash must not renew a deadline, nor restore a route that was rejected.
InheritedDeadline(r, c) ==
    IF r \in DOMAIN journal.pending
      THEN Min({journal.pending[r], Deadline(c)})
      ELSE Deadline(c)

Live(r) == ~p.revoked /\ now < p.pending[r]

LiveRoutes == {r \in DOMAIN p.pending : Live(r)}

-----------------------------------------------------------------------------
(* Tables for source prefixes *)

\* Recovery::sources: the rules whose table still holds an inherited route.
HeldSources(export) ==
    IF ~export.automatic THEN {}
    ELSE {u \in p.rules : /\ \A v \in export.views : v.source # u.source
                          /\ \E r \in LiveRoutes : r.table = u.table}

SourcesOf(export, s) ==
    ({k.source : k \in DOMAIN s.routes \cup s.unreachable}
       \cup {u.source : u \in HeldSources(export)})
     \ ({0} \cup {v.source : v \in export.views})

Nth(S, n) == CHOOSE x \in S : Cardinality({y \in S : y < x}) = n

\* source_views_with_recovery: a source keeps its table as long as it has
\* routes; a new one gets the first table that is free.
Allocate(export, s) ==
    LET held == HeldSources(export)
        sources == SourcesOf(export, s)
        explicit == {v.table : v \in export.views}
        extended == [x \in DOMAIN p.allocated \cup {u.source : u \in held} |->
                       IF \E u \in held : u.source = x
                         THEN (CHOOSE u \in held : u.source = x).table
                         ELSE p.allocated[x]]
        kept == {x \in DOMAIN extended : /\ x \in sources
                                         /\ extended[x] >= SourceTableBase
                                         /\ extended[x] \notin explicit}
        free == (SourceTableBase .. SourceTableBase + Cardinality(Sources) + Cardinality(explicit))
                  \ (explicit \cup {extended[x] : x \in kept})
    IN  IF ~export.automatic THEN << >>
        ELSE [x \in sources |->
                IF x \in kept THEN extended[x]
                ELSE Nth(free, Cardinality({y \in sources \ kept : y < x}))]

ResolvedViews(export, allocated) ==
    export.views \cup {[table |-> allocated[x], source |-> x, deny |-> {}]
                         : x \in DOMAIN allocated}

DesiredRules(views, retain) ==
    IF retain THEN {RuleOf(v) : v \in {w \in views : w.source # 0}} ELSE {}

-----------------------------------------------------------------------------
(* The process *)

Callers == {"worker", "reconciler", "reload", "shutdown"}

\* An attempt of a caller to reconcile: what it captured, and what is left to
\* do in its present stage.
NoJob == [stage |-> "none", snapshot |-> 0, export |-> 0, retain |-> TRUE, held |-> {},
          at |-> 0, views |-> {}, current |-> {}, todo |-> {}, stale |-> {}]

\* export, snapshot, retain_rules, stopping and last_success are ExportState;
\* pending to dirty are Recovery.  Snapshots and export settings are kept by
\* their generation.
Down ==
    [phase |-> "down", active |-> file, admits |-> {}, published |-> << >>, exports |-> << >>,
     snapshot |-> 0, export |-> 0, retain |-> TRUE, stopping |-> FALSE, last_success |-> << >>,
     pending |-> << >>, rules |-> {}, scope |-> NoScope, revoked |-> FALSE, dirty |-> FALSE,
     retried |-> FALSE, allocated |-> << >>, lock |-> "none", jobs |-> [c \in Callers |-> NoJob],
     worker |-> [stage |-> "idle", snapshot |-> 0, exported |-> 0],
     reload |-> [stage |-> "none", candidate |-> file]]

Init ==
    /\ now = 0
    /\ scene \in DOMAIN Scenes
    /\ file \in Configs
    /\ kernel = {}
    /\ rules = {}
    /\ journal = [scope |-> NoScope, pending |-> << >>]
    /\ p = Down
    /\ inherited = << >>
    /\ budget = [edits |-> Scenes[scene].edits, failures |-> Scenes[scene].failures,
                 flushes |-> Scenes[scene].flushes, lives |-> Scenes[scene].lives,
                 lost |-> {}, strayed |-> 0]

\* The clock has readings left for a whole window after the start (a bound).
WindowAhead == \E t \in Instants : t >= now + Window

\* run_daemon up to the start of the router: begin_recovery adopts what it
\* finds and writes the journal before anything else happens.
Restart ==
    /\ p.phase \in {"down", "clean"}
    /\ budget.lives > 0
    /\ WindowAhead
    /\ budget' = [budget EXCEPT !.lives = @ - 1]
    /\ LET pending == [r \in EligibleRoutes(file) |-> InheritedDeadline(r, file)]
       IN  /\ p' = [Down EXCEPT
                     !.phase = "running", !.active = file, !.admits = file.admits,
                     !.published = <<Empty>>, !.exports = <<Export(file)>>,
                     !.snapshot = 1, !.export = 1,
                     !.pending = pending, !.scope = RecoveryScope(file),
                     !.rules = IF ScopeChanged(file) THEN {}
                               ELSE {u \in rules : EligibleRule(u, file)}]
           /\ journal' = [scope |-> RecoveryScope(file), pending |-> pending]
           /\ inherited' = [r \in DOMAIN pending |->
                              IF r \in DOMAIN inherited THEN inherited[r] ELSE now + Window]
    /\ UNCHANGED <<now, file, kernel, rules, scene>>

\* Also the end of a daemon whose shutdown deadline passes.
Crash ==
    /\ p.phase \notin {"down", "clean"}
    /\ p' = Down
    /\ UNCHANGED <<now, file, kernel, rules, journal, inherited, budget, scene>>

Edit ==
    /\ budget.edits > 0
    /\ budget' = [budget EXCEPT !.edits = @ - 1]
    /\ \E c \in Configs \ {file} : file' = c
    /\ UNCHANGED <<now, kernel, rules, journal, p, inherited, scene>>

\* What of a selection the import policy lets through.
Filtered(s, admits) ==
    [s EXCEPT !.routes = [k \in {x \in DOMAIN s.routes : x.dest \in admits} |-> s.routes[k]]]

\* The engine selects other routes.
Publish ==
    /\ p.phase = "running"
    /\ Len(p.published) <= MaxPublishes
    /\ \E s \in Snapshots :
          p' = [p EXCEPT !.published = Append(@, Filtered(s, p.admits))]
    /\ UNCHANGED <<now, file, kernel, rules, journal, inherited, budget, scene>>

\* The kernel drops the routes of an interface that disappears.
Flush ==
    /\ budget.flushes > 0
    /\ \E h \in Hops :
          /\ kernel' = {r \in kernel : r.hop # h}
          /\ budget' = [budget EXCEPT !.flushes = @ - 1, !.lost = @ \cup {h}]
    /\ inherited' = Restrict(inherited, DOMAIN inherited \cap kernel')
    /\ UNCHANGED <<now, file, rules, journal, p, scene>>

Advance ==
    /\ \E t \in Instants : t > now
    /\ now' = Min({t \in Instants : t > now})
    /\ UNCHANGED <<file, kernel, rules, journal, p, inherited, budget, scene>>

-----------------------------------------------------------------------------
(* The callers *)

\* reconcile_locked: the desired state is captured before any netlink request.
Captured(q) ==
    [NoJob EXCEPT !.stage = "captured", !.snapshot = q.snapshot, !.export = q.export,
                  !.retain = q.retain]

\* spawn_exporter: take the newest snapshot, unless it has been exported.
WorkerTakes ==
    /\ p.phase = "running"
    /\ p.worker.stage = "idle"
    /\ p.worker.exported # Len(p.published)
    /\ p' = [p EXCEPT !.worker.stage = "waiting", !.worker.snapshot = Len(p.published)]
    /\ UNCHANGED <<now, file, kernel, rules, journal, inherited, budget, scene>>

\* RouteExporter::reconcile, once it has the lock.
WorkerStarts ==
    /\ p.worker.stage = "waiting"
    /\ p.lock = "none"
    /\ IF p.stopping
         THEN p' = [p EXCEPT !.worker.stage = "idle", !.worker.exported = p.worker.snapshot]
         ELSE LET q == [p EXCEPT !.snapshot = p.worker.snapshot, !.retain = TRUE]
              IN  p' = [q EXCEPT !.worker.stage = "busy", !.lock = "worker",
                                 !.jobs["worker"] = Captured(q)]
    /\ UNCHANGED <<now, file, kernel, rules, journal, inherited, budget, scene>>

\* run_reconciler: every two seconds, and when notified.
ReconcilerStarts ==
    /\ p.phase \in {"running", "clearing", "retaining"}
    /\ p.lock = "none"
    /\ ~p.stopping
    /\ p' = [p EXCEPT !.lock = "reconciler", !.jobs["reconciler"] = Captured(p)]
    /\ UNCHANGED <<now, file, kernel, rules, journal, inherited, budget, scene>>

\* reload reads the file again, on SIGHUP or a control request.
ReloadStarts ==
    /\ p.phase = "running"
    /\ p.reload.stage = "none"
    /\ file # p.active
    /\ p' = [p EXCEPT !.reload = [stage |-> "recovery", candidate |-> file]]
    /\ UNCHANGED <<now, file, kernel, rules, journal, inherited, budget, scene>>

\* Mutant: a reload looks at the scope only.
RejectedByScope(r) == p.scope # RecoveryScope(p.reload.candidate)

Rejected(r) ==
    \/ p.scope # RecoveryScope(p.reload.candidate)
    \/ r.hop \notin p.reload.candidate.interfaces

\* recovery_interfaces: rejected routes keep an expired deadline, and the
\* journal keeps the scope the process started with.
RecoveryInterfaces ==
    /\ p.reload.stage = "recovery"
    /\ p.lock = "none"
    /\ p' = [p EXCEPT !.pending = [r \in DOMAIN @ |-> IF Rejected(r) THEN 0 ELSE @[r]],
                      !.dirty = TRUE,
                      !.lock = "reload",
                      !.reload.stage = "saving",
                      !.jobs["reload"] = [NoJob EXCEPT !.stage = "save"]]
    /\ UNCHANGED <<now, file, kernel, rules, journal, inherited, budget, scene>>

\* replace_route_policy: the engine drops what the new policy denies and
\* publishes the rest, if that changes anything.
ReloadPolicy ==
    /\ p.reload.stage = "policy"
    /\ LET c == p.reload.candidate
           left == Filtered(Last(p.published), c.admits)
       IN  p' = IF RecoveryScope(p.active) = RecoveryScope(c)
                  THEN [p EXCEPT !.reload.stage = "commit"]
                  ELSE [p EXCEPT !.reload.stage = "revoke", !.admits = c.admits,
                                 !.published = IF left = Last(@) THEN @ ELSE Append(@, left)]
    /\ budget' = IF RecoveryScope(p.reload.candidate) = p.scope THEN budget
                 ELSE [budget EXCEPT !.strayed = budget.lives]
    /\ UNCHANGED <<now, file, kernel, rules, journal, inherited, scene>>

\* update_export, before it takes the state lock.
ReloadRevokes ==
    /\ p.reload.stage = "revoke"
    /\ p' = [p EXCEPT !.reload.stage = "commit", !.revoked = TRUE]
    /\ UNCHANGED <<now, file, kernel, rules, journal, inherited, budget, scene>>

\* The rest of update_export, and the end of the reload.
ReloadCommits ==
    /\ p.reload.stage = "commit"
    /\ LET c == p.reload.candidate
           q == [p EXCEPT !.reload.stage = "none", !.active = c]
       IN  p' = IF p.exports[p.export] # Export(c)
                  THEN [q EXCEPT !.exports = Append(@, Export(c)), !.export = @ + 1]
                  ELSE q
    /\ UNCHANGED <<now, file, kernel, rules, journal, inherited, budget, scene>>

\* A stop signal: the reload in progress is abandoned where it waits; a
\* journal write it has asked for may still be done.
Stop ==
    /\ p.phase = "running"
    /\ \E phase \in {"clearing", "retaining"} :
          p' = [p EXCEPT !.phase = phase,
                         !.reload.stage = "none",
                         !.lock = IF @ = "reload" THEN "none" ELSE @,
                         !.jobs["reload"] = NoJob]
    /\ \/ UNCHANGED journal
       \/ /\ p.jobs["reload"].stage = "save"
          /\ journal' = [scope |-> p.scope, pending |-> p.pending]
    /\ UNCHANGED <<now, file, kernel, rules, inherited, budget, scene>>

\* The router has joined the export worker.
WorkerJoined == p.worker.stage = "idle"

\* RouteExporter::shutdown latches before it waits for the lock.
Latch ==
    /\ p.phase = "clearing"
    /\ WorkerJoined
    /\ p' = [p EXCEPT !.phase = "latched", !.stopping = TRUE, !.retain = FALSE,
                      !.published = Append(@, Empty), !.snapshot = Len(p.published) + 1]
    /\ UNCHANGED <<now, file, kernel, rules, journal, inherited, budget, scene>>

\* Mutant: the inherited routes are not given up.
GiveUpKeeping(q) == q

GiveUp(q) == [q EXCEPT !.revoked = TRUE]

ShutdownStarts ==
    /\ p.phase = "latched"
    /\ p.lock = "none"
    /\ p' = [GiveUp(p) EXCEPT !.phase = "cleaning", !.lock = "shutdown",
                              !.jobs["shutdown"] = Captured(p)]
    /\ UNCHANGED <<now, file, kernel, rules, journal, inherited, budget, scene>>

\* RouteExporter::retain, and the exit.
Retain ==
    /\ p.phase = "retaining"
    /\ WorkerJoined
    /\ IF p.lock = "none" THEN p' = Down ELSE p' = [p EXCEPT !.stopping = TRUE]
    /\ UNCHANGED <<now, file, kernel, rules, journal, inherited, budget, scene>>

-----------------------------------------------------------------------------
(* An attempt to reconcile, one request at a time *)

Snapshot(j) == p.published[j.snapshot]

Desired(j) == ProjectRoutes(j.views, Snapshot(j))

WantedRules(j) == DesiredRules(j.views, j.retain)

\* Mutant: stale rules are left for the end.
StaleRulesAtTheEnd(views, retain) == {}

\* remove_stale_rules: "A released table may be reused for a different source."
StaleRules(views, retain) == rules \ DesiredRules(views, retain)

\* Recovery is looked at once, before the first request.
Plan(c) ==
    /\ p.jobs[c].stage = "captured"
    /\ LET j == p.jobs[c]
           export == p.exports[j.export]
           allocated == Allocate(export, Snapshot(j))
           views == ResolvedViews(export, allocated)
           k == [j EXCEPT !.stage = "unrule", !.held = LiveRoutes, !.at = now,
                          !.views = views, !.todo = StaleRules(views, j.retain)]
       IN  /\ p' = [p EXCEPT !.allocated = allocated, !.jobs[c] = k]
           /\ inherited' = Restrict(inherited, DOMAIN inherited \ ProjectRoutes(views, Snapshot(j)))
    /\ UNCHANGED <<now, file, kernel, rules, journal, budget, scene>>

\* Recovery::keep
Keep(j, r) == r \in j.held /\ <<r.table, r.dest>> \notin Confirmed(Desired(j))

Stale(j, current) == {r \in current : r \notin Desired(j) /\ ~Keep(j, r)}

\* The routes are listed when the stale rules are gone.
Unrule(c) ==
    /\ p.jobs[c].stage = "unrule"
    /\ LET j == p.jobs[c]
       IN  \/ \E u \in j.todo :
                /\ rules' = rules \ {u}
                /\ p' = [p EXCEPT !.jobs[c].todo = @ \ {u}]
          \/ /\ j.todo = {}
             /\ p' = [p EXCEPT !.jobs[c] =
                         [j EXCEPT !.stage = "routes", !.current = kernel,
                                   !.todo = Desired(j) \ kernel, !.stale = Stale(j, kernel)]]
             /\ UNCHANGED rules
    /\ UNCHANGED <<now, file, kernel, journal, inherited, budget, scene>>

Install(c) ==
    /\ p.jobs[c].stage = "routes"
    /\ \E r \in p.jobs[c].todo :
          /\ kernel' = Replace(kernel, r)
          /\ inherited' = Restrict(inherited, DOMAIN inherited \cap kernel')
          /\ p' = [p EXCEPT !.jobs[c].todo = @ \ {r}]
    /\ UNCHANGED <<now, file, rules, journal, budget, scene>>

\* Mutant: old and new routes are handled as they come.
MayRemoveAnytime(j) == TRUE

\* "Add the new generation before removing stale identities."
MayRemove(j) == j.todo = {}

\* A route that is gone already is no error.
RemoveStale(c) ==
    /\ p.jobs[c].stage = "routes"
    /\ MayRemove(p.jobs[c])
    /\ \E r \in p.jobs[c].stale :
          /\ kernel' = kernel \ {r}
          /\ inherited' = Restrict(inherited, DOMAIN inherited \ {r})
          /\ p' = [p EXCEPT !.jobs[c].stale = @ \ {r}]
    /\ UNCHANGED <<now, file, rules, journal, budget, scene>>

\* reconcile_rules: missing rules are added, then others are removed.
ListRules(c) ==
    /\ p.jobs[c].stage = "routes"
    /\ p.jobs[c].todo = {} /\ p.jobs[c].stale = {}
    /\ p' = [p EXCEPT !.jobs[c].stage = "rules",
                      !.jobs[c].todo = WantedRules(p.jobs[c]) \ rules]
    /\ UNCHANGED <<now, file, kernel, rules, journal, inherited, budget, scene>>

Rule(c) ==
    /\ p.jobs[c].stage = "rules"
    /\ LET j == p.jobs[c]
       IN  \/ \E u \in j.todo :
                /\ rules' = rules \cup {u}
                /\ p' = [p EXCEPT !.jobs[c].todo = @ \ {u}]
          \/ /\ j.todo = {}
             /\ \E u \in rules \ WantedRules(j) : rules' = rules \ {u}
             /\ UNCHANGED p
          \/ /\ j.todo = {} /\ rules \subseteq WantedRules(j)
             /\ p' = [p EXCEPT !.jobs[c].stage = "applied"]
             /\ UNCHANGED rules
    /\ UNCHANGED <<now, file, kernel, journal, inherited, budget, scene>>

\* Recovery::applied: what was confirmed, has expired or is gone is forgotten,
\* and the journal is written if that changes it.
Applied(c) ==
    /\ p.jobs[c].stage = "applied"
    /\ LET j == p.jobs[c]
           left == {r \in DOMAIN p.pending :
                      /\ ~p.revoked
                      /\ j.at < p.pending[r]
                      /\ r \in j.current
                      /\ <<r.table, r.dest>> \notin Confirmed(Desired(j))}
           dirty == p.dirty \/ left # DOMAIN p.pending
       IN  p' = [p EXCEPT !.pending = Restrict(@, left), !.dirty = dirty,
                          !.jobs[c].stage = IF dirty THEN "save" ELSE "record"]
    /\ UNCHANGED <<now, file, kernel, rules, journal, inherited, budget, scene>>

\* The journal thread replaces the file.
Save(c) ==
    /\ p.jobs[c].stage = "save"
    /\ journal' = [scope |-> p.scope, pending |-> p.pending]
    /\ p' = [p EXCEPT !.jobs[c].stage = "record"]
    /\ UNCHANGED <<now, file, kernel, rules, inherited, budget, scene>>

\* Mutant: the newest snapshot counts as exported.
ExportedNewest(q) == Len(q.published)

\* last_generation of the export worker.
Exported(q) == q.worker.snapshot

\* The caller goes on after its attempt; the daemon tries a failed cleanup
\* once more.
Resumed(q, c, ok) ==
    LET r == [q EXCEPT !.lock = "none", !.jobs[c] = NoJob]
    IN  CASE c = "worker" ->
               [r EXCEPT !.worker.stage = "idle",
                         !.worker.exported = IF ok THEN Exported(q) ELSE @]
          [] c = "reload" -> [r EXCEPT !.reload.stage = IF ok THEN "policy" ELSE "none"]
          [] c = "shutdown" /\ ok -> [Down EXCEPT !.phase = "clean"]
          [] c = "shutdown" /\ ~ok ->
               IF q.retried THEN Down ELSE [r EXCEPT !.phase = "clearing", !.retried = TRUE]
          [] c = "reconciler" -> r

\* Mutant: the attempt acknowledges what is desired by now.
RevisionLatest(j) == [routes |-> p.snapshot, config |-> p.export]

\* record_reconcile acknowledges what was captured.
Revision(j) == [routes |-> j.snapshot, config |-> j.export]

Record(c) ==
    /\ p.jobs[c].stage = "record"
    /\ LET q == [p EXCEPT !.dirty = FALSE]
           r == IF c = "reload" THEN q
                ELSE [q EXCEPT !.last_success = <<Revision(p.jobs[c])>>]
       IN  p' = Resumed(r, c, TRUE)
    /\ UNCHANGED <<now, file, kernel, rules, journal, inherited, budget, scene>>

\* A request fails: the attempt ends, and what it has done stays done.  The
\* error may also come after the journal was replaced.
Fail(c) ==
    /\ p.jobs[c].stage \notin {"none", "record"}
    /\ budget.failures > 0
    /\ budget' = [budget EXCEPT !.failures = @ - 1]
    /\ p' = Resumed(p, c, FALSE)
    /\ \/ UNCHANGED journal
       \/ /\ p.jobs[c].stage = "save"
          /\ journal' = [scope |-> p.scope, pending |-> p.pending]
    /\ UNCHANGED <<now, file, kernel, rules, inherited, scene>>

Attempt(c) ==
    \/ Plan(c)
    \/ Unrule(c)
    \/ Install(c)
    \/ RemoveStale(c)
    \/ ListRules(c)
    \/ Rule(c)
    \/ Applied(c)
    \/ Save(c)
    \/ Record(c)

Next ==
    \/ Restart
    \/ Crash
    \/ Edit
    \/ Publish
    \/ Flush
    \/ Advance
    \/ WorkerTakes
    \/ WorkerStarts
    \/ ReconcilerStarts
    \/ ReloadStarts
    \/ RecoveryInterfaces
    \/ ReloadPolicy
    \/ ReloadRevokes
    \/ ReloadCommits
    \/ Stop
    \/ Latch
    \/ ShutdownStarts
    \/ Retain
    \/ \E c \in Callers : Attempt(c) \/ Fail(c)

\* Netlink and the journal thread answer, the tasks are polled, the clock runs,
\* and the lock is handed out in order.  Nobody is obliged to restart the
\* daemon, to stop it, or to reload it.
Fairness ==
    /\ WF_vars(Advance)
    /\ WF_vars(\E c \in Callers : Attempt(c))
    /\ WF_vars(WorkerTakes)
    /\ WF_vars(ReloadPolicy \/ ReloadRevokes \/ ReloadCommits)
    /\ WF_vars(Latch)
    /\ WF_vars(Retain)
    /\ SF_vars(WorkerStarts)
    /\ SF_vars(RecoveryInterfaces)
    /\ SF_vars(ShutdownStarts)
    /\ WF_vars(ReconcilerStarts)

Spec == Init /\ [][Next]_vars /\ Fairness

-----------------------------------------------------------------------------
(* Properties *)

Routed(routes) == {<<r.table, r.dest>> : r \in routes}

\* No step of the daemon leaves a destination without a route while the attempt
\* under way wants it routed or a route of an earlier process is still held for it
\* (apply_locked adds before it deletes; keep).
NoGap ==
    [][budget'.lost = budget.lost =>
         \A x \in Routed(kernel) \ Routed(kernel') :
            /\ \A c \in Callers \ {"reload"} :
                  p.jobs[c].stage # "none" => x \notin Routed(Desired(p.jobs[c]))
            /\ x \notin Routed(LiveRoutes)]_vars

\* Packets of one source never meet the routes of another: a route goes into a
\* table only while no rule of another source leads there, and a rule is added
\* only once the whole view is in its table (remove_stale_rules, "activate new
\* views only when full").
TablesPerSource ==
    [][\A c \in Callers : p.lock = c =>
          /\ \A r \in kernel' \ kernel, u \in rules : u.table = r.table =>
                \E v \in p.jobs[c].views : RuleOf(v) = u
          /\ \A u \in rules' \ rules :
                {r \in Desired(p.jobs[c]) : r.table = u.table} \subseteq kernel]_vars

\* However often the process dies, a route that no process has confirmed is
\* never held for longer than the window that began when it was first adopted
\* ("Repeated crashes do not extend an unconfirmed route's deadline").
NeverRenewed ==
    \A r \in LiveRoutes : r \in DOMAIN inherited => p.pending[r] <= inherited[r]

\* A route that is held is one that the configuration in force would admit:
\* what an earlier policy admitted is not kept alive under a narrower one.  A
\* life that left its scope by a reload is excepted: the journal keeps the scope
\* of its start, so its routes are adopted when the next start has that scope.
HeldAdmitted ==
    budget.strayed <= budget.lives =>
        \A r \in LiveRoutes : r.dest \in p.active.admits /\ r.hop \in p.active.interfaces

\* What status acknowledges is in the kernel: the projection of the very
\* snapshot under the very export settings that it names, whatever was
\* reloaded, published or stopped during the requests, except for what the kernel
\* lost with an interface.
AcknowledgedApplied ==
    [][p'.last_success # p.last_success /\ p'.last_success # << >> =>
         LET done == p'.last_success[1]
             views == ResolvedViews(p.exports[done.config], p.allocated)
             wanted == ProjectRoutes(views, p.published[done.routes])
         IN  {r \in wanted : r.hop \notin budget.lost} \subseteq kernel]_vars

\* After an orderly stop whose cleanup succeeded nothing of the daemon is left in
\* the kernel, neither selected nor inherited, and nothing in the journal.
CleanAfterShutdown ==
    p.phase = "clean" => kernel = {} /\ rules = {} /\ journal.pending = << >>

\* A daemon that keeps running ends up with exactly the selected routes in the
\* kernel: failures are retried and inherited routes expire.
Converges ==
    <>[](p.phase = "running")
      => <>[](/\ p.phase = "running"
              /\ kernel = ProjectRoutes(ResolvedViews(p.exports[p.export], p.allocated),
                                        Last(p.published)))
=============================================================================
