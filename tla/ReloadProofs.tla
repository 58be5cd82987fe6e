---------------------------- MODULE ReloadProofs ----------------------------
(***************************************************************************)
(* Proofs about the reloads of Daemon: what the other tasks have of the    *)
(* configuration, and what the clients of the control socket are told.     *)
(***************************************************************************)
EXTENDS DaemonProofs

TaskFields == {"pc", "active", "candidate", "by", "applied", "services", "router", "hangup",
               "terminate", "failed", "finished", "told", "retain"}

IsTask(t) == t = [f \in TaskFields |-> t[f]]

AppliedFields == {"timeout", "origins", "export", "rules", "interfaces"}

IsApplied(a) == a = [f \in AppliedFields |-> a[f]]

\* The configuration whose timeout, origins, rules and export the tasks have in
\* each step of a reload.
Handed(t) ==
    /\ t.applied.timeout =
          (IF t.pc \in {"origins", "rules", "export", "commit"} THEN t.candidate ELSE t.active).timeout
    /\ t.applied.origins =
          (IF t.pc \in {"rules", "export", "commit"} THEN t.candidate ELSE t.active).origins
    /\ t.applied.rules =
          Applied(IF t.pc \in {"export", "commit"} THEN t.candidate ELSE t.active).rules
    /\ t.applied.export = (IF t.pc = "commit" THEN t.candidate ELSE t.active).export
    /\ t.applied.interfaces = t.active.interfaces

\* A task that a reload must reach and may not.
Reached(t) == t.router = "up" /\ "interfaces" \in t.services /\ t.pc \in Looping \cup {"starting"}

Handing(t) ==
    /\ IsTask(t) /\ IsApplied(t.applied)
    /\ t.pc = "record" => t.active = t.candidate
    /\ t.pc \in {"down", "starting", "waiting"} => t.by = None
    /\ Reached(t) => Handed(t)

-----------------------------------------------------------------------------
(* The task *)

\* A record of the task with one field replaced.
LEMMA TaskField ==
    ASSUME NEW t, IsTask(t), NEW f \in TaskFields, NEW x
    PROVE  /\ IsTask([t EXCEPT ![f] = x])
           /\ [t EXCEPT ![f] = x][f] = x
           /\ \A g \in TaskFields : g # f => [t EXCEPT ![f] = x][g] = t[g]
<1>1. DOMAIN t = TaskFields
  BY DEF IsTask
<1> QED
  BY <1>1 DEF IsTask

\* Likewise for what was applied.
LEMMA AppliedField ==
    ASSUME NEW a, IsApplied(a), NEW f \in AppliedFields, NEW x
    PROVE  /\ IsApplied([a EXCEPT ![f] = x])
           /\ [a EXCEPT ![f] = x][f] = x
           /\ \A g \in AppliedFields : g # f => [a EXCEPT ![f] = x][g] = a[g]
<1>1. DOMAIN a = AppliedFields
  BY DEF IsApplied
<1> QED
  BY <1>1 DEF IsApplied

\* A configuration that was just loaded is what every task has.
LEMMA LoadedHanding ==
    ASSUME NEW c PROVE /\ Handing(Loaded(c)) /\ Handing([Loaded(c) EXCEPT !.pc = "waiting"])
                       /\ Handing([Loaded(c) EXCEPT !.pc = "down"])
<1> DEFINE t == Loaded(c)
<1>1. IsTask(t)
  BY DEF Loaded, IsTask, TaskFields
<1>2. IsApplied(Applied(c))
  BY DEF Applied, IsApplied, AppliedFields
<1>3. t.pc = "starting" /\ t.active = c /\ t.by = None /\ t.applied = Applied(c)
  BY DEF Loaded
<1> HIDE DEF t
<1>4. ASSUME NEW u, IsTask(u), u.pc \in {"starting", "waiting", "down"}, u.active = c, u.by = None,
             u.applied = Applied(c)
      PROVE  Handing(u)
  BY <1>2, <1>4 DEF Handing, Handed, Applied
<1>5. Handing(t)
  BY <1>1, <1>3, <1>4
<1>6. ASSUME NEW x \in {"waiting", "down"} PROVE Handing([t EXCEPT !.pc = x])
  <2> DEFINE u == [t EXCEPT !.pc = x]
  <2>1. IsTask(u) /\ u.pc = x /\ u.active = t.active /\ u.by = t.by /\ u.applied = t.applied
    BY <1>1, TaskField DEF TaskFields
  <2> HIDE DEF u
  <2>2. Handing(u)
    BY <1>3, <1>4, <2>1
  <2> QED
    BY <2>2 DEF u
<1> QED
  BY <1>5, <1>6 DEF t

\* A task that loses something keeps what it has.
LEMMA Lessened ==
    ASSUME NEW t, NEW u, Handing(t), IsTask(u), u.pc = t.pc, u.active = t.active,
           u.candidate = t.candidate, u.by = t.by, u.applied = t.applied,
           u.router = "up" => t.router = "up", u.services \subseteq t.services
    PROVE  Handing(u)
<1>1. Reached(u) => Reached(t)
  BY DEF Reached
<1>2. Handed(t) => Handed(u)
  BY DEF Handed
<1> QED
  BY <1>1, <1>2 DEF Handing

Leaving == {"flush", "tell", "router", "fib", "join"}

\* A task that has left the loop owes nothing.
LEMMA LeftHanding ==
    ASSUME NEW t, NEW u, Handing(t), IsTask(u), u.pc \in Leaving, u.applied = t.applied
    PROVE  Handing(u)
  BY DEF Handing, Reached, Leaving, Looping, Reloading

\* The same for Stopping.
LEMMA StoppingTask ==
    ASSUME NEW t, IsTask(t), NEW failed, NEW response
    PROVE  /\ IsTask(Stopping(t, failed, response)) /\ Stopping(t, failed, response).pc \in Leaving
           /\ Stopping(t, failed, response).applied = t.applied
<1> DEFINE t1 == [t EXCEPT !.pc = IF response = None THEN "tell" ELSE "flush"]
           t2 == [t1 EXCEPT !.by = response]
           t3 == [t2 EXCEPT !.failed = failed]
           t4 == [t3 EXCEPT !.retain = failed \/ t.active.retain]
<1>1. Stopping(t, failed, response) = t4
  BY DEF Stopping
<1>2. IsTask(t1) /\ t1.pc \in Leaving /\ t1.applied = t.applied
  BY TaskField DEF TaskFields, Leaving
<1> HIDE DEF t1
<1>3. IsTask(t2) /\ t2.pc = t1.pc /\ t2.applied = t1.applied
  BY <1>2, TaskField DEF TaskFields
<1> HIDE DEF t2
<1>4. IsTask(t3) /\ t3.pc = t2.pc /\ t3.applied = t2.applied
  BY <1>3, TaskField DEF TaskFields
<1> HIDE DEF t3
<1>5. IsTask(t4) /\ t4.pc = t3.pc /\ t4.applied = t3.applied
  BY <1>4, TaskField DEF TaskFields
<1> HIDE DEF t4
<1> QED
  BY <1>1, <1>2, <1>3, <1>4, <1>5

\* The record that Rejected and Record leave: the loop waits again.
LEMMA WaitsAgain ==
    ASSUME NEW t, IsTask(t)
    PROVE  LET u == [t EXCEPT !.pc = "waiting", !.by = None]
           IN  /\ IsTask(u) /\ u.pc = "waiting" /\ u.by = None /\ u.active = t.active
               /\ u.applied = t.applied /\ u.router = t.router /\ u.services = t.services
<1> DEFINE t1 == [t EXCEPT !.pc = "waiting"]
           t2 == [t1 EXCEPT !.by = None]
<1>1. /\ IsTask(t1) /\ t1.pc = "waiting" /\ t1.active = t.active
      /\ t1.applied = t.applied /\ t1.router = t.router /\ t1.services = t.services
  BY TaskField DEF TaskFields
<1> HIDE DEF t1
<1>2. /\ IsTask(t2) /\ t2.pc = t1.pc /\ t2.by = None /\ t2.active = t1.active
      /\ t2.applied = t1.applied /\ t2.router = t1.router /\ t2.services = t1.services
  BY <1>1, TaskField DEF TaskFields
<1>3. [t EXCEPT !.pc = "waiting", !.by = None] = t2
  BY DEF t1
<1> HIDE DEF t2
<1> QED
  BY <1>1, <1>2, <1>3

\* A rejected reload leaves the tasks with the active configuration, unless it
\* was rejected because one of them has ended.
LEMMA RejectedHanding ==
    ASSUME NEW t, Handing(t), t.pc \in {"waiting", "recover", "record"} \/ ~ Reached(t), t.pc \in Looping
    PROVE  Handing([t EXCEPT !.pc = "waiting", !.by = None])
<1> DEFINE u == [t EXCEPT !.pc = "waiting", !.by = None]
<1>1. /\ IsTask(u) /\ u.pc = "waiting" /\ u.by = None /\ u.active = t.active
      /\ u.applied = t.applied /\ u.router = t.router /\ u.services = t.services
  BY WaitsAgain DEF Handing
<1> HIDE DEF u
<1>2. Reached(u) => Reached(t)
  BY <1>1 DEF Reached
<1>3. Handed(t) /\ t.pc \in {"waiting", "recover", "record"} => Handed(u)
  BY <1>1 DEF Handed
<1>4. Handing(u)
  BY <1>1, <1>2, <1>3 DEF Handing
<1> QED
  BY <1>4 DEF u

\* reload_and_record from the loop, with the file or a rejection.
LEMMA ReloadHanding ==
    ASSUME NEW t, Handing(t), t.pc = "waiting", NEW by, Reload(t, by)
    PROVE  Handing(d')
<1>1. CASE Rejected(t, by)
  BY <1>1, RejectedHanding DEF Rejected, Looping
<1>2. CASE d' = [t EXCEPT !.pc = "recover", !.candidate = file, !.by = by]
  <2> DEFINE t1 == [t EXCEPT !.pc = "recover"]
             t2 == [t1 EXCEPT !.candidate = file]
             t3 == [t2 EXCEPT !.by = by]
  <2>1. d' = t3
    BY <1>2
  <2>2. /\ IsTask(t1) /\ t1.pc = "recover" /\ t1.active = t.active
        /\ t1.applied = t.applied /\ t1.router = t.router /\ t1.services = t.services
    BY TaskField DEF TaskFields, Handing
  <2> HIDE DEF t1
  <2>3. /\ IsTask(t2) /\ t2.pc = t1.pc /\ t2.active = t1.active
        /\ t2.applied = t1.applied /\ t2.router = t1.router /\ t2.services = t1.services
    BY <2>2, TaskField DEF TaskFields
  <2> HIDE DEF t2
  <2>4. /\ IsTask(t3) /\ t3.pc = t2.pc /\ t3.active = t2.active
        /\ t3.applied = t2.applied /\ t3.router = t2.router /\ t3.services = t2.services
    BY <2>3, TaskField DEF TaskFields
  <2> HIDE DEF t3
  <2>5. Reached(t3) => Reached(t)
    BY <2>2, <2>3, <2>4 DEF Reached, Looping
  <2>6. Handed(t) => Handed(t3)
    BY <2>2, <2>3, <2>4 DEF Handed
  <2> QED
    BY <2>1, <2>2, <2>3, <2>4, <2>5, <2>6 DEF Handing
<1> QED
  BY <1>1, <1>2 DEF Reload

\* The record after a step that gave one part of the candidate.
Gave(u, t, f, x, pc) ==
    /\ IsTask(u) /\ IsApplied(u.applied) /\ u.pc = pc
    /\ u.active = t.active /\ u.candidate = t.candidate /\ u.by = t.by
    /\ u.router = t.router /\ u.services = t.services
    /\ u.applied[f] = x
    /\ \A g \in AppliedFields : g # f => u.applied[g] = t.applied[g]

\* Such a step, in the words of the actions.
LEMMA GivesOne ==
    ASSUME NEW t, Handing(t), NEW f \in AppliedFields, NEW x, NEW pc, NEW u,
           u = [[t EXCEPT !.pc = pc] EXCEPT !.applied = [t.applied EXCEPT ![f] = x]]
    PROVE  Gave(u, t, f, x, pc)
<1> DEFINE a == [t.applied EXCEPT ![f] = x]
           t1 == [t EXCEPT !.pc = pc]
<1>1. IsApplied(a) /\ a[f] = x /\ \A g \in AppliedFields : g # f => a[g] = t.applied[g]
  BY AppliedField DEF Handing
<1>2. /\ IsTask(t1) /\ t1.pc = pc /\ t1.active = t.active /\ t1.candidate = t.candidate
      /\ t1.by = t.by /\ t1.router = t.router /\ t1.services = t.services
  BY TaskField DEF TaskFields, Handing
<1> DEFINE v == [t1 EXCEPT !.applied = a]
<1>3. u = v
  OBVIOUS
<1> HIDE DEF a, t1
<1>4. /\ IsTask(v) /\ v.pc = t1.pc /\ v.active = t1.active /\ v.candidate = t1.candidate
      /\ v.by = t1.by /\ v.router = t1.router /\ v.services = t1.services /\ v.applied = a
  BY <1>2, TaskField DEF TaskFields
<1> HIDE DEF v
<1> QED
  BY <1>1, <1>2, <1>3, <1>4 DEF Gave

\* Steps of reload that give the router something, or fail because it has ended.
LEMMA CommandHanding ==
    ASSUME Handing(d), d.pc \in Reloading, NEW u, Command(u), d.router = "up" => Handing(u)
    PROVE  Handing(d')
<1>1. CASE d.router = "up"
  BY <1>1 DEF Command
<1>2. CASE d.router # "up"
  BY <1>2, RejectedHanding DEF Command, Rejected, Reached, Looping
<1> QED
  BY <1>1, <1>2

\* The position of the task is apart from what was applied.
LEMMA PcApplied ==
    ASSUME Handing(d), NEW pc PROVE [d EXCEPT !.pc = pc].applied = d.applied
  BY TaskField DEF TaskFields, Handing

\* set_shutdown_timeout
LEMMA SetShutdownTimeoutHanding == ASSUME Handing(d), SetShutdownTimeout PROVE Handing(d')
<1> DEFINE u == [d EXCEPT !.pc = "origins", !.applied.timeout = d.candidate.timeout]
<1>1. d.pc = "timeout" /\ Command(u)
  BY DEF SetShutdownTimeout
<1>a. u = [[d EXCEPT !.pc = "origins"] EXCEPT
              !.applied = [d.applied EXCEPT !["timeout"] = d.candidate.timeout]]
  BY PcApplied
<1>2. Gave(u, d, "timeout", d.candidate.timeout, "origins")
  BY <1>a, GivesOne DEF AppliedFields
<1> HIDE DEF u
<1>3. Reached(u) => Reached(d)
  BY <1>1, <1>2 DEF Gave, Reached, Looping, Reloading
<1>4. Handed(d) => Handed(u)
  BY <1>1, <1>2 DEF Gave, Handed, AppliedFields
<1>5. Handing(u)
  BY <1>1, <1>2, <1>3, <1>4 DEF Gave, Handing
<1> QED
  BY <1>1, <1>5, CommandHanding DEF Reloading

\* replace_origins
LEMMA ReplaceOriginsHanding == ASSUME Handing(d), ReplaceOrigins PROVE Handing(d')
<1> DEFINE u == [d EXCEPT !.pc = "rules", !.applied.origins = d.candidate.origins]
<1>1. d.pc = "origins" /\ Command(u)
  BY DEF ReplaceOrigins
<1>a. u = [[d EXCEPT !.pc = "rules"] EXCEPT
              !.applied = [d.applied EXCEPT !["origins"] = d.candidate.origins]]
  BY PcApplied
<1>2. Gave(u, d, "origins", d.candidate.origins, "rules")
  BY <1>a, GivesOne DEF AppliedFields
<1> HIDE DEF u
<1>3. Reached(u) => Reached(d)
  BY <1>1, <1>2 DEF Gave, Reached, Looping, Reloading
<1>4. Handed(d) => Handed(u)
  BY <1>1, <1>2 DEF Gave, Handed, AppliedFields
<1>5. Handing(u)
  BY <1>1, <1>2, <1>3, <1>4 DEF Gave, Handing
<1> QED
  BY <1>1, <1>5, CommandHanding DEF Reloading

\* replace_route_policy, where a rule differs
LEMMA ReplaceRoutePolicyHanding == ASSUME Handing(d), ReplaceRoutePolicy PROVE Handing(d')
<1>1. d.pc = "rules"
  BY DEF ReplaceRoutePolicy
<1>2. CASE RulesChanged
  <2> DEFINE u == [d EXCEPT !.pc = "export", !.applied.rules = Applied(d.candidate).rules]
  <2>1. Command(u)
    BY <1>2 DEF ReplaceRoutePolicy
  <2>a. u = [[d EXCEPT !.pc = "export"] EXCEPT
                !.applied = [d.applied EXCEPT !["rules"] = Applied(d.candidate).rules]]
    BY PcApplied
  <2>2. Gave(u, d, "rules", Applied(d.candidate).rules, "export")
    BY <2>a, GivesOne DEF AppliedFields
  <2> HIDE DEF u
  <2>3. Reached(u) => Reached(d)
    BY <1>1, <2>2 DEF Gave, Reached, Looping, Reloading
  <2>4. Handed(d) => Handed(u)
    BY <1>1, <2>2 DEF Gave, Handed, AppliedFields
  <2>5. Handing(u)
    BY <1>1, <2>2, <2>3, <2>4 DEF Gave, Handing
  <2> QED
    BY <1>1, <2>1, <2>5, CommandHanding DEF Reloading
<1>3. CASE ~ RulesChanged
  <2> DEFINE u == [d EXCEPT !.pc = "export"]
  <2>1. d' = u
    BY <1>3 DEF ReplaceRoutePolicy
  <2>2. /\ IsTask(u) /\ u.pc = "export" /\ u.active = d.active /\ u.candidate = d.candidate
        /\ u.by = d.by /\ u.router = d.router /\ u.services = d.services /\ u.applied = d.applied
    BY TaskField DEF TaskFields, Handing
  <2> HIDE DEF u
  <2>3. Reached(u) => Reached(d)
    BY <1>1, <2>2 DEF Reached, Looping, Reloading
  <2>4. Applied(d.active).rules = Applied(d.candidate).rules
    BY <1>3 DEF RulesChanged, Applied
  <2>5. Handed(d) => Handed(u)
    BY <1>1, <2>2, <2>4 DEF Handed
  <2> QED
    BY <1>1, <2>1, <2>2, <2>3, <2>5 DEF Handing
<1> QED
  BY <1>2, <1>3

\* update_config of the exporter
LEMMA UpdateExportHanding == ASSUME Handing(d), UpdateExport PROVE Handing(d')
<1> DEFINE x == IF d.active.export # d.candidate.export \/ d.active.import # d.candidate.import
                THEN d.candidate.export ELSE d.applied.export
<1>1. d.pc = "export"
  BY DEF UpdateExport
<1>2. d' = [[d EXCEPT !.pc = "commit"] EXCEPT !.applied = [d.applied EXCEPT !["export"] = x]]
  BY PcApplied DEF UpdateExport
<1>3. Gave(d', d, "export", x, "commit")
  BY <1>2, GivesOne DEF AppliedFields
<1>4. Reached(d') => Reached(d)
  BY <1>1, <1>3 DEF Gave, Reached, Looping, Reloading
<1>5. Handed(d) => x = d.candidate.export
  BY <1>1 DEF Handed
<1> HIDE DEF x
<1>6. Handed(d) => Handed(d')
  BY <1>1, <1>3, <1>5 DEF Gave, Handed, AppliedFields
<1> QED
  BY <1>1, <1>3, <1>4, <1>6 DEF Gave, Handing

\* The interface manager gets the candidate, which is active from then on.
LEMMA CommitHanding == ASSUME Handing(d), Commit PROVE Handing(d')
<1>1. d.pc = "commit"
  BY DEF Commit
<1>2. CASE "interfaces" \notin d.services
  BY <1>1, <1>2, RejectedHanding DEF Commit, Rejected, Reached, Looping, Reloading
<1>3. CASE "interfaces" \in d.services
  <2> DEFINE t1 == [d EXCEPT !.pc = "record"]
             t2 == [t1 EXCEPT !.active = d.candidate]
             a == [d.applied EXCEPT !["interfaces"] = d.candidate.interfaces]
             t3 == [t2 EXCEPT !.applied = a]
  <2>1. /\ IsTask(t1) /\ t1.pc = "record" /\ t1.candidate = d.candidate /\ t1.applied = d.applied
        /\ t1.router = d.router /\ t1.services = d.services
    BY TaskField DEF TaskFields, Handing
  <2>2. t2 = [d EXCEPT !.pc = "record", !.active = d.candidate]
    OBVIOUS
  <2> HIDE DEF t1
  <2>3. /\ IsTask(t2) /\ t2.pc = t1.pc /\ t2.active = d.candidate /\ t2.candidate = t1.candidate
        /\ t2.applied = t1.applied /\ t2.router = t1.router /\ t2.services = t1.services
    BY <2>1, TaskField DEF TaskFields
  <2>4. d' = t3
    BY <1>3, <2>1, <2>3 DEF Commit, t1
  <2>5. /\ IsApplied(a) /\ a.interfaces = d.candidate.interfaces
        /\ \A g \in AppliedFields : g # "interfaces" => a[g] = d.applied[g]
    BY AppliedField DEF Handing, AppliedFields
  <2> HIDE DEF t2, a
  <2>6. /\ IsTask(t3) /\ t3.pc = t2.pc /\ t3.active = t2.active /\ t3.candidate = t2.candidate
        /\ t3.applied = a /\ t3.router = t2.router /\ t3.services = t2.services
    BY <2>3, TaskField DEF TaskFields
  <2> HIDE DEF t3
  <2>7. Reached(t3) => Reached(d)
    BY <1>1, <2>1, <2>3, <2>6 DEF Reached, Looping, Reloading
  <2>8. Handed(d) => Handed(t3)
    BY <1>1, <2>1, <2>3, <2>5, <2>6 DEF Handed, AppliedFields
  <2> QED
    BY <2>1, <2>3, <2>4, <2>5, <2>6, <2>7, <2>8 DEF Handing
<1> QED
  BY <1>2, <1>3

\* A process before its loop, and where its task is then.
Early(q) == proc[q].phase \in {"owned", "loaded", "ready"}

Starting == \A q \in Procs : Early(q) => d.pc = "starting"

\* The steps that only move the task within or out of the loop.
LEMMA LoopHanding ==
    ASSUME Handing(d),
           \/ RecoveryInterfaces \/ Record \/ ServeHangup \/ ServeCommand \/ TaskEnded \/ Signalled
    PROVE  Handing(d')
<1>0. IsTask(d)
  BY DEF Handing
<1>1. CASE RecoveryInterfaces
  <2>1. CASE Rejected(d, d.by)
    BY <1>1, <2>1, RejectedHanding DEF RecoveryInterfaces, Rejected, Looping, Reloading
  <2>2. CASE d' = [d EXCEPT !.pc = "timeout"]
    <3> DEFINE u == [d EXCEPT !.pc = "timeout"]
    <3>1. /\ IsTask(u) /\ u.pc = "timeout" /\ u.active = d.active /\ u.candidate = d.candidate
          /\ u.by = d.by /\ u.router = d.router /\ u.services = d.services /\ u.applied = d.applied
      BY <1>0, TaskField DEF TaskFields
    <3> HIDE DEF u
    <3>2. d.pc = "recover"
      BY <1>1 DEF RecoveryInterfaces
    <3>3. Reached(u) => Reached(d)
      BY <3>1, <3>2 DEF Reached, Looping, Reloading
    <3>4. Handed(d) => Handed(u)
      BY <3>1, <3>2 DEF Handed
    <3>5. Handing(u)
      BY <3>1, <3>3, <3>4 DEF Handing
    <3> QED
      BY <2>2, <3>5 DEF u
  <2> QED
    BY <1>1, <2>1, <2>2 DEF RecoveryInterfaces
<1>2. CASE Record
  BY <1>2, RejectedHanding DEF Record, Looping, Reloading
<1>3. CASE ServeHangup
  <2> DEFINE u == [d EXCEPT !.hangup = FALSE]
  <2>1. /\ IsTask(u) /\ u.pc = d.pc /\ u.active = d.active /\ u.candidate = d.candidate
        /\ u.by = d.by /\ u.router = d.router /\ u.services = d.services /\ u.applied = d.applied
    BY <1>0, TaskField DEF TaskFields
  <2>2. d.pc = "waiting" /\ Reload(u, None)
    BY <1>3 DEF ServeHangup
  <2> HIDE DEF u
  <2>3. Handing(u)
    BY <2>1, Lessened
  <2> QED
    BY <2>1, <2>2, <2>3, ReloadHanding
<1>4. CASE ServeCommand
  <2>1. CASE Reload(d, Head(queue))
    BY <1>4, <2>1, ReloadHanding DEF ServeCommand
  <2>2. CASE d' = Stopping(d, FALSE, Head(queue))
    BY <1>0, <2>2, StoppingTask, LeftHanding
  <2> QED
    BY <1>4, <2>1, <2>2 DEF ServeCommand
<1>5. CASE TaskEnded
  <2> DEFINE u == [d EXCEPT !.finished = TRUE]
  <2>1. IsTask(u) /\ u.applied = d.applied
    BY <1>0, TaskField DEF TaskFields
  <2>2. d' = Stopping(u, TRUE, None) \/ d' = Stopping(d, TRUE, None)
    BY <1>5 DEF TaskEnded
  <2> HIDE DEF u
  <2>3. IsTask(d') /\ d'.pc \in Leaving /\ d'.applied = d.applied
    BY <1>0, <2>1, <2>2, StoppingTask
  <2> QED
    BY <2>3, LeftHanding
<1>6. CASE Signalled
  <2>1. d' = Stopping(d, FALSE, None)
    BY <1>6 DEF Signalled
  <2> QED
    BY <1>0, <2>1, StoppingTask, LeftHanding
<1> QED
  BY <1>1, <1>2, <1>3, <1>4, <1>5, <1>6

\* The steps of the cleanup.
LEMMA CleanupLeaves ==
    ASSUME Handing(d), Flush \/ Tell \/ WaitRouter \/ ExportCleanup
    PROVE  IsTask(d') /\ d'.pc \in Leaving /\ d'.applied = d.applied
<1>0. IsTask(d) /\ DOMAIN d = TaskFields
  BY DEF Handing, IsTask
<1>1. CASE Flush
  <2>1. d' = [[d EXCEPT !.pc = "tell"] EXCEPT !.by = None]
    BY <1>1 DEF Flush
  <2>2. IsTask(d') /\ d'.pc \in Leaving /\ d'.applied = d.applied
    BY <1>0, <2>1 DEF IsTask, TaskFields, Leaving
  <2> QED
    BY <2>2
<1>2. CASE Tell
  <2> DEFINE pc == IF d.finished THEN "fib" ELSE "router"
             r == IF d.router = "up" THEN "asked" ELSE d.router
  <2>1. d' = [[[d EXCEPT !.pc = pc] EXCEPT !.told = TRUE] EXCEPT !.router = r]
    BY <1>0, <1>2 DEF Tell, TaskFields
  <2>2. pc \in Leaving
    BY DEF Leaving
  <2> HIDE DEF pc, r
  <2>3. IsTask(d') /\ d'.pc = pc /\ d'.applied = d.applied
    BY <1>0, <2>1 DEF IsTask, TaskFields
  <2> QED
    BY <2>2, <2>3
<1>3. CASE WaitRouter
  <2>1. \/ d' = [d EXCEPT !.pc = "join"]
        \/ d' = [[[d EXCEPT !.pc = "fib"] EXCEPT !.finished = TRUE] EXCEPT !.failed = TRUE]
    BY <1>3 DEF WaitRouter
  <2>2. IsTask(d') /\ d'.pc \in Leaving /\ d'.applied = d.applied
    BY <1>0, <2>1 DEF IsTask, TaskFields, Leaving
  <2> QED
    BY <2>2
<1>4. CASE ExportCleanup
  <2>1. PICK x : d' = [[d EXCEPT !.pc = "join"] EXCEPT !.failed = x]
    BY <1>4 DEF ExportCleanup
  <2>2. IsTask(d') /\ d'.pc \in Leaving /\ d'.applied = d.applied
    BY <1>0, <2>1 DEF IsTask, TaskFields, Leaving
  <2> QED
    BY <2>2
<1> QED
  BY <1>1, <1>2, <1>3, <1>4

\* So nothing is owed there.
LEMMA CleanupHanding ==
    ASSUME Handing(d), Flush \/ Tell \/ WaitRouter \/ ExportCleanup PROVE Handing(d')
  BY CleanupLeaves, LeftHanding

\* What happens to the task from outside, one field at a time.
LEMMA OneField ==
    ASSUME Handing(d), NEW f \in {"hangup", "terminate", "router", "services"}, NEW x,
           d' = [d EXCEPT ![f] = x], f = "router" => x # "up", f = "services" => x \subseteq d.services
    PROVE  Handing(d') /\ d'.pc = d.pc /\ d'.by = d.by /\ d'.candidate = d.candidate
<1> DEFINE u == [d EXCEPT ![f] = x]
<1>1. IsTask(d) /\ f \in TaskFields
  BY DEF Handing, TaskFields
<1>a. DOMAIN d = TaskFields
  BY <1>1 DEF IsTask
<1>2. IsTask(u) /\ u[f] = x /\ \A g \in TaskFields : g # f => u[g] = d[g]
  BY <1>1, <1>a DEF IsTask
<1> HIDE DEF u
<1>3. /\ u.pc = d.pc /\ u.by = d.by /\ u.active = d.active /\ u.candidate = d.candidate
      /\ u.applied = d.applied
  BY <1>2 DEF TaskFields
<1>4. u.router = "up" => d.router = "up"
  BY <1>2 DEF TaskFields
<1>5. u.services \subseteq d.services
  BY <1>2 DEF TaskFields
<1>6. Handing(u)
  BY <1>2, <1>3, <1>4, <1>5, Lessened
<1> QED
  BY <1>3, <1>6 DEF u

\* So it keeps what it has.
LEMMA OutsideHanding ==
    ASSUME Handing(d),
           \/ Hangup \/ Terminate \/ RouterFails \/ (\E s \in Services : ServiceFails(s))
           \/ ServicesStop \/ (\E q \in Procs : RouterReturns(q))
    PROVE  Handing(d') /\ d'.pc = d.pc /\ d'.by = d.by /\ d'.candidate = d.candidate
<1>1. CASE Hangup
  BY <1>1, OneField DEF Hangup
<1>2. CASE Terminate
  BY <1>2, OneField DEF Terminate
<1>3. CASE RouterFails
  BY <1>3, OneField DEF RouterFails
<1>4. CASE \E s \in Services : ServiceFails(s)
  <2>1. PICK s \in Services : d' = [d EXCEPT !["services"] = d.services \ {s}]
    BY <1>4 DEF ServiceFails
  <2> QED
    BY <2>1, OneField
<1>5. CASE ServicesStop
  <2>1. d' = [d EXCEPT !["services"] = {}]
    BY <1>5 DEF ServicesStop
  <2> QED
    BY <2>1, OneField
<1>6. CASE \E q \in Procs : RouterReturns(q)
  <2>1. PICK x \in {"done", "failed"} : d' = [d EXCEPT !["router"] = x]
    BY <1>6 DEF RouterReturns
  <2> QED
    BY <2>1, OneField
<1> QED
  BY <1>1, <1>2, <1>3, <1>4, <1>5, <1>6

\* The end of the process.
LEMMA VanishHanding == ASSUME Vanish PROVE Handing(d') /\ d'.pc = "down"
<1>1. d' = [Loaded(CHOOSE c \in Configs : c.valid) EXCEPT !.pc = "down"]
  BY DEF Vanish, Down
<1>2. ASSUME NEW c PROVE [Loaded(c) EXCEPT !.pc = "down"].pc = "down"
  <2>1. IsTask(Loaded(c))
    BY LoadedHanding DEF Handing
  <2> QED
    BY <2>1, TaskField DEF TaskFields
<1> QED
  BY <1>1, <1>2, LoadedHanding

\* Every step keeps what the tasks have; a start is the only way into the loop.
LEMMA HandingStep ==
    ASSUME CheckpointInv, Handing(d), Starting, [DaemonNext]_all PROVE Handing(d') /\ Starting'
<1>1. ASSUME \A q \in Procs : Early(q)' => Early(q), d.pc = "starting" => d'.pc = "starting"
      PROVE  Starting'
  BY <1>1 DEF Starting
<1>2. ASSUME UNCHANGED proc PROVE \A q \in Procs : Early(q)' => Early(q)
  BY <1>2 DEF Early
<1>3. ASSUME NEW q \in Procs, Working(q), \A r \in Procs : r # q => proc'[r] = proc[r],
             ~ Early(q)' \/ d'.pc = "starting"
      PROVE  Starting'
  <2>1. \A r \in Procs : r # q => ~ Early(r)'
    BY <1>3, OneOwner DEF Early, Working
  <2> QED
    BY <1>3, <2>1 DEF Starting
<1>4. proc \in [Procs -> Process]
  BY DEF CheckpointInv, CheckpointTyped
<1>5. CASE UNCHANGED all
  BY <1>1, <1>2, <1>5 DEF all
<1>6. ASSUME NEW q \in Procs, StartProcess(q) PROVE Handing(d') /\ Starting'
  <2>1. d' = Loaded(file)
    BY <1>6 DEF StartProcess
  <2>2. Loaded(file).pc = "starting"
    BY DEF Loaded
  <2> QED
    BY <2>1, <2>2, LoadedHanding DEF Starting
<1>7. ASSUME NEW q \in Procs, StartLoop(q) PROVE Handing(d') /\ Starting'
  <2>1. /\ proc[q].phase = "ready" /\ proc' = [proc EXCEPT ![q].phase = "running"]
        /\ d' = [d EXCEPT !.pc = "waiting"]
    BY <1>7 DEF StartLoop, Run
  <2>2. d.pc = "starting"
    BY <2>1 DEF Starting, Early
  <2>3. Working(q) /\ ~ Early(q)' /\ \A r \in Procs : r # q => proc'[r] = proc[r]
    BY <1>4, <2>1 DEF Working, Early, Process
  <2> DEFINE u == [d EXCEPT !.pc = "waiting"]
  <2>4. /\ IsTask(u) /\ u.pc = "waiting" /\ u.active = d.active /\ u.candidate = d.candidate
        /\ u.by = d.by /\ u.router = d.router /\ u.services = d.services /\ u.applied = d.applied
    BY TaskField DEF TaskFields, Handing
  <2> HIDE DEF u
  <2>5. (Reached(u) => Reached(d)) /\ (Handed(d) => Handed(u))
    BY <2>2, <2>4 DEF Reached, Looping, Handed
  <2>6. Handing(u)
    BY <2>2, <2>4, <2>5 DEF Handing
  <2> QED
    BY <1>3, <2>1, <2>3, <2>6 DEF u
<1>8. ASSUME NEW q \in Procs, EndProcess(q) PROVE Handing(d') /\ Starting'
  <2>1. proc[q].phase # "off" /\ proc' = [proc EXCEPT ![q] = Off]
    BY <1>8 DEF EndProcess, End
  <2>2. ~ Early(q)' /\ \A r \in Procs : r # q => proc'[r] = proc[r]
    BY <1>4, <2>1 DEF Early, Off
  <2>3. CASE proc[q].phase = "returned"
    <3>1. d' = d
      BY <1>8, <2>3 DEF EndProcess
    <3> QED
      BY <1>1, <2>2, <3>1 DEF Early
  <2>4. CASE proc[q].phase # "returned"
    BY <1>3, <1>8, <2>1, <2>2, <2>4, VanishHanding DEF EndProcess, Working
  <2> QED
    BY <2>3, <2>4
<1>9. ASSUME NEW q \in Procs, Finish(q) \/ DeadlinePasses(q) PROVE Handing(d') /\ Starting'
  <2>1. /\ proc[q].phase \in {"running", "waiting", "cleanup"} /\ Vanish
        /\ proc' = [proc EXCEPT ![q].phase = "returned"]
    BY <1>9 DEF Finish, DeadlinePasses, Return
  <2>2. Working(q) /\ ~ Early(q)' /\ \A r \in Procs : r # q => proc'[r] = proc[r]
    BY <1>4, <2>1 DEF Early, Working, Process
  <2> QED
    BY <1>3, <2>1, <2>2, VanishHanding
<1>10. ASSUME NEW q \in Procs, UNCHANGED daemonVars,
              \/ Load(q) \/ Consume(q) \/ ThreadRename(q) \/ ThreadEnd(q) \/ Bump(q)
              \/ Persist(q) \/ Checkpointed(q)
       PROVE  Handing(d') /\ Starting'
  <2>1. d' = d
    BY <1>10 DEF daemonVars
  <2>2. \A r \in Procs : Early(r)' => Early(r)
    <3>1. CASE Load(q)
      <4>1. Early(q) /\ \E p : proc' = [proc EXCEPT ![q] = p]
        BY <3>1 DEF Load, Early
      <4> QED
        BY <1>4, <4>1 DEF Early
    <3>2. CASE Consume(q)
      BY <1>4, <3>2 DEF Consume, Early
    <3>3. CASE ThreadRename(q)
      BY <1>4, <3>3 DEF ThreadRename, Early, Process
    <3>4. CASE ThreadEnd(q)
      BY <1>4, <3>4 DEF ThreadEnd, Early, Process
    <3>5. CASE Bump(q)
      <4>1. Early(q)' => Early(q)
        BY <1>4, <3>5 DEF Bump, Early, Process
      <4>2. \A r \in Procs : r # q => proc'[r] = proc[r]
        BY <1>4, <3>5 DEF Bump
      <4> QED
        BY <4>1, <4>2 DEF Early
    <3>6. CASE Persist(q)
      <4>1. Early(q)' => Early(q)
        BY <1>4, <3>6 DEF Persist, Early, Process
      <4>2. \A r \in Procs : r # q => proc'[r] = proc[r]
        BY <1>4, <3>6 DEF Persist
      <4> QED
        BY <4>1, <4>2 DEF Early
    <3>7. CASE Checkpointed(q)
      <4>1. Early(q)' => Early(q)
        BY <1>4, <3>7 DEF Checkpointed, Early, Process
      <4>2. \A r \in Procs : r # q => proc'[r] = proc[r]
        BY <1>4, <3>7 DEF Checkpointed
      <4> QED
        BY <4>1, <4>2 DEF Early
    <3> QED
      BY <1>10, <3>1, <3>2, <3>3, <3>4, <3>5, <3>6, <3>7
  <2> QED
    BY <1>1, <2>1, <2>2
<1>11. ASSUME \/ Hangup \/ Terminate \/ RouterFails \/ (\E s \in Services : ServiceFails(s))
              \/ ServicesStop \/ (\E q \in Procs : RouterReturns(q))
       PROVE  Handing(d') /\ Starting'
  <2>1. UNCHANGED proc
    BY <1>11 DEF Hangup, Terminate, RouterFails, ServiceFails, ServicesStop, RouterReturns, vars
  <2> QED
    BY <1>1, <1>2, <1>11, <2>1, OutsideHanding
<1>12. ASSUME Flush \/ Tell \/ WaitRouter \/ ExportCleanup PROVE Handing(d') /\ Starting'
  <2>1. UNCHANGED proc /\ d.pc # "starting"
    BY <1>12 DEF Flush, Tell, WaitRouter, ExportCleanup, vars
  <2> QED
    BY <1>1, <1>2, <1>12, <2>1, CleanupHanding
<1>13. ASSUME \/ RecoveryInterfaces \/ Record \/ ServeHangup \/ ServeCommand \/ TaskEnded
              \/ Signalled
       PROVE  Handing(d') /\ Starting'
  <2>1. UNCHANGED proc /\ d.pc # "starting"
    BY <1>13 DEF RecoveryInterfaces, Record, ServeHangup, ServeCommand, TaskEnded, Signalled, vars,
       Looping, Reloading
  <2> QED
    BY <1>1, <1>2, <1>13, <2>1, LoopHanding
<1>14. ASSUME \/ SetShutdownTimeout \/ ReplaceOrigins \/ ReplaceRoutePolicy \/ UpdateExport \/ Commit
       PROVE  Handing(d') /\ Starting'
  <2>1. UNCHANGED proc /\ d.pc # "starting"
    BY <1>14 DEF SetShutdownTimeout, ReplaceOrigins, ReplaceRoutePolicy, UpdateExport, Commit,
       Command, vars
  <2> QED
    BY <1>1, <1>2, <1>14, <2>1, SetShutdownTimeoutHanding, ReplaceOriginsHanding,
       ReplaceRoutePolicyHanding, UpdateExportHanding, CommitHanding
<1>15. ASSUME \/ Edit \/ \E c \in Clients : Request(c) \/ Submit(c) \/ Respond(c) \/ Disconnect(c)
       PROVE  Handing(d') /\ Starting'
  <2>1. UNCHANGED <<proc, d>>
    BY <1>15 DEF Edit, Request, Submit, Respond, Disconnect, vars
  <2> QED
    BY <1>1, <1>2, <2>1
<1> QED
  BY Zenon, <1>5, <1>6, <1>7, <1>8, <1>9, <1>10, <1>11, <1>12, <1>13, <1>14, <1>15
     DEF DaemonNext, Cleanup, RouterPersists, RouterCheckpointed

\* The first state.
LEMMA HandingInit == ASSUME DaemonInit PROVE Handing(d) /\ Starting
<1>1. CASE Init /\ d = Down
  <2>1. \A q \in Procs : ~ Early(q)
    BY <1>1 DEF Init, Early, Off
  <2> QED
    BY <1>1, <2>1, LoadedHanding DEF Down, Starting
<1>2. CASE Begun(CHOOSE q \in Procs : TRUE, CHOOSE i \in Ids : TRUE, CHOOSE n \in Randoms : TRUE)
  <2>1. ASSUME NEW q, NEW i, NEW n, Begun(q, i, n) PROVE Handing(d) /\ \A r \in Procs : ~ Early(r)
    <3>1. d = [Loaded(file) EXCEPT !.pc = "waiting"]
      BY <2>1 DEF Begun
    <3>2. \A r \in Procs : ~ Early(r)
      BY <2>1 DEF Begun, Early, Off
    <3> QED
      BY <3>1, <3>2, LoadedHanding
  <2> QED
    BY <1>2, <2>1 DEF Starting
<1> QED
  BY <1>1, <1>2 DEF DaemonInit

\* Between two events every task that lives has what the active configuration
\* says, for any configurations, clients and edits of the file, and whatever was
\* rejected half-way or failed (reload).
THEOREM DaemonAppliesTogether == DaemonSpec => []AppliedTogether
<1> DEFINE I == Handing(d) /\ Starting
<1>1. DaemonInit => I
  BY HandingInit
<1>2. CheckpointInv /\ I /\ [DaemonNext]_all => I'
  BY HandingStep
<1>3. I => AppliedTogether
  <2> SUFFICES ASSUME Handing(d), d.pc = "waiting", d.router = "up", "interfaces" \in d.services
               PROVE  d.applied = Applied(d.active)
    BY DEF AppliedTogether
  <2>1. Handed(d) /\ IsApplied(d.applied)
    BY DEF Handing, Reached, Looping
  <2>2. /\ d.applied.timeout = d.active.timeout /\ d.applied.origins = d.active.origins
        /\ d.applied.rules = <<d.active.export, d.active.import, d.active.announce>>
        /\ d.applied.export = d.active.export /\ d.applied.interfaces = d.active.interfaces
    BY <2>1 DEF Handed, Applied
  <2> QED
    BY <2>1, <2>2 DEF IsApplied, AppliedFields, Applied
<1> HIDE DEF I
<1> QED
  BY <1>1, <1>2, <1>3, DaemonCheckpoint, PTL DEF DaemonSpec
-----------------------------------------------------------------------------
(* The clients *)

ClientFields == {"at", "kind", "answer", "digest", "seen"}

IsClient(k) == k = [f \in ClientFields |-> k[f]]

\* A client that waits has seen the file as it is; one that was told of a commit
\* has seen that.
Fresh(k, f) ==
    /\ IsClient(k)
    /\ k.at \in {"sending", "queued"} => f \in k.seen
    /\ k.answer = "committed" => k.digest \subseteq k.seen

Clientele ==
    /\ clients = [c \in Clients |-> clients[c]]
    /\ \A c \in Clients : Fresh(clients[c], file)

\* The channel holds every client that waits there once.
Queued ==
    /\ queue \in Seq(Clients)
    /\ \A i \in 1..Len(queue) : clients[queue[i]].at = "queued"
    /\ \A i, j \in 1..Len(queue) : queue[i] = queue[j] => i = j

\* The client of a reload waits, outside the channel, and has seen the candidate.
Asked ==
    d.pc \in Reloading /\ d.by \in Clients =>
        /\ clients[d.by].at = "queued" /\ d.candidate \in clients[d.by].seen
        /\ \A i \in 1..Len(queue) : queue[i] # d.by

Serving == Clientele /\ Queued /\ Asked

\* A reload that was under way before, for the same client and candidate.
Follows ==
    d'.pc \in Reloading => d.pc \in Reloading /\ d'.by = d.by /\ d'.candidate = d.candidate

\* A record of a client with one field replaced.
LEMMA ClientField ==
    ASSUME NEW k, IsClient(k), NEW f \in ClientFields, NEW x
    PROVE  /\ IsClient([k EXCEPT ![f] = x])
           /\ [k EXCEPT ![f] = x][f] = x
           /\ \A g \in ClientFields : g # f => [k EXCEPT ![f] = x][g] = k[g]
<1>1. DOMAIN k = ClientFields
  BY DEF IsClient
<1> QED
  BY <1>1 DEF IsClient

\* A connection that is closed, or waits for the next request.
LEMMA GoneFresh ==
    /\ \A f : Fresh(Gone, f) /\ Fresh([Gone EXCEPT !.at = "connected"], f)
    /\ Gone.at = "off" /\ [Gone EXCEPT !.at = "connected"].at = "connected"
<1>1. IsClient(Gone) /\ Gone.at = "off" /\ Gone.answer = None
  BY DEF Gone, IsClient, ClientFields
<1>2. /\ IsClient([Gone EXCEPT !.at = "connected"])
      /\ [Gone EXCEPT !.at = "connected"].at = "connected"
      /\ [Gone EXCEPT !.at = "connected"].answer = Gone.answer
  BY <1>1, ClientField DEF ClientFields
<1> QED
  BY <1>1, <1>2 DEF Fresh, None

\* Steps that leave the clients alone.
LEMMA QuietServing ==
    ASSUME Serving, UNCHANGED <<clients, queue, file>>, Follows PROVE Serving'
<1>1. Clientele'
  BY DEF Serving, Clientele, Fresh
<1>2. Queued'
  BY DEF Serving, Queued
<1>3. Asked'
  BY DEF Serving, Asked, Follows
<1> QED
  BY <1>1, <1>2, <1>3 DEF Serving

\* One client changes.
LEMMA OneClient ==
    ASSUME Clientele, NEW c \in Clients, NEW k, clients' = [clients EXCEPT ![c] = k], Fresh(k, file),
           UNCHANGED file
    PROVE  /\ Clientele' /\ clients'[c] = k
           /\ \A b \in Clients : b # c => clients'[b] = clients[b]
<1>1. DOMAIN clients = Clients
  BY DEF Clientele
<1>2. clients'[c] = k /\ \A b \in Clients : b # c => clients'[b] = clients[b]
  BY <1>1
<1>3. clients' = [b \in Clients |-> clients'[b]]
  BY <1>1
<1>4. \A b \in Clients : Fresh(clients'[b], file')
  BY <1>2 DEF Clientele
<1> QED
  BY <1>2, <1>3, <1>4 DEF Clientele

\* The answer to a client.
LEMMA AnsweredOne ==
    ASSUME Clientele, NEW by, NEW answer, NEW digest, clients' = Answered(by, answer, digest),
           UNCHANGED file, by \in Clients /\ answer = "committed" => digest \subseteq clients[by].seen
    PROVE  Clientele' /\ \A b \in Clients : b # by => clients'[b] = clients[b]
<1>1. CASE by \notin Clients
  BY <1>1 DEF Answered, Clientele, Fresh
<1>2. CASE by \in Clients
  <2> DEFINE k1 == [clients[by] EXCEPT !.at = "answered"]
             k2 == [k1 EXCEPT !.answer = answer]
             k3 == [k2 EXCEPT !.digest = digest]
  <2>1. IsClient(clients[by]) /\ DOMAIN clients = Clients
    BY <1>2 DEF Clientele, Fresh
  <2>2. clients' = [clients EXCEPT ![by] = k3]
    BY <1>2, <2>1 DEF Answered
  <2>3. IsClient(k1) /\ k1.at = "answered" /\ k1.seen = clients[by].seen
    BY <2>1, ClientField DEF ClientFields
  <2> HIDE DEF k1
  <2>4. IsClient(k2) /\ k2.at = k1.at /\ k2.seen = k1.seen /\ k2.answer = answer
    BY <2>3, ClientField DEF ClientFields
  <2> HIDE DEF k2
  <2>5. IsClient(k3) /\ k3.at = k2.at /\ k3.seen = k2.seen /\ k3.answer = k2.answer
        /\ k3.digest = digest
    BY <2>4, ClientField DEF ClientFields
  <2> HIDE DEF k3
  <2>6. Fresh(k3, file)
    BY <1>2, <2>3, <2>4, <2>5 DEF Fresh
  <2> QED
    BY <1>2, <2>2, <2>6, OneClient
<1> QED
  BY <1>1, <1>2

\* The end of a reload: its client, if it has one, is answered.
LEMMA AnsweredServing ==
    ASSUME Serving, Handing(d), d.pc \in Looping, NEW answer, NEW digest,
           clients' = Answered(d.by, answer, digest), UNCHANGED <<queue, file>>,
           answer = "committed" => d.pc = "record" /\ digest = {d.active}, d'.pc \notin Reloading
    PROVE  Serving'
<1>1. d.by \in Clients => d.pc \in Reloading
  BY DaemonAssumption DEF Handing, Looping
<1>2. d.by \in Clients /\ answer = "committed" => digest \subseteq clients[d.by].seen
  BY <1>1 DEF Serving, Asked, Handing
<1>3. Clientele' /\ \A b \in Clients : b # d.by => clients'[b] = clients[b]
  BY <1>2, AnsweredOne DEF Serving
<1>4. \A i \in 1..Len(queue) : queue[i] \in Clients /\ queue[i] # d.by
  BY <1>1 DEF Serving, Asked, Queued
<1>5. Queued'
  BY <1>3, <1>4 DEF Serving, Queued
<1> QED
  BY <1>3, <1>5 DEF Serving, Asked

\* SIGHUP: a reload for no client.
LEMMA ServeHangupServing ==
    ASSUME Serving, Handing(d), ServeHangup PROVE Serving'
<1> DEFINE t == [d EXCEPT !.hangup = FALSE]
<1>1. IsTask(t)
  BY TaskField DEF TaskFields, Handing
<1>2. Reload(t, None) /\ UNCHANGED <<file, queue>>
  BY DEF ServeHangup
<1> HIDE DEF t
<1>3. UNCHANGED clients
  BY <1>2, DaemonAssumption DEF Reload, Rejected, Answered
<1>4. d'.pc = "waiting" \/ d'.by = None
  <2>1. CASE d' = [t EXCEPT !.pc = "waiting", !.by = None]
    BY <1>1, <2>1, WaitsAgain
  <2>2. CASE d' = [t EXCEPT !.pc = "recover", !.candidate = file, !.by = None]
    <3> DEFINE t1 == [t EXCEPT !.pc = "recover"]
               t2 == [t1 EXCEPT !.candidate = file]
               t3 == [t2 EXCEPT !.by = None]
    <3>1. d' = t3
      BY <2>2
    <3>2. IsTask(t1)
      BY <1>1, TaskField DEF TaskFields
    <3> HIDE DEF t1
    <3>3. IsTask(t2)
      BY <3>2, TaskField DEF TaskFields
    <3> HIDE DEF t2
    <3>4. t3.by = None
      BY <3>3, TaskField DEF TaskFields
    <3> HIDE DEF t3
    <3> QED
      BY <3>1, <3>4
  <2> QED
    BY <1>2, <2>1, <2>2 DEF Reload, Rejected
<1>5. Clientele' /\ Queued'
  BY <1>2, <1>3 DEF Serving, Clientele, Fresh, Queued
<1>6. Asked'
  BY <1>4, DaemonAssumption DEF Asked, Reloading
<1> QED
  BY <1>5, <1>6 DEF Serving

\* A command of the channel: its client leaves it.
LEMMA ServeCommandServing ==
    ASSUME Serving, Handing(d), ServeCommand PROVE Serving'
<1> DEFINE c == Head(queue)
           q == Tail(queue)
<1>1. /\ queue \in Seq(Clients) /\ queue # << >> /\ queue' = q /\ UNCHANGED file
      /\ d.pc = "waiting"
  BY DEF ServeCommand, Serving, Queued
<1>2. /\ c \in Clients /\ c = queue[1] /\ 1 \in 1..Len(queue)
      /\ q \in Seq(Clients) /\ Len(q) = Len(queue) - 1 /\ Len(queue) \in Nat
      /\ \A i \in 1..Len(q) : i + 1 \in 1..Len(queue) /\ q[i] = queue[i + 1]
  BY <1>1
<1>3. /\ clients[c].at = "queued" /\ file \in clients[c].seen
      /\ \A i \in 1..Len(q) : q[i] \in Clients /\ q[i] # c /\ clients[q[i]].at = "queued"
      /\ \A i, j \in 1..Len(q) : q[i] = q[j] => i = j
  <2>1. clients[c].at = "queued"
    BY <1>2 DEF Serving, Queued
  <2>2. file \in clients[c].seen
    BY <1>2, <2>1 DEF Serving, Clientele, Fresh
  <2>3. ASSUME NEW i \in 1..Len(q) PROVE q[i] \in Clients /\ q[i] # c /\ clients[q[i]].at = "queued"
    <3>1. i + 1 \in 1..Len(queue) /\ q[i] = queue[i + 1] /\ i + 1 # 1
      BY <1>2
    <3> QED
      BY <1>1, <1>2, <3>1 DEF Serving, Queued
  <2>4. ASSUME NEW i \in 1..Len(q), NEW j \in 1..Len(q), q[i] = q[j] PROVE i = j
    <3>1. /\ i + 1 \in 1..Len(queue) /\ q[i] = queue[i + 1]
          /\ j + 1 \in 1..Len(queue) /\ q[j] = queue[j + 1]
      BY <1>2
    <3>2. i + 1 = j + 1
      BY <2>4, <3>1 DEF Serving, Queued
    <3> QED
      BY <3>2
  <2> QED
    BY <2>1, <2>2, <2>3, <2>4
<1> HIDE DEF c, q
<1>4. ASSUME NEW answer, answer # "committed", clients' = Answered(c, answer, {}), d'.pc \notin Reloading
      PROVE  Serving'
  <2>1. Clientele' /\ \A b \in Clients : b # c => clients'[b] = clients[b]
    BY <1>1, <1>4, AnsweredOne DEF Serving
  <2>2. Queued'
    BY <1>1, <1>2, <1>3, <2>1 DEF Queued
  <2> QED
    BY <1>4, <2>1, <2>2 DEF Serving, Asked
<1>5. CASE d' = [d EXCEPT !.pc = "waiting", !.by = None] /\ clients' = Answered(c, "rejected", {})
  BY <1>4, <1>5, WaitsAgain DEF Handing, Reloading
<1>6. CASE d' = Stopping(d, FALSE, c) /\ clients' = Answered(c, "accepted", {})
  BY <1>4, <1>6, StoppingTask DEF Handing, Reloading, Leaving
<1>7. CASE d' = [d EXCEPT !.pc = "recover", !.candidate = file, !.by = c] /\ UNCHANGED clients
  <2> DEFINE t1 == [d EXCEPT !.pc = "recover"]
             t2 == [t1 EXCEPT !.candidate = file]
             t3 == [t2 EXCEPT !.by = c]
  <2>1. d' = t3
    BY <1>7
  <2>2. IsTask(t1)
    BY TaskField DEF TaskFields, Handing
  <2> HIDE DEF t1
  <2>3. IsTask(t2) /\ t2.candidate = file
    BY <2>2, TaskField DEF TaskFields
  <2> HIDE DEF t2
  <2>4. t3.by = c /\ t3.candidate = t2.candidate
    BY <2>3, TaskField DEF TaskFields
  <2> HIDE DEF t3
  <2>5. Clientele'
    BY <1>1, <1>7 DEF Serving, Clientele, Fresh
  <2>6. Queued'
    BY <1>1, <1>2, <1>3, <1>7 DEF Queued
  <2>7. Asked'
    BY <1>1, <1>2, <1>3, <1>7, <2>1, <2>3, <2>4 DEF Asked
  <2> QED
    BY <2>5, <2>6, <2>7 DEF Serving
<1> QED
  BY <1>5, <1>6, <1>7 DEF ServeCommand, Reload, Rejected, c

\* The requests, answers and ends of the connections.
LEMMA ClientServing ==
    ASSUME Serving, NEW c \in Clients, Request(c) \/ Submit(c) \/ Respond(c) \/ Disconnect(c)
    PROVE  Serving'
<1>0. Clientele /\ Queued /\ Asked /\ UNCHANGED <<d, file>>
  BY DEF Serving, Request, Submit, Respond, Disconnect
<1>1. ASSUME NEW k, Fresh(k, file), clients' = [clients EXCEPT ![c] = k], UNCHANGED queue,
             clients[c].at # "queued"
      PROVE  Serving'
  <2>1. /\ Clientele' /\ clients'[c] = k
        /\ \A b \in Clients : b # c => clients'[b] = clients[b]
    BY <1>0, <1>1, OneClient
  <2>2. \A i \in 1..Len(queue) : queue[i] \in Clients /\ queue[i] # c
    BY <1>0, <1>1 DEF Queued
  <2>3. Queued'
    BY <1>0, <1>1, <2>1, <2>2 DEF Queued
  <2>4. Asked'
    BY <1>0, <1>1, <2>1 DEF Asked
  <2> QED
    BY <2>1, <2>3, <2>4 DEF Serving
<1>2. CASE Request(c)
  <2>1. PICK kind \in {"reload", "shutdown"} :
           clients' = [clients EXCEPT ![c] = [at |-> "sending", kind |-> kind, answer |-> None,
                                              digest |-> {}, seen |-> {file}]]
    BY <1>2 DEF Request
  <2> DEFINE k == [at |-> "sending", kind |-> kind, answer |-> None, digest |-> {}, seen |-> {file}]
  <2>2. Fresh(k, file)
    BY DEF Fresh, IsClient, ClientFields, None
  <2>3. clients[c].at # "queued" /\ UNCHANGED queue
    BY <1>2 DEF Request
  <2> HIDE DEF k
  <2>4. clients' = [clients EXCEPT ![c] = k]
    BY <2>1 DEF k
  <2> QED
    BY <1>1, <2>2, <2>3, <2>4
<1>3. CASE Respond(c)
  <2>1. clients' = [clients EXCEPT ![c] = Gone]
        \/ clients' = [clients EXCEPT ![c] = [Gone EXCEPT !.at = "connected"]]
    BY <1>3 DEF Respond
  <2>2. clients[c].at # "queued" /\ UNCHANGED queue
    BY <1>3 DEF Respond
  <2> QED
    BY <1>1, <2>1, <2>2, GoneFresh
<1>4. CASE Disconnect(c)
  BY <1>1, <1>4, GoneFresh DEF Disconnect
<1>5. CASE Submit(c)
  <2> DEFINE k == [clients[c] EXCEPT !.at = "queued"]
  <2>1. Fresh(clients[c], file) /\ clients[c].at = "sending"
    BY <1>0, <1>5 DEF Clientele, Submit
  <2>2. /\ IsClient(k) /\ k.at = "queued" /\ k.seen = clients[c].seen
        /\ k.answer = clients[c].answer /\ k.digest = clients[c].digest
    BY <2>1, ClientField DEF Fresh, ClientFields
  <2>3. clients' = [clients EXCEPT ![c] = k] /\ queue' = Append(queue, c)
    BY <1>5 DEF Submit
  <2> HIDE DEF k
  <2>4. Fresh(k, file)
    BY <2>1, <2>2 DEF Fresh
  <2>5. /\ Clientele' /\ clients'[c] = k
        /\ \A b \in Clients : b # c => clients'[b] = clients[b]
    BY <1>0, <2>3, <2>4, OneClient
  <2>6. queue \in Seq(Clients) /\ \A i \in 1..Len(queue) : queue[i] \in Clients /\ queue[i] # c
    BY <1>0, <2>1 DEF Queued
  <2>7. /\ queue' \in Seq(Clients) /\ Len(queue') = Len(queue) + 1 /\ Len(queue) \in Nat
        /\ queue'[Len(queue) + 1] = c /\ \A i \in 1..Len(queue) : queue'[i] = queue[i]
    BY <2>3, <2>6
  <2>8. \A i \in 1..Len(queue') : i \in 1..Len(queue) \/ i = Len(queue) + 1
    BY <2>7
  <2>9. Queued'
    <3>1. \A i \in 1..Len(queue') : clients'[queue'[i]].at = "queued"
      BY <1>0, <2>2, <2>5, <2>6, <2>7, <2>8 DEF Queued
    <3>2. \A i, j \in 1..Len(queue') : queue'[i] = queue'[j] => i = j
      BY <1>0, <2>6, <2>7, <2>8 DEF Queued
    <3> QED
      BY <2>7, <3>1, <3>2 DEF Queued
  <2>10. Asked'
    BY <1>0, <2>1, <2>5, <2>7, <2>8 DEF Asked
  <2> QED
    BY <2>5, <2>9, <2>10 DEF Serving
<1> QED
  BY <1>2, <1>3, <1>4, <1>5

\* A new content of the file: whoever waits has seen it.
LEMMA EditServing == ASSUME Serving, Edit PROVE Serving'
<1> DEFINE k(c) == [clients[c] EXCEPT !.seen = IF clients[c].seen = {} THEN {}
                                               ELSE clients[c].seen \cup {file'}]
<1>1. /\ clients' = [c \in Clients |-> clients'[c]] /\ UNCHANGED <<d, queue>>
      /\ \A c \in Clients : clients'[c] = k(c)
  BY DEF Edit
<1>2. ASSUME NEW c \in Clients
      PROVE  /\ IsClient(k(c)) /\ k(c).at = clients[c].at /\ k(c).answer = clients[c].answer
             /\ k(c).digest = clients[c].digest
             /\ k(c).seen = IF clients[c].seen = {} THEN {} ELSE clients[c].seen \cup {file'}
  <2>1. IsClient(clients[c]) /\ DOMAIN clients[c] = ClientFields
    BY DEF Serving, Clientele, Fresh, IsClient
  <2> QED
    BY <2>1 DEF IsClient, ClientFields
<1> HIDE DEF k
<1>3. ASSUME NEW c \in Clients
      PROVE  /\ Fresh(clients'[c], file') /\ clients'[c].at = clients[c].at
             /\ clients[c].seen \subseteq clients'[c].seen
  <2>1. clients'[c] = k(c) /\ Fresh(clients[c], file)
    BY <1>1 DEF Serving, Clientele
  <2> QED
    BY <1>2, <2>1 DEF Fresh
<1>4. Clientele'
  BY <1>1, <1>3 DEF Clientele
<1>5. Queued'
  <2>1. \A i \in 1..Len(queue) : queue[i] \in Clients
    BY DEF Serving, Queued
  <2> QED
    BY <1>1, <1>3, <2>1 DEF Serving, Queued
<1>6. Asked'
  BY <1>1, <1>3 DEF Serving, Asked
<1> QED
  BY <1>4, <1>5, <1>6 DEF Serving

\* No client, and no reload.
LEMMA NobodyServed ==
    /\ (clients = [c \in Clients |-> Gone] /\ queue = << >> /\ d.pc \notin Reloading => Serving)
    /\ (Vanish => Serving')
<1>1. ASSUME clients = [c \in Clients |-> Gone], queue = << >>, d.pc \notin Reloading PROVE Serving
  <2>1. Clientele
    BY <1>1, GoneFresh DEF Clientele
  <2>2. Queued
    BY <1>1 DEF Queued
  <2> QED
    BY <1>1, <2>1, <2>2 DEF Serving, Asked
<1>2. ASSUME Vanish PROVE Serving'
  <2>1. clients' = [c \in Clients |-> Gone] /\ queue' = << >> /\ d'.pc = "down"
    BY <1>2, VanishHanding DEF Vanish
  <2>2. Clientele'
    BY <2>1, GoneFresh DEF Clientele
  <2>3. Queued'
    BY <2>1 DEF Queued
  <2> QED
    BY <2>1, <2>2, <2>3 DEF Serving, Asked, Reloading
<1> QED
  BY <1>1, <1>2

\* A step of reload goes on for the same client, or ends with its answer.
LEMMA ReloadStepServing ==
    ASSUME Serving, Handing(d),
           \/ RecoveryInterfaces \/ SetShutdownTimeout \/ ReplaceOrigins \/ ReplaceRoutePolicy
           \/ UpdateExport \/ Commit \/ Record \/ Signalled
    PROVE  Serving'
<1>0. /\ IsTask(d) /\ d.pc \in Looping
      /\ UNCHANGED <<queue, file>>
  BY DEF Handing, RecoveryInterfaces, SetShutdownTimeout, ReplaceOrigins, ReplaceRoutePolicy,
     UpdateExport, Commit, Record, Signalled, Command, Looping, Reloading
<1>1. CASE Rejected(d, d.by)
  <2>1. clients' = Answered(d.by, "rejected", {}) /\ d'.pc = "waiting"
    BY <1>0, <1>1, WaitsAgain DEF Rejected
  <2> QED
    BY <1>0, <2>1, AnsweredServing DEF Reloading
<1>2. CASE Record
  <2>1. clients' = Answered(d.by, "committed", {d.active}) /\ d'.pc = "waiting" /\ d.pc = "record"
    BY <1>0, <1>2, WaitsAgain DEF Record
  <2> QED
    BY <1>0, <2>1, AnsweredServing DEF Reloading
<1>3. CASE Signalled
  <2>1. clients' = Answered(d.by, "daemon_stopping", {}) /\ d'.pc \in Leaving
    BY <1>0, <1>3, StoppingTask DEF Signalled
  <2> QED
    BY <1>0, <2>1, AnsweredServing DEF Reloading, Leaving
<1>4. CASE UNCHANGED clients /\ d.pc \in Reloading /\ d'.by = d.by /\ d'.candidate = d.candidate
  BY <1>0, <1>4, QuietServing DEF Follows
<1>5. ASSUME NEW f \in AppliedFields, NEW x, NEW pc, Gave(d', d, f, x, pc), d.pc \in Reloading,
             UNCHANGED clients
      PROVE  Serving'
  BY <1>4, <1>5 DEF Gave
<1>6. ASSUME NEW pc, d' = [d EXCEPT !.pc = pc], d.pc \in Reloading, UNCHANGED clients PROVE Serving'
  <2>1. [d EXCEPT !.pc = pc].by = d.by /\ [d EXCEPT !.pc = pc].candidate = d.candidate
    BY <1>0, TaskField DEF TaskFields
  <2> QED
    BY <1>4, <1>6, <2>1
<1>7. CASE RecoveryInterfaces
  BY <1>1, <1>6, <1>7 DEF RecoveryInterfaces, Reloading
<1>8. ASSUME NEW f \in AppliedFields, NEW x, NEW pc, d.pc \in Reloading, UNCHANGED clients,
             d' = [[d EXCEPT !.pc = pc] EXCEPT !.applied = [d.applied EXCEPT ![f] = x]]
      PROVE  Serving'
  BY <1>5, <1>8, GivesOne
<1>9. CASE SetShutdownTimeout
  <2>1. CASE d.router = "up"
    <3>1. /\ d.pc \in Reloading /\ UNCHANGED clients
          /\ d' = [[d EXCEPT !.pc = "origins"] EXCEPT
                      !.applied = [d.applied EXCEPT !["timeout"] = d.candidate.timeout]]
      BY <1>9, <2>1, PcApplied DEF SetShutdownTimeout, Command, Reloading
    <3> QED
      BY <1>8, <3>1 DEF AppliedFields
  <2> QED
    BY <1>1, <1>9, <2>1 DEF SetShutdownTimeout, Command
<1>10. CASE ReplaceOrigins
  <2>1. CASE d.router = "up"
    <3>1. /\ d.pc \in Reloading /\ UNCHANGED clients
          /\ d' = [[d EXCEPT !.pc = "rules"] EXCEPT
                      !.applied = [d.applied EXCEPT !["origins"] = d.candidate.origins]]
      BY <1>10, <2>1, PcApplied DEF ReplaceOrigins, Command, Reloading
    <3> QED
      BY <1>8, <3>1 DEF AppliedFields
  <2> QED
    BY <1>1, <1>10, <2>1 DEF ReplaceOrigins, Command
<1>11. CASE ReplaceRoutePolicy
  <2>1. CASE RulesChanged /\ d.router = "up"
    <3>1. /\ d.pc \in Reloading /\ UNCHANGED clients
          /\ d' = [[d EXCEPT !.pc = "export"] EXCEPT
                      !.applied = [d.applied EXCEPT !["rules"] = Applied(d.candidate).rules]]
      BY <1>11, <2>1, PcApplied DEF ReplaceRoutePolicy, Command, Reloading
    <3> QED
      BY <1>8, <3>1 DEF AppliedFields
  <2>2. CASE ~ RulesChanged
    BY <1>6, <1>11, <2>2 DEF ReplaceRoutePolicy, Reloading
  <2> QED
    BY <1>1, <1>11, <2>1, <2>2 DEF ReplaceRoutePolicy, Command
<1>12. CASE UpdateExport
  <2> DEFINE x == IF d.active.export # d.candidate.export \/ d.active.import # d.candidate.import
                  THEN d.candidate.export ELSE d.applied.export
  <2>1. d' = [[d EXCEPT !.pc = "commit"] EXCEPT !.applied = [d.applied EXCEPT !["export"] = x]]
    BY <1>12, PcApplied DEF UpdateExport
  <2>2. d.pc \in Reloading /\ UNCHANGED clients
    BY <1>12 DEF UpdateExport, Reloading
  <2> HIDE DEF x
  <2> QED
    BY <1>8, <2>1, <2>2 DEF AppliedFields
<1>13. CASE Commit
  <2>1. CASE "interfaces" \notin d.services
    BY <1>1, <1>13, <2>1 DEF Commit
  <2>2. CASE "interfaces" \in d.services
    <3> DEFINE t1 == [d EXCEPT !.pc = "record"]
               t2 == [t1 EXCEPT !.active = d.candidate]
    <3>1. IsTask(t1) /\ t1.by = d.by /\ t1.candidate = d.candidate
      BY <1>0, TaskField DEF TaskFields
    <3>2. PICK a : d' = [t2 EXCEPT !.applied = a]
      BY <1>13, <2>2 DEF Commit
    <3> HIDE DEF t1
    <3>3. IsTask(t2) /\ t2.by = t1.by /\ t2.candidate = t1.candidate
      BY <3>1, TaskField DEF TaskFields
    <3> HIDE DEF t2
    <3>4. [t2 EXCEPT !.applied = a].by = t2.by /\ [t2 EXCEPT !.applied = a].candidate = t2.candidate
      BY <3>3, TaskField DEF TaskFields
    <3>5. d.pc \in Reloading /\ UNCHANGED clients
      BY <1>13, <2>2 DEF Commit, Reloading
    <3> QED
      BY <1>4, <3>1, <3>2, <3>3, <3>4, <3>5
  <2> QED
    BY <2>1, <2>2
<1> QED
  BY <1>2, <1>3, <1>7, <1>9, <1>10, <1>11, <1>12, <1>13

\* Every step keeps what the clients have.
LEMMA ServingStep ==
    ASSUME Serving, Handing(d), Handing(d)', [DaemonNext]_all PROVE Serving'
<1>1. CASE UNCHANGED all
  BY <1>1, QuietServing DEF all, Follows
<1>2. ASSUME NEW q \in Procs, StartProcess(q) \/ StartLoop(q) PROVE Serving'
  <2>1. UNCHANGED <<clients, queue, file>>
    BY <1>2 DEF StartProcess, StartLoop
  <2>2. d'.pc \in {"starting", "waiting"}
    <3>1. Loaded(file).pc = "starting"
      BY DEF Loaded
    <3>2. [d EXCEPT !.pc = "waiting"].pc = "waiting"
      BY TaskField DEF TaskFields, Handing
    <3> QED
      BY <1>2, <3>1, <3>2 DEF StartProcess, StartLoop
  <2> QED
    BY <2>1, <2>2, QuietServing DEF Follows, Reloading
<1>3. ASSUME NEW q \in Procs, EndProcess(q) \/ Finish(q) \/ DeadlinePasses(q) PROVE Serving'
  <2>1. Vanish \/ UNCHANGED <<d, clients, queue, file>>
    BY <1>3 DEF EndProcess, Finish, DeadlinePasses
  <2> QED
    BY <2>1, NobodyServed, QuietServing DEF Follows
<1>4. ASSUME UNCHANGED daemonVars PROVE Serving'
  BY <1>4, QuietServing DEF daemonVars, Follows
<1>5. ASSUME \/ Hangup \/ Terminate \/ RouterFails \/ (\E s \in Services : ServiceFails(s))
             \/ ServicesStop \/ (\E q \in Procs : RouterReturns(q))
      PROVE  Serving'
  <2>1. UNCHANGED <<clients, queue, file>>
    BY <1>5 DEF Hangup, Terminate, RouterFails, ServiceFails, ServicesStop, RouterReturns
  <2> QED
    BY <1>5, <2>1, OutsideHanding, QuietServing DEF Follows
<1>6. ASSUME Flush \/ Tell \/ WaitRouter \/ ExportCleanup PROVE Serving'
  <2>1. UNCHANGED <<clients, queue, file>>
    BY <1>6 DEF Flush, Tell, WaitRouter, ExportCleanup
  <2>2. d'.pc \in Leaving
    BY <1>6, CleanupLeaves
  <2> QED
    BY <2>1, <2>2, QuietServing DEF Follows, Leaving, Reloading
<1>7. ASSUME TaskEnded PROVE Serving'
  <2>1. UNCHANGED <<clients, queue, file>>
    BY <1>7 DEF TaskEnded
  <2>2. d'.pc \in Leaving
    <3> DEFINE u == [d EXCEPT !.finished = TRUE]
    <3>1. IsTask(u) /\ IsTask(d)
      BY TaskField DEF TaskFields, Handing
    <3>2. d' = Stopping(u, TRUE, None) \/ d' = Stopping(d, TRUE, None)
      BY <1>7 DEF TaskEnded
    <3> HIDE DEF u
    <3> QED
      BY <3>1, <3>2, StoppingTask
  <2> QED
    BY <2>1, <2>2, QuietServing DEF Follows, Leaving, Reloading
<1> QED
  BY Zenon, <1>1, <1>2, <1>3, <1>4, <1>5, <1>6, <1>7, EditServing, ClientServing, ReloadStepServing,
     ServeHangupServing, ServeCommandServing
     DEF DaemonNext, Cleanup, RouterPersists, RouterCheckpointed

\* A client that is told of a committed reload is told of a configuration the file
\* has held since it asked, for any number of clients, whatever the order in
\* which their requests, edits of the file and signals arrive (handle_client,
\* reload_and_record).
THEOREM DaemonReloadsFresh == DaemonSpec => []ReloadFresh
<1> DEFINE I == Handing(d) /\ Starting
           J == I /\ Serving
<1>1. DaemonInit => J
  <2> SUFFICES ASSUME DaemonInit PROVE J
    OBVIOUS
  <2>1. d.pc \in {"down", "waiting"}
    <3>1. ASSUME NEW c, NEW x PROVE [Loaded(c) EXCEPT !.pc = x].pc = x
      <4>1. IsTask(Loaded(c))
        BY LoadedHanding DEF Handing
      <4> QED
        BY <4>1, TaskField DEF TaskFields
    <3> QED
      <4>1. \/ d = [Loaded(CHOOSE c \in Configs : c.valid) EXCEPT !.pc = "down"]
            \/ d = [Loaded(file) EXCEPT !.pc = "waiting"]
        BY Zenon DEF DaemonInit, Begun, Down
      <4> QED
        BY <3>1, <4>1
  <2>2. clients = [c \in Clients |-> Gone] /\ queue = << >>
    BY DEF DaemonInit
  <2> QED
    BY <2>1, <2>2, HandingInit, NobodyServed DEF Reloading
<1>2. CheckpointInv /\ J /\ [DaemonNext]_all => J'
  BY HandingStep, ServingStep
<1>3. J => ReloadFresh
  BY DEF Serving, Clientele, Fresh, ReloadFresh
<1> HIDE DEF J
<1> QED
  BY <1>1, <1>2, <1>3, DaemonCheckpoint, PTL DEF DaemonSpec
=============================================================================
