---------------------------- MODULE DaemonProofs ----------------------------
(***************************************************************************)
(* Proofs about Daemon and the Checkpoint inside it.                       *)
(***************************************************************************)
EXTENDS Daemon, DistanceProofs, TLAPS

Phases == {"off", "owned", "loaded", "ready", "running", "waiting", "cleanup", "returned"}

Threads == {"none", "writing", "renamed", "ok", "failed"}

Process ==
    [phase : Phases, id : Ids \cup {None}, seqno : Seqnos, resumed : BOOLEAN, bumps : Nat,
     thread : Threads, stored : BOOLEAN]

Numbers == Seqnos \cup {NoSeqno}

CheckpointTyped ==
    /\ proc \in [Procs -> Process]
    /\ disk \in [id : Ids \cup {None}, seqno : Numbers]
    /\ last \in [Ids -> Numbers]
    /\ saved \in Ids \cup {None}
    /\ holders \subseteq Procs \X {"main", "thread"}

\* The parts of a process that may touch the state file.
Working(q) == proc[q].phase \notin {"off", "returned"}

Writing(q) == proc[q].thread \in {"writing", "renamed"}

\* They hold the lock, and only one process does.
Locked ==
    /\ \A q \in Procs : Working(q) => <<q, "main">> \in holders
    /\ \A q \in Procs : Writing(q) => <<q, "thread">> \in holders
    /\ \A h, k \in holders : h[1] = k[1]

\* A number on disk is the last that its router id has advertised.
DiskTrue == disk.seqno # NoSeqno => disk.id \in Ids /\ last[disk.id] = disk.seqno

\* What the stage a process has reached says of the disk and of the history.
Stage(q) ==
    /\ proc[q].stored => proc[q].thread = "ok"
    /\ proc[q].phase \in {"off", "owned", "loaded", "ready", "running"} => proc[q].thread = "none"
    /\ proc[q].phase \in {"loaded", "ready"} =>
          /\ proc[q].id \in Ids
          /\ proc[q].resumed =>
                last[proc[q].id] \in Seqnos /\ proc[q].seqno = SeqnoNext(last[proc[q].id])
    /\ proc[q].phase \in {"running", "waiting", "cleanup"} \/ Writing(q) =>
          proc[q].id \in Ids /\ last[proc[q].id] = proc[q].seqno
    /\ proc[q].phase \in {"ready", "running"} \/ proc[q].thread = "writing" =>
          disk = [id |-> proc[q].id, seqno |-> NoSeqno]
    /\ proc[q].thread = "renamed" => disk = [id |-> proc[q].id, seqno |-> proc[q].seqno]
    /\ proc[q].phase \in {"waiting", "cleanup"} /\ proc[q].thread = "ok" =>
          disk = [id |-> proc[q].id, seqno |-> proc[q].seqno]
    /\ proc[q].phase \in {"ready", "running", "waiting", "cleanup"} \/ Writing(q) => saved = None

CheckpointInv ==
    /\ CheckpointTyped
    /\ Locked
    /\ DiskTrue
    /\ CheckpointKept
    /\ \A q \in Procs : Stage(q)

-----------------------------------------------------------------------------
(* The checkpoint *)

\* Two processes are not at work together.
LEMMA OneOwner ==
    ASSUME CheckpointInv, NEW q \in Procs, NEW r \in Procs, r # q, Working(q) \/ Writing(q)
    PROVE  ~ Working(r) /\ ~ Writing(r)
  BY DEF CheckpointInv, Locked

\* So the others do not notice what the owner does.
LEMMA OthersKeep ==
    ASSUME CheckpointInv, NEW q \in Procs, Working(q) \/ Writing(q), NEW r \in Procs, r # q,
           proc'[r] = proc[r]
    PROVE  Stage(r)'
<1>1. ~ Working(r) /\ ~ Writing(r)
  BY OneOwner
<1>2. /\ proc[r].phase \in {"off", "returned"} /\ proc[r].thread \notin {"writing", "renamed"}
      /\ proc[r].stored => proc[r].thread = "ok"
      /\ proc[r].phase = "off" => proc[r].thread = "none"
  BY <1>1 DEF CheckpointInv, Stage, Working, Writing
<1> QED
  BY <1>2 DEF Stage, Writing

\* Nor what a process does that leaves disk and history alone.
LEMMA QuietKeep ==
    ASSUME CheckpointInv, UNCHANGED <<disk, last, saved>>, NEW r \in Procs, proc'[r] = proc[r]
    PROVE  Stage(r)'
  BY DEF CheckpointInv, Stage, Writing

\* What is left to show of a step of q that gives it the state p.
LEMMA StepInv ==
    ASSUME CheckpointInv, NEW q \in Procs, NEW p \in Process, proc' = [proc EXCEPT ![q] = p],
           Working(q) \/ Writing(q) \/ UNCHANGED <<disk, last, saved>>,
           disk' \in [id : Ids \cup {None}, seqno : Numbers], last' \in [Ids -> Numbers],
           saved' \in Ids \cup {None}, holders' \subseteq Procs \X {"main", "thread"},
           Locked', DiskTrue', CheckpointKept', Stage(q)'
    PROVE  CheckpointInv'
<1>1. proc \in [Procs -> Process]
  BY DEF CheckpointInv, CheckpointTyped
<1>2. CheckpointTyped'
  BY <1>1 DEF CheckpointTyped
<1>3. \A r \in Procs : Stage(r)'
  <2> TAKE r \in Procs
  <2>1. CASE r # q
    <3>1. proc'[r] = proc[r]
      BY <1>1, <2>1
    <3> QED
      BY <2>1, <3>1, OthersKeep, QuietKeep
  <2> QED
    BY <2>1
<1> QED
  BY Zenon, <1>2, <1>3 DEF CheckpointInv

\* Taking the lock.
LEMMA AcquireInv == ASSUME CheckpointInv, NEW q \in Procs, Acquire(q) PROVE CheckpointInv'
<1>0. /\ proc \in [Procs -> Process] /\ disk \in [id : Ids \cup {None}, seqno : Numbers]
      /\ last \in [Ids -> Numbers] /\ saved \in Ids \cup {None}
      /\ holders \subseteq Procs \X {"main", "thread"}
  BY DEF CheckpointInv, CheckpointTyped
<1>s. Stage(q)
  BY DEF CheckpointInv
<1> DEFINE p == [proc[q] EXCEPT !.phase = "owned"]
<1>1. /\ proc[q].phase = "off" /\ proc[q].thread = "none" /\ ~ proc[q].stored
      /\ \A r \in Procs : ~ Working(r) /\ ~ Writing(r)
  BY <1>0, <1>s DEF CheckpointInv, Acquire, Stage, Locked, Process
<1>2. /\ proc' = [proc EXCEPT ![q] = p] /\ holders' = {<<q, "main">>}
      /\ UNCHANGED <<disk, last, saved>>
  BY <1>0, <1>1 DEF Acquire
<1>3. /\ p \in Process
      /\ p.phase = "owned" /\ p.thread = "none" /\ ~ p.stored
  BY <1>0, <1>1 DEF Process, Phases, Threads
<1> HIDE DEF p
<1>4. \A r \in Procs : proc'[r] = IF r = q THEN p ELSE proc[r]
  BY <1>0, <1>2
<1>5. Locked' /\ holders' \subseteq Procs \X {"main", "thread"}
  BY <1>1, <1>2, <1>3, <1>4 DEF Locked, Working, Writing
<1>6. /\ DiskTrue' /\ CheckpointKept'
      /\ disk' \in [id : Ids \cup {None}, seqno : Numbers] /\ last' \in [Ids -> Numbers]
      /\ saved' \in Ids \cup {None}
  BY <1>0, <1>2 DEF CheckpointInv, DiskTrue, CheckpointKept
<1>7. Stage(q)'
  BY <1>3, <1>4 DEF Stage, Writing
<1>8. Working(q) \/ Writing(q) \/ UNCHANGED <<disk, last, saved>>
  BY <1>1, <1>2 DEF Working, Writing
<1> QED
  BY <1>2, <1>3, <1>5, <1>6, <1>7, <1>8, StepInv

\* Consuming the number on disk.
LEMMA ConsumeInv == ASSUME CheckpointInv, NEW q \in Procs, Consume(q) PROVE CheckpointInv'
<1>0. /\ proc \in [Procs -> Process] /\ disk \in [id : Ids \cup {None}, seqno : Numbers]
      /\ last \in [Ids -> Numbers] /\ saved \in Ids \cup {None}
      /\ holders \subseteq Procs \X {"main", "thread"}
  BY DEF CheckpointInv, CheckpointTyped
<1>s. Stage(q)
  BY DEF CheckpointInv
<1> DEFINE p == [proc[q] EXCEPT !.phase = "ready"]
<1>1. /\ proc[q].phase = "loaded" /\ proc[q].thread = "none" /\ ~ proc[q].stored /\ proc[q].id \in Ids
      /\ proc[q].resumed =>
            last[proc[q].id] \in Seqnos /\ proc[q].seqno = SeqnoNext(last[proc[q].id])
  BY <1>0, <1>s DEF Consume, Stage, Process
<1>2. /\ proc' = [proc EXCEPT ![q] = p] /\ disk' = [id |-> proc[q].id, seqno |-> NoSeqno]
      /\ saved' = None /\ UNCHANGED <<holders, last>>
  BY <1>0, <1>1 DEF Consume, Consumed
<1>3. /\ p \in Process
      /\ p.phase = "ready" /\ p.thread = "none" /\ ~ p.stored
      /\ p.id = proc[q].id /\ p.seqno = proc[q].seqno /\ p.resumed = proc[q].resumed
  BY <1>0, <1>1 DEF Process, Phases, Threads
<1> HIDE DEF p
<1>4. \A r \in Procs : proc'[r] = IF r = q THEN p ELSE proc[r]
  BY <1>0, <1>2
<1>5. Locked' /\ holders' \subseteq Procs \X {"main", "thread"}
  BY <1>0, <1>1, <1>2, <1>3, <1>4 DEF CheckpointInv, Locked, Working, Writing
<1>6. /\ DiskTrue' /\ CheckpointKept'
      /\ disk' \in [id : Ids \cup {None}, seqno : Numbers] /\ last' \in [Ids -> Numbers]
      /\ saved' \in Ids \cup {None}
  BY <1>0, <1>1, <1>2 DEF DiskTrue, CheckpointKept, Numbers
<1>7. Stage(q)'
  BY <1>1, <1>2, <1>3, <1>4 DEF Stage, Writing
<1>8. Working(q) \/ Writing(q) \/ UNCHANGED <<disk, last, saved>>
  BY <1>1, <1>2 DEF Working, Writing
<1> QED
  BY <1>2, <1>3, <1>5, <1>6, <1>7, <1>8, StepInv

\* The first advertisement.
LEMMA RunInv == ASSUME CheckpointInv, NEW q \in Procs, Run(q) PROVE CheckpointInv'
<1>0. /\ proc \in [Procs -> Process] /\ disk \in [id : Ids \cup {None}, seqno : Numbers]
      /\ last \in [Ids -> Numbers] /\ saved \in Ids \cup {None}
      /\ holders \subseteq Procs \X {"main", "thread"}
  BY DEF CheckpointInv, CheckpointTyped
<1>s. Stage(q)
  BY DEF CheckpointInv
<1> DEFINE p == [proc[q] EXCEPT !.phase = "running"]
<1>1. /\ proc[q].phase = "ready" /\ proc[q].thread = "none" /\ ~ proc[q].stored /\ proc[q].id \in Ids
      /\ disk = [id |-> proc[q].id, seqno |-> NoSeqno] /\ saved = None /\ proc[q].seqno \in Seqnos
  BY <1>0, <1>s DEF Run, Stage, Process
<1>2. /\ proc' = [proc EXCEPT ![q] = p] /\ last' = [last EXCEPT ![proc[q].id] = proc[q].seqno]
      /\ UNCHANGED <<disk, holders, saved>>
  BY <1>0, <1>1 DEF Run
<1>3. /\ p \in Process
      /\ p.phase = "running" /\ p.thread = "none" /\ ~ p.stored
      /\ p.id = proc[q].id /\ p.seqno = proc[q].seqno
  BY <1>0, <1>1 DEF Process, Phases, Threads
<1> HIDE DEF p
<1>4. \A r \in Procs : proc'[r] = IF r = q THEN p ELSE proc[r]
  BY <1>0, <1>2
<1>5. Locked' /\ holders' \subseteq Procs \X {"main", "thread"}
  BY <1>0, <1>1, <1>2, <1>3, <1>4 DEF CheckpointInv, Locked, Working, Writing
<1>6. /\ DiskTrue' /\ CheckpointKept'
      /\ disk' \in [id : Ids \cup {None}, seqno : Numbers] /\ last' \in [Ids -> Numbers]
      /\ saved' \in Ids \cup {None}
  BY <1>0, <1>1, <1>2 DEF DiskTrue, CheckpointKept, Numbers
<1>7. Stage(q)'
  BY <1>0, <1>1, <1>2, <1>3, <1>4 DEF Stage, Writing
<1>8. Working(q) \/ Writing(q) \/ UNCHANGED <<disk, last, saved>>
  BY <1>1, <1>2 DEF Working, Writing
<1> QED
  BY <1>2, <1>3, <1>5, <1>6, <1>7, <1>8, StepInv

\* The start of the thread.
LEMMA PersistInv == ASSUME CheckpointInv, NEW q \in Procs, Persist(q) PROVE CheckpointInv'
<1>0. /\ proc \in [Procs -> Process] /\ disk \in [id : Ids \cup {None}, seqno : Numbers]
      /\ last \in [Ids -> Numbers] /\ saved \in Ids \cup {None}
      /\ holders \subseteq Procs \X {"main", "thread"}
  BY DEF CheckpointInv, CheckpointTyped
<1>s. Stage(q)
  BY DEF CheckpointInv
<1> DEFINE p == [[proc[q] EXCEPT !.phase = "waiting"] EXCEPT !.thread = "writing"]
<1>1. /\ proc[q].phase = "running" /\ proc[q].thread = "none" /\ ~ proc[q].stored /\ proc[q].id \in Ids
      /\ disk = [id |-> proc[q].id, seqno |-> NoSeqno] /\ saved = None
      /\ last[proc[q].id] = proc[q].seqno /\ <<q, "main">> \in holders
  BY <1>0, <1>s DEF CheckpointInv, Persist, Stage, Process, Locked, Working
<1>2. /\ proc' = [proc EXCEPT ![q] = p] /\ holders' = holders \cup {<<q, "thread">>}
      /\ UNCHANGED <<disk, last, saved>>
  BY <1>0, <1>1 DEF Persist, PersistHolders
<1>3. /\ p \in Process
      /\ p.phase = "waiting" /\ p.thread = "writing" /\ ~ p.stored
      /\ p.id = proc[q].id /\ p.seqno = proc[q].seqno
  BY <1>0, <1>1 DEF Process, Phases, Threads
<1> HIDE DEF p
<1>4. \A r \in Procs : proc'[r] = IF r = q THEN p ELSE proc[r]
  BY <1>0, <1>2
<1>5. Locked' /\ holders' \subseteq Procs \X {"main", "thread"}
  BY <1>0, <1>1, <1>2, <1>3, <1>4 DEF CheckpointInv, Locked, Working, Writing
<1>6. /\ DiskTrue' /\ CheckpointKept'
      /\ disk' \in [id : Ids \cup {None}, seqno : Numbers] /\ last' \in [Ids -> Numbers]
      /\ saved' \in Ids \cup {None}
  BY <1>0, <1>2 DEF CheckpointInv, DiskTrue, CheckpointKept
<1>7. Stage(q)'
  BY <1>0, <1>1, <1>2, <1>3, <1>4 DEF Stage, Writing
<1>8. Working(q) \/ Writing(q) \/ UNCHANGED <<disk, last, saved>>
  BY <1>1, <1>2 DEF Working, Writing
<1> QED
  BY <1>2, <1>3, <1>5, <1>6, <1>7, <1>8, StepInv

\* The number is on disk.
LEMMA ThreadRenameInv == ASSUME CheckpointInv, NEW q \in Procs, ThreadRename(q) PROVE CheckpointInv'
<1>0. /\ proc \in [Procs -> Process] /\ disk \in [id : Ids \cup {None}, seqno : Numbers]
      /\ last \in [Ids -> Numbers] /\ saved \in Ids \cup {None}
      /\ holders \subseteq Procs \X {"main", "thread"}
  BY DEF CheckpointInv, CheckpointTyped
<1>s. Stage(q)
  BY DEF CheckpointInv
<1> DEFINE p == [proc[q] EXCEPT !.thread = "renamed"]
<1>1. /\ proc[q].thread = "writing" /\ ~ proc[q].stored /\ proc[q].id \in Ids
      /\ proc[q].phase \in {"waiting", "cleanup", "returned"}
      /\ saved = None /\ last[proc[q].id] = proc[q].seqno /\ <<q, "thread">> \in holders
      /\ proc[q].seqno \in Seqnos
  BY <1>0, <1>s DEF CheckpointInv, ThreadRename, Stage, Process, Phases, Locked, Writing
<1>2. /\ proc' = [proc EXCEPT ![q] = p] /\ disk' = [id |-> proc[q].id, seqno |-> proc[q].seqno]
      /\ UNCHANGED <<holders, last, saved>>
  BY <1>0, <1>1 DEF ThreadRename
<1>3. /\ p \in Process
      /\ p.phase = proc[q].phase /\ p.thread = "renamed" /\ ~ p.stored
      /\ p.id = proc[q].id /\ p.seqno = proc[q].seqno
  BY <1>0, <1>1 DEF Process, Phases, Threads
<1> HIDE DEF p
<1>4. \A r \in Procs : proc'[r] = IF r = q THEN p ELSE proc[r]
  BY <1>0, <1>2
<1>5. Locked' /\ holders' \subseteq Procs \X {"main", "thread"}
  BY <1>0, <1>1, <1>2, <1>3, <1>4 DEF CheckpointInv, Locked, Working, Writing
<1>6. /\ DiskTrue' /\ CheckpointKept'
      /\ disk' \in [id : Ids \cup {None}, seqno : Numbers] /\ last' \in [Ids -> Numbers]
      /\ saved' \in Ids \cup {None}
  BY <1>0, <1>1, <1>2 DEF DiskTrue, CheckpointKept, Numbers
<1>7. Stage(q)'
  BY <1>0, <1>1, <1>2, <1>3, <1>4 DEF Stage, Writing
<1>8. Working(q) \/ Writing(q) \/ UNCHANGED <<disk, last, saved>>
  BY <1>1, <1>2 DEF Working, Writing
<1> QED
  BY <1>2, <1>3, <1>5, <1>6, <1>7, <1>8, StepInv

\* A new number.
LEMMA BumpInv == ASSUME CheckpointInv, NEW q \in Procs, Bump(q) PROVE CheckpointInv'
<1>0. /\ proc \in [Procs -> Process] /\ disk \in [id : Ids \cup {None}, seqno : Numbers]
      /\ last \in [Ids -> Numbers] /\ saved \in Ids \cup {None}
      /\ holders \subseteq Procs \X {"main", "thread"}
  BY DEF CheckpointInv, CheckpointTyped
<1>s. Stage(q)
  BY DEF CheckpointInv
<1> DEFINE n == SeqnoNext(proc[q].seqno)
<1> DEFINE k == proc[q].bumps + 1
<1>a. n \in Seqnos /\ k \in Nat
  BY <1>0, NextIsNewer DEF Process
<1>b. proc' = [proc EXCEPT ![q] = [[proc[q] EXCEPT !.seqno = n] EXCEPT !.bumps = k]]
  BY <1>0 DEF Bump
<1>c. last' = [last EXCEPT ![proc[q].id] = n]
  BY DEF Bump
<1> HIDE DEF n, k
<1> DEFINE p == [[proc[q] EXCEPT !.seqno = n] EXCEPT !.bumps = k]
<1>1. /\ proc[q].phase = "running" /\ proc[q].thread = "none" /\ ~ proc[q].stored /\ proc[q].id \in Ids
      /\ disk = [id |-> proc[q].id, seqno |-> NoSeqno] /\ saved = None
  BY <1>0, <1>s DEF Bump, Stage, Process
<1>2. /\ proc' = [proc EXCEPT ![q] = p] /\ last' = [last EXCEPT ![proc[q].id] = n]
      /\ UNCHANGED <<disk, holders, saved>>
  BY <1>0, <1>1, <1>b, <1>c DEF Bump
<1>3. /\ p \in Process
      /\ p.phase = "running" /\ p.thread = "none" /\ ~ p.stored
      /\ p.id = proc[q].id /\ p.seqno = n
  BY <1>a, <1>0, <1>1 DEF Process, Phases, Threads
<1> HIDE DEF p
<1>4. \A r \in Procs : proc'[r] = IF r = q THEN p ELSE proc[r]
  BY <1>0, <1>2
<1>5. Locked' /\ holders' \subseteq Procs \X {"main", "thread"}
  BY <1>0, <1>1, <1>2, <1>3, <1>4 DEF CheckpointInv, Locked, Working, Writing
<1>6. /\ DiskTrue' /\ CheckpointKept'
      /\ disk' \in [id : Ids \cup {None}, seqno : Numbers] /\ last' \in [Ids -> Numbers]
      /\ saved' \in Ids \cup {None}
  BY <1>0, <1>a, <1>1, <1>2, <1>3 DEF DiskTrue, CheckpointKept, Numbers
<1>7. Stage(q)'
  BY <1>0, <1>1, <1>2, <1>3, <1>4 DEF Stage, Writing
<1>8. Working(q) \/ Writing(q) \/ UNCHANGED <<disk, last, saved>>
  BY <1>1, <1>2 DEF Working, Writing
<1> QED
  BY <1>2, <1>3, <1>5, <1>6, <1>7, <1>8, StepInv

\* The end of the thread.
LEMMA ThreadEndInv == ASSUME CheckpointInv, NEW q \in Procs, ThreadEnd(q) PROVE CheckpointInv'
<1>0. /\ proc \in [Procs -> Process] /\ disk \in [id : Ids \cup {None}, seqno : Numbers]
      /\ last \in [Ids -> Numbers] /\ saved \in Ids \cup {None}
      /\ holders \subseteq Procs \X {"main", "thread"}
  BY DEF CheckpointInv, CheckpointTyped
<1>s. Stage(q)
  BY DEF CheckpointInv
<1>a. PICK result \in {"ok", "failed"} :
          /\ proc' = [proc EXCEPT ![q].thread = result]
          /\ Writing(q)
          /\ result = "ok" => proc[q].thread = "renamed"
  BY DEF ThreadEnd, Writing
<1> DEFINE p == [proc[q] EXCEPT !.thread = result]
<1>1. /\ Writing(q) /\ ~ proc[q].stored /\ proc[q].id \in Ids
      /\ proc[q].phase \in {"waiting", "cleanup", "returned"}
      /\ saved = None /\ last[proc[q].id] = proc[q].seqno
      /\ result = "ok" => disk = [id |-> proc[q].id, seqno |-> proc[q].seqno]
  BY <1>a, <1>0, <1>s DEF Stage, Process, Phases, Writing
<1>2. /\ proc' = [proc EXCEPT ![q] = p] /\ holders' = holders \ {<<q, "thread">>}
      /\ UNCHANGED <<disk, last, saved>>
  BY <1>a, <1>0, <1>1 DEF ThreadEnd
<1>3. /\ p \in Process
      /\ p.phase = proc[q].phase /\ p.thread = result /\ result \in {"ok", "failed"} /\ ~ p.stored
      /\ p.id = proc[q].id /\ p.seqno = proc[q].seqno
  BY <1>a, <1>0, <1>1 DEF Process, Phases, Threads
<1> HIDE DEF p
<1>4. \A r \in Procs : proc'[r] = IF r = q THEN p ELSE proc[r]
  BY <1>0, <1>2
<1>5. Locked' /\ holders' \subseteq Procs \X {"main", "thread"}
  BY <1>0, <1>1, <1>2, <1>3, <1>4 DEF CheckpointInv, Locked, Working, Writing
<1>6. /\ DiskTrue' /\ CheckpointKept'
      /\ disk' \in [id : Ids \cup {None}, seqno : Numbers] /\ last' \in [Ids -> Numbers]
      /\ saved' \in Ids \cup {None}
  BY <1>0, <1>2 DEF CheckpointInv, DiskTrue, CheckpointKept
<1>7. Stage(q)'
  BY <1>0, <1>1, <1>2, <1>3, <1>4 DEF Stage, Writing
<1>8. Working(q) \/ Writing(q) \/ UNCHANGED <<disk, last, saved>>
  BY <1>1, <1>2 DEF Working, Writing
<1> QED
  BY <1>2, <1>3, <1>5, <1>6, <1>7, <1>8, StepInv

\* The answer of the thread, or the timeout.
LEMMA CheckpointedInv == ASSUME CheckpointInv, NEW q \in Procs, Checkpointed(q) PROVE CheckpointInv'
<1>0. /\ proc \in [Procs -> Process] /\ disk \in [id : Ids \cup {None}, seqno : Numbers]
      /\ last \in [Ids -> Numbers] /\ saved \in Ids \cup {None}
      /\ holders \subseteq Procs \X {"main", "thread"}
  BY DEF CheckpointInv, CheckpointTyped
<1>s. Stage(q)
  BY DEF CheckpointInv
<1>a. PICK b \in BOOLEAN :
          /\ proc' = [proc EXCEPT ![q] = [[proc[q] EXCEPT !.phase = "cleanup"] EXCEPT !.stored = b]]
          /\ b => proc[q].thread = "ok"
  <2>1. CASE proc[q].thread \in {"ok", "failed"}
    BY <1>0, <2>1 DEF Checkpointed, Process
  <2>2. CASE proc[q].thread \in {"writing", "renamed"}
    <3>1. proc[q].stored = FALSE
      BY <1>0, <2>2 DEF CheckpointInv, Stage, Process
    <3>2. [proc[q] EXCEPT !.phase = "cleanup"]
             = [[proc[q] EXCEPT !.phase = "cleanup"] EXCEPT !.stored = FALSE]
      BY <1>0, <3>1 DEF Process
    <3>3. proc' = [proc EXCEPT ![q] = [proc[q] EXCEPT !.phase = "cleanup"]]
      BY <2>2 DEF Checkpointed
    <3>4. proc' = [proc EXCEPT ![q] = [[proc[q] EXCEPT !.phase = "cleanup"] EXCEPT !.stored = FALSE]]
      BY <3>2, <3>3
    <3> QED
      BY <3>4
  <2> QED
    BY <2>1, <2>2 DEF Checkpointed
<1> DEFINE p == [[proc[q] EXCEPT !.phase = "cleanup"] EXCEPT !.stored = b]
<1>1. /\ proc[q].phase = "waiting" /\ proc[q].id \in Ids /\ saved = None /\ last[proc[q].id] = proc[q].seqno
  BY <1>0, <1>s DEF Checkpointed, Stage, Process
<1>2. /\ proc' = [proc EXCEPT ![q] = p] /\ UNCHANGED <<disk, holders, last, saved>>
  BY <1>0, <1>a, <1>1 DEF Checkpointed
<1>3. /\ p \in Process
      /\ p.phase = "cleanup" /\ p.thread = proc[q].thread /\ p.stored = b
      /\ p.id = proc[q].id /\ p.seqno = proc[q].seqno
  BY <1>0, <1>a, <1>1 DEF Process, Phases, Threads
<1> HIDE DEF p
<1>4. \A r \in Procs : proc'[r] = IF r = q THEN p ELSE proc[r]
  BY <1>0, <1>2
<1>5. Locked' /\ holders' \subseteq Procs \X {"main", "thread"}
  BY <1>0, <1>a, <1>1, <1>2, <1>3, <1>4 DEF CheckpointInv, Locked, Working, Writing
<1>6. /\ DiskTrue' /\ CheckpointKept'
      /\ disk' \in [id : Ids \cup {None}, seqno : Numbers] /\ last' \in [Ids -> Numbers]
      /\ saved' \in Ids \cup {None}
  BY <1>0, <1>2 DEF CheckpointInv, DiskTrue, CheckpointKept
<1>7. Stage(q)'
  BY <1>0, <1>a, <1>1, <1>2, <1>3, <1>4 DEF CheckpointInv, Stage, Writing
<1>8. Working(q) \/ Writing(q) \/ UNCHANGED <<disk, last, saved>>
  BY <1>1, <1>2 DEF Working, Writing
<1> QED
  BY <1>2, <1>3, <1>5, <1>6, <1>7, <1>8, StepInv

\* The end of run_daemon.
LEMMA ReturnInv == ASSUME CheckpointInv, NEW q \in Procs, NEW success \in BOOLEAN, Return(q, success) PROVE CheckpointInv'
<1>0. /\ proc \in [Procs -> Process] /\ disk \in [id : Ids \cup {None}, seqno : Numbers]
      /\ last \in [Ids -> Numbers] /\ saved \in Ids \cup {None}
      /\ holders \subseteq Procs \X {"main", "thread"}
  BY DEF CheckpointInv, CheckpointTyped
<1>s. Stage(q)
  BY DEF CheckpointInv
<1> DEFINE p == [proc[q] EXCEPT !.phase = "returned"]
<1>1. /\ proc[q].phase \in {"running", "waiting", "cleanup"} /\ saved = None /\ proc[q].id \in Ids
      /\ proc[q].stored => proc[q].thread = "ok"
      /\ Writing(q) => last[proc[q].id] = proc[q].seqno
      /\ proc[q].thread = "writing" => disk = [id |-> proc[q].id, seqno |-> NoSeqno]
      /\ proc[q].thread = "renamed" => disk = [id |-> proc[q].id, seqno |-> proc[q].seqno]
      /\ success => proc[q].phase = "cleanup" /\ proc[q].stored
      /\ proc[q].phase = "cleanup" => last[proc[q].id] = proc[q].seqno
      /\ proc[q].phase = "cleanup" /\ proc[q].thread = "ok" =>
            disk = [id |-> proc[q].id, seqno |-> proc[q].seqno]
  BY <1>0, <1>s DEF Return, Stage, Process, Writing
<1>2. /\ proc' = [proc EXCEPT ![q] = p] /\ holders' = holders \ {<<q, "main">>}
      /\ saved' = (IF success THEN proc[q].id ELSE saved)
      /\ UNCHANGED <<disk, last>>
  BY <1>0, <1>1 DEF Return
<1>3. /\ p \in Process
      /\ p.phase = "returned" /\ p.thread = proc[q].thread /\ p.stored = proc[q].stored
      /\ p.id = proc[q].id /\ p.seqno = proc[q].seqno
  BY <1>0, <1>1 DEF Process, Phases, Threads
<1> HIDE DEF p
<1>4. \A r \in Procs : proc'[r] = IF r = q THEN p ELSE proc[r]
  BY <1>0, <1>2
<1>5. Locked' /\ holders' \subseteq Procs \X {"main", "thread"}
  BY <1>0, <1>1, <1>2, <1>3, <1>4 DEF CheckpointInv, Locked, Working, Writing
<1>6. /\ DiskTrue' /\ CheckpointKept'
      /\ disk' \in [id : Ids \cup {None}, seqno : Numbers] /\ last' \in [Ids -> Numbers]
      /\ saved' \in Ids \cup {None}
  BY <1>0, <1>1, <1>2 DEF CheckpointInv, DiskTrue, CheckpointKept
<1>7. Stage(q)'
  BY <1>0, <1>1, <1>2, <1>3, <1>4 DEF Stage, Writing
<1>8. Working(q) \/ Writing(q) \/ UNCHANGED <<disk, last, saved>>
  BY <1>1, <1>2 DEF Working, Writing
<1> QED
  BY <1>2, <1>3, <1>5, <1>6, <1>7, <1>8, StepInv

\* The end of a process.
LEMMA EndInv == ASSUME CheckpointInv, NEW q \in Procs, End(q) PROVE CheckpointInv'
<1>0. /\ proc \in [Procs -> Process] /\ disk \in [id : Ids \cup {None}, seqno : Numbers]
      /\ last \in [Ids -> Numbers] /\ saved \in Ids \cup {None}
      /\ holders \subseteq Procs \X {"main", "thread"}
  BY DEF CheckpointInv, CheckpointTyped
<1>s. Stage(q)
  BY DEF CheckpointInv
<1> DEFINE p == Off
<1>1. /\ \A h \in Without(q) : h \in holders /\ h[1] # q
      /\ \A r \in Procs : r # q /\ <<r, "main">> \in holders => <<r, "main">> \in Without(q)
      /\ \A r \in Procs : r # q /\ <<r, "thread">> \in holders => <<r, "thread">> \in Without(q)
  BY <1>0, <1>s DEF Without
<1>2. /\ proc' = [proc EXCEPT ![q] = p] /\ holders' = Without(q)
      /\ UNCHANGED <<disk, last, saved>>
  BY <1>0, <1>1 DEF End
<1>3. /\ p \in Process
      /\ p.phase = "off" /\ p.thread = "none" /\ ~ p.stored
  BY ZeroIsSeqno DEF Process, Phases, Threads, Off
<1> HIDE DEF p
<1>4. \A r \in Procs : proc'[r] = IF r = q THEN p ELSE proc[r]
  BY <1>0, <1>2
<1>5. Locked' /\ holders' \subseteq Procs \X {"main", "thread"}
  BY <1>0, <1>1, <1>2, <1>3, <1>4 DEF CheckpointInv, Locked, Working, Writing
<1>6. /\ DiskTrue' /\ CheckpointKept'
      /\ disk' \in [id : Ids \cup {None}, seqno : Numbers] /\ last' \in [Ids -> Numbers]
      /\ saved' \in Ids \cup {None}
  BY <1>0, <1>2 DEF CheckpointInv, DiskTrue, CheckpointKept
<1>7. Stage(q)'
  BY <1>3, <1>4 DEF Stage, Writing
<1>8. Working(q) \/ Writing(q) \/ UNCHANGED <<disk, last, saved>>
  BY <1>1, <1>2 DEF Working, Writing
<1> QED
  BY <1>2, <1>3, <1>5, <1>6, <1>7, <1>8, StepInv

\* Taking up the number on disk, or a new one.
LEMMA LoadInv == ASSUME CheckpointInv, NEW q \in Procs, Load(q) PROVE CheckpointInv'
<1>0. /\ proc \in [Procs -> Process] /\ disk \in [id : Ids \cup {None}, seqno : Numbers]
      /\ last \in [Ids -> Numbers] /\ saved \in Ids \cup {None}
      /\ holders \subseteq Procs \X {"main", "thread"}
  BY DEF CheckpointInv, CheckpointTyped
<1>s. Stage(q)
  BY DEF CheckpointInv
<1>a. PICK configured \in Ids \cup {None} : \E id \in RouterIds(configured) :
          \E n \in IF Resumes(id) THEN {SeqnoNext(disk.seqno)} ELSE Randoms :
             proc' = [proc EXCEPT ![q] =
                        [@ EXCEPT !.phase = "loaded", !.id = id, !.seqno = n,
                                  !.resumed = Resumes(id)]]
  BY DEF Load
<1>i. PICK id \in RouterIds(configured) :
          \E n \in IF Resumes(id) THEN {SeqnoNext(disk.seqno)} ELSE Randoms :
             proc' = [proc EXCEPT ![q] =
                        [@ EXCEPT !.phase = "loaded", !.id = id, !.seqno = n,
                                  !.resumed = Resumes(id)]]
  BY <1>a
<1>b. PICK n \in IF Resumes(id) THEN {SeqnoNext(disk.seqno)} ELSE Randoms :
         proc' = [proc EXCEPT ![q] =
                    [@ EXCEPT !.phase = "loaded", !.id = id, !.seqno = n, !.resumed = Resumes(id)]]
  BY <1>i
<1>c. /\ id \in Ids /\ n \in Seqnos /\ Resumes(id) \in BOOLEAN
      /\ Resumes(id) => last[id] \in Seqnos /\ n = SeqnoNext(last[id])
  <2>1. id \in Ids
    BY <1>0, CheckpointAssumption DEF RouterIds, None
  <2>2. CASE Resumes(id)
    <3>1. disk.seqno \in Seqnos /\ last[id] = disk.seqno
      BY <1>0, <2>2 DEF CheckpointInv, DiskTrue, Resumes, Numbers
    <3>2. n = SeqnoNext(disk.seqno)
      BY <2>2
    <3> QED
      BY <2>1, <2>2, <3>1, <3>2, NextIsNewer
  <2>3. CASE ~ Resumes(id)
    <3>1. n \in Randoms
      BY <2>3
    <3> QED
      BY <2>1, <2>3, <3>1, CheckpointAssumption DEF Resumes
  <2> QED
    BY <2>2, <2>3
<1> DEFINE p == [[[[proc[q] EXCEPT !.phase = "loaded"] EXCEPT !.id = id] EXCEPT !.seqno = n] EXCEPT !.resumed = Resumes(id)]
<1>1. /\ proc[q].phase = "owned" /\ proc[q].thread = "none" /\ ~ proc[q].stored
  BY <1>0, <1>s DEF Load, Stage, Process
<1>2. /\ proc' = [proc EXCEPT ![q] = p] /\ UNCHANGED <<disk, holders, last, saved>>
  BY <1>0, <1>b, <1>c, <1>1 DEF Load
<1>3. /\ p \in Process
      /\ p.phase = "loaded" /\ p.thread = "none" /\ ~ p.stored
      /\ p.id = id /\ p.seqno = n /\ p.resumed = Resumes(id)
  BY <1>0, <1>b, <1>c, <1>1 DEF Process, Phases, Threads
<1> HIDE DEF p
<1>4. \A r \in Procs : proc'[r] = IF r = q THEN p ELSE proc[r]
  BY <1>0, <1>2
<1>5. Locked' /\ holders' \subseteq Procs \X {"main", "thread"}
  BY <1>0, <1>1, <1>2, <1>3, <1>4 DEF CheckpointInv, Locked, Working, Writing
<1>6. /\ DiskTrue' /\ CheckpointKept'
      /\ disk' \in [id : Ids \cup {None}, seqno : Numbers] /\ last' \in [Ids -> Numbers]
      /\ saved' \in Ids \cup {None}
  BY <1>0, <1>2 DEF CheckpointInv, DiskTrue, CheckpointKept
<1>7. Stage(q)'
  BY <1>0, <1>c, <1>1, <1>2, <1>3, <1>4 DEF Stage, Writing
<1>8. Working(q) \/ Writing(q) \/ UNCHANGED <<disk, last, saved>>
  BY <1>1, <1>2 DEF Working, Writing
<1> QED
  BY <1>2, <1>3, <1>5, <1>6, <1>7, <1>8, StepInv

\* The first start.
LEMMA InitInv == ASSUME Init PROVE CheckpointInv
<1>1. \A q \in Procs : proc[q] = Off
  BY DEF Init
<1>2. /\ Off \in Process /\ Off.phase = "off" /\ Off.thread = "none" /\ ~ Off.stored
  BY ZeroIsSeqno DEF Process, Phases, Threads, Off
<1>3. CheckpointTyped
  BY <1>2 DEF Init, CheckpointTyped, Absent, Numbers
<1>4. Locked
  BY <1>1, <1>2 DEF Init, Locked, Working, Writing
<1>5. DiskTrue /\ CheckpointKept
  BY DEF Init, DiskTrue, CheckpointKept, Absent
<1>6. \A q \in Procs : Stage(q)
  BY <1>1, <1>2 DEF Stage, Writing
<1> QED
  BY <1>3, <1>4, <1>5, <1>6 DEF CheckpointInv

\* A process that is in its loop already.
LEMMA BegunInv ==
    ASSUME NEW q \in Procs, NEW id \in Ids, NEW n \in Randoms, Begun(q, id, n) PROVE CheckpointInv
<1> DEFINE p == [[[Off EXCEPT !.phase = "running"] EXCEPT !.id = id] EXCEPT !.seqno = n]
<1>1. n \in Seqnos
  BY CheckpointAssumption
<1>2. /\ Off \in Process /\ Off.phase = "off" /\ Off.thread = "none" /\ ~ Off.stored
  BY ZeroIsSeqno DEF Process, Phases, Threads, Off
<1>3. /\ p \in Process /\ p.phase = "running" /\ p.thread = "none" /\ ~ p.stored
      /\ p.id = id /\ p.seqno = n
  BY <1>1 DEF Process, Phases, Threads, Off
<1>4. proc = [[k \in Procs |-> Off] EXCEPT ![q] = p]
  BY DEF Begun, Off
<1> HIDE DEF p
<1>5. /\ \A r \in Procs : proc[r] = IF r = q THEN p ELSE Off
      /\ proc \in [Procs -> Process]
  BY <1>2, <1>3, <1>4
<1>6. /\ disk = [id |-> id, seqno |-> NoSeqno] /\ holders = {<<q, "main">>} /\ saved = None
      /\ last \in [Ids -> Numbers] /\ last[id] = n
  BY <1>1 DEF Begun, Numbers
<1>7. CheckpointTyped
  BY <1>5, <1>6 DEF CheckpointTyped, Numbers
<1>8. Locked
  BY <1>2, <1>3, <1>5, <1>6 DEF Locked, Working, Writing
<1>9. DiskTrue /\ CheckpointKept
  BY <1>6 DEF DiskTrue, CheckpointKept
<1>10. \A r \in Procs : Stage(r)
  BY <1>2, <1>3, <1>5, <1>6 DEF Stage, Writing
<1> QED
  BY <1>7, <1>8, <1>9, <1>10 DEF CheckpointInv

\* Every step of a process.
LEMMA NextInv == ASSUME CheckpointInv, [Next]_vars PROVE CheckpointInv'
<1>1. CASE UNCHANGED vars
  BY <1>1 DEF vars, CheckpointInv, CheckpointTyped, Locked, DiskTrue, CheckpointKept, Stage, Working,
              Writing
<1>2. CASE Next
  <2>1. PICK q \in Procs :
           \/ Acquire(q) \/ Load(q) \/ Consume(q) \/ Run(q) \/ Bump(q) \/ Persist(q)
           \/ ThreadRename(q) \/ ThreadEnd(q) \/ Checkpointed(q)
           \/ (\E success \in BOOLEAN : Return(q, success)) \/ End(q)
    BY <1>2 DEF Next
  <2> QED
    BY Zenon, <2>1, AcquireInv, LoadInv, ConsumeInv, RunInv, BumpInv, PersistInv, ThreadRenameInv,
       ThreadEndInv, CheckpointedInv, ReturnInv, EndInv
<1> QED
  BY <1>1, <1>2

\* What the daemon does around them leaves the checkpoint alone.
LEMMA DaemonSteps == ASSUME [DaemonNext]_all PROVE [Next]_vars
<1> USE DEF vars, daemonVars
<1>1. CASE UNCHANGED all
  BY <1>1 DEF all
<1>2. ASSUME NEW q \in Procs,
             \/ StartProcess(q) \/ StartLoop(q) \/ EndProcess(q)
             \/ (Load(q) \/ Consume(q) \/ ThreadRename(q) \/ ThreadEnd(q)) /\ UNCHANGED daemonVars
             \/ d.router = "up" /\ proc[q].bumps < budget.bumps /\ Bump(q) /\ UNCHANGED daemonVars
             \/ RouterPersists(q) \/ RouterCheckpointed(q) \/ Finish(q) \/ DeadlinePasses(q)
      PROVE  Next
  <2>1. (~ d.failed) \in BOOLEAN
    OBVIOUS
  <2> QED
    BY Zenon, <1>2, <2>1 DEF Next, StartProcess, StartLoop, EndProcess, RouterPersists,
       RouterCheckpointed, Finish, DeadlinePasses
<1>3. ASSUME NEW q \in Procs, RouterReturns(q) \/ Flush \/ Tell \/ WaitRouter \/ ExportCleanup
      PROVE  UNCHANGED vars
  BY <1>3 DEF RouterReturns, Flush, Tell, WaitRouter, ExportCleanup
<1>4. ASSUME \/ Edit \/ Hangup \/ Terminate \/ RouterFails
             \/ (\E s \in Services : ServiceFails(s)) \/ ServicesStop
             \/ \E c \in Clients : Request(c) \/ Submit(c) \/ Respond(c) \/ Disconnect(c)
      PROVE  UNCHANGED vars
  BY <1>4 DEF Edit, Hangup, Terminate, RouterFails, ServiceFails, ServicesStop, Request, Submit,
     Respond, Disconnect
<1>5. ASSUME \/ RecoveryInterfaces \/ SetShutdownTimeout \/ ReplaceOrigins \/ ReplaceRoutePolicy
             \/ UpdateExport \/ Commit \/ Record
      PROVE  UNCHANGED vars
  BY <1>5 DEF RecoveryInterfaces, SetShutdownTimeout, ReplaceOrigins, ReplaceRoutePolicy,
     UpdateExport, Commit, Record, Command
<1>6. ASSUME ServeHangup \/ ServeCommand \/ TaskEnded \/ Signalled PROVE UNCHANGED vars
  BY <1>6 DEF ServeHangup, ServeCommand, TaskEnded, Signalled
<1> QED
  BY Zenon, <1>1, <1>2, <1>3, <1>4, <1>5, <1>6 DEF DaemonNext, Cleanup

\* The daemon always keeps the checkpoint's invariant.
LEMMA DaemonCheckpoint == DaemonSpec => []CheckpointInv
<1>1. ASSUME DaemonInit PROVE CheckpointInv
  <2>1. CASE Init
    BY <2>1, InitInv
  <2>2. CASE Begun(CHOOSE q \in Procs : TRUE, CHOOSE i \in Ids : TRUE, CHOOSE n \in Randoms : TRUE)
    <3>1. /\ (CHOOSE q \in Procs : TRUE) \in Procs
          /\ (CHOOSE i \in Ids : TRUE) \in Ids
          /\ (CHOOSE n \in Randoms : TRUE) \in Randoms
      BY CheckpointAssumption
    <3> QED
      BY <2>2, <3>1, BegunInv
  <2> QED
    BY <1>1, <2>1, <2>2 DEF DaemonInit
<1>2. ASSUME CheckpointInv, [DaemonNext]_all PROVE CheckpointInv'
  BY <1>2, DaemonSteps, NextInv
<1> QED
  BY <1>1, <1>2, PTL DEF DaemonSpec

\* An orderly stop that reported success has left its number for the next
\* start, for any number of processes, router ids and clients, wherever a
\* process crashes, a deadline passes or the thread of checkpoint_sequence_number
\* is late.
THEOREM DaemonKeepsCheckpoint == DaemonSpec => []CheckpointKept
<1>1. CheckpointInv => CheckpointKept
  BY DEF CheckpointInv
<1> QED
  BY <1>1, DaemonCheckpoint, PTL

\* A process that resumes from a checkpoint advertises a number newer, modulo
\* 2^16, than any its router id has advertised before (load_or_create consumes
\* what it resumes from).
THEOREM DaemonResumesNewer == DaemonSpec => ResumesNewer
<1>1. ASSUME CheckpointInv, NEW q \in Procs, proc[q].phase = "ready", proc[q].resumed
      PROVE  last[proc[q].id] # NoSeqno /\ SeqnoGt(proc[q].seqno, last[proc[q].id])
  <2>1. last[proc[q].id] \in Seqnos /\ proc[q].seqno = SeqnoNext(last[proc[q].id])
    BY <1>1 DEF CheckpointInv, Stage
  <2>2. NoSeqno \notin Seqnos
    BY SeqnoRange DEF NoSeqno
  <2> QED
    BY <2>1, <2>2, NextIsNewer
<1>2. CheckpointInv =>
         [\A q \in Procs :
            proc[q].phase = "ready" /\ proc'[q].phase = "running" /\ proc[q].resumed =>
               last[proc[q].id] # NoSeqno /\ SeqnoGt(proc[q].seqno, last[proc[q].id])]_vars
  BY <1>1
<1> QED
  BY <1>2, DaemonCheckpoint, PTL DEF ResumesNewer
=============================================================================
