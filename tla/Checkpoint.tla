----------------------------- MODULE Checkpoint -----------------------------
(***************************************************************************)
(* The sequence number across restarts of the daemon (babel-rs: state.rs,  *)
(* ownership.rs, the start and the end of main.rs; babel-router: the       *)
(* shutdown sequence of runtime.rs).  An orderly stop saves the number on  *)
(* a thread nobody joins; a start consumes what was saved before it        *)
(* advertises anything.  Processes exclude each other with a file lock.    *)
(***************************************************************************)
EXTENDS Distance, FiniteSets

CONSTANTS
    Procs,      \* processes; one that has ended may be started again
    Ids,        \* router ids
    Randoms,    \* what /dev/urandom may answer
    MaxBumps,   \* bound on the increments of one process
    MaxLives    \* bound on the starts

ASSUME CheckpointAssumption ==
    /\ Procs # {} /\ Ids # {} /\ "none" \notin Ids
    /\ Randoms # {} /\ Randoms \subseteq Seqnos
    /\ MaxBumps \in Nat /\ MaxLives \in Nat

VARIABLES
    disk,       \* the state file: [id, seqno], without a number or absent
    holders,    \* who holds the lock file: handles of main and of the threads
    proc,
    last,       \* history: the number each router id last advertised
    saved,      \* history: the id whose last process reported an orderly stop
    lives

vars == <<disk, holders, proc, last, saved, lives>>

None == "none"

NoSeqno == -1

Absent == [id |-> None, seqno |-> NoSeqno]

\* The main task of a process and its checkpoint thread.
Off == [phase |-> "off", id |-> None, seqno |-> 0, resumed |-> FALSE, bumps |-> 0,
        thread |-> "none", stored |-> FALSE]

Init ==
    /\ disk = Absent
    /\ holders = {}
    /\ proc = [q \in Procs |-> Off]
    /\ last = [i \in Ids |-> NoSeqno]
    /\ saved = None
    /\ lives = MaxLives

\* Everything a process holds goes when it ends.
Without(q) == {h \in holders : h[1] # q}

-----------------------------------------------------------------------------
(* Start *)

\* ProtocolOwnership::acquire; a process that finds the lock taken ends.
Acquire(q) ==
    /\ proc[q].phase = "off"
    /\ lives > 0
    /\ holders = {}
    /\ lives' = lives - 1
    /\ holders' = {<<q, "main">>}
    /\ proc' = [proc EXCEPT ![q].phase = "owned"]
    /\ UNCHANGED <<disk, last, saved>>

\* initial_sequence_number: only a number of the same router id counts.
Resumes(id) == disk.id = id /\ disk.seqno # NoSeqno

\* load_or_create: the configured id, or the one on disk, or a new one.
RouterIds(configured) ==
    IF configured # None THEN {configured}
    ELSE IF disk.id # None THEN {disk.id}
    ELSE Ids

\* load_or_create, up to the write.
Load(q) ==
    /\ proc[q].phase = "owned"
    /\ \E configured \in Ids \cup {None} : \E id \in RouterIds(configured) :
          \E n \in IF Resumes(id) THEN {SeqnoNext(disk.seqno)} ELSE Randoms :
             proc' = [proc EXCEPT ![q] =
                        [@ EXCEPT !.phase = "loaded", !.id = id, !.seqno = n,
                                  !.resumed = Resumes(id)]]
    /\ UNCHANGED <<disk, holders, last, saved, lives>>

\* Mutant: the number stays on disk for the next start.
ConsumedKept(q) == [id |-> proc[q].id, seqno |-> disk.seqno]

\* write_state(None): "Consume any saved sequence before advertising."
Consumed(q) == [id |-> proc[q].id, seqno |-> NoSeqno]

Consume(q) ==
    /\ proc[q].phase = "loaded"
    /\ disk' = Consumed(q)
    /\ saved' = None
    /\ proc' = [proc EXCEPT ![q].phase = "ready"]
    /\ UNCHANGED <<holders, last, lives>>

\* The router starts, and advertises its origins.
Run(q) ==
    /\ proc[q].phase = "ready"
    /\ proc' = [proc EXCEPT ![q].phase = "running"]
    /\ last' = [last EXCEPT ![proc[q].id] = proc[q].seqno]
    /\ UNCHANGED <<disk, holders, saved, lives>>

\* bump_sequence_number in the engine
Bump(q) ==
    /\ proc[q].phase = "running"
    /\ proc[q].bumps < MaxBumps
    /\ LET n == SeqnoNext(proc[q].seqno)
       IN  /\ proc' = [proc EXCEPT ![q].seqno = n, ![q].bumps = @ + 1]
           /\ last' = [last EXCEPT ![proc[q].id] = n]
    /\ UNCHANGED <<disk, holders, saved, lives>>

-----------------------------------------------------------------------------
(* Stop *)

\* with_ownership: the store that the thread owns holds the lock too.
PersistHolders(q) == holders \cup {<<q, "thread">>}

\* The shutdown branch of run_loop, up to the start of the checkpoint thread.
\* Retractions do not change the number.
Persist(q) ==
    /\ proc[q].phase = "running"
    /\ proc' = [proc EXCEPT ![q].phase = "waiting", ![q].thread = "writing"]
    /\ holders' = PersistHolders(q)
    /\ UNCHANGED <<disk, last, saved, lives>>

\* write_atomic has renamed the file; or fails, before that or after it.
ThreadRename(q) ==
    /\ proc[q].thread = "writing"
    /\ disk' = [id |-> proc[q].id, seqno |-> proc[q].seqno]
    /\ proc' = [proc EXCEPT ![q].thread = "renamed"]
    /\ UNCHANGED <<holders, last, saved, lives>>

ThreadEnd(q) ==
    /\ \/ proc[q].thread = "renamed" /\ \E r \in {"ok", "failed"} : proc' = [proc EXCEPT ![q].thread = r]
       \/ proc[q].thread = "writing" /\ proc' = [proc EXCEPT ![q].thread = "failed"]
    /\ holders' = holders \ {<<q, "thread">>}
    /\ UNCHANGED <<disk, last, saved, lives>>

\* Mutant: a write still under way when the time is over counts as stored.
CheckpointedEarly(q) ==
    /\ proc[q].phase = "waiting"
    /\ proc' = [proc EXCEPT ![q].phase = "cleanup", ![q].stored = proc[q].thread # "failed"]
    /\ UNCHANGED <<disk, holders, last, saved, lives>>

\* checkpoint_sequence_number: the answer of the thread, or the timeout.
Checkpointed(q) ==
    /\ proc[q].phase = "waiting"
    /\ \/ /\ proc[q].thread \in {"ok", "failed"}
          /\ proc' = [proc EXCEPT ![q].phase = "cleanup", ![q].stored = proc[q].thread = "ok"]
       \/ /\ proc[q].thread \in {"writing", "renamed"}
          /\ proc' = [proc EXCEPT ![q].phase = "cleanup"]
    /\ UNCHANGED <<disk, holders, last, saved, lives>>

\* The end of run_daemon: with success, after the shutdown deadline, or with a
\* router that has failed and not saved anything.
Return(q, success) ==
    /\ proc[q].phase \in {"running", "waiting", "cleanup"}
    /\ success => proc[q].phase = "cleanup" /\ proc[q].stored
    /\ saved' = IF success THEN proc[q].id ELSE saved
    /\ proc' = [proc EXCEPT ![q].phase = "returned"]
    /\ holders' = holders \ {<<q, "main">>}
    /\ UNCHANGED <<disk, last, lives>>

\* A crash, a start that fails, or the end of a process that has returned; a
\* failing write_state may have replaced the file already.
End(q) ==
    /\ proc[q].phase # "off"
    /\ proc' = [proc EXCEPT ![q] = Off]
    /\ holders' = Without(q)
    /\ UNCHANGED <<disk, last, saved, lives>>

Next ==
    \E q \in Procs :
        \/ Acquire(q)
        \/ Load(q)
        \/ Consume(q)
        \/ Run(q)
        \/ Bump(q)
        \/ Persist(q)
        \/ ThreadRename(q)
        \/ ThreadEnd(q)
        \/ Checkpointed(q)
        \/ \E success \in BOOLEAN : Return(q, success)
        \/ End(q)

Spec == Init /\ [][Next]_vars

-----------------------------------------------------------------------------
(* Properties *)

\* A process that resumes from a checkpoint advertises a number newer than any
\* its router id has advertised before, whatever crashed, timed out or was
\* written late in between (state.rs: "A crash must leave only the stable
\* identity, not a checkpoint from a previous orderly shutdown").
ResumesNewer ==
    [][\A q \in Procs :
         proc[q].phase = "ready" /\ proc'[q].phase = "running" /\ proc[q].resumed =>
            last[proc[q].id] # NoSeqno /\ SeqnoGt(proc[q].seqno, last[proc[q].id])]_vars

\* An orderly stop that reported success has left its number for the next
\* start, which finds it unless another router id is configured
\* (checkpoint_sequence_number, load_or_create).
CheckpointKept ==
    saved # None => disk = [id |-> saved, seqno |-> last[saved]]
=============================================================================
