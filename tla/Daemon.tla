------------------------------- MODULE Daemon -------------------------------
(***************************************************************************)
(* The life of the daemon process (babel-rs: main.rs, shutdown.rs and the  *)
(* commands of control.rs), around the checkpoint of its sequence number.  *)
(* One task serves signals and the control channel, and reloads the        *)
(* configuration in steps, each of which waits for the router or for the   *)
(* exporter; a signal may end it in any of them.  The cleanup that follows *)
(* shares one deadline.                                                    *)
(***************************************************************************)
EXTENDS Checkpoint, Sequences

CONSTANTS
    Clients,        \* connections to the control socket
    MaxClients,     \* MAX_CLIENTS
    ChannelLength,  \* of the command channel
    Configs,        \* what the configuration file may hold
    Budgets         \* bounds: starts, bumps, hangups, requests, failures;
                    \* the first content of the file, and those it gets in turn

ASSUME DaemonAssumption ==
    /\ None \notin Clients
    /\ MaxClients \in Nat \ {0} /\ ChannelLength \in Nat \ {0}
    /\ \E c \in Configs : c.valid
    /\ Budgets \subseteq [starts : Nat, bumps : Nat, hangups : Nat, requests : Nat, failures : Nat,
                          file : {c \in Configs : c.valid}, edits : Seq(Configs)]

VARIABLES
    file,       \* the configuration file
    d,          \* the task of the process that owns the protocol
    clients,
    queue,      \* the command channel
    budget

daemonVars == <<file, d, clients, queue, budget>>

all == <<disk, holders, proc, last, saved, lives, file, d, clients, queue, budget>>

Services == {"interfaces", "reconciler", "control"}

\* What the other tasks were given of a configuration.
Applied(c) == [timeout |-> c.timeout, origins |-> c.origins, export |-> c.export,
               rules |-> <<c.export, c.import, c.announce>>, interfaces |-> c.interfaces]

\* run_daemon before the event loop: the configuration it loaded.
Loaded(c) ==
    [pc |-> "starting", active |-> c, candidate |-> c, by |-> None, applied |-> Applied(c),
     services |-> Services, router |-> "up", hangup |-> FALSE, terminate |-> FALSE,
     failed |-> FALSE, finished |-> FALSE, told |-> FALSE, retain |-> FALSE]

Down == [Loaded(CHOOSE c \in Configs : c.valid) EXCEPT !.pc = "down"]

\* A client, and (history) the contents the file has had since its request.
Gone == [at |-> "off", kind |-> None, answer |-> None, digest |-> {}, seen |-> {}]

\* One process is in its event loop already.
Begun(q, id, n) ==
    /\ disk = [id |-> id, seqno |-> NoSeqno]
    /\ holders = {<<q, "main">>}
    /\ proc = [[k \in Procs |-> Off] EXCEPT ![q] = [Off EXCEPT !.phase = "running", !.id = id,
                                                              !.seqno = n]]
    /\ last = [[i \in Ids |-> NoSeqno] EXCEPT ![id] = n]
    /\ saved = None
    /\ lives = MaxLives
    /\ d = [Loaded(file) EXCEPT !.pc = "waiting"]

DaemonInit ==
    /\ budget \in Budgets
    /\ file = budget.file
    /\ \/ budget.starts > 0 /\ Init /\ d = Down
       \/ /\ budget.starts = 0
          /\ Begun(CHOOSE q \in Procs : TRUE, CHOOSE i \in Ids : TRUE, CHOOSE n \in Randoms : TRUE)
    /\ clients = [c \in Clients |-> Gone]
    /\ queue = << >>

Reloading == {"recover", "timeout", "origins", "rules", "export", "commit", "record"}

Looping == Reloading \cup {"waiting"}

\* The process, and with it every connection, is gone.
Vanish ==
    /\ d' = Down
    /\ clients' = [c \in Clients |-> Gone]
    /\ queue' = << >>

-----------------------------------------------------------------------------
(* Start: load_config comes before everything else *)

StartProcess(q) ==
    /\ budget.starts > 0
    /\ file.valid
    /\ Acquire(q)
    /\ d' = Loaded(file)
    /\ budget' = [budget EXCEPT !.starts = @ - 1]
    /\ UNCHANGED <<file, clients, queue>>

\* The router and the services start; config_rx holds the configuration.
StartLoop(q) ==
    /\ Run(q)
    /\ d' = [d EXCEPT !.pc = "waiting"]
    /\ UNCHANGED <<file, clients, queue, budget>>

-----------------------------------------------------------------------------
(* Around the daemon *)

\* While the process lives: only it reads the file.
Edit ==
    /\ budget.edits # << >> /\ d.pc # "down"
    /\ file' = Head(budget.edits)
    /\ clients' = [k \in Clients |->
                     [clients[k] EXCEPT !.seen = IF @ = {} THEN {} ELSE @ \cup {file'}]]
    /\ budget' = [budget EXCEPT !.edits = Tail(@)]
    /\ UNCHANGED <<vars, d, queue>>

\* Signals of a kind that were not received yet are one.
Hangup ==
    /\ d.pc \in Looping /\ ~d.hangup
    /\ budget.hangups > 0
    /\ d' = [d EXCEPT !.hangup = TRUE]
    /\ budget' = [budget EXCEPT !.hangups = @ - 1]
    /\ UNCHANGED <<vars, file, clients, queue>>

Terminate ==
    /\ d.pc \in Looping /\ ~d.terminate
    /\ d' = [d EXCEPT !.terminate = TRUE]
    /\ UNCHANGED <<vars, file, clients, queue, budget>>

\* The router or a service ends on its own, with an error.
RouterFails ==
    /\ d.pc \in Looping /\ d.router = "up"
    /\ budget.failures > 0
    /\ d' = [d EXCEPT !.router = "failed"]
    /\ budget' = [budget EXCEPT !.failures = @ - 1]
    /\ UNCHANGED <<vars, file, clients, queue>>

ServiceFails(s) ==
    /\ d.pc \in Looping /\ s \in d.services
    /\ budget.failures > 0
    /\ d' = [d EXCEPT !.services = @ \ {s}]
    /\ budget' = [budget EXCEPT !.failures = @ - 1]
    /\ UNCHANGED <<vars, file, clients, queue>>

-----------------------------------------------------------------------------
(* Control connections: serve and handle_client *)

\* serve accepts until it is told to stop; a connection that has its permit
\* stays until it closes.  A request is read and dispatched.
Request(c) ==
    /\ \/ clients[c].at = "connected"
       \/ /\ clients[c].at = "off"
          /\ "control" \in d.services /\ ~d.told
          /\ Cardinality({k \in Clients : clients[k].at # "off"}) < MaxClients
    /\ d.pc \notin {"down", "starting"}
    /\ budget.requests > 0
    /\ \E kind \in {"reload", "shutdown"} :
          clients' = [clients EXCEPT ![c] = [at |-> "sending", kind |-> kind, answer |-> None,
                                             digest |-> {}, seen |-> {file}]]
    /\ budget' = [budget EXCEPT !.requests = @ - 1]
    /\ UNCHANGED <<vars, file, d, queue>>

\* daemon_commands.send: waits for room in the channel.
Submit(c) ==
    /\ clients[c].at = "sending"
    /\ Len(queue) < ChannelLength
    /\ queue' = Append(queue, c)
    /\ clients' = [clients EXCEPT ![c].at = "queued"]
    /\ UNCHANGED <<vars, file, d, budget>>

\* The response is written and flushed, and then told to the daemon if it asked
\* for that: that connection ends.
Respond(c) ==
    /\ clients[c].at = "answered"
    /\ clients' = [clients EXCEPT ![c] =
                     IF @.kind = "shutdown" /\ @.answer = "accepted" THEN Gone
                     ELSE [Gone EXCEPT !.at = "connected"]]
    /\ UNCHANGED <<vars, file, d, queue, budget>>

\* The client went away, or a read or the write took too long.
Disconnect(c) ==
    /\ clients[c].at \in {"connected", "answered"}
    /\ clients' = [clients EXCEPT ![c] = Gone]
    /\ UNCHANGED <<vars, file, d, queue, budget>>

\* reload and shutdown get their answer; an oneshot that was dropped is
\* answered daemon_stopping.
Answered(by, answer, digest) ==
    IF by \in Clients
    THEN [clients EXCEPT ![by] = [@ EXCEPT !.at = "answered", !.answer = answer, !.digest = digest]]
    ELSE clients

-----------------------------------------------------------------------------
(* reload_and_record *)

\* Mutant: a rejected request is not answered.
RejectedSilently(e, by) ==
    /\ d' = [e EXCEPT !.pc = "waiting", !.by = None]
    /\ clients' = clients

\* reload returned an error: metadata.last_reload_error, the reply.
Rejected(e, by) ==
    /\ d' = [e EXCEPT !.pc = "waiting", !.by = None]
    /\ clients' = Answered(by, "rejected", {})

\* Mutant: what was read last is taken for the file.
ReloadCached(e, by) ==
    /\ d' = [e EXCEPT !.pc = "recover", !.by = by]
    /\ UNCHANGED clients

\* reload up to its first await: load_config and reload_identity_matches.
Reload(e, by) ==
    IF file.valid /\ file.identity = e.active.identity
    THEN /\ d' = [e EXCEPT !.pc = "recover", !.candidate = file, !.by = by]
         /\ UNCHANGED clients
    ELSE Rejected(e, by)

\* recovery_interfaces: reads the interfaces and writes the journal.
RecoveryInterfaces ==
    /\ d.pc = "recover"
    /\ \/ d' = [d EXCEPT !.pc = "timeout"] /\ UNCHANGED <<clients, budget>>
       \/ /\ budget.failures > 0
          /\ budget' = [budget EXCEPT !.failures = @ - 1]
          /\ Rejected(d, d.by)
    /\ UNCHANGED <<vars, file, queue>>

\* A command of the router handle: fails once the router has stopped.
Command(then) ==
    /\ IF d.router = "up" THEN d' = then /\ UNCHANGED clients ELSE Rejected(d, d.by)
    /\ UNCHANGED <<vars, file, queue, budget>>

SetShutdownTimeout ==
    /\ d.pc = "timeout"
    /\ Command([d EXCEPT !.pc = "origins", !.applied.timeout = d.candidate.timeout])

ReplaceOrigins ==
    /\ d.pc = "origins"
    /\ Command([d EXCEPT !.pc = "rules", !.applied.origins = d.candidate.origins])

\* Mutant: only a new import policy counts.
RulesChangedImport == d.active.export # d.candidate.export \/ d.active.import # d.candidate.import

RulesChanged ==
    \/ d.active.export # d.candidate.export
    \/ d.active.import # d.candidate.import
    \/ d.active.announce # d.candidate.announce

ReplaceRoutePolicy ==
    /\ d.pc = "rules"
    /\ IF RulesChanged
       THEN Command([d EXCEPT !.pc = "export", !.applied.rules = Applied(d.candidate).rules])
       ELSE /\ d' = [d EXCEPT !.pc = "export"]
            /\ UNCHANGED <<vars, file, clients, queue, budget>>

UpdateExport ==
    /\ d.pc = "export"
    /\ d' = [d EXCEPT !.pc = "commit",
                      !.applied.export =
                         IF d.active.export # d.candidate.export \/ d.active.import # d.candidate.import
                         THEN d.candidate.export ELSE @]
    /\ UNCHANGED <<vars, file, clients, queue, budget>>

\* config_tx.send fails without a receiver; then *active = candidate.
Commit ==
    /\ d.pc = "commit"
    /\ IF "interfaces" \in d.services
       THEN /\ d' = [d EXCEPT !.pc = "record", !.active = d.candidate,
                              !.applied.interfaces = d.candidate.interfaces]
            /\ UNCHANGED clients
       ELSE Rejected(d, d.by)
    /\ UNCHANGED <<vars, file, queue, budget>>

\* The metadata, and the reply with the digest of the new configuration.
Record ==
    /\ d.pc = "record"
    /\ d' = [d EXCEPT !.pc = "waiting", !.by = None]
    /\ clients' = Answered(d.by, "committed", {d.active})
    /\ UNCHANGED <<vars, file, queue, budget>>

-----------------------------------------------------------------------------
(* The event loop *)

\* The result of the loop and the start of the cleanup, whose policy is that of
\* the active configuration.
Stopping(e, failed, response) ==
    [e EXCEPT !.pc = IF response = None THEN "tell" ELSE "flush", !.by = response,
              !.failed = failed, !.retain = failed \/ e.active.retain]

ServeHangup ==
    /\ d.pc = "waiting" /\ d.hangup
    /\ Reload([d EXCEPT !.hangup = FALSE], None)
    /\ UNCHANGED <<vars, file, queue, budget>>

ServeCommand ==
    /\ d.pc = "waiting" /\ queue # << >>
    /\ LET c == Head(queue)
       IN  IF clients[c].kind = "reload" THEN Reload(d, c)
           ELSE /\ clients' = Answered(c, "accepted", {})
                /\ d' = Stopping(d, FALSE, c)
    /\ queue' = Tail(queue)
    /\ UNCHANGED <<vars, file, budget>>

\* The router or a service has ended unasked.
TaskEnded ==
    /\ d.pc = "waiting"
    /\ \/ d.router = "failed" /\ d' = Stopping([d EXCEPT !.finished = TRUE], TRUE, None)
       \/ d.services # Services /\ d' = Stopping(d, TRUE, None)
    /\ UNCHANGED <<vars, file, clients, queue, budget>>

\* Mutant: the signal is one more event of the loop.
SignalledWaiting ==
    /\ d.pc = "waiting" /\ d.terminate
    /\ d' = Stopping(d, FALSE, None)
    /\ UNCHANGED <<vars, file, clients, queue, budget>>

\* The select around the loop: drops it, with a reload and its reply.
Signalled ==
    /\ d.pc \in Looping /\ d.terminate
    /\ d' = Stopping(d, FALSE, None)
    /\ clients' = Answered(d.by, "daemon_stopping", {})
    /\ UNCHANGED <<vars, file, queue, budget>>

-----------------------------------------------------------------------------
(* Cleanup, under one deadline *)

\* response_flushed resolves, is dropped, or a second has passed.
Flush ==
    /\ d.pc = "flush"
    /\ d' = [d EXCEPT !.pc = "tell", !.by = None]
    /\ UNCHANGED <<vars, file, clients, queue, budget>>

\* services_shutdown, and request_restart or shutdown of the handle.
Tell ==
    /\ d.pc = "tell"
    /\ d' = [d EXCEPT !.pc = IF d.finished THEN "fib" ELSE "router", !.told = TRUE,
                      !.router = IF @ = "up" THEN "asked" ELSE @]
    /\ UNCHANGED <<vars, file, clients, queue, budget>>

\* The router has ended: its error is the daemon's.
WaitRouter ==
    /\ d.pc = "router" /\ d.router \in {"failed", "done"}
    /\ d' = IF d.router = "done" THEN [d EXCEPT !.pc = "join"]
            ELSE [d EXCEPT !.pc = "fib", !.finished = TRUE, !.failed = TRUE]
    /\ UNCHANGED <<vars, file, clients, queue, budget>>

\* retain or shutdown of the exporter, for a router that could not.
ExportCleanup ==
    /\ d.pc = "fib"
    /\ \E ok \in BOOLEAN : d' = [d EXCEPT !.pc = "join", !.failed = @ \/ ~ok]
    /\ UNCHANGED <<vars, file, clients, queue, budget>>

\* Every service was joined: the end of run_daemon.
Finish(q) ==
    /\ d.pc = "join" /\ d.services = {}
    /\ Return(q, ~d.failed)
    /\ Vanish
    /\ UNCHANGED <<file, budget>>

\* The deadline passes in one of the waits: the tasks are aborted.
DeadlinePasses(q) ==
    /\ d.pc \in {"flush", "router", "fib", "join"}
    /\ Return(q, FALSE)
    /\ Vanish
    /\ UNCHANGED <<file, budget>>

Cleanup(q) ==
    \/ Flush \/ Tell \/ WaitRouter \/ ExportCleanup
    \/ Finish(q) \/ DeadlinePasses(q)

\* The last of the services has seen services_shutdown.
ServicesStop ==
    /\ d.told /\ d.services # {}
    /\ d' = [d EXCEPT !.services = {}]
    /\ UNCHANGED <<vars, file, clients, queue, budget>>

\* The shutdown branch of run_loop: the checkpoint, the exporter, the result;
\* or the router's own deadline.
RouterPersists(q) ==
    /\ d.router = "asked"
    /\ Persist(q)
    /\ UNCHANGED daemonVars

RouterReturns(q) ==
    /\ d.router = "asked"
    /\ \/ /\ proc[q].phase = "cleanup"
          /\ d' = [d EXCEPT !.router = IF proc[q].stored THEN "done" ELSE "failed"]
       \/ /\ proc[q].phase \in {"running", "waiting", "cleanup"}
          /\ d' = [d EXCEPT !.router = "failed"]
    /\ UNCHANGED <<vars, file, clients, queue, budget>>

RouterCheckpointed(q) ==
    /\ d.router = "asked"
    /\ Checkpointed(q)
    /\ UNCHANGED daemonVars

\* A crash, a start that fails or is stopped by a signal, or the end of a
\* process that has returned.
EndProcess(q) ==
    /\ End(q)
    /\ IF proc[q].phase = "returned" THEN UNCHANGED <<d, clients, queue>> ELSE Vanish
    /\ UNCHANGED <<file, budget>>

-----------------------------------------------------------------------------
DaemonNext ==
    \/ \E q \in Procs :
          \/ StartProcess(q) \/ StartLoop(q) \/ EndProcess(q)
          \/ /\ Load(q) \/ Consume(q) \/ ThreadRename(q) \/ ThreadEnd(q)
             /\ UNCHANGED daemonVars
          \/ d.router = "up" /\ proc[q].bumps < budget.bumps /\ Bump(q) /\ UNCHANGED daemonVars
          \/ RouterPersists(q) \/ RouterCheckpointed(q) \/ RouterReturns(q)
          \/ Cleanup(q)
    \/ Edit \/ Hangup \/ Terminate \/ RouterFails
    \/ \E s \in Services : ServiceFails(s)
    \/ ServicesStop
    \/ \E c \in Clients : Request(c) \/ Submit(c) \/ Respond(c) \/ Disconnect(c)
    \/ RecoveryInterfaces \/ SetShutdownTimeout \/ ReplaceOrigins \/ ReplaceRoutePolicy
    \/ UpdateExport \/ Commit \/ Record
    \/ ServeHangup \/ ServeCommand \/ TaskEnded \/ Signalled

\* The task runs: signals are polled, the loop takes what is ready at random,
\* and timers fire.  Nothing makes the router, the kernel or a client answer.
Fairness ==
    /\ WF_all(Signalled)
    /\ WF_all(\E q \in Procs : Cleanup(q))
    /\ SF_all(ServeCommand)
    /\ \A c \in Clients : SF_all(Submit(c))

DaemonSpec == DaemonInit /\ [][DaemonNext]_all /\ Fairness

-----------------------------------------------------------------------------
(* Properties *)

\* Between two events the router, the exporter and the interface manager all
\* have what the active configuration says, whatever was reloaded, rejected or
\* failed before; unless the task that a reload could not reach has ended,
\* which ends the daemon too (reload).
AppliedTogether ==
    d.pc = "waiting" /\ d.router = "up" /\ "interfaces" \in d.services =>
        d.applied = Applied(d.active)

\* A reload that is acknowledged has read the file after it was asked for: no
\* client is told of a configuration older than its request (ReloadResult).
ReloadFresh ==
    \A c \in Clients : clients[c].answer = "committed" => clients[c].digest \subseteq clients[c].seen

\* A SIGINT or SIGTERM ends the process, in whatever step of a reload it finds
\* it, and though neither the router nor the kernel ever answers ("a reload
\* waiting for a router/exporter operation cannot postpone a requested
\* shutdown", main.rs; Deadline).
StopsInTime == d.terminate ~> d.pc = "down"

Asking(c) == clients[c].at \in {"sending", "queued"}

\* Every request on the control socket is answered or its connection is closed,
\* also when the daemon stops instead, as long as no reload takes for ever.
RequestsAnswered ==
    []<>(d.pc \notin Reloading) => \A c \in Clients : Asking(c) ~> ~Asking(c)
=============================================================================
