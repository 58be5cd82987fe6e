------------------------------ MODULE MCDaemon ------------------------------
(***************************************************************************)
(* Small instances of Daemon.                                              *)
(***************************************************************************)
EXTENDS Daemon

\* The numbers of one process cross the wrap.
OneRandom == {65534}

Base == [valid |-> TRUE, identity |-> 1, timeout |-> 1, origins |-> 1, export |-> 1,
         import |-> 1, announce |-> 1, interfaces |-> 1, retain |-> FALSE]

\* Only what may be announced, or only what is imported, has changed; what
\* cannot be read; what needs a restart.
Announcing == [Base EXCEPT !.announce = 2, !.origins = 2]

Importing == [Base EXCEPT !.import = 2, !.timeout = 2, !.interfaces = 2, !.retain = TRUE]

Broken == [Base EXCEPT !.valid = FALSE]

Moved == [Base EXCEPT !.identity = 2]

FiveConfigs == {Base, Announcing, Importing, Broken, Moved}

Nothing == [starts |-> 0, bumps |-> 0, hangups |-> 0, requests |-> 0, failures |-> 0,
            file |-> Base, edits |-> << >>]

\* Restarts; reloads by signal, some of which fail; reloads and stops that
\* clients ask for.
Scenarios ==
    {[Nothing EXCEPT !.starts = 3],
     [Nothing EXCEPT !.starts = 2, !.bumps = 1],
     [Nothing EXCEPT !.hangups = 2, !.failures = 1, !.edits = <<Announcing, Importing>>],
     [Nothing EXCEPT !.hangups = 1, !.edits = <<Moved>>],
     [Nothing EXCEPT !.requests = 2, !.edits = <<Announcing>>],
     [Nothing EXCEPT !.requests = 1, !.failures = 1, !.edits = <<Broken>>]}
=============================================================================
