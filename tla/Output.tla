------------------------------- MODULE Output -------------------------------
(***************************************************************************)
(* The output path of one interface (babel-router: output_queue.rs,        *)
(* output.rs and run_sender in router/io.rs).  The router task submits     *)
(* intents, each a batch of TLVs for one destination, and invalidates what *)
(* it has submitted when the route policy changes.  The sender task takes  *)
(* intents from a bounded channel, holds them back for a random delay,     *)
(* merges those for one destination, cuts them into datagrams and sends    *)
(* these one at a time.  The two tasks share the channel and the           *)
(* generation; an await of the sender is a place where the router runs.    *)
(***************************************************************************)
EXTENDS Naturals, Sequences, FiniteSets, SequencesExt, FiniteSetsExt

CONSTANTS
    Requests,           \* what may be submitted: [dest, tlvs, charge, late, delay, jitter]
    MaxSubmits,         \* bound on submissions
    MaxInvalidations,   \* bound on policy changes
    LastSubmit,         \* bound on the time of a submission
    Capacity,           \* OUTPUT_QUEUE_CAPACITY
    BudgetBytes,        \* OUTPUT_BUDGET_BYTES
    PayloadBudgets,     \* TLVs that fit a datagram; none fits when 0
    Instants            \* the readings of the clock, in milliseconds

ASSUME OutputAssumption ==
    /\ Instants \subseteq Nat /\ 0 \in Instants
    /\ \A r \in Requests : r.tlvs \in Nat \ {0} /\ r.charge \in Nat /\ r.jitter \in Nat

VARIABLES
    now,
    generation,     \* the generation of the route policy, a watch channel
    stop,           \* the interface is being detached
    intents,        \* every admitted intent, by its number
    channel,        \* the numbers of the queued intents
    sender,         \* the state of the sender task
    wire,           \* the datagram just put on the wire, and under which policy
    submitted,      \* submissions so far
    losses          \* what OutputStatus has counted: batches rejected or expired
                    \* and datagrams dropped

vars == <<now, generation, stop, intents, channel, sender, wire, submitted, losses>>

OUTPUT_EXPIRY_GRACE_MS == 1000
SEND_TIMEOUT_MS == 100
DEADLINE_MARGIN_MS == 5
DEFAULT_PACING_MS == 2

Earlier(a, b) == IF a < b THEN a ELSE b
Later(a, b) == IF a < b THEN b ELSE a
Monus(a, b) == IF a < b THEN 0 ELSE a - b

-----------------------------------------------------------------------------
(* The reservations *)

\* The intents whose memory is still charged: a reservation lives as long as
\* the last datagram cut from its batch.
Held ==
    Range(channel)
      \cup UNION {b.ids : b \in Range(sender.pending)}
      \cup UNION {d.ids : d \in Range(sender.ready)}
      \cup UNION {d.ids : d \in Range(sender.datagram)}

Charged(ids) == MapThenSumSet(LAMBDA i : intents[i].charge, ids)

-----------------------------------------------------------------------------
(* OutputScheduler *)

NewScheduler(s) == [s EXCEPT !.pending = << >>, !.ready = << >>, !.next_send = 0]

\* The sender compares its generation with the current one before it works.
Sync(s) ==
    IF s.generation = generation THEN s
    ELSE [NewScheduler(s) EXCEPT !.generation = generation]

\* The last delay that still meets the deadline; the release is drawn from
\* now to then.
LatestDelay(q) ==
    LET remaining == Monus(q.deadline, now)
    IN  Earlier(remaining - Earlier(DEADLINE_MARGIN_MS, remaining), q.jitter)

Releases(q) ==
    {r \in Instants \cup {now + LatestDelay(q)} : now <= r /\ r <= now + LatestDelay(q)}

Copies(i) == [n \in 1..intents[i].tlvs |-> i]

\* Intents for one destination share a batch, under the earlier times.
Merge(b, i, release) ==
    [b EXCEPT !.release = Earlier(@, release),
              !.deadline = Earlier(@, intents[i].deadline),
              !.expires = Earlier(@, intents[i].expires),
              !.ids = @ \cup {i},
              !.tlvs = @ \o Copies(i)]

Enqueue(s, i, release) ==
    LET q == intents[i]
        same == {n \in DOMAIN s.pending : s.pending[n].dest = q.dest}
    IN  [s EXCEPT !.pending =
           IF same # {}
             THEN [@ EXCEPT ![Min(same)] = Merge(@, i, release)]
             ELSE Append(@, [dest |-> q.dest, tlvs |-> Copies(i), release |-> release,
                             deadline |-> q.deadline, expires |-> q.expires, ids |-> {i}])]

Alive(x) == now < x.expires

Expire(s) ==
    [s EXCEPT !.pending = SelectSeq(@, Alive), !.ready = SelectSeq(@, Alive)]

ExpiredBatches(s) ==
    Cardinality(UNION {b.ids : b \in {x \in Range(s.pending) : ~Alive(x)}})

ExpiredDatagrams(s) == Len(s.ready) - Len(Expire(s).ready)

SendAt(s, d) == Earlier(s.next_send, d.deadline)

\* Mutant: the wake-up is computed from the batches held back only.
WakeDueForBatches(s) ==
    \E b \in Range(s.pending) : Earlier(b.release, b.deadline) <= now

\* next_wake_ms has come.
WakeDue(s) ==
    \/ \E b \in Range(s.pending) : Earlier(b.release, b.deadline) <= now
    \/ \E d \in Range(s.ready) : SendAt(s, d) <= now

Due(b) == now >= b.release \/ now >= b.deadline

NotDue(b) == ~Due(b)

\* A batch is cut into datagrams that fit the payload budget; they share its
\* reservations.
Datagrams(b, fit) ==
    [n \in 1..((Len(b.tlvs) + fit - 1) \div fit) |->
       [tlvs |-> SubSeq(b.tlvs, (n - 1) * fit + 1, Earlier(n * fit, Len(b.tlvs))),
        deadline |-> b.deadline, expires |-> b.expires, ids |-> b.ids]]

\* packetize_due, when every TLV fits.
PacketizeDue(s, fit) ==
    LET due == SelectSeq(s.pending, Due)
    IN  [s EXCEPT !.pending = SelectSeq(@, NotDue),
                  !.ready = @ \o FlattenSeq([n \in DOMAIN due |-> Datagrams(due[n], fit)])]

\* packetize_due, when the first batch that is due holds a TLV that does not.
DropFirstDue(s) ==
    LET first == Min({n \in DOMAIN s.pending : Due(s.pending[n])})
    IN  [s EXCEPT !.pending = RemoveAt(@, first)]

\* The ready datagram to send first: the earliest time, then the earliest
\* deadline, then the order of arrival.
NextReady(s) ==
    CHOOSE n \in DOMAIN s.ready :
        \A m \in DOMAIN s.ready \ {n} :
            LET a == SendAt(s, s.ready[n])  b == SendAt(s, s.ready[m])
                x == s.ready[n].deadline    y == s.ready[m].deadline
            IN  a < b \/ (a = b /\ (x < y \/ (x = y /\ n < m)))

\* pop_due after packetizing: take the next datagram if its time has come.
Pop(s) ==
    IF s.ready = << >> \/ SendAt(s, s.ready[NextReady(s)]) > now
      THEN [s EXCEPT !.pc = "idle"]
      ELSE [s EXCEPT !.pc = "popped",
                     !.datagram = <<s.ready[NextReady(s)]>>,
                     !.ready = RemoveAt(@, NextReady(s)),
                     !.next_send = now + DEFAULT_PACING_MS]

-----------------------------------------------------------------------------
(* The router task *)

Init ==
    /\ now = 0
    /\ generation = 0
    /\ stop = FALSE
    /\ intents = << >>
    /\ channel = << >>
    /\ sender = [pc |-> "top", generation |-> 0, pending |-> << >>, ready |-> << >>,
                 next_send |-> 0, datagram |-> << >>, until |-> 0]
    /\ wire = << >>
    /\ submitted = 0
    /\ losses = 0

\* Mutant: admission looks at the channel only.
AdmitsByCapacity(charge) == Len(channel) < Capacity /\ sender.pc # "done"

\* The semaphore has the charge and the channel has room and a receiver.
Admits(charge) ==
    /\ Charged(Held) + charge <= BudgetBytes
    /\ Len(channel) < Capacity
    /\ sender.pc # "done"

\* submit: admission never waits, and a late deadline still gets its grace.
\* The router has no queue of an interface it has detached.
Submit(r) ==
    /\ ~stop
    /\ submitted < MaxSubmits
    /\ submitted' = submitted + 1
    /\ now < LastSubmit
    /\ IF Admits(r.charge)
         THEN LET deadline == Monus(now, r.late) + r.delay
              IN  /\ intents' = Append(intents,
                       [dest |-> r.dest, tlvs |-> r.tlvs, charge |-> r.charge,
                        jitter |-> r.jitter, deadline |-> deadline,
                        expires |-> Later(deadline, now) + OUTPUT_EXPIRY_GRACE_MS,
                        generation |-> generation])
                  /\ channel' = Append(channel, Len(intents) + 1)
                  /\ UNCHANGED losses
         ELSE /\ losses' = losses + 1
              /\ UNCHANGED <<intents, channel>>
    /\ UNCHANGED <<now, generation, stop, sender, wire>>

Invalidate ==
    /\ ~stop
    /\ generation < MaxInvalidations
    /\ generation' = generation + 1
    /\ UNCHANGED <<now, stop, intents, channel, sender, wire, submitted, losses>>

Detach ==
    /\ ~stop
    /\ stop' = TRUE
    /\ UNCHANGED <<now, generation, intents, channel, sender, wire, submitted, losses>>

-----------------------------------------------------------------------------
(* The sender task *)

\* The task returns: its scheduler and the receiving end are dropped.
Return ==
    /\ stop
    /\ sender.pc # "done"
    /\ sender.pc # "popped"
    /\ sender' = [NewScheduler(sender) EXCEPT !.pc = "done", !.datagram = << >>]
    /\ channel' = << >>
    /\ UNCHANGED <<now, generation, stop, intents, wire, submitted, losses>>

CountExpired(s) == losses + ExpiredBatches(s) + ExpiredDatagrams(s)

\* The head of the loop up to its first await: renew the scheduler after an
\* invalidation, purge what has expired, and look for a datagram to send.
Top ==
    /\ sender.pc = "top"
    /\ ~stop
    /\ LET s1 == Sync(sender)
           s == Expire(s1)
           counted == CountExpired(s1)
       IN  \/ /\ ~WakeDue(s)
              /\ sender' = [s EXCEPT !.pc = "idle"]
              /\ losses' = counted
           \/ /\ WakeDue(s)
              /\ sender' = [s EXCEPT !.pc = "backoff", !.until = now + SEND_TIMEOUT_MS]
              /\ losses' = counted
           \/ /\ WakeDue(s)
              /\ \E fit \in PayloadBudgets \ {0} :
                    sender' = Pop(PacketizeDue(s, fit))
              /\ losses' = counted
           \/ /\ 0 \in PayloadBudgets
              /\ \E b \in Range(s.pending) : Due(b)
              /\ sender' = DropFirstDue(s)
              /\ losses' = counted + 1
    /\ wire' = << >>
    /\ UNCHANGED <<now, generation, stop, intents, channel, submitted>>

\* The payload budget of the interface could not be read: try again later.
Resume ==
    /\ sender.pc = "backoff"
    /\ generation # sender.generation \/ now >= sender.until
    /\ sender' = [sender EXCEPT !.pc = "top"]
    /\ UNCHANGED <<now, generation, stop, intents, channel, wire, submitted, losses>>

Again == [sender EXCEPT !.pc = "top", !.datagram = << >>]

\* The socket may take the send timeout, but not beyond the expiry.
SendUntil(d) == now + Earlier(SEND_TIMEOUT_MS, d.expires - now)

\* The popped datagram is looked at under a new reading of the clock.
StartSend ==
    /\ sender.pc = "popped"
    /\ LET d == sender.datagram[1]
       IN  IF now >= d.expires
             THEN /\ sender' = Again
                  /\ losses' = losses + 1
             ELSE /\ sender' = [sender EXCEPT !.pc = "sending", !.until = SendUntil(d)]
                  /\ UNCHANGED losses
    /\ UNCHANGED <<now, generation, stop, intents, channel, wire, submitted>>

\* Mutant: the generation is not looked at again before the socket is polled.
PollAllowedUnchecked == now < sender.until

\* with_generation: the socket is polled while the generation is held.
PollAllowed == sender.generation = generation /\ now < sender.until

\* The socket takes the datagram.
Transmit ==
    /\ sender.pc = "sending"
    /\ PollAllowed
    /\ wire' = <<[tlvs |-> sender.datagram[1].tlvs, at |-> now, generation |-> generation]>>
    /\ sender' = Again
    /\ UNCHANGED <<now, generation, stop, intents, channel, submitted, losses>>

\* The socket refuses it, or its Hello cannot be stamped.
SendFails ==
    /\ sender.pc = "sending"
    /\ PollAllowed
    /\ sender' = Again
    /\ losses' = losses + 1
    /\ UNCHANGED <<now, generation, stop, intents, channel, wire, submitted>>

\* The send is given up after an invalidation that the task was told of.
Cancel ==
    /\ sender.pc = "sending"
    /\ generation # sender.generation
    /\ sender' = Again
    /\ UNCHANGED <<now, generation, stop, intents, channel, wire, submitted, losses>>

\* The send deadline passed, or the poll found the generation changed.
TimeOut ==
    /\ sender.pc = "sending"
    /\ now >= sender.until \/ generation # sender.generation
    /\ sender' = Again
    /\ losses' = losses + 1
    /\ UNCHANGED <<now, generation, stop, intents, channel, wire, submitted>>

\* Mutant: the generation the task knows is not renewed on receipt.
SyncOnReceiptStale(s) == s

\* "Invalidation can race with receipt of fresh work."
SyncOnReceipt(s) == Sync(s)

\* An intent arrives from the channel.
Receive ==
    /\ sender.pc = "idle"
    /\ channel # << >>
    /\ LET i == Head(channel)
           s == [SyncOnReceipt(sender) EXCEPT !.pc = "top"]
       IN  CASE intents[i].generation # s.generation ->
                  sender' = s /\ UNCHANGED losses
             [] intents[i].generation = s.generation /\ now >= intents[i].expires ->
                  /\ sender' = s
                  /\ losses' = losses + 1
             [] OTHER ->
                  /\ \E release \in Releases(intents[i]) : sender' = Enqueue(s, i, release)
                  /\ UNCHANGED losses
    /\ channel' = Tail(channel)
    /\ UNCHANGED <<now, generation, stop, intents, wire, submitted>>

\* The next wake-up has come, or the generation changed.
Wake ==
    /\ sender.pc = "idle"
    /\ WakeDue(sender) \/ generation # sender.generation
    /\ sender' = [sender EXCEPT !.pc = "top"]
    /\ UNCHANGED <<now, generation, stop, intents, channel, wire, submitted, losses>>

Advance ==
    /\ \E t \in Instants : t > now
    /\ now' = Min({t \in Instants : t > now})
    /\ UNCHANGED <<generation, stop, intents, channel, sender, wire, submitted, losses>>

Next ==
    \/ \E r \in Requests : Submit(r)
    \/ Invalidate
    \/ Detach
    \/ Return
    \/ Top
    \/ Resume
    \/ StartSend
    \/ Transmit
    \/ SendFails
    \/ Cancel
    \/ TimeOut
    \/ Receive
    \/ Wake
    \/ Advance

\* The runtime polls a task whose await is ready, and the clock runs.  The
\* socket is never obliged to become ready.
Fairness ==
    /\ WF_vars(Return \/ Top \/ Resume \/ StartSend \/ Cancel \/ TimeOut \/ Receive \/ Wake)
    /\ WF_vars(Advance)

Spec == Init /\ [][Next]_vars /\ Fairness

-----------------------------------------------------------------------------
(* Properties *)

\* Whatever the races between admission, cutting, sending and expiry, the
\* memory charged to the interface stays within OUTPUT_BUDGET_BYTES and the
\* channel within its capacity.
BudgetRespected == Charged(Held) <= BudgetBytes /\ Len(channel) <= Capacity

\* A datagram leaves only under the policy all its TLVs were computed for,
\* however late the invalidation comes (with_generation), and none of them after
\* its expiry, also not in a batch it was merged into or on a socket that was
\* slow (enqueue, run_sender).
NeverSentStale ==
    \A d \in Range(wire) : \A i \in Range(d.tlvs) :
        intents[i].generation = d.generation /\ d.at < intents[i].expires

\* An intent of the current policy never disappears unaccounted: it is sent,
\* or one of the loss counters moves, or the interface is gone ("the next loop
\* cannot discard the new withdrawal").
FreshNeverDiscarded ==
    [][\A i \in Held \ Held' :
          \/ intents[i].generation # generation
          \/ wire' # wire
          \/ losses' # losses
          \/ sender'.pc = "done"]_vars

\* Every reservation is returned in the end, even if the socket is never
\* ready and the payload budget can never be read.
ReservationsReturn == \A i \in 1..MaxSubmits : i \in Held ~> i \notin Held
=============================================================================
