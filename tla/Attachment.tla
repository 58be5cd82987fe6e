----------------------------- MODULE Attachment -----------------------------
(***************************************************************************)
(* Interfaces come and go under a running router.  The interface manager   *)
(* of the daemon (babel-rs: interfaces.rs) compares what the system and    *)
(* the configuration say with what it has attached, and sends commands to  *)
(* the router (babel-router: router/runtime.rs), whose receivers           *)
(* (router/io.rs, transport.rs) feed one bounded queue.                    *)
(***************************************************************************)
EXTENDS Naturals, FiniteSets, Sequences, SequencesExt

CONSTANTS
    Ifaces,         \* interface names
    Policies,       \* effective policies: [transport, mac, tuning]
    Addresses,      \* address lists of one family; NoAddress is the empty one
    NoAddress,
    Permits,        \* RECEIVED_PER_INTERFACE
    QueueLength,    \* of the channel of received items
    MaxChanges,     \* bound on changes of the system and the configuration
    MaxFailures     \* bound on receive errors

ASSUME AttachmentAssumption ==
    /\ NoAddress \in Addresses
    /\ Permits \in Nat \ {0} /\ QueueLength \in Nat \ {0} /\ MaxChanges \in Nat /\ MaxFailures \in Nat

VARIABLES
    os,         \* the interfaces of the system
    conf,       \* the configuration: a policy for each interface, or NoPolicy
    sockets,    \* of the router, with the policies it applies
    opened,     \* sockets opened so far: the next identity
    adjacent,   \* the sockets through which the engine has learned its neighbours
    received,   \* the queue of the receivers
    attached,   \* the map of the interface manager
    manager,    \* where it is in reconcile
    changes, failures

vars == <<os, conf, sockets, opened, adjacent, received, attached, manager, changes, failures>>

router == <<sockets, opened, adjacent, received>>

Transports == {"v6", "v4"}

NoPolicy == [transport |-> "none", mac |-> "none", tuning |-> "none"]

NoSocket == [id |-> 0]

Detached == [policy |-> NoPolicy]

\* An interface that does not exist has index 0.
Missing == [index |-> 0, up |-> FALSE, address |-> [t \in Transports |-> NoAddress]]

Idle == [pc |-> "idle", desired |-> conf, current |-> os, todo |-> {}]

Init ==
    /\ os \in [Ifaces -> {Missing} \cup
                 {[index |-> 1, up |-> TRUE, address |-> [t \in Transports |-> a]] : a \in Addresses}]
    /\ conf \in [Ifaces -> Policies \cup {NoPolicy}]
    /\ sockets = [i \in Ifaces |-> NoSocket]
    /\ opened = 0
    /\ adjacent = [i \in Ifaces |-> {}]
    /\ received = <<>>
    /\ attached = [i \in Ifaces |-> Detached]
    /\ manager = Idle
    /\ changes = 0
    /\ failures = 0

-----------------------------------------------------------------------------
(* The system and the configuration *)

\* A link is deleted, made (with an index of its own), set up or down, or
\* renumbered.
SystemChanges ==
    /\ changes < MaxChanges
    /\ changes' = changes + 1
    /\ \E i \in Ifaces :
          \/ /\ os[i] # Missing
             /\ os' = [os EXCEPT ![i] = Missing]
          \/ /\ os[i] = Missing
             /\ \E a \in [Transports -> Addresses] :
                   os' = [os EXCEPT ![i] = [index |-> changes + 2, up |-> TRUE, address |-> a]]
          \/ /\ os[i] # Missing
             /\ os' = [os EXCEPT ![i].up = ~@]
          \/ /\ os[i] # Missing
             /\ \E t \in Transports : \E a \in Addresses \ {os[i].address[t]} :
                   os' = [os EXCEPT ![i].address[t] = a]
    /\ UNCHANGED <<conf, router, attached, manager, failures>>

\* A reload publishes another configuration.
ConfigChanges ==
    /\ changes < MaxChanges
    /\ changes' = changes + 1
    /\ \E i \in Ifaces : \E p \in (Policies \cup {NoPolicy}) \ {conf[i]} : conf' = [conf EXCEPT ![i] = p]
    /\ UNCHANGED <<os, router, attached, manager, failures>>

-----------------------------------------------------------------------------
(* The router *)

HasAddress(signature, policy) ==
    policy # NoPolicy /\ signature.address[policy.transport] # NoAddress

\* open_authenticated succeeds.
Opens(i, policy) == os[i] # Missing /\ HasAddress(os[i], policy)

\* AddInterface: nothing is done for one that is attached already.
AddInterface(i, policy) ==
    IF sockets[i] # NoSocket \/ ~Opens(i, policy)
    THEN UNCHANGED router
    ELSE /\ opened' = opened + 1
         /\ sockets' = [sockets EXCEPT ![i] =
                          [id |-> opened + 1, index |-> os[i].index, policy |-> policy,
                           addresses |-> os[i].address, receiving |-> TRUE]]
         /\ UNCHANGED <<adjacent, received>>

\* UpdateInterfacePolicy: the transport of a socket cannot be changed.
UpdatesPolicy(i, policy) ==
    sockets[i] # NoSocket /\ sockets[i].policy.transport = policy.transport

UpdateInterfacePolicy(i, policy) ==
    IF UpdatesPolicy(i, policy)
    THEN sockets' = [sockets EXCEPT ![i].policy = policy] /\ UNCHANGED <<opened, adjacent, received>>
    ELSE UNCHANGED router

\* RemoveInterface, and the end of a failed socket: its workers are aborted,
\* and the engine forgets the neighbours of the interface.
Detach(i) ==
    /\ sockets' = [sockets EXCEPT ![i] = NoSocket]
    /\ adjacent' = [adjacent EXCEPT ![i] = {}]
    /\ UNCHANGED opened

\* The items of one socket in the queue, each with a permit of its receiver.
Queued(id) == Cardinality({n \in DOMAIN received : received[n].id = id /\ received[n].kind = "packet"})

\* The receiver of an interface has a permit, and the queue has room.
MaySend(i) ==
    /\ sockets[i] # NoSocket /\ sockets[i].receiving
    /\ Len(received) < QueueLength
    /\ Queued(sockets[i].id) < Permits

Item(kind, i) == [kind |-> kind, iface |-> i, id |-> sockets[i].id]

\* spawn_receiver, a datagram that is accepted
ReceivePacket(i) ==
    /\ MaySend(i)
    /\ received' = Append(received, Item("packet", i))
    /\ UNCHANGED <<os, conf, sockets, opened, adjacent, attached, manager, changes, failures>>

\* spawn_receiver, an error: the receiver reports it and ends.
ReceiveFails(i) ==
    /\ MaySend(i)
    /\ failures < MaxFailures
    /\ failures' = failures + 1
    /\ received' = Append(received, Item("failed", i))
    /\ sockets' = [sockets EXCEPT ![i].receiving = FALSE]
    /\ UNCHANGED <<os, conf, opened, adjacent, attached, manager, changes>>

\* Mutant: an interface of that name is enough.
IsCurrentNamed(item) == sockets[item.iface] # NoSocket

\* Arc::ptr_eq: the item came from the socket that is attached now.
IsCurrent(item) == sockets[item.iface] # NoSocket /\ sockets[item.iface].id = item.id

FailureCurrent(item) == IsCurrent(item)

\* The branch of run_loop for received items.
HandleReceived ==
    /\ received # <<>>
    /\ received' = Tail(received)
    /\ LET item == Head(received)
       IN  \/ /\ item.kind = "packet" /\ IsCurrent(item)
              /\ adjacent' = [adjacent EXCEPT ![item.iface] = @ \cup {item.id}]
              /\ UNCHANGED <<sockets, opened>>
           \/ /\ item.kind = "failed" /\ FailureCurrent(item)
              /\ Detach(item.iface)
           \/ /\ IF item.kind = "packet" THEN ~IsCurrent(item) ELSE ~FailureCurrent(item)
              /\ UNCHANGED <<sockets, opened, adjacent>>
    /\ UNCHANGED <<os, conf, attached, manager, changes, failures>>

\* The address scan of the ticker.
ScanAddresses(i) ==
    /\ sockets[i] # NoSocket
    /\ sockets[i].addresses # os[i].address
    /\ sockets' = [sockets EXCEPT ![i].addresses = os[i].address]
    /\ UNCHANGED <<os, conf, opened, adjacent, received, attached, manager, changes, failures>>

-----------------------------------------------------------------------------
(* reconcile *)

Desired(i) == manager.desired[i]

Current(i) == manager.current[i]

IsAttached(a, i) == a[i] # Detached

\* An attached interface that must be opened again, or not at all.
Stale(a, i) ==
    /\ IsAttached(a, i)
    /\ \/ Desired(i) = NoPolicy
       \/ Desired(i).transport # a[i].policy.transport
       \/ Desired(i).mac # a[i].policy.mac
       \/ Current(i) = Missing
       \/ Current(i).index # a[i].signature.index
       \/ Current(i).up # a[i].signature.up
       \/ Current(i).address[a[i].policy.transport] # a[i].signature.address[a[i].policy.transport]

\* run wakes up: an event, a new configuration, or the two seconds.
Wake ==
    /\ manager.pc = "idle"
    /\ manager' = [manager EXCEPT !.pc = "scan", !.desired = conf]
    /\ UNCHANGED <<os, conf, router, attached, changes, failures>>

\* snapshot_interfaces
Snapshot ==
    /\ manager.pc = "scan"
    /\ manager' = [manager EXCEPT !.pc = "status", !.current = os]
    /\ UNCHANGED <<os, conf, router, attached, changes, failures>>

\* Mutant: what the router has detached by itself is still believed attached.
StillActiveAll == attached

\* attached.retain
StillActive == [i \in Ifaces |-> IF sockets[i] = NoSocket THEN Detached ELSE attached[i]]

\* The reply to Status.
StatusReply ==
    /\ manager.pc = "status"
    /\ attached' = StillActive
    /\ manager' = [manager EXCEPT !.pc = "remove", !.todo = {i \in Ifaces : Stale(StillActive, i)}]
    /\ UNCHANGED <<os, conf, router, changes, failures>>

\* remove_interface; "not found" is as good.
RemoveStale ==
    /\ manager.pc = "remove"
    /\ \E i \in manager.todo :
          /\ IF sockets[i] = NoSocket THEN UNCHANGED router ELSE Detach(i) /\ UNCHANGED received
          /\ attached' = [attached EXCEPT ![i] = Detached]
          /\ manager' = [manager EXCEPT !.todo = @ \ {i}]
    /\ UNCHANGED <<os, conf, changes, failures>>

\* The interfaces whose policy has changed.
Removed ==
    /\ manager.pc = "remove" /\ manager.todo = {}
    /\ manager' = [manager EXCEPT !.pc = "update",
                     !.todo = {i \in Ifaces : IsAttached(attached, i) /\ Desired(i) # attached[i].policy}]
    /\ UNCHANGED <<os, conf, router, attached, changes, failures>>

\* Mutant: the new policy is not noted.
UpdatedUnnoted(i) == attached

\* The manager notes a policy that the router has taken.
Updated(i) ==
    IF UpdatesPolicy(i, Desired(i)) THEN [attached EXCEPT ![i].policy = Desired(i)] ELSE attached

UpdatePolicy ==
    /\ manager.pc = "update"
    /\ \E i \in manager.todo :
          /\ UpdateInterfacePolicy(i, Desired(i))
          /\ attached' = Updated(i)
          /\ manager' = [manager EXCEPT !.todo = @ \ {i}]
    /\ UNCHANGED <<os, conf, changes, failures>>

\* The interfaces that are ready and not attached.
PoliciesUpdated ==
    /\ manager.pc = "update" /\ manager.todo = {}
    /\ manager' = [manager EXCEPT !.pc = "add",
                     !.todo = {i \in Ifaces : /\ ~IsAttached(attached, i)
                                              /\ Current(i).up
                                              /\ HasAddress(Current(i), Desired(i))}]
    /\ UNCHANGED <<os, conf, router, attached, changes, failures>>

\* add_interface_with_mac; one that does not open is tried again later.
AddMissing ==
    /\ manager.pc = "add"
    /\ \E i \in manager.todo :
          /\ AddInterface(i, Desired(i))
          /\ attached' = IF sockets[i] # NoSocket \/ Opens(i, Desired(i))
                         THEN [attached EXCEPT ![i] = [policy |-> Desired(i), signature |-> Current(i)]]
                         ELSE attached
          /\ manager' = [manager EXCEPT !.todo = @ \ {i}]
    /\ UNCHANGED <<os, conf, changes, failures>>

Reconciled ==
    /\ manager.pc = "add" /\ manager.todo = {}
    /\ manager' = [manager EXCEPT !.pc = "idle"]
    /\ UNCHANGED <<os, conf, router, attached, changes, failures>>

Manage ==
    \/ Wake
    \/ Snapshot
    \/ StatusReply
    \/ RemoveStale
    \/ Removed
    \/ UpdatePolicy
    \/ PoliciesUpdated
    \/ AddMissing
    \/ Reconciled

Next ==
    \/ SystemChanges
    \/ ConfigChanges
    \/ \E i \in Ifaces : ReceivePacket(i) \/ ReceiveFails(i) \/ ScanAddresses(i)
    \/ HandleReceived
    \/ Manage

\* The loop of the router serves its queue, its ticker and the manager, which
\* wakes at least every two seconds.
Fairness ==
    /\ WF_vars(HandleReceived)
    /\ WF_vars(Manage)
    /\ \A i \in Ifaces : WF_vars(ScanAddresses(i))

Spec == Init /\ [][Next]_vars /\ Fairness

-----------------------------------------------------------------------------
(* Properties *)

\* What an earlier socket left in the queue does not touch the one attached now:
\* every neighbour the engine knows on an interface was heard through its present
\* socket, and none on a detached one (run_loop: Arc::ptr_eq); and serving the
\* queue detaches only a socket whose own receiver has failed (is_current).
QueueServesOwn ==
    /\ [](\A i \in Ifaces :
            adjacent[i] \subseteq IF sockets[i] = NoSocket THEN {} ELSE {sockets[i].id})
    /\ [][received' # received =>
            \A i \in Ifaces :
               sockets[i] # NoSocket /\ sockets'[i] = NoSocket => ~sockets[i].receiving]_vars

\* What the manager believes of an interface the router has open is what the
\* router applies to it, at every step of a reconciliation that failures,
\* changes and commands interleave with (reconcile).
BeliefTrue ==
    \A i \in Ifaces :
        sockets[i] # NoSocket => IsAttached(attached, i) /\ attached[i].policy = sockets[i].policy

Ready(i) == os[i].up /\ HasAddress(os[i], conf[i])

AsConfigured(i) ==
    IF Ready(i)
    THEN /\ sockets[i] # NoSocket
         /\ sockets[i].index = os[i].index /\ sockets[i].policy = conf[i]
         /\ sockets[i].addresses = os[i].address
         /\ sockets[i].receiving
    ELSE sockets[i] = NoSocket

\* Once the system and the configuration rest and no receiver fails any more,
\* the router ends up with exactly the configured interfaces that are ready,
\* each open on the link there is now, under its present policy, and receiving
\* (run: events, changes and the interval of two seconds).
Settles == <>[](\A i \in Ifaces : AsConfigured(i))
=============================================================================
