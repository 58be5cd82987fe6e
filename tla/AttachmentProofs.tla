-------------------------- MODULE AttachmentProofs --------------------------
(***************************************************************************)
(* Proofs about Attachment: what the interface manager believes of the     *)
(* router is true, and the queue of the receivers serves only the sockets  *)
(* that are open.                                                          *)
(***************************************************************************)
EXTENDS Attachment, TLAPS

Wishes == Policies \cup {NoPolicy}

Socket ==
    [id : Nat \ {0}, index : Nat, policy : Wishes, addresses : [Transports -> Addresses],
     receiving : BOOLEAN]

Link == [index : Nat, up : BOOLEAN, address : [Transports -> Addresses]]

Held == [policy : Wishes, signature : Link]

Items == [kind : {"packet", "failed"}, iface : Ifaces, id : Nat]

Stages == {"idle", "scan", "status", "remove", "update", "add"}

Managers ==
    [pc : Stages, desired : [Ifaces -> Wishes], current : [Ifaces -> Link], todo : SUBSET Ifaces]

Typed ==
    /\ os \in [Ifaces -> Link]
    /\ conf \in [Ifaces -> Wishes]
    /\ sockets \in [Ifaces -> {NoSocket} \cup Socket]
    /\ opened \in Nat
    /\ adjacent \in [Ifaces -> SUBSET Nat]
    /\ received \in Seq(Items)
    /\ attached \in [Ifaces -> {Detached} \cup Held]
    /\ manager \in Managers
    /\ changes \in Nat

\* What is to be added is not attached yet: only the manager attaches.
Adding == manager.pc = "add" => \A i \in manager.todo : attached[i] = Detached

\* A socket has the number it was opened with, and so has what it received.
Numbered ==
    /\ \A i \in Ifaces : sockets[i] # NoSocket => sockets[i].id <= opened
    /\ \A n \in DOMAIN received : received[n].id <= opened

\* The receiver of a socket has ended when its failure is in the queue.
Reported ==
    \A n \in DOMAIN received :
        received[n].kind = "failed" /\ IsCurrent(received[n])
            => ~ sockets[received[n].iface].receiving

\* The neighbours known on an interface were heard through its socket.
Heard ==
    \A i \in Ifaces :
        adjacent[i] \subseteq IF sockets[i] = NoSocket THEN {} ELSE {sockets[i].id}

IInv == Typed /\ BeliefTrue /\ Adding /\ Numbered /\ Reported /\ Heard

-----------------------------------------------------------------------------
(* Initially *)

LEMMA MissingTyped == Missing \in Link
  BY AttachmentAssumption DEF Missing, Link, Transports

LEMMA InitIInv == Init => IInv
<1> SUFFICES ASSUME Init PROVE IInv
  OBVIOUS
<1>0. \A a \in Addresses :
         [index |-> 1, up |-> TRUE, address |-> [t \in Transports |-> a]] \in Link
  BY DEF Link
<1>1. os \in [Ifaces -> Link]
  <2> DEFINE links == {Missing} \cup
                 {[index |-> 1, up |-> TRUE, address |-> [t \in Transports |-> a]] : a \in Addresses}
  <2>1. links \subseteq Link
    BY <1>0, MissingTyped
  <2>2. os \in [Ifaces -> links]
    BY DEF Init
  <2> HIDE DEF links
  <2> QED
    BY <2>1, <2>2
<1>2. conf \in [Ifaces -> Wishes]
  BY DEF Init, Wishes
<1>3. manager \in Managers /\ manager.pc = "idle"
  BY <1>1, <1>2 DEF Init, Idle, Managers, Stages
<1>4. Typed
  BY <1>1, <1>2, <1>3 DEF Init, Typed
<1>5. \A i \in Ifaces : sockets[i] = NoSocket /\ adjacent[i] = {}
  BY DEF Init
<1>6. received = << >>
  BY DEF Init
<1> QED
  BY <1>3, <1>4, <1>5, <1>6 DEF IInv, BeliefTrue, Adding, Numbered, Reported, Heard

-----------------------------------------------------------------------------
(* The system and the receivers *)

LEMMA SystemChangesIInv == ASSUME IInv, SystemChanges PROVE IInv'
<1>1. os' \in [Ifaces -> Link] /\ changes' \in Nat
  <2>0. os \in [Ifaces -> Link] /\ changes \in Nat
    BY DEF IInv, Typed
  <2> PICK i \in Ifaces :
          \/ os' = [os EXCEPT ![i] = Missing]
          \/ \E a \in [Transports -> Addresses] :
                os' = [os EXCEPT ![i] = [index |-> changes + 2, up |-> TRUE, address |-> a]]
          \/ os' = [os EXCEPT ![i].up = ~@]
          \/ \E t \in Transports : \E a \in Addresses : os' = [os EXCEPT ![i].address[t] = a]
    BY DEF SystemChanges
  <2>1. CASE os' = [os EXCEPT ![i] = Missing]
    BY <2>0, <2>1, MissingTyped DEF SystemChanges
  <2>2. CASE \E a \in [Transports -> Addresses] :
                os' = [os EXCEPT ![i] = [index |-> changes + 2, up |-> TRUE, address |-> a]]
    BY <2>0, <2>2 DEF SystemChanges, Link
  <2>3. CASE os' = [os EXCEPT ![i].up = ~@]
    <3>1. [os[i] EXCEPT !.up = ~ os[i].up] \in Link
      BY <2>0 DEF Link
    <3> QED
      BY <2>0, <2>3, <3>1 DEF SystemChanges
  <2>4. CASE \E t \in Transports : \E a \in Addresses : os' = [os EXCEPT ![i].address[t] = a]
    <3> PICK t \in Transports, a \in Addresses : os' = [os EXCEPT ![i].address[t] = a]
      BY <2>4
    <3>1. [os[i].address EXCEPT ![t] = a] \in [Transports -> Addresses]
      BY <2>0 DEF Link
    <3>2. [os[i] EXCEPT !.address = [os[i].address EXCEPT ![t] = a]] \in Link
      BY <2>0, <3>1 DEF Link
    <3> QED
      BY <2>0, <3>2 DEF SystemChanges
  <2> QED
    BY <2>1, <2>2, <2>3, <2>4
<1> QED
  BY <1>1 DEF IInv, Typed, BeliefTrue, Adding, Numbered, Reported, Heard, SystemChanges, router,
              IsCurrent, IsAttached

LEMMA ConfigChangesIInv == ASSUME IInv, ConfigChanges PROVE IInv'
<1>1. conf' \in [Ifaces -> Wishes] /\ changes' \in Nat
  BY DEF IInv, Typed, ConfigChanges, Wishes
<1> QED
  BY <1>1 DEF IInv, Typed, BeliefTrue, Adding, Numbered, Reported, Heard, ConfigChanges, router,
              IsCurrent, IsAttached

\* The items of a queue.
LEMMA ItemTyped ==
    ASSUME NEW q \in Seq(Items), NEW n \in DOMAIN q
    PROVE  /\ q[n] \in Items /\ q[n].iface \in Ifaces /\ q[n].id \in Nat
           /\ q[n].kind \in {"packet", "failed"}
<1>1. q[n] \in Items
  OBVIOUS
<1> QED
  BY <1>1 DEF Items

\* A new item is of the present socket of its interface.
LEMMA AppendedItem ==
    ASSUME IInv, NEW i \in Ifaces, NEW kind \in {"packet", "failed"}, sockets[i] # NoSocket,
           received' = Append(received, Item(kind, i)), opened' = opened
    PROVE  /\ received' \in Seq(Items)
           /\ \A n \in DOMAIN received' :
                 \/ n \in DOMAIN received /\ received'[n] = received[n]
                 \/ received'[n] = Item(kind, i)
           /\ Item(kind, i) \in Items /\ Item(kind, i).id <= opened
<1>1. Item(kind, i) \in Items /\ Item(kind, i).id <= opened
  BY DEF IInv, Typed, Item, Items, Socket, Numbered
<1>2. received \in Seq(Items)
  BY DEF IInv, Typed
<1> HIDE DEF Item
<1> QED
  BY <1>1, <1>2

LEMMA ReceivePacketIInv == ASSUME IInv, NEW i \in Ifaces, ReceivePacket(i) PROVE IInv'
<1>1. /\ sockets[i] # NoSocket /\ received' = Append(received, Item("packet", i))
      /\ UNCHANGED <<os, conf, sockets, opened, adjacent, attached, manager, changes>>
  BY DEF ReceivePacket, MaySend
<1>2. /\ received' \in Seq(Items)
      /\ \A n \in DOMAIN received' :
            \/ n \in DOMAIN received /\ received'[n] = received[n]
            \/ received'[n] = Item("packet", i)
      /\ Item("packet", i).id <= opened
  BY <1>1, AppendedItem
<1>3. Item("packet", i).kind # "failed"
  BY DEF Item
<1>4. Numbered' /\ Reported'
  BY <1>1, <1>2, <1>3 DEF IInv, Numbered, Reported, IsCurrent
<1> QED
  BY <1>1, <1>2, <1>4 DEF IInv, Typed, BeliefTrue, Adding, Heard, IsAttached
\* A receiver that fails ends with its report.
LEMMA ReceiveFailsIInv == ASSUME IInv, NEW i \in Ifaces, ReceiveFails(i) PROVE IInv'
<1> DEFINE s == [sockets[i] EXCEPT !.receiving = FALSE]
<1>1. /\ sockets[i] # NoSocket /\ received' = Append(received, Item("failed", i))
      /\ sockets' = [sockets EXCEPT ![i] = s]
      /\ UNCHANGED <<os, conf, opened, adjacent, attached, manager, changes>>
  BY DEF ReceiveFails, MaySend
<1>2. /\ received' \in Seq(Items)
      /\ \A n \in DOMAIN received' :
            \/ n \in DOMAIN received /\ received'[n] = received[n]
            \/ received'[n] = Item("failed", i)
      /\ Item("failed", i).id <= opened
  BY <1>1, AppendedItem
<1>3. sockets \in [Ifaces -> {NoSocket} \cup Socket] /\ sockets[i] \in Socket
  BY <1>1 DEF IInv, Typed
<1>4. /\ s \in Socket /\ s.id = sockets[i].id /\ s.policy = sockets[i].policy /\ ~ s.receiving
      /\ s # NoSocket
  BY <1>3 DEF Socket, NoSocket
<1> HIDE DEF s
<1>5. \A j \in Ifaces : sockets'[j] = IF j = i THEN s ELSE sockets[j]
  BY <1>1, <1>3
<1>6. Typed'
  BY <1>1, <1>2, <1>3, <1>4 DEF IInv, Typed
<1>7. BeliefTrue' /\ Heard' /\ Adding'
  BY <1>1, <1>4, <1>5 DEF IInv, BeliefTrue, Heard, Adding, IsAttached
<1>8. Numbered'
  BY <1>1, <1>2, <1>4, <1>5 DEF IInv, Numbered
<1>9. Reported'
  <2> SUFFICES ASSUME NEW n \in DOMAIN received', received'[n].kind = "failed",
                      sockets'[received'[n].iface] # NoSocket,
                      sockets'[received'[n].iface].id = received'[n].id
               PROVE  ~ sockets'[received'[n].iface].receiving
    BY DEF Reported, IsCurrent
  <2>1. received'[n].iface \in Ifaces
    BY <1>2, ItemTyped
  <2>2. CASE received'[n].iface = i
    BY <1>4, <1>5, <2>1, <2>2
  <2>3. CASE received'[n].iface # i
    <3>1. n \in DOMAIN received /\ received'[n] = received[n]
      BY <1>2, <2>3 DEF Item
    <3>2. sockets'[received[n].iface] = sockets[received[n].iface]
      BY <1>5, <2>1, <2>3, <3>1
    <3> QED
      BY <3>1, <3>2 DEF IInv, Reported, IsCurrent
  <2> QED
    BY <2>2, <2>3
<1> QED
  BY <1>6, <1>7, <1>8, <1>9 DEF IInv

LEMMA ScanAddressesIInv == ASSUME IInv, NEW i \in Ifaces, ScanAddresses(i) PROVE IInv'
<1> DEFINE s == [sockets[i] EXCEPT !.addresses = os[i].address]
<1>1. /\ sockets[i] # NoSocket /\ sockets' = [sockets EXCEPT ![i] = s]
      /\ UNCHANGED <<os, conf, opened, adjacent, received, attached, manager, changes>>
  BY DEF ScanAddresses
<1>2. /\ sockets \in [Ifaces -> {NoSocket} \cup Socket] /\ sockets[i] \in Socket
      /\ os[i].address \in [Transports -> Addresses]
  BY <1>1 DEF IInv, Typed, Link
<1>3. /\ s \in Socket /\ s.id = sockets[i].id /\ s.policy = sockets[i].policy
      /\ s.receiving = sockets[i].receiving /\ s # NoSocket
  BY <1>2 DEF Socket, NoSocket
<1> HIDE DEF s
<1>4. \A j \in Ifaces : sockets'[j] = IF j = i THEN s ELSE sockets[j]
  BY <1>1, <1>2
<1>5. Typed'
  BY <1>1, <1>2, <1>3 DEF IInv, Typed
<1>6. BeliefTrue' /\ Heard' /\ Adding' /\ Numbered'
  BY <1>1, <1>3, <1>4 DEF IInv, BeliefTrue, Heard, Adding, IsAttached, Numbered
<1>7. \A n \in DOMAIN received : received[n].iface \in Ifaces
  BY ItemTyped DEF IInv, Typed
<1>8. Reported'
  BY <1>1, <1>3, <1>4, <1>7 DEF IInv, Reported, IsCurrent
<1> QED
  BY <1>5, <1>6, <1>8 DEF IInv

-----------------------------------------------------------------------------
(* The loop of the router *)

\* A detached interface has no socket and no neighbours.
LEMMA DetachKeeps ==
    ASSUME IInv, NEW i \in Ifaces, Detach(i)
    PROVE  /\ sockets' \in [Ifaces -> {NoSocket} \cup Socket]
           /\ adjacent' \in [Ifaces -> SUBSET Nat] /\ opened' = opened
           /\ \A j \in Ifaces : sockets'[j] = IF j = i THEN NoSocket ELSE sockets[j]
           /\ Heard'
<1>1. /\ sockets \in [Ifaces -> {NoSocket} \cup Socket]
      /\ adjacent \in [Ifaces -> SUBSET Nat]
  BY DEF IInv, Typed
<1>2. /\ \A j \in Ifaces : sockets'[j] = IF j = i THEN NoSocket ELSE sockets[j]
      /\ \A j \in Ifaces : adjacent'[j] = IF j = i THEN {} ELSE adjacent[j]
      /\ sockets' \in [Ifaces -> {NoSocket} \cup Socket]
      /\ adjacent' \in [Ifaces -> SUBSET Nat] /\ opened' = opened
  BY <1>1 DEF Detach
<1> QED
  BY <1>2 DEF IInv, Heard
\* What stays true when a socket goes: it is about sockets that are there.
LEMMA FewerSockets ==
    ASSUME IInv, NEW i \in Ifaces,
           \A j \in Ifaces : sockets'[j] = IF j = i THEN NoSocket ELSE sockets[j],
           opened' = opened, received' \in Seq(Items),
           \A n \in DOMAIN received' : \E m \in DOMAIN received : received'[n] = received[m]
    PROVE  Numbered' /\ Reported'
<1>1. \A n \in DOMAIN received' : received'[n].iface \in Ifaces
  BY ItemTyped
<1>2. Numbered'
  BY DEF IInv, Numbered
<1> QED
  BY <1>1, <1>2 DEF IInv, Reported, IsCurrent

LEMMA HandleReceivedIInv == ASSUME IInv, HandleReceived PROVE IInv'
<1> DEFINE item == Head(received)
<1>1. /\ received \in Seq(Items) /\ received # << >> /\ received' = Tail(received)
      /\ UNCHANGED <<os, conf, attached, manager, changes>>
  BY DEF IInv, Typed, HandleReceived
<1>2. /\ 1 \in DOMAIN received /\ item = received[1]
      /\ received' \in Seq(Items)
      /\ \A n \in DOMAIN received' : \E m \in DOMAIN received : received'[n] = received[m]
  <2>1. Len(received) \in Nat /\ Len(received) >= 1 /\ DOMAIN received = 1..Len(received)
    BY <1>1
  <2>2. received' \in Seq(Items) /\ Len(received') = Len(received) - 1
    BY <1>1
  <2>3. \A n \in DOMAIN received' : n + 1 \in DOMAIN received /\ received'[n] = received[n + 1]
    BY <1>1, <2>1, <2>2
  <2> QED
    BY <1>1, <2>1, <2>2, <2>3
<1>3. item.iface \in Ifaces /\ item.id \in Nat
  BY <1>1, <1>2, ItemTyped
<1>4. \/ /\ IsCurrent(item) /\ adjacent' = [adjacent EXCEPT ![item.iface] = @ \cup {item.id}]
         /\ UNCHANGED <<sockets, opened>>
      \/ Detach(item.iface)
      \/ UNCHANGED <<sockets, opened, adjacent>>
  BY DEF HandleReceived
<1> HIDE DEF item
<1>5. CASE /\ IsCurrent(item) /\ adjacent' = [adjacent EXCEPT ![item.iface] = @ \cup {item.id}]
           /\ UNCHANGED <<sockets, opened>>
  <2>1. adjacent \in [Ifaces -> SUBSET Nat]
    BY DEF IInv, Typed
  <2>2. /\ adjacent' \in [Ifaces -> SUBSET Nat]
        /\ \A j \in Ifaces :
              adjacent'[j] = IF j = item.iface THEN adjacent[j] \cup {item.id} ELSE adjacent[j]
    BY <1>3, <1>5, <2>1
  <2>3. sockets[item.iface] # NoSocket /\ sockets[item.iface].id = item.id
    BY <1>5 DEF IsCurrent
  <2>4. Heard'
    BY <1>3, <1>5, <2>2, <2>3 DEF IInv, Heard
  <2>5. Numbered' /\ Reported'
    BY <1>2, <1>5 DEF IInv, Numbered, Reported, IsCurrent
  <2>6. Typed'
    BY <1>1, <1>2, <1>5, <2>2 DEF IInv, Typed
  <2>7. BeliefTrue' /\ Adding'
    BY <1>1, <1>5 DEF IInv, BeliefTrue, Adding, IsAttached
  <2> QED
    BY <2>4, <2>5, <2>6, <2>7 DEF IInv
<1>6. CASE Detach(item.iface)
  <2>1. /\ sockets' \in [Ifaces -> {NoSocket} \cup Socket]
        /\ adjacent' \in [Ifaces -> SUBSET Nat] /\ opened' = opened
        /\ \A j \in Ifaces : sockets'[j] = IF j = item.iface THEN NoSocket ELSE sockets[j]
        /\ Heard'
    BY <1>3, <1>6, DetachKeeps
  <2>2. Numbered' /\ Reported'
    BY <1>2, <1>3, <2>1, FewerSockets
  <2>3. Typed'
    BY <1>1, <1>2, <2>1 DEF IInv, Typed
  <2>4. BeliefTrue' /\ Adding'
    BY <1>1, <2>1 DEF IInv, BeliefTrue, Adding, IsAttached
  <2> QED
    BY <2>1, <2>2, <2>3, <2>4 DEF IInv
<1>7. CASE UNCHANGED <<sockets, opened, adjacent>>
  <2>1. Numbered' /\ Reported'
    BY <1>2, <1>7 DEF IInv, Numbered, Reported, IsCurrent
  <2>2. Typed'
    BY <1>1, <1>2, <1>7 DEF IInv, Typed
  <2>3. BeliefTrue' /\ Adding' /\ Heard'
    BY <1>1, <1>7 DEF IInv, BeliefTrue, Adding, IsAttached, Heard
  <2> QED
    BY <2>1, <2>2, <2>3 DEF IInv
<1> QED
  BY <1>4, <1>5, <1>6, <1>7

-----------------------------------------------------------------------------
(* The manager *)

\* A stage that only moves the manager on.
LEMMA ManagerIInv ==
    ASSUME IInv, manager' \in Managers, manager'.pc # "add",
           UNCHANGED <<os, conf, router, attached, changes>>
    PROVE  IInv'
  BY DEF IInv, Typed, BeliefTrue, Adding, Numbered, Reported, Heard, IsCurrent, IsAttached, router

LEMMA WakeIInv == ASSUME IInv, Wake PROVE IInv'
<1>1. manager' \in Managers /\ manager'.pc # "add"
  BY DEF IInv, Typed, Wake, Managers, Stages
<1> QED
  BY <1>1, ManagerIInv DEF Wake

LEMMA SnapshotIInv == ASSUME IInv, Snapshot PROVE IInv'
<1>1. manager' \in Managers /\ manager'.pc # "add"
  BY DEF IInv, Typed, Snapshot, Managers, Stages
<1> QED
  BY <1>1, ManagerIInv DEF Snapshot

LEMMA RemovedIInv == ASSUME IInv, Removed PROVE IInv'
<1> DEFINE todo == {i \in Ifaces : IsAttached(attached, i) /\ Desired(i) # attached[i].policy}
<1>0. todo \subseteq Ifaces
  OBVIOUS
<1>1. manager' = [manager EXCEPT !.pc = "update", !.todo = todo] /\ manager \in Managers
  BY DEF IInv, Typed, Removed
<1> HIDE DEF todo
<1>2. manager' \in Managers /\ manager'.pc # "add"
  BY <1>0, <1>1 DEF Managers, Stages
<1> QED
  BY <1>2, ManagerIInv DEF Removed

LEMMA ReconciledIInv == ASSUME IInv, Reconciled PROVE IInv'
<1>1. manager' \in Managers /\ manager'.pc # "add"
  BY DEF IInv, Typed, Reconciled, Managers, Stages
<1> QED
  BY <1>1, ManagerIInv DEF Reconciled
\* What is forgotten has no socket.
LEMMA StatusReplyIInv == ASSUME IInv, StatusReply PROVE IInv'
<1> DEFINE todo == {i \in Ifaces : Stale(StillActive, i)}
<1>0. todo \subseteq Ifaces
  OBVIOUS
<1>1. /\ manager' = [manager EXCEPT !.pc = "remove", !.todo = todo] /\ manager \in Managers
      /\ attached' = StillActive /\ UNCHANGED <<os, conf, router, changes>>
  BY DEF IInv, Typed, StatusReply
<1> HIDE DEF todo
<1>2. manager' \in Managers /\ manager'.pc # "add"
  BY <1>0, <1>1 DEF Managers, Stages
<1>3. /\ attached' \in [Ifaces -> {Detached} \cup Held]
      /\ \A i \in Ifaces : sockets[i] # NoSocket => attached'[i] = attached[i]
  BY <1>1 DEF IInv, Typed, StillActive
<1>4. Typed'
  BY <1>1, <1>2, <1>3 DEF IInv, Typed, router
<1>5. BeliefTrue' /\ Adding'
  BY <1>1, <1>2, <1>3 DEF IInv, BeliefTrue, IsAttached, Adding, router
<1>6. Numbered' /\ Reported' /\ Heard'
  BY <1>1 DEF IInv, Numbered, Reported, Heard, IsCurrent, router
<1> QED
  BY <1>4, <1>5, <1>6 DEF IInv

\* Taking one interface off the list of a stage.
LEMMA TodoTyped ==
    ASSUME IInv, NEW i, manager' = [manager EXCEPT !.todo = @ \ {i}]
    PROVE  /\ manager' \in Managers /\ manager'.pc = manager.pc
           /\ manager'.todo = manager.todo \ {i} /\ manager.todo \subseteq Ifaces
           /\ manager.desired \in [Ifaces -> Wishes] /\ manager.current \in [Ifaces -> Link]
  BY DEF IInv, Typed, Managers

LEMMA RemoveStaleIInv == ASSUME IInv, RemoveStale PROVE IInv'
<1> PICK i \in manager.todo :
        /\ IF sockets[i] = NoSocket THEN UNCHANGED router ELSE Detach(i) /\ UNCHANGED received
        /\ attached' = [attached EXCEPT ![i] = Detached]
        /\ manager' = [manager EXCEPT !.todo = @ \ {i}]
  BY DEF RemoveStale
<1>0. manager.pc = "remove" /\ UNCHANGED <<os, conf, changes>>
  BY DEF RemoveStale
<1>1. manager' \in Managers /\ manager'.pc = "remove" /\ i \in Ifaces
  BY <1>0, TodoTyped
<1>2. /\ sockets' \in [Ifaces -> {NoSocket} \cup Socket]
      /\ adjacent' \in [Ifaces -> SUBSET Nat] /\ opened' = opened
      /\ \A j \in Ifaces : sockets'[j] = IF j = i THEN NoSocket ELSE sockets[j]
      /\ Heard' /\ received' = received
  <2>1. CASE sockets[i] = NoSocket
    BY <2>1, <1>1 DEF IInv, Typed, Heard, router
  <2>2. CASE sockets[i] # NoSocket
    BY <2>2, <1>1, DetachKeeps
  <2> QED
    BY <2>1, <2>2
<1>3. /\ attached' \in [Ifaces -> {Detached} \cup Held]
      /\ \A j \in Ifaces : attached'[j] = IF j = i THEN Detached ELSE attached[j]
  BY <1>1 DEF IInv, Typed
<1>4. received \in Seq(Items)
  BY DEF IInv, Typed
<1>5. Numbered' /\ Reported'
  BY <1>1, <1>2, <1>4, FewerSockets
<1>6. Typed'
  BY <1>0, <1>1, <1>2, <1>3 DEF IInv, Typed
<1>7. BeliefTrue' /\ Adding'
  BY <1>1, <1>2, <1>3 DEF IInv, BeliefTrue, Adding, IsAttached
<1> QED
  BY <1>2, <1>5, <1>6, <1>7 DEF IInv

\* A policy is noted when the router has taken it, and only then.
LEMMA UpdatePolicyIInv == ASSUME IInv, UpdatePolicy PROVE IInv'
<1> PICK i \in manager.todo :
        /\ UpdateInterfacePolicy(i, Desired(i)) /\ attached' = Updated(i)
        /\ manager' = [manager EXCEPT !.todo = @ \ {i}]
  BY DEF UpdatePolicy
<1>0. manager.pc = "update" /\ UNCHANGED <<os, conf, changes>>
  BY DEF UpdatePolicy
<1>1. manager' \in Managers /\ manager'.pc = "update" /\ i \in Ifaces /\ Desired(i) \in Wishes
  BY <1>0, TodoTyped DEF Desired
<1>2. CASE UpdatesPolicy(i, Desired(i))
  <2>0. sockets[i] # NoSocket
    BY <1>2 DEF UpdatesPolicy
  <2> DEFINE s == [sockets[i] EXCEPT !.policy = Desired(i)]
             a == [attached[i] EXCEPT !.policy = Desired(i)]
  <2>1. /\ sockets \in [Ifaces -> {NoSocket} \cup Socket] /\ sockets[i] \in Socket
        /\ attached \in [Ifaces -> {Detached} \cup Held] /\ attached[i] \in Held
    BY <1>1, <1>2 DEF UpdatesPolicy, IInv, Typed, BeliefTrue, IsAttached
  <2>2. /\ sockets' = [sockets EXCEPT ![i] = s] /\ attached' = [attached EXCEPT ![i] = a]
        /\ UNCHANGED <<opened, adjacent, received>>
    BY <1>2 DEF UpdateInterfacePolicy, Updated
  <2>3. /\ s \in Socket /\ s.id = sockets[i].id /\ s.receiving = sockets[i].receiving
        /\ s.policy = Desired(i) /\ s # NoSocket
    BY <1>1, <2>1 DEF Socket, NoSocket
  <2>4. a \in Held /\ a.policy = Desired(i) /\ a # Detached
    BY <1>1, <2>1 DEF Held, Detached
  <2> HIDE DEF s, a
  <2>5. /\ \A j \in Ifaces : sockets'[j] = IF j = i THEN s ELSE sockets[j]
        /\ \A j \in Ifaces : attached'[j] = IF j = i THEN a ELSE attached[j]
    BY <2>1, <2>2
  <2>6. Typed'
    BY <1>0, <1>1, <2>1, <2>2, <2>3, <2>4 DEF IInv, Typed
  <2>7. BeliefTrue' /\ Adding' /\ Heard'
    BY <1>1, <2>2, <2>3, <2>4, <2>5 DEF IInv, BeliefTrue, Adding, Heard, IsAttached
  <2>8. \A n \in DOMAIN received : received[n].iface \in Ifaces
    BY ItemTyped DEF IInv, Typed
  <2>9. Numbered' /\ Reported'
    BY <2>0, <2>2, <2>3, <2>5, <2>8 DEF IInv, Numbered, Reported, IsCurrent
  <2> QED
    BY <2>6, <2>7, <2>9 DEF IInv
<1>3. CASE ~ UpdatesPolicy(i, Desired(i))
  <2>1. UNCHANGED <<os, conf, router, attached, changes>>
    BY <1>0, <1>3 DEF UpdateInterfacePolicy, Updated
  <2> QED
    BY <1>1, <2>1, ManagerIInv
<1> QED
  BY <1>2, <1>3

LEMMA PoliciesUpdatedIInv == ASSUME IInv, PoliciesUpdated PROVE IInv'
<1> DEFINE todo == {i \in Ifaces : /\ ~IsAttached(attached, i)
                                   /\ Current(i).up
                                   /\ HasAddress(Current(i), Desired(i))}
<1>0. todo \subseteq Ifaces /\ \A i \in todo : attached[i] = Detached
  BY DEF IsAttached
<1>1. /\ manager' = [manager EXCEPT !.pc = "add", !.todo = todo] /\ manager \in Managers
      /\ UNCHANGED <<os, conf, router, attached, changes>>
  BY DEF IInv, Typed, PoliciesUpdated
<1> HIDE DEF todo
<1>2. manager' \in Managers /\ manager'.todo = todo
  BY <1>0, <1>1 DEF Managers, Stages
<1>3. Adding'
  BY <1>0, <1>1, <1>2 DEF Adding
<1>4. Typed'
  BY <1>1, <1>2 DEF IInv, Typed, router
<1>5. BeliefTrue' /\ Numbered' /\ Reported' /\ Heard'
  BY <1>1 DEF IInv, BeliefTrue, Numbered, Reported, Heard, IsCurrent, IsAttached, router
<1> QED
  BY <1>3, <1>4, <1>5 DEF IInv
\* An interface on the list has no socket, so the one that is opened is under
\* the policy the manager notes.
LEMMA AddMissingIInv == ASSUME IInv, AddMissing PROVE IInv'
<1> PICK i \in manager.todo :
        /\ AddInterface(i, Desired(i))
        /\ attached' = IF sockets[i] # NoSocket \/ Opens(i, Desired(i))
                       THEN [attached EXCEPT ![i] = [policy |-> Desired(i), signature |-> Current(i)]]
                       ELSE attached
        /\ manager' = [manager EXCEPT !.todo = @ \ {i}]
  BY DEF AddMissing
<1>0. manager.pc = "add" /\ UNCHANGED <<os, conf, changes>>
  BY DEF AddMissing
<1>1. /\ manager' \in Managers /\ manager'.todo = manager.todo \ {i} /\ i \in Ifaces
      /\ Desired(i) \in Wishes /\ Current(i) \in Link /\ manager.todo \subseteq Ifaces
  BY TodoTyped DEF Desired, Current
<1>2. sockets[i] = NoSocket /\ attached[i] = Detached
  BY <1>0, <1>1 DEF IInv, Adding, BeliefTrue, IsAttached
<1>3. CASE Opens(i, Desired(i))
  <2> DEFINE s == [id |-> opened + 1, index |-> os[i].index, policy |-> Desired(i),
                   addresses |-> os[i].address, receiving |-> TRUE]
             a == [policy |-> Desired(i), signature |-> Current(i)]
  <2>1. /\ sockets \in [Ifaces -> {NoSocket} \cup Socket] /\ opened \in Nat
        /\ attached \in [Ifaces -> {Detached} \cup Held] /\ os[i] \in Link
    BY <1>1 DEF IInv, Typed
  <2>2. /\ sockets' = [sockets EXCEPT ![i] = s] /\ attached' = [attached EXCEPT ![i] = a]
        /\ opened' = opened + 1 /\ UNCHANGED <<adjacent, received>>
    BY <1>2, <1>3 DEF AddInterface
  <2>3. s \in Socket /\ s.id = opened + 1 /\ s.policy = Desired(i) /\ s # NoSocket
    BY <1>1, <2>1 DEF Socket, NoSocket, Link
  <2>4. a \in Held /\ a.policy = Desired(i) /\ a # Detached
    BY <1>1 DEF Held, Detached
  <2> HIDE DEF s, a
  <2>5. /\ \A j \in Ifaces : sockets'[j] = IF j = i THEN s ELSE sockets[j]
        /\ \A j \in Ifaces : attached'[j] = IF j = i THEN a ELSE attached[j]
    BY <2>1, <2>2
  <2>6. Typed'
    BY <1>0, <1>1, <2>1, <2>2, <2>3, <2>4 DEF IInv, Typed
  <2>7. BeliefTrue' /\ Heard'
    BY <1>1, <1>2, <2>2, <2>3, <2>4, <2>5 DEF IInv, BeliefTrue, Heard, IsAttached
  <2>8. Adding'
    BY <1>0, <1>1, <2>5 DEF IInv, Adding
  <2>9. /\ received \in Seq(Items)
        /\ \A n \in DOMAIN received : received[n].iface \in Ifaces /\ received[n].id \in Nat
    BY ItemTyped DEF IInv, Typed
  <2>10. /\ \A j \in Ifaces : sockets[j] # NoSocket => sockets[j].id \in Nat /\ sockets[j].id <= opened
         /\ \A n \in DOMAIN received : received[n].id <= opened
    BY <2>1 DEF IInv, Numbered, Socket
  <2>11. Numbered'
    BY <2>1, <2>2, <2>3, <2>5, <2>9, <2>10 DEF Numbered
  <2>12. \A n \in DOMAIN received : received[n].id # opened + 1
    BY <2>1, <2>9, <2>10
  <2>13. Reported'
    BY <2>2, <2>3, <2>5, <2>9, <2>12 DEF IInv, Reported, IsCurrent
  <2> QED
    BY <2>6, <2>7, <2>8, <2>11, <2>13 DEF IInv
<1>4. CASE ~ Opens(i, Desired(i))
  <2>1. UNCHANGED <<os, conf, router, attached, changes>>
    BY <1>0, <1>2, <1>4 DEF AddInterface
  <2>2. Adding'
    BY <1>0, <1>1, <2>1 DEF IInv, Adding
  <2>3. Typed'
    BY <1>1, <2>1 DEF IInv, Typed, router
  <2>4. BeliefTrue' /\ Numbered' /\ Reported' /\ Heard'
    BY <2>1 DEF IInv, BeliefTrue, Numbered, Reported, Heard, IsCurrent, IsAttached, router
  <2> QED
    BY <2>2, <2>3, <2>4 DEF IInv
<1> QED
  BY <1>3, <1>4

-----------------------------------------------------------------------------
(* Together *)

LEMMA NextIInv == IInv /\ [Next]_vars => IInv'
<1> SUFFICES ASSUME IInv, [Next]_vars PROVE IInv'
  OBVIOUS
<1>1. CASE UNCHANGED vars
  BY <1>1 DEF vars, IInv, Typed, BeliefTrue, Adding, Numbered, Reported, Heard, IsCurrent, IsAttached
<1>2. CASE Next
  BY Zenon, <1>2, SystemChangesIInv, ConfigChangesIInv, ReceivePacketIInv, ReceiveFailsIInv,
     ScanAddressesIInv, HandleReceivedIInv, WakeIInv, SnapshotIInv, StatusReplyIInv,
     RemoveStaleIInv, RemovedIInv, UpdatePolicyIInv, PoliciesUpdatedIInv, AddMissingIInv,
     ReconciledIInv DEF Next, Manage
<1> QED
  BY <1>1, <1>2

LEMMA Invariance == Spec => []IInv
<1>1. IInv /\ [Next]_vars => IInv'
  BY NextIInv
<1> QED
  BY <1>1, InitIInv, PTL DEF Spec

\* What the interface manager believes of an interface that the router has open is
\* what the router applies to it, whatever fails or changes during a reconciliation
\* (reconcile, run_loop).
THEOREM ManagerBelievesTrue == Spec => []BeliefTrue
<1>1. IInv => BeliefTrue
  BY DEF IInv
<1> QED
  BY <1>1, Invariance, PTL

\* The queue takes away no socket whose receiver is at work.
LEMMA QueueDetachesFailed ==
    ASSUME IInv, [Next]_vars, received' # received, NEW i \in Ifaces,
           sockets[i] # NoSocket, sockets'[i] = NoSocket
    PROVE  ~ sockets[i].receiving
<1>1. \/ UNCHANGED sockets
      \/ UNCHANGED received
      \/ \E j \in Ifaces : sockets' = [sockets EXCEPT ![j].receiving = FALSE]
      \/ HandleReceived
  <2>1. CASE UNCHANGED vars \/ SystemChanges \/ ConfigChanges
    BY <2>1 DEF vars, SystemChanges, ConfigChanges, router
  <2>2. CASE \E j \in Ifaces : ReceivePacket(j) \/ ReceiveFails(j) \/ ScanAddresses(j)
    BY <2>2 DEF ReceivePacket, ReceiveFails, ScanAddresses
  <2>3. CASE Manage
    BY <2>3 DEF Manage, Wake, Snapshot, StatusReply, RemoveStale, Removed, UpdatePolicy,
                PoliciesUpdated, AddMissing, Reconciled, router, UpdateInterfacePolicy, AddInterface
  <2> QED
    BY <2>1, <2>2, <2>3 DEF Next
<1>2. sockets \in [Ifaces -> {NoSocket} \cup Socket] /\ sockets[i] \in Socket
  BY DEF IInv, Typed
<1>3. ASSUME NEW j \in Ifaces, sockets' = [sockets EXCEPT ![j].receiving = FALSE] PROVE FALSE
  <2>1. [sockets[i] EXCEPT !.receiving = FALSE] \in Socket
    BY <1>2 DEF Socket
  <2>2. sockets'[i] \in Socket
    BY <1>2, <1>3, <2>1
  <2> QED
    BY <2>2 DEF Socket, NoSocket
<1>4. CASE HandleReceived
  <2> DEFINE item == Head(received)
  <2>1. received \in Seq(Items) /\ received # << >>
    BY <1>4 DEF HandleReceived, IInv, Typed
  <2>2. 1 \in DOMAIN received /\ item = received[1]
    BY <2>1
  <2>3. item.iface \in Ifaces
    BY <2>1, <2>2, ItemTyped
  <2>4. item.kind = "failed" /\ IsCurrent(item) /\ Detach(item.iface)
    BY <1>4 DEF HandleReceived, FailureCurrent
  <2> HIDE DEF item
  <2>5. i = item.iface
    BY <1>2, <2>3, <2>4 DEF Detach
  <2> QED
    BY <2>2, <2>4, <2>5 DEF IInv, Reported
<1> QED
  BY <1>1, <1>3, <1>4

\* Nothing that an earlier socket left in the queue touches the one that is open:
\* neighbours are those of the present socket, and only a failure of its own
\* receiver takes it away (run_loop: Arc::ptr_eq).
THEOREM QueueServesOwnSocket == Spec => QueueServesOwn
<1> DEFINE Own == \A i \in Ifaces :
                     adjacent[i] \subseteq IF sockets[i] = NoSocket THEN {} ELSE {sockets[i].id}
           Detaches == received' # received =>
                          \A i \in Ifaces :
                             sockets[i] # NoSocket /\ sockets'[i] = NoSocket => ~sockets[i].receiving
<1>1. IInv => Own
  BY DEF IInv, Heard
<1>2. IInv /\ [Next]_vars => [Detaches]_vars
  BY QueueDetachesFailed
<1>3. QueueServesOwn <=> []Own /\ [][Detaches]_vars
  BY DEF QueueServesOwn
<1> HIDE DEF Own, Detaches
<1> QED
  BY <1>1, <1>2, <1>3, Invariance, PTL DEF Spec
=============================================================================
