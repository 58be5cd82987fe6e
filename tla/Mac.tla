-------------------------------- MODULE Mac --------------------------------
(***************************************************************************)
(* Packet authentication (babel-protocol: mac.rs) as the sockets of the    *)
(* router use it (transport.rs, transport/datagrams.rs, router/io.rs).     *)
(* The speakers of a link have a session per open socket, with an index    *)
(* drawn at random and a counter for the datagrams it signs, and an entry  *)
(* per peer with the counters seen.  A peer's counters are believed once   *)
(* the peer has answered a challenge that carries a fresh nonce.  The link *)
(* loses, delays, repeats and reorders datagrams.                          *)
(***************************************************************************)
EXTENDS Integers, Sequences, FiniteSets

CONSTANTS
    Nodes,      \* the speakers; a configuration is [keys, unverified], and one
                \* without keys is no authentication
    MaxCounter, \* u32::MAX
    MaxPeers,   \* limits.max_neighbors
    Budgets     \* bounds, one of which a behaviour keeps: [configs (that each node
                \* may have), traffic (pairs: who has routing to send to whom),
                \* stamps (signatures and random values), opens (sockets opened
                \* again), instants (of the clock)]

RATE_MS == 300
CHALLENGE_MS == 30000
EXPIRE_MS == 300000

ASSUME MacAssumption ==
    /\ MaxCounter \in Nat \ {0}
    /\ MaxPeers \in Nat
    /\ \A b \in Budgets : b.stamps \in Nat /\ b.opens \in Nat /\ b.instants \subseteq Nat

VARIABLES
    now,
    sessions,   \* the session of each node's socket
    net,        \* the datagrams ever sent: each may arrive at any time, often, or never
    stamp,      \* the next random value and, as history, the next moment of signing
    opened,     \* how often a socket was opened again
    budget

vars == <<now, sessions, net, stamp, opened, budget>>

All == "all"
Never == -1
Classes == {"unicast", "multicast"}

\* Peer.  An index or a nonce of 0 is absent, and so is an entry with expires 0.
\* since, taken and at are history: the nonce that was answered, how many datagrams
\* were accepted since, and when the last of each class was signed.
NoPeer ==
    [index |-> 0, counter |-> [c \in Classes |-> 0], nonce |-> 0, until |-> 0,
     last_reply |-> Never, expires |-> 0,
     since |-> 0, taken |-> 0, at |-> [c \in Classes |-> 0]]

\* MacSession::new, and the control packets its receiver has still to send.
NewSession(config, index) ==
    [config |-> config, index |-> index, counter |-> 0,
     peers |-> [m \in Nodes |-> NoPeer], last_challenge |-> Never, controls |-> << >>]

Given == UNION {budget.configs[n] : n \in Nodes}

Init ==
    /\ now = 0
    /\ budget \in Budgets
    /\ sessions \in [Nodes -> {NewSession(config, 1) : config \in Given}]
    /\ \A n \in Nodes : sessions[n].config \in budget.configs[n]
    /\ net = {}
    /\ stamp = 2
    /\ opened = 0

-----------------------------------------------------------------------------
(* Sending: Datagrams::send, MacSession::sign *)

Routing == [kind |-> "routing", nonce |-> 0]
Request(nonce) == [kind |-> "request", nonce |-> nonce]
Reply(nonce) == [kind |-> "reply", nonce |-> nonce]

\* Mutant: the counter starts again under the old index.
RolledInPlace(s) == IF s.counter = MaxCounter THEN [s EXCEPT !.counter = 0] ELSE s

\* The session with which the next packet is signed: a counter at its end draws
\* a new index.
Rolled(s) ==
    IF s.counter = MaxCounter THEN [s EXCEPT !.index = stamp, !.counter = 0] ELSE s

Datagram(n, s, packet, to) ==
    [from |-> n, to |-> to, packet |-> packet, keys |-> s.config.keys, at |-> stamp,
     index |-> IF s.config.keys = {} THEN 0 ELSE s.index, pc |-> s.counter]

CountedOn(s, controls) ==
    [s EXCEPT !.counter = IF s.config.keys = {} THEN @ ELSE @ + 1, !.controls = controls]

\* The counter is taken before the datagram is out, so a send that fails or is
\* cancelled only skips a counter: it is a datagram that never arrives.
Sent(n, s, packet, to, controls) ==
    /\ stamp < budget.stamps
    /\ sessions' = [sessions EXCEPT ![n] = CountedOn(s, controls)]
    /\ net' = net \cup {Datagram(n, s, packet, to)}
    /\ stamp' = stamp + 1
    /\ UNCHANGED <<now, opened, budget>>

Send(n, to) ==
    /\ <<n, to>> \in budget.traffic
    /\ Sent(n, Rolled(sessions[n]), Routing, to, sessions[n].controls)

\* The receiver sends the controls of a datagram before it looks at the next.
SendControl(n) ==
    /\ sessions[n].controls # << >>
    /\ LET control == Head(sessions[n].controls)
       IN  Sent(n, Rolled(sessions[n]), control.packet, control.to, Tail(sessions[n].controls))

\* No source address, no entropy for a new index, or no time to wait for the
\* session: the control is given up before it is signed.
DropControl(n) ==
    /\ sessions[n].controls # << >>
    /\ sessions' = [sessions EXCEPT ![n].controls = Tail(@)]
    /\ UNCHANGED <<now, net, stamp, opened, budget>>

-----------------------------------------------------------------------------
(* Receiving: spawn_receiver, MacSession::receive and receive_inner *)

Elapsed(last, interval) == last = Never \/ now - last >= interval

ClassOf(d) == IF d.to = All THEN "multicast" ELSE "unicast"

\* MacSession::expire.
Live(s) ==
    [s EXCEPT !.peers =
        [m \in Nodes |-> IF now < s.peers[m].expires THEN s.peers[m] ELSE NoPeer]]

\* A MAC of the trailer matches one of the local keys, unless any will do.
Signed(s, d) == s.config.unverified \/ s.config.keys \cap d.keys # {}

Known(s) == {m \in Nodes : s.peers[m].expires # 0}

Admitted(s, d) ==
    /\ Signed(s, d)
    /\ d.from \in Known(s) \/ Cardinality(Known(s)) < MaxPeers

\* The peer's entry, made if there is none.
Entry(s, m) ==
    IF m \in Known(s) THEN s.peers[m] ELSE [NoPeer EXCEPT !.expires = now + EXPIRE_MS]

\* A request is answered unless the peer had an answer just now.
Answers(p, d) ==
    /\ d.packet.kind = "request" /\ d.to # All
    /\ Elapsed(p.last_reply, RATE_MS)

Noted(p, d) == IF Answers(p, d) THEN [p EXCEPT !.last_reply = now] ELSE p

Control(packet, to) == [packet |-> packet, to |-> to]

Answer(p, d) ==
    IF Answers(p, d) THEN <<Control(Reply(d.packet.nonce), d.from)>> ELSE << >>

Proves(p, d) ==
    /\ d.packet.kind = "reply"
    /\ d.packet.nonce = p.nonce
    /\ p.nonce # 0
    /\ now < p.until

\* Node n's session becomes s, with entry p for node m.
Keeps(n, s, m, p) ==
    /\ sessions' = [sessions EXCEPT ![n] = [s EXCEPT !.peers[m] = p]]
    /\ UNCHANGED <<now, net, opened, budget>>

\* Not for us: forged as far as we can tell, or no room for one more peer.
Refuse(n, d) ==
    /\ ~ Admitted(Live(sessions[n]), d)
    /\ sessions' = [sessions EXCEPT ![n] = Live(@)]
    /\ UNCHANGED <<now, net, stamp, opened, budget>>

\* The reply to our challenge: its index is the peer's, and both classes
\* count on from its counter.
Proved(p, d) ==
    [p EXCEPT !.nonce = 0, !.index = d.index, !.counter = [c \in Classes |-> d.pc],
              !.expires = now + EXPIRE_MS,
              !.since = p.nonce, !.taken = 1, !.at = [c \in Classes |-> d.at]]

Verify(n, s, p, d) ==
    /\ d.index # 0 /\ Proves(p, d)
    /\ Keeps(n, s, d.from, Proved(p, d))
    /\ UNCHANGED stamp

\* A believed index: the counter must exceed the one seen last in its class.
Believed(p, d) == d.index # 0 /\ ~ Proves(p, d) /\ d.index = p.index

\* Mutant: the same counter again will do.
NotOlder(p, d) == d.pc >= p.counter[ClassOf(d)]

Newer(p, d) == d.pc > p.counter[ClassOf(d)]

Counted(p, d) ==
    [p EXCEPT !.counter[ClassOf(d)] = d.pc, !.expires = now + EXPIRE_MS,
              !.taken = @ + 1, !.at[ClassOf(d)] = d.at]

Accept(n, s, p, d) ==
    /\ Believed(p, d) /\ Newer(p, d)
    /\ Keeps(n, [s EXCEPT !.controls = Answer(p, d)], d.from, Counted(Noted(p, d), d))
    /\ UNCHANGED stamp

\* Another index than the peer's is challenged, with limited haste.
Doubted(p, d) == d.index # 0 /\ ~ Proves(p, d) /\ d.index # p.index

Challenged(p) == [p EXCEPT !.nonce = stamp, !.until = now + CHALLENGE_MS]

Challenging(s, controls) == [s EXCEPT !.last_challenge = now, !.controls = controls]

Challenge(n, s, p, d) ==
    /\ Doubted(p, d) /\ Elapsed(s.last_challenge, RATE_MS)
    /\ stamp < budget.stamps
    /\ LET controls == Append(Answer(p, d), Control(Request(stamp), d.from))
       IN  Keeps(n, Challenging(s, controls), d.from, Challenged(Noted(p, d)))
    /\ stamp' = stamp + 1

\* No entropy for a nonce: the error discards the answer already prepared.
Starve(n, s, p, d) ==
    /\ Doubted(p, d) /\ Elapsed(s.last_challenge, RATE_MS)
    /\ Keeps(n, [s EXCEPT !.controls = << >>], d.from, Noted(p, d))
    /\ UNCHANGED stamp

\* No counter, a counter seen before, or a challenge just now.
Ignore(n, s, p, d) ==
    /\ \/ d.index = 0
       \/ Believed(p, d) /\ ~ Newer(p, d)
       \/ Doubted(p, d) /\ ~ Elapsed(s.last_challenge, RATE_MS)
    /\ Keeps(n, [s EXCEPT !.controls = Answer(p, d)], d.from, Noted(p, d))
    /\ UNCHANGED stamp

Examine(n, s, p, d) ==
    \/ Verify(n, s, p, d)
    \/ Accept(n, s, p, d)
    \/ Challenge(n, s, p, d)
    \/ Starve(n, s, p, d)
    \/ Ignore(n, s, p, d)

\* Without a session every datagram is handed on as it is.  A strict session
\* hands on those of Verify and Accept; one that takes unverified datagrams all
\* but those of Starve.
Receive(n, d) ==
    /\ d.from # n /\ d.to \in {n, All}
    /\ sessions[n].controls = << >>
    /\ \/ sessions[n].config.keys = {} /\ UNCHANGED vars
       \/ sessions[n].config.keys # {} /\ Refuse(n, d)
       \/ /\ sessions[n].config.keys # {}
          /\ Admitted(Live(sessions[n]), d)
          /\ Examine(n, Live(sessions[n]), Entry(Live(sessions[n]), d.from), d)

-----------------------------------------------------------------------------
\* The socket is opened again: a restart, a link that flapped, or a reload that
\* changed the keys.
Reopen(n, config) ==
    /\ opened < budget.opens /\ stamp < budget.stamps
    /\ sessions' = [sessions EXCEPT ![n] = NewSession(config, stamp)]
    /\ stamp' = stamp + 1
    /\ opened' = opened + 1
    /\ UNCHANGED <<now, net, budget>>

Advance ==
    /\ now' \in {t \in budget.instants : t > now}
    /\ UNCHANGED <<sessions, net, stamp, opened, budget>>

Next ==
    \/ \E n \in Nodes :
          \/ \E to \in Nodes \cup {All} : Send(n, to)
          \/ SendControl(n)
          \/ DropControl(n)
          \/ \E d \in net : Receive(n, d)
          \/ \E config \in budget.configs[n] : Reopen(n, config)
    \/ Advance

Spec == Init /\ [][Next]_vars

-----------------------------------------------------------------------------
(* Properties *)

\* What each node knows of each other one, for the abstract channel.
Trust ==
    [i \in Nodes \X Nodes |->
        [mark |-> sessions[i[1]].peers[i[2]].nonce,
         since |-> sessions[i[1]].peers[i[2]].since,
         taken |-> sessions[i[1]].peers[i[2]].taken,
         last |-> sessions[i[1]].peers[i[2]].at]]

Authentic == INSTANCE Channel WITH
    Channels <- Nodes \X Nodes, clock <- stamp, trust <- Trust

\* Whatever is lost, repeated or late, and however often sockets are opened
\* again or keys replaced: a node takes up a peer only on a datagram signed
\* after a challenge of its own, and then takes in each class only datagrams
\* signed later than the one before (MacSession::receive_inner).
Implements == Authentic!Spec

\* A peer whose present index is believed is not locked out: the counter of its
\* next datagram is above every counter seen, over the roll-over of counters
\* and the opening of new sessions (MacSession::sign against receive_inner).
NextAccepted ==
    \A n, m \in Nodes : \A c \in Classes :
        LET p == sessions[n].peers[m]
        IN  p.index = sessions[m].index => p.counter[c] < sessions[m].counter
=============================================================================
