----------------------------- MODULE MacProofs -----------------------------
(***************************************************************************)
(* Packet authentication keeps its promise for every number of speakers,   *)
(* every configuration and every bound.  The argument: the datagrams of a  *)
(* speaker that carry one index were signed in the order of their          *)
(* counters, and what an entry holds for a class is the counter and the    *)
(* moment of signing of some such datagram.                                *)
(***************************************************************************)
EXTENDS Mac, TLAPS

Packets == [kind : {"routing", "request", "reply"}, nonce : Nat]

Peer ==
    [index : Nat, counter : [Classes -> Nat], nonce : Nat, until : Nat,
     last_reply : Int, expires : Nat, since : Nat, taken : Nat, at : [Classes -> Nat]]

Controls == [packet : Packets, to : Nodes]

Session ==
    [config : Given, index : Nat, counter : Nat, peers : [Nodes -> Peer],
     last_challenge : Int, controls : Seq(Controls)]

Typed ==
    /\ now \in Nat
    /\ stamp \in Nat
    /\ opened \in Nat
    /\ budget \in Budgets
    /\ sessions \in [Nodes -> Session]
    /\ \A d \in net :
          /\ d.from \in Nodes /\ d.packet \in Packets
          /\ d.at \in Nat /\ d.index \in Nat /\ d.pc \in Nat

\* Nonces, indices and signatures are older than the next stamp, and what a
\* packet answers is older than its signature.
Past ==
    /\ \A d \in net : d.packet.nonce < d.at /\ d.at < stamp /\ d.index < stamp
    /\ \A n \in Nodes :
          /\ sessions[n].index # 0 /\ sessions[n].index < stamp
          /\ \A i \in DOMAIN sessions[n].controls :
                sessions[n].controls[i].packet.nonce < stamp

\* Under one index a speaker signs in the order of the counters.
Sequenced ==
    \A d, e \in net :
        d.from = e.from /\ d.index = e.index /\ d.index # 0 /\ d.pc < e.pc => d.at < e.at

\* The counters of the present index are used up to the session's.
Counting ==
    \A d \in net :
        d.index = sessions[d.from].index => d.pc < sessions[d.from].counter

\* What an entry of node m holds of a class, some datagram of m carried.
Witnessed(p, m) ==
    p.index # 0 =>
        /\ p.since # 0
        /\ \A c \in Classes : \E d \in net :
              d.from = m /\ d.index = p.index /\ d.pc = p.counter[c] /\ d.at = p.at[c]

Entries ==
    \A n, m \in Nodes :
        sessions[n].peers[m].nonce < stamp /\ Witnessed(sessions[n].peers[m], m)

IInv == Typed /\ Past /\ Sequenced /\ Counting /\ Entries

-----------------------------------------------------------------------------
(* The operators *)

LEMMA NoPeerTyped == NoPeer \in Peer
  BY DEF NoPeer, Peer, Never, Classes

LEMMA NewSessionTyped ==
  ASSUME NEW config \in Given, NEW index \in Nat
  PROVE  NewSession(config, index) \in Session
  BY NoPeerTyped DEF NewSession, Session, Never

LEMMA InitIInv == Init => IInv
<1> SUFFICES ASSUME Init PROVE IInv
  OBVIOUS
<1>1. \A config \in Given : NewSession(config, 1) \in Session
  BY NewSessionTyped
<1>2. sessions \in [Nodes -> Session]
  BY <1>1 DEF Init
<1>3. \A n \in Nodes : \E config \in Given : sessions[n] = NewSession(config, 1)
  BY DEF Init
<1>4. Typed
  BY <1>2 DEF Init, Typed
<1>5. ASSUME NEW n \in Nodes
      PROVE  /\ sessions[n].index = 1 /\ sessions[n].controls = << >>
             /\ sessions[n].peers = [m \in Nodes |-> NoPeer]
  <2>1. PICK config \in Given : sessions[n] = NewSession(config, 1)
    BY <1>3
  <2> QED
    BY <2>1 DEF NewSession
<1>6. \A n, m \in Nodes : sessions[n].peers[m] = NoPeer
  BY <1>5
<1>7. Past
  BY <1>5 DEF Init, Past
<1>8. Sequenced /\ Counting
  BY DEF Init, Sequenced, Counting
<1>9. Entries
  BY <1>6 DEF Init, Entries, Witnessed, NoPeer
<1> QED
  BY <1>4, <1>7, <1>8, <1>9 DEF IInv

LEMMA LiveTyped ==
  ASSUME NEW s \in Session, now \in Nat
  PROVE  /\ Live(s) \in Session
         /\ \A m \in Nodes : Live(s).peers[m] \in {s.peers[m], NoPeer}
         /\ Live(s).index = s.index /\ Live(s).counter = s.counter
         /\ Live(s).controls = s.controls
  BY NoPeerTyped DEF Live, Session

LEMMA EntryTyped ==
  ASSUME NEW s \in Session, NEW m \in Nodes, now \in Nat
  PROVE  /\ Entry(s, m) \in Peer
         /\ \/ Entry(s, m) = s.peers[m]
            \/ /\ Entry(s, m).index = 0 /\ Entry(s, m).nonce = 0
               /\ Entry(s, m).since = 0 /\ Entry(s, m).taken = 0
               /\ Entry(s, m).at = NoPeer.at
<1>1. CASE m \in Known(s)
  BY <1>1 DEF Entry, Session
<1>2. CASE m \notin Known(s)
  <2>1. Entry(s, m) = [NoPeer EXCEPT !.expires = now + EXPIRE_MS]
    BY <1>2 DEF Entry
  <2> QED
    BY <2>1, NoPeerTyped DEF Peer, NoPeer, EXPIRE_MS
<1> QED
  BY <1>1, <1>2

LEMMA NotedTyped ==
  ASSUME NEW p \in Peer, NEW d, now \in Nat
  PROVE  /\ Noted(p, d) \in Peer
         /\ Noted(p, d).index = p.index /\ Noted(p, d).counter = p.counter
         /\ Noted(p, d).nonce = p.nonce /\ Noted(p, d).since = p.since
         /\ Noted(p, d).taken = p.taken /\ Noted(p, d).at = p.at
  BY DEF Noted, Peer

LEMMA AnswerTyped ==
  ASSUME NEW p, NEW d, d.from \in Nodes, d.packet \in Packets
  PROVE  /\ Answer(p, d) \in Seq(Controls)
         /\ \A i \in DOMAIN Answer(p, d) : Answer(p, d)[i].packet.nonce = d.packet.nonce
<1>1. CASE Answers(p, d)
  <2> DEFINE control == Control(Reply(d.packet.nonce), d.from)
  <2>0. /\ Reply(d.packet.nonce) \in Packets
        /\ Reply(d.packet.nonce).nonce = d.packet.nonce
    BY DEF Packets, Reply
  <2>1. control \in Controls /\ control.packet.nonce = d.packet.nonce
    BY <2>0 DEF Control, Controls
  <2>2. Answer(p, d) = <<control>>
    BY <1>1 DEF Answer
  <2> HIDE DEF control
  <2> QED
    BY <2>1, <2>2
<1>2. CASE ~ Answers(p, d)
  BY <1>2 DEF Answer
<1> QED
  BY <1>1, <1>2

LEMMA ControlFields ==
  ASSUME NEW q \in Seq(Controls), NEW i \in DOMAIN q
  PROVE  q[i] \in Controls /\ q[i].packet \in Packets /\ q[i].packet.nonce \in Nat
<1>1. q[i] \in Controls
  OBVIOUS
<1>2. q[i].packet \in Packets
  BY <1>1 DEF Controls
<1> QED
  BY <1>1, <1>2 DEF Packets

LEMMA CountedOnTyped ==
  ASSUME NEW s \in Session, NEW controls \in Seq(Controls)
  PROVE  LET t == CountedOn(s, controls)
         IN  /\ t \in Session /\ t.peers = s.peers /\ t.index = s.index
             /\ t.counter = (IF s.config.keys = {} THEN s.counter ELSE s.counter + 1)
             /\ t.controls = controls
<1> DEFINE counter == IF s.config.keys = {} THEN s.counter ELSE s.counter + 1
<1> DEFINE r == [s EXCEPT !.counter = counter]
<1>1. s.counter \in Nat
  BY DEF Session
<1>2. counter \in Nat
  BY <1>1
<1> HIDE DEF counter
<1>3. r \in Session /\ r.peers = s.peers /\ r.index = s.index /\ r.counter = counter
  BY <1>2 DEF Session
<1>4. CountedOn(s, controls) = [r EXCEPT !.controls = controls]
  BY DEF CountedOn, counter
<1> HIDE DEF r
<1> QED
  BY <1>3, <1>4 DEF Session, counter

LEMMA RolledTyped ==
  ASSUME NEW s \in Session, stamp \in Nat
  PROVE  /\ Rolled(s) \in Session /\ Rolled(s).peers = s.peers
         /\ Rolled(s).index = IF s.counter = MaxCounter THEN stamp ELSE s.index
         /\ s.counter # MaxCounter => Rolled(s) = s
<1>1. CASE s.counter = MaxCounter
  <2> DEFINE r == [s EXCEPT !.index = stamp]
  <2>1. r \in Session /\ r.peers = s.peers /\ r.index = stamp
    BY DEF Session
  <2>2. Rolled(s) = [r EXCEPT !.counter = 0]
    BY <1>1 DEF Rolled
  <2> HIDE DEF r
  <2> QED
    BY SMTT(40), <1>1, <2>1, <2>2 DEF Session
<1>2. CASE s.counter # MaxCounter
  BY <1>2 DEF Rolled
<1> QED
  BY <1>1, <1>2

LEMMA ChallengingTyped ==
  ASSUME NEW s \in Session, NEW controls \in Seq(Controls), now \in Nat
  PROVE  LET t == Challenging(s, controls)
         IN  /\ t \in Session /\ t.peers = s.peers /\ t.index = s.index
             /\ t.counter = s.counter /\ t.controls = controls
<1> DEFINE r == [s EXCEPT !.last_challenge = now]
<1>1. /\ r \in Session /\ r.peers = s.peers /\ r.index = s.index
      /\ r.counter = s.counter
  BY DEF Session
<1>2. Challenging(s, controls) = [r EXCEPT !.controls = controls]
  BY DEF Challenging
<1> HIDE DEF r
<1> QED
  BY <1>1, <1>2 DEF Session

LEMMA ChallengedTyped ==
  ASSUME NEW p \in Peer, now \in Nat, stamp \in Nat
  PROVE  /\ Challenged(p) \in Peer /\ Challenged(p).nonce = stamp
         /\ Challenged(p).index = p.index /\ Challenged(p).counter = p.counter
         /\ Challenged(p).since = p.since /\ Challenged(p).taken = p.taken
         /\ Challenged(p).at = p.at
<1> DEFINE r == [p EXCEPT !.nonce = stamp]
<1>1. /\ r \in Peer /\ r.nonce = stamp /\ r.index = p.index /\ r.counter = p.counter
      /\ r.since = p.since /\ r.taken = p.taken /\ r.at = p.at
  BY DEF Peer
<1>2. Challenged(p) = [r EXCEPT !.until = now + CHALLENGE_MS]
  BY DEF Challenged
<1> HIDE DEF r
<1>3. now + CHALLENGE_MS \in Nat
  BY DEF CHALLENGE_MS
<1> QED
  BY <1>1, <1>2, <1>3 DEF Peer

LEMMA ProvedTyped ==
  ASSUME NEW p \in Peer, NEW d, now \in Nat,
         d.index \in Nat, d.pc \in Nat, d.at \in Nat
  PROVE  /\ Proved(p, d) \in Peer
         /\ Proved(p, d).nonce = 0 /\ Proved(p, d).index = d.index
         /\ Proved(p, d).since = p.nonce /\ Proved(p, d).taken = 1
         /\ \A c \in Classes : Proved(p, d).counter[c] = d.pc /\ Proved(p, d).at[c] = d.at
<1>1. now + EXPIRE_MS \in Nat
  BY DEF EXPIRE_MS
<1> QED
  BY <1>1 DEF Peer, Proved

LEMMA CountedTyped ==
  ASSUME NEW p \in Peer, NEW d, now \in Nat, d.pc \in Nat, d.at \in Nat
  PROVE  /\ Counted(p, d) \in Peer
         /\ Counted(p, d).nonce = p.nonce /\ Counted(p, d).index = p.index
         /\ Counted(p, d).since = p.since /\ Counted(p, d).taken = p.taken + 1
         /\ \A c \in Classes :
               /\ Counted(p, d).counter[c] = IF c = ClassOf(d) THEN d.pc ELSE p.counter[c]
               /\ Counted(p, d).at[c] = IF c = ClassOf(d) THEN d.at ELSE p.at[c]
<1> DEFINE c == ClassOf(d)
<1> DEFINE o == [p EXCEPT !.counter[c] = d.pc]
<1> DEFINE r == [o EXCEPT !.expires = now + EXPIRE_MS]
<1> DEFINE u == [r EXCEPT !.taken = r.taken + 1]
<1>1. now + EXPIRE_MS \in Nat
  BY DEF EXPIRE_MS
<1>2. c \in Classes
  BY DEF ClassOf, Classes
<1>3. Counted(p, d) = [u EXCEPT !.at[c] = d.at]
  BY DEF Counted
<1> HIDE DEF c
<1>4. /\ o \in Peer /\ o.nonce = p.nonce /\ o.index = p.index
      /\ o.counter = [p.counter EXCEPT ![c] = d.pc]
      /\ o.since = p.since /\ o.taken = p.taken /\ o.at = p.at
  BY <1>2 DEF Peer
<1> HIDE DEF o
<1>5. /\ r \in Peer /\ r.nonce = p.nonce /\ r.index = p.index
      /\ r.counter = o.counter
      /\ r.since = p.since /\ r.taken = p.taken /\ r.at = p.at
  BY <1>1, <1>4 DEF Peer
<1> HIDE DEF r
<1>6. /\ u \in Peer /\ u.nonce = p.nonce /\ u.index = p.index
      /\ u.counter = o.counter
      /\ u.since = p.since /\ u.taken = p.taken + 1 /\ u.at = p.at
  BY <1>5 DEF Peer
<1> HIDE DEF u
<1>7. /\ Counted(p, d) \in Peer /\ Counted(p, d).nonce = p.nonce
      /\ Counted(p, d).index = p.index
      /\ Counted(p, d).counter = o.counter
      /\ Counted(p, d).since = p.since /\ Counted(p, d).taken = p.taken + 1
      /\ Counted(p, d).at = [p.at EXCEPT ![c] = d.at]
  BY <1>2, <1>3, <1>6 DEF Peer
<1> QED
  BY <1>2, <1>4, <1>7 DEF c, Peer

LEMMA Fields ==
  ASSUME Typed, NEW n \in Nodes
  PROVE  /\ sessions[n] \in Session
         /\ sessions[n].index \in Nat /\ sessions[n].counter \in Nat
         /\ sessions[n].controls \in Seq(Controls)
         /\ sessions[n].peers \in [Nodes -> Peer]
         /\ \A m \in Nodes : sessions[n].peers[m].nonce \in Nat
<1>1. sessions[n] \in Session
  BY DEF Typed
<1>2. sessions[n].peers \in [Nodes -> Peer]
  BY <1>1 DEF Session
<1> QED
  BY <1>1, <1>2 DEF Session, Peer

LEMMA RolledFacts ==
  ASSUME IInv, NEW n \in Nodes
  PROVE  /\ Rolled(sessions[n]) \in Session
         /\ Rolled(sessions[n]).peers = sessions[n].peers
         /\ Rolled(sessions[n]).index # 0 /\ Rolled(sessions[n]).index < stamp + 1
         /\ \A d \in net : d.from = n /\ d.index = Rolled(sessions[n]).index =>
                            d.pc < Rolled(sessions[n]).counter
<1> USE DEF IInv
<1>1. /\ sessions[n] \in Session /\ sessions[n].index \in Nat
      /\ stamp \in Nat /\ \A d \in net : d.index \in Nat
  BY Fields DEF Typed
<1>2. CASE sessions[n].counter = MaxCounter
  <2>1. stamp # 0 /\ \A d \in net : d.index # stamp
    BY <1>1 DEF Past
  <2> QED
    BY <1>1, <1>2, <2>1, RolledTyped
<1>3. CASE sessions[n].counter # MaxCounter
  <2>1. Rolled(sessions[n]) = sessions[n]
    BY <1>1, <1>3, RolledTyped
  <2> QED
    BY <1>1, <2>1 DEF Past, Counting
<1> QED
  BY <1>2, <1>3

-----------------------------------------------------------------------------
(* Every step keeps the invariant *)

\* A datagram signed with session s, the present one or one with a new index.
LEMMA SentKeepsIInv ==
  ASSUME IInv, NEW n \in Nodes, NEW s \in Session, NEW packet \in Packets,
         NEW to, NEW controls \in Seq(Controls),
         s.peers = sessions[n].peers,
         s.index # 0, s.index < stamp + 1,
         \A d \in net : d.from = n /\ d.index = s.index => d.pc < s.counter,
         packet.nonce < stamp,
         \A i \in DOMAIN controls : controls[i].packet.nonce < stamp,
         Sent(n, s, packet, to, controls)
  PROVE  IInv'
<1> DEFINE x == Datagram(n, s, packet, to)
<1> DEFINE t == sessions'[n]
<1>0. Typed /\ Past /\ Sequenced /\ Counting /\ Entries
  BY DEF IInv
<1>1. /\ x.from = n /\ x.packet = packet /\ x.at = stamp /\ x.pc = s.counter
      /\ x.index = (IF s.config.keys = {} THEN 0 ELSE s.index)
  BY DEF Datagram
<1>2. net' = net \cup {x} /\ stamp' = stamp + 1 /\ UNCHANGED <<now, opened, budget>>
  BY DEF Sent
<1>3. /\ t \in Session /\ t.peers = sessions[n].peers /\ t.index = s.index
      /\ t.counter = (IF s.config.keys = {} THEN s.counter ELSE s.counter + 1)
      /\ t.controls = controls
      /\ sessions' = [sessions EXCEPT ![n] = t]
  <2>1. t = CountedOn(s, controls) /\ sessions' = [sessions EXCEPT ![n] = t]
    BY <1>0 DEF Sent, Typed
  <2> HIDE DEF t
  <2> QED
    BY <2>1, CountedOnTyped
<1>4. /\ \A m \in Nodes : sessions'[m] = IF m = n THEN t ELSE sessions[m]
      /\ s.counter \in Nat /\ s.index \in Nat /\ stamp \in Nat
  BY <1>0, <1>3 DEF Typed, Session
<1>5. Session' = Session
  BY <1>2 DEF Session, Given
<1> HIDE DEF x, t
<1>6. Typed'
  BY <1>0, <1>1, <1>2, <1>3, <1>4, <1>5 DEF Typed
<1>7. Past'
  <2>1. \A d \in net' : d.packet.nonce < d.at /\ d.at < stamp' /\ d.index < stamp'
    BY <1>0, <1>1, <1>2, <1>4 DEF Past, Typed, Packets
  <2>2. \A m \in Nodes : sessions'[m].index # 0 /\ sessions'[m].index < stamp'
    BY <1>0, <1>2, <1>3, <1>4, Fields DEF Past
  <2>3. \A m \in Nodes : \A i \in DOMAIN sessions'[m].controls :
           sessions'[m].controls[i].packet.nonce < stamp'
    <3> TAKE m \in Nodes
    <3>1. sessions'[m].controls \in Seq(Controls)
      BY <1>0, <1>3, <1>4, Fields
    <3>2. \A i \in DOMAIN sessions'[m].controls :
             sessions'[m].controls[i].packet.nonce < stamp
      BY <1>0, <1>3, <1>4 DEF Past
    <3> QED
      BY <1>2, <1>4, <3>1, <3>2, ControlFields
  <2> QED
    BY <2>1, <2>2, <2>3 DEF Past
<1>8. Sequenced'
  <2> SUFFICES ASSUME NEW d \in net', NEW e \in net',
                      d.from = e.from, d.index = e.index, d.index # 0, d.pc < e.pc
               PROVE  d.at < e.at
    BY DEF Sequenced
  <2>1. CASE d \in net /\ e \in net
    BY <1>0, <2>1 DEF Sequenced
  <2>2. CASE d \in net /\ e = x
    BY <1>0, <1>1, <2>2 DEF Past
  <2>3. CASE d = x /\ e \in net
    BY <1>0, <1>1, <1>4, <2>3 DEF Typed
  <2>4. CASE d = x /\ e = x
    BY <1>1, <1>4, <2>4
  <2> QED
    BY <1>2, <2>1, <2>2, <2>3, <2>4
<1>9. Counting'
  <2> SUFFICES ASSUME NEW d \in net', d.index = sessions'[d.from].index
               PROVE  d.pc < sessions'[d.from].counter
    BY DEF Counting
  <2>1. CASE d \in net /\ d.from # n
    BY <1>0, <1>4, <2>1 DEF Counting, Typed
  <2>2. CASE d \in net /\ d.from = n
    BY <1>0, <1>3, <1>4, <2>2 DEF Typed
  <2>3. CASE d = x
    BY <1>1, <1>3, <1>4, <2>3
  <2> QED
    BY <1>2, <2>1, <2>2, <2>3
<1>10. Entries'
  <2> USE DEF Entries
  <2> TAKE k \in Nodes, m \in Nodes
  <2> DEFINE p == sessions[k].peers[m]
  <2>1. p' = p
    BY <1>3, <1>4
  <2>2. p.nonce < stamp /\ Witnessed(p, m) /\ p.nonce \in Nat
    BY <1>0, Fields DEF Entries
  <2> QED
    BY <1>2, <1>4, <2>1, <2>2 DEF Witnessed
<1> QED
  BY <1>6, <1>7, <1>8, <1>9, <1>10 DEF IInv

\* A session that changes other than by signing.
LEMMA SessionKeepsIInv ==
  ASSUME IInv, NEW n \in Nodes, NEW t \in Session,
         t.index = sessions[n].index, t.counter = sessions[n].counter,
         stamp' \in Nat, stamp <= stamp',
         \A i \in DOMAIN t.controls : t.controls[i].packet.nonce < stamp',
         \A m \in Nodes : t.peers[m].nonce < stamp' /\ Witnessed(t.peers[m], m),
         sessions' = [sessions EXCEPT ![n] = t],
         UNCHANGED <<now, net, opened, budget>>
  PROVE  IInv'
<1>0. Typed /\ Past /\ Sequenced /\ Counting /\ Entries
  BY DEF IInv
<1>1. \A m \in Nodes : sessions'[m] = IF m = n THEN t ELSE sessions[m]
  BY <1>0 DEF Typed
<1>2. Session' = Session
  BY DEF Session, Given
<1>3. Typed'
  BY <1>0, <1>1, <1>2 DEF Typed
<1>4. Past'
  <2>1. \A d \in net : d.packet.nonce < d.at /\ d.at < stamp' /\ d.index < stamp'
    BY <1>0 DEF Past, Typed
  <2>2. \A m \in Nodes : sessions'[m].index # 0 /\ sessions'[m].index < stamp'
    BY <1>0, <1>1, Fields DEF Past, Typed
  <2>3. \A m \in Nodes : \A i \in DOMAIN sessions'[m].controls :
           sessions'[m].controls[i].packet.nonce < stamp'
    <3> TAKE m \in Nodes
    <3>1. CASE m = n
      BY <1>1, <3>1
    <3>2. CASE m # n
      <4>1. \A i \in DOMAIN sessions[m].controls :
              /\ sessions[m].controls[i].packet.nonce \in Nat
              /\ sessions[m].controls[i].packet.nonce < stamp
        BY <1>0, Fields, ControlFields DEF Past
      <4> QED
        BY <1>0, <1>1, <3>2, <4>1 DEF Typed
    <3> QED
      BY <3>1, <3>2
  <2> QED
    BY <2>1, <2>2, <2>3 DEF Past
<1>5. Sequenced' /\ Counting'
  BY <1>0, <1>1 DEF Sequenced, Counting, Typed
<1>6. \A k, m \in Nodes : /\ sessions'[k].peers[m].nonce < stamp'
                          /\ Witnessed(sessions'[k].peers[m], m)
  BY <1>0, <1>1, Fields DEF Entries, Typed
<1>7. Entries'
  BY <1>6 DEF Entries, Witnessed
<1> QED
  BY <1>3, <1>4, <1>5, <1>7 DEF IInv

\* What a received datagram may make of the entries of a session.
LEMMA KeepsIInv ==
  ASSUME IInv, NEW n \in Nodes, NEW m \in Nodes, NEW s \in Session, NEW p \in Peer,
         s.index = sessions[n].index, s.counter = sessions[n].counter,
         \A k \in Nodes : s.peers[k] \in {sessions[n].peers[k], NoPeer},
         stamp' \in Nat, stamp <= stamp',
         \A i \in DOMAIN s.controls : s.controls[i].packet.nonce < stamp',
         p.nonce < stamp', Witnessed(p, m),
         Keeps(n, s, m, p)
  PROVE  IInv'
<1> DEFINE t == [s EXCEPT !.peers[m] = p]
<1>1. /\ t \in Session /\ t.index = s.index /\ t.counter = s.counter
      /\ t.controls = s.controls
      /\ t.peers = [s.peers EXCEPT ![m] = p]
  BY DEF Session
<1>2. sessions' = [sessions EXCEPT ![n] = t] /\ UNCHANGED <<now, net, opened, budget>>
  BY DEF Keeps
<1> HIDE DEF t
<1>3. \A k \in Nodes : t.peers[k] = IF k = m THEN p ELSE s.peers[k]
  BY <1>1 DEF Session
<1>4. \A k \in Nodes : t.peers[k].nonce < stamp' /\ Witnessed(t.peers[k], k)
  <2> TAKE k \in Nodes
  <2>1. CASE k = m
    BY <1>3, <2>1
  <2>2. CASE k # m /\ s.peers[k] = sessions[n].peers[k]
    BY <1>3, <2>2, Fields DEF IInv, Entries, Typed
  <2>3. CASE k # m /\ s.peers[k] = NoPeer
    <3>1. stamp' # 0
      BY Fields DEF IInv, Past, Typed
    <3> QED
      BY <1>3, <2>3, <3>1 DEF Witnessed, NoPeer
  <2> QED
    BY <2>1, <2>2, <2>3
<1> QED
  BY <1>1, <1>2, <1>4, SessionKeepsIInv

\* What every examination starts from.
Sound(n, s, p, d) ==
    /\ s \in Session /\ p \in Peer
    /\ d.from \in Nodes /\ d.index \in Nat /\ d.pc \in Nat /\ d.at \in Nat
    /\ s.index = sessions[n].index /\ s.counter = sessions[n].counter
    /\ s.controls = << >>
    /\ \A k \in Nodes : s.peers[k] \in {sessions[n].peers[k], NoPeer}
    /\ p.nonce < stamp /\ Witnessed(p, d.from)
    /\ Noted(p, d) \in Peer
    /\ Noted(p, d).nonce < stamp /\ Witnessed(Noted(p, d), d.from)
    /\ Answer(p, d) \in Seq(Controls)
    /\ \A i \in DOMAIN Answer(p, d) : Answer(p, d)[i].packet.nonce < stamp
    /\ stamp \in Nat /\ stamp # 0 /\ now \in Nat

LEMMA Examined ==
  ASSUME IInv, NEW n \in Nodes, NEW d \in net, sessions[n].controls = << >>,
         NEW s, s = Live(sessions[n]), NEW p, p = Entry(s, d.from)
  PROVE  Sound(n, s, p, d)
<1>1. /\ sessions[n] \in Session /\ now \in Nat /\ stamp \in Nat
      /\ d.from \in Nodes /\ d.packet \in Packets /\ d.at \in Nat
      /\ d.packet.nonce < d.at /\ d.at < stamp /\ stamp # 0
  BY Fields DEF IInv, Typed, Past
<1>2. /\ s \in Session /\ s.index = sessions[n].index /\ s.counter = sessions[n].counter
      /\ s.controls = << >>
      /\ \A k \in Nodes : s.peers[k] \in {sessions[n].peers[k], NoPeer}
  BY <1>1, LiveTyped
<1>3. /\ p \in Peer
      /\ \/ p = s.peers[d.from]
         \/ p.index = 0 /\ p.nonce = 0
  BY <1>1, <1>2, EntryTyped
<1>4. p.nonce < stamp /\ Witnessed(p, d.from)
  <2>1. CASE p = sessions[n].peers[d.from]
    BY <1>1, <2>1 DEF IInv, Entries
  <2>2. CASE p.index = 0 /\ p.nonce = 0
    BY <1>1, <2>2 DEF Witnessed
  <2>3. CASE p = NoPeer
    BY <1>1, <2>3 DEF Witnessed, NoPeer
  <2> QED
    BY <1>1, <1>2, <1>3, <2>1, <2>2, <2>3
<1>5. /\ Noted(p, d) \in Peer
      /\ Noted(p, d).nonce < stamp /\ Witnessed(Noted(p, d), d.from)
  BY <1>1, <1>3, <1>4, NotedTyped DEF Witnessed
<1>6. /\ Answer(p, d) \in Seq(Controls)
      /\ \A i \in DOMAIN Answer(p, d) : Answer(p, d)[i].packet.nonce < stamp
  BY <1>1, AnswerTyped DEF Packets
<1>7. d.index \in Nat /\ d.pc \in Nat
  BY DEF IInv, Typed
<1> QED
  BY <1>1, <1>2, <1>3, <1>4, <1>5, <1>6, <1>7 DEF Sound

LEMMA VerifyIInv ==
  ASSUME IInv, NEW n \in Nodes, NEW d \in net, NEW s, NEW p, Sound(n, s, p, d),
         Verify(n, s, p, d)
  PROVE  IInv'
<1>1. Proved(p, d).nonce = 0 /\ Proved(p, d) \in Peer
  BY ProvedTyped DEF Sound
<1>2. Witnessed(Proved(p, d), d.from)
  <2>1. p.nonce # 0
    BY DEF Verify, Proves
  <2> DEFINE q == Proved(p, d)
  <2>2. q.index = d.index /\ q.since = p.nonce
    BY ProvedTyped DEF Sound
  <2>3. \A c \in Classes : q.counter[c] = d.pc /\ q.at[c] = d.at
    BY ProvedTyped DEF Sound
  <2> HIDE DEF q
  <2>4. Witnessed(q, d.from)
    BY <2>1, <2>2, <2>3 DEF Witnessed
  <2> QED
    BY <2>4 DEF q
<1>3. Keeps(n, s, d.from, Proved(p, d)) /\ stamp' = stamp
  BY DEF Verify
<1>4. stamp' \in Nat /\ stamp <= stamp' /\ Proved(p, d).nonce < stamp'
  BY <1>1, <1>3 DEF Sound
<1>5. \A i \in DOMAIN s.controls : s.controls[i].packet.nonce < stamp'
  BY DEF Sound
<1> QED
  BY <1>1, <1>2, <1>3, <1>4, <1>5, KeepsIInv DEF Sound

LEMMA AcceptIInv ==
  ASSUME IInv, NEW n \in Nodes, NEW d \in net, NEW s, NEW p, Sound(n, s, p, d),
         Accept(n, s, p, d)
  PROVE  IInv'
<1> DEFINE t == [s EXCEPT !.controls = Answer(p, d)]
<1> DEFINE q == Noted(p, d)
<1> DEFINE r == Counted(q, d)
<1>1. Keeps(n, t, d.from, r) /\ stamp' = stamp /\ d.index = p.index
  BY DEF Accept, Believed
<1>2. q.index = p.index /\ q \in Peer /\ q.nonce < stamp /\ Witnessed(q, d.from)
  BY NotedTyped DEF Sound
<1>3. s \in Session /\ Answer(p, d) \in Seq(Controls)
  BY DEF Sound
<1>4. /\ t \in Session /\ t.peers = s.peers /\ t.index = s.index
      /\ t.counter = s.counter /\ t.controls = Answer(p, d)
  BY <1>3 DEF Session
<1> HIDE DEF t, q
<1>5. /\ r \in Peer /\ r.nonce = q.nonce /\ r.index = q.index /\ r.since = q.since
      /\ \A c \in Classes :
            /\ r.counter[c] = IF c = ClassOf(d) THEN d.pc ELSE q.counter[c]
            /\ r.at[c] = IF c = ClassOf(d) THEN d.at ELSE q.at[c]
  BY <1>2, CountedTyped DEF Sound
<1> HIDE DEF r
<1>6. Witnessed(r, d.from)
  BY <1>1, <1>2, <1>5 DEF Witnessed
<1>7. /\ t.index = sessions[n].index /\ t.counter = sessions[n].counter
      /\ d.from \in Nodes
      /\ \A k \in Nodes : t.peers[k] \in {sessions[n].peers[k], NoPeer}
      /\ \A i \in DOMAIN t.controls : t.controls[i].packet.nonce < stamp'
  BY <1>1, <1>4 DEF Sound
<1>8. stamp' \in Nat /\ stamp <= stamp' /\ r.nonce < stamp'
  BY <1>1, <1>2, <1>5 DEF Sound
<1> QED
  BY <1>1, <1>4, <1>5, <1>6, <1>7, <1>8, KeepsIInv

\* Starve and Ignore: the peer's entry is only noted, and controls prepared so
\* far are sent or dropped.
LEMMA NotedIInv ==
  ASSUME IInv, NEW n \in Nodes, NEW d \in net, NEW s, NEW p, Sound(n, s, p, d),
         NEW controls \in {<< >>, Answer(p, d)},
         Keeps(n, [s EXCEPT !.controls = controls], d.from, Noted(p, d)), stamp' = stamp
  PROVE  IInv'
<1> DEFINE t == [s EXCEPT !.controls = controls]
<1>0. << >> \in Seq(Controls)
  OBVIOUS
<1>1. s \in Session /\ controls \in Seq(Controls)
  BY <1>0 DEF Sound
<1>2. /\ t \in Session /\ t.peers = s.peers /\ t.index = s.index
      /\ t.counter = s.counter /\ t.controls = controls
  BY <1>1 DEF Session
<1>3. Keeps(n, t, d.from, Noted(p, d))
  OBVIOUS
<1> HIDE DEF t
<1>4. /\ t.index = sessions[n].index /\ t.counter = sessions[n].counter
      /\ d.from \in Nodes /\ stamp' \in Nat /\ stamp <= stamp'
      /\ \A k \in Nodes : t.peers[k] \in {sessions[n].peers[k], NoPeer}
      /\ \A i \in DOMAIN t.controls : t.controls[i].packet.nonce < stamp'
  BY <1>2 DEF Sound
<1> QED
  BY <1>2, <1>3, <1>4, KeepsIInv DEF Sound

LEMMA ChallengeIInv ==
  ASSUME IInv, NEW n \in Nodes, NEW d \in net, NEW s, NEW p, Sound(n, s, p, d),
         Challenge(n, s, p, d)
  PROVE  IInv'
<1> DEFINE request == Control(Request(stamp), d.from)
<1> DEFINE controls == Append(Answer(p, d), request)
<1> DEFINE t == Challenging(s, controls)
<1> DEFINE q == Challenged(Noted(p, d))
<1>1. Keeps(n, t, d.from, q) /\ stamp' = stamp + 1
  BY DEF Challenge
<1>2. request \in Controls /\ request.packet.nonce = stamp
  <2>1. Request(stamp) \in Packets /\ Request(stamp).nonce = stamp
    BY DEF Request, Packets, Sound
  <2> QED
    BY <2>1 DEF Control, Controls, Sound
<1> HIDE DEF request
<1>3. /\ controls \in Seq(Controls)
      /\ \A i \in DOMAIN controls : controls[i].packet.nonce < stamp + 1
  <2> DEFINE answer == Answer(p, d)
  <2>1. answer \in Seq(Controls) /\ \A i \in DOMAIN answer : answer[i].packet.nonce < stamp
    BY DEF Sound
  <2>2. stamp \in Nat
    BY DEF Sound
  <2> HIDE DEF answer
  <2>3. \A i \in DOMAIN answer : answer[i].packet.nonce \in Nat
    BY <2>1, ControlFields
  <2>4. Append(answer, request) \in Seq(Controls)
    BY <1>2, <2>1
  <2>5. \A i \in DOMAIN Append(answer, request) :
           \/ i \in DOMAIN answer /\ Append(answer, request)[i] = answer[i]
           \/ Append(answer, request)[i] = request
    BY <1>2, <2>1
  <2> QED
    BY <1>2, <2>1, <2>2, <2>3, <2>4, <2>5 DEF answer
<1> HIDE DEF controls
<1>4. /\ t \in Session /\ t.peers = s.peers /\ t.index = s.index
      /\ t.counter = s.counter /\ t.controls = controls
  BY <1>3, ChallengingTyped DEF Sound
<1> HIDE DEF t
<1>5. q \in Peer /\ q.nonce = stamp /\ Witnessed(q, d.from)
  BY ChallengedTyped DEF Sound, Witnessed
<1> HIDE DEF q
<1>6. /\ t.index = sessions[n].index /\ t.counter = sessions[n].counter
      /\ d.from \in Nodes /\ stamp' \in Nat /\ stamp <= stamp' /\ q.nonce < stamp'
      /\ \A k \in Nodes : t.peers[k] \in {sessions[n].peers[k], NoPeer}
      /\ \A i \in DOMAIN t.controls : t.controls[i].packet.nonce < stamp'
  BY <1>1, <1>3, <1>4, <1>5 DEF Sound
<1> QED
  BY <1>1, <1>4, <1>5, <1>6, KeepsIInv

LEMMA ClockIInv ==
  ASSUME IInv, now' \in Nat, UNCHANGED <<sessions, net, stamp, opened, budget>>
  PROVE  IInv'
<1>1. Session' = Session
  BY DEF Session, Given
<1>2. Typed'
  BY <1>1 DEF IInv, Typed
<1>3. Past' /\ Sequenced' /\ Counting'
  BY DEF IInv, Past, Sequenced, Counting
<1>4. Entries'
  BY DEF IInv, Entries, Witnessed
<1> QED
  BY <1>2, <1>3, <1>4 DEF IInv

LEMMA ReceiveIInv ==
  ASSUME IInv, NEW n \in Nodes, NEW d \in net, Receive(n, d)
  PROVE  IInv'
<1> DEFINE s == Live(sessions[n])
<1> DEFINE p == Entry(s, d.from)
<1>1. sessions[n].controls = << >>
  BY DEF Receive
<1>2. Sound(n, s, p, d)
  BY <1>1, Examined
<1>3. CASE UNCHANGED vars
  BY <1>2, <1>3, ClockIInv DEF vars, Sound
<1>4. CASE Refuse(n, d)
  <2>1. sessions' = [sessions EXCEPT ![n] = s] /\ UNCHANGED <<now, net, stamp, opened, budget>>
    BY <1>4 DEF Refuse
  <2>2. \A m \in Nodes : s.peers[m].nonce < stamp /\ Witnessed(s.peers[m], m)
    <3> TAKE m \in Nodes
    <3>1. CASE s.peers[m] = sessions[n].peers[m]
      BY <3>1 DEF IInv, Entries
    <3>2. CASE s.peers[m] = NoPeer
      BY SMTT(40), <1>2, <3>2 DEF Sound, NoPeer, Witnessed
    <3> QED
      BY <1>2, <3>1, <3>2 DEF Sound
  <2>3. /\ s \in Session /\ s.index = sessions[n].index /\ s.counter = sessions[n].counter
        /\ s.controls = << >> /\ stamp \in Nat
    BY <1>2 DEF Sound
  <2> HIDE DEF s
  <2>4. /\ stamp' \in Nat /\ stamp <= stamp'
        /\ \A i \in DOMAIN s.controls : s.controls[i].packet.nonce < stamp'
        /\ \A m \in Nodes : s.peers[m].nonce < stamp' /\ Witnessed(s.peers[m], m)
    BY <2>1, <2>2, <2>3
  <2> QED
    BY <2>1, <2>3, <2>4, SessionKeepsIInv
<1>5. CASE Examine(n, s, p, d)
  <2> HIDE DEF s, p
  <2>1. CASE Verify(n, s, p, d)
    BY <1>2, <2>1, VerifyIInv
  <2>2. CASE Accept(n, s, p, d)
    BY <1>2, <2>2, AcceptIInv
  <2>3. CASE Challenge(n, s, p, d)
    BY <1>2, <2>3, ChallengeIInv
  <2>4. CASE Starve(n, s, p, d)
    <3>1. /\ Keeps(n, [s EXCEPT !.controls = << >>], d.from, Noted(p, d))
          /\ stamp' = stamp
      BY <2>4 DEF Starve
    <3> QED
      BY <1>2, <3>1, NotedIInv
  <2>5. CASE Ignore(n, s, p, d)
    <3>1. /\ Keeps(n, [s EXCEPT !.controls = Answer(p, d)], d.from, Noted(p, d))
          /\ stamp' = stamp
      BY <2>5 DEF Ignore
    <3> QED
      BY <1>2, <3>1, NotedIInv
  <2> QED
    BY <1>5, <2>1, <2>2, <2>3, <2>4, <2>5 DEF Examine
<1> QED
  BY <1>3, <1>4, <1>5 DEF Receive

LEMMA SendIInv ==
  ASSUME IInv, NEW n \in Nodes, NEW to, Send(n, to)
  PROVE  IInv'
<1>1. sessions[n].controls \in Seq(Controls) /\ stamp \in Nat /\ stamp # 0
  BY Fields DEF IInv, Typed, Past
<1>2. \A i \in DOMAIN sessions[n].controls : sessions[n].controls[i].packet.nonce < stamp
  BY DEF IInv, Past
<1>3. Routing \in Packets /\ Routing.nonce < stamp
  BY <1>1 DEF Routing, Packets
<1>4. Sent(n, Rolled(sessions[n]), Routing, to, sessions[n].controls)
  BY DEF Send
<1> QED
  BY <1>1, <1>2, <1>3, <1>4, RolledFacts, SentKeepsIInv

LEMMA SendControlIInv ==
  ASSUME IInv, NEW n \in Nodes, SendControl(n)
  PROVE  IInv'
<1> DEFINE q == sessions[n].controls
<1>1. q \in Seq(Controls) /\ q # << >>
  BY Fields DEF IInv, SendControl
<1>2. \A i \in DOMAIN q : q[i].packet.nonce < stamp
  BY DEF IInv, Past
<1>3. Sent(n, Rolled(sessions[n]), Head(q).packet, Head(q).to, Tail(q))
  BY DEF SendControl
<1> HIDE DEF q
<1>4. 1 \in DOMAIN q /\ Head(q) = q[1]
  BY <1>1
<1>5. Head(q).packet \in Packets /\ Head(q).packet.nonce < stamp
  BY <1>1, <1>2, <1>4, ControlFields
<1>6. /\ Tail(q) \in Seq(Controls)
      /\ \A i \in DOMAIN Tail(q) : i + 1 \in DOMAIN q /\ Tail(q)[i] = q[i + 1]
  BY <1>1
<1>7. \A i \in DOMAIN Tail(q) : Tail(q)[i].packet.nonce < stamp
  BY <1>2, <1>6
<1> QED
  BY <1>3, <1>5, <1>6, <1>7, RolledFacts, SentKeepsIInv

LEMMA DropControlIInv ==
  ASSUME IInv, NEW n \in Nodes, DropControl(n)
  PROVE  IInv'
<1> DEFINE s == sessions[n]
<1> DEFINE q == sessions[n].controls
<1> DEFINE t == [s EXCEPT !.controls = Tail(q)]
<1>1. s \in Session /\ q \in Seq(Controls) /\ q # << >> /\ stamp \in Nat
  BY Fields DEF IInv, DropControl, Typed
<1>2. \A i \in DOMAIN q : q[i].packet.nonce < stamp
  BY DEF IInv, Past
<1>3. /\ sessions' = [sessions EXCEPT ![n] = t]
      /\ UNCHANGED <<now, net, stamp, opened, budget>>
  BY DEF DropControl
<1>4. \A m \in Nodes : s.peers[m].nonce < stamp /\ Witnessed(s.peers[m], m)
  BY DEF IInv, Entries
<1> HIDE DEF q
<1>5. /\ Tail(q) \in Seq(Controls)
      /\ \A i \in DOMAIN Tail(q) : i + 1 \in DOMAIN q /\ Tail(q)[i] = q[i + 1]
  BY <1>1
<1>6. \A i \in DOMAIN Tail(q) : Tail(q)[i].packet.nonce < stamp
  BY <1>2, <1>5
<1>7. /\ t \in Session /\ t.peers = s.peers /\ t.index = s.index
      /\ t.counter = s.counter /\ t.controls = Tail(q)
  BY <1>1, <1>5 DEF Session
<1> HIDE DEF t
<1>8. /\ stamp' \in Nat /\ stamp <= stamp'
      /\ \A i \in DOMAIN t.controls : t.controls[i].packet.nonce < stamp'
      /\ \A m \in Nodes : t.peers[m].nonce < stamp' /\ Witnessed(t.peers[m], m)
  BY <1>1, <1>3, <1>4, <1>6, <1>7
<1> QED
  BY <1>3, <1>7, <1>8, SessionKeepsIInv

LEMMA ReopenIInv ==
  ASSUME IInv, NEW n \in Nodes, NEW config \in budget.configs[n], Reopen(n, config)
  PROVE  IInv'
<1> DEFINE t == NewSession(config, stamp)
<1>0. Typed /\ Past /\ Sequenced /\ Counting /\ Entries
  BY DEF IInv
<1>1. stamp \in Nat /\ stamp # 0
  BY <1>0, Fields DEF Typed, Past
<1>2. /\ sessions' = [sessions EXCEPT ![n] = t]
      /\ stamp' = stamp + 1 /\ opened' = opened + 1 /\ UNCHANGED <<now, net, budget>>
  BY DEF Reopen
<1>3. /\ t \in Session /\ t.index = stamp /\ t.counter = 0 /\ t.controls = << >>
      /\ \A m \in Nodes : t.peers[m] = NoPeer
  <2>1. config \in Given
    BY DEF Given
  <2> QED
    BY <1>1, <2>1, NewSessionTyped DEF NewSession
<1> HIDE DEF t
<1>4. \A m \in Nodes : sessions'[m] = IF m = n THEN t ELSE sessions[m]
  BY <1>0, <1>2 DEF Typed
<1>5. Session' = Session
  BY <1>2 DEF Session, Given
<1>6. Typed'
  BY <1>0, <1>2, <1>3, <1>4, <1>5 DEF Typed
<1>7. Past'
  <2>1. \A d \in net : d.packet.nonce < d.at /\ d.at < stamp' /\ d.index < stamp'
    BY <1>0, <1>1, <1>2 DEF Past, Typed
  <2>2. \A m \in Nodes : sessions'[m].index # 0 /\ sessions'[m].index < stamp'
    BY <1>0, <1>1, <1>2, <1>3, <1>4, Fields DEF Past
  <2>3. \A m \in Nodes : \A i \in DOMAIN sessions'[m].controls :
           sessions'[m].controls[i].packet.nonce < stamp'
    <3> TAKE m \in Nodes
    <3>1. CASE m = n
      BY <1>3, <1>4, <3>1
    <3>2. CASE m # n
      <4>1. \A i \in DOMAIN sessions[m].controls :
              /\ sessions[m].controls[i].packet.nonce \in Nat
              /\ sessions[m].controls[i].packet.nonce < stamp
        BY <1>0, Fields, ControlFields DEF Past
      <4> QED
        BY <1>1, <1>2, <1>4, <3>2, <4>1
    <3> QED
      BY <3>1, <3>2
  <2> QED
    BY <1>2, <2>1, <2>2, <2>3 DEF Past
<1>8. Sequenced'
  BY <1>0, <1>2 DEF Sequenced
<1>9. Counting'
  <2>1. \A d \in net : d.index # stamp /\ d.from \in Nodes
    BY <1>0, <1>1 DEF Past, Typed
  <2> QED
    BY <1>0, <1>2, <1>3, <1>4, <2>1 DEF Counting
<1>10. \A k, m \in Nodes : (/\ sessions[k].peers[m].nonce < stamp
                            /\ Witnessed(sessions[k].peers[m], m))'
  <2> TAKE k \in Nodes, m \in Nodes
  <2>1. CASE k = n
    BY <1>1, <1>2, <1>3, <1>4, <2>1 DEF NoPeer, Witnessed
  <2>2. CASE k # n
    <3>1. /\ sessions[k].peers[m].nonce \in Nat /\ sessions[k].peers[m].nonce < stamp
          /\ Witnessed(sessions[k].peers[m], m)
      BY <1>0, Fields DEF Entries
    <3>2. sessions'[k].peers[m] = sessions[k].peers[m] /\ net' = net
      BY <1>2, <1>4, <2>2
    <3> QED
      BY <1>1, <1>2, <3>1, <3>2 DEF Witnessed
  <2> QED
    BY <2>1, <2>2
<1>11. Entries'
  BY Zenon, <1>10 DEF Entries
<1> QED
  BY Zenon, <1>6, <1>7, <1>8, <1>9, <1>11 DEF IInv

LEMMA NextIInv ==
  ASSUME IInv, [Next]_vars
  PROVE  IInv'
<1>1. ASSUME NEW n \in Nodes, NEW to, Send(n, to) PROVE IInv'
  BY <1>1, SendIInv
<1>2. ASSUME NEW n \in Nodes, SendControl(n) PROVE IInv'
  BY <1>2, SendControlIInv
<1>3. ASSUME NEW n \in Nodes, DropControl(n) PROVE IInv'
  BY <1>3, DropControlIInv
<1>4. ASSUME NEW n \in Nodes, NEW d \in net, Receive(n, d) PROVE IInv'
  BY <1>4, ReceiveIInv
<1>5. ASSUME NEW n \in Nodes, NEW config \in budget.configs[n], Reopen(n, config)
      PROVE  IInv'
  BY <1>5, ReopenIInv
<1>6. CASE Advance
  <2>1. now' \in Nat
    BY <1>6, MacAssumption DEF Advance, IInv, Typed
  <2> QED
    BY <1>6, <2>1, ClockIInv DEF Advance
<1>7. CASE UNCHANGED vars
  BY <1>7, ClockIInv DEF vars, IInv, Typed
<1> QED
  BY <1>1, <1>2, <1>3, <1>4, <1>5, <1>6, <1>7 DEF Next

\* A peer whose present index is believed is never locked out, whatever the
\* width of the counter and however often sockets are opened again (sign
\* against receive_inner).
THEOREM NextAcceptedHolds == Spec => []NextAccepted
<1>1. IInv => NextAccepted
  <2> SUFFICES ASSUME IInv, NEW n \in Nodes, NEW m \in Nodes, NEW c \in Classes,
                      sessions[n].peers[m].index = sessions[m].index
               PROVE  sessions[n].peers[m].counter[c] < sessions[m].counter
    BY DEF NextAccepted
  <2>1. sessions[m].index # 0 /\ Witnessed(sessions[n].peers[m], m)
    BY DEF IInv, Past, Entries
  <2>2. PICK d \in net : /\ d.from = m /\ d.index = sessions[m].index
                         /\ d.pc = sessions[n].peers[m].counter[c]
    BY <2>1 DEF Witnessed
  <2> QED
    BY <2>2 DEF IInv, Counting
<1> QED
  BY <1>1, InitIInv, NextIInv, PTL DEF Spec

-----------------------------------------------------------------------------
(* Every step is a step of the abstract channels *)

View(p) == [mark |-> p.nonce, since |-> p.since, taken |-> p.taken, last |-> p.at]

Moves(i) ==
    \/ Authentic!Keep(i) \/ Authentic!Forget(i) \/ Authentic!Challenge(i)
    \/ Authentic!Verify(i) \/ Authentic!Accept(i)

LEMMA TrustView ==
  ASSUME NEW n \in Nodes, NEW m \in Nodes
  PROVE  /\ Trust[<<n, m>>] = View(sessions[n].peers[m])
         /\ Trust'[<<n, m>>] = View(sessions'[n].peers[m])
  BY DEF Trust, View

LEMMA ViewNoPeer == View(NoPeer) = Authentic!Unknown
  BY DEF View, NoPeer, Authentic!Unknown

LEMMA KeepMoves ==
  ASSUME NEW n \in Nodes, NEW m \in Nodes,
         View(sessions'[n].peers[m]) = View(sessions[n].peers[m])
  PROVE  Moves(<<n, m>>)
  BY TrustView DEF Moves, Authentic!Keep

LEMMA ForgetMoves ==
  ASSUME NEW n \in Nodes, NEW m \in Nodes,
         View(sessions'[n].peers[m]) = View(NoPeer)
  PROVE  Moves(<<n, m>>)
  BY TrustView, ViewNoPeer DEF Moves, Authentic!Forget

\* A step of node n's session: the entries of other peers than m are kept or
\* expire, and those of other nodes are untouched.
LEMMA KeepsMoves ==
  ASSUME IInv, NEW n \in Nodes, NEW m \in Nodes, NEW s \in Session, NEW p \in Peer,
         \A k \in Nodes : s.peers[k] \in {sessions[n].peers[k], NoPeer},
         Keeps(n, s, m, p),
         NEW i \in Nodes, NEW j \in Nodes, <<i, j>> # <<n, m>>
  PROVE  Moves(<<i, j>>)
<1>1. sessions \in [Nodes -> Session]
  BY DEF IInv, Typed
<1>2. sessions'[i] = IF i = n THEN [s EXCEPT !.peers[m] = p] ELSE sessions[i]
  BY <1>1 DEF Keeps
<1>3. CASE i # n
  BY <1>2, <1>3, KeepMoves
<1>4. CASE i = n /\ j # m
  <2>1. [s EXCEPT !.peers[m] = p].peers[j] = s.peers[j]
    BY <1>4 DEF Session
  <2>2. sessions'[i].peers[j] \in {sessions[i].peers[j], NoPeer}
    BY <1>2, <1>4, <2>1
  <2> QED
    BY <2>2, KeepMoves, ForgetMoves
<1> QED
  BY <1>3, <1>4

LEMMA KeepsEntry ==
  ASSUME IInv, NEW n \in Nodes, NEW m \in Nodes, NEW s \in Session, NEW p \in Peer,
         Keeps(n, s, m, p)
  PROVE  sessions'[n].peers[m] = p
<1>1. sessions'[n] = [s EXCEPT !.peers[m] = p]
  BY DEF IInv, Typed, Keeps
<1> QED
  BY <1>1 DEF Session

\* The entry an examination starts from shows what was known, or nothing.
LEMMA EntryView ==
  ASSUME IInv, NEW n \in Nodes, NEW d \in net,
         NEW s, s = Live(sessions[n]), NEW p, p = Entry(s, d.from)
  PROVE  View(p) \in {View(sessions[n].peers[d.from]), View(NoPeer)}
<1>1. sessions[n] \in Session /\ now \in Nat /\ d.from \in Nodes
  BY Fields DEF IInv, Typed
<1>2. s \in Session /\ s.peers[d.from] \in {sessions[n].peers[d.from], NoPeer}
  BY <1>1, LiveTyped
<1>3. CASE p = s.peers[d.from]
  BY <1>2, <1>3
<1>4. CASE /\ p.nonce = 0 /\ p.since = 0 /\ p.taken = 0
           /\ p.at = NoPeer.at
  BY <1>4 DEF View, NoPeer
<1> QED
  BY <1>1, <1>2, <1>3, <1>4, EntryTyped

LEMMA VerifyMoves ==
  ASSUME IInv, NEW n \in Nodes, NEW d \in net, NEW s, NEW p, Sound(n, s, p, d),
         View(p) \in {View(sessions[n].peers[d.from]), View(NoPeer)},
         Verify(n, s, p, d)
  PROVE  Moves(<<n, d.from>>)
<1> DEFINE q == Proved(p, d)
<1> DEFINE old == sessions[n].peers[d.from]
<1>1. p.nonce # 0 /\ d.packet.nonce = p.nonce
  BY DEF Verify, Proves
<1>2. View(p) = View(old)
  BY <1>1 DEF View, NoPeer
<1>3. q \in Peer /\ sessions'[n].peers[d.from] = q
  BY ProvedTyped, KeepsEntry DEF Verify, Sound
<1>4. d.at \in p.nonce + 1 .. stamp - 1
  <2>1. d.packet.nonce < d.at /\ d.at < stamp
    BY DEF IInv, Past
  <2>2. p.nonce \in Nat /\ d.at \in Nat /\ stamp \in Nat
    BY DEF Sound, Peer
  <2> QED
    BY SMTT(40), <1>1, <2>1, <2>2
<1>5. View(q) = [mark |-> 0, since |-> p.nonce, taken |-> 1, last |-> [c \in Classes |-> d.at]]
  <2>1. /\ q.nonce = 0 /\ q.since = p.nonce /\ q.taken = 1
        /\ \A c \in Classes : q.at[c] = d.at
    <3>1. /\ p \in Peer /\ now \in Nat
          /\ d.index \in Nat /\ d.pc \in Nat /\ d.at \in Nat
      BY DEF Sound
    <3> QED
      BY Zenon, <3>1, ProvedTyped
  <2>2. q.at \in [Classes -> Nat]
    BY <1>3 DEF Peer
  <2> HIDE DEF q
  <2>3. q.at = [c \in Classes |-> d.at]
    BY <2>1, <2>2
  <2> QED
    BY <2>1, <2>3 DEF View
<1>6. Trust[<<n, d.from>>] = View(old) /\ Trust'[<<n, d.from>>] = View(q)
  BY <1>3, TrustView DEF Sound
<1>7. View(old).mark = p.nonce
  BY <1>2 DEF View
<1> HIDE DEF q, old
<1>8. Authentic!Verify(<<n, d.from>>)
  BY <1>1, <1>4, <1>5, <1>6, <1>7 DEF Authentic!Verify
<1> QED
  BY <1>8 DEF Moves

LEMMA AcceptMoves ==
  ASSUME IInv, NEW n \in Nodes, NEW d \in net, NEW s, NEW p, Sound(n, s, p, d),
         View(p) \in {View(sessions[n].peers[d.from]), View(NoPeer)},
         Accept(n, s, p, d)
  PROVE  Moves(<<n, d.from>>)
<1> DEFINE q == Noted(p, d)
<1> DEFINE r == Counted(q, d)
<1> DEFINE c == ClassOf(d)
<1> DEFINE old == sessions[n].peers[d.from]
<1>1. d.index # 0 /\ d.index = p.index /\ d.pc > p.counter[c]
  BY DEF Accept, Believed, Newer
<1>2. /\ q \in Peer /\ q.index = p.index /\ q.counter = p.counter
      /\ q.since = p.since /\ View(q) = View(p) /\ p \in Peer /\ Witnessed(p, d.from)
      /\ d.at \in Nat /\ d.pc \in Nat /\ stamp \in Nat /\ d.from \in Nodes
  BY NotedTyped DEF View, Sound
<1>3. c \in Classes
  BY DEF ClassOf, Classes
<1>4. PICK e \in net : e.from = d.from /\ e.index = d.index /\ e.pc = p.counter[c] /\ e.at = p.at[c]
  BY <1>1, <1>2, <1>3 DEF Witnessed
<1>5. p.at \in [Classes -> Nat] /\ p.counter \in [Classes -> Nat] /\ p.since # 0
  BY <1>1, <1>2 DEF Peer, Witnessed
<1>6. p.at[c] < d.at /\ d.at < stamp
  BY <1>1, <1>2, <1>3, <1>4, <1>5 DEF IInv, Sequenced, Past
<1>7. View(p) = View(old)
  BY <1>5 DEF View, NoPeer
<1>8. sessions'[n].peers[d.from] = r
  <2> DEFINE t == [s EXCEPT !.controls = Answer(p, d)]
  <2>1. Keeps(n, t, d.from, r)
    BY DEF Accept
  <2>2. t \in Session
    BY DEF Session, Sound
  <2>3. r \in Peer
    BY <1>2, CountedTyped DEF Sound
  <2> HIDE DEF t, r
  <2> QED
    BY <1>2, <2>1, <2>2, <2>3, KeepsEntry
<1>9. View(r) = [View(p) EXCEPT !.taken = @ + 1, !.last[c] = d.at]
  <2>1. /\ r \in Peer
        /\ r.nonce = q.nonce /\ r.since = q.since /\ r.taken = q.taken + 1
        /\ \A x \in Classes : r.at[x] = IF x = ClassOf(d) THEN d.at ELSE q.at[x]
    <3>1. now \in Nat
      BY DEF Sound
    <3> HIDE DEF q
    <3> QED
      BY Zenon, <1>2, <3>1, CountedTyped
  <2>2. q.nonce = p.nonce /\ q.since = p.since /\ q.taken = p.taken /\ q.at = p.at
    BY NotedTyped DEF Sound
  <2>3. \A x \in Classes : r.at[x] = IF x = c THEN d.at ELSE p.at[x]
    BY <2>1, <2>2
  <2>4. r.at \in [Classes -> Nat]
    BY <2>1 DEF Peer
  <2> HIDE DEF r, q, c
  <2>5. r.at = [p.at EXCEPT ![c] = d.at]
    BY <1>3, <1>5, <2>3, <2>4
  <2> DEFINE w == [View(p) EXCEPT !.taken = @ + 1]
  <2>6. w = [mark |-> p.nonce, since |-> p.since, taken |-> p.taken + 1, last |-> p.at]
    BY DEF View
  <2>7. [View(p) EXCEPT !.taken = @ + 1, !.last[c] = d.at] = [w EXCEPT !.last[c] = d.at]
    OBVIOUS
  <2> HIDE DEF w
  <2>8. [w EXCEPT !.last[c] = d.at] =
           [mark |-> p.nonce, since |-> p.since, taken |-> p.taken + 1, last |-> r.at]
    BY <2>5, <2>6
  <2>9. View(r) = [mark |-> p.nonce, since |-> p.since, taken |-> p.taken + 1, last |-> r.at]
    BY <2>1, <2>2 DEF View
  <2> QED
    BY <2>7, <2>8, <2>9
<1>10. Trust[<<n, d.from>>] = View(p) /\ Trust'[<<n, d.from>>] = View(r)
  BY <1>2, <1>7, <1>8, TrustView
<1>11. View(p).since # 0 /\ d.at \in View(p).last[c] + 1 .. stamp - 1
  <2>1. View(p).since = p.since /\ View(p).last = p.at
    BY DEF View
  <2>2. p.at[c] \in Nat /\ d.at \in Nat /\ stamp \in Nat
    BY <1>2, <1>3, <1>5
  <2> HIDE DEF c
  <2> QED
    BY <1>5, <1>6, <2>1, <2>2
<1> HIDE DEF r, c
<1>12. Authentic!Accept(<<n, d.from>>)
  BY <1>3, <1>9, <1>10, <1>11 DEF Authentic!Accept
<1> QED
  BY <1>12 DEF Moves

LEMMA ChallengeMoves ==
  ASSUME IInv, NEW n \in Nodes, NEW d \in net, NEW s, NEW p, Sound(n, s, p, d),
         View(p) \in {View(sessions[n].peers[d.from]), View(NoPeer)},
         NEW t \in Session, Keeps(n, t, d.from, Challenged(Noted(p, d))),
         stamp' = stamp + 1
  PROVE  Moves(<<n, d.from>>)
<1> DEFINE q == Challenged(Noted(p, d))
<1>1. q \in Peer /\ View(q) = [View(p) EXCEPT !.mark = stamp]
  BY NotedTyped, ChallengedTyped DEF View, Sound
<1>2. sessions'[n].peers[d.from] = q
  BY <1>1, KeepsEntry DEF Sound
<1> HIDE DEF q
<1>3. /\ Trust'[<<n, d.from>>] = [View(p) EXCEPT !.mark = stamp]
      /\ View(p) \in {Trust[<<n, d.from>>], Authentic!Unknown}
  BY <1>1, <1>2, TrustView, ViewNoPeer DEF Sound
<1>4. stamp < stamp'
  BY SMTT(40) DEF Sound
<1>5. Authentic!Challenge(<<n, d.from>>)
  BY <1>3, <1>4 DEF Authentic!Challenge
<1> QED
  BY <1>5 DEF Moves

\* What a received datagram does to the channels.
LEMMA ReceiveMoves ==
  ASSUME IInv, NEW n \in Nodes, NEW d \in net, Receive(n, d),
         NEW i \in Nodes, NEW j \in Nodes
  PROVE  Moves(<<i, j>>)
<1> DEFINE s == Live(sessions[n])
<1> DEFINE p == Entry(s, d.from)
<1>1. sessions[n].controls = << >>
  BY DEF Receive
<1>2. Sound(n, s, p, d) /\ View(p) \in {View(sessions[n].peers[d.from]), View(NoPeer)}
  BY <1>1, Examined, EntryView
<1>3. CASE UNCHANGED vars
  BY <1>3, KeepMoves DEF vars
<1>4. CASE Refuse(n, d)
  <2>1. sessions'[i] = IF i = n THEN s ELSE sessions[i]
    BY <1>4 DEF Refuse, IInv, Typed
  <2>2. sessions'[i].peers[j] \in {sessions[i].peers[j], NoPeer}
    BY <1>2, <2>1 DEF Sound
  <2> QED
    BY <2>2, KeepMoves, ForgetMoves
<1>5. ASSUME NEW t \in Session, t.peers = s.peers, NEW q \in Peer, Keeps(n, t, d.from, q),
             <<i, j>> # <<n, d.from>>
      PROVE  Moves(<<i, j>>)
  <2>1. \A k \in Nodes : t.peers[k] \in {sessions[n].peers[k], NoPeer}
    BY <1>2, <1>5 DEF Sound
  <2>2. d.from \in Nodes
    BY <1>2 DEF Sound
  <2> HIDE DEF s, p
  <2> QED
    BY <1>5, <2>1, <2>2, KeepsMoves
<1>6. ASSUME NEW controls \in {<< >>, Answer(p, d)},
             Keeps(n, [s EXCEPT !.controls = controls], d.from, Noted(p, d))
      PROVE  Moves(<<i, j>>)
  <2> DEFINE t == [s EXCEPT !.controls = controls]
  <2>1. << >> \in Seq(Controls)
    OBVIOUS
  <2>2. controls \in Seq(Controls)
    BY <1>2, <1>6, <2>1 DEF Sound
  <2>3. t \in Session /\ t.peers = s.peers
    BY <1>2, <2>2 DEF Session, Sound
  <2>4. Keeps(n, t, d.from, Noted(p, d))
    BY <1>6
  <2>5. Noted(p, d) \in Peer /\ d.from \in Nodes
    BY <1>2 DEF Sound
  <2> HIDE DEF t, s
  <2>6. CASE <<i, j>> = <<n, d.from>>
    <3>1. sessions'[n].peers[d.from] = Noted(p, d)
      BY <2>3, <2>4, <2>5, KeepsEntry
    <3>2. View(Noted(p, d)) = View(p)
      BY <1>2, NotedTyped DEF View, Sound
    <3> QED
      BY <1>2, <2>6, <3>1, <3>2, KeepMoves, ForgetMoves
  <2>7. CASE <<i, j>> # <<n, d.from>>
    BY <1>5, <2>3, <2>4, <2>5, <2>7
  <2> QED
    BY <2>6, <2>7
<1>7. CASE Examine(n, s, p, d)
  <2> HIDE DEF s, p
  <2>1. CASE Verify(n, s, p, d)
    <3>1. CASE <<i, j>> = <<n, d.from>>
      BY <1>2, <2>1, <3>1, VerifyMoves
    <3>2. CASE <<i, j>> # <<n, d.from>>
      <4>1. Proved(p, d) \in Peer /\ s \in Session /\ Keeps(n, s, d.from, Proved(p, d))
        BY <1>2, <2>1, ProvedTyped DEF Sound, Verify
      <4> QED
        BY <1>5, <3>2, <4>1
    <3> QED
      BY <3>1, <3>2
  <2>2. CASE Accept(n, s, p, d)
    <3>1. CASE <<i, j>> = <<n, d.from>>
      BY <1>2, <2>2, <3>1, AcceptMoves
    <3>2. CASE <<i, j>> # <<n, d.from>>
      <4> DEFINE t == [s EXCEPT !.controls = Answer(p, d)]
      <4>1. t \in Session /\ t.peers = s.peers
        BY <1>2 DEF Session, Sound
      <4>2. Keeps(n, t, d.from, Counted(Noted(p, d), d))
        BY <2>2 DEF Accept
      <4>3. Counted(Noted(p, d), d) \in Peer
        BY <1>2, CountedTyped DEF Sound
      <4> HIDE DEF t
      <4> QED
        BY <1>5, <3>2, <4>1, <4>2, <4>3
    <3> QED
      BY <3>1, <3>2
  <2>3. CASE Challenge(n, s, p, d)
    <3> DEFINE controls == Append(Answer(p, d), Control(Request(stamp), d.from))
    <3> DEFINE t == Challenging(s, controls)
    <3> DEFINE q == Challenged(Noted(p, d))
    <3>1. Keeps(n, t, d.from, q) /\ stamp' = stamp + 1
      BY <2>3 DEF Challenge
    <3>2. controls \in Seq(Controls)
      <4>1. Request(stamp) \in Packets
        BY <1>2 DEF Request, Packets, Sound
      <4>2. Control(Request(stamp), d.from) \in Controls
        BY <1>2, <4>1 DEF Control, Controls, Sound
      <4>3. Answer(p, d) \in Seq(Controls)
        BY <1>2 DEF Sound
      <4> HIDE DEF p, s
      <4> QED
        BY <4>2, <4>3
    <3> HIDE DEF controls
    <3>3. t \in Session /\ t.peers = s.peers
      BY <1>2, <3>2, ChallengingTyped DEF Sound
    <3> HIDE DEF t
    <3>4. CASE <<i, j>> = <<n, d.from>>
      BY <1>2, <3>1, <3>3, <3>4, ChallengeMoves
    <3>5. CASE <<i, j>> # <<n, d.from>>
      <4>1. q \in Peer
        BY <1>2, ChallengedTyped DEF Sound
      <4> HIDE DEF q
      <4> QED
        BY <1>5, <3>1, <3>3, <3>5, <4>1
    <3> QED
      BY <3>4, <3>5
  <2>4. CASE Starve(n, s, p, d)
    BY <1>6, <2>4 DEF Starve
  <2>5. CASE Ignore(n, s, p, d)
    BY <1>6, <2>5 DEF Ignore
  <2> QED
    BY <1>7, <2>1, <2>2, <2>3, <2>4, <2>5 DEF Examine
<1> QED
  BY <1>3, <1>4, <1>7 DEF Receive

\* Whatever is lost, repeated, late or out of order, and however often sockets
\* are opened again or keys replaced, packet authentication implements the
\* abstract channel: a peer is taken up on a datagram signed after a challenge,
\* and in each class only ever later ones are taken (receive_inner).
THEOREM MacImplementsChannel == Spec => Implements
<1>1. Init => Authentic!Init
  <2> SUFFICES ASSUME Init PROVE Authentic!Init
    OBVIOUS
  <2>1. ASSUME NEW n \in Nodes PROVE sessions[n].peers = [m \in Nodes |-> NoPeer]
    <3>1. PICK config \in Given : sessions[n] = NewSession(config, 1)
      BY DEF Init
    <3> QED
      BY <3>1 DEF NewSession
  <2>2. \A n, m \in Nodes : View(sessions[n].peers[m]) = Authentic!Unknown
    BY <2>1, ViewNoPeer
  <2>3. Trust = [i \in Nodes \X Nodes |-> Authentic!Unknown]
    BY <2>2 DEF Trust, View
  <2> QED
    BY <2>3 DEF Init, Authentic!Init
<1>2. IInv /\ [Next]_vars => [Authentic!Next]_(Authentic!vars)
  <2> SUFFICES ASSUME IInv, [Next]_vars
               PROVE  Authentic!Next
    BY DEF Authentic!vars
  <2>1. stamp \in Nat
    BY DEF IInv, Typed
  <2>2. stamp' \in {stamp, stamp + 1}
    <3>1. ASSUME NEW n, NEW s, NEW packet, NEW to, NEW controls, Sent(n, s, packet, to, controls)
          PROVE  stamp' = stamp + 1
      BY <3>1 DEF Sent
    <3>2. ASSUME NEW n, NEW d, Receive(n, d) PROVE stamp' \in {stamp, stamp + 1}
      BY <3>2 DEF Receive, Refuse, Examine, Verify, Accept, Challenge, Starve, Ignore, vars
    <3>3. ASSUME NEW n, NEW config, Reopen(n, config) PROVE stamp' = stamp + 1
      BY <3>3 DEF Reopen
    <3> QED
      BY <3>1, <3>2, <3>3 DEF Next, vars, Send, SendControl, DropControl, Advance
  <2>3. \A i, j \in Nodes : Moves(<<i, j>>)
    <3> TAKE i \in Nodes, j \in Nodes
    <3>0. sessions \in [Nodes -> Session]
      BY DEF IInv, Typed
    <3>1. ASSUME NEW n \in Nodes, NEW t, t.peers = sessions[n].peers,
                 sessions' = [sessions EXCEPT ![n] = t]
          PROVE  Moves(<<i, j>>)
      BY <3>0, <3>1, KeepMoves
    <3>2. ASSUME NEW n \in Nodes, NEW packet, NEW to, NEW controls \in Seq(Controls),
                 Sent(n, Rolled(sessions[n]), packet, to, controls)
          PROVE  Moves(<<i, j>>)
      <4>1. CountedOn(Rolled(sessions[n]), controls).peers = sessions[n].peers
        BY <3>2, RolledFacts, CountedOnTyped
      <4> QED
        BY <3>1, <3>2, <4>1 DEF Sent
    <3>3. ASSUME NEW n \in Nodes, NEW to, Send(n, to) PROVE Moves(<<i, j>>)
      BY <3>2, <3>3, Fields DEF Send, IInv
    <3>4. ASSUME NEW n \in Nodes, SendControl(n) PROVE Moves(<<i, j>>)
      <4>1. Tail(sessions[n].controls) \in Seq(Controls)
        BY <3>4, Fields DEF SendControl, IInv
      <4> QED
        BY <3>2, <3>4, <4>1 DEF SendControl
    <3>5. ASSUME NEW n \in Nodes, DropControl(n) PROVE Moves(<<i, j>>)
      <4> DEFINE t == [sessions[n] EXCEPT !.controls = Tail(@)]
      <4>1. t.peers = sessions[n].peers
        BY <3>0 DEF Session
      <4>2. sessions' = [sessions EXCEPT ![n] = t]
        BY <3>5 DEF DropControl
      <4> HIDE DEF t
      <4> QED
        BY <3>1, <4>1, <4>2
    <3>6. ASSUME NEW n \in Nodes, NEW d \in net, Receive(n, d) PROVE Moves(<<i, j>>)
      BY <3>6, ReceiveMoves
    <3>7. ASSUME NEW n \in Nodes, NEW config, Reopen(n, config) PROVE Moves(<<i, j>>)
      <4>1. CASE i = n
        <5>1. sessions'[i] = NewSession(config, stamp)
          BY <3>0, <3>7, <4>1 DEF Reopen
        <5>2. sessions'[i].peers[j] = NoPeer
          BY <5>1 DEF NewSession
        <5> QED
          BY <5>2, ForgetMoves
      <4>2. CASE i # n
        <5>1. sessions'[i] = sessions[i]
          BY <3>0, <3>7, <4>2 DEF Reopen
        <5> QED
          BY <5>1, KeepMoves
      <4> QED
        BY <4>1, <4>2
    <3>8. CASE Advance \/ UNCHANGED vars
      BY <3>8, KeepMoves DEF Advance, vars
    <3> QED
      BY <3>3, <3>4, <3>5, <3>6, <3>7, <3>8 DEF Next
  <2>4. DOMAIN Trust' = Nodes \X Nodes
    BY DEF Trust
  <2>5. \A i \in Nodes \X Nodes : Moves(i)
    BY <2>3
  <2> QED
    BY <2>1, <2>2, <2>4, <2>5 DEF Authentic!Next, Moves
<1> QED
  BY <1>1, <1>2, InitIInv, NextIInv, PTL DEF Spec, Implements, Authentic!Spec
=============================================================================
