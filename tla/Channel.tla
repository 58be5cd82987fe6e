------------------------------ MODULE Channel ------------------------------
(***************************************************************************)
(* What packet authentication promises of the datagrams that one speaker   *)
(* takes from another, with sessions, keys, nonces and timers out of       *)
(* sight.  A channel is a pair of speakers.  One clock stamps signatures   *)
(* and challenges.  On a channel nothing is accepted until something       *)
(* arrives that was signed after a challenge; from then on, in each class, *)
(* only what was signed later than what was accepted last.                 *)
(***************************************************************************)
EXTENDS Integers

CONSTANTS Channels, Classes

VARIABLES
    clock,  \* the stamp of the next signature or challenge
    trust   \* what the receiving end of each channel knows of the other

vars == <<clock, trust>>

\* Stamps are positive.  mark: the challenge that is out; since: the challenge
\* whose answer is the ground of the present trust; taken: how many
\* were accepted since it was answered; last: the stamp accepted last in each
\* class.
Unknown == [mark |-> 0, since |-> 0, taken |-> 0, last |-> [c \in Classes |-> 0]]

Init ==
    /\ clock \in Nat \ {0}
    /\ trust = [i \in Channels |-> Unknown]

\* A challenge is newer than everything signed so far.  The trust there was may
\* be lost with it.
Challenge(i) ==
    /\ \E old \in {trust[i], Unknown} : trust'[i] = [old EXCEPT !.mark = clock]
    /\ clock < clock'

\* An answer, signed after the challenge, starts the order anew.
Verify(i) ==
    /\ trust[i].mark # 0
    /\ \E t \in trust[i].mark + 1 .. clock - 1 :
          trust'[i] = [mark |-> 0, since |-> trust[i].mark, taken |-> 1,
                       last |-> [c \in Classes |-> t]]

Accept(i) ==
    /\ trust[i].since # 0
    /\ \E c \in Classes : \E t \in trust[i].last[c] + 1 .. clock - 1 :
          trust'[i] = [trust[i] EXCEPT !.taken = @ + 1, !.last[c] = t]

Forget(i) == trust'[i] = Unknown

Keep(i) == trust'[i] = trust[i]

Next ==
    /\ clock' \in Nat /\ clock <= clock'
    /\ DOMAIN trust' = Channels
    /\ \A i \in Channels : Keep(i) \/ Forget(i) \/ Challenge(i) \/ Verify(i) \/ Accept(i)

Spec == Init /\ [][Next]_vars
=============================================================================
