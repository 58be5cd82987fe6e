--------------------------- MODULE DistanceProofs ---------------------------
(***************************************************************************)
(* Facts about sequence numbers modulo 2^16.                               *)
(***************************************************************************)
EXTENDS Distance, TLAPS

\* Adding a whole turn does not move a sequence number.
LEMMA Turn == ASSUME NEW a \in Int PROVE (a + 65536) % 65536 = a % 65536
  OBVIOUS

\* The range of a sequence number.
LEMMA SeqnoRange == \A n \in Int : n \in Seqnos <=> 0 <= n /\ n <= 65535
<1> DEFINE m == 65535
<1>1. m \in Int
  OBVIOUS
<1>2. Seqnos = 0..m
  BY DEF Seqnos
<1> HIDE DEF m
<1>3. \A n \in Int : n \in Seqnos <=> 0 <= n /\ n <= m
  BY <1>1, <1>2
<1> QED
  BY <1>3 DEF m

\* A process starts from zero.
LEMMA ZeroIsSeqno == 0 \in Seqnos
  BY SeqnoRange

\* The successor of a number, also of the last one, is newer.
LEMMA NextIsNewer ==
    ASSUME NEW n \in Seqnos PROVE SeqnoNext(n) \in Seqnos /\ SeqnoGt(SeqnoNext(n), n)
<1>1. n \in Int /\ 0 <= n /\ n <= 65535
  BY DEF Seqnos
<1>2. SeqnoNext(n) \in Int /\ 0 <= SeqnoNext(n) /\ SeqnoNext(n) <= 65535
  BY <1>1 DEF SeqnoNext
<1>3. (SeqnoNext(n) - n) % 65536 = 1
  <2>1. CASE n < 65535
    <3>1. SeqnoNext(n) = n + 1
      BY <1>1, <2>1 DEF SeqnoNext
    <3> QED
      BY <1>1, <3>1
  <2>2. CASE n = 65535
    <3>1. SeqnoNext(n) = 0
      BY <2>2 DEF SeqnoNext
    <3>2. (0 - n) % 65536 = ((0 - n) + 65536) % 65536
      BY <1>1, Turn
    <3>3. (0 - n) + 65536 = 1
      BY <2>2
    <3>4. 1 % 65536 = 1
      OBVIOUS
    <3> QED
      BY <3>1, <3>2, <3>3, <3>4
  <2> QED
    BY <1>1, <2>1, <2>2
<1> QED
  <2>1. SeqnoNext(n) \in Seqnos
    BY <1>2, SeqnoRange
  <2>2. SeqnoGt(SeqnoNext(n), n)
    BY <1>3 DEF SeqnoGt
  <2> QED
    BY <2>1, <2>2
=============================================================================
