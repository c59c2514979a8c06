------------------------ MODULE SlidingWindowProofs -------------------------
(***************************************************************************)
(* Proofs about SlidingWindow, for every window, retry limit and amount of *)
(* data.  The type invariant counts: an end has drawn one number for each  *)
(* packet it sent and one for each it received, and receives none twice.   *)
(* When the first packet of a direction is not lost or overtaken, what has *)
(* been received is a run that begins with that packet and a buffer beyond *)
(* the next number (InOrder); that SACKs tell the truth and that the       *)
(* channel is an ordered stream both follow from it.                       *)
(***************************************************************************)
EXTENDS SlidingWindow, NaturalFacts, FiniteSetTheorems, SequenceTheorems

(* There are two ends, each the other's other.                             *)
LEMMA OtherFacts ==
    ASSUME NEW e \in Ends
    PROVE  /\ Other(e) \in Ends /\ Other(e) # e /\ Other(Other(e)) = e
           /\ \A f \in Ends : f # e => f = Other(e)
<1>1. PICK a \in Ends, b \in Ends : a # b /\ Ends = {a, b}
  BY SlidingWindowAssumption
<1>2. \A d \in Ends : Other(d) \in Ends /\ Other(d) # d
  BY <1>1 DEF Other
<1> QED BY <1>1, <1>2

-----------------------------------------------------------------------------
(* The operators of the model.                                             *)

(* Max and Min are what they should be.                                    *)
LEMMA MaxIs ==
    ASSUME NEW S, S \subseteq Nat, NEW x \in S, \A y \in S : y <= x
    PROVE  Max(S) = x
<1>1. Max(S) \in S /\ \A y \in S : Max(S) >= y
  BY DEF Max
<1>2. Max(S) >= x /\ Max(S) <= x /\ Max(S) \in Nat /\ x \in Nat
  BY <1>1
<1> QED BY <1>2

LEMMA MinIs ==
    ASSUME NEW S, S \subseteq Nat, S # {}
    PROVE  Min(S) \in S
<1>1. \E x \in S : \A y \in S : x <= y
  BY Least
<1> QED BY <1>1 DEF Min

(* The loop of receive() stops at the first number that is missing.        *)
LEMMA DrainedToFacts ==
    ASSUME NEW next \in Nat, NEW buffer, buffer \subseteq Nat,
           NEW bound \in Nat, \A n \in buffer : n <= bound
    PROVE  LET r == DrainedTo(next, buffer)
           IN  /\ r \in Nat /\ r >= next /\ r \in {next} \cup buffer
               /\ next + 1 .. r \subseteq buffer
               /\ r + 1 \notin buffer
<1> DEFINE S == {n \in {next} \cup buffer : next + 1 .. n \subseteq buffer}
<1>1. next \in S /\ S \subseteq Nat
  <2>1. next + 1 .. next = {}
    OBVIOUS
  <2> QED BY <2>1
<1>2. PICK r \in S : \A n \in S : n <= r
  <2>1. next + bound \in Nat /\ \A n \in S : n <= next + bound
    OBVIOUS
  <2>2. S # {}
    BY <1>1
  <2> HIDE DEF S
  <2> QED BY <1>1, <2>1, <2>2, Greatest
<1>3. DrainedTo(next, buffer) = r
  <2>1. Max(S) = r
    <3> HIDE DEF S
    <3> QED BY <1>1, <1>2, MaxIs
  <2> QED BY <2>1 DEF DrainedTo
<1>4. r \in Nat /\ r >= next /\ r \in {next} \cup buffer /\ next + 1 .. r \subseteq buffer
  BY <1>1, <1>2
<1>5. r + 1 \notin buffer
  <2> SUFFICES ASSUME r + 1 \in buffer PROVE FALSE
    OBVIOUS
  <2>1. next + 1 .. r + 1 \subseteq buffer
    BY <1>4
  <2>2. r + 1 \in S
    BY <2>1
  <2> QED BY <1>2, <1>4, <2>2
<1> QED BY <1>3, <1>4, <1>5

(* A SACK speaks of the numbers up to next and of those in the buffer.     *)
LEMMA BuildSackFacts ==
    ASSUME NEW next \in Nat, NEW buffer, buffer \subseteq Nat
    PROVE  LET sack == BuildSack(next, buffer)
           IN  /\ sack.cumAck = next
               /\ \A n \in AllAcked(sack) : n \in 0 .. next \/ n \in buffer
<1>1. Max({next, 0}) = next
  <2> DEFINE S == {next, 0}
  <2>1. S \subseteq Nat /\ next \in S /\ \A y \in S : y <= next
    OBVIOUS
  <2> HIDE DEF S
  <2>2. Max(S) = next
    BY <2>1, MaxIs
  <2> QED BY <2>2 DEF S
<1>2. \A blk \in Runs(buffer) : blk[1] .. blk[2] \subseteq buffer
  BY DEF Runs
<1> QED BY <1>1, <1>2 DEF BuildSack, AllAcked

-----------------------------------------------------------------------------
(* Sequences of numbers.                                                   *)

Rising(s) == \A i, j \in 1 .. Len(s) : i < j => s[i] < s[j]

(* Appending adds one element.                                             *)
LEMMA AppendFacts ==
    ASSUME NEW s \in Seq(Nat), NEW x \in Nat
    PROVE  /\ Append(s, x) \in Seq(Nat) /\ Len(Append(s, x)) = Len(s) + 1
           /\ \A i \in 1 .. Len(s) : Append(s, x)[i] = s[i]
           /\ Append(s, x)[Len(s) + 1] = x
           /\ ToSet(Append(s, x)) = ToSet(s) \cup {x}
  BY DEF ToSet

(* The elements of a sequence.                                             *)
LEMMA ToSetFacts ==
    ASSUME NEW s \in Seq(Nat)
    PROVE  /\ \A i \in 1 .. Len(s) : s[i] \in ToSet(s)
           /\ \A x \in ToSet(s) : x \in Nat /\ \E i \in 1 .. Len(s) : x = s[i]
  BY DEF ToSet

(* A sequence is a sequence of its elements.                               *)
LEMMA SequenceOver ==
    ASSUME NEW T, NEW s \in Seq(Nat), \A i \in 1 .. Len(s) : s[i] \in T
    PROVE  s \in Seq(T)
<1>1. Len(s) \in Nat /\ s \in [1 .. Len(s) -> Nat]
  BY LenProperties
<1>2. s \in [1 .. Len(s) -> T]
  BY <1>1
<1>3. s \in UNION {[1 .. n -> T] : n \in Nat}
  BY <1>1, <1>2
<1> QED BY <1>3, SeqDef, Zenon

(* A larger number at the end keeps a sequence rising.                     *)
LEMMA RisingAppend ==
    ASSUME NEW s \in Seq(Nat), Rising(s), NEW x \in Nat, \A i \in 1 .. Len(s) : s[i] < x
    PROVE  Rising(Append(s, x))
<1> DEFINE t == Append(s, x)
<1>1. /\ Len(t) = Len(s) + 1
      /\ \A i \in 1 .. Len(s) : t[i] = s[i]
      /\ t[Len(s) + 1] = x
  BY AppendFacts
<1> HIDE DEF t
<1>2. Rising(t)
  BY <1>1 DEF Rising
<1> QED BY <1>2 DEF t

(* A rising sequence that has all numbers from its first to its j-th       *)
(* element has them one after the other.                                   *)
LEMMA RisingGapless ==
    ASSUME NEW s \in Seq(Nat), Rising(s), NEW j \in 1 .. Len(s),
           s[1] .. s[j] \subseteq ToSet(s)
    PROVE  s[j] = s[1] + j - 1
<1>0. /\ \A i \in 1 .. Len(s) : s[i] \in Nat
      /\ \A x \in ToSet(s) : \E i \in 1 .. Len(s) : x = s[i]
  BY ToSetFacts
<1>1. ASSUME NEW k \in Nat, NEW l, l = k + 2, l <= Len(s), s[1] .. s[l] \subseteq ToSet(s),
             s[1] .. s[k + 1] \subseteq ToSet(s) => s[k + 1] = s[1] + k
      PROVE  s[l] = s[1] + (k + 1)
  <2>1. /\ k + 1 \in 1 .. Len(s) /\ l \in 1 .. Len(s) /\ s[k + 1] < s[l] /\ s[1] < s[l]
        /\ s[l] \in Nat /\ s[k + 1] \in Nat /\ s[1] \in Nat
    BY <1>0, <1>1 DEF Rising
  <2>2. s[l] - 1 \in s[1] .. s[l]
    BY <2>1
  <2>3. PICK i \in 1 .. Len(s) : s[l] - 1 = s[i]
    BY <1>0, <1>1, <2>2
  <2>4. i <= k + 1
    <3>1. i > k + 1 => i = l \/ s[l] < s[i]
      BY <1>1, <2>1 DEF Rising
    <3> QED BY <2>1, <2>3, <3>1
  <2>5. s[k + 1] = s[l] - 1
    <3>1. i = k + 1 \/ s[i] < s[k + 1]
      BY <2>1, <2>4 DEF Rising
    <3>2. s[i] \in Nat /\ s[i] <= s[k + 1]
      <4>1. CASE i = k + 1
        BY <2>1, <4>1
      <4>2. CASE s[i] < s[k + 1]
        BY <1>0, <2>1, <4>2
      <4> QED BY <3>1, <4>1, <4>2
    <3>3. \A x, y, z \in Nat : y - 1 = x /\ x <= z /\ z < y => z = y - 1
      OBVIOUS
    <3> QED BY <2>1, <2>3, <3>2, <3>3, Zenon
  <2>6. s[1] .. s[k + 1] \subseteq s[1] .. s[l]
    BY <2>1
  <2>7. s[k + 1] = s[1] + k
    <3>1. s[1] .. s[k + 1] \subseteq ToSet(s)
      BY <1>1, <2>6, Zenon
    <3> QED BY <1>1, <3>1, Zenon
  <2>8. \A x, y, z \in Nat : x = y - 1 /\ x = z + k => y = z + (k + 1)
    OBVIOUS
  <2> QED BY <2>1, <2>5, <2>7, <2>8, Zenon
<1> DEFINE Good(k) == k + 1 <= Len(s) /\ s[1] .. s[k + 1] \subseteq ToSet(s)
                      => s[k + 1] = s[1] + k
           S == {k \in Nat : Good(k)}
<1>2. 0 \in S
  <2>1. s[0 + 1] = s[1] /\ s[1] \in Nat
    BY <1>0
  <2> QED BY <2>1
<1>3. \A k \in Nat : k \in S => k + 1 \in S
  <2>1. ASSUME NEW k \in Nat, Good(k) PROVE Good(k + 1)
    <3>1. (k + 1) + 1 = k + 2 /\ ((k + 1) + 1 <= Len(s) => k + 1 <= Len(s))
      OBVIOUS
    <3> QED BY <1>1, <2>1, <3>1
  <2> HIDE DEF Good
  <2> QED BY <2>1
<1>4. \A k \in Nat : k \in S
  <2> HIDE DEF S
  <2> QED BY <1>2, <1>3, Induction
<1>5. j - 1 \in Nat /\ (j - 1) + 1 = j /\ j <= Len(s)
  OBVIOUS
<1>6. j - 1 \in S
  BY <1>4, <1>5
<1> QED BY <1>0, <1>5, <1>6

-----------------------------------------------------------------------------
(* Invariants.                                                             *)

Sessions == [key : {"k"}, localSeq : Nat, peerMax : Nat, window : SUBSET Nat]
Windows  == UNION {[S -> 0 .. MaxRetries] : S \in SUBSET Nat}

Types ==
    /\ session \in [Ends -> Sessions]
    /\ sendWindow \in [Ends -> Windows]
    /\ sendBase \in [Ends -> Nat]
    /\ recvNext \in [Ends -> Nat \cup {-1}]
    /\ sent \in [Ends -> Seq(Nat)] /\ delivered \in [Ends -> Seq(Nat)]
    /\ recvBuffer \in [Ends -> SUBSET Nat]
    /\ received \in [Ends -> SUBSET Nat] /\ acked \in [Ends -> SUBSET Nat]

(* What an end has sent, it has numbered in order and once; only that is   *)
(* in flight or acknowledged.                                              *)
Numbered(e) ==
    /\ Rising(sent[e])
    /\ \A i \in 1 .. Len(sent[e]) : 0 < sent[e][i] /\ sent[e][i] < session[e].localSeq
    /\ IsFiniteSet(ToSet(sent[e])) /\ Cardinality(ToSet(sent[e])) = Len(sent[e])
    /\ Len(sent[e]) <= MaxData[e]
    /\ DOMAIN sendWindow[e] \subseteq ToSet(sent[e])
    /\ acked[e] \subseteq ToSet(sent[e])
    /\ sendBase[e] < session[e].localSeq

(* What an end has received the other has sent, and its session refuses it *)
(* from now on, so each packet has cost one number for its SACK.           *)
Counted(e) ==
    /\ received[e] \subseteq ToSet(sent[Other(e)])
    /\ recvNext[e] \in received[e] \cup {-1}
    /\ recvBuffer[e] \subseteq received[e]
    /\ \A i \in 1 .. Len(delivered[e]) : delivered[e][i] \in received[e]
    /\ \A s \in received[e] : ~SequenceFresh(session[e], s)
    /\ session[e].localSeq = 1 + Len(sent[e]) + Cardinality(received[e])
    /\ session[e].peerMax < session[Other(e)].localSeq
    /\ \A s \in session[e].window : s < session[Other(e)].localSeq

(* The packets of the network have been sent.                              *)
Packet(m) ==
    /\ m.from \in Ends /\ m.seq \in Nat /\ m.seq < session[m.from].localSeq
    /\ m.type = "DATA" => m.seq \in ToSet(sent[m.from])

Packets == \A m \in net : Packet(m)

Bookkeeping == Types /\ Packets /\ \A e \in Ends : Numbered(e) /\ Counted(e)

(* What has been received begins with the first packet sent and goes up to *)
(* recvNext without a gap; that much has been delivered, and the rest is   *)
(* buffered, beyond the number expected next.                              *)
InOrder(e) ==
    LET stream == sent[Other(e)]
    IN  \/ recvNext[e] = -1 /\ delivered[e] = <<>> /\ recvBuffer[e] = {} /\ received[e] = {}
        \/ /\ stream # <<>> /\ recvNext[e] \in Nat /\ stream[1] <= recvNext[e]
           /\ Len(delivered[e]) = recvNext[e] - stream[1] + 1
           /\ \A i \in 1 .. Len(delivered[e]) : delivered[e][i] = stream[1] + i - 1
           /\ received[e] = (stream[1] .. recvNext[e]) \cup recvBuffer[e]
           /\ \A n \in recvBuffer[e] : n > recvNext[e] + 1

(* A SACK names numbers its sender has received, or below the first packet *)
(* of the other end.                                                       *)
SackTrue(m) ==
    LET stream == sent[Other(m.from)]
    IN  m.type = "SACK" => \A n \in AllAcked(m) :
            n \in received[m.from] \/ (stream # <<>> /\ n < stream[1])

Orderly == /\ \A e \in Ends : InOrder(e)
           /\ \A m \in net : SackTrue(m)
           /\ AckedIsReceived

-----------------------------------------------------------------------------
(* What the session's methods do to the numbers (session.py:71-129).       *)
LEMMA SessionFacts ==
    ASSUME NEW sess \in Sessions, NEW seq \in Nat
    PROVE  LET r == RecordSequence(sess, seq)
               n == NextSequence(sess)
           IN  /\ r \in Sessions /\ r.localSeq = sess.localSeq
               /\ r.peerMax \in {sess.peerMax, seq} /\ r.window \subseteq sess.window \cup {seq}
               /\ ~SequenceFresh(r, seq)
               /\ \A s \in Nat : ~SequenceFresh(sess, s) => ~SequenceFresh(r, s)
               /\ n \in Sessions /\ n.localSeq = sess.localSeq + 1
               /\ n.peerMax = sess.peerMax /\ n.window = sess.window
               /\ \A s \in Nat : ~SequenceFresh(sess, s) => ~SequenceFresh(n, s)
<1> DEFINE r == RecordSequence(sess, seq)
           n == NextSequence(sess)
<1>1. /\ sess.key = "k" /\ sess.localSeq \in Nat /\ sess.peerMax \in Nat
      /\ sess.window \in SUBSET Nat
      /\ sess = [key |-> sess.key, localSeq |-> sess.localSeq,
                 peerMax |-> sess.peerMax, window |-> sess.window]
  BY DEF Sessions
<1>2. /\ r \in Sessions /\ r.localSeq = sess.localSeq
      /\ r.peerMax \in {sess.peerMax, seq} /\ r.window \subseteq sess.window \cup {seq}
      /\ ~SequenceFresh(r, seq)
      /\ \A s \in Nat : ~SequenceFresh(sess, s) => ~SequenceFresh(r, s)
  <2>1. CASE seq > sess.peerMax
    <3>1. r = [key |-> sess.key, localSeq |-> sess.localSeq, peerMax |-> seq,
               window |-> {s \in sess.window \cup {seq} : s > seq - ReplayWindow}]
      BY <1>1, <2>1 DEF RecordSequence
    <3> HIDE DEF r
    <3> QED BY <1>1, <2>1, <3>1, SessionAssumption DEF SequenceFresh, Sessions
  <2>2. CASE ~(seq > sess.peerMax)
    <3>1. r = [key |-> sess.key, localSeq |-> sess.localSeq, peerMax |-> sess.peerMax,
               window |-> sess.window \cup {seq}]
      BY <1>1, <2>2 DEF RecordSequence
    <3> HIDE DEF r
    <3> QED BY <1>1, <2>2, <3>1 DEF SequenceFresh, Sessions
  <2> QED BY <2>1, <2>2
<1>3. /\ n \in Sessions /\ n.localSeq = sess.localSeq + 1
      /\ n.peerMax = sess.peerMax /\ n.window = sess.window
      /\ \A s \in Nat : ~SequenceFresh(sess, s) => ~SequenceFresh(n, s)
  <2>1. n = [key |-> sess.key, localSeq |-> sess.localSeq + 1,
             peerMax |-> sess.peerMax, window |-> sess.window]
    BY <1>1 DEF NextSequence
  <2> HIDE DEF n
  <2> QED BY <1>1, <2>1 DEF SequenceFresh, Sessions
<1> QED BY <1>2, <1>3

(* In the beginning the books are in order.                                *)
LEMMA InitBookkeeping == Init => Bookkeeping
<1> SUFFICES ASSUME Init PROVE Bookkeeping
  OBVIOUS
<1> DEFINE new == NewSession("k")
           s0 == NextSequence(RecordSequence(new, 0))
<1>1. s0 \in Sessions /\ s0.localSeq = 1 /\ s0.peerMax = 0 /\ s0.window \subseteq {0}
  <2>1. new \in Sessions /\ new.localSeq = 0 /\ new.peerMax = 0 /\ new.window = {}
    BY DEF NewSession, Sessions
  <2> HIDE DEF new
  <2>2. /\ RecordSequence(new, 0) \in Sessions /\ RecordSequence(new, 0).localSeq = 0
        /\ RecordSequence(new, 0).peerMax = 0 /\ RecordSequence(new, 0).window \subseteq {0}
    BY <2>1, SessionFacts
  <2> QED BY <2>2, SessionFacts
<1>2. session = [e \in Ends |-> s0]
  BY DEF Init
<1> HIDE DEF s0
<1>3. <<>> \in Windows /\ DOMAIN <<>> = {}
  <2> DEFINE none == [i \in {} |-> 0]
  <2>1. none \in [{} -> 0 .. MaxRetries] /\ {} \in SUBSET Nat /\ none = <<>>
    OBVIOUS
  <2> QED BY <2>1 DEF Windows
<1>4. Types
  BY <1>1, <1>2, <1>3 DEF Init, Types
<1>5. ToSet(<<>>) = {} /\ IsFiniteSet({}) /\ Cardinality({}) = 0
  BY FS_EmptySet DEF ToSet
<1>6. ASSUME NEW e \in Ends PROVE Numbered(e) /\ Counted(e)
  <2>1. /\ sent[e] = <<>> /\ delivered[e] = <<>> /\ session[e] = s0
        /\ sendWindow[e] = <<>> /\ sendBase[e] = 0 /\ recvNext[e] = -1
        /\ recvBuffer[e] = {} /\ received[e] = {} /\ acked[e] = {}
    BY <1>2 DEF Init
  <2>2. sent[Other(e)] = <<>> /\ session[Other(e)] = s0
    BY <1>2, OtherFacts DEF Init
  <2>3. Numbered(e)
    <3>1. Len(sent[e]) = 0 /\ MaxData[e] \in Nat /\ Rising(sent[e])
      BY <2>1, SlidingWindowAssumption DEF Rising
    <3>2. ToSet(sent[e]) = {} /\ DOMAIN sendWindow[e] = {}
      BY <1>3, <1>5, <2>1
    <3>3. \A i \in 1 .. Len(sent[e]) : 0 < sent[e][i] /\ sent[e][i] < session[e].localSeq
      BY <3>1
    <3>4. sendBase[e] < session[e].localSeq /\ acked[e] = {}
      BY <1>1, <2>1
    <3> QED BY <1>5, <3>1, <3>2, <3>3, <3>4 DEF Numbered
  <2>4. Counted(e)
    BY <1>1, <1>5, <2>1, <2>2 DEF Counted
  <2> QED BY <2>3, <2>4
<1>7. Packets
  BY DEF Init, Packets
<1> QED BY <1>4, <1>6, <1>7 DEF Bookkeeping

(* A packet more (send()).                                                 *)
LEMMA SendBookkeeping ==
    ASSUME Bookkeeping, NEW e \in Ends, Send(e)
    PROVE  Bookkeeping'
<1> DEFINE seq == session[e].localSeq
           o == Other(e)
<1>0. /\ Types /\ Packets /\ Numbered(e) /\ Counted(e) /\ Numbered(o) /\ Counted(o)
      /\ o \in Ends /\ o # e /\ Other(o) = e /\ Other(e) = o /\ session[e].localSeq = seq
  BY OtherFacts DEF Bookkeeping
<1>1. /\ session[e] \in Sessions /\ session[o] \in Sessions
      /\ seq \in Nat /\ seq > 0
      /\ sent[e] \in Seq(Nat) /\ sent[o] \in Seq(Nat)
      /\ received[e] \subseteq Nat /\ received[o] \subseteq Nat
      /\ delivered[e] \in Seq(Nat) /\ delivered[o] \in Seq(Nat)
      /\ sendWindow[e] \in Windows /\ sendBase[e] \in Nat
  <2>1. /\ session[e] \in Sessions /\ session[o] \in Sessions
        /\ sent[e] \in Seq(Nat) /\ sent[o] \in Seq(Nat)
        /\ received[e] \subseteq Nat /\ received[o] \subseteq Nat
        /\ delivered[e] \in Seq(Nat) /\ delivered[o] \in Seq(Nat)
        /\ sendWindow[e] \in Windows /\ sendBase[e] \in Nat
    BY <1>0 DEF Types
  <2>2. seq \in Nat
    BY <2>1 DEF Sessions
  <2>3. sendBase[e] < seq
    BY <1>0 DEF Numbered
  <2> QED BY <2>1, <2>2, <2>3
<1>2. /\ session' = [session EXCEPT ![e] = NextSequence(session[e])]
      /\ NextSequence(session[e]) \in Sessions
      /\ session'[e].localSeq = seq + 1
      /\ session'[e].peerMax = session[e].peerMax /\ session'[e].window = session[e].window
      /\ \A s \in Nat : ~SequenceFresh(session[e], s) => ~SequenceFresh(session'[e], s)
      /\ session'[o] = session[o]
  BY <1>0, <1>1, SessionFacts DEF Send, Types
<1>3. /\ sent' = [sent EXCEPT ![e] = Append(sent[e], seq)]
      /\ sent'[e] = Append(sent[e], seq) /\ sent'[o] = sent[o]
      /\ net' = net \cup {[type |-> "DATA", from |-> e, seq |-> seq]}
      /\ sendWindow' = [sendWindow EXCEPT ![e] = With(sendWindow[e], seq, 0)]
      /\ sendBase' = [sendBase EXCEPT ![e] = IF sendWindow[e] = <<>> THEN seq ELSE sendBase[e]]
      /\ Len(sent[e]) < MaxData[e]
      /\ UNCHANGED <<recvNext, recvBuffer, delivered, received, acked>>
  BY <1>0 DEF Send, Types, receiving
<1> HIDE DEF seq, o
<1>4. /\ sent'[e] \in Seq(Nat) /\ Len(sent'[e]) = Len(sent[e]) + 1
      /\ \A i \in 1 .. Len(sent[e]) : sent'[e][i] = sent[e][i]
      /\ sent'[e][Len(sent[e]) + 1] = seq
      /\ ToSet(sent'[e]) = ToSet(sent[e]) \cup {seq}
  BY <1>1, <1>3, AppendFacts
<1>5. /\ With(sendWindow[e], seq, 0) \in Windows
      /\ DOMAIN With(sendWindow[e], seq, 0) = DOMAIN sendWindow[e] \cup {seq}
  <2>1. PICK S \in SUBSET Nat : sendWindow[e] \in [S -> 0 .. MaxRetries]
    BY <1>1 DEF Windows
  <2>2. With(sendWindow[e], seq, 0) \in [S \cup {seq} -> 0 .. MaxRetries]
    <3>1. 0 \in 0 .. MaxRetries /\ DOMAIN sendWindow[e] = S
      BY <2>1, SlidingWindowAssumption
    <3> QED BY <2>1, <3>1 DEF With
  <2>3. S \cup {seq} \in SUBSET Nat
    BY <1>1
  <2> QED BY <2>1, <2>2, <2>3 DEF Windows, With
<1>6. Types'
  BY <1>0, <1>1, <1>2, <1>3, <1>4, <1>5 DEF Types
<1>7. Numbered(e)'
  <2>1. \A i \in 1 .. Len(sent[e]) :
            sent[e][i] \in Nat /\ 0 < sent[e][i] /\ sent[e][i] < seq
    BY <1>0, <1>1 DEF Numbered, seq
  <2>2. Rising(sent'[e])
    BY <1>0, <1>1, <1>3, <2>1, RisingAppend DEF Numbered
  <2>3. \A i \in 1 .. Len(sent'[e]) : 0 < sent'[e][i] /\ sent'[e][i] < session'[e].localSeq
    <3> SUFFICES ASSUME NEW i \in 1 .. Len(sent'[e])
                 PROVE  0 < sent'[e][i] /\ sent'[e][i] < seq + 1
      BY <1>2
    <3>1. CASE i \in 1 .. Len(sent[e])
      <4>1. sent'[e][i] = sent[e][i]
        BY <1>4, <3>1
      <4>2. sent[e][i] \in Nat /\ 0 < sent[e][i] /\ sent[e][i] < seq
        BY <2>1, <3>1
      <4> QED BY <1>1, <4>1, <4>2
    <3>2. CASE i = Len(sent[e]) + 1
      BY <1>1, <1>4, <3>2
    <3>3. Len(sent[e]) \in Nat
      BY <1>1
    <3> QED BY <1>4, <3>1, <3>2, <3>3
  <2>4. IsFiniteSet(ToSet(sent'[e])) /\ Cardinality(ToSet(sent'[e])) = Len(sent'[e])
    <3>1. seq \notin ToSet(sent[e])
      <4> SUFFICES ASSUME seq \in ToSet(sent[e]) PROVE FALSE
        OBVIOUS
      <4>1. PICK i \in 1 .. Len(sent[e]) : seq = sent[e][i]
        BY <1>1, ToSetFacts
      <4>2. sent[e][i] \in Nat /\ sent[e][i] < seq
        BY <2>1
      <4> QED BY <4>1, <4>2
    <3>2. IsFiniteSet(ToSet(sent[e])) /\ Cardinality(ToSet(sent[e])) = Len(sent[e])
      BY <1>0 DEF Numbered
    <3> DEFINE A == ToSet(sent[e])
    <3>3. IsFiniteSet(A \cup {seq}) /\ (Cardinality(A \cup {seq}) = Cardinality(A) + 1)
      <4> HIDE DEF A
      <4>1. seq \notin A /\ IsFiniteSet(A)
        BY <3>1, <3>2 DEF A
      <4> QED BY <4>1, FS_AddElement, Zenon
    <3>4. ToSet(sent'[e]) = A \cup {seq} /\ Len(sent'[e]) = Len(sent[e]) + 1
      BY <1>4
    <3> QED BY <3>2, <3>3, <3>4
  <2>5. Len(sent'[e]) <= MaxData[e]
    BY <1>1, <1>3, <1>4, SlidingWindowAssumption
  <2>6. /\ DOMAIN sendWindow'[e] \subseteq ToSet(sent'[e])
        /\ acked'[e] \subseteq ToSet(sent'[e])
        /\ sendBase'[e] < session'[e].localSeq
    BY <1>0, <1>1, <1>2, <1>3, <1>4, <1>5 DEF Numbered, Types
  <2> QED BY <2>2, <2>3, <2>4, <2>5, <2>6 DEF Numbered
<1>8. Numbered(o)'
  BY <1>0, <1>2, <1>3 DEF Numbered, Types
<1>9. Counted(e)'
  <2>1. Cardinality(received[e]) \in Nat
    BY <1>0, FS_Subset, FS_CardinalityType DEF Counted, Numbered
  <2>2. session'[e].localSeq = 1 + Len(sent'[e]) + Cardinality(received'[e])
    BY <1>0, <1>1, <1>2, <1>3, <1>4, <2>1 DEF Counted
  <2> QED BY <1>0, <1>1, <1>2, <1>3, <2>2 DEF Counted
<1>10. Counted(o)'
  <2>1. /\ session'[o].peerMax < session'[e].localSeq
        /\ \A s \in session'[o].window : s < session'[e].localSeq
    <3>1. session[o].peerMax \in Nat /\ session[o].window \subseteq Nat
      BY <1>1 DEF Sessions
    <3> QED BY <1>0, <1>1, <1>2, <3>1 DEF Counted
  <2> QED BY <1>0, <1>1, <1>2, <1>3, <1>4, <2>1 DEF Counted
<1>11. Packets'
  <2> SUFFICES ASSUME NEW m \in net' PROVE Packet(m)'
    BY DEF Packets
  <2>1. \A f \in Ends : /\ session'[f].localSeq >= session[f].localSeq
                       /\ session[f].localSeq \in Nat /\ session'[f].localSeq \in Nat
                       /\ ToSet(sent[f]) \subseteq ToSet(sent'[f])
    <3>1. session[o].localSeq \in Nat
      BY <1>1 DEF Sessions
    <3> QED BY <1>0, <1>1, <1>2, <1>3, <1>4, <3>1, OtherFacts
  <2>2. CASE m \in net
    <3>1. Packet(m)
      BY <1>0, <2>2 DEF Packets
    <3> QED BY <2>1, <3>1 DEF Packet
  <2>3. CASE m \notin net
    <3>1. m.from = e /\ m.seq = seq
      BY <1>3, <2>3
    <3> QED BY <1>1, <1>2, <1>4, <3>1 DEF Packet
  <2> QED BY <2>2, <2>3
<1> QED BY <1>0, <1>6, <1>7, <1>8, <1>9, <1>10, <1>11, OtherFacts DEF Bookkeeping

(* A send window loses packets and its retry counts grow: its packets have *)
(* still been sent, and the numbers of the other end are not touched.      *)
LEMMA ShrinkBookkeeping ==
    ASSUME Bookkeeping, NEW e \in Ends, NEW win \in Windows, NEW base \in Nat,
           NEW sess \in Sessions, NEW gone,
           DOMAIN win \subseteq DOMAIN sendWindow[e], gone \subseteq DOMAIN sendWindow[e],
           base < session[e].localSeq,
           sess.localSeq = session[e].localSeq,
           sess.peerMax < session[Other(e)].localSeq,
           \A s \in sess.window : s < session[Other(e)].localSeq,
           \A s \in Nat : ~SequenceFresh(session[e], s) => ~SequenceFresh(sess, s),
           session' = [session EXCEPT ![e] = sess],
           sendWindow' = [sendWindow EXCEPT ![e] = win],
           sendBase' = [sendBase EXCEPT ![e] = base],
           acked' = [acked EXCEPT ![e] = acked[e] \cup gone],
           UNCHANGED <<recvNext, recvBuffer, net, sent, delivered, received>>
    PROVE  Bookkeeping'
<1> DEFINE o == Other(e)
<1>0. /\ Types /\ Packets /\ Numbered(e) /\ Counted(e) /\ Numbered(o) /\ Counted(o)
      /\ o \in Ends /\ o # e /\ Other(o) = e /\ Other(e) = o
      /\ \A f \in Ends : f = e \/ f = o
  BY OtherFacts DEF Bookkeeping
<1> HIDE DEF o
<1>1. sent[e] \in Seq(Nat) /\ received[e] \subseteq Nat /\ gone \subseteq Nat
  <2>1. PICK S \in SUBSET Nat : sendWindow[e] \in [S -> 0 .. MaxRetries]
    BY <1>0 DEF Types, Windows
  <2>2. gone \subseteq Nat
    BY <2>1
  <2> QED BY <1>0, <2>2 DEF Types
<1>2. /\ session'[e] = sess /\ session'[o] = session[o]
      /\ sendWindow'[e] = win /\ sendWindow'[o] = sendWindow[o]
      /\ sendBase'[e] = base /\ sendBase'[o] = sendBase[o]
      /\ acked'[e] = acked[e] \cup gone /\ acked'[o] = acked[o]
      /\ \A f \in Ends : session'[f].localSeq = session[f].localSeq
  BY <1>0 DEF Types
<1>3. Types'
  BY <1>0, <1>1 DEF Types
<1>4. Numbered(e)' /\ Numbered(o)'
  BY <1>0, <1>2 DEF Numbered
<1>5. Counted(e)' /\ Counted(o)'
  BY <1>0, <1>1, <1>2 DEF Counted
<1>6. Packets'
  BY <1>0, <1>2 DEF Packets, Packet
<1> QED BY <1>0, <1>3, <1>4, <1>5, <1>6 DEF Bookkeeping

(* process_sack().                                                         *)
LEMMA SackBookkeeping ==
    ASSUME Bookkeeping, NEW e \in Ends, NEW m \in net, ProcessSack(e, m)
    PROVE  Bookkeeping'
<1> DEFINE gone == AllAcked(m) \cap DOMAIN sendWindow[e]
           rest == Without(sendWindow[e], gone)
           base == IF rest = <<>> THEN sendBase[e] ELSE Min(DOMAIN rest)
           sess == RecordSequence(session[e], m.seq)
           o == Other(e)
<1>0. /\ Types /\ Packets /\ Numbered(e) /\ Counted(e)
      /\ o \in Ends
  BY OtherFacts DEF Bookkeeping
<1>1. m.from = o /\ m.seq \in Nat /\ m.seq < session[o].localSeq
  <2>1. m.from \in Ends /\ m.from # e /\ m.seq \in Nat /\ m.seq < session[m.from].localSeq
    BY <1>0 DEF Packets, Packet, ProcessSack
  <2> QED BY <2>1, OtherFacts
<1>2. session[e] \in Sessions /\ session[o] \in Sessions /\ sendWindow[e] \in Windows
  BY <1>0 DEF Types
<1>3. /\ sess \in Sessions /\ sess.localSeq = session[e].localSeq
      /\ sess.peerMax < session[o].localSeq
      /\ \A s \in sess.window : s < session[o].localSeq
      /\ \A s \in Nat : ~SequenceFresh(session[e], s) => ~SequenceFresh(sess, s)
  <2>1. /\ sess \in Sessions /\ sess.localSeq = session[e].localSeq
        /\ sess.peerMax \in {session[e].peerMax, m.seq}
        /\ sess.window \subseteq session[e].window \cup {m.seq}
        /\ \A s \in Nat : ~SequenceFresh(session[e], s) => ~SequenceFresh(sess, s)
    BY <1>1, <1>2, SessionFacts
  <2> HIDE DEF sess
  <2> QED BY <1>0, <1>1, <2>1 DEF Counted
<1>4. rest \in Windows /\ DOMAIN rest \subseteq DOMAIN sendWindow[e]
  <2>1. PICK S \in SUBSET Nat : sendWindow[e] \in [S -> 0 .. MaxRetries]
    BY <1>2 DEF Windows
  <2> HIDE DEF gone
  <2>2. rest \in [S \ gone -> 0 .. MaxRetries] /\ DOMAIN rest = S \ gone
    BY <2>1 DEF Without
  <2> HIDE DEF rest
  <2>3. S \ gone \in SUBSET Nat
    OBVIOUS
  <2> QED BY <2>1, <2>2, <2>3 DEF Windows
<1>5. base \in Nat /\ base < session[e].localSeq
  <2>1. CASE rest = <<>>
    BY <1>0, <2>1 DEF Numbered, Types
  <2>2. CASE rest # <<>>
    <3>1. DOMAIN rest # {}
      <4>1. PICK S \in SUBSET Nat : rest \in [S -> 0 .. MaxRetries]
        BY <1>4 DEF Windows
      <4> HIDE DEF rest
      <4>2. DOMAIN rest = {} => rest = [i \in {} |-> 0]
        BY <4>1
      <4>3. [i \in {} |-> 0] = <<>>
        OBVIOUS
      <4> QED BY <2>2, <4>2, <4>3
    <3>2. DOMAIN rest \subseteq Nat
      BY <1>4 DEF Windows
    <3>3. Min(DOMAIN rest) \in DOMAIN rest
      BY <3>1, <3>2, MinIs
    <3> HIDE DEF rest
    <3>4. Min(DOMAIN rest) \in ToSet(sent[e]) /\ Min(DOMAIN rest) \in Nat
      BY <1>0, <1>4, <3>2, <3>3 DEF Numbered
    <3>5. sent[e] \in Seq(Nat)
      BY <1>0 DEF Types
    <3>6. PICK i \in 1 .. Len(sent[e]) : Min(DOMAIN rest) = sent[e][i]
      BY <3>4, <3>5, ToSetFacts
    <3> QED BY <1>0, <2>2, <3>4, <3>6 DEF Numbered
  <2> QED BY <2>1, <2>2
<1>6. /\ session' = [session EXCEPT ![e] = sess]
      /\ sendWindow' = [sendWindow EXCEPT ![e] = rest]
      /\ sendBase' = [sendBase EXCEPT ![e] = base]
      /\ acked' = [acked EXCEPT ![e] = acked[e] \cup gone]
      /\ UNCHANGED <<recvNext, recvBuffer, net, sent, delivered, received>>
  BY <1>0 DEF ProcessSack, Types, receiving
<1>7. gone \subseteq DOMAIN sendWindow[e]
  OBVIOUS
<1> HIDE DEF gone, rest, base, sess
<1> QED BY <1>3, <1>4, <1>5, <1>6, <1>7, ShrinkBookkeeping

(* get_retransmissions().                                                  *)
LEMMA RetransmitBookkeeping ==
    ASSUME Bookkeeping, NEW e \in Ends, NEW due \in SUBSET DOMAIN sendWindow[e],
           GetRetransmissions(e, due)
    PROVE  Bookkeeping'
<1> DEFINE win == sendWindow[e]
           lost == {s \in due : Exhausted(e, s)}
           after == [s \in DOMAIN win \ lost |-> IF s \in due \ lost THEN win[s] + 1 ELSE win[s]]
<1>0. /\ Types /\ Numbered(e) /\ Counted(e) /\ Other(e) \in Ends
  BY OtherFacts DEF Bookkeeping
<1>1. after \in Windows /\ DOMAIN after \subseteq DOMAIN sendWindow[e]
  <2>1. PICK S \in SUBSET Nat : win \in [S -> 0 .. MaxRetries]
    BY <1>0 DEF Types, Windows
  <2>2. ASSUME NEW s \in S \ lost PROVE after[s] \in 0 .. MaxRetries
    <3>1. CASE s \in due
      <4>1. win[s] \in 0 .. MaxRetries /\ MaxRetries \in Nat
        BY <2>1, SlidingWindowAssumption
      <4>2. ~(win[s] >= MaxRetries)
        BY <3>1 DEF Exhausted
      <4>3. after[s] = win[s] + 1
        BY <2>1, <3>1
      <4> HIDE DEF after
      <4> QED BY <4>1, <4>2, <4>3
    <3>2. CASE s \notin due
      BY <2>1, <3>2
    <3> QED BY <3>1, <3>2
  <2>3. after \in [S \ lost -> 0 .. MaxRetries] /\ DOMAIN after = S \ lost
    BY <2>1, <2>2
  <2> HIDE DEF after, lost
  <2>4. S \ lost \in SUBSET Nat
    OBVIOUS
  <2> QED BY <2>1, <2>3, <2>4 DEF Windows
<1>2. /\ sendWindow' = [sendWindow EXCEPT ![e] = after]
      /\ UNCHANGED <<session, sendBase, recvNext, recvBuffer, net, sent, delivered, received, acked>>
  BY <1>0 DEF GetRetransmissions, Types, receiving
<1> HIDE DEF after
<1>3. /\ session' = [session EXCEPT ![e] = session[e]] /\ session[e] \in Sessions
      /\ sendBase' = [sendBase EXCEPT ![e] = sendBase[e]] /\ sendBase[e] \in Nat
      /\ acked' = [acked EXCEPT ![e] = acked[e] \cup {}]
      /\ UNCHANGED <<recvNext, recvBuffer, net, sent, delivered, received>>
  BY <1>0, <1>2 DEF Types
<1>4. /\ sendBase[e] < session[e].localSeq
      /\ session[e].peerMax < session[Other(e)].localSeq
      /\ \A s \in session[e].window : s < session[Other(e)].localSeq
  BY <1>0 DEF Numbered, Counted
<1>5. PICK none : none = {}
  OBVIOUS
<1>6. /\ none \subseteq DOMAIN sendWindow[e]
      /\ acked' = [acked EXCEPT ![e] = acked[e] \cup none]
      /\ \A s \in Nat : ~SequenceFresh(session[e], s) => ~SequenceFresh(session[e], s)
  BY <1>3, <1>5
<1> QED BY <1>1, <1>2, <1>3, <1>4, <1>6, ShrinkBookkeeping

(* What receive() may do with a packet: hand up a run that begins with it, *)
(* buffer it, or do nothing because it is below the number expected.       *)
HandsUp(e, seq, next, buf) ==
    /\ recvNext[e] = -1 \/ seq = recvNext[e] + 1
    /\ next >= seq /\ next \in {seq} \cup recvBuffer[e]
    /\ seq + 1 .. next \subseteq recvBuffer[e] /\ next + 1 \notin recvBuffer[e]
    /\ buf = recvBuffer[e] \ (seq .. next)
    /\ \E run \in Seq(Nat) :
          /\ Len(run) = next - seq + 1
          /\ \A i \in 1 .. Len(run) : run[i] = seq + i - 1
          /\ delivered' = [delivered EXCEPT ![e] = delivered[e] \o run]

Buffers(e, seq, next, buf) ==
    /\ next = recvNext[e] /\ next # -1 /\ seq > next + 1
    /\ buf = recvBuffer[e] \cup {seq} /\ delivered' = delivered

Ignores(e, seq, next, buf) ==
    /\ next = recvNext[e] /\ next # -1 /\ seq <= next
    /\ buf = recvBuffer[e] /\ delivered' = delivered

LEMMA ReceiveEffect ==
    ASSUME Bookkeeping, NEW e \in Ends, NEW m \in net, Receive(e, m)
    PROVE  \E next \in Nat, buf \in SUBSET Nat :
              /\ \/ HandsUp(e, m.seq, next, buf)
                 \/ Buffers(e, m.seq, next, buf)
                 \/ Ignores(e, m.seq, next, buf)
              /\ recvNext' = [recvNext EXCEPT ![e] = next]
              /\ recvBuffer' = [recvBuffer EXCEPT ![e] = buf]
              /\ net' = net \cup {[type |-> "SACK", from |-> e, seq |-> session[e].localSeq,
                                    cumAck |-> next, blocks |-> Runs(buf)]}
<1> DEFINE seq   == m.seq
           start == IF recvNext[e] = -1 THEN seq - 1 ELSE recvNext[e]
           next  == IF seq = start + 1 THEN DrainedTo(seq, recvBuffer[e]) ELSE start
           buf   == IF seq = start + 1 THEN recvBuffer[e] \ (seq .. next)
                    ELSE IF seq > start + 1 THEN recvBuffer[e] \cup {seq} ELSE recvBuffer[e]
           sack  == BuildSack(next, buf)
           run   == [i \in 1 .. next - start |-> start + i]
           o     == Other(e)
<1>0. /\ Types /\ Packets /\ Counted(e) /\ Numbered(o) /\ o \in Ends
  BY OtherFacts DEF Bookkeeping
<1>1. /\ seq \in Nat /\ recvBuffer[e] \subseteq Nat /\ recvNext[e] \in Nat \cup {-1}
      /\ delivered \in [Ends -> Seq(Nat)] /\ sent[o] \in Seq(Nat)
  BY <1>0 DEF Types, Packets, Packet
<1>2. PICK bound \in Nat : \A n \in recvBuffer[e] : n <= bound
  <2>1. session[o].localSeq \in Nat
    BY <1>0 DEF Types, Sessions
  <2>2. ASSUME NEW n \in recvBuffer[e] PROVE n <= session[o].localSeq
    <3>1. n \in ToSet(sent[o])
      BY <1>0 DEF Counted
    <3>2. PICK i \in 1 .. Len(sent[o]) : n = sent[o][i]
      BY <1>1, <3>1, ToSetFacts
    <3> QED BY <1>0, <1>1, <2>1, <3>2 DEF Numbered
  <2> QED BY <2>1, <2>2
<1>3. /\ recvNext' = [recvNext EXCEPT ![e] = next]
      /\ recvBuffer' = [recvBuffer EXCEPT ![e] = buf]
      /\ net' = net \cup {[type |-> "SACK", from |-> e, seq |-> session[e].localSeq,
                            cumAck |-> sack.cumAck, blocks |-> sack.blocks]}
      /\ delivered' = [delivered EXCEPT ![e] =
                           IF seq = start + 1 THEN delivered[e] \o run ELSE delivered[e]]
  BY <1>1 DEF Receive
<1>4. next \in Nat /\ sack.cumAck = next /\ sack.blocks = Runs(buf)
  <2>1. next \in Nat
    <3>1. CASE seq = start + 1
      <4>1. next = DrainedTo(seq, recvBuffer[e])
        BY <3>1
      <4>2. DrainedTo(seq, recvBuffer[e]) \in Nat
        <5> HIDE DEF next, seq
        <5> QED BY <1>1, <1>2, DrainedToFacts
      <4> QED BY <4>1, <4>2
    <3>2. CASE seq # start + 1
      BY <1>1, <3>2
    <3> QED BY <3>1, <3>2
  <2>2. buf \subseteq Nat
    <3> HIDE DEF next
    <3> QED BY <1>1
  <2> HIDE DEF next, buf
  <2>3. sack.cumAck = next
    BY <2>1, <2>2, BuildSackFacts
  <2>4. sack.blocks = Runs(buf)
    BY DEF BuildSack
  <2> QED BY <2>1, <2>3, <2>4
<1>5. buf \in SUBSET Nat
  <2> HIDE DEF next
  <2> QED BY <1>1
<1>6. \/ HandsUp(e, seq, next, buf) \/ Buffers(e, seq, next, buf) \/ Ignores(e, seq, next, buf)
  <2>1. CASE seq = start + 1
    <3>1. /\ next = DrainedTo(seq, recvBuffer[e]) /\ buf = recvBuffer[e] \ (seq .. next)
          /\ start = seq - 1 /\ start \in Int
          /\ recvNext[e] = -1 \/ seq = recvNext[e] + 1
          /\ delivered' = [delivered EXCEPT ![e] = delivered[e] \o run]
      BY <1>1, <1>3, <2>1
    <3>2. /\ next >= seq /\ next \in {seq} \cup recvBuffer[e]
          /\ seq + 1 .. next \subseteq recvBuffer[e] /\ next + 1 \notin recvBuffer[e]
      BY <1>1, <1>2, <3>1, DrainedToFacts
    <3>3. /\ run \in Seq(Nat) /\ Len(run) = next - seq + 1
          /\ \A i \in 1 .. Len(run) : run[i] = seq + i - 1
      <4> HIDE DEF next, start
      <4>1. next - start \in Nat /\ next - start = next - seq + 1
        <5>1. seq \in Nat /\ next \in Nat /\ start = seq - 1 /\ next >= seq
          BY <1>1, <1>4, <3>1, <3>2
        <5> HIDE DEF seq
        <5> QED BY <5>1
      <4>2. \A i \in 1 .. next - start : start + i \in Nat /\ start + i = seq + i - 1
        BY <1>1, <3>1, <4>1
      <4> QED BY <4>1, <4>2
    <3> HIDE DEF next, start, run, buf
    <3> QED BY <3>1, <3>2, <3>3 DEF HandsUp
  <2>2. CASE seq > start + 1
    <3>1. /\ next = recvNext[e] /\ next # -1 /\ seq > next + 1
          /\ buf = recvBuffer[e] \cup {seq} /\ delivered' = delivered
      BY <1>1, <1>3, <2>2
    <3> QED BY <3>1 DEF Buffers
  <2>3. CASE seq < start + 1
    <3>1. /\ next = recvNext[e] /\ next # -1 /\ seq <= next
          /\ buf = recvBuffer[e] /\ delivered' = delivered
      BY <1>1, <1>3, <2>3
    <3> QED BY <3>1 DEF Ignores
  <2> QED BY <1>1, <2>1, <2>2, <2>3
<1> HIDE DEF next, buf, sack
<1> QED BY <1>3, <1>4, <1>5, <1>6

(* Running one sequence into another.                                      *)
LEMMA ConcatFacts ==
    ASSUME NEW s \in Seq(Nat), NEW t \in Seq(Nat)
    PROVE  /\ s \o t \in Seq(Nat) /\ Len(s \o t) = Len(s) + Len(t)
           /\ \A i \in 1 .. Len(s) : (s \o t)[i] = s[i]
           /\ \A i \in 1 .. Len(s) + Len(t) : i > Len(s) => (s \o t)[i] = t[i - Len(s)]
  OBVIOUS

(* receive().                                                              *)
LEMMA ReceiveBookkeeping ==
    ASSUME Bookkeeping, NEW e \in Ends, NEW m \in net, Receive(e, m)
    PROVE  Bookkeeping'
<1> DEFINE seq == m.seq
           o == Other(e)
           mine == session[e].localSeq
           r == RecordSequence(session[e], seq)
           new == NextSequence(r)
<1>0. /\ Types /\ Packets /\ Numbered(e) /\ Counted(e) /\ Numbered(o) /\ Counted(o)
      /\ o \in Ends /\ o # e /\ Other(o) = e /\ Other(e) = o
      /\ \A f \in Ends : f = e \/ f = o
  BY OtherFacts DEF Bookkeeping
<1>1. PICK next \in Nat, buf \in SUBSET Nat :
          /\ \/ HandsUp(e, seq, next, buf) \/ Buffers(e, seq, next, buf)
             \/ Ignores(e, seq, next, buf)
          /\ recvNext' = [recvNext EXCEPT ![e] = next]
          /\ recvBuffer' = [recvBuffer EXCEPT ![e] = buf]
          /\ net' = net \cup {[type |-> "SACK", from |-> e, seq |-> mine,
                                cumAck |-> next, blocks |-> Runs(buf)]}
  BY ReceiveEffect
<1>2. /\ seq \in Nat /\ seq < session[o].localSeq /\ seq \in ToSet(sent[o])
      /\ SequenceFresh(session[e], seq)
      /\ session' = [session EXCEPT ![e] = new]
      /\ received' = [received EXCEPT ![e] = received[e] \cup {seq}]
      /\ UNCHANGED <<sendWindow, sendBase, sent, acked>>
  <2>1. /\ m.type = "DATA" /\ m.from # e
        /\ SequenceFresh(session[e], seq)
        /\ session' = [session EXCEPT ![e] = new]
        /\ received' = [received EXCEPT ![e] = received[e] \cup {seq}]
        /\ UNCHANGED <<sendWindow, sendBase, sent, acked>>
    BY <1>0 DEF Receive, Types, sending
  <2>2. m.from \in Ends /\ seq \in Nat /\ seq < session[m.from].localSeq /\ seq \in ToSet(sent[m.from])
    BY <1>0, <2>1 DEF Packets, Packet
  <2> QED BY <1>0, <2>1, <2>2
<1>3. /\ session[e] \in Sessions /\ session[o] \in Sessions /\ mine \in Nat
      /\ sent[e] \in Seq(Nat) /\ sent[o] \in Seq(Nat)
      /\ received[e] \subseteq Nat /\ received[o] \subseteq Nat
      /\ delivered[e] \in Seq(Nat) /\ recvNext[e] \in Nat \cup {-1}
  <2>1. session[e] \in Sessions /\ session[o] \in Sessions
    BY <1>0 DEF Types
  <2> QED BY <1>0, <2>1 DEF Types, Sessions
<1>4. /\ new \in Sessions /\ new.localSeq = mine + 1
      /\ new.peerMax \in {session[e].peerMax, seq}
      /\ new.window \subseteq session[e].window \cup {seq}
      /\ ~SequenceFresh(new, seq)
      /\ \A s \in Nat : ~SequenceFresh(session[e], s) => ~SequenceFresh(new, s)
  <2>1. /\ r \in Sessions /\ r.localSeq = mine
        /\ r.peerMax \in {session[e].peerMax, seq}
        /\ r.window \subseteq session[e].window \cup {seq}
        /\ ~SequenceFresh(r, seq)
        /\ \A s \in Nat : ~SequenceFresh(session[e], s) => ~SequenceFresh(r, s)
    BY <1>2, <1>3, SessionFacts
  <2> HIDE DEF r
  <2>2. /\ new \in Sessions /\ new.localSeq = r.localSeq + 1
        /\ new.peerMax = r.peerMax /\ new.window = r.window
        /\ \A s \in Nat : ~SequenceFresh(r, s) => ~SequenceFresh(new, s)
    BY <1>2, <2>1, SessionFacts
  <2> QED BY <1>2, <2>1, <2>2
<1> HIDE DEF r, new, o, mine, seq
<1>5. /\ session'[e] = new /\ session'[o] = session[o]
      /\ received'[e] = received[e] \cup {seq} /\ received'[o] = received[o]
      /\ recvNext'[e] = next /\ recvNext'[o] = recvNext[o]
      /\ recvBuffer'[e] = buf /\ recvBuffer'[o] = recvBuffer[o]
  BY <1>0, <1>1, <1>2 DEF Types
<1>6. /\ delivered' \in [Ends -> Seq(Nat)]
      /\ delivered'[o] = delivered[o]
      /\ \A i \in 1 .. Len(delivered'[e]) : delivered'[e][i] \in received'[e]
  <2>1. delivered \in [Ends -> Seq(Nat)] /\ recvBuffer[e] \subseteq received[e]
        /\ \A i \in 1 .. Len(delivered[e]) : delivered[e][i] \in received[e]
    BY <1>0 DEF Types, Counted
  <2>2. CASE delivered' = delivered
    BY <1>5, <2>1, <2>2
  <2>3. CASE HandsUp(e, seq, next, buf)
    <3>1. PICK run \in Seq(Nat) :
              /\ Len(run) = next - seq + 1
              /\ \A i \in 1 .. Len(run) : run[i] = seq + i - 1
              /\ delivered' = [delivered EXCEPT ![e] = delivered[e] \o run]
      BY <2>3 DEF HandsUp
    <3> DEFINE all == delivered[e] \o run
    <3>2. /\ all \in Seq(Nat) /\ Len(all) = Len(delivered[e]) + Len(run)
          /\ \A i \in 1 .. Len(delivered[e]) : all[i] = delivered[e][i]
          /\ \A i \in 1 .. Len(all) : i > Len(delivered[e]) => all[i] = run[i - Len(delivered[e])]
      BY <1>3, ConcatFacts
    <3> HIDE DEF all
    <3>3. delivered' = [delivered EXCEPT ![e] = all]
      BY <3>1 DEF all
    <3>4. \A i \in 1 .. Len(run) : run[i] \in received'[e]
      <4> SUFFICES ASSUME NEW i \in 1 .. Len(run) PROVE run[i] \in received'[e]
        OBVIOUS
      <4>1. run[i] = seq + i - 1 /\ i >= 1 /\ i <= next - seq + 1 /\ i \in Int
        BY <1>2, <3>1
      <4>2. run[i] = seq \/ run[i] \in seq + 1 .. next
        BY <1>2, <4>1
      <4> QED BY <1>5, <2>1, <2>3, <4>2 DEF HandsUp
    <3>5. ASSUME NEW i \in 1 .. Len(all) PROVE all[i] \in received'[e]
      <4>1. Len(delivered[e]) \in Nat /\ Len(run) \in Nat
        BY <1>3, <3>1
      <4>2. CASE i <= Len(delivered[e])
        BY <1>5, <2>1, <3>2, <4>1, <4>2
      <4>3. CASE i > Len(delivered[e])
        <5>1. i - Len(delivered[e]) \in 1 .. Len(run)
          BY <3>2, <4>1, <4>3
        <5> QED BY <3>2, <3>4, <4>3, <5>1
      <4> QED BY <3>2, <4>1, <4>2, <4>3
    <3> QED BY <1>0, <2>1, <3>2, <3>3, <3>5
  <2> QED BY <1>1, <2>2, <2>3 DEF Buffers, Ignores
<1>7. Types'
  BY <1>0, <1>1, <1>2, <1>3, <1>4, <1>6 DEF Types
<1>8. Numbered(e)'
  BY <1>0, <1>2, <1>3, <1>4, <1>5 DEF Numbered, mine, Types
<1>9. Numbered(o)'
  BY <1>0, <1>2, <1>5 DEF Numbered
<1>10. Counted(e)'
  <2>1. seq \notin received[e]
    BY <1>0, <1>2 DEF Counted
  <2>2. /\ received'[e] \subseteq ToSet(sent'[o])
        /\ recvNext'[e] \in received'[e] \cup {-1}
        /\ recvBuffer'[e] \subseteq received'[e]
    BY <1>0, <1>1, <1>2, <1>5 DEF Counted, HandsUp, Buffers, Ignores
  <2>3. \A s \in received'[e] : ~SequenceFresh(session'[e], s)
    BY <1>0, <1>2, <1>3, <1>4, <1>5 DEF Counted
  <2>4. session'[e].localSeq = 1 + Len(sent'[e]) + Cardinality(received'[e])
    <3>1. IsFiniteSet(received[e])
      BY <1>0, FS_Subset DEF Counted, Numbered
    <3>2. Cardinality(received[e]) \in Nat
      BY <3>1, FS_CardinalityType
    <3>3. Cardinality(received[e] \cup {seq}) = Cardinality(received[e]) + 1
      BY <2>1, <3>1, FS_AddElement
    <3>4. mine = 1 + Len(sent[e]) + Cardinality(received[e])
      BY <1>0 DEF Counted, mine
    <3>5. Len(sent[e]) \in Nat
      BY <1>3
    <3>6. /\ session'[e].localSeq = mine + 1 /\ Len(sent'[e]) = Len(sent[e])
          /\ Cardinality(received'[e]) = Cardinality(received[e]) + 1
      BY <1>2, <1>4, <1>5, <3>3
    <3> QED BY <3>2, <3>4, <3>5, <3>6
  <2>5. /\ session'[e].peerMax < session'[o].localSeq
        /\ \A s \in session'[e].window : s < session'[o].localSeq
    BY <1>0, <1>2, <1>4, <1>5 DEF Counted
  <2> QED BY <1>0, <1>6, <2>2, <2>3, <2>4, <2>5 DEF Counted
<1>11. Counted(o)'
  <2>1. session'[e].localSeq = mine + 1 /\ session[e].localSeq = mine
    BY <1>4, <1>5 DEF mine
  <2>2. session[o].peerMax \in Nat /\ session[o].window \subseteq Nat
    BY <1>3 DEF Sessions
  <2>3. /\ session'[o].peerMax < session'[e].localSeq
        /\ \A s \in session'[o].window : s < session'[e].localSeq
    BY <1>0, <1>3, <1>5, <2>1, <2>2 DEF Counted
  <2>4. /\ received'[o] \subseteq ToSet(sent'[e])
        /\ recvNext'[o] \in received'[o] \cup {-1}
        /\ recvBuffer'[o] \subseteq received'[o]
        /\ \A i \in 1 .. Len(delivered'[o]) : delivered'[o][i] \in received'[o]
        /\ \A s \in received'[o] : ~SequenceFresh(session'[o], s)
        /\ session'[o].localSeq = 1 + Len(sent'[o]) + Cardinality(received'[o])
    BY <1>0, <1>2, <1>5, <1>6 DEF Counted
  <2> QED BY <1>0, <2>3, <2>4 DEF Counted
<1>12. Packets'
  <2> SUFFICES ASSUME NEW p \in net' PROVE Packet(p)'
    BY DEF Packets
  <2>1. session'[e].localSeq = mine + 1 /\ session[e].localSeq = mine
    BY <1>4, <1>5 DEF mine
  <2>2. CASE p \in net
    <3>1. Packet(p)
      BY <1>0, <2>2 DEF Packets
    <3> QED BY <1>0, <1>2, <1>3, <1>5, <2>1, <3>1 DEF Packet
  <2>3. CASE p \notin net
    <3>1. p.type = "SACK" /\ p.from = e /\ p.seq = mine
      BY <1>1, <2>3
    <3> QED BY <1>3, <2>1, <3>1 DEF Packet
  <2> QED BY <2>2, <2>3
<1> QED BY <1>0, <1>7, <1>8, <1>9, <1>10, <1>11, <1>12 DEF Bookkeeping

(* No action disturbs the books.                                           *)
LEMMA NextBookkeeping ==
    ASSUME Bookkeeping, [Next]_vars PROVE Bookkeeping'
<1>1. CASE Next
  BY <1>1, SendBookkeeping, SackBookkeeping, ReceiveBookkeeping, RetransmitBookkeeping DEF Next
<1>2. CASE UNCHANGED vars
  BY <1>2 DEF vars, Bookkeeping, Types, Packets, Packet, Numbered, Counted
<1> QED BY <1>1, <1>2

LEMMA BookkeepingHolds == Spec => []Bookkeeping
  BY InitBookkeeping, NextBookkeeping, PTL DEF Spec

-----------------------------------------------------------------------------
(* Type correctness.                                                       *)

LEMMA NumbersFacts ==
    ASSUME NEW e \in Ends
    PROVE  /\ MaxData[e] \in Nat /\ MaxData[Other(e)] \in Nat
           /\ Numbers = 0 .. MaxData[e] + MaxData[Other(e)]
<1> DEFINE f == CHOOSE x \in Ends : TRUE
<1>1. f \in Ends /\ Other(f) \in Ends
  BY OtherFacts
<1>2. Numbers = 0 .. MaxData[f] + MaxData[Other(f)]
  BY DEF Numbers
<1> HIDE DEF f
<1>3. MaxData[f] \in Nat /\ MaxData[Other(f)] \in Nat
  BY <1>1, SlidingWindowAssumption
<1>4. f = e \/ (f = Other(e) /\ Other(f) = e)
  BY <1>1, OtherFacts
<1> QED BY <1>2, <1>3, <1>4

(* No number goes beyond what the packets need.                            *)
LEMMA BookkeepingNumbers ==
    ASSUME Bookkeeping, NEW e \in Ends
    PROVE  session[e].localSeq \in Nat /\ session[e].localSeq <= 1 + MaxData[e] + MaxData[Other(e)]
<1> DEFINE o == Other(e)
<1>1. Types /\ Numbered(e) /\ Numbered(o) /\ Counted(e) /\ o \in Ends
  BY OtherFacts DEF Bookkeeping
<1>2. sent[e] \in Seq(Nat) /\ sent[o] \in Seq(Nat) /\ session[e] \in Sessions
  BY <1>1 DEF Types
<1>3. IsFiniteSet(ToSet(sent[o])) /\ Cardinality(ToSet(sent[o])) = Len(sent[o])
  BY <1>1 DEF Numbered
<1>4. received[e] \subseteq ToSet(sent[o])
  BY <1>1 DEF Counted
<1>5. IsFiniteSet(received[e]) /\ Cardinality(received[e]) <= Cardinality(ToSet(sent[o]))
  BY <1>3, <1>4, FS_Subset
<1>6. Cardinality(received[e]) \in Nat
  BY <1>5, FS_CardinalityType
<1>7. /\ Len(sent[e]) \in Nat /\ Len(sent[o]) \in Nat
      /\ Len(sent[e]) <= MaxData[e] /\ Len(sent[o]) <= MaxData[o]
      /\ session[e].localSeq = 1 + Len(sent[e]) + Cardinality(received[e])
  BY <1>1, <1>2 DEF Numbered, Counted
<1>8. MaxData[e] \in Nat /\ MaxData[o] \in Nat
  BY NumbersFacts
<1> QED BY <1>3, <1>5, <1>6, <1>7, <1>8

LEMMA BookkeepingTypeOK == Bookkeeping => TypeOK
<1> SUFFICES ASSUME Bookkeeping PROVE TypeOK
  OBVIOUS
<1>1. ASSUME NEW e \in Ends
      PROVE  /\ session[e] \in [key : {"k"}, localSeq : {n + 1 : n \in Numbers},
                                 peerMax : Numbers, window : SUBSET Numbers]
             /\ DOMAIN sendWindow[e] \subseteq Numbers
             /\ \A s \in DOMAIN sendWindow[e] : sendWindow[e][s] \in 0 .. MaxRetries
             /\ sent[e] \in Seq(Numbers) /\ delivered[e] \in Seq(Numbers)
             /\ sendBase[e] \in Numbers
             /\ recvNext[e] \in Numbers \cup {-1}
             /\ recvBuffer[e] \in SUBSET Numbers
             /\ received[e] \in SUBSET Numbers
             /\ acked[e] \in SUBSET Numbers
  <2> DEFINE o == Other(e)
             B == MaxData[e] + MaxData[o]
  <2>0. Types /\ Numbered(e) /\ Numbered(o) /\ Counted(e) /\ o \in Ends /\ Other(o) = e
    BY OtherFacts DEF Bookkeeping
  <2>1. /\ sent[e] \in Seq(Nat) /\ sent[o] \in Seq(Nat) /\ delivered[e] \in Seq(Nat)
        /\ session[e] \in Sessions /\ sendBase[e] \in Nat
    BY <2>0 DEF Types
  <2>2. MaxData[e] \in Nat /\ MaxData[o] \in Nat /\ B \in Nat /\ Numbers = 0 .. B
    BY NumbersFacts
  <2>3. /\ session[e].localSeq \in Nat /\ session[e].localSeq <= 1 + B
        /\ session[o].localSeq \in Nat /\ session[o].localSeq <= 1 + B
    <3>1. session[e].localSeq \in Nat /\ session[e].localSeq <= 1 + MaxData[e] + MaxData[o]
      BY BookkeepingNumbers
    <3>2. session[o].localSeq \in Nat /\ session[o].localSeq <= 1 + MaxData[o] + MaxData[e]
      BY <2>0, BookkeepingNumbers
    <3> QED BY <2>2, <3>1, <3>2
  <2> HIDE DEF B, o
  <2>4. ASSUME NEW f \in {e, o} PROVE ToSet(sent[f]) \subseteq Numbers
    <3> SUFFICES ASSUME NEW x \in ToSet(sent[f]) PROVE x \in Numbers
      OBVIOUS
    <3>1. PICK i \in 1 .. Len(sent[f]) : x = sent[f][i]
      BY <2>1, ToSetFacts
    <3>2. x \in Nat /\ x < session[f].localSeq
      BY <2>0, <2>1, <3>1 DEF Numbered
    <3> QED BY <2>2, <2>3, <3>2
  <2>5. session[e] \in [key : {"k"}, localSeq : {n + 1 : n \in Numbers},
                        peerMax : Numbers, window : SUBSET Numbers]
    <3>1. /\ session[e].key = "k" /\ session[e].peerMax \in Nat /\ session[e].window \subseteq Nat
          /\ session[e] = [key |-> session[e].key, localSeq |-> session[e].localSeq,
                           peerMax |-> session[e].peerMax, window |-> session[e].window]
      BY <2>1 DEF Sessions
    <3>2. session[e].peerMax \in Numbers /\ session[e].window \subseteq Numbers
      BY <2>0, <2>2, <2>3, <3>1 DEF Counted, o
    <3>3. session[e].localSeq \in {n + 1 : n \in Numbers}
      <4>1. session[e].localSeq > 0
        BY <2>0, <2>1, <2>3 DEF Numbered
      <4>2. session[e].localSeq - 1 \in Numbers /\ session[e].localSeq = (session[e].localSeq - 1) + 1
        BY <2>2, <2>3, <4>1
      <4> QED BY <4>2
    <3> QED BY <3>1, <3>2, <3>3
  <2>6. /\ DOMAIN sendWindow[e] \subseteq Numbers /\ acked[e] \subseteq Numbers
        /\ received[e] \subseteq Numbers
    BY <2>0, <2>4 DEF Numbered, Counted, o
  <2>7. \A s \in DOMAIN sendWindow[e] : sendWindow[e][s] \in 0 .. MaxRetries
    <3>1. PICK S \in SUBSET Nat : sendWindow[e] \in [S -> 0 .. MaxRetries]
      BY <2>0 DEF Types, Windows
    <3> QED BY <3>1
  <2>8. recvNext[e] \in Numbers \cup {-1} /\ recvBuffer[e] \in SUBSET Numbers
    BY <2>0, <2>6 DEF Counted
  <2>9. sendBase[e] \in Numbers
    BY <2>0, <2>1, <2>2, <2>3 DEF Numbered
  <2>10. sent[e] \in Seq(Numbers)
    <3>1. \A i \in 1 .. Len(sent[e]) : sent[e][i] \in Numbers
      BY <2>1, <2>4, ToSetFacts
    <3> QED BY <2>1, <3>1, SequenceOver
  <2>11. delivered[e] \in Seq(Numbers)
    <3>1. \A i \in 1 .. Len(delivered[e]) : delivered[e][i] \in Numbers
      BY <2>0, <2>6 DEF Counted
    <3> QED BY <2>1, <3>1, SequenceOver
  <2> QED BY <2>5, <2>6, <2>7, <2>8, <2>9, <2>10, <2>11
<1>2. Types
  BY DEF Bookkeeping
<1> QED BY <1>1, <1>2 DEF TypeOK, Types

(* Every number an end uses fits in the numbers the two ends' packets      *)
(* need, no retry counter goes beyond the limit, and the sequences and     *)
(* buffers hold such numbers.                                              *)
THEOREM TypeCorrect == Spec => []TypeOK
  BY BookkeepingHolds, BookkeepingTypeOK, PTL

-----------------------------------------------------------------------------
(* Order.  From here on the first packet of a direction arrives first.     *)

(* The first packet sent has the least number.                             *)
LEMMA FirstIsLeast ==
    ASSUME Bookkeeping, NEW e \in Ends, NEW x \in ToSet(sent[e])
    PROVE  sent[e] # <<>> /\ sent[e][1] \in Nat /\ sent[e][1] <= x /\ x \in Nat
<1>1. sent[e] \in Seq(Nat) /\ Rising(sent[e])
  BY DEF Bookkeeping, Types, Numbered
<1>2. PICK i \in 1 .. Len(sent[e]) : x = sent[e][i]
  BY <1>1, ToSetFacts
<1>3. Len(sent[e]) \in Nat /\ 1 \in 1 .. Len(sent[e]) /\ sent[e][1] \in Nat /\ x \in Nat
  BY <1>1, <1>2
<1>4. i = 1 \/ sent[e][1] < sent[e][i]
  BY <1>1, <1>2, <1>3 DEF Rising
<1> QED BY <1>1, <1>2, <1>3, <1>4

LEMMA InitOrderly == Init => Orderly
<1> SUFFICES ASSUME Init PROVE Orderly
  OBVIOUS
<1>1. \A e \in Ends : InOrder(e)
  BY DEF Init, InOrder
<1>2. AckedIsReceived
  BY OtherFacts DEF Init, AckedIsReceived
<1> QED BY <1>1, <1>2 DEF Init, Orderly

(* send() does not change which packet is the first.                       *)
LEMMA SendOrderly ==
    ASSUME Bookkeeping, Orderly, NEW e \in Ends, Send(e)
    PROVE  Orderly'
<1> DEFINE seq == session[e].localSeq
<1>1. sent \in [Ends -> Seq(Nat)] /\ seq \in Nat
  <2>1. session[e] \in Sessions
    BY DEF Bookkeeping, Types
  <2> QED BY <2>1 DEF Bookkeeping, Types, Sessions
<1>2. /\ sent' = [sent EXCEPT ![e] = Append(sent[e], seq)]
      /\ net' = net \cup {[type |-> "DATA", from |-> e, seq |-> seq]}
      /\ UNCHANGED <<recvNext, recvBuffer, delivered, received, acked>>
  BY <1>1 DEF Send, receiving
<1> HIDE DEF seq
<1>3. \A f \in Ends : sent[f] # <<>> => sent'[f] # <<>> /\ sent'[f][1] = sent[f][1]
  <2> SUFFICES ASSUME NEW f \in Ends, sent[f] # <<>>
               PROVE  sent'[f] # <<>> /\ sent'[f][1] = sent[f][1]
    OBVIOUS
  <2>1. CASE f # e
    BY <1>1, <1>2, <2>1
  <2>2. CASE f = e
    <3>1. sent'[e] = Append(sent[e], seq) /\ 1 \in 1 .. Len(sent[e]) /\ sent[e] \in Seq(Nat)
      BY <1>1, <1>2, <2>2, EmptySeq
    <3>2. Len(sent'[e]) = Len(sent[e]) + 1 /\ sent'[e][1] = sent[e][1]
      BY <1>1, <3>1, AppendFacts
    <3> QED BY <2>2, <3>1, <3>2
  <2> QED BY <2>1, <2>2
<1>4. \A f \in Ends : InOrder(f)'
  BY <1>2, <1>3, OtherFacts DEF Orderly, InOrder
<1>5. ASSUME NEW m \in net' PROVE SackTrue(m)'
  <2>1. CASE m \in net
    <3>1. SackTrue(m) /\ m.from \in Ends
      BY <2>1 DEF Orderly, Bookkeeping, Packets, Packet
    <3>2. Other(m.from) \in Ends
      BY <3>1, OtherFacts
    <3> QED BY <1>2, <1>3, <3>1, <3>2 DEF SackTrue
  <2>2. CASE m \notin net
    BY <1>2, <2>2 DEF SackTrue
  <2> QED BY <2>1, <2>2
<1>6. AckedIsReceived'
  BY <1>2 DEF Orderly, AckedIsReceived
<1> QED BY <1>4, <1>5, <1>6 DEF Orderly

(* process_sack() removes numbers a true SACK names.                       *)
LEMMA SackOrderly ==
    ASSUME Bookkeeping, Orderly, NEW e \in Ends, NEW m \in net, ProcessSack(e, m)
    PROVE  Orderly'
<1> DEFINE gone == AllAcked(m) \cap DOMAIN sendWindow[e]
           o == Other(e)
<1>1. /\ acked' = [acked EXCEPT ![e] = acked[e] \cup gone]
      /\ UNCHANGED <<recvNext, recvBuffer, net, sent, delivered, received>>
      /\ m.type = "SACK" /\ m.from # e /\ acked \in [Ends -> SUBSET Nat]
  BY DEF ProcessSack, receiving, Bookkeeping, Types
<1>2. m.from = o /\ o \in Ends /\ Other(o) = e
  <2>1. m.from \in Ends
    BY DEF Bookkeeping, Packets, Packet
  <2> QED BY <1>1, <2>1, OtherFacts
<1>3. gone \subseteq received[o]
  <2> SUFFICES ASSUME NEW n \in gone PROVE n \in received[o]
    OBVIOUS
  <2>1. n \in ToSet(sent[e])
    BY DEF Bookkeeping, Numbered
  <2>2. sent[e][1] \in Nat /\ sent[e][1] <= n /\ n \in Nat
    BY <2>1, FirstIsLeast
  <2>3. n \in received[o] \/ n < sent[e][1]
    BY <1>1, <1>2 DEF Orderly, SackTrue
  <2> QED BY <2>2, <2>3
<1> HIDE DEF gone
<1>4. AckedIsReceived'
  <2> SUFFICES ASSUME NEW f \in Ends PROVE acked'[f] \subseteq received[Other(f)]
    BY <1>1 DEF AckedIsReceived
  <2>1. acked[f] \subseteq received[Other(f)]
    BY DEF Orderly, AckedIsReceived
  <2> QED BY <1>1, <1>3, <2>1
<1>5. (\A f \in Ends : InOrder(f)') /\ (\A p \in net' : SackTrue(p)')
  BY <1>1 DEF Orderly, InOrder, SackTrue
<1> QED BY <1>4, <1>5 DEF Orderly

(* receive() keeps what it has received in order, and the SACK it sends    *)
(* speaks of that.                                                         *)
LEMMA ReceiveOrderly ==
    ASSUME FirstInOrder, Bookkeeping, Orderly, NEW e \in Ends, NEW m \in net, Receive(e, m)
    PROVE  Orderly'
<1> DEFINE seq == m.seq
           o == Other(e)
           first == sent[o][1]
<1>0. o \in Ends /\ o # e /\ Other(o) = e /\ \A f \in Ends : f = e \/ f = o
  BY OtherFacts
<1>1. PICK next \in Nat, buf \in SUBSET Nat :
          /\ \/ HandsUp(e, seq, next, buf) \/ Buffers(e, seq, next, buf)
             \/ Ignores(e, seq, next, buf)
          /\ recvNext' = [recvNext EXCEPT ![e] = next]
          /\ recvBuffer' = [recvBuffer EXCEPT ![e] = buf]
          /\ net' = net \cup {[type |-> "SACK", from |-> e, seq |-> session[e].localSeq,
                                cumAck |-> next, blocks |-> Runs(buf)]}
  BY ReceiveEffect
<1>2. /\ seq \in Nat /\ seq \in ToSet(sent[o])
      /\ received' = [received EXCEPT ![e] = received[e] \cup {seq}]
      /\ recvNext[e] # -1 \/ seq = first
      /\ UNCHANGED <<sent, acked>>
  <2>1. /\ m.type = "DATA" /\ m.from # e
        /\ received' = [received EXCEPT ![e] = received[e] \cup {seq}]
        /\ recvNext[e] # -1 \/ seq = sent[m.from][1]
        /\ UNCHANGED <<sent, acked>>
    BY DEF Receive, Bookkeeping, Types
  <2>2. m.from \in Ends /\ seq \in Nat /\ seq \in ToSet(sent[m.from])
    BY <2>1 DEF Bookkeeping, Packets, Packet
  <2> QED BY <1>0, <2>1, <2>2
<1>3. sent[o] # <<>> /\ first \in Nat /\ first <= seq
  BY <1>0, <1>2, FirstIsLeast
<1>4. /\ recvNext \in [Ends -> Nat \cup {-1}] /\ recvBuffer \in [Ends -> SUBSET Nat]
      /\ received \in [Ends -> SUBSET Nat] /\ delivered \in [Ends -> Seq(Nat)]
  BY DEF Bookkeeping, Types
<1> HIDE DEF o, seq, first
<1>5. /\ received'[e] = received[e] \cup {seq} /\ received'[o] = received[o]
      /\ recvNext'[e] = next /\ recvNext'[o] = recvNext[o]
      /\ recvBuffer'[e] = buf /\ recvBuffer'[o] = recvBuffer[o]
      /\ delivered'[o] = delivered[o] /\ sent' = sent
  BY <1>0, <1>1, <1>2, <1>4 DEF HandsUp, Buffers, Ignores
<1>6. /\ first <= next /\ Len(delivered'[e]) = next - first + 1
      /\ \A i \in 1 .. Len(delivered'[e]) : delivered'[e][i] = first + i - 1
      /\ received'[e] = (first .. next) \cup buf
      /\ \A n \in buf : n > next + 1
  <2>1. InOrder(e)
    BY DEF Orderly
  <2>2. CASE HandsUp(e, seq, next, buf)
    <3>1. PICK run \in Seq(Nat) :
              /\ Len(run) = next - seq + 1
              /\ \A i \in 1 .. Len(run) : run[i] = seq + i - 1
              /\ delivered' = [delivered EXCEPT ![e] = delivered[e] \o run]
      BY <2>2 DEF HandsUp
    <3>2. /\ next >= seq /\ next \in {seq} \cup recvBuffer[e]
          /\ seq + 1 .. next \subseteq recvBuffer[e] /\ next + 1 \notin recvBuffer[e]
          /\ buf = recvBuffer[e] \ (seq .. next)
      BY <2>2 DEF HandsUp
    <3>3. /\ Len(delivered[e]) = seq - first
          /\ \A i \in 1 .. Len(delivered[e]) : delivered[e][i] = first + i - 1
          /\ received[e] = (first .. seq - 1) \cup recvBuffer[e]
          /\ \A n \in recvBuffer[e] : n > seq
      <4>1. CASE recvNext[e] = -1
        <5>1. delivered[e] = <<>> /\ recvBuffer[e] = {} /\ received[e] = {} /\ seq = first
          BY <1>2, <2>1, <4>1 DEF InOrder
        <5>2. Len(delivered[e]) = 0 /\ first .. seq - 1 = {}
          BY <1>3, <5>1
        <5> QED BY <1>3, <5>1, <5>2
      <4>2. CASE recvNext[e] # -1
        <5>1. /\ recvNext[e] \in Nat /\ first <= recvNext[e] /\ seq = recvNext[e] + 1
              /\ Len(delivered[e]) = recvNext[e] - first + 1
              /\ \A i \in 1 .. Len(delivered[e]) : delivered[e][i] = first + i - 1
              /\ received[e] = (first .. recvNext[e]) \cup recvBuffer[e]
              /\ \A n \in recvBuffer[e] : n > recvNext[e] + 1
          BY <2>1, <2>2, <4>2 DEF InOrder, HandsUp, first, o
        <5>2. recvNext[e] \in Nat /\ seq \in Nat /\ first \in Nat /\ seq = recvNext[e] + 1
          BY <1>2, <1>3, <5>1
        <5>3. recvNext[e] = seq - 1
          BY <5>2
        <5>4. recvNext[e] - first + 1 = seq - first
          BY <5>2
        <5> QED BY <5>1, <5>3, <5>4
      <4> QED BY <4>1, <4>2
    <3> DEFINE all == delivered[e] \o run
               n0 == Len(delivered[e])
    <3>4. /\ delivered[e] \in Seq(Nat) /\ n0 \in Nat
          /\ Len(all) = n0 + Len(run)
          /\ \A i \in 1 .. n0 : all[i] = delivered[e][i]
          /\ \A i \in 1 .. Len(all) : i > n0 => all[i] = run[i - n0]
      BY <1>4, ConcatFacts
    <3>5. delivered'[e] = all
      BY <1>4, <3>1
    <3> HIDE DEF all, n0
    <3>6. Len(all) = next - first + 1 /\ n0 = seq - first
      BY <1>2, <1>3, <3>1, <3>3, <3>4 DEF n0
    <3>7. ASSUME NEW i \in 1 .. Len(all) PROVE all[i] = first + i - 1
      <4>1. CASE i <= n0
        BY <3>3, <3>4, <4>1 DEF n0
      <4>2. CASE i > n0
        <5>1. i - n0 \in 1 .. Len(run) /\ i \in Int
          BY <1>2, <1>3, <3>1, <3>4, <3>6, <4>2
        <5>2. all[i] = seq + (i - n0) - 1
          BY <3>1, <3>4, <4>2, <5>1
        <5> QED BY <1>2, <1>3, <3>6, <5>1, <5>2
      <4> QED BY <3>4, <3>6, <4>1, <4>2
    <3>8. received'[e] = (first .. next) \cup buf
      <4>1. first .. next = (first .. seq - 1) \cup {seq} \cup (seq + 1 .. next)
        BY <1>2, <1>3, <3>2
      <4>2. recvBuffer[e] = (seq + 1 .. next) \cup buf
        BY <1>2, <1>4, <3>2, <3>3
      <4> QED BY <1>5, <3>3, <4>1, <4>2
    <3>9. \A n \in buf : n > next + 1
      <4> SUFFICES ASSUME NEW n \in buf PROVE n > next + 1
        OBVIOUS
      <4>1. n \in Nat /\ n > seq /\ n \notin seq .. next /\ n # next + 1
        BY <1>4, <3>2, <3>3
      <4> QED BY <1>2, <4>1
    <3> QED BY <1>2, <1>3, <3>2, <3>5, <3>6, <3>7, <3>8, <3>9
  <2>3. CASE ~HandsUp(e, seq, next, buf)
    <3>1. /\ next = recvNext[e] /\ next # -1 /\ delivered' = delivered
          /\ \/ seq > next + 1 /\ buf = recvBuffer[e] \cup {seq}
             \/ seq <= next /\ buf = recvBuffer[e]
      BY <1>1, <2>3 DEF Buffers, Ignores
    <3>2. /\ first <= next
          /\ Len(delivered[e]) = next - first + 1
          /\ \A i \in 1 .. Len(delivered[e]) : delivered[e][i] = first + i - 1
          /\ received[e] = (first .. next) \cup recvBuffer[e]
          /\ \A n \in recvBuffer[e] : n > next + 1
      BY <2>1, <3>1 DEF InOrder, first, o
    <3>3. seq <= next => seq \in first .. next
      BY <1>2, <1>3
    <3> QED BY <1>5, <3>1, <3>2, <3>3
  <2> QED BY <2>2, <2>3
<1>7. InOrder(e)'
  BY <1>3, <1>5, <1>6 DEF InOrder, first, o
<1>8. InOrder(o)'
  <2>1. InOrder(o)
    BY <1>0 DEF Orderly
  <2> QED BY <1>5, <2>1 DEF InOrder
<1>9. ASSUME NEW p \in net' PROVE SackTrue(p)'
  <2>1. CASE p \in net
    <3>1. SackTrue(p) /\ p.from \in Ends
      BY <2>1 DEF Orderly, Bookkeeping, Packets, Packet
    <3>2. received[p.from] \subseteq received'[p.from]
      BY <1>0, <1>5, <3>1
    <3> QED BY <1>5, <3>1, <3>2 DEF SackTrue
  <2>2. CASE p \notin net
    <3> DEFINE sack == BuildSack(next, buf)
    <3>1. p.from = e /\ p.cumAck = next /\ p.blocks = Runs(buf)
      BY <1>1, <2>2
    <3>2. sack.cumAck = next /\ \A n \in AllAcked(sack) : n \in 0 .. next \/ n \in buf
      BY BuildSackFacts
    <3>3. AllAcked(p) = AllAcked(sack)
      BY <3>1, <3>2 DEF AllAcked, BuildSack
    <3>4. ASSUME NEW n \in AllAcked(p) PROVE n \in received'[e] \/ n < first
      BY <1>3, <1>6, <3>2, <3>3, <3>4
    <3> QED BY <1>0, <1>3, <1>5, <3>1, <3>4 DEF SackTrue, first, o
  <2> QED BY <2>1, <2>2
<1>10. AckedIsReceived'
  <2>1. \A f \in Ends : received[f] \subseteq received'[f]
    BY <1>0, <1>5
  <2> QED BY <1>2, <2>1, OtherFacts DEF Orderly, AckedIsReceived
<1> QED BY <1>0, <1>7, <1>8, <1>9, <1>10 DEF Orderly

LEMMA NextOrderly ==
    ASSUME FirstInOrder, Bookkeeping, Orderly, [Next]_vars PROVE Orderly'
<1>1. ASSUME NEW e \in Ends, NEW due \in SUBSET DOMAIN sendWindow[e], GetRetransmissions(e, due)
      PROVE  Orderly'
  BY <1>1 DEF GetRetransmissions, receiving, Orderly, InOrder, SackTrue, AckedIsReceived
<1>2. CASE Next
  BY <1>1, <1>2, SendOrderly, SackOrderly, ReceiveOrderly DEF Next
<1>3. CASE UNCHANGED vars
  BY <1>3 DEF vars, Orderly, InOrder, SackTrue, AckedIsReceived
<1> QED BY <1>2, <1>3

LEMMA OrderlyHolds == FirstInOrder /\ Spec => []Orderly
<1>1. ASSUME FirstInOrder PROVE Spec => []Orderly
  <2>1. Bookkeeping /\ Orderly /\ [Next]_vars => Orderly'
    BY <1>1, NextOrderly
  <2> QED BY <2>1, InitOrderly, BookkeepingHolds, PTL DEF Spec
<1> QED BY <1>1

(* What has been delivered is the beginning of what was sent.              *)
Prefix(e) == /\ Len(delivered[e]) \in 0 .. Len(sent[Other(e)])
             /\ delivered[e] = SubSeq(sent[Other(e)], 1, Len(delivered[e]))

LEMMA DeliveredIsPrefix ==
    ASSUME Bookkeeping, NEW e \in Ends, InOrder(e)
    PROVE  Prefix(e)
<1> DEFINE stream == sent[Other(e)]
           n == Len(delivered[e])
<1>1. /\ stream \in Seq(Nat) /\ delivered[e] \in Seq(Nat) /\ Rising(stream)
      /\ received[e] \subseteq ToSet(stream)
      /\ Len(stream) \in Nat /\ n \in Nat
  BY OtherFacts DEF Bookkeeping, Types, Numbered, Counted
<1>2. CASE recvNext[e] = -1
  <2>1. delivered[e] = <<>> /\ n = 0
    BY <1>2 DEF InOrder
  <2>2. SubSeq(stream, 1, 0) = <<>>
    BY SubSeqEmpty
  <2> QED BY <1>1, <2>1, <2>2 DEF Prefix
<1>3. CASE recvNext[e] # -1
  <2> DEFINE last == recvNext[e]
  <2>1. /\ stream # <<>> /\ last \in Nat /\ stream[1] <= last /\ n = last - stream[1] + 1
        /\ \A i \in 1 .. n : delivered[e][i] = stream[1] + i - 1
        /\ stream[1] .. last \subseteq received[e]
    BY <1>3 DEF InOrder
  <2>2. stream[1] \in Nat /\ \A i \in 1 .. Len(stream) : stream[i] \in Nat
    BY <1>1, <2>1
  <2> HIDE DEF stream, n, last
  <2>3. PICK j \in 1 .. Len(stream) : last = stream[j]
    <3>0. last \in stream[1] .. last
      BY <2>1, <2>2
    <3>1. last \in ToSet(stream)
      BY <1>1, <2>1, <3>0
    <3> QED BY <1>1, <3>1, ToSetFacts
  <2>4. stream[1] .. stream[j] \subseteq ToSet(stream)
    BY <1>1, <2>1, <2>3
  <2>5. stream[j] = stream[1] + j - 1
    BY <1>1, <2>3, <2>4, RisingGapless
  <2>6. n = j
    BY <2>1, <2>2, <2>3, <2>5
  <2>7. ASSUME NEW i \in 1 .. n PROVE stream[i] \in Nat /\ stream[i] = delivered[e][i]
    <3>1. i \in 1 .. Len(stream) /\ i \in Nat
      BY <1>1, <2>3, <2>6
    <3>2. stream[i] <= stream[j]
      <4>1. i = j \/ stream[i] < stream[j]
        BY <1>1, <2>3, <2>6, <3>1 DEF Rising
      <4> QED BY <2>2, <2>3, <3>1, <4>1
    <3>3. stream[1] .. stream[i] \subseteq stream[1] .. stream[j]
      BY <2>2, <2>3, <3>1, <3>2
    <3>4. stream[i] = stream[1] + i - 1
      BY <1>1, <2>4, <3>1, <3>3, RisingGapless
    <3> QED BY <2>1, <2>2, <3>1, <3>4
  <2>8. /\ SubSeq(stream, 1, n) \in Seq(Nat) /\ Len(SubSeq(stream, 1, n)) = n
        /\ \A i \in 1 .. n : SubSeq(stream, 1, n)[i] = stream[i]
    <3>1. 1 \in Int /\ n \in Int /\ 1 <= n /\ n - 1 + 1 = n /\ \A i \in 1 .. n : 1 + i - 1 = i
      BY <1>1, <2>3, <2>6
    <3>2. \A i \in 1 .. n : stream[i] \in Nat
      BY <2>7
    <3>3. /\ SubSeq(stream, 1, n) \in Seq(Nat)
          /\ Len(SubSeq(stream, 1, n)) = IF 1 <= n THEN n - 1 + 1 ELSE 0
          /\ \A i \in 1 .. n - 1 + 1 : SubSeq(stream, 1, n)[i] = stream[1 + i - 1]
      BY <3>1, <3>2, SubSeqProperties
    <3> QED BY <3>1, <3>3
  <2>9. delivered[e] = SubSeq(stream, 1, n)
    <3>1. Len(delivered[e]) = n
      BY DEF n
    <3> QED BY <1>1, <2>7, <2>8, <3>1, SeqEqual
  <2> QED BY <1>1, <2>3, <2>6, <2>9 DEF n, stream, Prefix
<1> QED BY <1>2, <1>3

(* A packet the sender forgets as acknowledged has been received, when the *)
(* first packet of each direction arrives first (process_sack()).          *)
THEOREM AcksAreTrue == FirstInOrder /\ Spec => []AckedIsReceived
<1>1. Orderly => AckedIsReceived
  BY DEF Orderly
<1> QED BY <1>1, OrderlyHolds, PTL

(* What receive() took has been handed up or waits for an earlier packet,  *)
(* under the same condition.                                               *)
THEOREM NothingIsWithheld == FirstInOrder /\ Spec => []NothingWithheld
<1>1. Bookkeeping /\ Orderly => NothingWithheld
  <2> SUFFICES ASSUME Bookkeeping, Orderly, NEW e \in Ends
               PROVE  /\ received[e] = ToSet(delivered[e]) \cup recvBuffer[e]
                      /\ recvNext[e] + 1 \notin recvBuffer[e]
    BY DEF NothingWithheld
  <2> DEFINE first == sent[Other(e)][1]
  <2>1. InOrder(e) /\ delivered[e] \in Seq(Nat) /\ recvBuffer[e] \subseteq Nat
    BY DEF Orderly, Bookkeeping, Types
  <2>2. CASE recvNext[e] = -1
    <3>1. delivered[e] = <<>> /\ recvBuffer[e] = {} /\ received[e] = {}
      BY <2>1, <2>2 DEF InOrder
    <3>2. ToSet(delivered[e]) = {}
      BY <3>1 DEF ToSet
    <3> QED BY <3>1, <3>2
  <2>3. CASE recvNext[e] # -1
    <3>1. /\ recvNext[e] \in Nat /\ first <= recvNext[e] /\ sent[Other(e)] # <<>>
          /\ Len(delivered[e]) = recvNext[e] - first + 1
          /\ \A i \in 1 .. Len(delivered[e]) : delivered[e][i] = first + i - 1
          /\ received[e] = (first .. recvNext[e]) \cup recvBuffer[e]
          /\ \A n \in recvBuffer[e] : n > recvNext[e] + 1
      BY <2>1, <2>3 DEF InOrder
    <3>2. first \in Nat
      <4>1. sent[Other(e)] \in Seq(Nat)
        BY OtherFacts DEF Bookkeeping, Types
      <4> QED BY <3>1, <4>1
    <3> HIDE DEF first
    <3>3. ToSet(delivered[e]) = first .. recvNext[e]
      <4>1. ASSUME NEW x \in ToSet(delivered[e]) PROVE x \in first .. recvNext[e]
        <5>1. PICK i \in 1 .. Len(delivered[e]) : x = delivered[e][i]
          BY <2>1, ToSetFacts
        <5>2. x = first + i - 1 /\ i \in 1 .. recvNext[e] - first + 1
          BY <3>1, <5>1
        <5> QED BY <3>1, <3>2, <5>2
      <4>2. ASSUME NEW x \in first .. recvNext[e] PROVE x \in ToSet(delivered[e])
        <5>1. /\ x - first + 1 \in 1 .. recvNext[e] - first + 1
              /\ first + (x - first + 1) - 1 = x
          BY <3>1, <3>2
        <5>2. delivered[e][x - first + 1] = x /\ x - first + 1 \in 1 .. Len(delivered[e])
          BY <3>1, <5>1
        <5> QED BY <2>1, <5>2, ToSetFacts
      <4> QED BY <4>1, <4>2
    <3> QED BY <2>1, <3>1, <3>3
  <2> QED BY <2>2, <2>3
<1> QED BY <1>1, BookkeepingHolds, OrderlyHolds, PTL

(* Each step of the channel is, for each direction, a step of an ordered   *)
(* stream or none: send() puts an item in, receive() takes what comes next *)
(* out, and nothing else touches either.                                   *)
LEMMA StreamSteps ==
    ASSUME Bookkeeping, TypeOK', \A e \in Ends : Prefix(e)', [Next]_vars
    PROVE  \A e \in Ends : Stream(e)!Next \/ UNCHANGED <<sent[Other(e)], delivered[e]>>
<1> SUFFICES ASSUME NEW d \in Ends
             PROVE  Stream(d)!Next \/ UNCHANGED <<sent[Other(d)], delivered[d]>>
  OBVIOUS
<1>0. sent \in [Ends -> Seq(Nat)] /\ delivered \in [Ends -> Seq(Nat)] /\ Other(d) \in Ends
  BY OtherFacts DEF Bookkeeping, Types
<1>1. ASSUME NEW e \in Ends, Send(e)
      PROVE  Stream(d)!Next \/ UNCHANGED <<sent[Other(d)], delivered[d]>>
  <2> DEFINE seq == session[e].localSeq
  <2>1. sent' = [sent EXCEPT ![e] = Append(sent[e], seq)] /\ delivered' = delivered
    BY <1>0, <1>1 DEF Send
  <2>2. CASE Other(d) = e
    <3>1. seq \in Numbers
      <4>2. session'[e].localSeq \in {n + 1 : n \in Numbers}
        BY DEF TypeOK
      <4>3. session'[e].localSeq = seq + 1 /\ seq \in Nat
        <5>1. session[e] \in Sessions /\ session \in [Ends -> Sessions]
          BY DEF Bookkeeping, Types
        <5>2. session' = [session EXCEPT ![e] = NextSequence(session[e])]
          BY <1>1, <5>1 DEF Send
        <5> QED BY <5>1, <5>2 DEF NextSequence, Sessions
      <4>4. PICK n \in Numbers : seq + 1 = n + 1
        BY <4>2, <4>3
      <4>5. n \in Nat
        BY NumbersFacts
      <4> QED BY <4>3, <4>4, <4>5
    <3>2. Stream(d)!Put
      BY <1>0, <2>1, <2>2, <3>1 DEF Stream!Put
    <3> QED BY <3>2 DEF Stream!Next
  <2>3. CASE Other(d) # e
    BY <1>0, <2>1, <2>3
  <2> QED BY <2>2, <2>3
<1>2. ASSUME NEW e \in Ends, NEW m \in net, Receive(e, m)
      PROVE  Stream(d)!Next \/ UNCHANGED <<sent[Other(d)], delivered[d]>>
  <2>1. PICK next \in Nat, buf \in SUBSET Nat :
            \/ HandsUp(e, m.seq, next, buf) \/ Buffers(e, m.seq, next, buf)
            \/ Ignores(e, m.seq, next, buf)
    BY <1>2, ReceiveEffect
  <2>2. sent' = sent
    BY <1>2 DEF Receive
  <2>3. CASE HandsUp(e, m.seq, next, buf) /\ d = e
    <3>1. PICK run \in Seq(Nat) :
              /\ Len(run) = next - m.seq + 1
              /\ delivered' = [delivered EXCEPT ![e] = delivered[e] \o run]
      BY <2>3 DEF HandsUp
    <3>2. Len(run) >= 1
      <4>1. m.seq \in Nat /\ next >= m.seq
        BY <2>3 DEF HandsUp, Bookkeeping, Packets, Packet
      <4> QED BY <3>1, <4>1
    <3>3. Len(delivered'[e]) > Len(delivered[e])
      BY <1>0, <3>1, <3>2, ConcatFacts
    <3>5. /\ Len(delivered'[e]) \in 0 .. Len(sent'[Other(e)])
          /\ delivered'[e] = SubSeq(sent'[Other(e)], 1, Len(delivered'[e]))
      BY DEF Prefix
    <3>6. Len(delivered'[e]) \in Len(delivered[e]) + 1 .. Len(sent[Other(e)])
      BY <1>0, <2>2, <2>3, <3>3, <3>5
    <3>7. Stream(d)!Take
      BY <2>2, <2>3, <3>5, <3>6 DEF Stream!Take
    <3> QED BY <3>7 DEF Stream!Next
  <2>4. CASE ~(HandsUp(e, m.seq, next, buf) /\ d = e)
    BY <1>0, <2>1, <2>2, <2>4 DEF HandsUp, Buffers, Ignores
  <2> QED BY <2>3, <2>4
<1>3. ASSUME NEW e \in Ends,
             (\E m \in net : ProcessSack(e, m))
             \/ (\E due \in SUBSET DOMAIN sendWindow[e] : GetRetransmissions(e, due))
      PROVE  UNCHANGED <<sent[Other(d)], delivered[d]>>
  BY <1>3 DEF ProcessSack, GetRetransmissions
<1>4. CASE UNCHANGED vars
  BY <1>4 DEF vars
<1> QED BY <1>1, <1>2, <1>3, <1>4 DEF Next

(* Each direction implements an ordered stream: the application is handed  *)
(* what was sent, in order, without gap or repetition, however the network *)
(* repeats, reorders and loses packets after the first.                    *)
THEOREM StreamImplemented == FirstInOrder /\ Spec => ImplementsStream
<1>1. Init => \A e \in Ends : Stream(e)!Init
  BY OtherFacts DEF Init, Stream!Init
<1> DEFINE Heads == \A e \in Ends : Prefix(e)
<1>2. Bookkeeping /\ Orderly => Heads /\ TypeOK
  BY DeliveredIsPrefix, BookkeepingTypeOK DEF Orderly
<1>3. Bookkeeping /\ Heads' /\ TypeOK' /\ [Next]_vars =>
          [\A e \in Ends : Stream(e)!Next \/ UNCHANGED <<sent[Other(e)], delivered[e]>>]_vars
  BY StreamSteps
<1> HIDE DEF Heads
<1> QED BY <1>1, <1>2, <1>3, BookkeepingHolds, OrderlyHolds, PTL DEF Spec, ImplementsStream
=============================================================================
