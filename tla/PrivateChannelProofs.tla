------------------------ MODULE PrivateChannelProofs ------------------------
(***************************************************************************)
(* Proofs about PrivateChannel, for every value of its constants: padding  *)
(* is undone exactly, and the retransmission queue loses nothing silently  *)
(* and retires only what was delivered (QueueInv); packets are reported    *)
(* after their backoff and copies leave in time for the clock-skew window  *)
(* (Timing); cover traffic takes no more of the replay window than its     *)
(* interval allows (Exchange and Paced).                                   *)
(***************************************************************************)
EXTENDS PrivateChannel, NaturalFacts, FiniteSetTheorems

(* A pad length fits the length byte and is never zero.                    *)
LEMMA PadFits ==
    ASSUME NEW strategy \in Strategies, NEW len \in Nat,
           NEW pad \in PadLengths(strategy, len)
    PROVE  pad \in 1 .. MaxPad
<1> USE PaddingAssumption
<1>1. CASE strategy = "NONE"
  BY <1>1 DEF PadLengths
<1>2. CASE strategy = "FIXED"
  BY <1>2 DEF PadLengths
<1>3. CASE strategy = "RANDOM"
  BY <1>3 DEF PadLengths
<1>4. CASE strategy = "BLOCK"
  <2>1. (len + 1) % BlockSize \in Int
    OBVIOUS
  <2> QED BY <1>4, <2>1 DEF PadLengths
<1> QED BY <1>1, <1>2, <1>3, <1>4 DEF Strategies

(* What pad_to_size() returns comes out of the receiver as it went in.     *)
LEMMA RoundTrip ==
    ASSUME NEW strategy \in Strategies, NEW len \in Nat,
           NEW r \in PadToSize(strategy, len)
    PROVE  ~(r.padded /\ StripRaises(r)) /\ Received(r) = len
<1>1. CASE \E pad \in PadLengths(strategy, len) : r = Padded(len, pad)
  <2>1. PICK pad \in PadLengths(strategy, len) : r = Padded(len, pad)
    BY <1>1
  <2>2. pad \in 1 .. MaxPad
    BY <2>1, PadFits
  <2> QED BY <2>1, <2>2, PaddingAssumption DEF Padded, StripRaises, Received, StripPadding
<1>2. CASE r = Unpadded(len)
  BY <1>2 DEF Unpadded, Received
<1> QED BY <1>1, <1>2 DEF PadToSize

-----------------------------------------------------------------------------
(* Padding and stripping are inverse in every run of the channel.          *)
THEOREM PaddingUndone == PrivateSpec => []PaddingRoundTrip
<1>1. PrivateInit => PaddingRoundTrip
  BY DEF PrivateInit, PaddingRoundTrip
<1>2. PaddingRoundTrip /\ [PrivateNext]_allvars => PaddingRoundTrip'
  <2> SUFFICES ASSUME PaddingRoundTrip, [PrivateNext]_allvars
               PROVE  PaddingRoundTrip'
    OBVIOUS
  <2>1. CASE Retransmit
    BY <2>1 DEF Retransmit, PaddingRoundTrip
  <2>2. CASE TimePasses
    BY <2>2 DEF TimePasses, PaddingRoundTrip
  <2>3. CASE MaybeSend
    BY <2>3 DEF MaybeSend, PaddingRoundTrip
  <2>4. ASSUME NEW strategy \in Strategies, NEW len \in Lengths,
               NEW r \in PadToSize(strategy, len), SendReal(len, r)
        PROVE  PaddingRoundTrip'
    <3>1. len \in Nat
      BY PrivateChannelAssumption
    <3>2. mangled' = mangled
      BY <2>4, <3>1, RoundTrip DEF SendReal
    <3> QED BY <3>2 DEF PaddingRoundTrip
  <2>5. CASE UNCHANGED <<quiet, cover, mangled>>
    BY <2>5 DEF PaddingRoundTrip
  <2>6. CASE UNCHANGED allvars
    BY <2>6 DEF allvars, PaddingRoundTrip
  <2> QED BY <2>1, <2>2, <2>3, <2>4, <2>5, <2>6 DEF PrivateNext
<1> QED BY <1>1, <1>2, PTL DEF PrivateSpec

-----------------------------------------------------------------------------
(* The queue.                                                              *)

SessionValues == [key : {"k"}, localSeq : Nat \ {0}, peerMax : Nat, window : SUBSET Nat]
PacketValues == [type : {"DATA", "ACK"}, seq : Nat, acked : Nat, age : Nat]
PendingValues == [retries : Nat, timeout : Nat, age : Nat]

Types ==
    /\ sender \in SessionValues /\ receiver \in SessionValues
    /\ net \subseteq PacketValues
    /\ built \in [Numbers -> Nat] /\ copies \in [Numbers -> Nat]
    /\ DOMAIN pending \subseteq Numbers
    /\ \A s \in DOMAIN pending : pending[s] \in PendingValues
    /\ acked \subseteq Numbers /\ reported \subseteq Numbers

(* A number that was transmitted has been drawn from the session.          *)
Drawn == \A s \in Numbers : copies[s] > 0 => s < sender.localSeq

(* An ACK in the network names a packet the receiver accepted.             *)
AcksTrue == \A m \in net : m.type = "ACK" => m.acked \in delivered

QueueInv ==
    /\ Types /\ Drawn /\ AcksTrue
    /\ Accounted /\ AckedIsDelivered

(* next_sequence() and record_sequence() keep a session a session.         *)
LEMMA SessionsKeepType ==
    ASSUME NEW sess \in SessionValues, NEW seq \in Nat
    PROVE  /\ NextSequence(sess) \in SessionValues
           /\ NextSequence(sess).localSeq = sess.localSeq + 1
           /\ RecordSequence(sess, seq) \in SessionValues
           /\ RecordSequence(sess, seq).localSeq = sess.localSeq
<1>1. NextSequence(sess) \in SessionValues /\ NextSequence(sess).localSeq = sess.localSeq + 1
  BY DEF SessionValues, NextSequence
<1>2. CASE seq > sess.peerMax
  <2> DEFINE kept == {s \in sess.window \cup {seq} : s > seq - ReplayWindow}
  <2>1. RecordSequence(sess, seq) = [sess EXCEPT !.peerMax = seq, !.window = kept]
    BY <1>2 DEF RecordSequence
  <2>2. kept \in SUBSET Nat
    BY DEF SessionValues
  <2> HIDE DEF kept
  <2> QED BY <1>1, <2>1, <2>2 DEF SessionValues
<1>3. CASE ~(seq > sess.peerMax)
  <2>1. RecordSequence(sess, seq) = [sess EXCEPT !.window = sess.window \cup {seq}]
    BY <1>3 DEF RecordSequence
  <2> QED BY <1>1, <2>1 DEF SessionValues
<1> QED BY <1>2, <1>3

(* A copy of a pending packet is a DATA packet.                            *)
LEMMA DataPacketType ==
    ASSUME Types, NEW s \in Numbers
    PROVE  DataPacket(s) \in PacketValues /\ DataPacket(s).type = "DATA"
BY ReliableChannelAssumption DEF Types, DataPacket, PacketValues, Numbers

(* record_retransmit() counts one attempt.                                 *)
LEMMA RetransmitType ==
    ASSUME NEW p \in PendingValues
    PROVE  /\ RecordRetransmit(p) \in PendingValues
           /\ RecordRetransmit(p).retries = p.retries + 1
BY ReliableChannelAssumption DEF PendingValues, RecordRetransmit, Lower

(* Sets of sequence numbers are finite, so they can be counted.            *)
LEMMA NumbersFinite ==
    ASSUME NEW S \in SUBSET Numbers
    PROVE  IsFiniteSet(S) /\ Cardinality(S) \in Nat
<1>1. IsFiniteSet(Numbers)
  BY FS_Interval, ReliableChannelAssumption DEF Numbers
<1>2. IsFiniteSet(S)
  BY <1>1, FS_Subset
<1> QED BY <1>2, FS_CardinalityType

(* The queue starts empty, after the handshake's own numbers.              *)
LEMMA QueueInit == PrivateInit => QueueInv
<1> SUFFICES ASSUME Init PROVE QueueInv
  BY DEF PrivateInit
<1> USE DEF Init
<1>1. /\ NewSession("k") = [key |-> "k", localSeq |-> 0, peerMax |-> 0, window |-> {}]
      /\ NewSession("k").peerMax = 0 /\ NewSession("k").window = {}
  BY DEF NewSession
<1>2. sender \in SessionValues /\ receiver \in SessionValues
  <2> DEFINE new == NewSession("k")
  <2>0. ~(0 > new.peerMax) /\ new.window \cup {0} = {0}
    BY <1>1
  <2> HIDE DEF new
  <2>1. RecordSequence(new, 0) = [new EXCEPT !.window = {0}]
    BY <2>0 DEF RecordSequence
  <2>2. RecordSequence(NewSession("k"), 0) =
            [key |-> "k", localSeq |-> 0, peerMax |-> 0, window |-> {0}]
    BY <1>1, <2>1 DEF new
  <2> QED BY <2>2 DEF NextSequence, SessionValues
<1>3. DOMAIN pending = {}
  OBVIOUS
<1>4. Types
  BY <1>2, <1>3 DEF Types
<1>5. {s \in Numbers : copies[s] > 0} = {}
  OBVIOUS
<1> QED BY <1>3, <1>4, <1>5 DEF QueueInv, Drawn, AcksTrue, Accounted, AckedIsDelivered

(* send() draws a fresh number, which joins the queue.                     *)
LEMMA SendEffect ==
    ASSUME QueueInv, Send
    PROVE  LET s == sender.localSeq
           IN  /\ s \in Numbers /\ s \notin DOMAIN pending /\ s \notin acked /\ s \notin reported
               /\ DOMAIN pending' = DOMAIN pending \cup {s}
               /\ \A t \in DOMAIN pending : pending'[t] = pending[t]
               /\ pending'[s] = [retries |-> 0, timeout |-> BaseTimeout, age |-> 0]
               /\ copies' \in [Numbers -> Nat] /\ copies'[s] = 1
               /\ \A t \in Numbers \ {s} : copies'[t] = copies[t]
<1> DEFINE s == sender.localSeq
<1>1. s \in Numbers
  BY ReliableChannelAssumption DEF QueueInv, Types, SessionValues, Send, Numbers
<1>2. copies[s] = 0
  BY <1>1 DEF QueueInv, Types, Drawn, SessionValues, Numbers
<1>3. s \notin DOMAIN pending /\ s \notin acked /\ s \notin reported
  BY <1>1, <1>2 DEF QueueInv, Accounted
<1>4. /\ DOMAIN pending' = DOMAIN pending \cup {s}
      /\ \A t \in DOMAIN pending : pending'[t] = pending[t]
      /\ pending'[s] = [retries |-> 0, timeout |-> BaseTimeout, age |-> 0]
  BY <1>3 DEF Send, With
<1>5. /\ copies' \in [Numbers -> Nat] /\ copies'[s] = 1
      /\ \A t \in Numbers \ {s} : copies'[t] = copies[t]
  BY <1>1 DEF Send, QueueInv, Types
<1> QED BY <1>1, <1>3, <1>4, <1>5

LEMMA QueueSend == ASSUME QueueInv, Send PROVE QueueInv'
<1> DEFINE s == sender.localSeq
<1>1. s \in Numbers
  BY SendEffect
<1>3. s \notin DOMAIN pending /\ s \notin acked /\ s \notin reported
  BY SendEffect
<1>4. /\ DOMAIN pending' = DOMAIN pending \cup {s}
      /\ \A t \in DOMAIN pending : pending'[t] = pending[t]
      /\ pending'[s] = [retries |-> 0, timeout |-> BaseTimeout, age |-> 0]
  BY SendEffect
<1>5. /\ copies' \in [Numbers -> Nat] /\ copies'[s] = 1
      /\ \A t \in Numbers \ {s} : copies'[t] = copies[t]
  BY SendEffect
<1>6. sender' \in SessionValues /\ sender'.localSeq = s + 1
  BY SessionsKeepType DEF Send, QueueInv, Types
<1>7. Types'
  BY <1>1, <1>4, <1>5, <1>6, DataPacketType, ReliableChannelAssumption
     DEF Send, QueueInv, Types, PendingValues
<1>8. Drawn'
  BY <1>1, <1>5, <1>6 DEF QueueInv, Types, Drawn, Numbers, SessionValues
<1>9. AcksTrue' /\ AckedIsDelivered'
  BY <1>1, DataPacketType DEF Send, QueueInv, AcksTrue, AckedIsDelivered
<1>10. Accounted'
  <2>1. {t \in Numbers : copies'[t] > 0} = {t \in Numbers : copies[t] > 0} \cup {s}
    BY <1>1, <1>5
  <2> QED BY <2>1, <1>3, <1>4 DEF Send, QueueInv, Accounted
<1> QED BY <1>7, <1>8, <1>9, <1>10 DEF QueueInv

(* A cover packet draws a number and never joins the queue.                *)
LEMMA QueueMaybeSend == ASSUME QueueInv, MaybeSend PROVE QueueInv'
<1> DEFINE s == sender.localSeq
<1>1. s \in Numbers
  BY ReliableChannelAssumption DEF QueueInv, Types, SessionValues, MaybeSend, Numbers
<1>2. sender' \in SessionValues /\ sender'.localSeq = s + 1
  BY SessionsKeepType DEF MaybeSend, QueueInv, Types
<1>3. Types' /\ AcksTrue'
  BY <1>1, <1>2, DataPacketType DEF MaybeSend, QueueInv, Types, AcksTrue
<1>4. Drawn'
  BY <1>1, <1>2 DEF MaybeSend, QueueInv, Types, Drawn, Numbers
<1> QED BY <1>3, <1>4 DEF MaybeSend, QueueInv, Accounted, AckedIsDelivered

(* An ACK leaves the receiver only for what it accepted.                   *)
LEMMA QueueReceive == ASSUME QueueInv, NEW m \in net, Receive(m) PROVE QueueInv'
<1>1. m \in PacketValues /\ m.seq \in Nat
  BY DEF QueueInv, Types, PacketValues
<1>2. receiver' \in SessionValues /\ receiver.localSeq \in Nat
  BY <1>1, SessionsKeepType DEF Receive, QueueInv, Types, SessionValues
<1>3. Types' /\ AcksTrue'
  BY <1>1, <1>2 DEF Receive, QueueInv, Types, AcksTrue, PacketValues
<1> QED BY <1>3 DEF Receive, QueueInv, Drawn, Accounted, AckedIsDelivered

(* process_ack() moves one number from the queue to acked.                 *)
LEMMA QueueProcessAck == ASSUME QueueInv, NEW m \in net, ProcessAck(m) PROVE QueueInv'
<1>1. m \in PacketValues /\ m.seq \in Nat
  BY DEF QueueInv, Types, PacketValues
<1>2. sender' \in SessionValues /\ sender'.localSeq = sender.localSeq
  BY <1>1, SessionsKeepType DEF ProcessAck, QueueInv, Types
<1>3. /\ DOMAIN pending' = DOMAIN pending \ {m.acked}
      /\ \A s \in DOMAIN pending' : pending'[s] = pending[s]
  BY DEF ProcessAck, Without, AckedNumber
<1>4. Types' /\ Drawn' /\ AcksTrue'
  BY <1>2, <1>3 DEF ProcessAck, QueueInv, Types, Drawn, AcksTrue
<1>5. m.acked \in delivered
  BY DEF ProcessAck, QueueInv, AcksTrue
<1>6. Accounted' /\ AckedIsDelivered'
  BY <1>3, <1>5 DEF ProcessAck, AckedNumber, QueueInv, Accounted, AckedIsDelivered
<1> QED BY <1>4, <1>6 DEF QueueInv

(* Time changes ages only.                                                 *)
LEMMA QueueTick == ASSUME QueueInv, Tick PROVE QueueInv'
<1>1. /\ DOMAIN pending' = DOMAIN pending
      /\ \A s \in DOMAIN pending : /\ pending'[s] \in PendingValues
                                   /\ pending'[s].retries = pending[s].retries
  BY DEF Tick, QueueInv, Types, PendingValues
<1>2. built' \in [Numbers -> Nat]
  BY DEF Tick, QueueInv, Types
<1>3. \A m \in net' : \E n \in net : m \in PacketValues /\ m.type = n.type /\ m.acked = n.acked
  BY DEF Tick, QueueInv, Types, PacketValues
<1>4. Types' /\ AcksTrue' /\ Drawn'
  BY <1>1, <1>2, <1>3 DEF Tick, QueueInv, Types, AcksTrue, Drawn
<1> QED BY <1>1, <1>4 DEF Tick, QueueInv, Accounted, AckedIsDelivered

(* A poll sends every due packet again, or reports and sends none.         *)
LEMMA QueueRetransmissions == ASSUME QueueInv, GetRetransmissions PROVE QueueInv'
<1> DEFINE due    == {s \in DOMAIN pending : IsDue(pending[s])}
           failed == {s \in due : Exhausted(pending[s])}
<1>1. /\ DOMAIN pending' = DOMAIN pending \ failed
      /\ \A s \in DOMAIN pending' :
            pending'[s] = IF s \in due THEN RecordRetransmit(pending[s]) ELSE pending[s]
  BY DEF GetRetransmissions, Remaining
<1>2. \A s \in DOMAIN pending' :
         /\ pending'[s] \in PendingValues
         /\ pending'[s].retries = IF s \in due THEN pending[s].retries + 1
                                  ELSE pending[s].retries
  BY <1>1, RetransmitType DEF QueueInv, Types
<1>3. UNCHANGED <<sender, receiver, built, delivered, acked>>
  BY DEF GetRetransmissions
<1>4. CASE failed # {}
  <2>1. reported' = reported \cup failed /\ net' = net /\ copies' = copies
    BY <1>4 DEF GetRetransmissions
  <2>2. Types' /\ Drawn' /\ AcksTrue' /\ AckedIsDelivered' /\ Accounted'
    BY <1>1, <1>2, <1>3, <2>1
       DEF QueueInv, Types, Drawn, AcksTrue, AckedIsDelivered, Accounted
  <2> QED BY <2>2 DEF QueueInv
<1>5. CASE failed = {}
  <2>1. /\ reported' = reported
        /\ net' = net \cup {DataPacket(s) : s \in {t \in due : built[t] <= MaxClockSkew}}
        /\ copies' = [s \in Numbers |-> IF s \in due THEN copies[s] + 1 ELSE copies[s]]
    BY <1>5 DEF GetRetransmissions
  <2>2. due \subseteq Numbers /\ copies' \in [Numbers -> Nat]
    BY <2>1 DEF QueueInv, Types
  <2>3. Types' /\ AcksTrue'
    BY <1>1, <1>2, <1>3, <2>1, <2>2, DataPacketType DEF QueueInv, Types, AcksTrue
  <2>4. {s \in Numbers : copies'[s] > 0} = {s \in Numbers : copies[s] > 0}
    BY <2>1, <2>2 DEF QueueInv, Types, Accounted
  <2>5. Drawn' /\ Accounted' /\ AckedIsDelivered'
    BY <1>1, <1>3, <1>5, <2>1, <2>4 DEF QueueInv, Drawn, Accounted, AckedIsDelivered
  <2> QED BY <2>3, <2>5 DEF QueueInv
<1> QED BY <1>4, <1>5

(* The inductive invariant of the queue, under cover traffic too.          *)
LEMMA QueueInvariant == PrivateSpec => []QueueInv
<1>1. QueueInv /\ [PrivateNext]_allvars => QueueInv'
  <2> SUFFICES ASSUME QueueInv, [PrivateNext]_allvars PROVE QueueInv'
    OBVIOUS
  <2>1. CASE Retransmit
    BY <2>1, QueueRetransmissions DEF Retransmit
  <2>2. CASE TimePasses
    BY <2>2, QueueTick DEF TimePasses
  <2>3. CASE MaybeSend
    BY <2>3, QueueMaybeSend
  <2>4. CASE \E strategy \in Strategies, len \in Lengths :
                \E r \in PadToSize(strategy, len) : SendReal(len, r)
    BY <2>4, QueueSend DEF SendReal
  <2>5. CASE \E m \in net : Receive(m) \/ ProcessAck(m)
    BY <2>5, QueueReceive, QueueProcessAck
  <2>6. CASE UNCHANGED allvars
    BY <2>6 DEF allvars, QueueInv, Types, Drawn, AcksTrue, Accounted,
                AckedIsDelivered, DataPacket
  <2> QED BY <2>1, <2>2, <2>3, <2>4, <2>5, <2>6 DEF PrivateNext
<1> QED BY <1>1, QueueInit, PTL DEF PrivateSpec

(* get_retransmissions() and process_ack() lose no packet: each that was   *)
(* transmitted is in the queue, acknowledged or reported, and only one of  *)
(* these.                                                                  *)
THEOREM NothingLostSilently == PrivateSpec => []Accounted
<1>1. QueueInv => Accounted
  BY DEF QueueInv
<1> QED BY <1>1, QueueInvariant, PTL

(* process_ack() retires only what the receiver accepted.                  *)
THEOREM AcknowledgedMeansDelivered == PrivateSpec => []AckedIsDelivered
<1>1. QueueInv => AckedIsDelivered
  BY DEF QueueInv
<1> QED BY <1>1, QueueInvariant, PTL

-----------------------------------------------------------------------------
(* The backoff.                                                            *)

LEMMA DoubledFacts ==
    /\ Doubled \in [Nat -> Nat \ {0}] /\ Doubled[0] = BaseTimeout
    /\ \A n \in Nat : Doubled[n + 1] = 2 * Doubled[n]
<1>0. 2 \in Nat \ {0} /\ BaseTimeout \in Nat \ {0}
  BY ReliableChannelAssumption
<1>1. PICK h : h = [n \in Nat |-> IF n = 0 THEN BaseTimeout ELSE 2 * h[n - 1]]
  BY <1>0, Powers, Zenon
<1>2. Doubled = [n \in Nat |-> IF n = 0 THEN BaseTimeout ELSE 2 * Doubled[n - 1]]
  BY <1>1, Zenon DEF Doubled
<1>3. Multiplies(Doubled, 2, BaseTimeout)
  BY <1>0, <1>2, PowerFacts
<1> QED BY <1>3 DEF Multiplies

(* What record_retransmit() computes from one timeout to the next.         *)
LEMMA IntervalFacts ==
    ASSUME NEW n \in Nat
    PROVE  /\ Interval(n) \in Nat /\ Interval(0) = BaseTimeout
           /\ Interval(n + 1) = Lower(Interval(n) * 2, MaxTimeout)
<1> DEFINE d == Doubled[n]
<1>1. d \in Nat \ {0} /\ Doubled[n + 1] = 2 * d /\ Doubled[0] = BaseTimeout
  BY DoubledFacts
<1>2. /\ MaxTimeout \in Nat \ {0} /\ BaseTimeout \in Nat \ {0}
      /\ Interval(n + 1) = Lower(Doubled[n + 1], MaxTimeout)
      /\ Interval(n) = IF n = 0 THEN BaseTimeout ELSE Lower(d, MaxTimeout)
      /\ n = 0 => d = BaseTimeout
  BY <1>1, ReliableChannelAssumption DEF Interval
<1> HIDE DEF d
<1>3. Interval(n) \in Nat
  BY <1>1, <1>2 DEF Lower
<1>4. Interval(n + 1) = Lower(Interval(n) * 2, MaxTimeout)
  BY <1>1, <1>2 DEF Lower
<1> QED BY <1>3, <1>4 DEF Interval

LEMMA PatienceFacts ==
    /\ Patience \in [Nat -> Nat] /\ Patience[0] = 0
    /\ \A n \in Nat : Patience[n + 1] = Patience[n] + Interval(n)
<1> DEFINE step == [p \in Nat \X Nat |-> p[2] + Interval(p[1])]
<1>0. \A n \in Nat : Interval(n) \in Nat
  BY IntervalFacts
<1>1. step \in [Nat \X Nat -> Nat] /\ \A n, v \in Nat : step[<<n, v>>] = v + Interval(n)
  BY <1>0
<1> HIDE DEF step
<1>2. PICK h \in [Nat -> Nat] : Recurs(h, 0, step)
  BY <1>1, Recursion
<1>3. ASSUME NEW n \in Nat PROVE h[n] = IF n = 0 THEN 0 ELSE h[n - 1] + Interval(n - 1)
  <2>1. CASE n # 0
    <3>1. n - 1 \in Nat /\ (n - 1) + 1 = n /\ h[n - 1] \in Nat
      BY <2>1
    <3>2. h[(n - 1) + 1] = step[<<n - 1, h[n - 1]>>]
      BY <1>2, <3>1 DEF Recurs
    <3> QED BY <1>1, <2>1, <3>1, <3>2
  <2>2. CASE n = 0
    BY <1>2, <2>2 DEF Recurs
  <2> QED BY <2>1, <2>2
<1>4. h = [n \in Nat |-> IF n = 0 THEN 0 ELSE h[n - 1] + Interval(n - 1)]
  BY <1>3
<1>5. Patience = [n \in Nat |-> IF n = 0 THEN 0 ELSE Patience[n - 1] + Interval(n - 1)]
  BY <1>4, Zenon DEF Patience
<1>6. Patience[0] = 0
  BY <1>5
<1>7. ASSUME NEW n \in Nat PROVE Patience[n + 1] = Patience[n] + Interval(n)
  <2>1. n + 1 \in Nat /\ n + 1 # 0 /\ (n + 1) - 1 = n
    OBVIOUS
  <2> QED BY <1>5, <2>1
<1> DEFINE S == {n \in Nat : Patience[n] \in Nat}
<1>8. 0 \in S /\ \A n \in Nat : n \in S => n + 1 \in S
  BY <1>0, <1>6, <1>7
<1>9. \A n \in Nat : n \in S
  <2> HIDE DEF S
  <2> QED BY <1>8, Induction
<1>10. Patience \in [Nat -> Nat]
  BY <1>5, <1>9
<1> QED BY <1>6, <1>7, <1>10

(* How long a packet may have waited when its n-th attempt is made.        *)
Wait(n) == Patience[n] + n * PollDelay

LEMMA WaitFacts ==
    ASSUME NEW n \in Nat
    PROVE  /\ Wait(n) \in Nat /\ Patience[n] \in Nat /\ Interval(n) \in Nat
           /\ Patience[n + 1] = Patience[n] + Interval(n)
           /\ Wait(n + 1) = (Wait(n) + Interval(n)) + PollDelay
<1>1. /\ Patience[n] \in Nat /\ Interval(n) \in Nat /\ PollDelay \in Nat
      /\ Patience[n + 1] = Patience[n] + Interval(n)
  BY PatienceFacts, IntervalFacts, ReliableChannelAssumption
<1>2. n * PollDelay \in Nat /\ (n + 1) * PollDelay = n * PollDelay + PollDelay
  BY <1>1
<1> QED BY <1>1, <1>2 DEF Wait

LEMMA WaitGrows ==
    ASSUME NEW m \in Nat, NEW n \in Nat, m <= n
    PROVE  Wait(m) <= Wait(n)
<1> DEFINE S == {j \in Nat : Wait(m) <= Wait(m + j)}
<1>1. 0 \in S
  <2>1. m + 0 = m /\ Wait(m) \in Nat
    BY WaitFacts
  <2> QED BY <2>1
<1>2. ASSUME NEW j \in Nat, j \in S PROVE j + 1 \in S
  <2>1. m + j \in Nat /\ m + (j + 1) = (m + j) + 1
    OBVIOUS
  <2>2. /\ Wait(m) \in Nat /\ Wait(m + j) \in Nat /\ Interval(m + j) \in Nat /\ PollDelay \in Nat
        /\ Wait((m + j) + 1) = (Wait(m + j) + Interval(m + j)) + PollDelay
    BY <2>1, WaitFacts, ReliableChannelAssumption
  <2>3. Wait(m) <= Wait(m + (j + 1))
    BY <1>2, <2>1, <2>2
  <2> QED BY <2>3
<1>3. n - m \in Nat /\ m + (n - m) = n
  OBVIOUS
<1>4. n - m \in S
  <2> HIDE DEF S
  <2> QED BY <1>1, <1>2, <1>3, Induction
<1> QED BY <1>3, <1>4

-----------------------------------------------------------------------------
(* How long packets wait.                                                  *)

(* A queued packet has had its attempts' intervals, and no more than the   *)
(* delays of the polls on top.                                             *)
InTime(p, b) ==
    /\ p.retries <= MaxRetries /\ p.timeout = Interval(p.retries)
    /\ p.age <= p.timeout + PollDelay
    /\ Patience[p.retries] + p.age <= b /\ b <= Wait(p.retries) + p.age

Timing ==
    /\ \A s \in DOMAIN pending : InTime(pending[s], built[s]) /\ copies[s] <= pending[s].retries + 1
    /\ \A s \in reported : Patience[MaxRetries + 1] <= built[s] /\ built[s] <= LongestWait
    /\ \A s \in Numbers : copies[s] <= MaxRetries + 1
    /\ \A s \in Numbers \ (DOMAIN pending \cup reported) : built[s] = 0

LEMMA InTimeBounds ==
    ASSUME NEW p \in PendingValues, NEW b \in Nat, InTime(p, b)
    PROVE  b <= Wait(p.retries + 1) /\ b <= LongestWait /\ LongestWait \in Nat
<1>1. /\ p.retries \in Nat /\ p.age \in Nat /\ p.timeout \in Nat /\ p.retries <= MaxRetries
      /\ p.timeout = Interval(p.retries) /\ p.age <= p.timeout + PollDelay
      /\ b <= Wait(p.retries) + p.age
  BY DEF PendingValues, InTime
<1>2. /\ Wait(p.retries) \in Nat /\ PollDelay \in Nat /\ MaxRetries \in Nat
      /\ Wait(p.retries + 1) = (Wait(p.retries) + Interval(p.retries)) + PollDelay
  BY <1>1, WaitFacts, ReliableChannelAssumption
<1>3. b <= Wait(p.retries + 1)
  BY <1>1, <1>2
<1>4. /\ Wait(p.retries + 1) <= Wait(MaxRetries + 1)
      /\ Wait(p.retries + 1) \in Nat /\ Wait(MaxRetries + 1) \in Nat
  <2>1. p.retries + 1 \in Nat /\ MaxRetries + 1 \in Nat /\ p.retries + 1 <= MaxRetries + 1
    BY <1>1, <1>2
  <2> QED BY <2>1, WaitGrows, WaitFacts
<1>5. LongestWait = Wait(MaxRetries + 1)
  BY DEF LongestWait, Wait
<1> QED BY <1>3, <1>4, <1>5

(* A due packet that is not out of retries starts its next interval.       *)
LEMMA InTimeRetransmit ==
    ASSUME NEW p \in PendingValues, NEW b \in Nat, InTime(p, b), IsDue(p), ~Exhausted(p)
    PROVE  InTime(RecordRetransmit(p), b)
<1>1. /\ p.retries \in Nat /\ p.age \in Nat /\ p.timeout \in Nat /\ p.retries < MaxRetries
      /\ p.timeout = Interval(p.retries) /\ p.age >= p.timeout
      /\ Patience[p.retries] + p.age <= b
  BY ReliableChannelAssumption DEF PendingValues, InTime, IsDue, Exhausted
<1>2. /\ RecordRetransmit(p).retries = p.retries + 1 /\ RecordRetransmit(p).age = 0
      /\ RecordRetransmit(p).timeout = Lower(p.timeout * 2, MaxTimeout)
  BY DEF RecordRetransmit
<1>3. /\ Interval(p.retries + 1) = Lower(p.timeout * 2, MaxTimeout) /\ Interval(p.retries + 1) \in Nat
      /\ Patience[p.retries + 1] = Patience[p.retries] + Interval(p.retries)
      /\ Patience[p.retries] \in Nat /\ Wait(p.retries + 1) \in Nat /\ PollDelay \in Nat
      /\ MaxRetries \in Nat
  <2>1. p.retries + 1 \in Nat
    BY <1>1
  <2> QED BY <1>1, <2>1, IntervalFacts, WaitFacts, ReliableChannelAssumption
<1>4. b <= Wait(p.retries + 1)
  BY InTimeBounds
<1> HIDE DEF RecordRetransmit
<1>5. Patience[p.retries + 1] + 0 <= b /\ b <= Wait(p.retries + 1) + 0
  BY <1>1, <1>3, <1>4
<1>6. p.retries + 1 <= MaxRetries /\ 0 <= Interval(p.retries + 1) + PollDelay
  BY <1>1, <1>3
<1> QED BY <1>2, <1>3, <1>5, <1>6 DEF InTime

(* A packet that is out of retries has had all its intervals.              *)
LEMMA InTimeFailed ==
    ASSUME NEW p \in PendingValues, NEW b \in Nat, InTime(p, b), IsDue(p), Exhausted(p)
    PROVE  Patience[MaxRetries + 1] <= b /\ b <= LongestWait
<1>1. /\ p.retries \in Nat /\ p.age \in Nat /\ p.timeout \in Nat /\ p.retries = MaxRetries
      /\ p.timeout = Interval(p.retries) /\ p.age >= p.timeout
      /\ Patience[p.retries] + p.age <= b
  BY ReliableChannelAssumption DEF PendingValues, InTime, IsDue, Exhausted
<1>2. /\ Patience[p.retries + 1] = Patience[p.retries] + Interval(p.retries)
      /\ Patience[p.retries] \in Nat /\ Interval(p.retries) \in Nat
  BY <1>1, WaitFacts
<1>3. Patience[MaxRetries + 1] <= b
  BY <1>1, <1>2
<1> QED BY <1>3, InTimeBounds

LEMMA InTimeTick ==
    ASSUME NEW p \in PendingValues, NEW b \in Nat, InTime(p, b), p.age < p.timeout + PollDelay
    PROVE  InTime([p EXCEPT !.age = @ + 1], b + 1)
<1> DEFINE q == [p EXCEPT !.age = @ + 1]
<1>1. q.retries = p.retries /\ q.timeout = p.timeout /\ q.age = p.age + 1
  BY DEF PendingValues
<1>2. p.retries \in Nat /\ p.age \in Nat /\ p.timeout \in Nat
  BY DEF PendingValues
<1>3. Wait(p.retries) \in Nat /\ Patience[p.retries] \in Nat /\ PollDelay \in Nat
  BY <1>2, WaitFacts, ReliableChannelAssumption
<1> HIDE DEF q
<1>4. InTime(q, b + 1)
  BY <1>1, <1>2, <1>3 DEF InTime
<1> QED BY <1>4 DEF q

LEMMA InTimeNew ==
    InTime([retries |-> 0, timeout |-> BaseTimeout, age |-> 0], 0)
<1> DEFINE p == [retries |-> 0, timeout |-> BaseTimeout, age |-> 0]
<1>1. p.retries = 0 /\ p.timeout = BaseTimeout /\ p.age = 0
  OBVIOUS
<1>2. /\ MaxRetries \in Nat /\ PollDelay \in Nat /\ BaseTimeout \in Nat
      /\ Patience[0] = 0 /\ Interval(0) = BaseTimeout
  BY ReliableChannelAssumption, PatienceFacts DEF Interval
<1>3. Wait(0) = 0
  BY <1>2 DEF Wait
<1> HIDE DEF p
<1>4. InTime(p, 0)
  BY <1>1, <1>2, <1>3 DEF InTime
<1> QED BY <1>4 DEF p

LEMMA TimingInit == PrivateInit => Timing
<1> SUFFICES ASSUME Init PROVE Timing
  BY DEF PrivateInit
<1>1. DOMAIN pending = {} /\ reported = {}
  BY DEF Init
<1>2. \A s \in Numbers : copies[s] = 0 /\ built[s] = 0
  BY DEF Init
<1>3. MaxRetries + 1 \in Nat /\ 0 <= MaxRetries + 1
  BY ReliableChannelAssumption
<1> QED BY <1>1, <1>2, <1>3 DEF Timing

LEMMA TimingSend == ASSUME QueueInv, Timing, Send PROVE Timing'
<1> DEFINE s == sender.localSeq
<1>1. /\ s \in Numbers /\ s \notin DOMAIN pending /\ s \notin reported
      /\ DOMAIN pending' = DOMAIN pending \cup {s}
      /\ \A t \in DOMAIN pending : pending'[t] = pending[t]
      /\ pending'[s] = [retries |-> 0, timeout |-> BaseTimeout, age |-> 0]
      /\ copies'[s] = 1 /\ \A t \in Numbers \ {s} : copies'[t] = copies[t]
  BY SendEffect
<1>2. built' = built /\ reported' = reported /\ DOMAIN pending \subseteq Numbers
  BY DEF Send, QueueInv, Types
<1>3. MaxRetries \in Nat
  BY ReliableChannelAssumption
<1> HIDE DEF s
<1>4. built[s] = 0 /\ InTime(pending'[s], built[s]) /\ copies'[s] <= pending'[s].retries + 1
  BY <1>1, InTimeNew DEF Timing
<1>5. ASSUME NEW t \in DOMAIN pending'
      PROVE  InTime(pending'[t], built'[t]) /\ copies'[t] <= pending'[t].retries + 1
  <2>1. CASE t = s
    BY <1>2, <1>4, <2>1
  <2>2. CASE t # s
    <3>1. t \in DOMAIN pending /\ pending'[t] = pending[t] /\ copies'[t] = copies[t]
      BY <1>1, <1>2, <2>2
    <3> QED BY <1>2, <3>1 DEF Timing
  <2> QED BY <2>1, <2>2
<1>6. \A t \in Numbers : copies'[t] <= MaxRetries + 1
  BY <1>1, <1>3 DEF Timing
<1>7. \A t \in Numbers \ (DOMAIN pending' \cup reported') : built'[t] = 0
  BY <1>1, <1>2 DEF Timing
<1>8. \A t \in reported' : Patience[MaxRetries + 1] <= built'[t] /\ built'[t] <= LongestWait
  BY <1>2 DEF Timing
<1> QED BY <1>5, <1>6, <1>7, <1>8 DEF Timing

LEMMA TimingProcessAck == ASSUME QueueInv, Timing, NEW m \in net, ProcessAck(m) PROVE Timing'
<1>1. /\ DOMAIN pending' = DOMAIN pending \ {m.acked}
      /\ \A s \in DOMAIN pending' : pending'[s] = pending[s]
      /\ acked' = acked \cup ({m.acked} \cap DOMAIN pending)
      /\ built' = [s \in Numbers |-> IF s \in acked' THEN 0 ELSE built[s]]
      /\ copies' = copies /\ reported' = reported
  BY DEF ProcessAck, Without, AckedNumber
<1>2. /\ DOMAIN pending \subseteq Numbers /\ reported \subseteq Numbers
      /\ acked \cap reported = {} /\ DOMAIN pending \cap (acked \cup reported) = {}
  BY DEF QueueInv, Types, Accounted
<1>3. \A s \in DOMAIN pending' \cup reported : built'[s] = built[s]
  BY <1>1, <1>2
<1>4. \A s \in DOMAIN pending' :
          InTime(pending'[s], built'[s]) /\ copies'[s] <= pending'[s].retries + 1
  BY <1>1, <1>3 DEF Timing
<1>5. \A s \in Numbers \ (DOMAIN pending' \cup reported') : built'[s] = 0
  BY <1>1, <1>2 DEF Timing
<1>6. \A s \in reported' : Patience[MaxRetries + 1] <= built'[s] /\ built'[s] <= LongestWait
  BY <1>1, <1>3 DEF Timing
<1> QED BY <1>1, <1>4, <1>5, <1>6 DEF Timing

LEMMA TimingTick == ASSUME QueueInv, Timing, Tick PROVE Timing'
<1>1. /\ DOMAIN pending' = DOMAIN pending /\ copies' = copies /\ reported' = reported
      /\ \A s \in DOMAIN pending : /\ pending[s].age < pending[s].timeout + PollDelay
                                   /\ pending'[s] = [pending[s] EXCEPT !.age = @ + 1]
      /\ built' = [s \in Numbers |-> IF s \in DOMAIN pending THEN built[s] + 1 ELSE built[s]]
  BY DEF Tick
<1>2. /\ DOMAIN pending \subseteq Numbers /\ reported \subseteq Numbers
      /\ DOMAIN pending \cap reported = {} /\ built \in [Numbers -> Nat]
      /\ \A s \in DOMAIN pending : pending[s] \in PendingValues
  BY DEF QueueInv, Types, Accounted
<1>3. ASSUME NEW s \in DOMAIN pending
      PROVE  InTime(pending'[s], built'[s]) /\ copies'[s] <= pending'[s].retries + 1
  <2>1. built'[s] = built[s] + 1 /\ built[s] \in Nat
    BY <1>1, <1>2
  <2>2. InTime(pending'[s], built[s] + 1)
    BY <1>1, <1>2, <2>1, InTimeTick DEF Timing
  <2>3. pending'[s].retries = pending[s].retries
    BY <1>1, <1>2 DEF PendingValues
  <2> QED BY <1>1, <2>1, <2>2, <2>3 DEF Timing
<1>4. \A s \in Numbers \ DOMAIN pending : built'[s] = built[s]
  BY <1>1
<1>5. \A s \in reported' : Patience[MaxRetries + 1] <= built'[s] /\ built'[s] <= LongestWait
  BY <1>1, <1>2, <1>4 DEF Timing
<1>6. \A s \in Numbers \ (DOMAIN pending' \cup reported') : built'[s] = 0
  BY <1>1, <1>4 DEF Timing
<1> QED BY <1>1, <1>3, <1>5, <1>6 DEF Timing

LEMMA TimingRetransmissions == ASSUME QueueInv, Timing, GetRetransmissions PROVE Timing'
<1> DEFINE due    == {s \in DOMAIN pending : IsDue(pending[s])}
           failed == {s \in due : Exhausted(pending[s])}
<1>1. /\ DOMAIN pending' = DOMAIN pending \ failed
      /\ \A s \in DOMAIN pending' :
            pending'[s] = IF s \in due THEN RecordRetransmit(pending[s]) ELSE pending[s]
  BY DEF GetRetransmissions, Remaining
<1>2. built' = built
  BY DEF GetRetransmissions
<1>3. /\ DOMAIN pending \subseteq Numbers /\ built \in [Numbers -> Nat] /\ copies \in [Numbers -> Nat]
      /\ \A s \in DOMAIN pending : pending[s] \in PendingValues /\ built[s] \in Nat /\ copies[s] \in Nat
  BY DEF QueueInv, Types
<1>4. /\ failed # {} => reported' = reported \cup failed /\ copies' = copies
      /\ failed = {} => /\ reported' = reported
                        /\ copies' = [s \in Numbers |-> IF s \in due THEN copies[s] + 1 ELSE copies[s]]
  BY DEF GetRetransmissions
<1>5. reported' = reported \cup failed
  <2> HIDE DEF failed
  <2> QED BY <1>4
<1>6. ASSUME NEW s \in DOMAIN pending'
      PROVE  /\ InTime(pending'[s], built'[s]) /\ copies'[s] <= pending'[s].retries + 1
             /\ pending'[s].retries + 1 <= MaxRetries + 1
  <2>1. s \in DOMAIN pending /\ s \in Numbers /\ s \notin failed /\ pending[s].retries \in Nat
    BY <1>1, <1>3 DEF PendingValues
  <2>2. InTime(pending[s], built[s]) /\ copies[s] <= pending[s].retries + 1
    BY <2>1 DEF Timing
  <2>3. copies'[s] = copies[s] \/ (s \in due /\ copies'[s] = copies[s] + 1)
    <3> HIDE DEF due, failed
    <3> QED BY <1>4, <2>1
  <2>4. CASE s \in due
    <3>1. IsDue(pending[s]) /\ ~Exhausted(pending[s]) /\ pending'[s] = RecordRetransmit(pending[s])
      BY <1>1, <2>1, <2>4
    <3>2. InTime(pending'[s], built[s])
      BY <1>3, <2>1, <2>2, <3>1, InTimeRetransmit
    <3>3. pending'[s].retries = pending[s].retries + 1
      BY <1>3, <2>1, <3>1, RetransmitType
    <3>4. copies'[s] <= pending'[s].retries + 1
      BY <1>3, <2>1, <2>2, <2>3, <3>3
    <3>5. pending'[s].retries + 1 <= MaxRetries + 1
      BY <2>1, <3>2, <3>3, ReliableChannelAssumption DEF InTime
    <3> QED BY <1>2, <3>2, <3>4, <3>5
  <2>5. CASE s \notin due
    <3>1. pending'[s] = pending[s] /\ copies'[s] = copies[s]
      BY <1>1, <2>3, <2>5
    <3>2. pending[s].retries + 1 <= MaxRetries + 1
      BY <2>1, <2>2, ReliableChannelAssumption DEF InTime
    <3> QED BY <1>2, <2>2, <3>1, <3>2
  <2> QED BY <2>4, <2>5
<1>7. ASSUME NEW s \in reported'
      PROVE  Patience[MaxRetries + 1] <= built'[s] /\ built'[s] <= LongestWait
  <2>1. CASE s \in reported
    BY <1>2, <2>1 DEF Timing
  <2>2. CASE s \in failed
    <3>1. s \in DOMAIN pending /\ IsDue(pending[s]) /\ Exhausted(pending[s])
      BY <2>2
    <3>2. InTime(pending[s], built[s])
      BY <3>1 DEF Timing
    <3> QED BY <1>2, <1>3, <3>1, <3>2, InTimeFailed
  <2> QED BY <1>5, <2>1, <2>2
<1>8. ASSUME NEW s \in Numbers PROVE copies'[s] <= MaxRetries + 1
  <2>1. copies[s] <= MaxRetries + 1
    BY DEF Timing
  <2>2. copies'[s] = copies[s] \/ (s \in due /\ failed = {})
    <3> HIDE DEF due, failed
    <3> QED BY <1>4
  <2>3. CASE s \in due /\ failed = {}
    <3>1. s \in DOMAIN pending'
      BY <1>1, <2>3
    <3>2. copies'[s] <= pending'[s].retries + 1 /\ pending'[s].retries + 1 <= MaxRetries + 1
      BY <1>6, <3>1
    <3>3. copies'[s] \in Nat /\ pending'[s].retries \in Nat /\ MaxRetries \in Nat
      <4>1. copies'[s] = copies[s] + 1 /\ copies[s] \in Nat
        BY <1>3, <1>4, <2>3
      <4>2. pending'[s].retries = pending[s].retries + 1 /\ pending[s].retries \in Nat
        BY <1>1, <1>3, <2>3, <3>1, RetransmitType DEF PendingValues
      <4> QED BY <4>1, <4>2, ReliableChannelAssumption
    <3> QED BY <3>2, <3>3
  <2> QED BY <2>1, <2>2, <2>3
<1>9. \A s \in Numbers \ (DOMAIN pending' \cup reported') : built'[s] = 0
  BY <1>1, <1>2, <1>5 DEF Timing
<1> HIDE DEF due, failed
<1> QED BY <1>6, <1>7, <1>8, <1>9 DEF Timing

LEMMA TimingSame ==
    ASSUME Timing, UNCHANGED <<pending, built, copies, reported>>
    PROVE  Timing'
BY DEF Timing

LEMMA TimingHolds == PrivateSpec => []Timing
<1>1. QueueInv /\ Timing /\ [PrivateNext]_allvars => Timing'
  <2> SUFFICES ASSUME QueueInv, Timing, [PrivateNext]_allvars PROVE Timing'
    OBVIOUS
  <2>1. CASE Retransmit
    BY <2>1, TimingRetransmissions DEF Retransmit
  <2>2. CASE TimePasses
    BY <2>2, TimingTick DEF TimePasses
  <2>3. CASE MaybeSend
    BY <2>3, TimingSame DEF MaybeSend
  <2>4. CASE \E strategy \in Strategies, len \in Lengths :
                \E r \in PadToSize(strategy, len) : SendReal(len, r)
    BY <2>4, TimingSend DEF SendReal
  <2>5. ASSUME NEW m \in net, Receive(m) PROVE Timing'
    BY <2>5, TimingSame DEF Receive
  <2>6. ASSUME NEW m \in net, ProcessAck(m) PROVE Timing'
    BY <2>6, TimingProcessAck
  <2>7. CASE UNCHANGED allvars
    BY <2>7, TimingSame DEF allvars
  <2> QED BY <2>1, <2>2, <2>3, <2>4, <2>5, <2>6, <2>7 DEF PrivateNext
<1> QED BY <1>1, TimingInit, QueueInvariant, PTL DEF PrivateSpec

(* get_retransmissions() gives a packet up only after all its intervals,   *)
(* however the polls fall.                                                 *)
THEOREM NothingReportedEarly == PrivateSpec => []NeverReportedEarly
<1>1. QueueInv /\ Timing => NeverReportedEarly
  <2> SUFFICES ASSUME QueueInv, Timing PROVE NeverReportedEarly
    OBVIOUS
  <2>1. ASSUME NEW s \in DOMAIN pending
        PROVE  built[s] >= Patience[pending[s].retries] + pending[s].age
    <3>1. Patience[pending[s].retries] + pending[s].age <= built[s]
      BY DEF Timing, InTime
    <3>2. pending[s] \in PendingValues /\ built[s] \in Nat
      BY DEF QueueInv, Types
    <3>3. Patience[pending[s].retries] \in Nat /\ pending[s].age \in Nat
      BY <3>2, PatienceFacts DEF PendingValues
    <3> QED BY <3>1, <3>2, <3>3
  <2>2. ASSUME NEW s \in reported PROVE built[s] >= Patience[MaxRetries + 1]
    <3>1. built[s] \in Nat /\ Patience[MaxRetries + 1] <= built[s]
      BY DEF QueueInv, Types, Timing
    <3>2. Patience[MaxRetries + 1] \in Nat
      BY PatienceFacts, ReliableChannelAssumption
    <3> QED BY <3>1, <3>2
  <2> QED BY <2>1, <2>2 DEF NeverReportedEarly
<1> QED BY <1>1, QueueInvariant, TimingHolds, PTL

(* When the backoff fits into the clock-skew window, no copy leaves too    *)
(* late for the receiver's check of its timestamp.                         *)
THEOREM NoCopyFutile == BackoffFits /\ PrivateSpec => NoFutileRetransmission
<1> DEFINE InWindow == \A s \in Numbers : copies'[s] > copies[s] => built[s] <= MaxClockSkew
<1>1. ASSUME BackoffFits, QueueInv, Timing, [PrivateNext]_allvars, ~UNCHANGED vars
      PROVE  InWindow
  <2>0. MaxClockSkew \in Nat /\ copies \in [Numbers -> Nat] /\ built \in [Numbers -> Nat]
    BY <1>1, SessionAssumption DEF QueueInv, Types
  <2>1. ASSUME copies' = copies PROVE InWindow
    BY <2>0, <2>1
  <2>2. ASSUME Send PROVE InWindow
    <3> DEFINE s == sender.localSeq
    <3>1. /\ s \in Numbers /\ s \notin DOMAIN pending /\ s \notin reported
          /\ \A t \in Numbers \ {s} : copies'[t] = copies[t]
      BY <1>1, <2>2, SendEffect
    <3>2. built[s] = 0
      BY <1>1, <3>1 DEF Timing
    <3> HIDE DEF s
    <3> QED BY <2>0, <3>1, <3>2
  <2>3. ASSUME GetRetransmissions PROVE InWindow
    <3> SUFFICES ASSUME NEW s \in Numbers, copies'[s] > copies[s] PROVE built[s] <= MaxClockSkew
      OBVIOUS
    <3>1. s \in DOMAIN pending /\ ~Exhausted(pending[s])
      BY <2>0, <2>3 DEF GetRetransmissions
    <3>2. pending[s] \in PendingValues /\ built[s] \in Nat /\ InTime(pending[s], built[s])
      BY <1>1, <3>1 DEF QueueInv, Types, Timing
    <3>3. /\ pending[s].retries + 1 \in Nat /\ MaxRetries \in Nat
          /\ pending[s].retries + 1 <= MaxRetries
      BY <3>1, <3>2, ReliableChannelAssumption DEF Exhausted, PendingValues
    <3>4. /\ built[s] <= Wait(pending[s].retries + 1)
          /\ Wait(pending[s].retries + 1) <= Wait(MaxRetries)
          /\ Wait(pending[s].retries + 1) \in Nat /\ Wait(MaxRetries) \in Nat
      BY <3>2, <3>3, InTimeBounds, WaitGrows, WaitFacts
    <3>5. Wait(MaxRetries) <= MaxClockSkew
      BY <1>1 DEF BackoffFits, Wait
    <3> QED BY <2>0, <3>2, <3>4, <3>5
  <2> HIDE DEF InWindow
  <2>4. CASE Retransmit
    BY <2>3, <2>4 DEF Retransmit
  <2>5. CASE TimePasses
    BY <2>1, <2>5 DEF TimePasses, Tick
  <2>6. CASE MaybeSend
    BY <2>1, <2>6 DEF MaybeSend
  <2>7. CASE \E strategy \in Strategies, len \in Lengths :
                \E r \in PadToSize(strategy, len) : SendReal(len, r)
    BY <2>2, <2>7 DEF SendReal
  <2>8. CASE \E m \in net : Receive(m) \/ ProcessAck(m)
    BY <2>1, <2>8 DEF Receive, ProcessAck
  <2>9. CASE UNCHANGED allvars
    BY <1>1, <2>9 DEF allvars, vars
  <2> QED BY <1>1, <2>4, <2>5, <2>6, <2>7, <2>8, <2>9 DEF PrivateNext
<1>2. ASSUME BackoffFits PROVE PrivateSpec => NoFutileRetransmission
  <2>1. QueueInv /\ Timing /\ [PrivateNext]_allvars => [InWindow]_vars
    BY <1>1, <1>2
  <2>2. NoFutileRetransmission <=> [][InWindow]_vars
    BY DEF NoFutileRetransmission
  <2> HIDE DEF InWindow
  <2> QED BY <2>1, <2>2, QueueInvariant, TimingHolds, PTL DEF PrivateSpec
<1> QED BY <1>2

-----------------------------------------------------------------------------
(* What the two sessions have seen.                                        *)

(* The receiver has answered every number it accepted once, and would      *)
(* refuse it now; what is in the network fits its fields.                  *)
Exchange ==
    /\ sender.localSeq <= MaxSends + 1 /\ sender.peerMax <= MaxSends
    /\ sender.window \subseteq 0 .. MaxSends
    /\ delivered \subseteq Numbers
    /\ receiver.localSeq = Cardinality(delivered) + 1
    /\ receiver.peerMax < sender.localSeq
    /\ receiver.window \subseteq delivered \cup {0}
    /\ \A s \in delivered : ~SequenceFresh(receiver, s)
    /\ \A m \in net : /\ m.seq \in Numbers /\ m.acked \in 0 .. MaxSends
                      /\ m.age <= MaxClockSkew
                      /\ m.type = "DATA" => m.seq < sender.localSeq

LEMMA RecordFacts ==
    ASSUME NEW sess \in SessionValues, NEW seq \in Nat
    PROVE  LET new == RecordSequence(sess, seq)
           IN  /\ new.localSeq = sess.localSeq
               /\ new.peerMax = sess.peerMax \/ new.peerMax = seq
               /\ new.window \subseteq sess.window \cup {seq}
               /\ ~SequenceFresh(new, seq)
               /\ \A t \in Nat : ~SequenceFresh(sess, t) => ~SequenceFresh(new, t)
<1> DEFINE new == RecordSequence(sess, seq)
<1>0. ReplayWindow \in Nat \ {0} /\ sess.peerMax \in Nat
  BY SessionAssumption DEF SessionValues
<1>1. CASE seq > sess.peerMax
  <2> DEFINE kept == {s \in sess.window \cup {seq} : s > seq - ReplayWindow}
  <2>1. new = [sess EXCEPT !.peerMax = seq, !.window = kept]
    BY <1>1 DEF RecordSequence
  <2>2. new.localSeq = sess.localSeq /\ new.peerMax = seq /\ new.window = kept
    BY <2>1 DEF SessionValues
  <2>3. seq \in kept
    BY <1>0
  <2>4. ASSUME NEW t \in Nat, ~SequenceFresh(sess, t) PROVE t \in kept \/ t <= seq - ReplayWindow
    BY <1>0, <1>1, <2>4 DEF SequenceFresh
  <2> HIDE DEF kept, new
  <2>5. ~SequenceFresh(new, seq) /\ \A t \in Nat : ~SequenceFresh(sess, t) => ~SequenceFresh(new, t)
    BY <2>2, <2>3, <2>4 DEF SequenceFresh
  <2>6. kept \subseteq sess.window \cup {seq}
    BY DEF kept
  <2> QED BY <2>2, <2>5, <2>6 DEF new
<1>2. CASE ~(seq > sess.peerMax)
  <2>1. new = [sess EXCEPT !.window = sess.window \cup {seq}]
    BY <1>2 DEF RecordSequence
  <2>2. /\ new.localSeq = sess.localSeq /\ new.peerMax = sess.peerMax
        /\ new.window = sess.window \cup {seq}
    BY <2>1 DEF SessionValues
  <2> HIDE DEF new
  <2>3. ~SequenceFresh(new, seq) /\ \A t \in Nat : ~SequenceFresh(sess, t) => ~SequenceFresh(new, t)
    BY <2>2 DEF SequenceFresh
  <2> QED BY <2>2, <2>3 DEF new
<1> QED BY <1>1, <1>2

LEMMA NextSequenceFacts ==
    ASSUME NEW sess \in SessionValues
    PROVE  LET new == NextSequence(sess)
           IN  /\ new.localSeq = sess.localSeq + 1 /\ new.peerMax = sess.peerMax
               /\ new.window = sess.window
               /\ \A t : SequenceFresh(new, t) <=> SequenceFresh(sess, t)
<1>1. /\ NextSequence(sess).localSeq = sess.localSeq + 1
      /\ NextSequence(sess).peerMax = sess.peerMax /\ NextSequence(sess).window = sess.window
  BY DEF NextSequence, SessionValues
<1> QED BY <1>1 DEF SequenceFresh

LEMMA ExchangeInit == PrivateInit => Exchange
<1> SUFFICES ASSUME Init PROVE Exchange
  BY DEF PrivateInit
<1> DEFINE new == NewSession("k")
           old == [key |-> "k", localSeq |-> 0, peerMax |-> 0, window |-> {0}]
<1>1. RecordSequence(new, 0) = old
  <2>1. new = [key |-> "k", localSeq |-> 0, peerMax |-> 0, window |-> {}]
    BY DEF NewSession
  <2>2. ~(0 > new.peerMax) /\ new.window \cup {0} = {0}
    BY <2>1
  <2> HIDE DEF new
  <2>3. RecordSequence(new, 0) = [new EXCEPT !.window = {0}]
    BY <2>2 DEF RecordSequence
  <2> QED BY <2>1, <2>3
<1>2. sender = NextSequence(old) /\ receiver = NextSequence(old)
  BY <1>1 DEF Init
<1>3. /\ sender.localSeq = 1 /\ sender.peerMax = 0 /\ sender.window = {0}
      /\ receiver.localSeq = 1 /\ receiver.peerMax = 0 /\ receiver.window = {0}
  BY <1>2 DEF NextSequence
<1>4. delivered = {} /\ net = {} /\ Cardinality({}) = 0 /\ MaxSends \in Nat
  BY FS_EmptySet, ReliableChannelAssumption DEF Init
<1> QED BY <1>3, <1>4 DEF Exchange

(* A packet that leaves with the next number of the session.               *)
LEMMA ExchangeDrawn ==
    ASSUME QueueInv, Timing, Exchange,
           sender.localSeq <= MaxSends, sender' = NextSequence(sender),
           net' = net \cup {DataPacket(sender.localSeq)}, UNCHANGED <<receiver, delivered>>
    PROVE  Exchange'
<1> DEFINE s == sender.localSeq
<1>1. sender \in SessionValues /\ s \in Numbers /\ MaxSends \in Nat /\ MaxClockSkew \in Nat
  BY ReliableChannelAssumption, SessionAssumption DEF QueueInv, Types, SessionValues, Numbers
<1>2. s \notin DOMAIN pending /\ s \notin reported
  <2>1. ~(copies[s] > 0)
    BY <1>1 DEF QueueInv, Drawn, Numbers
  <2> QED BY <1>1, <2>1 DEF QueueInv, Accounted
<1>3. built[s] = 0
  BY <1>1, <1>2 DEF Timing
<1>4. sender'.localSeq = s + 1 /\ sender'.peerMax = sender.peerMax /\ sender'.window = sender.window
  BY <1>1, NextSequenceFacts
<1>5. DataPacket(s).seq = s /\ DataPacket(s).acked = 0 /\ DataPacket(s).age = 0
  BY <1>3 DEF DataPacket
<1>6. receiver.peerMax \in Nat /\ \A m \in net : m.seq \in Nat
  BY DEF QueueInv, Types, SessionValues, PacketValues
<1>7. ASSUME NEW m \in net'
      PROVE  /\ m.seq \in Numbers /\ m.acked \in 0 .. MaxSends /\ m.age <= MaxClockSkew
             /\ m.type = "DATA" => m.seq < sender'.localSeq
  <2>1. CASE m = DataPacket(s)
    BY <1>1, <1>4, <1>5, <2>1 DEF Numbers
  <2>2. CASE m \in net
    BY <1>1, <1>4, <1>6, <2>2 DEF Exchange, Numbers
  <2> QED BY <2>1, <2>2
<1>8. sender'.localSeq <= MaxSends + 1 /\ receiver.peerMax < sender'.localSeq
  BY <1>1, <1>4, <1>6 DEF Exchange, Numbers
<1> QED BY <1>4, <1>7, <1>8 DEF Exchange

LEMMA ExchangeReceive ==
    ASSUME QueueInv, Exchange, NEW m \in net, Receive(m)
    PROVE  Exchange'
<1> DEFINE mid == RecordSequence(receiver, m.seq)
           ack == [type |-> "ACK", seq |-> receiver.localSeq, acked |-> m.seq, age |-> 0]
<1>1. /\ m.seq \in Numbers /\ m.seq \in Nat /\ m.seq < sender.localSeq /\ m.type = "DATA"
      /\ MaxSends \in Nat /\ MaxClockSkew \in Nat
  BY ReliableChannelAssumption, SessionAssumption DEF Exchange, Receive, Numbers
<1>2. /\ SequenceFresh(receiver, m.seq) /\ receiver' = NextSequence(mid) /\ sender' = sender
      /\ net' = net \cup {ack} /\ delivered' = delivered \cup {m.seq}
  BY DEF Receive, PassesReplayCheck
<1>3. m.seq \notin delivered
  BY <1>2 DEF Exchange
<1>4. receiver \in SessionValues /\ mid \in SessionValues
  BY <1>1, SessionsKeepType DEF QueueInv, Types
<1>5. /\ mid.localSeq = receiver.localSeq
      /\ mid.peerMax = receiver.peerMax \/ mid.peerMax = m.seq
      /\ mid.window \subseteq receiver.window \cup {m.seq}
      /\ ~SequenceFresh(mid, m.seq)
      /\ \A t \in Nat : ~SequenceFresh(receiver, t) => ~SequenceFresh(mid, t)
  BY <1>1, <1>4, RecordFacts
<1> HIDE DEF mid
<1>6. /\ receiver'.localSeq = receiver.localSeq + 1 /\ receiver'.peerMax = mid.peerMax
      /\ receiver'.window = mid.window
      /\ \A t : SequenceFresh(receiver', t) <=> SequenceFresh(mid, t)
  BY <1>2, <1>4, <1>5, NextSequenceFacts
<1>7. delivered' \subseteq Numbers /\ delivered \subseteq Numbers
  BY <1>1, <1>2 DEF Exchange
<1>8. Cardinality(delivered') = Cardinality(delivered) + 1 /\ Cardinality(delivered) \in Nat
  BY <1>2, <1>3, <1>7, NumbersFinite, FS_AddElement
<1>9. Cardinality(delivered') <= MaxSends
  <2>1. IsFiniteSet(Numbers) /\ Cardinality(Numbers) = MaxSends
    BY <1>1, FS_Interval DEF Numbers
  <2> QED BY <1>7, <2>1, FS_Subset
<1>10. receiver.localSeq \in Numbers /\ receiver'.localSeq = Cardinality(delivered') + 1
  BY <1>1, <1>6, <1>8, <1>9 DEF Exchange, Numbers
<1>11. receiver'.window \subseteq delivered' \cup {0}
  BY <1>2, <1>5, <1>6 DEF Exchange
<1>12. \A t \in delivered' : ~SequenceFresh(receiver', t)
  <2>1. \A t \in delivered : t \in Nat
    BY <1>7 DEF Numbers
  <2> QED BY <1>2, <1>5, <1>6, <2>1 DEF Exchange
<1>13. receiver'.peerMax < sender.localSeq
  BY <1>1, <1>5, <1>6 DEF Exchange
<1>14. \A x \in net' : /\ x.seq \in Numbers /\ x.acked \in 0 .. MaxSends
                       /\ x.age <= MaxClockSkew
                       /\ x.type = "DATA" => x.seq < sender.localSeq
  <2>1. ack.type = "ACK" /\ ack.seq = receiver.localSeq /\ ack.acked = m.seq /\ ack.age = 0
    OBVIOUS
  <2>2. m.seq \in 0 .. MaxSends
    BY <1>1 DEF Numbers
  <2> HIDE DEF ack
  <2> QED BY <1>1, <1>2, <1>10, <2>1, <2>2 DEF Exchange
<1> QED BY <1>2, <1>7, <1>10, <1>11, <1>12, <1>13, <1>14 DEF Exchange

LEMMA ExchangeProcessAck ==
    ASSUME QueueInv, Exchange, NEW m \in net, ProcessAck(m)
    PROVE  Exchange'
<1>1. m.seq \in Numbers /\ m.seq \in Nat /\ m.seq \in 0 .. MaxSends /\ sender \in SessionValues
  BY ReliableChannelAssumption DEF Exchange, Numbers, QueueInv, Types
<1>2. sender' = RecordSequence(sender, m.seq) /\ UNCHANGED <<receiver, net, delivered>>
  BY DEF ProcessAck
<1>3. /\ sender'.localSeq = sender.localSeq
      /\ sender'.peerMax = sender.peerMax \/ sender'.peerMax = m.seq
      /\ sender'.window \subseteq sender.window \cup {m.seq}
  BY <1>1, <1>2, RecordFacts
<1>4. sender'.peerMax <= MaxSends /\ sender'.window \subseteq 0 .. MaxSends
  BY <1>1, <1>3 DEF Exchange
<1> QED BY <1>2, <1>3, <1>4 DEF Exchange

LEMMA ExchangeTick == ASSUME QueueInv, Exchange, Tick PROVE Exchange'
<1>1. /\ net' = {[m EXCEPT !.age = @ + 1] : m \in {n \in net : n.age < MaxClockSkew}}
      /\ UNCHANGED <<sender, receiver, delivered>>
  BY DEF Tick
<1>2. ASSUME NEW x \in net'
      PROVE  /\ x.seq \in Numbers /\ x.acked \in 0 .. MaxSends /\ x.age <= MaxClockSkew
             /\ x.type = "DATA" => x.seq < sender.localSeq
  <2>1. PICK m \in net : m.age < MaxClockSkew /\ x = [m EXCEPT !.age = @ + 1]
    BY <1>1
  <2>2. m \in PacketValues /\ m.age \in Nat /\ MaxClockSkew \in Nat
    BY SessionAssumption DEF QueueInv, Types, PacketValues
  <2>3. x.seq = m.seq /\ x.acked = m.acked /\ x.type = m.type /\ x.age = m.age + 1
    BY <2>1, <2>2 DEF PacketValues
  <2> QED BY <2>1, <2>2, <2>3 DEF Exchange
<1> QED BY <1>1, <1>2 DEF Exchange

LEMMA ExchangeRetransmissions == ASSUME QueueInv, Exchange, GetRetransmissions PROVE Exchange'
<1>1. UNCHANGED <<sender, receiver, delivered>>
  BY DEF GetRetransmissions
<1>2. \A x \in net' : x \in net \/ \E s \in DOMAIN pending : built[s] <= MaxClockSkew /\ x = DataPacket(s)
  BY DEF GetRetransmissions
<1>3. ASSUME NEW s \in DOMAIN pending, built[s] <= MaxClockSkew
      PROVE  LET x == DataPacket(s)
             IN  /\ x.seq \in Numbers /\ x.acked \in 0 .. MaxSends /\ x.age <= MaxClockSkew
                 /\ x.type = "DATA" => x.seq < sender.localSeq
  <2>1. s \in Numbers /\ s < sender.localSeq /\ 0 \in 0 .. MaxSends
    BY ReliableChannelAssumption DEF QueueInv, Types, Accounted, Drawn
  <2> QED BY <1>3, <2>1 DEF DataPacket
<1> QED BY <1>1, <1>2, <1>3 DEF Exchange

LEMMA ExchangeHolds == PrivateSpec => []Exchange
<1>1. QueueInv /\ Timing /\ Exchange /\ [PrivateNext]_allvars => Exchange'
  <2> SUFFICES ASSUME QueueInv, Timing, Exchange, [PrivateNext]_allvars PROVE Exchange'
    OBVIOUS
  <2>1. CASE Retransmit
    BY <2>1, ExchangeRetransmissions DEF Retransmit
  <2>2. CASE TimePasses
    BY <2>2, ExchangeTick DEF TimePasses
  <2>3. CASE MaybeSend
    BY <2>3, ExchangeDrawn DEF MaybeSend
  <2>4. CASE \E strategy \in Strategies, len \in Lengths :
                \E r \in PadToSize(strategy, len) : SendReal(len, r)
    BY <2>4, ExchangeDrawn DEF SendReal, Send
  <2>5. ASSUME NEW m \in net, Receive(m) PROVE Exchange'
    BY <2>5, ExchangeReceive
  <2>6. ASSUME NEW m \in net, ProcessAck(m) PROVE Exchange'
    BY <2>6, ExchangeProcessAck
  <2>7. CASE UNCHANGED allvars
    BY <2>7 DEF allvars, Exchange
  <2> QED BY <2>1, <2>2, <2>3, <2>4, <2>5, <2>6, <2>7 DEF PrivateNext
<1> QED BY <1>1, ExchangeInit, QueueInvariant, TimingHolds, PTL DEF PrivateSpec

(* How many numbers an interval from one holds.                            *)
LEMMA CountUpTo ==
    ASSUME NEW n \in Nat
    PROVE  IsFiniteSet(1 .. n) /\ Cardinality(1 .. n) = n
<1>1. /\ IsFiniteSet(1 .. n)
      /\ Cardinality(1 .. n) = IF 1 > n THEN 0 ELSE n - 1 + 1
  BY FS_Interval
<1> QED BY <1>1

(* The sessions' numbers stay within the packets sent, every timeout is    *)
(* the doubled and capped one of its attempt, and nothing waits or is      *)
(* copied more than the retries allow.                                     *)
THEOREM ChannelTypeCorrect == PrivateSpec => []TypeOK
<1>1. QueueInv /\ Timing /\ Exchange => TypeOK
  <2> SUFFICES ASSUME QueueInv, Timing, Exchange PROVE TypeOK
    OBVIOUS
  <2> DEFINE Sessions == [key : {"k"}, localSeq : 1 .. MaxSends + 1,
                          peerMax : 0 .. MaxSends, window : SUBSET (0 .. MaxSends)]
  <2>0. MaxSends \in Nat /\ MaxRetries \in Nat /\ MaxClockSkew \in Nat
    BY ReliableChannelAssumption, SessionAssumption
  <2>1. ASSUME NEW x \in SessionValues, x.localSeq <= MaxSends + 1, x.peerMax <= MaxSends,
               x.window \subseteq 0 .. MaxSends
        PROVE  x \in Sessions
    <3>1. /\ x = [key |-> x.key, localSeq |-> x.localSeq, peerMax |-> x.peerMax, window |-> x.window]
          /\ x.key = "k" /\ x.localSeq \in Nat \ {0} /\ x.peerMax \in Nat
      BY DEF SessionValues
    <3>2. x.localSeq \in 1 .. MaxSends + 1 /\ x.peerMax \in 0 .. MaxSends
      BY <2>0, <2>1, <3>1
    <3> QED BY <2>1, <3>1, <3>2
  <2>2. sender \in Sessions
    BY <2>1 DEF QueueInv, Types, Exchange
  <2>3. receiver \in Sessions
    <3>1. receiver \in SessionValues /\ receiver.peerMax \in Nat /\ sender.localSeq \in Nat
      BY DEF QueueInv, Types, SessionValues
    <3>2. Cardinality(delivered) \in Nat /\ Cardinality(delivered) <= MaxSends
      <4>1. IsFiniteSet(Numbers) /\ Cardinality(Numbers) = MaxSends
        BY <2>0, CountUpTo DEF Numbers
      <4> QED BY <4>1, FS_Subset, NumbersFinite DEF Exchange
    <3>3. receiver.localSeq <= MaxSends + 1 /\ receiver.peerMax <= MaxSends
      BY <2>0, <3>1, <3>2 DEF Exchange
    <3>4. receiver.window \subseteq 0 .. MaxSends
      <4>1. receiver.window \subseteq Numbers \cup {0}
        BY DEF Exchange
      <4>2. Numbers \cup {0} \subseteq 0 .. MaxSends
        BY <2>0 DEF Numbers
      <4> QED BY <4>1, <4>2
    <3> QED BY <2>1, <3>1, <3>3, <3>4
  <2>4. ASSUME NEW s \in DOMAIN pending
        PROVE  /\ pending[s].retries \in 0 .. MaxRetries
               /\ pending[s].timeout = Interval(pending[s].retries)
               /\ pending[s].age \in 0 .. pending[s].timeout + PollDelay
    <3>1. pending[s] \in PendingValues /\ InTime(pending[s], built[s])
      BY DEF QueueInv, Types, Timing
    <3> QED BY <2>0, <3>1, ReliableChannelAssumption DEF PendingValues, InTime
  <2>5. built \in [Numbers -> 0 .. LongestWait]
    <3>0. built \in [Numbers -> Nat]
      BY DEF QueueInv, Types
    <3>1. LongestWait \in Nat
      <4>1. LongestWait = Wait(MaxRetries + 1) /\ MaxRetries + 1 \in Nat
        BY <2>0 DEF LongestWait, Wait
      <4> QED BY <4>1, WaitFacts
    <3>2. ASSUME NEW s \in Numbers PROVE built[s] <= LongestWait
      <4>1. CASE s \in DOMAIN pending
        <5>1. pending[s] \in PendingValues /\ built[s] \in Nat /\ InTime(pending[s], built[s])
          BY <3>0, <4>1 DEF QueueInv, Types, Timing
        <5> QED BY <5>1, InTimeBounds
      <4>2. CASE s \in reported
        BY <4>2 DEF Timing
      <4>3. CASE s \notin DOMAIN pending \cup reported
        BY <3>1, <4>3 DEF Timing
      <4> QED BY <4>1, <4>2, <4>3
    <3>3. \A s \in Numbers : built[s] \in 0 .. LongestWait
      BY <3>0, <3>1, <3>2
    <3> QED BY <3>0, <3>3
  <2>6. ASSUME NEW m \in net
        PROVE  m \in [type : {"DATA", "ACK"}, seq : Numbers, acked : 0 .. MaxSends,
                      age : 0 .. MaxClockSkew]
    <3>1. /\ m = [type |-> m.type, seq |-> m.seq, acked |-> m.acked, age |-> m.age]
          /\ m.type \in {"DATA", "ACK"} /\ m.age \in Nat
      BY DEF QueueInv, Types, PacketValues
    <3>2. m.seq \in Numbers /\ m.acked \in 0 .. MaxSends /\ m.age <= MaxClockSkew
      BY DEF Exchange
    <3>3. m.age \in 0 .. MaxClockSkew
      BY <2>0, <3>1, <3>2
    <3> QED BY <3>1, <3>2, <3>3
  <2>7. copies \in [Numbers -> 0 .. MaxRetries + 1]
    <3>1. copies \in [Numbers -> Nat] /\ \A s \in Numbers : copies[s] <= MaxRetries + 1
      BY DEF QueueInv, Types, Timing
    <3>2. \A s \in Numbers : copies[s] \in 0 .. MaxRetries + 1
      BY <2>0, <3>1
    <3> QED BY <3>1, <3>2
  <2>8. /\ DOMAIN pending \subseteq Numbers /\ delivered \subseteq Numbers
        /\ acked \subseteq Numbers /\ reported \subseteq Numbers
    BY DEF QueueInv, Types, Exchange
  <2> QED BY <2>2, <2>3, <2>4, <2>5, <2>6, <2>7, <2>8 DEF TypeOK
<1> QED BY <1>1, QueueInvariant, TimingHolds, ExchangeHolds, PTL

-----------------------------------------------------------------------------
(* Cover packets that a waiting packet sees go by.                         *)

Later(s) == {c \in cover : c > s}

(* Each of them took an interval of the time the packet has waited.        *)
Paced ==
    /\ cover \subseteq 1 .. (sender.localSeq - 1)
    /\ quiet \in 0 .. CoverInterval
    /\ \A s \in DOMAIN pending :
          s \notin cover /\ Cardinality(Later(s)) * CoverInterval + quiet <= built[s]

LEMMA CoverFinite ==
    ASSUME QueueInv, Exchange, Paced
    PROVE  /\ cover \subseteq Numbers /\ IsFiniteSet(cover) /\ Cardinality(cover) \in Nat
           /\ \A s : IsFiniteSet(Later(s)) /\ Cardinality(Later(s)) \in Nat
<1>1. cover \subseteq Numbers
  BY ReliableChannelAssumption DEF QueueInv, Types, SessionValues, Exchange, Paced, Numbers
<1>2. \A s : Later(s) \subseteq Numbers
  BY <1>1 DEF Later
<1> QED BY <1>1, <1>2, NumbersFinite

LEMMA PacedInit == PrivateInit => Paced
<1> SUFFICES ASSUME PrivateInit PROVE Paced
  OBVIOUS
<1>1. cover = {} /\ quiet = 0 /\ DOMAIN pending = {} /\ Cardinality({}) = 0
  BY FS_EmptySet DEF PrivateInit, Init
<1>2. sender.localSeq = 1
  <2> DEFINE new == NewSession("k")
  <2>1. new = [key |-> "k", localSeq |-> 0, peerMax |-> 0, window |-> {}]
    BY DEF NewSession
  <2>2. ~(0 > new.peerMax) /\ new.window \cup {0} = {0}
    BY <2>1
  <2> HIDE DEF new
  <2>3. RecordSequence(new, 0) = [new EXCEPT !.window = {0}]
    BY <2>2 DEF RecordSequence
  <2>4. RecordSequence(new, 0) = [key |-> "k", localSeq |-> 0, peerMax |-> 0, window |-> {0}]
    BY <2>1, <2>3
  <2> QED BY <2>4 DEF PrivateInit, Init, NextSequence, new
<1>3. CoverInterval \in Nat
  BY PrivateChannelAssumption
<1> QED BY <1>1, <1>2, <1>3 DEF Paced

LEMMA PacedSend ==
    ASSUME QueueInv, Timing, Exchange, Paced, Send, quiet' = 0, cover' = cover
    PROVE  Paced'
<1> DEFINE s == sender.localSeq
<1>1. /\ s \in Numbers /\ s \notin DOMAIN pending /\ s \notin reported
      /\ DOMAIN pending' = DOMAIN pending \cup {s}
  BY SendEffect
<1>2. sender'.localSeq = s + 1 /\ s \in Nat \ {0} /\ built' = built
  BY NextSequenceFacts DEF Send, QueueInv, Types, SessionValues
<1>3. built[s] = 0
  BY <1>1 DEF Timing
<1>4. CoverInterval \in Nat
  BY PrivateChannelAssumption
<1> HIDE DEF s
<1>5. cover \subseteq 1 .. (s - 1) /\ s \notin cover
  BY <1>2 DEF Paced, s
<1>6. cover' \subseteq 1 .. (sender'.localSeq - 1)
  BY <1>2, <1>5
<1>8. ASSUME NEW t \in DOMAIN pending'
      PROVE  t \notin cover /\ Cardinality(Later(t)) * CoverInterval + 0 <= built[t]
  <2>1. CASE t = s
    <3>1. Later(s) = {}
      <4>1. ASSUME NEW c \in cover PROVE ~(c > s)
        <5>1. c \in 1 .. (s - 1)
          BY <1>5
        <5> QED BY <1>2, <5>1
      <4> QED BY <4>1, Zenon DEF Later
    <3>2. Cardinality(Later(s)) = 0
      BY <3>1, FS_EmptySet
    <3> QED BY <1>3, <1>4, <1>5, <2>1, <3>2
  <2>2. CASE t # s
    <3>1. t \in DOMAIN pending /\ Cardinality(Later(t)) \in Nat /\ built[t] \in Nat
      BY <1>1, <2>2, CoverFinite DEF QueueInv, Types
    <3>2. t \notin cover /\ Cardinality(Later(t)) * CoverInterval + quiet <= built[t] /\ quiet \in Nat
      BY <1>4, <3>1 DEF Paced
    <3>3. Cardinality(Later(t)) * CoverInterval \in Nat
      BY <1>4, <3>1, ProductFacts
    <3> QED BY <3>1, <3>2, <3>3
  <2> QED BY <2>1, <2>2
<1>9. \A t : Later(t)' = Later(t)
  BY DEF Later
<1>10. quiet' \in 0 .. CoverInterval
  BY <1>4
<1> QED BY <1>2, <1>6, <1>8, <1>9, <1>10 DEF Paced

LEMMA PacedCover == ASSUME QueueInv, Exchange, Paced, MaybeSend PROVE Paced'
<1> DEFINE n == sender.localSeq
<1>1. /\ cover' = cover \cup {n} /\ quiet' = 0 /\ quiet >= CoverInterval
      /\ pending' = pending /\ built' = built /\ sender' = NextSequence(sender)
  BY DEF MaybeSend, CoverDue
<1>2. sender'.localSeq = n + 1 /\ n \in Nat \ {0}
  BY <1>1, NextSequenceFacts DEF QueueInv, Types, SessionValues
<1>3. CoverInterval \in Nat
  BY PrivateChannelAssumption
<1>4. quiet = CoverInterval /\ cover \subseteq 1 .. (n - 1)
  BY <1>1, <1>3 DEF Paced
<1> HIDE DEF n
<1>6. n \notin cover /\ cover' \subseteq 1 .. (sender'.localSeq - 1)
  BY <1>1, <1>2, <1>4
<1>9. ASSUME NEW t \in DOMAIN pending
      PROVE  t \notin cover' /\ Cardinality(Later(t)') * CoverInterval + 0 <= built[t]
  <2>1. t < n /\ t \in Nat /\ built[t] \in Nat
    BY DEF QueueInv, Types, Accounted, Drawn, Numbers, n
  <2>2. t \notin cover /\ Cardinality(Later(t)) * CoverInterval + quiet <= built[t]
    BY DEF Paced
  <2>3. Later(t)' = Later(t) \cup {n} /\ n \notin Later(t)
    BY <1>1, <1>2, <1>6, <2>1 DEF Later
  <2>4. IsFiniteSet(Later(t)) /\ Cardinality(Later(t)) \in Nat
    BY CoverFinite
  <2>5. Cardinality(Later(t)') = Cardinality(Later(t)) + 1
    BY <2>3, <2>4, FS_AddElement
  <2> DEFINE k == Cardinality(Later(t))
  <2> HIDE DEF k
  <2>6. (k + 1) * CoverInterval = k * CoverInterval + CoverInterval /\ k * CoverInterval \in Nat
    BY <1>3, <2>4 DEF k
  <2>7. Cardinality(Later(t)') * CoverInterval + 0 <= built[t]
    BY <1>3, <1>4, <2>1, <2>2, <2>5, <2>6 DEF k
  <2> QED BY <1>1, <1>2, <2>1, <2>2, <2>7
<1>10. quiet' \in 0 .. CoverInterval
  BY <1>1, <1>3
<1> QED BY <1>1, <1>6, <1>9, <1>10 DEF Paced

(* Steps that draw no number.                                              *)
LEMMA PacedElse ==
    ASSUME QueueInv, Exchange, Paced, sender'.localSeq = sender.localSeq, cover' = cover,
           DOMAIN pending' \subseteq DOMAIN pending, quiet' \in 0 .. CoverInterval,
           \A s \in DOMAIN pending' : quiet' - quiet <= built'[s] - built[s] /\ built'[s] \in Nat
    PROVE  Paced'
<1>1. ASSUME NEW s \in DOMAIN pending'
      PROVE  s \notin cover /\ Cardinality(Later(s)) * CoverInterval + quiet' <= built'[s]
  <2>1. s \notin cover /\ Cardinality(Later(s)) * CoverInterval + quiet <= built[s]
    BY DEF Paced
  <2>2. /\ Cardinality(Later(s)) \in Nat /\ CoverInterval \in Nat
        /\ quiet \in Nat /\ quiet' \in Nat /\ built[s] \in Nat
    BY CoverFinite, PrivateChannelAssumption DEF Paced, QueueInv, Types
  <2>3. Cardinality(Later(s)) * CoverInterval \in Nat
    BY <2>2, ProductFacts
  <2>4. built'[s] \in Nat /\ quiet' - quiet <= built'[s] - built[s]
    OBVIOUS
  <2> QED BY <2>1, <2>2, <2>3, <2>4
<1>2. \A s : Later(s)' = Later(s)
  BY DEF Later
<1> QED BY <1>1, <1>2 DEF Paced

LEMMA PacedHolds == PrivateSpec => []Paced
<1>1. ASSUME QueueInv, Timing, Exchange, Paced, [PrivateNext]_allvars PROVE Paced'
  <2>0. /\ built \in [Numbers -> Nat] /\ DOMAIN pending \subseteq Numbers
        /\ quiet \in 0 .. CoverInterval /\ CoverInterval \in Nat /\ sender \in SessionValues
    BY <1>1, PrivateChannelAssumption DEF QueueInv, Types, Paced
  <2>1. ASSUME DOMAIN pending' \subseteq DOMAIN pending, sender'.localSeq = sender.localSeq,
               cover' = cover, quiet' \in {0, quiet}, \A s \in DOMAIN pending' : built'[s] = built[s]
        PROVE  Paced'
    <3>1. quiet' \in 0 .. CoverInterval /\ quiet' <= quiet
      BY <2>0, <2>1
    <3>2. \A s \in DOMAIN pending' : quiet' - quiet <= built'[s] - built[s] /\ built'[s] \in Nat
      BY <2>0, <2>1, <3>1
    <3> QED BY <1>1, <2>1, <3>1, <3>2, PacedElse
  <2>2. CASE Retransmit
    <3>1. DOMAIN pending' \subseteq DOMAIN pending /\ sender' = sender /\ built' = built
      BY <2>2 DEF Retransmit, GetRetransmissions, Remaining
    <3>2. cover' = cover /\ quiet' \in {0, quiet}
      BY <2>2 DEF Retransmit, RecordRealSend
    <3> QED BY <2>1, <3>1, <3>2
  <2>3. CASE TimePasses
    <3>1. /\ DOMAIN pending' = DOMAIN pending /\ sender' = sender /\ cover' = cover
          /\ built' = [s \in Numbers |-> IF s \in DOMAIN pending THEN built[s] + 1 ELSE built[s]]
          /\ quiet' = Lower(quiet + 1, CoverInterval)
      BY <2>3 DEF TimePasses, Tick
    <3>2. quiet' \in 0 .. CoverInterval /\ quiet' <= quiet + 1
      BY <2>0, <3>1 DEF Lower
    <3>3. \A s \in DOMAIN pending : built'[s] = built[s] + 1 /\ built[s] \in Nat
      BY <2>0, <3>1
    <3>4. \A s \in DOMAIN pending' : quiet' - quiet <= built'[s] - built[s] /\ built'[s] \in Nat
      BY <2>0, <3>1, <3>2, <3>3
    <3> QED BY <1>1, <3>1, <3>2, <3>4, PacedElse
  <2>4. CASE MaybeSend
    BY <1>1, <2>4, PacedCover
  <2>5. CASE \E strategy \in Strategies, len \in Lengths :
                \E r \in PadToSize(strategy, len) : SendReal(len, r)
    BY <1>1, <2>5, PacedSend DEF SendReal, RecordRealSend
  <2>6. ASSUME NEW m \in net, Receive(m), UNCHANGED <<quiet, cover, mangled>> PROVE Paced'
    BY <2>1, <2>6 DEF Receive
  <2>7. ASSUME NEW m \in net, ProcessAck(m), UNCHANGED <<quiet, cover, mangled>> PROVE Paced'
    <3>1. /\ DOMAIN pending' = DOMAIN pending \ {m.acked}
          /\ acked' = acked \cup ({m.acked} \cap DOMAIN pending)
          /\ built' = [s \in Numbers |-> IF s \in acked' THEN 0 ELSE built[s]]
          /\ sender' = RecordSequence(sender, m.seq)
      BY <2>7 DEF ProcessAck, Without, AckedNumber
    <3>2. sender'.localSeq = sender.localSeq
      <4>1. m.seq \in Nat
        BY <1>1 DEF QueueInv, Types, PacketValues
      <4> QED BY <2>0, <3>1, <4>1, RecordFacts
    <3>3. DOMAIN pending \cap acked = {}
      BY <1>1 DEF QueueInv, Accounted
    <3>4. \A s \in DOMAIN pending' : built'[s] = built[s]
      BY <2>0, <3>1, <3>3
    <3> QED BY <2>1, <2>7, <3>1, <3>2, <3>4
  <2>8. CASE UNCHANGED allvars
    BY <2>1, <2>8 DEF allvars
  <2> QED BY <1>1, <2>2, <2>3, <2>4, <2>5, <2>6, <2>7, <2>8 DEF PrivateNext
<1>2. QueueInv /\ Timing /\ Exchange /\ Paced /\ [PrivateNext]_allvars => Paced'
  BY <1>1
<1> QED BY <1>2, PacedInit, QueueInvariant, TimingHolds, ExchangeHolds, PTL DEF PrivateSpec

(* The numbers drawn after a packet are those of the channel and those of  *)
(* cover packets.                                                          *)
LEMMA NumbersSince ==
    ASSUME QueueInv, Exchange, Paced, NEW s \in DOMAIN pending
    PROVE  /\ Cardinality(RealSince(s)) \in Nat
           /\ (sender.localSeq - 1) - s = Cardinality(RealSince(s)) + Cardinality(Later(s))
<1> DEFINE n == sender.localSeq
           all == s + 1 .. n - 1
<1>1. s \in Nat /\ n \in Nat /\ s < n
  BY DEF QueueInv, Types, SessionValues, Accounted, Drawn, Numbers
<1>2. IsFiniteSet(all) /\ Cardinality(all) = (n - 1) - s
  <2>1. s + 1 \in Int /\ n - 1 \in Int
    BY <1>1
  <2>2. /\ IsFiniteSet(all)
        /\ Cardinality(all) = IF s + 1 > n - 1 THEN 0 ELSE (n - 1) - (s + 1) + 1
    BY <2>1, FS_Interval
  <2> HIDE DEF all, n
  <2> QED BY <1>1, <2>2
<1>3. Later(s) = all \cap cover
  <2>1. cover \subseteq 1 .. n - 1
    BY DEF Paced
  <2>2. \A c \in cover : c \in Int /\ c <= n - 1
    BY <1>1, <2>1
  <2> HIDE DEF n
  <2> QED BY <1>1, <2>2 DEF Later
<1>4. RealSince(s) = all \ cover
  BY DEF RealSince
<1>5. /\ IsFiniteSet(all \ cover) /\ IsFiniteSet(all \cap cover)
      /\ Cardinality(all \ cover) = Cardinality(all) - Cardinality(all \cap cover)
  <2> HIDE DEF all
  <2> QED BY <1>2, FS_Difference, FS_Subset
<1>6. Cardinality(all \ cover) \in Nat /\ Cardinality(all \cap cover) \in Nat
  <2> HIDE DEF all
  <2> QED BY <1>5, FS_CardinalityType
<1> HIDE DEF all, n
<1> QED BY <1>1, <1>2, <1>3, <1>4, <1>5, <1>6 DEF n

(* While the packets sent after it, and one cover packet for each interval *)
(* it has waited, are fewer than the replay window holds, the receiver     *)
(* finds a retransmission fresh: maybe_send() takes no more of the window. *)
THEOREM CopiesStayFresh == PrivateSpec => []RetransmissionFresh
<1>1. ASSUME QueueInv, Exchange, Paced PROVE RetransmissionFresh
  <2> DEFINE real(s) == Cardinality(RealSince(s))
  <2> SUFFICES ASSUME NEW s \in DOMAIN pending, s \notin delivered,
                      real(s) * CoverInterval + built[s] < ReplayWindow * CoverInterval
               PROVE  SequenceFresh(receiver, s)
    BY DEF RetransmissionFresh
  <2> DEFINE r == real(s)
             k == Cardinality(Later(s))
             since == (sender.localSeq - 1) - s
  <2>1. /\ s \in Nat \ {0} /\ built[s] \in Nat
        /\ sender.localSeq \in Nat /\ receiver.peerMax \in Nat
    BY <1>1 DEF QueueInv, Types, Numbers, SessionValues
  <2>2. s \notin receiver.window
    BY <1>1, <2>1 DEF Exchange
  <2>3. /\ CoverInterval \in Nat \ {0} /\ ReplayWindow \in Nat /\ quiet \in Nat
        /\ k \in Nat
    BY <1>1, CoverFinite, PrivateChannelAssumption, SessionAssumption DEF Paced
  <2>4. k * CoverInterval + quiet <= built[s]
    BY <1>1 DEF Paced
  <2>5. r \in Nat /\ since = r + k
    BY <1>1, NumbersSince
  <2>6. r * CoverInterval + built[s] < ReplayWindow * CoverInterval
    OBVIOUS
  <2>7. receiver.peerMax < sender.localSeq
    BY <1>1 DEF Exchange
  <2> HIDE DEF r, k, real
  <2>8. r + k < ReplayWindow
    <3> SUFFICES ASSUME ReplayWindow <= r + k PROVE FALSE
      BY <2>3, <2>5
    <3>1. ReplayWindow * CoverInterval <= (r + k) * CoverInterval
      BY <2>3, <2>5, ProductFacts
    <3>2. /\ (r + k) * CoverInterval = r * CoverInterval + k * CoverInterval
          /\ r * CoverInterval \in Nat /\ k * CoverInterval \in Nat
          /\ ReplayWindow * CoverInterval \in Nat
      BY <2>3, <2>5, ProductFacts
    <3> QED BY <2>1, <2>3, <2>4, <2>6, <3>1, <3>2
  <2>9. ~(s <= receiver.peerMax - ReplayWindow)
    BY <2>1, <2>3, <2>5, <2>7, <2>8
  <2> QED BY <2>2, <2>9 DEF SequenceFresh
<1>2. QueueInv /\ Exchange /\ Paced => RetransmissionFresh
  BY <1>1
<1> QED BY <1>2, QueueInvariant, ExchangeHolds, PacedHolds, PTL
=============================================================================
