------------------------- MODULE ReplayWindowProofs ------------------------
(***************************************************************************)
(* Proofs about ReplayWindow, for every window size, skew, width of the    *)
(* sequence field and length of run.  The inductive invariant is           *)
(* Inv: types, at most one acceptance per number, the exact contents of    *)
(* the window, and the bounds that tie the receiver to the sender.         *)
(***************************************************************************)
EXTENDS ReplayWindow, FiniteSetTheorems, TLAPS

(* The parts of the invariant that NoDoubleAccept and WindowExact need:    *)
(* nothing above the maximum has been accepted.                            *)
BelowMax == \A s \in Seqs : accepts[s] > 0 => s <= receiver.peerMax

(* What NoFalseReject needs: numbers on the wire were taken from the       *)
(* sender's counter, and the receiver's maximum came from the wire.        *)
FromSender ==
    /\ \A m \in net : m.seq < sender.localSeq
    /\ receiver.peerMax > 0 => receiver.peerMax < sender.localSeq

Inv == TypeOK /\ NoDoubleAccept /\ WindowExact /\ BelowMax /\ FromSender

USE SessionAssumption, ReplayWindowAssumption

(* A session record after RecordSequence, field by field: the maximum is   *)
(* the larger number, and the window gains the number and loses what falls *)
(* out below (session.py:114-120).                                         *)
LEMMA RecordSequenceFields ==
    ASSUME NEW sess \in [key : {Key}, localSeq : {0}, peerMax : Seqs, window : SUBSET Seqs],
           NEW seq \in Seqs
    PROVE  LET r == RecordSequence(sess, seq)
           IN  /\ r \in [key : {Key}, localSeq : {0}, peerMax : Seqs, window : SUBSET Seqs]
               /\ seq > sess.peerMax =>
                    /\ r.peerMax = seq
                    /\ r.window = {s \in sess.window \cup {seq} : s > seq - ReplayWindow}
               /\ ~(seq > sess.peerMax) =>
                    /\ r.peerMax = sess.peerMax
                    /\ r.window = sess.window \cup {seq}
  BY DEF RecordSequence, Seqs

(* Types are preserved by every step.                                      *)
LEMMA TypeStep == TypeOK /\ [Next]_vars => TypeOK'
<1> SUFFICES ASSUME TypeOK, [Next]_vars PROVE TypeOK'
  OBVIOUS
<1>1. CASE Send
  <2>1. sender.localSeq \in 0 .. MaxSends - 1 /\ sender.localSeq \in Seqs
    BY <1>1 DEF Send, TypeOK, Seqs
  <2>2. net' \subseteq [seq : Seqs, ts : 0 .. MaxTime]
    BY <1>1, <2>1 DEF Send, TypeOK
  <2>3. sender' \in [key : {Key}, localSeq : 0 .. MaxSends, peerMax : {0}, window : {{}}]
    BY <1>1, <2>1 DEF Send, TypeOK, NextSequence
  <2> QED BY <1>1, <2>2, <2>3 DEF Send, TypeOK
<1>2. CASE SendOverflows
  <2>1. sender' \in [key : {Key}, localSeq : 0 .. MaxSends, peerMax : {0}, window : {{}}]
    BY <1>2 DEF SendOverflows, TypeOK, NextSequence
  <2> QED BY <1>2, <2>1 DEF SendOverflows, TypeOK
<1>3. CASE Tick
  BY <1>3 DEF Tick, TypeOK
<1>4. ASSUME NEW m \in net, Accept(m) PROVE TypeOK'
  <2>1. m.seq \in Seqs
    BY DEF TypeOK
  <2>2. receiver' \in [key : {Key}, localSeq : {0}, peerMax : Seqs, window : SUBSET Seqs]
    BY <1>4, <2>1, RecordSequenceFields DEF Accept, TypeOK
  <2>3. accepts' \in [Seqs -> Nat]
    BY <1>4, <2>1 DEF Accept, TypeOK
  <2> QED BY <1>4, <2>2, <2>3 DEF Accept, TypeOK
<1>5. CASE UNCHANGED vars
  BY <1>5 DEF vars, TypeOK
<1> QED BY <1>1, <1>2, <1>3, <1>4, <1>5 DEF Next

(* The initial state satisfies the invariant.                              *)
LEMMA InitInv == Init => Inv
<1> SUFFICES ASSUME Init PROVE Inv
  OBVIOUS
<1>1. 0 \in Seqs
  BY DEF Seqs
<1>2. TypeOK
  BY <1>1 DEF Init, TypeOK, NewSession
<1>3. WindowExact /\ BelowMax
  BY DEF Init, WindowExact, BelowMax, NewSession
<1>4. NoDoubleAccept /\ FromSender
  BY DEF Init, NoDoubleAccept, FromSender, NewSession
<1> QED BY <1>2, <1>3, <1>4 DEF Inv

(* Accepting a packet preserves the invariant: a number that passes the    *)
(* two tests of check_replay() has not been accepted before, because a     *)
(* number once accepted is in the window or too far below the maximum.     *)
LEMMA AcceptStep ==
    ASSUME Inv, NEW m \in net, Accept(m)
    PROVE  NoDoubleAccept' /\ WindowExact' /\ BelowMax' /\ FromSender'
<1> USE DEF Inv
<1>1. /\ m.seq \in Seqs /\ m.seq \in Int /\ receiver.peerMax \in Seqs /\ receiver.peerMax \in Int
      /\ \A s \in Seqs : s \in Int
      /\ accepts \in [Seqs -> Nat]
  BY DEF TypeOK, Seqs
<1>2. m.seq \notin receiver.window /\ ~(m.seq <= receiver.peerMax - ReplayWindow)
  BY DEF Accept, PassesReplayCheck, SequenceFresh
<1>3. accepts[m.seq] = 0
  BY <1>1, <1>2 DEF WindowExact
<1>4. \A s \in Seqs : accepts'[s] = IF s = m.seq THEN 1 ELSE accepts[s]
  BY <1>1, <1>3 DEF Accept
<1>5. /\ m.seq > receiver.peerMax =>
            /\ receiver'.peerMax = m.seq
            /\ receiver'.window = {s \in receiver.window \cup {m.seq} : s > m.seq - ReplayWindow}
      /\ ~(m.seq > receiver.peerMax) =>
            /\ receiver'.peerMax = receiver.peerMax
            /\ receiver'.window = receiver.window \cup {m.seq}
  BY <1>1, RecordSequenceFields DEF Accept, TypeOK
<1>6. NoDoubleAccept'
  BY <1>4 DEF NoDoubleAccept
<1>7. BelowMax'
  BY <1>1, <1>4, <1>5 DEF BelowMax
<1>8. WindowExact'
  <2>1. receiver.window = {s \in Seqs : accepts[s] > 0 /\ s > receiver.peerMax - ReplayWindow}
    BY DEF WindowExact
  <2>2. CASE m.seq > receiver.peerMax
    BY <1>1, <1>2, <1>4, <1>5, <2>1, <2>2 DEF WindowExact
  <2>3. CASE ~(m.seq > receiver.peerMax)
    BY <1>1, <1>2, <1>4, <1>5, <2>1, <2>3 DEF WindowExact
  <2> QED BY <2>2, <2>3
<1>9. FromSender'
  BY <1>1, <1>5 DEF FromSender, Accept
<1> QED BY <1>6, <1>7, <1>8, <1>9

(* Every step preserves the invariant.                                     *)
LEMMA InvStep == Inv /\ [Next]_vars => Inv'
<1> SUFFICES ASSUME Inv, [Next]_vars PROVE Inv'
  OBVIOUS
<1>0. TypeOK'
  BY TypeStep DEF Inv
<1>1. CASE Send
  <2>1. UNCHANGED <<receiver, accepts>> /\ sender'.localSeq = sender.localSeq + 1
    BY <1>1 DEF Send, NextSequence, Inv, TypeOK
  <2>2. NoDoubleAccept' /\ WindowExact' /\ BelowMax'
    BY <2>1 DEF Inv, NoDoubleAccept, WindowExact, BelowMax
  <2>3. FromSender'
    BY <1>1, <2>1 DEF Send, Inv, TypeOK, FromSender, Seqs
  <2> QED BY <1>0, <2>2, <2>3 DEF Inv
<1>2. CASE SendOverflows
  <2>1. UNCHANGED <<receiver, accepts, net>> /\ sender'.localSeq = sender.localSeq + 1
    BY <1>2 DEF SendOverflows, NextSequence, Inv, TypeOK
  <2>2. NoDoubleAccept' /\ WindowExact' /\ BelowMax'
    BY <2>1 DEF Inv, NoDoubleAccept, WindowExact, BelowMax
  <2>3. FromSender'
    BY <2>1 DEF Inv, TypeOK, FromSender, Seqs
  <2> QED BY <1>0, <2>2, <2>3 DEF Inv
<1>3. CASE Tick
  BY <1>0, <1>3 DEF Tick, Inv, NoDoubleAccept, WindowExact, BelowMax, FromSender
<1>4. ASSUME NEW m \in net, Accept(m) PROVE Inv'
  BY <1>0, <1>4, AcceptStep DEF Inv
<1>5. CASE UNCHANGED vars
  BY <1>0, <1>5 DEF vars, Inv, NoDoubleAccept, WindowExact, BelowMax, FromSender
<1> QED BY <1>1, <1>2, <1>3, <1>4, <1>5 DEF Next

(* The invariant holds in every reachable state.                           *)
LEMMA Invariance == Spec => []Inv
  BY InitInv, InvStep, PTL DEF Spec

(* The variables keep their types, for every value of the constants.       *)
THEOREM TypeCorrect == Spec => []TypeOK
<1>1. Inv => TypeOK
  BY DEF Inv
<1> QED BY <1>1, Invariance, PTL

(* check_replay() never lets the same number through twice, whatever the   *)
(* network repeats or reorders and for any size of window.                 *)
THEOREM AtMostOneAcceptance == Spec => []NoDoubleAccept
<1>1. Inv => NoDoubleAccept
  BY DEF Inv
<1> QED BY <1>1, Invariance, PTL

(* The window of check_replay() holds exactly the accepted numbers that    *)
(* its lower edge does not refuse anyway.                                  *)
THEOREM WindowIsExact == Spec => []WindowExact
<1>1. Inv => WindowExact
  BY DEF Inv
<1> QED BY <1>1, Invariance, PTL

(* The window never holds more than ReplayWindow numbers: all of them lie  *)
(* in the interval of that length that ends at the maximum.                *)
THEOREM WindowIsBounded == Spec => []WindowBounded
<1>1. Inv => WindowBounded
  <2> SUFFICES ASSUME Inv PROVE WindowBounded
    OBVIOUS
  <2> DEFINE lo == receiver.peerMax - ReplayWindow + 1
             hi == receiver.peerMax
  <2>1. lo \in Int /\ hi \in Int /\ hi - lo + 1 = ReplayWindow /\ ~(lo > hi)
    BY DEF Inv, TypeOK, Seqs
  <2>2. receiver.window \subseteq lo .. hi
    BY DEF Inv, TypeOK, Seqs, WindowExact, BelowMax
  <2>3. IsFiniteSet(lo .. hi) /\ Cardinality(lo .. hi) = ReplayWindow
    BY <2>1, FS_Interval
  <2>4. Cardinality(receiver.window) <= Cardinality(lo .. hi)
    BY <2>2, <2>3, FS_Subset
  <2> QED BY <2>3, <2>4 DEF WindowBounded
<1> QED BY <1>1, Invariance, PTL

(* A timely packet overtaken by fewer than ReplayWindow later ones is let  *)
(* through: the receiver's maximum is below the sender's counter.          *)
THEOREM ReorderingTolerated == Spec => []NoFalseReject
<1>1. Inv => NoFalseReject
  <2> SUFFICES ASSUME Inv, NEW m \in net, accepts[m.seq] = 0, Timely(m.ts, now),
                      sender.localSeq - 1 < m.seq + ReplayWindow
               PROVE  PassesReplayCheck(receiver, m.seq, m.ts, now)
    BY DEF NoFalseReject
  <2>1. /\ m.seq \in Seqs /\ m.seq \in Nat
        /\ receiver.peerMax \in Nat /\ sender.localSeq \in Nat
    BY DEF Inv, TypeOK, Seqs
  <2>2. m.seq \notin receiver.window
    BY <2>1 DEF Inv, WindowExact
  <2>3. ~(m.seq <= receiver.peerMax - ReplayWindow)
    BY <2>1 DEF Inv, FromSender
  <2> QED BY <2>2, <2>3 DEF PassesReplayCheck, SequenceFresh
<1> QED BY <1>1, Invariance, PTL

(* The receiver implements the at-most-once datagram service: a step of    *)
(* the session is a Send or a Deliver of the service, or changes nothing   *)
(* the service shows.                                                      *)
THEOREM Refinement == Spec => ImplementsAtMostOnce
<1> DEFINE Sent == {m.seq : m \in net}
<1>1. Init => Service!Init
  BY DEF Init, Service!Init
<1>2. Inv /\ [Next]_vars => [Service!Next]_<<Sent, accepts>>
  <2> SUFFICES ASSUME Inv, [Next]_vars
               PROVE  Service!Next \/ UNCHANGED <<Sent, accepts>>
    OBVIOUS
  <2>1. CASE Send
    <3>1. sender.localSeq \in Seqs
      BY <2>1 DEF Send, Inv, TypeOK, Seqs
    <3>2. sender.localSeq \notin Sent
      BY <3>1 DEF Inv, FromSender, Seqs
    <3>3. Sent' = Sent \cup {sender.localSeq}
      <4> DEFINE p == [seq |-> sender.localSeq, ts |-> now]
      <4>1. net' = net \cup {p} /\ p.seq = sender.localSeq
        BY <2>1 DEF Send
      <4> HIDE DEF p
      <4> QED BY <4>1, Zenon
    <3>4. \E i \in Seqs : Service!Send(i)
      BY <2>1, <3>1, <3>2, <3>3 DEF Send, Service!Send
    <3> QED BY <3>4 DEF Service!Next
  <2>2. CASE SendOverflows
    BY <2>2 DEF SendOverflows
  <2>3. CASE Tick
    BY <2>3 DEF Tick
  <2>4. ASSUME NEW m \in net, Accept(m)
        PROVE  Service!Next
    <3>1. /\ m.seq \in Seqs /\ m.seq \in Int /\ receiver.peerMax \in Int
          /\ accepts \in [Seqs -> Nat]
      BY DEF Inv, TypeOK, Seqs
    <3>2. accepts[m.seq] = 0
      BY <2>4, <3>1 DEF Accept, PassesReplayCheck, SequenceFresh, Inv, WindowExact
    <3>3. Service!Deliver(m.seq)
      BY <2>4, <3>1, <3>2 DEF Accept, Service!Deliver
    <3> QED BY <3>1, <3>3 DEF Service!Next
  <2>5. CASE UNCHANGED vars
    BY <2>5 DEF vars
  <2> QED BY <2>1, <2>2, <2>3, <2>4, <2>5 DEF Next
<1> QED BY <1>1, <1>2, Invariance, PTL DEF Spec, Service!Spec, ImplementsAtMostOnce
=============================================================================
