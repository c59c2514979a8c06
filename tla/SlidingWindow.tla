--------------------------- MODULE SlidingWindow ---------------------------
(***************************************************************************)
(* SlidingWindowChannel of ztlnp/sliding_window.py at the two ends of an   *)
(* established session, with the sequence counters and replay windows of   *)
(* the session it runs on: DATA and SACK packets of one end draw their     *)
(* numbers from the same counter.                                          *)
(*                                                                         *)
(* The network repeats, reorders, delays and loses; packets arrive within  *)
(* the clock-skew window.  The times of retransmission are abstracted: any *)
(* set of unacknowledged packets may be due when the application polls.    *)
(***************************************************************************)
EXTENDS Session, FiniteSetsExt, SequencesExt

CONSTANTS Ends,           \* the two ends
          WindowSize,     \* window_size
          MaxRetries,     \* max_retries
          MaxData,        \* bound on the DATA packets of each end
          FirstInOrder    \* the network does not lose or reorder the very
                          \* first DATA packet of a direction

ASSUME SlidingWindowAssumption ==
    /\ \E e, f \in Ends : e # f /\ Ends = {e, f}
    /\ WindowSize \in Nat \ {0} /\ MaxRetries \in Nat /\ MaxData \in [Ends -> Nat]
    /\ FirstInOrder \in BOOLEAN

Other(e) == CHOOSE f \in Ends : f # e

VARIABLES session,        \* the Session of each end
          sendWindow,     \* _send_window: retries of each packet in flight
          sendBase,       \* _send_base
          recvNext,       \* _recv_next
          recvBuffer,     \* _recv_buffer: its keys
          net,            \* every packet sent
          sent,           \* history: numbers of the DATA packets, in order
          delivered,      \* history: numbers of the plaintexts handed up
          received,       \* history: numbers receive() got to see
          acked           \* history: numbers process_sack() removed

sending   == <<sendWindow, sendBase>>
receiving == <<recvNext, recvBuffer>>
vars == <<session, sendWindow, sendBase, recvNext, recvBuffer, net, sent,
          delivered, received, acked>>

Without(f, S) == [x \in DOMAIN f \ S |-> f[x]]
With(f, x, v) == [y \in DOMAIN f \cup {x} |-> IF y = x THEN v ELSE f[y]]

-----------------------------------------------------------------------------
(* Send side.                                                              *)

CanSend(e) == Cardinality(DOMAIN sendWindow[e]) < WindowSize

Send(e) ==
    LET seq == session[e].localSeq IN
    /\ Len(sent[e]) < MaxData[e]
    /\ CanSend(e)
    /\ net' = net \cup {[type |-> "DATA", from |-> e, seq |-> seq]}
    /\ session' = [session EXCEPT ![e] = NextSequence(@)]
    /\ sendWindow' = [sendWindow EXCEPT ![e] = With(@, seq, 0)]
    /\ sendBase' = [sendBase EXCEPT ![e] = IF sendWindow[e] = <<>> THEN seq ELSE @]
    /\ sent' = [sent EXCEPT ![e] = Append(@, seq)]
    /\ UNCHANGED <<receiving, delivered, received, acked>>

(* SackFrame.all_acked().                                                  *)
AllAcked(sack) == (0 .. sack.cumAck) \cup UNION {blk[1] .. blk[2] : blk \in sack.blocks}

(* receive_packet(), decrypt_packet(), SackFrame.decode(), process_sack(). *)
ProcessSack(e, m) ==
    LET gone == AllAcked(m) \cap DOMAIN sendWindow[e]
        rest == Without(sendWindow[e], gone)
    IN  /\ m.type = "SACK" /\ m.from # e
        /\ SequenceFresh(session[e], m.seq)
        /\ session' = [session EXCEPT ![e] = RecordSequence(@, m.seq)]
        /\ sendWindow' = [sendWindow EXCEPT ![e] = rest]
        /\ sendBase' = [sendBase EXCEPT ![e] = IF rest = <<>> THEN @ ELSE Min(DOMAIN rest)]
        /\ acked' = [acked EXCEPT ![e] = @ \cup gone]
        /\ UNCHANGED <<receiving, net, sent, delivered, received>>

(* Slip: packets out of attempts are reported and kept.                    *)
GetRetransmissionsKeeping(e, due) ==
    /\ due # {}
    /\ sendWindow' = [sendWindow EXCEPT ![e] =
           [s \in DOMAIN @ |-> IF s \in due /\ @[s] < MaxRetries THEN @[s] + 1 ELSE @[s]]]
    /\ UNCHANGED <<session, sendBase, receiving, net, sent, delivered, received, acked>>

(* Slip: one attempt too many.                                             *)
ExhaustedLate(e, s) == sendWindow[e][s] > MaxRetries

(* A packet has had all its attempts.                                      *)
Exhausted(e, s) == sendWindow[e][s] >= MaxRetries

(* get_retransmissions() when the packets in due are overdue: those with   *)
(* retries left count one and are collected, the others are dropped; if    *)
(* any was dropped the call raises and what it collected goes nowhere.     *)
GetRetransmissions(e, due) ==
    LET win     == sendWindow[e]
        lost    == {s \in due : Exhausted(e, s)}
        overdue == due \ lost
    IN  /\ due # {}
        /\ sendWindow' = [sendWindow EXCEPT ![e] =
               [s \in DOMAIN win \ lost |-> IF s \in overdue THEN win[s] + 1 ELSE win[s]]]
        /\ UNCHANGED <<session, sendBase, receiving, net, sent, delivered, received, acked>>

-----------------------------------------------------------------------------
(* Receive side.                                                           *)

(* The maximal runs of consecutive numbers in S, as <<left, right>>.       *)
Runs(S) == {blk \in S \X S : /\ blk[1] <= blk[2]
                             /\ blk[1] .. blk[2] \subseteq S
                             /\ blk[1] - 1 \notin S /\ blk[2] + 1 \notin S}

(* Slip: the cumulative ACK names the next number expected.                *)
BuildSackNext(next, buffer) == [cumAck |-> next + 1, blocks |-> Runs(buffer)]

(* _build_sack().                                                          *)
BuildSack(next, buffer) == [cumAck |-> Max({next, 0}), blocks |-> Runs(buffer)]

(* Slip: buffered packets left behind when the gap before them closes.     *)
DrainedToOne(next, buffer) == next

(* Slip: the whole buffer handed up, gaps and all.                         *)
DrainedToAll(next, buffer) == Max({next} \cup buffer)

(* The while loop of receive(): how far the buffer continues next.         *)
DrainedTo(next, buffer) ==
    Max({n \in {next} \cup buffer : next + 1 .. n \subseteq buffer})

(* receive() of a DATA packet the session lets through, and the            *)
(* build_sack_ack() of the frame it returns, as the class's usage shows.   *)
Receive(e, m) ==
    LET seq   == m.seq
        start == IF recvNext[e] = -1 THEN seq - 1 ELSE recvNext[e]
        next  == IF seq = start + 1 THEN DrainedTo(seq, recvBuffer[e]) ELSE start
        buf   == IF seq = start + 1 THEN recvBuffer[e] \ (seq .. next)
                 ELSE IF seq > start + 1 THEN recvBuffer[e] \cup {seq} ELSE recvBuffer[e]
        sack  == BuildSack(next, buf)
    IN  /\ m.type = "DATA" /\ m.from # e
        /\ SequenceFresh(session[e], seq)
        /\ FirstInOrder => recvNext[e] # -1 \/ seq = sent[m.from][1]
        /\ session' = [session EXCEPT ![e] = NextSequence(RecordSequence(@, seq))]
        /\ recvNext' = [recvNext EXCEPT ![e] = next]
        /\ recvBuffer' = [recvBuffer EXCEPT ![e] = buf]
        /\ net' = net \cup {[type |-> "SACK", from |-> e, seq |-> session[e].localSeq,
                             cumAck |-> sack.cumAck, blocks |-> sack.blocks]}
        /\ received' = [received EXCEPT ![e] = @ \cup {seq}]
        /\ delivered' = [delivered EXCEPT ![e] =
               IF seq = start + 1 THEN @ \o [i \in 1 .. next - start |-> start + i] ELSE @]
        /\ UNCHANGED <<sending, sent, acked>>

-----------------------------------------------------------------------------
(* The handshake has used number 0 of both directions for KEY_EXCHANGE.    *)
Init ==
    /\ session = [e \in Ends |-> NextSequence(RecordSequence(NewSession("k"), 0))]
    /\ sendWindow = [e \in Ends |-> <<>>]
    /\ sendBase = [e \in Ends |-> 0]
    /\ recvNext = [e \in Ends |-> -1]
    /\ recvBuffer = [e \in Ends |-> {}]
    /\ net = {}
    /\ sent = [e \in Ends |-> <<>>]
    /\ delivered = [e \in Ends |-> <<>>]
    /\ received = [e \in Ends |-> {}]
    /\ acked = [e \in Ends |-> {}]

Next ==
    \E e \in Ends :
        \/ Send(e)
        \/ \E m \in net : ProcessSack(e, m) \/ Receive(e, m)
        \/ \E due \in SUBSET DOMAIN sendWindow[e] : GetRetransmissions(e, due)

Spec == Init /\ [][Next]_vars

(* Some copy of every DATA packet its receiver would take gets through,    *)
(* and both applications keep polling.  Nothing is assumed of SACKs: each  *)
(* is sent once, and the network may lose them all.                        *)
Fairness ==
    \A e \in Ends : /\ WF_vars(\E m \in net : Receive(e, m))
                    /\ WF_vars(\E due \in SUBSET DOMAIN sendWindow[e] : GetRetransmissions(e, due))

FairSpec == Spec /\ Fairness

-----------------------------------------------------------------------------
(* Every DATA packet takes one number of its sender and, by its SACK, one  *)
(* of its receiver.                                                        *)
Numbers == LET e == CHOOSE f \in Ends : TRUE IN 0 .. MaxData[e] + MaxData[Other(e)]

TypeOK ==
    /\ \A e \in Ends :
          /\ session[e] \in [key : {"k"}, localSeq : {n + 1 : n \in Numbers},
                             peerMax : Numbers, window : SUBSET Numbers]
          /\ DOMAIN sendWindow[e] \subseteq Numbers
          /\ \A s \in DOMAIN sendWindow[e] : sendWindow[e][s] \in 0 .. MaxRetries
          /\ sent[e] \in Seq(Numbers) /\ delivered[e] \in Seq(Numbers)
    /\ sendBase \in [Ends -> Numbers]
    /\ recvNext \in [Ends -> Numbers \cup {-1}]
    /\ recvBuffer \in [Ends -> SUBSET Numbers]
    /\ received \in [Ends -> SUBSET Numbers]
    /\ acked \in [Ends -> SUBSET Numbers]

(* Each direction is an ordered stream: the application is handed the data *)
(* in the order it was sent, without a gap and without a repetition.       *)
Stream(e) == INSTANCE OrderedStream WITH
                 Items <- Numbers, input <- sent[Other(e)], output <- delivered[e]

ImplementsStream ==
    /\ \A e \in Ends : Stream(e)!Init
    /\ [][\A e \in Ends : Stream(e)!Next \/ UNCHANGED <<sent[Other(e)], delivered[e]>>]_vars

(* The sender forgets a packet as acknowledged only when the receiver has  *)
(* it: cum_ack is "the highest sequence number such that all packets with  *)
(* sequence numbers <= cum_ack have been received" (sliding_window.py:97). *)
AckedIsReceived == \A e \in Ends : acked[e] \subseteq received[Other(e)]

(* The receiver loses nothing: what receive() took has been handed up or   *)
(* waits in the buffer, and nothing in the buffer could be handed up.      *)
NothingWithheld ==
    \A e \in Ends : /\ received[e] = ToSet(delivered[e]) \cup recvBuffer[e]
                    /\ recvNext[e] + 1 \notin recvBuffer[e]

(* "Provides reliable, ordered, high-throughput DATA delivery between two  *)
(* established ZTLNP peers" (sliding_window.py:201): when the network      *)
(* delivers, everything sent is handed up.                                 *)
EverythingDelivered == \A e \in Ends : <>[](delivered[Other(e)] = sent[e])

(* Traffic in one direction, within the replay window.                     *)
OneDirection == \E e \in Ends : sent[e] = <<>> /\ Len(sent[Other(e)]) <= ReplayWindow

(* It is, as long as only one end sends and no hole can fall out of the    *)
(* receiver's replay window.                                               *)
OneDirectionDelivered ==
    []OneDirection => \A e \in Ends : <>[](delivered[Other(e)] = sent[e])

(* No packet occupies a place of the send window for ever, even when all   *)
(* its SACKs are lost: once the application has sent what it had to send,  *)
(* get_retransmissions() gives up what no SACK has acknowledged.           *)
WindowSettles == \A e \in Ends : <>[](sendWindow[e] = <<>>)
=============================================================================
