---------------------------- MODULE ReplayWindow ---------------------------
(***************************************************************************)
(* One direction of an established session (ztlnp/session.py): a sender    *)
(* that numbers its packets with next_sequence() and stamps them with the  *)
(* clock, a network that loses, delays, duplicates and reorders, and a     *)
(* receiver that accepts what check_replay() lets through.                 *)
(*                                                                         *)
(* The sequence field of the header is 32 bits wide ("!I", packet.py): a   *)
(* packet numbered SeqLimit or higher cannot be serialised.  The number    *)
(* has been taken from the counter by then.                                *)
(***************************************************************************)
EXTENDS Session, FiniteSets

CONSTANTS SeqLimit,       \* 2^32: numbers the header can carry are below it
          MaxSends,       \* bound on the packets the sender builds
          MaxTime         \* bound on the clock

ASSUME ReplayWindowAssumption == /\ SeqLimit \in Nat \ {0}
                                 /\ MaxSends \in Nat
                                 /\ MaxTime \in Nat

Seqs == 0 .. SeqLimit - 1

VARIABLES now,            \* the clock, in ticks
          sender,         \* the sender's Session object
          receiver,       \* the receiver's Session object
          net,            \* packets sent; the network may deliver any of
                          \* them any number of times, or never
          accepts         \* history: how often each number was accepted

vars == <<now, sender, receiver, net, accepts>>

Key == "k"

TypeOK ==
    /\ now \in 0 .. MaxTime
    /\ sender \in [key : {Key}, localSeq : 0 .. MaxSends, peerMax : {0}, window : {{}}]
    /\ receiver \in [key : {Key}, localSeq : {0}, peerMax : Seqs, window : SUBSET Seqs]
    /\ net \subseteq [seq : Seqs, ts : 0 .. MaxTime]
    /\ accepts \in [Seqs -> Nat]

Init ==
    /\ now = 0
    /\ sender = NewSession(Key)
    /\ receiver = NewSession(Key)
    /\ net = {}
    /\ accepts = [s \in Seqs |-> 0]

(* Slip: the width of the header field forgotten.                          *)
SendAnyWidth ==
    /\ sender.localSeq < MaxSends
    /\ net' = net \cup {[seq |-> sender.localSeq, ts |-> now]}
    /\ sender' = NextSequence(sender)
    /\ UNCHANGED <<now, receiver, accepts>>

(* A builder of device.py takes a number and to_bytes() packs it.          *)
Send ==
    /\ sender.localSeq < MaxSends
    /\ sender.localSeq < SeqLimit
    /\ net' = net \cup {[seq |-> sender.localSeq, ts |-> now]}
    /\ sender' = NextSequence(sender)
    /\ UNCHANGED <<now, receiver, accepts>>

(* The same when the number does not fit: struct.error, nothing is sent.   *)
SendOverflows ==
    /\ sender.localSeq < MaxSends
    /\ sender.localSeq >= SeqLimit
    /\ sender' = NextSequence(sender)
    /\ UNCHANGED <<now, receiver, net, accepts>>

(* receive_packet() on an authentic packet: check_replay() passes it.      *)
Accept(m) ==
    /\ PassesReplayCheck(receiver, m.seq, m.ts, now)
    /\ receiver' = RecordSequence(receiver, m.seq)
    /\ accepts' = [accepts EXCEPT ![m.seq] = @ + 1]
    /\ UNCHANGED <<now, sender, net>>

(* A packet check_replay() refuses changes nothing, so it is no action.    *)
Tick ==
    /\ now < MaxTime
    /\ now' = now + 1
    /\ UNCHANGED <<sender, receiver, net, accepts>>

Next == Send \/ SendOverflows \/ Tick \/ \E m \in net : Accept(m)

Spec == Init /\ [][Next]_vars

-----------------------------------------------------------------------------
(* No packet is accepted twice, however the network repeats and reorders:  *)
(* check_replay() prunes the numbers it forgets no lower than the numbers  *)
(* its "too far below the current maximum" test refuses.                   *)
NoDoubleAccept == \A s \in Seqs : accepts[s] <= 1

(* check_replay() remembers exactly the accepted numbers it would still    *)
(* let through: nothing forgotten, nothing invented, nothing kept too long.*)
WindowExact ==
    receiver.window = {s \in Seqs : accepts[s] > 0 /\ s > receiver.peerMax - ReplayWindow}

(* The "64-entry replay window" of SPEC.md:226 never outgrows its size,    *)
(* whatever the order of arrival.                                          *)
WindowBounded == Cardinality(receiver.window) <= ReplayWindow

(* Reordering is tolerated up to the window: a timely packet not accepted  *)
(* yet is never refused while fewer than ReplayWindow packets have been    *)
(* sent after it (the comment at session.py:105).                          *)
NoFalseReject ==
    \A m \in net :
        /\ accepts[m.seq] = 0
        /\ Timely(m.ts, now)
        /\ sender.localSeq - 1 < m.seq + ReplayWindow
        => PassesReplayCheck(receiver, m.seq, m.ts, now)

(* The receiver's window implements the abstract at-most-once service.     *)
Service == INSTANCE AtMostOnce WITH
               Ids <- Seqs, sent <- {m.seq : m \in net}, delivered <- accepts

ImplementsAtMostOnce == Service!Spec
=============================================================================
