------------------------------ MODULE Session ------------------------------
(***************************************************************************)
(* The per-peer session object of ztlnp/session.py: the key both sides     *)
(* derived, the counter that numbers outgoing packets and the sliding      *)
(* window that recognises packets already accepted.  The operators here    *)
(* are the object's methods as functions on its value; the modules that    *)
(* hold sessions (ReplayWindow, Handshake, SlidingWindow) apply them.      *)
(***************************************************************************)
EXTENDS Integers

CONSTANTS ReplayWindow,   \* _REPLAY_WINDOW: how far below the maximum a
                          \* sequence number may still arrive (64 in the code)
          MaxClockSkew    \* MAX_CLOCK_SKEW_MS, in ticks of the model's clock

ASSUME SessionAssumption == /\ ReplayWindow \in Nat \ {0}
                            /\ MaxClockSkew \in Nat

(* Session(...): a fresh object has sent nothing and seen nothing.         *)
NewSession(key) == [key |-> key, localSeq |-> 0, peerMax |-> 0, window |-> {}]

(* next_sequence(): the number returned is sess.localSeq.                  *)
NextSequence(sess) == [sess EXCEPT !.localSeq = @ + 1]

(* The first test of check_replay(): the packet's clock and ours agree.    *)
Timely(ts, now) == now - ts <= MaxClockSkew /\ ts - now <= MaxClockSkew

(* Slips, for the mutants: the lower edge of the window one off.           *)
SequenceFreshOffByOne(sess, seq) ==
    /\ seq \notin sess.window
    /\ ~(seq <= sess.peerMax - ReplayWindow + 1)

SequenceFreshLoose(sess, seq) ==
    /\ seq \notin sess.window
    /\ ~(seq < sess.peerMax - ReplayWindow)

(* The other two tests: not a duplicate, not too far below the maximum.    *)
SequenceFresh(sess, seq) ==
    /\ seq \notin sess.window
    /\ ~(seq <= sess.peerMax - ReplayWindow)

(* Slips, for the mutants: the window not pruned, or pruned too far.       *)
RecordSequenceUnpruned(sess, seq) ==
    LET seen == sess.window \cup {seq}
    IN  IF seq > sess.peerMax
        THEN [sess EXCEPT !.peerMax = seq, !.window = seen]
        ELSE [sess EXCEPT !.window = seen]

RecordSequenceOverpruned(sess, seq) ==
    LET seen == sess.window \cup {seq}
    IN  IF seq > sess.peerMax
        THEN [sess EXCEPT !.peerMax = seq,
                          !.window = {s \in seen : s > seq - ReplayWindow + 1}]
        ELSE [sess EXCEPT !.window = seen]

(* What check_replay() does to a packet that passes: the number enters the *)
(* window, and when it is a new maximum the window slides up to it.        *)
RecordSequence(sess, seq) ==
    LET seen == sess.window \cup {seq}
    IN  IF seq > sess.peerMax
        THEN [sess EXCEPT !.peerMax = seq,
                          !.window = {s \in seen : s > seq - ReplayWindow}]
        ELSE [sess EXCEPT !.window = seen]

(* check_replay() returns without raising ReplayAttackError.               *)
PassesReplayCheck(sess, seq, ts, now) == Timely(ts, now) /\ SequenceFresh(sess, seq)
=============================================================================
