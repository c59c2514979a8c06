--------------------------- MODULE PrivateChannel ---------------------------
(***************************************************************************)
(* A reliable channel on a session that CoverTraffic of ztlnp/privacy.py   *)
(* shares, and the padding of its payloads.  A cover packet is a DATA      *)
(* packet like any other: it takes a number of the session, the receiver   *)
(* records and acknowledges it, and no queue knows of it.  The delay of    *)
(* jitter_sleep() is one of those the network may add.                     *)
(***************************************************************************)
EXTENDS ReliableChannel, Padding

CONSTANTS CoverInterval,  \* interval_ms
          MaxReal,        \* bound on the packets of the channel
          Lengths         \* lengths of plaintexts

ASSUME PrivateChannelAssumption ==
    CoverInterval \in Nat \ {0} /\ MaxReal \in Nat /\ Lengths \subseteq Nat

VARIABLES quiet,          \* time since _last_send_ms, up to the interval
          cover,          \* history: numbers of the cover packets
          mangled         \* history: numbers of packets whose plaintext is not
                          \* what comes out of strip_padding()

allvars == <<sender, receiver, pending, built, net, copies, delivered, acked,
             reported, quiet, cover, mangled>>

(* Slip: a cover packet at every call.                                     *)
CoverDueAlways == TRUE

(* The interval of maybe_send() has elapsed.                               *)
CoverDue == quiet >= CoverInterval

(* maybe_send(), and the transmission of what it returns.  Its size and    *)
(* authentication (cover_payload_size, use_mac) are settings of their own, *)
(* on which nothing here depends.                                          *)
MaybeSend ==
    LET s == sender.localSeq IN
    /\ CoverDue
    /\ s <= MaxSends
    /\ sender' = NextSequence(sender)
    /\ net' = net \cup {DataPacket(s)}
    /\ quiet' = 0
    /\ cover' = cover \cup {s}
    /\ UNCHANGED <<receiver, pending, built, copies, delivered, acked, reported, mangled>>

(* The application calls record_real_send() when it has sent a packet.     *)
RecordRealSend == quiet' = 0

(* pad_to_size() and send() of a plaintext.                                *)
SendReal(len, r) ==
    /\ sender.localSeq - Cardinality(cover) <= MaxReal
    /\ Send
    /\ RecordRealSend
    /\ mangled' = IF (r.padded /\ StripRaises(r)) \/ Received(r) # len
                  THEN mangled \cup {sender.localSeq} ELSE mangled
    /\ UNCHANGED cover

Retransmit ==
    /\ GetRetransmissions
    /\ \/ copies' # copies /\ RecordRealSend
       \/ copies' = copies /\ UNCHANGED quiet
    /\ UNCHANGED <<cover, mangled>>

TimePasses ==
    /\ Tick
    /\ quiet' = Lower(quiet + 1, CoverInterval)
    /\ UNCHANGED <<cover, mangled>>

PrivateInit == Init /\ quiet = 0 /\ cover = {} /\ mangled = {}

PrivateNext ==
    \/ Retransmit \/ TimePasses \/ MaybeSend
    \/ \E strategy \in Strategies, len \in Lengths :
          \E r \in PadToSize(strategy, len) : SendReal(len, r)
    \/ /\ \E m \in net : Receive(m) \/ ProcessAck(m)
       /\ UNCHANGED <<quiet, cover, mangled>>

PrivateSpec ==
    /\ PrivateInit /\ [][PrivateNext]_allvars
    /\ WF_allvars(Retransmit) /\ WF_allvars(TimePasses)

-----------------------------------------------------------------------------
(* The packets of the channel sent after s.                                *)
RealSince(s) == {t \in s + 1 .. sender.localSeq - 1 : t \notin cover}

(* Cover traffic takes no more of the replay window than its interval      *)
(* allows: a retransmission of a packet the receiver has not had finds it  *)
(* fresh as long as the packets sent after it, and one for each interval   *)
(* it has waited, are fewer than the window holds.                         *)
RetransmissionFresh ==
    \A s \in DOMAIN pending \ delivered :
        Cardinality(RealSince(s)) * CoverInterval + built[s] < ReplayWindow * CoverInterval
        => SequenceFresh(receiver, s)

(* What was padded is stripped to what it was, whatever the strategy and   *)
(* up to the edges of each, where pad_to_size() leaves it alone.           *)
PaddingRoundTrip == mangled = {}
=============================================================================
