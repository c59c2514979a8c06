---------------------------- MODULE LiveRotation ----------------------------
(***************************************************************************)
(* Device.rotate_key() of ztlnp/device.py between two devices that have an *)
(* established session.  A session is filed under the device id the peer   *)
(* had in the handshake; rotating changes the id and the signing key a     *)
(* device puts into its packets and leaves every session alone.            *)
(*                                                                         *)
(* A device id is <<device, n>>, n the rotations made.  Packets are        *)
(* authentic, arrive within the clock-skew window and may be repeated and  *)
(* reordered.  The transition blob goes to the peer's trust store (Trust), *)
(* which no session looks at.                                              *)
(***************************************************************************)
EXTENDS Session

CONSTANTS Devices,        \* the two ends of the session
          MaxRotations,   \* bound on the rotations of a device
          MaxSends        \* bound on the packets of a device in the session

VARIABLES deviceId,       \* device_id, and with it the identity key pair
          session,        \* _sessions: the session with the peer
          net             \* every packet sent

vars == <<deviceId, session, net>>

Other(d) == CHOOSE p \in Devices : p # d

(* The id a session is filed under: peer_device_id of the handshake.       *)
PeerId(d) == <<Other(d), 0>>

(* The handshake has used number 0 of both directions for KEY_EXCHANGE.    *)
Init ==
    /\ deviceId = [d \in Devices |-> <<d, 0>>]
    /\ session = [d \in Devices |-> NextSequence(RecordSequence(NewSession("k"), 0))]
    /\ net = {}

(* rotate_key(): only the identity is replaced.                            *)
RotateKey(d) ==
    /\ deviceId[d][2] < MaxRotations
    /\ deviceId' = [deviceId EXCEPT ![d] = <<d, @[2] + 1>>]
    /\ UNCHANGED <<session, net>>

(* build_data_packet() and build_data_packet_mac(): from is sender_id and, *)
(* unless mac, the key the packet is signed with.                          *)
SendData(d, mac) ==
    /\ session[d].localSeq <= MaxSends
    /\ net' = net \cup {[from |-> deviceId[d], to |-> Other(d), mac |-> mac,
                         seq |-> session[d].localSeq]}
    /\ session' = [session EXCEPT ![d] = NextSequence(@)]
    /\ UNCHANGED deviceId

(* receive_packet() finds a session for the sender, whose key the packet   *)
(* is signed with or whose MAC key made its tag.                           *)
Authenticates(m) == m.from = PeerId(m.to)

(* receive_packet() returns m; otherwise it changes nothing.               *)
Receive(m) ==
    /\ Authenticates(m)
    /\ SequenceFresh(session[m.to], m.seq)
    /\ session' = [session EXCEPT ![m.to] = RecordSequence(@, m.seq)]
    /\ UNCHANGED <<deviceId, net>>

Next ==
    \/ \E d \in Devices : RotateKey(d) \/ \E mac \in BOOLEAN : SendData(d, mac)
    \/ \E m \in net : Receive(m)

Spec == Init /\ [][Next]_vars

-----------------------------------------------------------------------------
(* "Existing sessions are not invalidated by a key rotation"               *)
(* (device.py:92): what is sent in the session, before a rotation or after *)
(* it, is taken by the other end as long as its number is fresh.           *)
SessionsSurvive ==
    \A m \in net : SequenceFresh(session[m.to], m.seq) => Authenticates(m)
=============================================================================
