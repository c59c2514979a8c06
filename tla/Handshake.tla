----------------------------- MODULE Handshake -----------------------------
(***************************************************************************)
(* The handshake and session life cycle: ztlnp/protocol.py (the Protocol   *)
(* state machine) on top of ztlnp/device.py (ephemeral keys, sessions,     *)
(* pending peers, packet builders, receive_packet).                        *)
(*                                                                         *)
(* Every device runs one Protocol instance at a time; Restart replaces it  *)
(* ("create a new Protocol instance to restart", protocol.py:129) while    *)
(* the Device keeps its sessions and keys.  The network may lose, delay,   *)
(* repeat and reorder packets; all packets are authentic, so a signature   *)
(* check fails only where the code checks the wrong kind of signature.     *)
(*                                                                         *)
(* Cryptography is symbolic: an ephemeral key is <<device, n>>, a shared   *)
(* secret the set of the two ephemerals, and a session key (and the MAC    *)
(* key derived with it) the secret with the two identities in HKDF order.  *)
(***************************************************************************)
EXTENDS Session

CONSTANTS Devices,
          Calls,          \* pairs <<d, p>>: d's application may initiate(p)
          Restarters,     \* devices whose application restarts the protocol
          Senders,        \* devices whose application sends in a session
          Nil,            \* None
          MaxRestarts,    \* bound on the Protocol instances of a device
          MaxSends,       \* bound on the packets sent in one session
          MaxTime         \* bound on the clock

VARIABLES now,            \* the clock all devices share
          state,          \* Protocol.state
          peer,           \* Protocol._peer_id
          peerX,          \* Protocol._peer_x25519_pub
          restarts,       \* Protocol instances created beyond the first
          eph,            \* Device._ephemeral_private / _public, by peer
          ephCount,       \* ephemeral key pairs the device has generated
          pending,        \* Device._pending_peer_keys: its domain
          sessions,       \* Device._sessions, by peer; Nil where absent
          net,            \* every packet sent
          installed,      \* history: session keys complete_key_exchange() made
          delivered,      \* history: DATA packets receive_data() returned
          redelivered     \* history: those it returned more than once

protocol == <<state, peer, peerX>>
keys     == <<eph, ephCount, pending>>
history  == <<installed, delivered, redelivered>>
vars     == <<now, state, peer, peerX, restarts, eph, ephCount, pending,
              sessions, net, installed, delivered, redelivered>>

States == {"IDLE", "HELLO_SENT", "HELLO_RECEIVED", "KEY_EXCHANGE_SENT",
           "ESTABLISHED", "CLOSED"}

-----------------------------------------------------------------------------
(* Packets.                                                                *)

Ephemerals == Devices \X Nat
Keys == [secret : SUBSET Ephemerals, initiator : Devices, responder : Devices]
Sessions == [key : Keys, localSeq : Nat, peerMax : Nat, window : SUBSET Nat]

ASSUME HandshakeAssumption ==
    /\ Calls \subseteq {c \in Devices \X Devices : c[1] # c[2]}
    /\ Restarters \subseteq Devices /\ Senders \subseteq Devices
    /\ MaxRestarts \in Nat /\ MaxSends \in Nat /\ MaxTime \in Nat
    /\ Nil \notin Devices /\ Nil \notin Ephemerals
    /\ Nil \notin Keys /\ Nil \notin Sessions

Packets ==
    [type : {"HELLO", "KEY_EXCHANGE", "DATA", "ACK", "BYE"}, from : Devices,
     to : Devices, ts : 0 .. MaxTime, seq : Nat, x : Ephemerals \cup {Nil},
     key : Keys \cup {Nil}, mac : BOOLEAN]

(* build_hello_packet(): the sender's ephemeral key, in clear.             *)
HelloPacket(d, p, x) ==
    [type |-> "HELLO", from |-> d, to |-> p, ts |-> now, seq |-> 0, x |-> x,
     key |-> Nil, mac |-> FALSE]

(* The other builders: encrypted under the session's key and numbered by   *)
(* its counter; mac is the MAC_AUTH flag.                                  *)
SessionPacket(type, d, p, sess, mac) ==
    [type |-> type, from |-> d, to |-> p, ts |-> now, seq |-> sess.localSeq,
     x |-> Nil, key |-> sess.key, mac |-> mac]

-----------------------------------------------------------------------------
(* Device.                                                                 *)

HasSession(d, p) == sessions[d][p] # Nil

(* generate_ephemeral_keypair(): the one in progress, or a new one.        *)
EphemeralFor(d, p) == IF eph[d][p] = Nil THEN <<d, ephCount[d]>> ELSE eph[d][p]

GenerateEphemeral(d, p) ==
    /\ eph' = [eph EXCEPT ![d][p] = EphemeralFor(d, p)]
    /\ ephCount' = [ephCount EXCEPT ![d] = IF eph[d][p] = Nil THEN @ + 1 ELSE @]

(* Slip: the identities in HKDF order of this device, not of the roles.    *)
DerivedKeyOwnOrder(d, p, x, iAmInitiator) ==
    [secret |-> {eph[d][p], x}, initiator |-> d, responder |-> p]

(* The key complete_key_exchange() derives.                                *)
DerivedKey(d, p, x, iAmInitiator) ==
    [secret    |-> {eph[d][p], x},
     initiator |-> IF iAmInitiator THEN d ELSE p,
     responder |-> IF iAmInitiator THEN p ELSE d]

(* Slip: the ephemeral key pair kept for the next handshake.               *)
ForgetEphemeralNot(d, p) ==
    /\ pending' = [pending EXCEPT ![d] = @ \ {p}]
    /\ UNCHANGED <<eph, ephCount>>

(* The clean-up that ends complete_key_exchange().                         *)
ForgetEphemeral(d, p) ==
    /\ eph' = [eph EXCEPT ![d][p] = Nil]
    /\ pending' = [pending EXCEPT ![d] = @ \ {p}]
    /\ UNCHANGED ephCount

(* receive_packet() returns m: a session authenticates and replay-checks,  *)
(* a pending peer's key authenticates only (an Ed25519 check, which a      *)
(* MAC_AUTH packet fails).                                                 *)
Receivable(d, m) ==
    IF m.type = "HELLO" THEN TRUE
    ELSE IF HasSession(d, m.from)
         THEN /\ m.mac => m.key = sessions[d][m.from].key
              /\ PassesReplayCheck(sessions[d][m.from], m.seq, m.ts, now)
         ELSE m.from \in pending[d] /\ ~m.mac

(* The sessions of d after receive_packet() returned m, HELLO excepted.    *)
AfterReceive(d, m) ==
    IF HasSession(d, m.from)
    THEN [sessions[d] EXCEPT ![m.from] = RecordSequence(@, m.seq)]
    ELSE sessions[d]

(* Slip: the confirmation taken for granted once the sender has a session. *)
DecryptsAnything(ss, m) == ss[m.from] # Nil

(* decrypt_packet() succeeds under the sessions ss.                        *)
Decrypts(ss, m) == ss[m.from] # Nil /\ ss[m.from].key = m.key

-----------------------------------------------------------------------------
(* Protocol: calls of the application.                                     *)

Initiate(d, p) ==
    /\ <<d, p>> \in Calls
    /\ state[d] = "IDLE"
    /\ peer' = [peer EXCEPT ![d] = p]
    /\ GenerateEphemeral(d, p)
    /\ net' = net \cup {HelloPacket(d, p, EphemeralFor(d, p))}
    /\ state' = [state EXCEPT ![d] = "HELLO_SENT"]
    /\ UNCHANGED <<now, peerX, restarts, pending, sessions, history>>

(* Protocol(device): a new instance for the same device.                   *)
Restart(d) ==
    /\ d \in Restarters
    /\ restarts[d] < MaxRestarts
    /\ restarts' = [restarts EXCEPT ![d] = @ + 1]
    /\ state' = [state EXCEPT ![d] = "IDLE"]
    /\ peer' = [peer EXCEPT ![d] = Nil]
    /\ peerX' = [peerX EXCEPT ![d] = Nil]
    /\ UNCHANGED <<now, keys, sessions, net, history>>

(* send_data() is build_data_packet() behind _require_established();       *)
(* build_data_packet_mac(), build_ack_packet() and build_bye_packet() are  *)
(* called on the device for the peer of an established protocol.  None of  *)
(* them changes the protocol's state.                                      *)
SendInSession(d, type, mac) ==
    LET p == peer[d] IN
    /\ d \in Senders
    /\ state[d] = "ESTABLISHED"
    /\ HasSession(d, p)
    /\ sessions[d][p].localSeq < MaxSends
    /\ net' = net \cup {SessionPacket(type, d, p, sessions[d][p], mac)}
    /\ sessions' = [sessions EXCEPT ![d][p] = NextSequence(@)]
    /\ UNCHANGED <<now, protocol, restarts, keys, history>>

SendData(d)    == SendInSession(d, "DATA", FALSE)
SendDataMac(d) == SendInSession(d, "DATA", TRUE)
SendAck(d)     == SendInSession(d, "ACK", FALSE)
SendBye(d)     == SendInSession(d, "BYE", FALSE)

-----------------------------------------------------------------------------
(* Protocol.process_incoming(): one action per branch of the handlers.  A  *)
(* packet receive_packet() refuses changes nothing.  That a packet gets to *)
(* the device it is addressed to is a property of the transports: nothing  *)
(* in device.py or protocol.py compares recipient_id.                      *)

Incoming(d, m, type) ==
    /\ m.to = d /\ m.type = type
    /\ state[d] # "CLOSED"
    /\ Receivable(d, m)

(* Slip: the two parts of the HELLO taken one for the other.               *)
TakePeerSwapped(d, m) ==
    /\ peer' = [peer EXCEPT ![d] = m.x]
    /\ peerX' = [peerX EXCEPT ![d] = m.from]

(* _handle_hello() begins by taking the sender for its peer, whatever the  *)
(* state.                                                                  *)
TakePeer(d, m) ==
    /\ peer' = [peer EXCEPT ![d] = m.from]
    /\ peerX' = [peerX EXCEPT ![d] = m.x]

(* IDLE: become responder and answer with our HELLO.                       *)
HelloInIdle(d, m) ==
    /\ Incoming(d, m, "HELLO")
    /\ state[d] = "IDLE"
    /\ TakePeer(d, m)
    /\ GenerateEphemeral(d, m.from)
    /\ pending' = [pending EXCEPT ![d] = @ \cup {m.from}]
    /\ net' = net \cup {HelloPacket(d, m.from, EphemeralFor(d, m.from))}
    /\ state' = [state EXCEPT ![d] = "HELLO_RECEIVED"]
    /\ UNCHANGED <<now, restarts, sessions, history>>

(* HELLO_SENT: derive the key as initiator and send KEY_EXCHANGE.          *)
HelloInHelloSent(d, m) ==
    LET key  == DerivedKey(d, m.from, m.x, TRUE)
        sess == NewSession(key)
    IN  /\ Incoming(d, m, "HELLO")
        /\ state[d] = "HELLO_SENT"
        /\ eph[d][m.from] # Nil
        /\ TakePeer(d, m)
        /\ ForgetEphemeral(d, m.from)
        /\ installed' = [installed EXCEPT ![d] = @ \cup {key}]
        /\ sessions' = [sessions EXCEPT ![d][m.from] = NextSequence(sess)]
        /\ net' = net \cup {SessionPacket("KEY_EXCHANGE", d, m.from, sess, FALSE)}
        /\ state' = [state EXCEPT ![d] = "KEY_EXCHANGE_SENT"]
        /\ UNCHANGED <<now, restarts, delivered, redelivered>>

(* The error paths: a HELLO from a device we are not handshaking with      *)
(* (ValueError), or in a later state (HandshakeError), is refused after    *)
(* the peer has been replaced.                                             *)
HelloRefused(d, m) ==
    /\ Incoming(d, m, "HELLO")
    /\ \/ state[d] = "HELLO_SENT" /\ eph[d][m.from] = Nil
       \/ state[d] \in {"HELLO_RECEIVED", "KEY_EXCHANGE_SENT", "ESTABLISHED"}
    /\ TakePeer(d, m)
    /\ UNCHANGED <<now, state, restarts, keys, sessions, net, history>>

(* _handle_key_exchange() as responder.  The session is replaced and the   *)
(* ephemeral key dropped before the packet is replay-checked and decrypted *)
(* under the new key; a failure of either leaves that behind and the state *)
(* as it was.                                                              *)
KeyExchangeInHelloReceived(d, m) ==
    LET p    == peer[d]
        key  == DerivedKey(d, p, peerX[d], FALSE)
        ss   == [AfterReceive(d, m) EXCEPT ![p] = NewSession(key)]
        seen == [ss EXCEPT ![p] = RecordSequence(@, m.seq)]
    IN  /\ Incoming(d, m, "KEY_EXCHANGE")
        /\ state[d] = "HELLO_RECEIVED"
        /\ eph[d][p] # Nil
        /\ ForgetEphemeral(d, p)
        /\ installed' = [installed EXCEPT ![d] = @ \cup {key}]
        /\ \/ /\ ~PassesReplayCheck(ss[p], m.seq, m.ts, now)
              /\ sessions' = [sessions EXCEPT ![d] = ss]
              /\ UNCHANGED <<state, net>>
           \/ /\ PassesReplayCheck(ss[p], m.seq, m.ts, now)
              /\ ~Decrypts(seen, m)
              /\ sessions' = [sessions EXCEPT ![d] = seen]
              /\ UNCHANGED <<state, net>>
           \/ /\ PassesReplayCheck(ss[p], m.seq, m.ts, now)
              /\ Decrypts(seen, m)
              /\ state' = [state EXCEPT ![d] = "ESTABLISHED"]
              /\ net' = net \cup {SessionPacket("KEY_EXCHANGE", d, p, seen[p], FALSE)}
              /\ sessions' = [sessions EXCEPT ![d] = [seen EXCEPT ![p] = NextSequence(@)]]
        /\ UNCHANGED <<now, peer, peerX, restarts, delivered, redelivered>>

(* As initiator: the confirmation decrypts.                                *)
KeyExchangeInKeyExchangeSent(d, m) ==
    /\ Incoming(d, m, "KEY_EXCHANGE")
    /\ state[d] = "KEY_EXCHANGE_SENT"
    /\ HasSession(d, peer[d])
    /\ Decrypts(AfterReceive(d, m), m)
    /\ sessions' = [sessions EXCEPT ![d] = AfterReceive(d, m)]
    /\ state' = [state EXCEPT ![d] = "ESTABLISHED"]
    /\ UNCHANGED <<now, peer, peerX, restarts, keys, net, history>>

(* The error paths that come after receive_packet() has recorded the       *)
(* packet and change nothing more.                                         *)
KeyExchangeRefused(d, m) ==
    /\ Incoming(d, m, "KEY_EXCHANGE")
    /\ \/ state[d] = "HELLO_RECEIVED" /\ eph[d][peer[d]] = Nil
       \/ /\ state[d] = "KEY_EXCHANGE_SENT"
          /\ ~(HasSession(d, peer[d]) /\ Decrypts(AfterReceive(d, m), m))
       \/ state[d] \in {"IDLE", "HELLO_SENT", "ESTABLISHED"}
    /\ sessions' = [sessions EXCEPT ![d] = AfterReceive(d, m)]
    /\ UNCHANGED <<now, protocol, restarts, keys, net, history>>

(* _handle_data() and _handle_ack(): the packet is verified and recorded,  *)
(* whether the handler then returns or raises.                             *)
DataOrAck(d, m) ==
    /\ Incoming(d, m, "DATA") \/ Incoming(d, m, "ACK")
    /\ sessions' = [sessions EXCEPT ![d] = AfterReceive(d, m)]
    /\ UNCHANGED <<now, protocol, restarts, keys, net, history>>

(* _handle_bye(): an established protocol closes and drops its session;    *)
(* the payload is not decrypted.  In other states BYE is only recorded.    *)
Bye(d, m) ==
    /\ Incoming(d, m, "BYE")
    /\ \/ /\ state[d] = "ESTABLISHED"
          /\ sessions' = [sessions EXCEPT ![d] = [AfterReceive(d, m) EXCEPT ![peer[d]] = Nil]]
          /\ state' = [state EXCEPT ![d] = "CLOSED"]
       \/ /\ state[d] # "ESTABLISHED"
          /\ sessions' = [sessions EXCEPT ![d] = AfterReceive(d, m)]
          /\ UNCHANGED state
    /\ UNCHANGED <<now, peer, peerX, restarts, keys, net, history>>

(* receive_data(): replay-checks any packet, returns the plaintext of a    *)
(* DATA packet that decrypts and raises on everything else.                *)
ReceiveData(d, m) ==
    /\ m.to = d /\ m.type # "HELLO"
    /\ state[d] = "ESTABLISHED"
    /\ Receivable(d, m)
    /\ sessions' = [sessions EXCEPT ![d] = AfterReceive(d, m)]
    /\ IF m.type = "DATA" /\ Decrypts(AfterReceive(d, m), m)
       THEN /\ delivered' = delivered \cup {m}
            /\ redelivered' = redelivered \cup ({m} \cap delivered)
       ELSE UNCHANGED <<delivered, redelivered>>
    /\ UNCHANGED <<now, protocol, restarts, keys, net, installed>>

Tick ==
    /\ now < MaxTime
    /\ now' = now + 1
    /\ UNCHANGED <<protocol, restarts, keys, sessions, net, history>>

-----------------------------------------------------------------------------
Init ==
    /\ now = 0
    /\ state = [d \in Devices |-> "IDLE"]
    /\ peer = [d \in Devices |-> Nil]
    /\ peerX = [d \in Devices |-> Nil]
    /\ restarts = [d \in Devices |-> 0]
    /\ eph = [d \in Devices |-> [p \in Devices |-> Nil]]
    /\ ephCount = [d \in Devices |-> 0]
    /\ pending = [d \in Devices |-> {}]
    /\ sessions = [d \in Devices |-> [p \in Devices |-> Nil]]
    /\ net = {}
    /\ installed = [d \in Devices |-> {}]
    /\ delivered = {}
    /\ redelivered = {}

Application(d) ==
    \/ \E p \in Devices : Initiate(d, p)
    \/ Restart(d)
    \/ SendData(d) \/ SendDataMac(d) \/ SendAck(d) \/ SendBye(d)

Process(d, m) ==
    \/ HelloInIdle(d, m) \/ HelloInHelloSent(d, m) \/ HelloRefused(d, m)
    \/ KeyExchangeInHelloReceived(d, m) \/ KeyExchangeInKeyExchangeSent(d, m)
    \/ KeyExchangeRefused(d, m)
    \/ DataOrAck(d, m) \/ Bye(d, m) \/ ReceiveData(d, m)

Next ==
    \/ Tick
    \/ \E d \in Devices : Application(d) \/ \E m \in net : Process(d, m)

Spec == Init /\ [][Next]_vars

(* The network delivers, and the application processes, what an unfinished *)
(* handshake waits for; nothing is assumed about any other delivery, and   *)
(* nobody has to start one.                                                *)
Fairness ==
    \A d \in Devices :
        /\ WF_vars(\E m \in net : HelloInIdle(d, m))
        /\ WF_vars(\E m \in net : HelloInHelloSent(d, m))
        /\ WF_vars(\E m \in net : KeyExchangeInHelloReceived(d, m))
        /\ WF_vars(\E m \in net : KeyExchangeInKeyExchangeSent(d, m))

FairSpec == Spec /\ Fairness

-----------------------------------------------------------------------------
TypeOK ==
    /\ now \in 0 .. MaxTime
    /\ state \in [Devices -> States]
    /\ peer \in [Devices -> Devices \cup {Nil}]
    /\ peerX \in [Devices -> Ephemerals \cup {Nil}]
    /\ restarts \in [Devices -> 0 .. MaxRestarts]
    /\ eph \in [Devices -> [Devices -> Ephemerals \cup {Nil}]]
    /\ ephCount \in [Devices -> Nat]
    /\ pending \in [Devices -> SUBSET Devices]
    /\ sessions \in [Devices -> [Devices -> Sessions \cup {Nil}]]
    /\ net \subseteq Packets
    /\ installed \in [Devices -> SUBSET Keys]
    /\ delivered \subseteq net /\ redelivered \subseteq net

(* ESTABLISHED means that a handshake finished with some device that       *)
(* derived the same key for this one, through any mixture of lost, late,   *)
(* repeated and crossed handshakes (key confirmation, SPEC.md section 7.1).*)
ConfirmedBySomePeer ==
    \A d \in Devices :
        state[d] = "ESTABLISHED" =>
            \E p \in Devices : /\ HasSession(d, p)
                              /\ sessions[d][p].key \in installed[p]

(* That device is the instance's peer, the one it will encrypt to, unless  *)
(* a HELLO of a third device has redirected the instance (HelloRefused).   *)
KeyConfirmed ==
    \A d \in Devices :
        /\ state[d] = "ESTABLISHED"
        /\ \A m \in net : m.type = "HELLO" /\ m.to = d => m.from = peer[d]
        => /\ HasSession(d, peer[d])
           /\ sessions[d][peer[d]].key \in installed[peer[d]]

(* A sequence number is never used for two packets of a session, also when *)
(* peers re-key any number of times: complete_key_exchange() starts a new  *)
(* count only under a key it never had before.                             *)
SequenceUnique ==
    \A m, n \in net :
        m.key # Nil /\ m.key = n.key /\ m.from = n.from /\ m.seq = n.seq => m = n

(* receive_data() returns a packet at most once, across re-keyings too,    *)
(* which start with an empty replay window.                                *)
NoDuplicateDelivery == redelivered = {}

(* Forward secrecy (SPEC.md section 7.1): an ephemeral key that went into  *)
(* a session key is no longer held by either of the two devices.           *)
EphemeralsForgotten ==
    \A d, p \in Devices : \A k \in installed[d] : eph[d][p] \notin k.secret

(* The identities enter the key derivation in an order that depends on the *)
(* roles, "so both sides derive the same key" (device.py:155-158): two     *)
(* devices that combined the same two ephemerals agree on the key.         *)
SameSecretSameKey ==
    \A d, e \in Devices : \A k \in installed[d], l \in installed[e] :
        k.secret = l.secret => k = l

(* The network lets a window of later packets of the responder p overtake  *)
(* the KEY_EXCHANGE d waits for, which is then refused (session.py:107).   *)
Overtaken(d, p) ==
    /\ state[d] = "KEY_EXCHANGE_SENT" /\ HasSession(d, p)
    /\ \E m \in net : /\ m.type = "KEY_EXCHANGE" /\ m.from = p /\ m.to = d
                      /\ m.seq <= sessions[d][p].peerMax - ReplayWindow

(* Nothing crosses a handshake that d starts with p: no packet is late or  *)
(* a window behind, neither restarts, no third device calls, and p does    *)
(* not call too.                                                           *)
Undisturbed(d, p) ==
    /\ \A m \in net : Timely(m.ts, now)
    /\ restarts[d] = 0 /\ restarts[p] = 0
    /\ \A m \in net : m.type = "HELLO" /\ m.to \in {d, p} => m.from \in {d, p}
    /\ state[p] # "HELLO_SENT"
    /\ ~Overtaken(d, p)

(* A handshake that is started and left undisturbed completes on both      *)
(* sides, also when packets are repeated and when data of the responder,   *)
(* which is ESTABLISHED first, overtakes its KEY_EXCHANGE.                 *)
HandshakeCompletes ==
    \A c \in Calls :
        LET d == c[1]
            p == c[2]
        IN  []Undisturbed(d, p) =>
                (state[d] = "HELLO_SENT" /\ peer[d] = p
                     ~> state[d] = "ESTABLISHED" /\ state[p] = "ESTABLISHED")
=============================================================================
