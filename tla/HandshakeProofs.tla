-------------------------- MODULE HandshakeProofs --------------------------
(***************************************************************************)
(* Proofs about Handshake, for any set of devices, any pattern of calls    *)
(* and restarts and any network.  The invariant Inv says where ephemeral   *)
(* keys can be (Origins), that session keys are new when they are made     *)
(* (EphemeralsForgotten, KeysInstalled), that the counter of a session is  *)
(* ahead of its packets (CounterAhead) and that its replay window covers   *)
(* what was delivered under its key (DeliveredCovered).                    *)
(***************************************************************************)
EXTENDS Handshake, TLAPS

USE SessionAssumption

(* None is not a device, an ephemeral key, a session key or a session.     *)
LEMMA NilIsNone ==
    /\ Nil \notin Devices /\ Nil \notin Ephemerals
    /\ Nil \notin Keys /\ Nil \notin Sessions
  BY HandshakeAssumption

-----------------------------------------------------------------------------
(* The session object.                                                     *)

(* Recording a number keeps key and counter, refuses that number from then *)
(* on and goes on refusing what was refused (session.py:114-120).          *)
LEMMA RecordSequenceFacts ==
    ASSUME NEW sess \in Sessions, NEW seq \in Nat
    PROVE  LET r == RecordSequence(sess, seq)
           IN  /\ r \in Sessions
               /\ r.key = sess.key /\ r.localSeq = sess.localSeq
               /\ ~SequenceFresh(r, seq)
               /\ \A s \in Nat : ~SequenceFresh(sess, s) => ~SequenceFresh(r, s)
<1> DEFINE r == RecordSequence(sess, seq)
<1>1. /\ sess.key \in Keys /\ sess.localSeq \in Nat /\ sess.peerMax \in Nat
      /\ sess.window \in SUBSET Nat
      /\ sess = [key |-> sess.key, localSeq |-> sess.localSeq,
                 peerMax |-> sess.peerMax, window |-> sess.window]
  BY DEF Sessions
<1>2. CASE seq > sess.peerMax
  <2>1. r = [key |-> sess.key, localSeq |-> sess.localSeq, peerMax |-> seq,
             window |-> {s \in sess.window \cup {seq} : s > seq - ReplayWindow}]
    BY <1>1, <1>2 DEF RecordSequence
  <2> QED BY <1>1, <1>2, <2>1 DEF SequenceFresh, Sessions
<1>3. CASE ~(seq > sess.peerMax)
  <2>1. r = [key |-> sess.key, localSeq |-> sess.localSeq, peerMax |-> sess.peerMax,
             window |-> sess.window \cup {seq}]
    BY <1>1, <1>3 DEF RecordSequence
  <2> QED BY <1>1, <1>3, <2>1 DEF SequenceFresh, Sessions
<1> QED BY <1>2, <1>3

(* Taking a number moves the counter and nothing else (session.py:71-75).  *)
LEMMA NextSequenceFacts ==
    ASSUME NEW sess \in Sessions
    PROVE  LET r == NextSequence(sess)
           IN  /\ r \in Sessions
               /\ r.key = sess.key /\ r.localSeq = sess.localSeq + 1
               /\ \A s \in Nat : SequenceFresh(r, s) <=> SequenceFresh(sess, s)
<1> DEFINE r == NextSequence(sess)
<1>1. /\ sess.key \in Keys /\ sess.localSeq \in Nat /\ sess.peerMax \in Nat
      /\ sess.window \in SUBSET Nat
      /\ r = [key |-> sess.key, localSeq |-> sess.localSeq + 1,
              peerMax |-> sess.peerMax, window |-> sess.window]
  BY DEF Sessions, NextSequence
<1> QED BY <1>1 DEF SequenceFresh, Sessions

(* A new session has its key and a counter at zero.                        *)
LEMMA NewSessionFacts ==
    ASSUME NEW key \in Keys
    PROVE  /\ NewSession(key) \in Sessions
           /\ NewSession(key).key = key /\ NewSession(key).localSeq = 0
  BY DEF NewSession, Sessions

-----------------------------------------------------------------------------
(* The sessions of a device before and after a packet was received: the    *)
(* same sessions, with the same keys and counters, refusing no less.       *)
Grown(old, new) ==
    /\ new \in [Devices -> Sessions \cup {Nil}]
    /\ \A p \in Devices :
          /\ new[p] = Nil <=> old[p] = Nil
          /\ new[p] # Nil => /\ new[p].key = old[p].key
                             /\ new[p].localSeq = old[p].localSeq
                             /\ \A s \in Nat : ~SequenceFresh(old[p], s) => ~SequenceFresh(new[p], s)

(* receive_packet() changes the sender's session only, as check_replay()   *)
(* does, and refuses the same packet afterwards.                           *)
LEMMA AfterReceiveFacts ==
    ASSUME TypeOK, NEW d \in Devices, NEW m \in net
    PROVE  /\ Grown(sessions[d], AfterReceive(d, m))
           /\ AfterReceive(d, m)[m.from] # Nil =>
                  ~SequenceFresh(AfterReceive(d, m)[m.from], m.seq)
<1>1. m.from \in Devices /\ m.seq \in Nat
  BY DEF TypeOK, Packets
<1>2. sessions[d] \in [Devices -> Sessions \cup {Nil}]
  BY DEF TypeOK
<1>3. CASE HasSession(d, m.from)
  <2>1. sessions[d][m.from] \in Sessions
    BY <1>1, <1>2, <1>3 DEF HasSession
  <2> DEFINE r == RecordSequence(sessions[d][m.from], m.seq)
  <2>2. /\ r \in Sessions
        /\ r.key = sessions[d][m.from].key /\ r.localSeq = sessions[d][m.from].localSeq
        /\ ~SequenceFresh(r, m.seq)
        /\ \A s \in Nat : ~SequenceFresh(sessions[d][m.from], s) => ~SequenceFresh(r, s)
    BY <1>1, <2>1, RecordSequenceFacts
  <2>3. AfterReceive(d, m) = [sessions[d] EXCEPT ![m.from] = r]
    BY <1>3 DEF AfterReceive
  <2> HIDE DEF r
  <2> QED BY <1>1, <1>2, <1>3, <2>1, <2>2, <2>3, NilIsNone DEF Grown, HasSession
<1>4. CASE ~HasSession(d, m.from)
  BY <1>1, <1>2, <1>4 DEF AfterReceive, Grown, HasSession
<1> QED BY <1>3, <1>4

-----------------------------------------------------------------------------
(* Invariants.                                                             *)

(* An instance past HELLO_SENT has a peer and the peer's ephemeral key.    *)
PeerKnown ==
    /\ \A d \in Devices :
          state[d] \in {"HELLO_RECEIVED", "KEY_EXCHANGE_SENT", "ESTABLISHED"} =>
              peer[d] \in Devices /\ peerX[d] \in Ephemerals
    /\ \A d \in Devices : peer[d] # d
    /\ \A m \in net : m.type = "HELLO" => m.x \in Ephemerals

(* The ephemeral keys that exist.                                          *)
Generated == {e \in Ephemerals : e[2] < ephCount[e[1]]}

(* Where ephemeral keys are: a device holds its own, one per peer, and has *)
(* been sent those of others; session keys are made of existing ones.      *)
Held ==
    /\ \A d, p \in Devices :
          eph[d][p] # Nil => eph[d][p] \in Generated /\ eph[d][p][1] = d
    /\ \A d, p, q \in Devices :
          eph[d][p] # Nil /\ eph[d][p] = eph[d][q] => p = q

Sent ==
    \A m \in net : /\ m.from # m.to
                   /\ m.type = "HELLO" => m.x \in Generated /\ m.x[1] = m.from

Taken == \A d \in Devices : peerX[d] # Nil => peerX[d] \in Generated /\ peerX[d][1] # d

Used == \A d \in Devices : \A k \in installed[d] : k.secret \subseteq Generated

Origins == Held /\ Sent /\ Taken /\ Used

(* Sessions and packets use installed keys, and no key serves two sessions.*)
KeysInstalled ==
    /\ \A d, p \in Devices : HasSession(d, p) => sessions[d][p].key \in installed[d]
    /\ \A d, p, q \in Devices :
          HasSession(d, p) /\ HasSession(d, q) /\ sessions[d][p].key = sessions[d][q].key => p = q
    /\ \A m \in net : m.key # Nil => m.key \in installed[m.from]
    /\ \A m \in net : m.type = "HELLO" <=> m.key = Nil

(* The counter of a session is above the numbers sent under its key.       *)
CounterAhead ==
    \A m \in net : \A p \in Devices :
        HasSession(m.from, p) /\ m.key = sessions[m.from][p].key =>
            m.seq < sessions[m.from][p].localSeq

(* The replay window of a session refuses what was delivered under its key.*)
DeliveredCovered ==
    \A m \in delivered :
        /\ m.key # Nil /\ m.key \in installed[m.to]
        /\ HasSession(m.to, m.from) /\ sessions[m.to][m.from].key = m.key =>
               ~SequenceFresh(sessions[m.to][m.from], m.seq)

KeyInv == TypeOK /\ PeerKnown /\ Origins /\ EphemeralsForgotten

-----------------------------------------------------------------------------
(* The initial state.                                                      *)

(* All parts of the invariant hold initially.                              *)
LEMMA InitInv ==
    Init => /\ KeyInv /\ KeysInstalled /\ CounterAhead /\ SequenceUnique
            /\ DeliveredCovered /\ NoDuplicateDelivery /\ ConfirmedBySomePeer
<1> SUFFICES ASSUME Init
             PROVE  /\ KeyInv /\ KeysInstalled /\ CounterAhead /\ SequenceUnique
                    /\ DeliveredCovered /\ NoDuplicateDelivery /\ ConfirmedBySomePeer
  OBVIOUS
<1>1. TypeOK
  BY HandshakeAssumption DEF Init, TypeOK, States
<1>2. PeerKnown
  BY NilIsNone DEF Init, PeerKnown
<1>3. Origins
  BY DEF Init, Origins, Held, Sent, Taken, Used
<1>4. EphemeralsForgotten
  BY DEF Init, EphemeralsForgotten
<1>5. KeysInstalled /\ CounterAhead /\ SequenceUnique
  BY DEF Init, KeysInstalled, CounterAhead, SequenceUnique, HasSession
<1>6. DeliveredCovered /\ NoDuplicateDelivery /\ ConfirmedBySomePeer
  BY DEF Init, DeliveredCovered, NoDuplicateDelivery, ConfirmedBySomePeer
<1> QED BY <1>1, <1>2, <1>3, <1>4, <1>5, <1>6 DEF KeyInv

-----------------------------------------------------------------------------
(* Builders and derived keys.                                              *)

(* The ephemeral key a device offers is one of its own.                    *)
LEMMA EphemeralForFacts ==
    ASSUME TypeOK, NEW d \in Devices, NEW p \in Devices
    PROVE  EphemeralFor(d, p) \in Ephemerals
  BY DEF TypeOK, EphemeralFor, Ephemerals

(* build_hello_packet() makes a packet.                                    *)
LEMMA HelloPacketFacts ==
    ASSUME TypeOK, NEW d \in Devices, NEW p \in Devices, NEW x \in Ephemerals
    PROVE  LET n == HelloPacket(d, p, x)
           IN  /\ n \in Packets
               /\ n.type = "HELLO" /\ n.from = d /\ n.to = p /\ n.x = x /\ n.key = Nil
  BY DEF TypeOK, HelloPacket, Packets

(* complete_key_exchange() derives a session key from the two ephemerals.  *)
LEMMA DerivedKeyFacts ==
    ASSUME TypeOK, NEW d \in Devices, NEW p \in Devices, eph[d][p] # Nil,
           NEW x \in Ephemerals
    PROVE  /\ DerivedKey(d, p, x, TRUE) \in Keys /\ DerivedKey(d, p, x, FALSE) \in Keys
           /\ DerivedKey(d, p, x, TRUE).secret = {eph[d][p], x}
           /\ DerivedKey(d, p, x, FALSE).secret = {eph[d][p], x}
<1>1. eph[d][p] \in Ephemerals
  BY DEF TypeOK
<1>2. {eph[d][p], x} \in SUBSET Ephemerals
  BY <1>1
<1> QED BY <1>2 DEF DerivedKey, Keys

-----------------------------------------------------------------------------
(* Shapes of step.                                                         *)

(* d sends one packet in its session with p.                               *)
Sends(d, p) ==
    /\ p \in Devices /\ p # d /\ sessions[d][p] \in Sessions
    /\ sessions' = [sessions EXCEPT ![d] = [@ EXCEPT ![p] = NextSequence(sessions[d][p])]]
    /\ \E n \in Packets :
          /\ net' = net \cup {n}
          /\ n.type # "HELLO" /\ n.from = d /\ n.to = p
          /\ n.key = sessions[d][p].key /\ n.seq = sessions[d][p].localSeq
    /\ UNCHANGED <<now, protocol, restarts, keys, history>>

(* d derives key from its ephemeral key for p and the ephemeral key x: the *)
(* session with p is replaced, at most one packet is sent in the new one.  *)
Installs(d, p, x, key) ==
    /\ key \in Keys /\ key.secret = {eph[d][p], x}
    /\ eph[d][p] # Nil
    /\ ForgetEphemeral(d, p)
    /\ installed' = [installed EXCEPT ![d] = @ \cup {key}]
    /\ \E ss \in [Devices -> Sessions \cup {Nil}] :
          /\ sessions' = [sessions EXCEPT ![d] = ss]
          /\ ss[p] \in Sessions /\ ss[p].key = key
          /\ Grown([sessions[d] EXCEPT ![p] = ss[p]], ss)
          /\ \/ net' = net
             \/ \E n \in Packets :
                   /\ net' = net \cup {n}
                   /\ n.type = "KEY_EXCHANGE" /\ n.from = d /\ n.to = p
                   /\ n.key = key /\ n.seq < ss[p].localSeq
    /\ UNCHANGED <<delivered, redelivered>>

(* The initiator derives its key when the responder's HELLO comes.         *)
LEMMA InitiatorInstalls ==
    ASSUME TypeOK, PeerKnown, NEW d \in Devices, NEW m \in net, HelloInHelloSent(d, m)
    PROVE  Installs(d, m.from, m.x, DerivedKey(d, m.from, m.x, TRUE))
<1> DEFINE key == DerivedKey(d, m.from, m.x, TRUE)
           p == m.from
           sess == NewSession(key)
           ss == [sessions[d] EXCEPT ![p] = NextSequence(sess)]
           n == SessionPacket("KEY_EXCHANGE", d, p, sess, FALSE)
<1>1. m.type = "HELLO" /\ p \in Devices /\ m.x \in Ephemerals /\ eph[d][p] # Nil
  BY DEF HelloInHelloSent, Incoming, PeerKnown, TypeOK, Packets
<1>2. key \in Keys /\ key.secret = {eph[d][p], m.x}
  BY <1>1, DerivedKeyFacts DEF DerivedKey
<1>3. /\ ForgetEphemeral(d, p)
      /\ installed' = [installed EXCEPT ![d] = @ \cup {key}]
      /\ sessions' = [sessions EXCEPT ![d][p] = NextSequence(sess)]
      /\ net' = net \cup {n}
      /\ UNCHANGED <<delivered, redelivered>>
  BY DEF HelloInHelloSent
<1> HIDE DEF key
<1>4. sess \in Sessions /\ sess.key = key /\ sess.localSeq = 0
  BY <1>2, NewSessionFacts
<1> HIDE DEF sess
<1>5. /\ NextSequence(sess) \in Sessions
      /\ NextSequence(sess).key = key /\ NextSequence(sess).localSeq = 1
  BY <1>4, NextSequenceFacts
<1>6. n \in Packets /\ n.type = "KEY_EXCHANGE" /\ n.from = d /\ n.to = p /\ n.key = key /\ n.seq = 0
  BY <1>1, <1>4, NilIsNone DEF SessionPacket, Packets, Sessions, TypeOK
<1>7. sessions \in [Devices -> [Devices -> Sessions \cup {Nil}]]
  BY DEF TypeOK
<1>8. /\ ss \in [Devices -> Sessions \cup {Nil}]
      /\ ss[p] = NextSequence(sess)
      /\ sessions' = [sessions EXCEPT ![d] = ss]
  BY <1>1, <1>3, <1>5, <1>7
<1>9. Grown([sessions[d] EXCEPT ![p] = ss[p]], ss)
  <2>1. [sessions[d] EXCEPT ![p] = ss[p]] = ss
    BY <1>1, <1>7, <1>8
  <2> QED BY <2>1, <1>8 DEF Grown
<1> HIDE DEF n, ss
<1>10. n.seq < ss[p].localSeq
  BY <1>5, <1>6, <1>8
<1>11. Installs(d, p, m.x, key)
  BY <1>1, <1>2, <1>3, <1>5, <1>6, <1>8, <1>9, <1>10 DEF Installs
<1> QED BY <1>11 DEF key

(* The responder derives its key when a KEY_EXCHANGE comes, and keeps it   *)
(* whether or not the packet then passes.                                  *)
LEMMA ResponderInstalls ==
    ASSUME TypeOK, PeerKnown, NEW d \in Devices, NEW m \in net,
           KeyExchangeInHelloReceived(d, m)
    PROVE  /\ Installs(d, peer[d], peerX[d], DerivedKey(d, peer[d], peerX[d], FALSE))
           /\ state'[d] = "ESTABLISHED" => Decrypts(sessions'[d], m)
<1> DEFINE p == peer[d]
           key == DerivedKey(d, p, peerX[d], FALSE)
           ss == [AfterReceive(d, m) EXCEPT ![p] = NewSession(key)]
           seen == [ss EXCEPT ![p] = RecordSequence(@, m.seq)]
           sent == [seen EXCEPT ![p] = NextSequence(@)]
           n == SessionPacket("KEY_EXCHANGE", d, p, seen[p], FALSE)
<1>1. p \in Devices /\ peerX[d] \in Ephemerals /\ eph[d][p] # Nil /\ m.seq \in Nat
  BY DEF KeyExchangeInHelloReceived, PeerKnown, TypeOK, Packets
<1>2. key \in Keys /\ key.secret = {eph[d][p], peerX[d]}
  BY <1>1, DerivedKeyFacts DEF DerivedKey
<1>3. /\ ForgetEphemeral(d, p)
      /\ installed' = [installed EXCEPT ![d] = @ \cup {key}]
      /\ \/ sessions' = [sessions EXCEPT ![d] = ss] /\ net' = net
         \/ sessions' = [sessions EXCEPT ![d] = seen] /\ net' = net
         \/ sessions' = [sessions EXCEPT ![d] = sent] /\ net' = net \cup {n}
      /\ UNCHANGED <<delivered, redelivered>>
  BY DEF KeyExchangeInHelloReceived
<1> HIDE DEF key
<1>4. Grown(sessions[d], AfterReceive(d, m))
  BY AfterReceiveFacts
<1>5. NewSession(key) \in Sessions /\ NewSession(key).key = key /\ NewSession(key).localSeq = 0
  BY <1>2, NewSessionFacts
<1>6. /\ ss \in [Devices -> Sessions \cup {Nil}]
      /\ ss[p] = NewSession(key) /\ \A q \in Devices \ {p} : ss[q] = AfterReceive(d, m)[q]
  BY <1>1, <1>4, <1>5 DEF Grown
<1> HIDE DEF ss
<1>7. LET r == RecordSequence(ss[p], m.seq)
      IN  r \in Sessions /\ r.key = key /\ r.localSeq = 0
  BY <1>1, <1>5, <1>6, RecordSequenceFacts
<1>8. /\ seen \in [Devices -> Sessions \cup {Nil}]
      /\ seen[p] \in Sessions /\ seen[p].key = key /\ seen[p].localSeq = 0
      /\ \A q \in Devices \ {p} : seen[q] = AfterReceive(d, m)[q]
  BY <1>1, <1>6, <1>7
<1> HIDE DEF seen
<1>9. LET r == NextSequence(seen[p])
      IN  r \in Sessions /\ r.key = key /\ r.localSeq = 1
  BY <1>8, NextSequenceFacts
<1>10. /\ sent \in [Devices -> Sessions \cup {Nil}]
       /\ sent[p] \in Sessions /\ sent[p].key = key /\ sent[p].localSeq = 1
       /\ \A q \in Devices \ {p} : sent[q] = AfterReceive(d, m)[q]
  BY <1>1, <1>8, <1>9
<1> HIDE DEF sent
<1>11. n \in Packets /\ n.type = "KEY_EXCHANGE" /\ n.from = d /\ n.to = p /\ n.key = key /\ n.seq = 0
  BY <1>1, <1>8, NilIsNone DEF SessionPacket, Packets, Sessions, TypeOK
<1> HIDE DEF n
<1>12. ASSUME NEW tt \in [Devices -> Sessions \cup {Nil}], tt[p] \in Sessions,
              \A q \in Devices \ {p} : tt[q] = AfterReceive(d, m)[q]
       PROVE  Grown([sessions[d] EXCEPT ![p] = tt[p]], tt)
  <2>1. sessions[d] \in [Devices -> Sessions \cup {Nil}]
    BY DEF TypeOK
  <2> DEFINE old == [sessions[d] EXCEPT ![p] = tt[p]]
  <2>2. old[p] = tt[p] /\ \A q \in Devices \ {p} : old[q] = sessions[d][q]
    BY <1>1, <2>1
  <2> HIDE DEF old
  <2> SUFFICES Grown(old, tt)
    BY DEF old
  <2> QED BY <1>1, <1>4, <1>12, <2>2 DEF Grown
<1>13. Installs(d, p, peerX[d], key)
  <2>1. CASE sessions' = [sessions EXCEPT ![d] = ss] /\ net' = net
    BY <1>1, <1>2, <1>3, <1>5, <1>6, <1>12, <2>1 DEF Installs
  <2>2. CASE sessions' = [sessions EXCEPT ![d] = seen] /\ net' = net
    BY <1>1, <1>2, <1>3, <1>8, <1>12, <2>2 DEF Installs
  <2>3. CASE sessions' = [sessions EXCEPT ![d] = sent] /\ net' = net \cup {n}
    <3>1. n.seq < sent[p].localSeq
      BY <1>10, <1>11
    <3> QED BY <1>1, <1>2, <1>3, <1>10, <1>11, <1>12, <2>3, <3>1 DEF Installs
  <2> QED BY <1>3, <2>1, <2>2, <2>3
<1>14. ASSUME state'[d] = "ESTABLISHED"
       PROVE  Decrypts(sessions'[d], m)
  <2>1. Decrypts(seen, m) /\ sessions' = [sessions EXCEPT ![d] = sent]
    BY <1>14 DEF KeyExchangeInHelloReceived, key, ss, seen, sent
  <2>2. sessions'[d] = sent
    BY <2>1 DEF TypeOK
  <2>3. m.from \in Devices
    BY DEF TypeOK, Packets
  <2> QED BY <1>8, <1>10, <2>1, <2>2, <2>3, NilIsNone DEF Decrypts
<1> QED BY <1>13, <1>14 DEF key

(* The four builders used in an established session send one packet.       *)
LEMMA SessionSends ==
    ASSUME TypeOK, PeerKnown, NEW d \in Devices,
           SendData(d) \/ SendDataMac(d) \/ SendAck(d) \/ SendBye(d)
    PROVE  Sends(d, peer[d])
<1> DEFINE p == peer[d]
<1>1. p \in Devices /\ p # d /\ sessions[d] \in [Devices -> Sessions \cup {Nil}]
  BY DEF SendData, SendDataMac, SendAck, SendBye, SendInSession, PeerKnown, TypeOK
<1>2. sessions[d][p] \in Sessions
  BY <1>1 DEF SendData, SendDataMac, SendAck, SendBye, SendInSession, HasSession
<1>3. \E n \in Packets :
          /\ net' = net \cup {n}
          /\ n.type # "HELLO" /\ n.from = d /\ n.to = p
          /\ n.key = sessions[d][p].key /\ n.seq = sessions[d][p].localSeq
  <2>1. CASE SendData(d)
    <3> DEFINE n == SessionPacket("DATA", d, p, sessions[d][p], FALSE)
    <3>1. net' = net \cup {n}
      BY <2>1 DEF SendData, SendInSession
    <3>2. n \in Packets /\ n.type # "HELLO" /\ n.from = d /\ n.to = p
      BY <1>1, <1>2 DEF SessionPacket, Packets, Sessions, TypeOK
    <3>3. n.key = sessions[d][p].key /\ n.seq = sessions[d][p].localSeq
      BY DEF SessionPacket
    <3> HIDE DEF n
    <3> QED BY <3>1, <3>2, <3>3
  <2>2. CASE SendDataMac(d)
    <3> DEFINE n == SessionPacket("DATA", d, p, sessions[d][p], TRUE)
    <3>1. net' = net \cup {n}
      BY <2>2 DEF SendDataMac, SendInSession
    <3>2. n \in Packets /\ n.type # "HELLO" /\ n.from = d /\ n.to = p
      BY <1>1, <1>2 DEF SessionPacket, Packets, Sessions, TypeOK
    <3>3. n.key = sessions[d][p].key /\ n.seq = sessions[d][p].localSeq
      BY DEF SessionPacket
    <3> HIDE DEF n
    <3> QED BY <3>1, <3>2, <3>3
  <2>3. CASE SendAck(d)
    <3> DEFINE n == SessionPacket("ACK", d, p, sessions[d][p], FALSE)
    <3>1. net' = net \cup {n}
      BY <2>3 DEF SendAck, SendInSession
    <3>2. n \in Packets /\ n.type # "HELLO" /\ n.from = d /\ n.to = p
      BY <1>1, <1>2 DEF SessionPacket, Packets, Sessions, TypeOK
    <3>3. n.key = sessions[d][p].key /\ n.seq = sessions[d][p].localSeq
      BY DEF SessionPacket
    <3> HIDE DEF n
    <3> QED BY <3>1, <3>2, <3>3
  <2>4. CASE SendBye(d)
    <3> DEFINE n == SessionPacket("BYE", d, p, sessions[d][p], FALSE)
    <3>1. net' = net \cup {n}
      BY <2>4 DEF SendBye, SendInSession
    <3>2. n \in Packets /\ n.type # "HELLO" /\ n.from = d /\ n.to = p
      BY <1>1, <1>2 DEF SessionPacket, Packets, Sessions, TypeOK
    <3>3. n.key = sessions[d][p].key /\ n.seq = sessions[d][p].localSeq
      BY DEF SessionPacket
    <3> HIDE DEF n
    <3> QED BY <3>1, <3>2, <3>3
  <2> QED BY <2>1, <2>2, <2>3, <2>4
<1>4. sessions' = [sessions EXCEPT ![d] = [@ EXCEPT ![p] = NextSequence(sessions[d][p])]]
  BY DEF SendData, SendDataMac, SendAck, SendBye, SendInSession
<1>5. UNCHANGED <<now, protocol, restarts, keys, history>>
  BY DEF SendData, SendDataMac, SendAck, SendBye, SendInSession
<1> QED BY <1>1, <1>2, <1>3, <1>4, <1>5 DEF Sends

(* The sessions left are among those there were, and refuse no less.       *)
Kept(old, new) ==
    /\ new \in [Devices -> Sessions \cup {Nil}]
    /\ \A p \in Devices :
          new[p] # Nil => /\ old[p] # Nil
                          /\ new[p].key = old[p].key
                          /\ new[p].localSeq = old[p].localSeq
                          /\ \A s \in Nat : ~SequenceFresh(old[p], s) => ~SequenceFresh(new[p], s)

(* d receives m, sends nothing and derives no key.                         *)
Receives(d, m) ==
    /\ m.to = d
    /\ UNCHANGED <<now, peer, peerX, restarts, keys, net, installed>>
    /\ \/ /\ sessions' = [sessions EXCEPT ![d] = AfterReceive(d, m)]
          /\ \/ UNCHANGED state
             \/ /\ state' = [state EXCEPT ![d] = "ESTABLISHED"]
                /\ state[d] = "KEY_EXCHANGE_SENT"
                /\ Decrypts(AfterReceive(d, m), m)
       \/ /\ \E p \in Devices :
                sessions' = [sessions EXCEPT ![d] = [AfterReceive(d, m) EXCEPT ![p] = Nil]]
          /\ state' = [state EXCEPT ![d] = "CLOSED"]
    /\ \/ UNCHANGED <<delivered, redelivered>>
       \/ /\ Receivable(d, m) /\ m.type # "HELLO" /\ Decrypts(AfterReceive(d, m), m)
          /\ sessions' = [sessions EXCEPT ![d] = AfterReceive(d, m)]
          /\ delivered' = delivered \cup {m}
          /\ redelivered' = redelivered \cup ({m} \cap delivered)

(* The packets outside the handshake proper, and those refused in it.      *)
LEMMA OthersReceive ==
    ASSUME TypeOK, PeerKnown, NEW d \in Devices, NEW m \in net,
           \/ KeyExchangeInKeyExchangeSent(d, m) \/ KeyExchangeRefused(d, m)
           \/ DataOrAck(d, m) \/ Bye(d, m) \/ ReceiveData(d, m)
    PROVE  Receives(d, m)
<1>1. CASE KeyExchangeInKeyExchangeSent(d, m)
  BY <1>1 DEF KeyExchangeInKeyExchangeSent, Receives, Incoming, history
<1>2. CASE KeyExchangeRefused(d, m)
  BY <1>2 DEF KeyExchangeRefused, Receives, Incoming, protocol, history
<1>3. CASE DataOrAck(d, m)
  BY <1>3 DEF DataOrAck, Receives, Incoming, protocol, history
<1>4. CASE Bye(d, m)
  <2>1. state[d] = "ESTABLISHED" => peer[d] \in Devices
    BY DEF PeerKnown
  <2> QED BY <1>4, <2>1 DEF Bye, Receives, Incoming, history
<1>5. CASE ReceiveData(d, m)
  <2>1. CASE m.type = "DATA" /\ Decrypts(AfterReceive(d, m), m)
    BY <1>5, <2>1 DEF ReceiveData, Receives, protocol
  <2>2. CASE ~(m.type = "DATA" /\ Decrypts(AfterReceive(d, m), m))
    BY <1>5, <2>2 DEF ReceiveData, Receives, protocol
  <2> QED BY <2>1, <2>2
<1> QED BY <1>1, <1>2, <1>3, <1>4, <1>5

(* The sessions after Receives.                                            *)
LEMMA ReceivesKeeps ==
    ASSUME TypeOK, NEW d \in Devices, NEW m \in net, Receives(d, m)
    PROVE  \E ss \in [Devices -> Sessions \cup {Nil}] :
               sessions' = [sessions EXCEPT ![d] = ss] /\ Kept(sessions[d], ss)
<1> DEFINE rr == AfterReceive(d, m)
<1>1. Grown(sessions[d], rr)
  BY AfterReceiveFacts
<1> HIDE DEF rr
<1>2. rr \in [Devices -> Sessions \cup {Nil}] /\ Kept(sessions[d], rr)
  BY <1>1 DEF Grown, Kept
<1>3. ASSUME NEW p \in Devices
      PROVE  LET cc == [rr EXCEPT ![p] = Nil]
             IN  cc \in [Devices -> Sessions \cup {Nil}] /\ Kept(sessions[d], cc)
  BY <1>2 DEF Kept
<1>4. \/ sessions' = [sessions EXCEPT ![d] = rr]
      \/ \E p \in Devices : sessions' = [sessions EXCEPT ![d] = [rr EXCEPT ![p] = Nil]]
  BY DEF Receives, rr
<1> QED BY <1>2, <1>3, <1>4

-----------------------------------------------------------------------------
(* Ephemeral keys.                                                         *)

(* d offers p an ephemeral key: Initiate and the answer in IDLE.           *)
Offers(d, p) ==
    /\ p \in Devices /\ p # d
    /\ GenerateEphemeral(d, p)
    /\ net' = net \cup {HelloPacket(d, p, EphemeralFor(d, p))}
    /\ state' \in [Devices -> States]
    /\ \A e \in Devices \ {d} : state'[e] = state[e]
    /\ state'[d] \in {"HELLO_SENT", "HELLO_RECEIVED"}
    /\ UNCHANGED <<now, restarts, sessions, history>>

(* The steps, by shape.                                                    *)
LEMMA Steps ==
    ASSUME TypeOK, PeerKnown, Origins, [Next]_vars
    PROVE  \/ /\ now' \in 0 .. MaxTime
              /\ UNCHANGED <<state, peer, peerX, restarts, keys, sessions, net, history>>
           \/ \E d, p \in Devices : Initiate(d, p) /\ Offers(d, p)
           \/ \E d \in Devices : Restart(d)
           \/ \E d \in Devices : Sends(d, peer[d])
           \/ \E d \in Devices : \E m \in net : HelloInIdle(d, m) /\ Offers(d, m.from)
           \/ \E d \in Devices : \E m \in net :
                 /\ HelloInHelloSent(d, m)
                 /\ Installs(d, m.from, m.x, DerivedKey(d, m.from, m.x, TRUE))
           \/ \E d \in Devices : \E m \in net : HelloRefused(d, m)
           \/ \E d \in Devices : \E m \in net :
                 /\ KeyExchangeInHelloReceived(d, m)
                 /\ Installs(d, peer[d], peerX[d], DerivedKey(d, peer[d], peerX[d], FALSE))
           \/ \E d \in Devices : \E m \in net : Receives(d, m)
<1>1. CASE UNCHANGED vars
  BY <1>1 DEF vars, keys, history, TypeOK
<1>2. CASE Tick
  <2>1. now' \in 0 .. MaxTime
    BY <1>2, HandshakeAssumption DEF Tick, TypeOK
  <2>2. UNCHANGED <<state, peer, peerX, restarts, keys, sessions, net, history>>
    BY <1>2 DEF Tick, protocol
  <2> QED BY <2>1, <2>2
<1>3. ASSUME NEW d \in Devices, NEW p \in Devices, Initiate(d, p)
      PROVE  Offers(d, p)
  BY <1>3, HandshakeAssumption DEF Initiate, Offers, TypeOK, States
<1>4. ASSUME NEW d \in Devices, NEW m \in net, HelloInIdle(d, m)
      PROVE  Offers(d, m.from)
  <2>1. m.from \in Devices /\ m.from # d
    BY <1>4 DEF HelloInIdle, Incoming, Origins, Sent, TypeOK, Packets
  <2> QED BY <1>4, <2>1 DEF HelloInIdle, Offers, TypeOK, States
<1>5. ASSUME NEW d \in Devices, Application(d)
      PROVE  \/ \E p \in Devices : Initiate(d, p) /\ Offers(d, p)
             \/ Restart(d)
             \/ Sends(d, peer[d])
  BY <1>5, <1>3, SessionSends DEF Application
<1>6. ASSUME NEW d \in Devices, NEW m \in net, Process(d, m)
      PROVE  \/ HelloInIdle(d, m) /\ Offers(d, m.from)
             \/ /\ HelloInHelloSent(d, m)
                /\ Installs(d, m.from, m.x, DerivedKey(d, m.from, m.x, TRUE))
             \/ HelloRefused(d, m)
             \/ /\ KeyExchangeInHelloReceived(d, m)
                /\ Installs(d, peer[d], peerX[d], DerivedKey(d, peer[d], peerX[d], FALSE))
             \/ Receives(d, m)
  <2>1. CASE HelloInIdle(d, m)
    BY <1>4, <2>1
  <2>2. CASE HelloInHelloSent(d, m)
    BY <2>2, InitiatorInstalls
  <2>3. CASE HelloRefused(d, m)
    BY <2>3
  <2>4. CASE KeyExchangeInHelloReceived(d, m)
    BY <2>4, ResponderInstalls
  <2>5. CASE \/ KeyExchangeInKeyExchangeSent(d, m) \/ KeyExchangeRefused(d, m)
             \/ DataOrAck(d, m) \/ Bye(d, m) \/ ReceiveData(d, m)
    BY <2>5, OthersReceive
  <2> QED BY <1>6, <2>1, <2>2, <2>3, <2>4, <2>5 DEF Process
<1> QED BY <1>1, <1>2, <1>5, <1>6 DEF Next

(* Generating a key pair makes a key that did not exist, or offers the one *)
(* in progress (device.py:123-133).                                        *)
LEMMA GenerateFacts ==
    ASSUME TypeOK, Origins, NEW d \in Devices, NEW p \in Devices, GenerateEphemeral(d, p)
    PROVE  /\ Generated \subseteq Generated'
           /\ EphemeralFor(d, p) \in Generated' /\ EphemeralFor(d, p)[1] = d
           /\ \/ eph' = eph
              \/ EphemeralFor(d, p) \notin Generated
           /\ eph' = [eph EXCEPT ![d] = [@ EXCEPT ![p] = EphemeralFor(d, p)]]
           /\ ephCount' \in [Devices -> Nat]
<1>1. ephCount \in [Devices -> Nat] /\ eph \in [Devices -> [Devices -> Ephemerals \cup {Nil}]]
  BY DEF TypeOK
<1>2. CASE eph[d][p] = Nil
  <2>1. /\ EphemeralFor(d, p) = <<d, ephCount[d]>>
        /\ ephCount' = [ephCount EXCEPT ![d] = @ + 1]
    BY <1>2 DEF EphemeralFor, GenerateEphemeral
  <2>2. /\ ephCount' \in [Devices -> Nat]
        /\ \A e \in Devices : ephCount[e] <= ephCount'[e]
        /\ ephCount'[d] = ephCount[d] + 1
    BY <1>1, <2>1
  <2>3. Generated \subseteq Generated'
    BY <1>1, <2>2 DEF Generated, Ephemerals
  <2>4. EphemeralFor(d, p) \in Generated' /\ EphemeralFor(d, p) \notin Generated
    BY <1>1, <2>1, <2>2 DEF Generated, Ephemerals
  <2> QED BY <1>1, <2>1, <2>2, <2>3, <2>4 DEF GenerateEphemeral
<1>3. CASE eph[d][p] # Nil
  <2>1. ephCount' = ephCount /\ EphemeralFor(d, p) = eph[d][p] /\ eph' = eph
    BY <1>1, <1>3 DEF EphemeralFor, GenerateEphemeral
  <2>2. Generated' = Generated
    BY <2>1 DEF Generated
  <2> QED BY <1>1, <1>3, <2>1, <2>2 DEF GenerateEphemeral, Origins, Held
<1> QED BY <1>2, <1>3

(* Every step keeps the types.                                             *)
LEMMA TypeStep ==
    ASSUME TypeOK, PeerKnown, Origins, [Next]_vars
    PROVE  TypeOK'
<1>1. CASE now' \in 0 .. MaxTime /\ UNCHANGED <<state, peer, peerX, restarts, keys, sessions, net, history>>
  BY <1>1 DEF TypeOK, keys, history
<1>2. ASSUME NEW d \in Devices, NEW p \in Devices, Offers(d, p),
             peer' \in [Devices -> Devices \cup {Nil}],
             peerX' \in [Devices -> Ephemerals \cup {Nil}],
             pending' \in [Devices -> SUBSET Devices]
      PROVE  TypeOK'
  <2> DEFINE n == HelloPacket(d, p, EphemeralFor(d, p))
  <2>1. EphemeralFor(d, p) \in Ephemerals /\ n \in Packets
    BY EphemeralForFacts, HelloPacketFacts
  <2>2. net' \subseteq Packets /\ net \subseteq net'
    BY <1>2, <2>1 DEF Offers, TypeOK
  <2>3. /\ ephCount' \in [Devices -> Nat]
        /\ eph' = [eph EXCEPT ![d] = [@ EXCEPT ![p] = EphemeralFor(d, p)]]
    BY <1>2, GenerateFacts DEF Offers
  <2>4. eph' \in [Devices -> [Devices -> Ephemerals \cup {Nil}]]
    BY <2>1, <2>3 DEF TypeOK
  <2> QED BY <1>2, <2>2, <2>3, <2>4 DEF TypeOK, Offers, history
<1>3. ASSUME NEW d \in Devices, NEW p \in Devices, Initiate(d, p), Offers(d, p)
      PROVE  TypeOK'
  <2>1. /\ peer' \in [Devices -> Devices \cup {Nil}]
        /\ peerX' \in [Devices -> Ephemerals \cup {Nil}]
        /\ pending' \in [Devices -> SUBSET Devices]
    BY <1>3 DEF Initiate, TypeOK
  <2> QED BY <1>2, <1>3, <2>1
<1>4. ASSUME NEW d \in Devices, Restart(d)
      PROVE  TypeOK'
  <2>1. restarts' \in [Devices -> 0 .. MaxRestarts]
    BY <1>4, HandshakeAssumption DEF Restart, TypeOK
  <2> QED BY <1>4, <2>1 DEF Restart, TypeOK, keys, history, States
<1>5. ASSUME NEW d \in Devices, NEW p \in Devices, Sends(d, p)
      PROVE  TypeOK'
  <2>1. NextSequence(sessions[d][p]) \in Sessions
    BY <1>5, NextSequenceFacts DEF Sends
  <2>2. sessions' \in [Devices -> [Devices -> Sessions \cup {Nil}]]
    BY <1>5, <2>1 DEF Sends, TypeOK
  <2>3. net' \subseteq Packets /\ net \subseteq net'
    BY <1>5 DEF Sends, TypeOK
  <2> QED BY <1>5, <2>2, <2>3 DEF Sends, TypeOK, protocol, keys, history
<1>6. ASSUME NEW d \in Devices, NEW m \in net, m.type = "HELLO", TakePeer(d, m)
      PROVE  /\ m.from \in Devices
             /\ peer' \in [Devices -> Devices \cup {Nil}]
             /\ peerX' \in [Devices -> Ephemerals \cup {Nil}]
  BY <1>6 DEF TakePeer, TypeOK, Packets
<1>7. ASSUME NEW d \in Devices, NEW m \in net, HelloInIdle(d, m), Offers(d, m.from)
      PROVE  TypeOK'
  <2>1. m.type = "HELLO" /\ TakePeer(d, m)
    BY <1>7 DEF HelloInIdle, Incoming
  <2>2. pending' \in [Devices -> SUBSET Devices]
    BY <1>6, <1>7, <2>1 DEF HelloInIdle, TypeOK
  <2> QED BY <1>2, <1>6, <1>7, <2>1, <2>2
<1>8. ASSUME NEW d \in Devices, NEW p \in Devices, NEW x, NEW key, Installs(d, p, x, key),
             now' = now, restarts' = restarts, state' \in [Devices -> States],
             peer' \in [Devices -> Devices \cup {Nil}],
             peerX' \in [Devices -> Ephemerals \cup {Nil}]
      PROVE  TypeOK'
  <2>1. /\ eph' \in [Devices -> [Devices -> Ephemerals \cup {Nil}]]
        /\ ephCount' \in [Devices -> Nat]
        /\ pending' \in [Devices -> SUBSET Devices]
    BY <1>8 DEF Installs, ForgetEphemeral, TypeOK
  <2>2. sessions' \in [Devices -> [Devices -> Sessions \cup {Nil}]]
    BY <1>8 DEF Installs, TypeOK
  <2>3. net' \subseteq Packets /\ net \subseteq net'
    BY <1>8 DEF Installs, TypeOK
  <2>4. installed' \in [Devices -> SUBSET Keys]
    BY <1>8 DEF Installs, TypeOK
  <2>5. delivered' = delivered /\ redelivered' = redelivered
    BY <1>8 DEF Installs
  <2> QED BY <1>8, <2>1, <2>2, <2>3, <2>4, <2>5 DEF TypeOK
<1>9. ASSUME NEW d \in Devices, NEW m \in net, HelloInHelloSent(d, m),
             Installs(d, m.from, m.x, DerivedKey(d, m.from, m.x, TRUE))
      PROVE  TypeOK'
  <2>1. m.type = "HELLO" /\ TakePeer(d, m) /\ now' = now /\ restarts' = restarts
    BY <1>9 DEF HelloInHelloSent, Incoming
  <2>2. state' \in [Devices -> States]
    BY <1>9 DEF HelloInHelloSent, TypeOK, States
  <2> QED BY <1>6, <1>8, <1>9, <2>1, <2>2
<1>10. ASSUME NEW d \in Devices, NEW m \in net, HelloRefused(d, m)
       PROVE  TypeOK'
  <2>1. /\ m.type = "HELLO" /\ TakePeer(d, m)
        /\ UNCHANGED <<now, state, restarts, keys, sessions, net, history>>
    BY <1>10 DEF HelloRefused, Incoming
  <2> QED BY <1>6, <2>1 DEF TypeOK, keys, history
<1>11. ASSUME NEW d \in Devices, NEW m \in net, KeyExchangeInHelloReceived(d, m),
              Installs(d, peer[d], peerX[d], DerivedKey(d, peer[d], peerX[d], FALSE))
       PROVE  TypeOK'
  <2>1. /\ peer[d] \in Devices
        /\ now' = now /\ restarts' = restarts /\ peer' = peer /\ peerX' = peerX
    BY <1>11 DEF KeyExchangeInHelloReceived, PeerKnown
  <2>2. state' \in [Devices -> States]
    BY <1>11 DEF KeyExchangeInHelloReceived, TypeOK, States
  <2>3. /\ peer' \in [Devices -> Devices \cup {Nil}]
        /\ peerX' \in [Devices -> Ephemerals \cup {Nil}]
    BY <2>1 DEF TypeOK
  <2> QED BY <1>8, <1>11, <2>1, <2>2, <2>3
<1>12. ASSUME NEW d \in Devices, NEW m \in net, Receives(d, m)
       PROVE  TypeOK'
  <2>1. sessions' \in [Devices -> [Devices -> Sessions \cup {Nil}]]
    BY <1>12, ReceivesKeeps DEF TypeOK
  <2>2. state' \in [Devices -> States]
    BY <1>12 DEF Receives, TypeOK, States
  <2>3. delivered' \subseteq net /\ redelivered' \subseteq net
    BY <1>12 DEF Receives, TypeOK
  <2> QED BY <1>12, <2>1, <2>2, <2>3 DEF Receives, TypeOK, keys
<1>13. \A d \in Devices : Sends(d, peer[d]) => peer[d] \in Devices
  BY DEF Sends
<1> QED BY <1>1, <1>3, <1>4, <1>5, <1>7, <1>9, <1>10, <1>11, <1>12, <1>13, Steps

(* A HELLO tells a device who its peer is, and gives it a key of the peer. *)
LEMMA TakePeerFacts ==
    ASSUME TypeOK, PeerKnown, Origins, NEW d \in Devices, NEW m \in net,
           m.type = "HELLO", m.to = d, TakePeer(d, m)
    PROVE  /\ peer'[d] \in Devices /\ peer'[d] # d
           /\ peerX'[d] \in Ephemerals /\ peerX'[d] \in Generated /\ peerX'[d][1] # d
           /\ \A e \in Devices \ {d} : peer'[e] = peer[e] /\ peerX'[e] = peerX[e]
  BY DEF TakePeer, TypeOK, PeerKnown, Origins, Sent, Packets

(* Every step keeps PeerKnown.                                             *)
LEMMA PeerKnownStep ==
    ASSUME TypeOK, PeerKnown, Origins, [Next]_vars
    PROVE  PeerKnown'
<1>1. CASE now' \in 0 .. MaxTime /\ UNCHANGED <<state, peer, peerX, restarts, keys, sessions, net, history>>
  BY <1>1 DEF PeerKnown
<1>2. ASSUME NEW d \in Devices, NEW p \in Devices, Offers(d, p)
      PROVE  \A m \in net' : m.type = "HELLO" => m.x \in Ephemerals
  <2>1. HelloPacket(d, p, EphemeralFor(d, p)).x \in Ephemerals
    BY EphemeralForFacts DEF HelloPacket
  <2> QED BY <1>2, <2>1 DEF Offers, PeerKnown
<1>3. ASSUME NEW d \in Devices, NEW p \in Devices, Initiate(d, p), Offers(d, p)
      PROVE  PeerKnown'
  <2>1. /\ peer' = [peer EXCEPT ![d] = p] /\ p # d
        /\ state' = [state EXCEPT ![d] = "HELLO_SENT"] /\ peerX' = peerX
    BY <1>3 DEF Initiate, Offers
  <2> QED BY <1>2, <1>3, <2>1 DEF PeerKnown, TypeOK
<1>4. ASSUME NEW d \in Devices, Restart(d)
      PROVE  PeerKnown'
  BY <1>4, NilIsNone DEF Restart, PeerKnown, TypeOK
<1>5. ASSUME NEW d \in Devices, Sends(d, peer[d])
      PROVE  PeerKnown'
  BY <1>5 DEF Sends, PeerKnown, protocol
<1>6. ASSUME NEW d \in Devices, NEW m \in net, HelloInIdle(d, m), Offers(d, m.from)
      PROVE  PeerKnown'
  <2>1. m.type = "HELLO" /\ m.to = d /\ TakePeer(d, m) /\ m.from \in Devices
    BY <1>6 DEF HelloInIdle, Incoming, Offers
  <2> QED BY <1>2, <1>6, <2>1, TakePeerFacts DEF PeerKnown, Offers
<1>7. ASSUME NEW d \in Devices, NEW p \in Devices, NEW x, NEW key, Installs(d, p, x, key)
      PROVE  \A m \in net' : m.type = "HELLO" => m.x \in Ephemerals
  BY <1>7 DEF Installs, PeerKnown
<1>8. ASSUME NEW d \in Devices, NEW m \in net, HelloInHelloSent(d, m),
             Installs(d, m.from, m.x, DerivedKey(d, m.from, m.x, TRUE))
      PROVE  PeerKnown'
  <2>1. /\ m.type = "HELLO" /\ m.to = d /\ TakePeer(d, m) /\ m.from \in Devices
        /\ \A e \in Devices \ {d} : state'[e] = state[e]
    BY <1>8 DEF HelloInHelloSent, Incoming, TypeOK, Packets
  <2> QED BY <1>7, <1>8, <2>1, TakePeerFacts DEF PeerKnown
<1>9. ASSUME NEW d \in Devices, NEW m \in net, HelloRefused(d, m)
      PROVE  PeerKnown'
  <2>1. m.type = "HELLO" /\ m.to = d /\ TakePeer(d, m) /\ UNCHANGED <<state, net>>
    BY <1>9 DEF HelloRefused, Incoming
  <2> QED BY <2>1, TakePeerFacts DEF PeerKnown
<1>10. ASSUME NEW d \in Devices, NEW m \in net, KeyExchangeInHelloReceived(d, m),
              Installs(d, peer[d], peerX[d], DerivedKey(d, peer[d], peerX[d], FALSE))
       PROVE  PeerKnown'
  <2>1. /\ state[d] = "HELLO_RECEIVED" /\ peer' = peer /\ peerX' = peerX
        /\ \A e \in Devices \ {d} : state'[e] = state[e]
    BY <1>10 DEF KeyExchangeInHelloReceived, TypeOK
  <2>2. peer[d] \in Devices
    BY <2>1 DEF PeerKnown
  <2> QED BY <1>7, <1>10, <2>1, <2>2 DEF PeerKnown
<1>11. ASSUME NEW d \in Devices, NEW m \in net, Receives(d, m)
       PROVE  PeerKnown'
  BY <1>11 DEF Receives, PeerKnown, TypeOK
<1> QED BY <1>1, <1>3, <1>4, <1>5, <1>6, <1>8, <1>9, <1>10, <1>11, Steps

(* Every step keeps Origins.                                               *)
LEMMA OriginsStep ==
    ASSUME TypeOK, PeerKnown, Origins, [Next]_vars
    PROVE  Origins'
<1> USE DEF Origins
<1>1. CASE now' \in 0 .. MaxTime /\ UNCHANGED <<state, peer, peerX, restarts, keys, sessions, net, history>>
  BY <1>1 DEF Held, Sent, Taken, Used, Generated, keys, history
<1>2. ASSUME NEW d \in Devices, NEW p \in Devices, Offers(d, p)
      PROVE  Generated \subseteq Generated' /\ Held' /\ Sent' /\ Used'
  <2> DEFINE x == EphemeralFor(d, p)
             n == HelloPacket(d, p, x)
  <2>1. /\ Generated \subseteq Generated'
        /\ x \in Generated' /\ x[1] = d
        /\ eph' = eph \/ x \notin Generated
        /\ eph' = [eph EXCEPT ![d] = [@ EXCEPT ![p] = x]]
    BY <1>2, GenerateFacts DEF Offers
  <2>2. n.from = d /\ n.to = p /\ n.x = x
    BY DEF HelloPacket
  <2>3. net' = net \cup {n} /\ p # d /\ installed' = installed
    BY <1>2 DEF Offers, history
  <2> HIDE DEF x, n
  <2>4. Held'
    <3>1. CASE eph' = eph
      BY <2>1, <3>1 DEF Held
    <3>2. CASE x \notin Generated
      <4>1. eph \in [Devices -> [Devices -> Ephemerals \cup {Nil}]]
        BY DEF TypeOK
      <4>2. /\ eph'[d][p] = x
            /\ \A e, q \in Devices : <<e, q>> # <<d, p>> => eph'[e][q] = eph[e][q]
        BY <2>1, <4>1
      <4> QED BY <2>1, <3>2, <4>2 DEF Held
    <3> QED BY <2>1, <3>1, <3>2
  <2>5. Sent'
    BY <2>1, <2>2, <2>3 DEF Sent
  <2>6. Used'
    BY <2>1, <2>3 DEF Used
  <2> QED BY <2>1, <2>4, <2>5, <2>6
<1>3. ASSUME NEW d \in Devices, NEW p \in Devices, Initiate(d, p), Offers(d, p)
      PROVE  Origins'
  <2>1. peerX' = peerX
    BY <1>3 DEF Initiate
  <2>2. Taken'
    BY <1>2, <1>3, <2>1 DEF Taken
  <2> QED BY <1>2, <1>3, <2>2
<1>4. ASSUME NEW d \in Devices, Restart(d)
      PROVE  Origins'
  <2>1. UNCHANGED <<eph, ephCount, net, installed>> /\ peerX' = [peerX EXCEPT ![d] = Nil]
    BY <1>4 DEF Restart, keys, history
  <2>2. Generated' = Generated
    BY <2>1 DEF Generated
  <2> QED BY <2>1, <2>2 DEF Held, Sent, Taken, Used, TypeOK
<1>5. ASSUME NEW d \in Devices, Sends(d, peer[d])
      PROVE  Origins'
  <2>1. UNCHANGED <<eph, ephCount, peerX, installed>>
    BY <1>5 DEF Sends, protocol, keys, history
  <2>2. Generated' = Generated
    BY <2>1 DEF Generated
  <2>3. Sent'
    BY <1>5, <2>2 DEF Sent, Sends
  <2> QED BY <2>1, <2>2, <2>3 DEF Held, Taken, Used
<1>6. ASSUME NEW d \in Devices, NEW m \in net, HelloInIdle(d, m), Offers(d, m.from)
      PROVE  Origins'
  <2>1. m.type = "HELLO" /\ m.to = d /\ TakePeer(d, m) /\ m.from \in Devices
    BY <1>6 DEF HelloInIdle, Incoming, Offers
  <2>2. Taken'
    BY <1>2, <1>6, <2>1, TakePeerFacts DEF Taken
  <2> QED BY <1>2, <1>6, <2>1, <2>2
<1>7. ASSUME NEW d \in Devices, NEW p \in Devices, p # d,
             NEW x \in Generated, NEW key, Installs(d, p, x, key)
      PROVE  Generated' = Generated /\ Held' /\ Sent' /\ Used'
  <2>1. /\ eph' = [eph EXCEPT ![d][p] = Nil] /\ ephCount' = ephCount
        /\ installed' = [installed EXCEPT ![d] = @ \cup {key}]
        /\ key.secret = {eph[d][p], x} /\ eph[d][p] # Nil
    BY <1>7 DEF Installs, ForgetEphemeral
  <2>2. Generated' = Generated
    BY <2>1 DEF Generated
  <2>3. Held'
    <3>1. eph \in [Devices -> [Devices -> Ephemerals \cup {Nil}]]
      BY DEF TypeOK
    <3>2. /\ eph'[d][p] = Nil
          /\ \A e, q \in Devices : <<e, q>> # <<d, p>> => eph'[e][q] = eph[e][q]
      BY <2>1, <3>1
    <3> QED BY <2>2, <3>2 DEF Held
  <2>4. Sent'
    BY <1>7, <2>2 DEF Sent, Installs
  <2>5. Used'
    <3>1. key.secret \subseteq Generated
      BY <2>1 DEF Held
    <3>2. \A e \in Devices : \A k \in installed'[e] : k \in installed[e] \/ k = key
      BY <2>1 DEF TypeOK
    <3> QED BY <2>2, <3>1, <3>2 DEF Used
  <2> QED BY <2>2, <2>3, <2>4, <2>5
<1>8. ASSUME NEW d \in Devices, NEW m \in net, HelloInHelloSent(d, m),
             Installs(d, m.from, m.x, DerivedKey(d, m.from, m.x, TRUE))
      PROVE  Origins'
  <2>1. m.type = "HELLO" /\ m.to = d /\ TakePeer(d, m) /\ m.from \in Devices
    BY <1>8 DEF HelloInHelloSent, Incoming, TypeOK, Packets
  <2>2. m.x \in Generated /\ m.from # d
    BY <2>1 DEF Sent
  <2>3. Generated' = Generated /\ Held' /\ Sent' /\ Used'
    BY <1>7, <1>8, <2>1, <2>2
  <2>4. Taken'
    BY <2>1, <2>3, TakePeerFacts DEF Taken
  <2> QED BY <2>3, <2>4
<1>9. ASSUME NEW d \in Devices, NEW m \in net, HelloRefused(d, m)
      PROVE  Origins'
  <2>1. /\ m.type = "HELLO" /\ m.to = d /\ TakePeer(d, m)
        /\ UNCHANGED <<eph, ephCount, net, installed>>
    BY <1>9 DEF HelloRefused, Incoming, keys, history
  <2>2. Generated' = Generated
    BY <2>1 DEF Generated
  <2>3. Taken'
    BY <2>1, <2>2, TakePeerFacts DEF Taken
  <2> QED BY <2>1, <2>2, <2>3 DEF Held, Sent, Used
<1>10. ASSUME NEW d \in Devices, NEW m \in net, KeyExchangeInHelloReceived(d, m),
              Installs(d, peer[d], peerX[d], DerivedKey(d, peer[d], peerX[d], FALSE))
       PROVE  Origins'
  <2>1. state[d] = "HELLO_RECEIVED" /\ peerX' = peerX
    BY <1>10 DEF KeyExchangeInHelloReceived
  <2>2. peer[d] \in Devices /\ peer[d] # d /\ peerX[d] \in Generated
    BY <2>1, NilIsNone DEF PeerKnown, Taken
  <2>3. Generated' = Generated /\ Held' /\ Sent' /\ Used'
    BY <1>7, <1>10, <2>2
  <2> QED BY <2>1, <2>3 DEF Taken
<1>11. ASSUME NEW d \in Devices, NEW m \in net, Receives(d, m)
       PROVE  Origins'
  <2>1. UNCHANGED <<eph, ephCount, peerX, net, installed>>
    BY <1>11 DEF Receives, keys
  <2> QED BY <2>1 DEF Held, Sent, Taken, Used, Generated
<1> QED BY <1>1, <1>3, <1>4, <1>5, <1>6, <1>8, <1>9, <1>10, <1>11, Steps

(* What every step does to sessions: nothing but greet, send in one        *)
(* session, install a key its owner never had, or receive.                 *)
LEMMA SessionSteps ==
    ASSUME KeyInv, [Next]_vars
    PROVE  \/ /\ UNCHANGED <<sessions, history>>
              /\ net \subseteq net' /\ \A m \in net' \ net : m.type = "HELLO" /\ m.key = Nil
           \/ \E d, p \in Devices : Sends(d, p)
           \/ \E d, p \in Devices : \E x \in Generated : \E key \in Keys \ installed[d] :
                 x[1] # d /\ Installs(d, p, x, key)
           \/ \E d \in Devices : \E m \in net : Receives(d, m)
<1> USE DEF KeyInv
<1>1. CASE now' \in 0 .. MaxTime /\ UNCHANGED <<state, peer, peerX, restarts, keys, sessions, net, history>>
  BY <1>1
<1>2. ASSUME NEW d \in Devices, NEW p \in Devices, Offers(d, p)
      PROVE  /\ UNCHANGED <<sessions, history>>
             /\ net \subseteq net' /\ \A m \in net' \ net : m.type = "HELLO" /\ m.key = Nil
  <2>1. LET n == HelloPacket(d, p, EphemeralFor(d, p)) IN n.type = "HELLO" /\ n.key = Nil
    BY DEF HelloPacket
  <2> QED BY <1>2, <2>1 DEF Offers
<1>3. ASSUME NEW d \in Devices, Restart(d)
      PROVE  UNCHANGED <<sessions, history>> /\ net' = net
  BY <1>3 DEF Restart
<1>4. ASSUME NEW d \in Devices, NEW m \in net, HelloRefused(d, m)
      PROVE  UNCHANGED <<sessions, history>> /\ net' = net
  BY <1>4 DEF HelloRefused
<1>5. ASSUME NEW d \in Devices, NEW p \in Devices, NEW x, NEW key, Installs(d, p, x, key)
      PROVE  key \in Keys \ installed[d]
  BY <1>5 DEF Installs, EphemeralsForgotten
<1>6. ASSUME NEW d \in Devices, NEW m \in net, HelloInHelloSent(d, m)
      PROVE  m.from \in Devices /\ m.x \in Generated /\ m.x[1] # d
  BY <1>6 DEF HelloInHelloSent, Incoming, Origins, Sent, TypeOK, Packets
<1>7. ASSUME NEW d \in Devices, NEW m \in net, KeyExchangeInHelloReceived(d, m)
      PROVE  peer[d] \in Devices /\ peerX[d] \in Generated /\ peerX[d][1] # d
  BY <1>7, NilIsNone DEF KeyExchangeInHelloReceived, PeerKnown, Origins, Taken
<1>8. ASSUME NEW d \in Devices, Sends(d, peer[d])
      PROVE  peer[d] \in Devices
  BY <1>8 DEF Sends
<1>9. \A d \in Devices : \A m \in net : Offers(d, m.from) => m.from \in Devices
  BY DEF Offers
<1> HIDE DEF KeyInv
<1>10. TypeOK /\ PeerKnown /\ Origins
  BY DEF KeyInv
<1> QED BY <1>1, <1>2, <1>3, <1>4, <1>5, <1>6, <1>7, <1>8, <1>9, <1>10, Steps

-----------------------------------------------------------------------------
(* Forward secrecy.                                                        *)

(* Installing a key forgets its ephemeral; a new ephemeral is in no key.   *)
LEMMA ForgottenStep ==
    ASSUME KeyInv, [Next]_vars
    PROVE  EphemeralsForgotten'
<1>1. TypeOK /\ PeerKnown /\ Origins /\ EphemeralsForgotten
  BY DEF KeyInv
<1>2. eph \in [Devices -> [Devices -> Ephemerals \cup {Nil}]]
      /\ installed \in [Devices -> SUBSET Keys]
  BY <1>1 DEF TypeOK
<1>3. ASSUME NEW d \in Devices, NEW p \in Devices, Offers(d, p)
      PROVE  EphemeralsForgotten'
  <2> DEFINE x == EphemeralFor(d, p)
  <2>1. /\ eph' = eph \/ x \notin Generated
        /\ eph' = [eph EXCEPT ![d] = [@ EXCEPT ![p] = x]]
        /\ installed' = installed
    BY <1>1, <1>3, GenerateFacts DEF Offers, history
  <2> HIDE DEF x
  <2>2. CASE eph' = eph
    BY <1>1, <2>1, <2>2 DEF EphemeralsForgotten
  <2>3. CASE x \notin Generated
    <3>1. \A e, q \in Devices : eph'[e][q] = x \/ eph'[e][q] = eph[e][q]
      BY <1>2, <2>1
    <3> QED BY <1>1, <2>1, <2>3, <3>1 DEF EphemeralsForgotten, Origins, Used
  <2> QED BY <2>1, <2>2, <2>3
<1>4. ASSUME NEW d \in Devices, NEW p \in Devices, NEW x \in Generated, x[1] # d,
             NEW key, Installs(d, p, x, key)
      PROVE  EphemeralsForgotten'
  <2>1. /\ eph' = [eph EXCEPT ![d][p] = Nil]
        /\ installed' = [installed EXCEPT ![d] = @ \cup {key}]
        /\ key \in Keys /\ key.secret = {eph[d][p], x} /\ eph[d][p] # Nil
    BY <1>4 DEF Installs, ForgetEphemeral
  <2>2. /\ eph'[d][p] = Nil
        /\ \A e, q \in Devices : <<e, q>> # <<d, p>> => eph'[e][q] = eph[e][q]
    BY <1>2, <2>1
  <2>3. \A e \in Devices : installed'[e] \subseteq Keys
    BY <1>2, <2>1
  <2>4. \A k \in Keys : Nil \notin k.secret
    BY NilIsNone DEF Keys
  <2>5. \A q \in Devices \ {p} : eph[d][q] \notin key.secret
    <3>1. TAKE q \in Devices \ {p}
    <3>2. eph[d][q] # eph[d][p]
      BY <1>1, <2>1 DEF Origins, Held
    <3>3. eph[d][q] # x
      <4>1. x \in Ephemerals
        BY DEF Generated
      <4> QED BY <1>1, <1>4, <4>1, NilIsNone DEF Origins, Held
    <3> QED BY <2>1, <3>2, <3>3
  <2>6. ASSUME NEW e \in Devices, NEW q \in Devices, NEW k \in installed'[e]
        PROVE  eph'[e][q] \notin k.secret
    <3>1. CASE e = d /\ q = p
      BY <2>2, <2>3, <2>4, <3>1
    <3>2. CASE e = d /\ q # p /\ k = key
      BY <2>2, <2>5, <3>2
    <3>3. CASE ~(e = d /\ q = p) /\ k \in installed[e]
      BY <1>1, <2>2, <3>3 DEF EphemeralsForgotten
    <3> QED BY <1>2, <2>1, <3>1, <3>2, <3>3
  <2> QED BY <2>6 DEF EphemeralsForgotten
<1>5. ASSUME eph' = eph, installed' = installed
      PROVE  EphemeralsForgotten'
  BY <1>1, <1>5 DEF EphemeralsForgotten
<1>6. CASE now' \in 0 .. MaxTime /\ UNCHANGED <<state, peer, peerX, restarts, keys, sessions, net, history>>
  BY <1>5, <1>6 DEF keys, history
<1>7. ASSUME NEW d \in Devices, Restart(d)
      PROVE  EphemeralsForgotten'
  BY <1>5, <1>7 DEF Restart, keys, history
<1>8. ASSUME NEW d \in Devices, Sends(d, peer[d])
      PROVE  EphemeralsForgotten'
  BY <1>5, <1>8 DEF Sends, keys, history
<1>9. ASSUME NEW d \in Devices, NEW m \in net, HelloInHelloSent(d, m),
             Installs(d, m.from, m.x, DerivedKey(d, m.from, m.x, TRUE))
      PROVE  EphemeralsForgotten'
  <2>1. m.from \in Devices /\ m.x \in Generated /\ m.x[1] # d
    BY <1>1, <1>9 DEF HelloInHelloSent, Incoming, Origins, Sent, TypeOK, Packets
  <2> QED BY <1>4, <1>9, <2>1
<1>10. ASSUME NEW d \in Devices, NEW m \in net, HelloRefused(d, m)
       PROVE  EphemeralsForgotten'
  BY <1>5, <1>10 DEF HelloRefused, keys, history
<1>11. ASSUME NEW d \in Devices, NEW m \in net, KeyExchangeInHelloReceived(d, m),
              Installs(d, peer[d], peerX[d], DerivedKey(d, peer[d], peerX[d], FALSE))
       PROVE  EphemeralsForgotten'
  <2>1. peer[d] \in Devices /\ peerX[d] \in Generated /\ peerX[d][1] # d
    BY <1>1, <1>11, NilIsNone DEF KeyExchangeInHelloReceived, PeerKnown, Origins, Taken
  <2> QED BY <1>4, <1>11, <2>1
<1>12. ASSUME NEW d \in Devices, NEW m \in net, Receives(d, m)
       PROVE  EphemeralsForgotten'
  BY <1>5, <1>12 DEF Receives, keys
<1>13. \A d \in Devices : \A m \in net : Offers(d, m.from) => m.from \in Devices
  BY DEF Offers
<1> QED BY <1>1, <1>3, <1>6, <1>7, <1>8, <1>9, <1>10, <1>11, <1>12, <1>13, Steps

-----------------------------------------------------------------------------
(* Sequence numbers.                                                       *)

NumberInv == KeysInstalled /\ CounterAhead /\ SequenceUnique

(* A packet sent in a session has a number above all earlier ones.         *)
LEMMA SendsNumbers ==
    ASSUME TypeOK, NumberInv, NEW d \in Devices, NEW p \in Devices, Sends(d, p)
    PROVE  NumberInv'
<1> DEFINE sess == sessions[d][p]
<1>1. PICK n \in Packets :
          /\ net' = net \cup {n}
          /\ n.type # "HELLO" /\ n.from = d
          /\ n.key = sess.key /\ n.seq = sess.localSeq
  BY DEF Sends
<1>2. /\ sess \in Sessions
      /\ NextSequence(sess).key = sess.key /\ NextSequence(sess).localSeq = sess.localSeq + 1
      /\ NextSequence(sess) \in Sessions
  BY NextSequenceFacts DEF Sends
<1>3. sess.key \in Keys /\ sess.localSeq \in Nat /\ sess.key # Nil
  BY <1>2, NilIsNone DEF Sessions
<1>4. /\ sessions'[d][p] = NextSequence(sess)
      /\ \A e, q \in Devices : <<e, q>> # <<d, p>> => sessions'[e][q] = sessions[e][q]
      /\ installed' = installed
  BY DEF Sends, TypeOK, history
<1>5. sess # Nil /\ NextSequence(sess) # Nil
  BY <1>2, NilIsNone
<1>6. \A m \in net : m.from \in Devices /\ m.seq \in Nat
  BY DEF TypeOK, Packets
<1> HIDE DEF sess
<1>7. KeysInstalled'
  <2>1. sess.key \in installed[d]
    BY <1>5 DEF NumberInv, KeysInstalled, HasSession, sess
  <2>2. \A e, q \in Devices : HasSession(e, q)' => HasSession(e, q) /\ sessions'[e][q].key = sessions[e][q].key
    BY <1>2, <1>4, <1>5 DEF HasSession, sess
  <2> QED BY <1>1, <1>3, <1>4, <2>1, <2>2 DEF NumberInv, KeysInstalled
<1>8. CounterAhead'
  <2> SUFFICES ASSUME NEW m \in net', NEW q \in Devices, HasSession(m.from, q)',
                      m.key = sessions'[m.from][q].key
               PROVE  m.seq < sessions'[m.from][q].localSeq
    BY DEF CounterAhead
  <2>1. CASE m \in net
    <3>1. CASE m.from = d /\ q = p
      <4>1. m.seq < sess.localSeq
        BY <1>2, <1>4, <1>5, <2>1, <3>1 DEF NumberInv, CounterAhead, HasSession, sess
      <4> QED BY <1>2, <1>3, <1>4, <1>6, <2>1, <3>1, <4>1
    <3>2. CASE ~(m.from = d /\ q = p)
      BY <1>4, <1>6, <2>1, <3>2 DEF NumberInv, CounterAhead, HasSession
    <3> QED BY <3>1, <3>2
  <2>2. CASE m = n
    <3>1. q = p
      BY <1>1, <1>2, <1>4, <1>5, <2>2 DEF NumberInv, KeysInstalled, HasSession, sess
    <3> QED BY <1>1, <1>2, <1>3, <1>4, <2>2, <3>1
  <2> QED BY <1>1, <2>1, <2>2
<1>9. SequenceUnique'
  <2>1. \A m \in net : m.key = n.key /\ m.from = n.from => m.seq # n.seq
    <3> SUFFICES ASSUME NEW m \in net, m.key = n.key, m.from = n.from
                 PROVE  m.seq # n.seq
      OBVIOUS
    <3>1. m.seq < sess.localSeq
      BY <1>1, <1>5 DEF NumberInv, CounterAhead, HasSession, sess
    <3> QED BY <1>1, <1>3, <1>6, <3>1
  <2> QED BY <1>1, <2>1 DEF NumberInv, SequenceUnique
<1> QED BY <1>7, <1>8, <1>9 DEF NumberInv

(* A key new to its owner has numbered nothing yet.                        *)
LEMMA InstallsNumbers ==
    ASSUME TypeOK, NumberInv, NEW d \in Devices, NEW p \in Devices, NEW x,
           NEW key \in Keys \ installed[d], Installs(d, p, x, key)
    PROVE  NumberInv'
<1>1. PICK ss \in [Devices -> Sessions \cup {Nil}] :
          /\ sessions' = [sessions EXCEPT ![d] = ss]
          /\ ss[p] \in Sessions /\ ss[p].key = key
          /\ Grown([sessions[d] EXCEPT ![p] = ss[p]], ss)
          /\ \/ net' = net
             \/ \E n \in Packets :
                   /\ net' = net \cup {n}
                   /\ n.type = "KEY_EXCHANGE" /\ n.from = d
                   /\ n.key = key /\ n.seq < ss[p].localSeq
  BY DEF Installs
<1>2. installed' = [installed EXCEPT ![d] = @ \cup {key}]
  BY DEF Installs
<1>3. /\ sessions'[d] = ss
      /\ \A e \in Devices \ {d} : sessions'[e] = sessions[e]
      /\ \A e \in Devices : installed[e] \subseteq installed'[e]
      /\ key \in installed'[d]
  BY <1>1, <1>2 DEF TypeOK
<1>4. \A q \in Devices \ {p} :
          /\ ss[q] # Nil <=> sessions[d][q] # Nil
          /\ ss[q] # Nil => /\ ss[q].key = sessions[d][q].key
                            /\ ss[q].localSeq = sessions[d][q].localSeq
  <2>1. sessions[d] \in [Devices -> Sessions \cup {Nil}]
    BY DEF TypeOK
  <2> DEFINE old == [sessions[d] EXCEPT ![p] = ss[p]]
  <2>2. \A q \in Devices \ {p} : old[q] = sessions[d][q]
    BY <2>1
  <2>3. Grown(old, ss)
    BY <1>1
  <2> HIDE DEF old
  <2> QED BY <2>2, <2>3 DEF Grown
<1>5. key # Nil /\ ss[p] # Nil
  BY <1>1, NilIsNone
<1>6. \A m \in net : m.from \in Devices /\ ~(m.from = d /\ m.key = key)
  BY <1>5 DEF NumberInv, KeysInstalled, TypeOK, Packets
<1>7. KeysInstalled'
  <2>1. \A e, q \in Devices : HasSession(e, q)' /\ ~(e = d /\ q = p) =>
            /\ HasSession(e, q) /\ sessions'[e][q].key = sessions[e][q].key
            /\ sessions[e][q].key \in installed[e]
    BY <1>3, <1>4 DEF HasSession, NumberInv, KeysInstalled
  <2>2. \A e, q \in Devices : HasSession(e, q)' => sessions'[e][q].key \in installed'[e]
    BY <1>1, <1>3, <2>1
  <2>3. \A e, q, r \in Devices :
            HasSession(e, q)' /\ HasSession(e, r)' /\ sessions'[e][q].key = sessions'[e][r].key => q = r
    <3> SUFFICES ASSUME NEW e \in Devices, NEW q \in Devices, NEW r \in Devices,
                        HasSession(e, q)', HasSession(e, r)',
                        sessions'[e][q].key = sessions'[e][r].key
                 PROVE  q = r
      OBVIOUS
    <3>1. CASE e = d /\ (q = p \/ r = p)
      BY <1>1, <1>3, <2>1, <3>1
    <3>2. CASE ~(e = d /\ (q = p \/ r = p))
      BY <2>1, <3>2 DEF NumberInv, KeysInstalled
    <3> QED BY <3>1, <3>2
  <2>4. \A m \in net' : m.key # Nil => m.key \in installed'[m.from]
    BY <1>1, <1>3, <1>6 DEF NumberInv, KeysInstalled
  <2>5. \A m \in net' : m.type = "HELLO" <=> m.key = Nil
    BY <1>1, <1>5 DEF NumberInv, KeysInstalled
  <2> QED BY <2>2, <2>3, <2>4, <2>5 DEF KeysInstalled
<1>8. CounterAhead'
  <2> SUFFICES ASSUME NEW m \in net', NEW q \in Devices, HasSession(m.from, q)',
                      m.key = sessions'[m.from][q].key
               PROVE  m.seq < sessions'[m.from][q].localSeq
    BY DEF CounterAhead
  <2>1. CASE m \in net
    <3>1. ~(m.from = d /\ q = p)
      BY <1>1, <1>3, <1>6, <2>1
    <3>2. HasSession(m.from, q) /\ sessions'[m.from][q].key = sessions[m.from][q].key
          /\ sessions'[m.from][q].localSeq = sessions[m.from][q].localSeq
      BY <1>3, <1>4, <1>6, <2>1, <3>1 DEF HasSession
    <3> QED BY <2>1, <3>2 DEF NumberInv, CounterAhead
  <2>2. CASE m \notin net
    <3>1. m.from = d /\ m.key = key /\ m.seq < ss[p].localSeq
      BY <1>1, <2>2
    <3>2. q = p
      <4>1. CASE q # p
        <5>1. sessions[d][q] # Nil /\ sessions[d][q].key = key
          BY <1>3, <1>4, <3>1, <4>1 DEF HasSession
        <5> QED BY <5>1 DEF NumberInv, KeysInstalled, HasSession
      <4> QED BY <4>1
    <3> QED BY <1>3, <3>1, <3>2
  <2> QED BY <2>1, <2>2
<1>9. SequenceUnique'
  BY <1>1, <1>6 DEF NumberInv, SequenceUnique
<1> QED BY <1>7, <1>8, <1>9 DEF NumberInv

(* Every step keeps NumberInv.                                             *)
LEMMA NumberStep ==
    ASSUME KeyInv, NumberInv, [Next]_vars
    PROVE  NumberInv'
<1>1. TypeOK
  BY DEF KeyInv
<1>2. CASE /\ UNCHANGED <<sessions, history>>
           /\ net \subseteq net' /\ \A m \in net' \ net : m.type = "HELLO" /\ m.key = Nil
  <2>1. sessions' = sessions /\ installed' = installed
    BY <1>2 DEF history
  <2>2. \A m \in net' : m.key # Nil => m \in net
    BY <1>2
  <2>3. KeysInstalled'
    BY <1>2, <2>1, <2>2 DEF NumberInv, KeysInstalled, HasSession
  <2>4. CounterAhead'
    <3>1. \A d, p \in Devices : HasSession(d, p) => sessions[d][p].key # Nil
      BY <1>1, NilIsNone DEF TypeOK, HasSession, Sessions
    <3>2. \A m \in net : m.from \in Devices
      BY <1>1 DEF TypeOK, Packets
    <3>3. \A m \in net' : m.from \in Devices
      BY <1>1, TypeStep DEF KeyInv, TypeOK, Packets
    <3> QED BY <1>2, <2>1, <2>2, <3>1, <3>2, <3>3 DEF NumberInv, CounterAhead, HasSession
  <2>5. SequenceUnique'
    BY <2>2 DEF NumberInv, SequenceUnique
  <2> QED BY <2>3, <2>4, <2>5 DEF NumberInv
<1>3. ASSUME NEW d \in Devices, NEW m \in net, Receives(d, m)
      PROVE  NumberInv'
  <2>1. PICK ss \in [Devices -> Sessions \cup {Nil}] :
            sessions' = [sessions EXCEPT ![d] = ss] /\ Kept(sessions[d], ss)
    BY <1>1, <1>3, ReceivesKeeps
  <2>2. net' = net /\ installed' = installed
    BY <1>3 DEF Receives
  <2>3. \A e, q \in Devices : HasSession(e, q)' =>
            /\ HasSession(e, q) /\ sessions'[e][q].key = sessions[e][q].key
            /\ sessions'[e][q].localSeq = sessions[e][q].localSeq
    BY <1>1, <2>1 DEF HasSession, Kept, TypeOK
  <2>4. \A n \in net : n.from \in Devices
    BY <1>1 DEF TypeOK, Packets
  <2> QED BY <2>2, <2>3, <2>4 DEF NumberInv, KeysInstalled, CounterAhead, SequenceUnique
<1> QED BY <1>1, <1>2, <1>3, SendsNumbers, InstallsNumbers, SessionSteps

-----------------------------------------------------------------------------
(* Deliveries.                                                             *)

DeliveryInv == DeliveredCovered /\ NoDuplicateDelivery

(* Every step keeps DeliveryInv.                                           *)
LEMMA DeliveryStep ==
    ASSUME KeyInv, NumberInv, DeliveryInv, [Next]_vars
    PROVE  DeliveryInv'
<1>1. TypeOK /\ KeysInstalled
  BY DEF KeyInv, NumberInv
<1>2. /\ \A m \in net : m.to \in Devices /\ m.from \in Devices /\ m.seq \in Nat
      /\ delivered \subseteq net
  BY <1>1 DEF TypeOK, Packets
<1>3. ASSUME delivered' = delivered, redelivered' = redelivered,
             \A e \in Devices : installed[e] \subseteq installed'[e],
             \A e, q \in Devices : HasSession(e, q)' =>
                 \/ sessions'[e][q].key \notin installed[e]
                 \/ /\ HasSession(e, q) /\ sessions'[e][q].key = sessions[e][q].key
                    /\ \A s \in Nat : ~SequenceFresh(sessions[e][q], s) => ~SequenceFresh(sessions'[e][q], s)
      PROVE  DeliveryInv'
  <2>1. NoDuplicateDelivery'
    BY <1>3 DEF DeliveryInv, NoDuplicateDelivery
  <2>2. ASSUME NEW m \in delivered'
        PROVE  /\ m.key # Nil /\ m.key \in installed'[m.to]
               /\ HasSession(m.to, m.from)' /\ sessions'[m.to][m.from].key = m.key =>
                      ~SequenceFresh(sessions'[m.to][m.from], m.seq)
    <3>1. /\ m.to \in Devices /\ m.from \in Devices /\ m.seq \in Nat
          /\ m.key # Nil /\ m.key \in installed[m.to]
          /\ HasSession(m.to, m.from) /\ sessions[m.to][m.from].key = m.key =>
                 ~SequenceFresh(sessions[m.to][m.from], m.seq)
      BY <1>2, <1>3 DEF DeliveryInv, DeliveredCovered
    <3> QED BY <1>3, <3>1
  <2> QED BY <2>1, <2>2 DEF DeliveryInv, DeliveredCovered, SequenceFresh
<1>4. CASE UNCHANGED <<sessions, history>>
  BY <1>3, <1>4 DEF history, HasSession
<1>5. ASSUME NEW d \in Devices, NEW p \in Devices, Sends(d, p)
      PROVE  DeliveryInv'
  <2> DEFINE r == NextSequence(sessions[d][p])
  <2>1. /\ r.key = sessions[d][p].key
        /\ \A s \in Nat : SequenceFresh(r, s) <=> SequenceFresh(sessions[d][p], s)
        /\ sessions[d][p] # Nil
    BY <1>5, NextSequenceFacts, NilIsNone DEF Sends
  <2>2. /\ sessions'[d][p] = r
        /\ \A e, q \in Devices : <<e, q>> # <<d, p>> => sessions'[e][q] = sessions[e][q]
        /\ UNCHANGED history
    BY <1>1, <1>5 DEF Sends, TypeOK
  <2> HIDE DEF r
  <2>3. \A e, q \in Devices : HasSession(e, q)' =>
            /\ HasSession(e, q) /\ sessions'[e][q].key = sessions[e][q].key
            /\ \A s \in Nat : ~SequenceFresh(sessions[e][q], s) => ~SequenceFresh(sessions'[e][q], s)
    BY <2>1, <2>2 DEF HasSession
  <2> QED BY <1>3, <2>2, <2>3 DEF history
<1>6. ASSUME NEW d \in Devices, NEW p \in Devices, NEW x, NEW key \in Keys \ installed[d],
             Installs(d, p, x, key)
      PROVE  DeliveryInv'
  <2>1. PICK ss \in [Devices -> Sessions \cup {Nil}] :
            /\ sessions' = [sessions EXCEPT ![d] = ss]
            /\ ss[p].key = key
            /\ Grown([sessions[d] EXCEPT ![p] = ss[p]], ss)
    BY <1>6 DEF Installs
  <2> DEFINE old == [sessions[d] EXCEPT ![p] = ss[p]]
  <2>2. \A q \in Devices \ {p} : old[q] = sessions[d][q]
    BY <1>1 DEF TypeOK
  <2>3. Grown(old, ss)
    BY <2>1
  <2> HIDE DEF old
  <2>4. \A q \in Devices \ {p} : ss[q] # Nil =>
            /\ sessions[d][q] # Nil /\ ss[q].key = sessions[d][q].key
            /\ \A s \in Nat : ~SequenceFresh(sessions[d][q], s) => ~SequenceFresh(ss[q], s)
    BY <2>2, <2>3 DEF Grown
  <2>5. sessions'[d] = ss /\ \A e \in Devices \ {d} : sessions'[e] = sessions[e]
    BY <1>1, <2>1 DEF TypeOK
  <2>6. /\ delivered' = delivered /\ redelivered' = redelivered
        /\ \A e \in Devices : installed[e] \subseteq installed'[e]
    BY <1>1, <1>6 DEF Installs, TypeOK
  <2>7. \A e, q \in Devices : HasSession(e, q)' =>
            \/ sessions'[e][q].key \notin installed[e]
            \/ /\ HasSession(e, q) /\ sessions'[e][q].key = sessions[e][q].key
               /\ \A s \in Nat : ~SequenceFresh(sessions[e][q], s) => ~SequenceFresh(sessions'[e][q], s)
    BY <1>6, <2>1, <2>4, <2>5 DEF HasSession
  <2> QED BY <1>3, <2>6, <2>7
<1>7. ASSUME NEW d \in Devices, NEW m \in net, Receives(d, m)
      PROVE  DeliveryInv'
  <2>1. PICK ss \in [Devices -> Sessions \cup {Nil}] :
            sessions' = [sessions EXCEPT ![d] = ss] /\ Kept(sessions[d], ss)
    BY <1>1, <1>7, ReceivesKeeps
  <2>2. \A e, q \in Devices : HasSession(e, q)' =>
            /\ HasSession(e, q) /\ sessions'[e][q].key = sessions[e][q].key
            /\ \A s \in Nat : ~SequenceFresh(sessions[e][q], s) => ~SequenceFresh(sessions'[e][q], s)
    BY <1>1, <2>1 DEF HasSession, Kept, TypeOK
  <2>3. installed' = installed /\ m.to = d
    BY <1>7 DEF Receives
  <2>4. CASE UNCHANGED <<delivered, redelivered>>
    BY <1>3, <2>2, <2>3, <2>4
  <2>5. CASE /\ Receivable(d, m) /\ m.type # "HELLO" /\ Decrypts(AfterReceive(d, m), m)
             /\ sessions' = [sessions EXCEPT ![d] = AfterReceive(d, m)]
             /\ delivered' = delivered \cup {m}
             /\ redelivered' = redelivered \cup ({m} \cap delivered)
    <3> DEFINE rr == AfterReceive(d, m)
    <3>1. Grown(sessions[d], rr) /\ (rr[m.from] # Nil => ~SequenceFresh(rr[m.from], m.seq))
      BY <1>1, AfterReceiveFacts
    <3>2. rr[m.from] # Nil /\ rr[m.from].key = m.key
      BY <2>5 DEF Decrypts
    <3>3. sessions'[d] = rr
      BY <1>1, <2>5 DEF TypeOK
    <3> HIDE DEF rr
    <3>4. HasSession(d, m.from) /\ sessions[d][m.from].key = m.key
      BY <1>2, <3>1, <3>2 DEF Grown, HasSession
    <3>5. m.key \in installed[d] /\ m.key # Nil
      BY <1>1, <1>2, <2>5, <3>4 DEF KeysInstalled
    <3>6. SequenceFresh(sessions[d][m.from], m.seq)
      BY <2>5, <3>4 DEF Receivable, PassesReplayCheck
    <3>7. m \notin delivered
      BY <2>3, <3>4, <3>6 DEF DeliveryInv, DeliveredCovered
    <3>8. NoDuplicateDelivery'
      BY <2>5, <3>7 DEF DeliveryInv, NoDuplicateDelivery
    <3>9. DeliveredCovered'
      <4>1. ASSUME NEW n \in delivered'
            PROVE  /\ n.key # Nil /\ n.key \in installed'[n.to]
                   /\ HasSession(n.to, n.from)' /\ sessions'[n.to][n.from].key = n.key =>
                          ~SequenceFresh(sessions'[n.to][n.from], n.seq)
        <5>1. CASE n = m
          BY <2>3, <3>1, <3>2, <3>3, <3>5, <5>1
        <5>2. CASE n \in delivered
          <6>1. /\ n.to \in Devices /\ n.from \in Devices /\ n.seq \in Nat
                /\ n.key # Nil /\ n.key \in installed[n.to]
                /\ HasSession(n.to, n.from) /\ sessions[n.to][n.from].key = n.key =>
                       ~SequenceFresh(sessions[n.to][n.from], n.seq)
            BY <1>2, <5>2 DEF DeliveryInv, DeliveredCovered
          <6> QED BY <2>2, <2>3, <6>1
        <5> QED BY <2>5, <5>1, <5>2
      <4> QED BY <4>1 DEF DeliveredCovered, SequenceFresh
    <3> QED BY <3>8, <3>9 DEF DeliveryInv
  <2> QED BY <1>7, <2>4, <2>5 DEF Receives
<1> QED BY <1>4, <1>5, <1>6, <1>7, SessionSteps

-----------------------------------------------------------------------------
(* Key confirmation.                                                       *)

(* Every step keeps ConfirmedBySomePeer.                                   *)
LEMMA ConfirmedStep ==
    ASSUME KeyInv, NumberInv, ConfirmedBySomePeer, [Next]_vars
    PROVE  ConfirmedBySomePeer'
<1>1. TypeOK /\ PeerKnown /\ Origins /\ KeysInstalled
  BY DEF KeyInv, NumberInv
<1>2. ASSUME \A e \in Devices : installed[e] \subseteq installed'[e],
             \A e \in Devices : state'[e] = "ESTABLISHED" =>
                 \/ /\ state[e] = "ESTABLISHED"
                    /\ \A p \in Devices : HasSession(e, p) =>
                          HasSession(e, p)' /\ sessions'[e][p].key = sessions[e][p].key
                 \/ \E p \in Devices : HasSession(e, p)' /\ sessions'[e][p].key \in installed'[p]
      PROVE  ConfirmedBySomePeer'
  BY <1>2 DEF ConfirmedBySomePeer
<1>3. ASSUME UNCHANGED <<sessions, installed>>,
             \A e \in Devices : state'[e] = "ESTABLISHED" => state[e] = "ESTABLISHED"
      PROVE  ConfirmedBySomePeer'
  BY <1>2, <1>3 DEF HasSession
<1>4. CASE now' \in 0 .. MaxTime /\ UNCHANGED <<state, peer, peerX, restarts, keys, sessions, net, history>>
  BY <1>3, <1>4 DEF history
<1>5. ASSUME NEW d \in Devices, NEW p \in Devices, Offers(d, p)
      PROVE  ConfirmedBySomePeer'
  BY <1>3, <1>5 DEF Offers, history
<1>6. ASSUME NEW d \in Devices, Restart(d)
      PROVE  ConfirmedBySomePeer'
  BY <1>1, <1>3, <1>6 DEF Restart, history, TypeOK
<1>7. ASSUME NEW d \in Devices, NEW m \in net, HelloRefused(d, m)
      PROVE  ConfirmedBySomePeer'
  BY <1>3, <1>7 DEF HelloRefused, history
<1>8. ASSUME NEW d \in Devices, NEW p \in Devices, Sends(d, p)
      PROVE  ConfirmedBySomePeer'
  <2> DEFINE r == NextSequence(sessions[d][p])
  <2>1. r.key = sessions[d][p].key /\ r # Nil
    BY <1>8, NextSequenceFacts, NilIsNone DEF Sends
  <2>2. /\ sessions'[d][p] = r
        /\ \A e, q \in Devices : <<e, q>> # <<d, p>> => sessions'[e][q] = sessions[e][q]
        /\ UNCHANGED <<state, installed>>
    BY <1>1, <1>8 DEF Sends, TypeOK, protocol, history
  <2> HIDE DEF r
  <2> QED BY <1>2, <2>1, <2>2 DEF HasSession
<1>9. ASSUME NEW m \in net, NEW ss \in [Devices -> Sessions \cup {Nil}],
             ss[m.from] # Nil, ss[m.from].key = m.key
      PROVE  m.from \in Devices /\ m.key \in installed[m.from]
  <2>1. m.from \in Devices
    BY <1>1 DEF TypeOK, Packets
  <2>2. m.key # Nil
    BY <1>9, <2>1, NilIsNone DEF Sessions
  <2> QED BY <1>1, <2>1, <2>2 DEF KeysInstalled
<1>10. ASSUME NEW d \in Devices, NEW p \in Devices, NEW x, NEW key, Installs(d, p, x, key)
       PROVE  /\ \A e \in Devices : installed[e] \subseteq installed'[e]
              /\ \A e \in Devices \ {d} : sessions'[e] = sessions[e]
              /\ sessions'[d] \in [Devices -> Sessions \cup {Nil}]
  BY <1>1, <1>10 DEF Installs, TypeOK
<1>11. ASSUME NEW d \in Devices, NEW m \in net, HelloInHelloSent(d, m),
              Installs(d, m.from, m.x, DerivedKey(d, m.from, m.x, TRUE))
       PROVE  ConfirmedBySomePeer'
  <2>1. /\ m.from \in Devices
        /\ state'[d] = "KEY_EXCHANGE_SENT" /\ \A e \in Devices \ {d} : state'[e] = state[e]
    BY <1>1, <1>11 DEF HelloInHelloSent, TypeOK, Packets
  <2> QED BY <1>2, <1>10, <1>11, <2>1 DEF HasSession
<1>12. ASSUME NEW d \in Devices, NEW m \in net, KeyExchangeInHelloReceived(d, m),
              Installs(d, peer[d], peerX[d], DerivedKey(d, peer[d], peerX[d], FALSE))
       PROVE  ConfirmedBySomePeer'
  <2>1. /\ state[d] = "HELLO_RECEIVED"
        /\ \A e \in Devices \ {d} : state'[e] = state[e]
    BY <1>1, <1>12 DEF KeyExchangeInHelloReceived, TypeOK
  <2>2. peer[d] \in Devices
    BY <1>1, <2>1 DEF PeerKnown
  <2>3. ASSUME state'[d] = "ESTABLISHED"
        PROVE  \E p \in Devices : HasSession(d, p)' /\ sessions'[d][p].key \in installed'[p]
    <3>1. Decrypts(sessions'[d], m)
      BY <1>1, <1>12, <2>3, ResponderInstalls
    <3>2. sessions'[d] \in [Devices -> Sessions \cup {Nil}]
          /\ \A e \in Devices : installed[e] \subseteq installed'[e]
      BY <1>10, <1>12, <2>2
    <3> QED BY <1>9, <3>1, <3>2 DEF HasSession, Decrypts
  <2>4. /\ \A e \in Devices : installed[e] \subseteq installed'[e]
        /\ \A e \in Devices \ {d} : sessions'[e] = sessions[e]
    BY <1>10, <1>12, <2>2
  <2>5. ASSUME NEW e \in Devices \ {d}, state'[e] = "ESTABLISHED"
        PROVE  /\ state[e] = "ESTABLISHED"
               /\ \A p \in Devices : HasSession(e, p) =>
                      HasSession(e, p)' /\ sessions'[e][p].key = sessions[e][p].key
    BY <2>1, <2>4, <2>5 DEF HasSession
  <2> QED BY <1>2, <2>3, <2>4, <2>5
<1>13. ASSUME NEW d \in Devices, NEW m \in net, Receives(d, m)
       PROVE  ConfirmedBySomePeer'
  <2> DEFINE rr == AfterReceive(d, m)
  <2>1. Grown(sessions[d], rr)
    BY <1>1, AfterReceiveFacts
  <2>2. installed' = installed
    BY <1>13 DEF Receives
  <2>3. CASE sessions' = [sessions EXCEPT ![d] = rr]
    <3>1. sessions'[d] = rr /\ \A e \in Devices \ {d} : sessions'[e] = sessions[e]
      BY <1>1, <2>3 DEF TypeOK
    <3>2. \A e \in Devices : state'[e] = "ESTABLISHED" =>
              state[e] = "ESTABLISHED" \/ (e = d /\ Decrypts(rr, m))
      BY <1>1, <1>13 DEF Receives, TypeOK
    <3> HIDE DEF rr
    <3>3. \A e, p \in Devices : HasSession(e, p) =>
              HasSession(e, p)' /\ sessions'[e][p].key = sessions[e][p].key
      BY <2>1, <3>1 DEF Grown, HasSession
    <3>4. Decrypts(rr, m) =>
              \E p \in Devices : HasSession(d, p)' /\ sessions'[d][p].key \in installed'[p]
      BY <1>9, <2>1, <2>2, <3>1 DEF Decrypts, Grown, HasSession
    <3> QED BY <1>2, <2>2, <3>2, <3>3, <3>4
  <2>4. CASE /\ state' = [state EXCEPT ![d] = "CLOSED"]
             /\ \E p \in Devices : sessions' = [sessions EXCEPT ![d] = [rr EXCEPT ![p] = Nil]]
    <3>1. \A e \in Devices \ {d} : sessions'[e] = sessions[e] /\ state'[e] = state[e]
      BY <1>1, <2>4 DEF TypeOK
    <3>2. state'[d] = "CLOSED"
      BY <1>1, <2>4 DEF TypeOK
    <3> QED BY <1>2, <2>2, <3>1, <3>2 DEF HasSession
  <2> QED BY <1>13, <2>3, <2>4 DEF Receives
<1>14. \A d \in Devices : Sends(d, peer[d]) => peer[d] \in Devices
  BY DEF Sends
<1>15. \A d \in Devices : \A m \in net : Offers(d, m.from) => m.from \in Devices
  BY DEF Offers
<1> QED BY <1>1, <1>4, <1>5, <1>6, <1>7, <1>8, <1>11, <1>12, <1>13, <1>14, <1>15, Steps

-----------------------------------------------------------------------------
(* Whom an instance is established with.                                   *)

(* The states between the peer's HELLO and the peer's BYE.                 *)
Underway == {"HELLO_RECEIVED", "KEY_EXCHANGE_SENT", "ESTABLISHED"}

(* p has greeted d.                                                        *)
Greeted(d, p) == \E m \in net : m.type = "HELLO" /\ m.from = p /\ m.to = d

(* A device has sessions with, and an instance under way has for its       *)
(* peer, only devices that greeted it.                                     *)
Greetings ==
    /\ \A d, p \in Devices : HasSession(d, p) => Greeted(d, p)
    /\ \A d \in Devices : state[d] \in Underway => Greeted(d, peer[d])

(* A session is installed with the sender of a HELLO, which stays peer     *)
(* until another HELLO replaces it.                                        *)
LEMMA GreetingsStep ==
    ASSUME TypeOK, PeerKnown, Origins, Greetings, [Next]_vars
    PROVE  Greetings'
<1>1. /\ sessions \in [Devices -> [Devices -> Sessions \cup {Nil}]]
      /\ state \in [Devices -> States] /\ peer \in [Devices -> Devices \cup {Nil}]
      /\ \A m \in net : m.from \in Devices
  BY DEF TypeOK, Packets
<1>2. ASSUME net \subseteq net', sessions' = sessions,
             \A d \in Devices : state'[d] \in Underway =>
                 \/ state[d] \in Underway /\ peer'[d] = peer[d]
                 \/ Greeted(d, peer'[d])
      PROVE  Greetings'
  BY <1>2 DEF Greetings, Greeted, HasSession
<1>3. CASE UNCHANGED <<state, peer, peerX, restarts, keys, sessions, net, history>>
  BY <1>2, <1>3
<1>4. ASSUME NEW d \in Devices, NEW p \in Devices, Initiate(d, p)
      PROVE  Greetings'
  BY <1>1, <1>2, <1>4 DEF Initiate, Underway
<1>5. ASSUME NEW d \in Devices, Restart(d)
      PROVE  Greetings'
  BY <1>1, <1>2, <1>5 DEF Restart, Underway
<1>6. ASSUME NEW d \in Devices, Sends(d, peer[d])
      PROVE  Greetings'
  <2>1. /\ net \subseteq net' /\ state' = state /\ peer' = peer
        /\ peer[d] \in Devices /\ HasSession(d, peer[d])
    BY <1>6, NilIsNone DEF Sends, protocol, HasSession
  <2>2. \A e, q \in Devices : HasSession(e, q)' => HasSession(e, q)
    BY <1>1, <1>6, <2>1 DEF Sends, HasSession
  <2> QED BY <2>1, <2>2 DEF Greetings, Greeted
<1>7. ASSUME NEW d \in Devices, NEW m \in net, HelloInIdle(d, m) \/ HelloRefused(d, m)
      PROVE  Greetings'
  <2>1. /\ m.type = "HELLO" /\ m.to = d /\ net \subseteq net' /\ sessions' = sessions
        /\ peer' = [peer EXCEPT ![d] = m.from]
        /\ \A e \in Devices \ {d} : state'[e] = state[e]
    BY <1>1, <1>7 DEF HelloInIdle, HelloRefused, Incoming, TakePeer
  <2>2. Greeted(d, peer'[d]) /\ \A e \in Devices \ {d} : peer'[e] = peer[e]
    BY <1>1, <2>1 DEF Greeted
  <2> QED BY <1>2, <2>1, <2>2
<1>8. ASSUME NEW d \in Devices, NEW p \in Devices, NEW x, NEW key, Installs(d, p, x, key),
             Greeted(d, p),
             \A e \in Devices : state'[e] \in Underway =>
                 \/ state[e] \in Underway /\ peer'[e] = peer[e]
                 \/ Greeted(e, peer'[e])
      PROVE  Greetings'
  <2>1. PICK ss \in [Devices -> Sessions \cup {Nil}] :
            /\ sessions' = [sessions EXCEPT ![d] = ss]
            /\ Grown([sessions[d] EXCEPT ![p] = ss[p]], ss)
    BY <1>8 DEF Installs
  <2>2. net \subseteq net'
    BY <1>8 DEF Installs
  <2> DEFINE old == [sessions[d] EXCEPT ![p] = ss[p]]
  <2>3. \A q \in Devices \ {p} : old[q] = sessions[d][q]
    BY <1>1
  <2>4. Grown(old, ss)
    BY <2>1
  <2> HIDE DEF old
  <2>5. \A q \in Devices \ {p} : ss[q] # Nil => sessions[d][q] # Nil
    BY <2>3, <2>4 DEF Grown
  <2>6. \A e, q \in Devices : HasSession(e, q)' => HasSession(e, q) \/ (e = d /\ q = p)
    BY <1>1, <2>1, <2>5 DEF HasSession
  <2> QED BY <1>8, <2>2, <2>6 DEF Greetings, Greeted
<1>9. ASSUME NEW d \in Devices, NEW m \in net, HelloInHelloSent(d, m),
             Installs(d, m.from, m.x, DerivedKey(d, m.from, m.x, TRUE))
      PROVE  Greetings'
  <2>1. /\ m.type = "HELLO" /\ m.to = d /\ m.from \in Devices
        /\ peer' = [peer EXCEPT ![d] = m.from]
        /\ \A e \in Devices \ {d} : state'[e] = state[e]
    BY <1>1, <1>9 DEF HelloInHelloSent, Incoming, TakePeer
  <2>2. /\ Greeted(d, m.from) /\ Greeted(d, peer'[d])
        /\ \A e \in Devices \ {d} : peer'[e] = peer[e]
    BY <1>1, <2>1 DEF Greeted
  <2>3. \A e \in Devices : state'[e] \in Underway =>
            \/ state[e] \in Underway /\ peer'[e] = peer[e]
            \/ Greeted(e, peer'[e])
    BY <2>1, <2>2
  <2> DEFINE key == DerivedKey(d, m.from, m.x, TRUE)
  <2>4. Installs(d, m.from, m.x, key)
    BY <1>9
  <2> HIDE DEF key
  <2> QED BY <1>8, <2>1, <2>2, <2>3, <2>4
<1>10. ASSUME NEW d \in Devices, NEW m \in net, KeyExchangeInHelloReceived(d, m),
              Installs(d, peer[d], peerX[d], DerivedKey(d, peer[d], peerX[d], FALSE))
       PROVE  Greetings'
  <2>1. /\ state[d] = "HELLO_RECEIVED" /\ peer' = peer
        /\ \A e \in Devices \ {d} : state'[e] = state[e]
    BY <1>1, <1>10 DEF KeyExchangeInHelloReceived
  <2>2. peer[d] \in Devices /\ Greeted(d, peer[d])
    BY <2>1 DEF PeerKnown, Greetings, Underway
  <2> QED BY <1>8, <1>10, <2>1, <2>2 DEF Underway
<1>11. ASSUME NEW d \in Devices, NEW m \in net, Receives(d, m)
       PROVE  Greetings'
  <2>1. PICK ss \in [Devices -> Sessions \cup {Nil}] :
            sessions' = [sessions EXCEPT ![d] = ss] /\ Kept(sessions[d], ss)
    BY <1>11, ReceivesKeeps
  <2>2. \A e, q \in Devices : HasSession(e, q)' => HasSession(e, q)
    BY <1>1, <2>1 DEF HasSession, Kept
  <2>3. net' = net /\ peer' = peer
    BY <1>11 DEF Receives
  <2>4. \A e \in Devices : state'[e] \in Underway =>
            state[e] \in Underway
    BY <1>1, <1>11 DEF Receives, Underway
  <2> QED BY <2>2, <2>3, <2>4 DEF Greetings, Greeted
<1> QED BY <1>3, <1>4, <1>5, <1>6, <1>7, <1>9, <1>10, <1>11, Steps

-----------------------------------------------------------------------------
(* The theorems.                                                           *)

Inv == KeyInv /\ NumberInv /\ DeliveryInv /\ ConfirmedBySomePeer

(* Inv is an invariant of protocol.py and device.py together.              *)
THEOREM Invariance == Spec => []Inv
<1>1. Init => Inv
  BY InitInv DEF Inv, NumberInv, DeliveryInv
<1>2. Inv /\ [Next]_vars => Inv'
  <2> SUFFICES ASSUME Inv, [Next]_vars
               PROVE  Inv'
    OBVIOUS
  <2>1. KeyInv /\ NumberInv /\ DeliveryInv /\ ConfirmedBySomePeer
    BY DEF Inv
  <2>2. TypeOK /\ PeerKnown /\ Origins
    BY <2>1 DEF KeyInv
  <2>3. KeyInv'
    BY <2>1, <2>2, TypeStep, PeerKnownStep, OriginsStep, ForgottenStep DEF KeyInv
  <2>4. NumberInv'
    BY <2>1, NumberStep
  <2>5. DeliveryInv'
    BY <2>1, DeliveryStep
  <2>6. ConfirmedBySomePeer'
    BY <2>1, ConfirmedStep
  <2> QED BY <2>3, <2>4, <2>5, <2>6 DEF Inv
<1> QED BY <1>1, <1>2, PTL DEF Spec

(* The state of Protocol and Device keeps its types.                       *)
THEOREM TypeCorrect == Spec => []TypeOK
<1>1. Inv => TypeOK
  BY DEF Inv, KeyInv
<1> QED BY <1>1, Invariance, PTL

(* Forward secrecy: complete_key_exchange() leaves no ephemeral key behind *)
(* that went into a session key (device.py:185-190).                       *)
THEOREM ForwardSecrecy == Spec => []EphemeralsForgotten
<1>1. Inv => EphemeralsForgotten
  BY DEF Inv, KeyInv
<1> QED BY <1>1, Invariance, PTL

(* No sequence number is used twice under a key, however often the devices *)
(* re-key or restart.                                                      *)
THEOREM SequenceNumbersUnique == Spec => []SequenceUnique
<1>1. Inv => SequenceUnique
  BY DEF Inv, NumberInv
<1> QED BY <1>1, Invariance, PTL

(* receive_data() returns no packet twice, across replaced sessions too.   *)
THEOREM DeliveredOnce == Spec => []NoDuplicateDelivery
<1>1. Inv => NoDuplicateDelivery
  BY DEF Inv, DeliveryInv
<1> QED BY <1>1, Invariance, PTL

(* An ESTABLISHED device shares a key with a device that derived it.       *)
THEOREM KeyConfirmation == Spec => []ConfirmedBySomePeer
<1>1. Inv => ConfirmedBySomePeer
  BY DEF Inv
<1> QED BY <1>1, Invariance, PTL

(* An ESTABLISHED device shares the key with its peer, if nobody else has  *)
(* greeted it: receive_packet() and complete_key_exchange() install no     *)
(* session with a device that sent no HELLO.                               *)
THEOREM PeerConfirmation == Spec => []KeyConfirmed
<1>1. Init => Greetings
  BY DEF Init, Greetings, Underway, HasSession
<1>2. Inv /\ Greetings /\ [Next]_vars => Greetings'
  BY GreetingsStep DEF Inv, KeyInv
<1>3. Inv /\ Greetings => KeyConfirmed
  <2> SUFFICES ASSUME ConfirmedBySomePeer, Greetings, NEW d \in Devices,
                      state[d] = "ESTABLISHED",
                      \A m \in net : m.type = "HELLO" /\ m.to = d => m.from = peer[d]
               PROVE  /\ HasSession(d, peer[d])
                      /\ sessions[d][peer[d]].key \in installed[peer[d]]
    BY DEF Inv, KeyConfirmed
  <2>1. PICK p \in Devices : HasSession(d, p) /\ sessions[d][p].key \in installed[p]
    BY DEF ConfirmedBySomePeer
  <2>2. p = peer[d]
    BY <2>1 DEF Greetings, Greeted
  <2> QED BY <2>1, <2>2
<1> QED BY <1>1, <1>2, <1>3, Invariance, PTL DEF Spec
=============================================================================
