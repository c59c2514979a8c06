---------------------------- MODULE AtMostOnce -----------------------------
(***************************************************************************)
(* What replay protection promises to the layers above it: a datagram      *)
(* service that may lose, delay and reorder packets but hands each packet  *)
(* that was sent to the receiver at most once, and none that was not.      *)
(***************************************************************************)
EXTENDS Naturals

CONSTANT Ids              \* identities of packets

VARIABLES sent,           \* the packets sent so far
          delivered       \* how many times each one was handed up

Init == /\ sent = {}
        /\ delivered = [i \in Ids |-> 0]

Send(i) == /\ i \notin sent
           /\ sent' = sent \cup {i}
           /\ UNCHANGED delivered

Deliver(i) == /\ i \in sent
              /\ delivered[i] = 0
              /\ delivered' = [delivered EXCEPT ![i] = 1]
              /\ UNCHANGED sent

Next == \E i \in Ids : Send(i) \/ Deliver(i)

Spec == Init /\ [][Next]_<<sent, delivered>>
=============================================================================
