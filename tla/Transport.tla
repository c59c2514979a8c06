----------------------------- MODULE Transport ------------------------------
(***************************************************************************)
(* InProcessTransport of ztlnp/transport.py: linked pairs of endpoints,    *)
(* each with an inbox the other end fills, a closed flag, and a thread of  *)
(* the application that calls recv() in a loop until it raises             *)
(* TransportClosed.  What a datagram holds is left to the module that      *)
(* extends this one.                                                       *)
(*                                                                         *)
(* send() tests the two flags and then puts.  A close() between the test   *)
(* and the put has the outcome of one right after the put, so send() is a  *)
(* single step.                                                            *)
(***************************************************************************)
EXTENDS Integers, Sequences

CONSTANTS Nodes,
          Links,          \* the pairs {n, m} that create_pair() has linked
          RecvTimeouts    \* recv() is called with a timeout, not with None

ASSUME TransportAssumption ==
    /\ \A l \in Links : \E n, m \in Nodes : n # m /\ l = {n, m}
    /\ RecvTimeouts \in BOOLEAN

(* <<n, m>> is the end node n holds of its link to m.                      *)
Endpoints == {e \in Nodes \X Nodes : {e[1], e[2]} \in Links /\ e[1] # e[2]}

Peer(e) == <<e[2], e[1]>>

VARIABLES inbox,          \* _inbox of each endpoint
          closed,         \* the endpoints whose _closed event is set
          reader          \* the thread of each endpoint: in recv(), or ended

transport == <<inbox, closed, reader>>

TransportInit ==
    /\ inbox = [e \in Endpoints |-> <<>>]
    /\ closed = {}
    /\ reader = [e \in Endpoints |-> "waiting"]

(* send() does not raise TransportClosed.                                  *)
CanSend(e) == e \notin closed /\ Peer(e) \notin closed

Put(boxes, e, datagram) == [boxes EXCEPT ![Peer(e)] = Append(@, datagram)]

(* Slip: recv() does not look at the flag.                                 *)
AfterCallUnguarded(e) == "waiting"

(* The next recv() raises TransportClosed, which ends the thread, or blocks. *)
AfterCall(e) == IF e \in closed THEN "stopped" ELSE "waiting"

(* get() returns the oldest datagram, of a transport closed meanwhile too, *)
(* and the thread calls recv() again once it has dealt with it.            *)
Get(e) ==
    /\ reader[e] = "waiting" /\ inbox[e] # <<>>
    /\ reader' = [reader EXCEPT ![e] = AfterCall(e)]
    /\ UNCHANGED closed

(* recv() raises TransportTimeout and is called again, which changes       *)
(* nothing while the transport is open.                                    *)
RecvTimeout(e) ==
    /\ RecvTimeouts
    /\ reader[e] = "waiting" /\ inbox[e] = <<>>
    /\ reader' = [reader EXCEPT ![e] = AfterCall(e)]
    /\ UNCHANGED <<inbox, closed>>

(* close() sets the flag and wakes nobody.  The thread is blocked in       *)
(* get(), or between two calls of recv(), the next of which raises.        *)
Close(e) ==
    /\ e \notin closed
    /\ closed' = closed \cup {e}
    /\ \/ UNCHANGED reader
       \/ reader' = [reader EXCEPT ![e] = "stopped"]
    /\ UNCHANGED inbox

(* "recv() blocks until a datagram arrives or the transport is closed"     *)
(* (transport.py:20): a thread in recv() does not outlive its transport;   *)
(* there is always a time when no closed transport has one left.           *)
ReadersStop == []<>(\A e \in closed : reader[e] = "stopped")
=============================================================================
