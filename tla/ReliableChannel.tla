-------------------------- MODULE ReliableChannel ---------------------------
(***************************************************************************)
(* ReliableChannel of ztlnp/reliability.py at the sending end of an        *)
(* established session, and the receiver that acknowledges every DATA      *)
(* packet its session lets through.  A retransmission repeats the bytes of *)
(* the packet, its timestamp included, so the backoff of the channel runs  *)
(* against the clock-skew window of the receiver's session.                *)
(*                                                                         *)
(* Time passes in ticks and only ages are kept, each as long as it         *)
(* matters, so the clock needs no bound.  The two clocks agree.  The       *)
(* network repeats, reorders, delays and loses.                            *)
(***************************************************************************)
EXTENDS Session, FiniteSets

CONSTANTS BaseTimeout,    \* base_timeout_ms
          MaxTimeout,     \* max_timeout_ms
          MaxRetries,     \* max_retries
          PollDelay,      \* how late the application's poll may be
          MaxSends        \* bound on the DATA packets

ASSUME ReliableChannelAssumption ==
    /\ BaseTimeout \in Nat \ {0} /\ MaxTimeout \in Nat \ {0}
    /\ MaxRetries \in Nat /\ PollDelay \in Nat /\ MaxSends \in Nat

Numbers == 1 .. MaxSends

VARIABLES sender,         \* the sender's Session
          receiver,       \* the receiver's Session
          pending,        \* _pending: retries, next_timeout_ms and the time
                          \* since sent_at of each packet
          built,          \* time since the timestamp of each packet of the
                          \* queue; of a reported one, when it was reported
          net,            \* packets in the network that are not too old
          copies,         \* history: transmissions of each packet
          delivered,      \* history: numbers the receiver accepted
          acked,          \* history: numbers process_ack() retired
          reported        \* history: numbers a RetransmitError named

vars == <<sender, receiver, pending, built, net, copies, delivered, acked, reported>>

Lower(m, n) == IF m < n THEN m ELSE n

Without(f, S) == [x \in DOMAIN f \ S |-> f[x]]
With(f, x, v) == [y \in DOMAIN f \cup {x} |-> IF y = x THEN v ELSE f[y]]

(* The base timeout doubled n times.                                       *)
Doubled[n \in Nat] == IF n = 0 THEN BaseTimeout ELSE 2 * Doubled[n - 1]

(* The time n attempts take when each waits for its timeout in full, by    *)
(* the rule of reliability.py:10: intervals double, up to a cap.           *)
Interval(n) == IF n = 0 THEN BaseTimeout ELSE Lower(Doubled[n], MaxTimeout)

Patience[n \in Nat] == IF n = 0 THEN 0 ELSE Patience[n - 1] + Interval(n - 1)

(* No packet stays in the queue for longer.                                *)
LongestWait == Patience[MaxRetries + 1] + (MaxRetries + 1) * PollDelay

(* The last copy of a packet leaves within the clock-skew window, however  *)
(* late the polls.                                                         *)
BackoffFits == Patience[MaxRetries] + MaxRetries * PollDelay <= MaxClockSkew

-----------------------------------------------------------------------------
DataPacket(s) == [type |-> "DATA", seq |-> s, acked |-> 0, age |-> built[s]]

(* send(), and the transmission of what it returns.                        *)
Send ==
    LET s == sender.localSeq IN
    /\ s <= MaxSends
    /\ sender' = NextSequence(sender)
    /\ pending' = With(pending, s, [retries |-> 0, timeout |-> BaseTimeout, age |-> 0])
    /\ net' = net \cup {DataPacket(s)}
    /\ copies' = [copies EXCEPT ![s] = 1]
    /\ UNCHANGED <<receiver, built, delivered, acked, reported>>

(* The receiver's receive_packet() lets a DATA packet through, and         *)
(* build_ack_packet() answers it.                                          *)
Receive(m) ==
    /\ m.type = "DATA"
    /\ PassesReplayCheck(receiver, m.seq, 0, m.age)
    /\ receiver' = NextSequence(RecordSequence(receiver, m.seq))
    /\ net' = net \cup {[type |-> "ACK", seq |-> receiver.localSeq,
                         acked |-> m.seq, age |-> 0]}
    /\ delivered' = delivered \cup {m.seq}
    /\ UNCHANGED <<sender, pending, built, copies, acked, reported>>

(* Slip: the number of the ACK packet itself.                              *)
AckedNumberOwn(m) == m.seq

(* The number in the payload of an ACK.                                    *)
AckedNumber(m) == m.acked

(* receive_packet() and decrypt_packet() of an ACK, then process_ack().    *)
ProcessAck(m) ==
    /\ m.type = "ACK"
    /\ PassesReplayCheck(sender, m.seq, 0, m.age)
    /\ sender' = RecordSequence(sender, m.seq)
    /\ pending' = Without(pending, {AckedNumber(m)})
    /\ acked' = acked \cup ({AckedNumber(m)} \cap DOMAIN pending)
    /\ built' = [s \in Numbers |-> IF s \in acked' THEN 0 ELSE built[s]]
    /\ UNCHANGED <<receiver, net, copies, delivered, reported>>

(* Slip: due at once.                                                      *)
IsDueAlways(p) == TRUE

(* PendingPacket.is_due().                                                 *)
IsDue(p) == p.age >= p.timeout

(* Slip: the doubling forgets the cap.                                     *)
RecordRetransmitUncapped(p) ==
    [retries |-> p.retries + 1, timeout |-> p.timeout * 2, age |-> 0]

(* PendingPacket.record_retransmit().                                      *)
RecordRetransmit(p) ==
    [retries |-> p.retries + 1, timeout |-> Lower(p.timeout * 2, MaxTimeout), age |-> 0]

(* Slip: one attempt too many.                                             *)
ExhaustedLate(p) == p.retries > MaxRetries

Exhausted(p) == p.retries >= MaxRetries

(* Slip: everything that was due leaves the queue with what failed.        *)
RemainingNotDue(due, failed) == Without(pending, due)

(* Slip: what failed is reported but not deleted.                          *)
RemainingWithFailed(due, failed) ==
    [s \in DOMAIN pending |->
        IF s \in due \ failed THEN RecordRetransmit(pending[s]) ELSE pending[s]]

(* The queue after the loop of get_retransmissions() and its deletions.    *)
Remaining(due, failed) ==
    [s \in DOMAIN pending \ failed |->
        IF s \in due THEN RecordRetransmit(pending[s]) ELSE pending[s]]

(* get_retransmissions(), and the transmission of what it returns.  If a   *)
(* packet is out of retries the call raises, after the others that were    *)
(* due have been counted as retransmitted; their bytes go nowhere.         *)
GetRetransmissions ==
    LET due    == {s \in DOMAIN pending : IsDue(pending[s])}
        failed == {s \in due : Exhausted(pending[s])}
    IN  /\ due # {}
        /\ pending' = Remaining(due, failed)
        /\ \/ /\ failed # {}
              /\ reported' = reported \cup failed
              /\ UNCHANGED <<net, copies>>
           \/ /\ failed = {}
              /\ net' = net \cup {DataPacket(s) : s \in {t \in due : built[t] <= MaxClockSkew}}
              /\ copies' = [s \in Numbers |-> IF s \in due THEN copies[s] + 1 ELSE copies[s]]
              /\ UNCHANGED reported
        /\ UNCHANGED <<sender, receiver, built, delivered, acked>>

(* Time passes, but a poll that is due is not put off for longer than      *)
(* PollDelay ("Call this method periodically", reliability.py:213).        *)
Tick ==
    /\ \A s \in DOMAIN pending : pending[s].age < pending[s].timeout + PollDelay
    /\ pending' = [s \in DOMAIN pending |-> [pending[s] EXCEPT !.age = @ + 1]]
    /\ built' = [s \in Numbers |-> IF s \in DOMAIN pending THEN built[s] + 1 ELSE built[s]]
    /\ net' = {[m EXCEPT !.age = @ + 1] : m \in {n \in net : n.age < MaxClockSkew}}
    /\ UNCHANGED <<sender, receiver, copies, delivered, acked, reported>>

-----------------------------------------------------------------------------
(* The handshake has used number 0 of both directions for KEY_EXCHANGE.    *)
Init ==
    /\ sender = NextSequence(RecordSequence(NewSession("k"), 0))
    /\ receiver = NextSequence(RecordSequence(NewSession("k"), 0))
    /\ pending = <<>>
    /\ built = [s \in Numbers |-> 0]
    /\ net = {}
    /\ copies = [s \in Numbers |-> 0]
    /\ delivered = {} /\ acked = {} /\ reported = {}

Next ==
    \/ Send \/ GetRetransmissions \/ Tick
    \/ \E m \in net : Receive(m) \/ ProcessAck(m)

Spec == Init /\ [][Next]_vars

(* The application polls and time passes; nothing is assumed of the        *)
(* network or of the receiver.                                             *)
FairSpec == Spec /\ WF_vars(GetRetransmissions) /\ WF_vars(Tick)

-----------------------------------------------------------------------------
TypeOK ==
    /\ sender \in [key : {"k"}, localSeq : 1 .. MaxSends + 1,
                   peerMax : 0 .. MaxSends, window : SUBSET (0 .. MaxSends)]
    /\ receiver \in [key : {"k"}, localSeq : 1 .. MaxSends + 1,
                     peerMax : 0 .. MaxSends, window : SUBSET (0 .. MaxSends)]
    /\ DOMAIN pending \subseteq Numbers
    /\ \A s \in DOMAIN pending :
          /\ pending[s].retries \in 0 .. MaxRetries
          /\ pending[s].timeout = Interval(pending[s].retries)
          /\ pending[s].age \in 0 .. pending[s].timeout + PollDelay
    /\ built \in [Numbers -> 0 .. LongestWait]
    /\ net \subseteq [type : {"DATA", "ACK"}, seq : Numbers, acked : 0 .. MaxSends,
                      age : 0 .. MaxClockSkew]
    /\ copies \in [Numbers -> 0 .. MaxRetries + 1]
    /\ delivered \subseteq Numbers /\ acked \subseteq Numbers /\ reported \subseteq Numbers

(* No packet is lost silently: each one send() transmitted is in the       *)
(* queue, has been acknowledged or has been named in a RetransmitError,    *)
(* and only one of these, also when the poll that raises meets others that *)
(* are due.                                                                *)
Accounted ==
    /\ {s \in Numbers : copies[s] > 0} = DOMAIN pending \cup acked \cup reported
    /\ acked \cap reported = {}
    /\ DOMAIN pending \cap (acked \cup reported) = {}

(* The sender takes for acknowledged only what the receiver accepted.      *)
AckedIsDelivered == acked \subseteq delivered

(* A packet is given up only after it had all its intervals: doubling from *)
(* the base to the cap (reliability.py:10), added up over the attempts.    *)
NeverReportedEarly ==
    /\ \A s \in reported : built[s] >= Patience[MaxRetries + 1]
    /\ \A s \in DOMAIN pending : built[s] >= Patience[pending[s].retries] + pending[s].age

(* "Reliable delivery failed after exhausting all retransmission attempts" *)
(* (exceptions.py:43): a packet a RetransmitError names has been sent and  *)
(* then retransmitted max_retries times.                                   *)
AttemptsMade == \A s \in reported : copies[s] = MaxRetries + 1

(* No attempt is wasted: when the backoff and the delays of the polls fit  *)
(* into the clock-skew window, every copy leaves while the receiver would  *)
(* still take its timestamp.                                               *)
NoFutileRetransmission ==
    [][\A s \in Numbers : copies'[s] > copies[s] => built[s] <= MaxClockSkew]_vars

(* Every packet is settled in the end, whatever the network does.          *)
Settles == \A s \in Numbers : s \in DOMAIN pending ~> s \notin DOMAIN pending
=============================================================================
