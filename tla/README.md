# A TLA+ model of ZTLNP

ZTLNP (`ztlnp/`) is a Python library for a link protocol between devices that
share no infrastructure: signed and encrypted packets, a four-message handshake,
sessions with replay protection, two reliable channels, a trust store with
endorsements and key rotation, a mesh router and traffic-privacy helpers. It has
no threads of its own and transmits nothing by itself: every method builds or
consumes packets, and the application moves them. The hard part is therefore
what an unreliable network and a freely chosen order of calls do to the state
the objects keep; that is what these modules model.

Paths below are relative to `src/`.

## 1. Inventory

| Component | State | Operations | Hard behaviour | What makes it correct |
|---|---|---|---|---|
| **Session** `ztlnp/session.py` | key, own counter, peer's maximum, set of numbers seen | `next_sequence`, `check_replay` | repetition and reordering across slides of the window; both edges of the window; 32-bit field | each number accepted once; nothing within the window refused; bounded memory |
| **Device** `ztlnp/device.py` | identity, ephemeral keys by peer, pending peers, sessions | packet builders, `receive_packet`, `decrypt_packet`, `complete_key_exchange`, `rotate_key` | a packet is recorded before it is decrypted; re-keying restarts counter and window | a key is derived once; ephemerals are dropped |
| **Protocol** `ztlnp/protocol.py` | state, peer, peer's ephemeral | `initiate`, `process_incoming`, `send_data`, `receive_data` | both sides initiate; late, repeated and foreign HELLO, KEY_EXCHANGE and BYE; errors half way through a handler | established means the key is shared; delivery at most once; handshakes end |
| **Sliding window** `ztlnp/sliding_window.py` | send window, base, next expected, receive buffer | `send`, `process_sack`, `get_retransmissions`, `receive` | lost first packet; stale SACKs; DATA and SACK share one counter; the replay window below | ordered stream; nothing acknowledged is missing; everything arrives |
| **Reliable channel** `ztlnp/reliability.py` | pending packets with retries and deadlines | `send`, `process_ack`, `get_retransmissions` | backoff against the clock-skew limit; the poll that raises | a packet leaves the table acknowledged or reported |
| **Trust store** `ztlnp/trust.py` | records (level, endorsers, depth), blacklist | `add`, `process_hello`, `verify_fingerprint`, `add_endorsement`, `distrust`, `remove_blacklist` | endorsements in any order, in cycles, by rotated identities | trust is rooted in the operator; levels only rise; depth is limited |
| **Key rotation** `ztlnp/identity.py` | retired ids, rotation counts, last timestamps, history | `create_key_transition`, `apply_transition`, `resolve` | repeated, late and out-of-order transitions; a successor that is already known | each transition applied once; trust follows the device |
| **Router** `ztlnp/router.py` | candidate routes per destination | `add_direct_route`, `forward`, `remove`, build / process announcement | announcements that cross; every router sees its own table only; routes that expire; hop counts that rise with each exchange | packets do not circle, are not dropped, arrive within the hops promised |
| **Privacy** `ztlnp/privacy.py` | time of last send | padding, jitter, cover traffic | sizes at the edges of block, target and length byte; cover packets share counter and replay window with the data | padding is undone exactly; cover does no harm to the data |
| **Transports** `ztlnp/transport.py` | inbox, closed flag, socket | `send`, `recv`, `close` | `close` while `recv` blocks | FIFO in process; no reader outlives its transport |
| **Packet codec** `ztlnp/packet.py` | none | `to_bytes`, `from_bytes` | field widths | inverse of each other |
| **Crypto** `ztlnp/crypto.py` | none | sign, DH, HKDF, AEAD, HMAC | – | – (library) |

How they interact. `Protocol` calls one `Device`; a `Device` holds one `Session`
per peer and runs every packet but HELLO through `Session.check_replay` in
`receive_packet`. Both channels and the cover traffic take packets (and so
sequence numbers) from the same `Session` through the `Protocol`'s device.
`RotationManager` writes into a `TrustStore`; nothing calls the trust store or
the router from the handshake, the application does. Transports and channels are
connected by the application.

## 2. Modules

| Module | Models | Extends / instantiates |
|---|---|---|
| `Session` | `session.py` as operators on a record | – |
| `AtMostOnce` | abstract: a datagram service without repetition | – |
| `ReplayWindow` | one direction of a session over a bad network | `Session`; implements `AtMostOnce` |
| `Handshake` | `protocol.py` and `device.py` for any number of devices | `Session` |
| `OrderedStream` | abstract: a reliable ordered channel | – |
| `SlidingWindow` | two ends of `sliding_window.py` on one session | `Session`; implements `OrderedStream` both ways |
| `ReliableChannel` | `reliability.py` with timestamps and backoff | `Session` |
| `Padding` | `pad_to_size`, `strip_padding` as functions of lengths | – |
| `PrivateChannel` | a reliable channel with padded payloads and `CoverTraffic` on one session | `ReliableChannel`, `Padding` |
| `Transport` | `InProcessTransport` and the thread that reads it | – |
| `Mesh` | `router.py` at every node of a network of such transports | `Transport` |
| `Trust` | `trust.py` and `identity.py` at one store | – |
| `LiveRotation` | `Device.rotate_key` under an established session | `Session` |
| `MCHandshake`, `MCSlidingWindow`, `MCTrust` | sets and values of the configurations | their modules |
| `MCPrivateChannel`, `MCMesh` | the hypotheses of the theorems, evaluated for the configurations | their modules |
| `NaturalFacts` | least and greatest numbers, induction, functions defined by recursion | `TLAPS` |
| `ReplayWindowProofs`, `HandshakeProofs`, `TrustProofs` | theorems | their modules, `TLAPS` |
| `SlidingWindowProofs`, `PrivateChannelProofs`, `MeshProofs` | theorems | their modules, `NaturalFacts` |

Operators whose comment begins with *Slip* are deliberate errors (an off-by-one,
a dropped guard). Nothing uses them; each stands beside the definition it
distorts and documents which mistake the properties would catch.

### Conventions

* **Network.** `net` is the set of all packets ever sent and is never emptied; a
  receive action takes any member. Loss, delay, repetition and reordering need
  no actions of their own.
* **Errors.** A call that raises before it changed anything is no action. One
  that raises after a change is an action with exactly that change
  (`HelloRefused`, `KeyExchangeRefused`, the first two branches of
  `KeyExchangeInHelloReceived`, `SendOverflows`, `GetRetransmissions`).
* **Cryptography** is symbolic. An ephemeral key is `<<device, n>>`, a shared
  secret the set of two of them, a session key the secret with the identities in
  the HKDF order. A packet carries the key it was encrypted under and decrypts
  under no other.
* **Time** is a clock in ticks with the code's tests (`abs(now - ts) > skew` in
  `check_replay`, the future and last-seen tests in `apply_transition`).
* **History variables** (`installed`, `delivered`, `redelivered`, `accepts`,
  `received`, `acked`, `reported`, `copies`, `cover`, `mangled`,
  `dropped`, `confirmed`) record what happened; no guard reads them, except the
  bounds and `SlidingWindow`'s `FirstInOrder` on `sent`.

### Assumptions about what is around the code

* **Addressees.** The network hands a packet to the device it is addressed to:
  no code compares `recipient_id` with its own id (`device.py:379-457`,
  `protocol.py:109-148`). `Incoming` in `Handshake` states it.
* **One transition per key.** In `Trust` an identity signs one transition.
  `create_key_transition` (`identity.py:168-202`) would sign several, and
  `docs/security-analysis.md:253-259` says that competing ones are not resolved;
  `Rooted`, which lets trust follow the one successor, is stated for devices that
  do not compete with themselves.
* **`was_padded`.** The receiver learns outside the protocol whether a payload was
  padded (`Padding.Received`), as in the tests; nothing in `ztlnp/` transmits it.
* **First packet.** Where `FirstInOrder` is set, the network does not lose or
  reorder the first DATA packet of a direction (see 4.2).

### Correspondence

* `Session`: `SequenceFresh`, `Timely` and `RecordSequence` are the three tests
  of `check_replay` and what it does when they pass.
* `Handshake`: `state`, `peer`, `peerX` are the fields of `Protocol`; `eph`,
  `pending`, `sessions` those of `Device`. One action per branch of each handler
  of `process_incoming`; `Receivable` / `AfterReceive` are `receive_packet`, with
  the order of the code: in `HELLO_RECEIVED` the session is replaced *before* the
  KEY_EXCHANGE is replay-checked and decrypted. `Restart` is a new `Protocol` on
  the same `Device`, which `protocol.py:129` tells applications to use.
* `SlidingWindow`: `sendWindow` maps the numbers in flight to their retries.
  `Receive` is `receive_packet`, `receive` and the `build_sack_ack` of the frame
  it returns. The times of retransmission are abstracted to "any set is due";
  packets that are resent are already in `net`.
* `ReliableChannel`: `pending` is `_pending` with the time since `sent_at`; `built`
  is the age of the timestamp a packet keeps through its retransmissions. Ages
  are kept up to the point beyond which nothing depends on them, so time itself
  is unbounded. `PollDelay` is how late the application may call
  `get_retransmissions`.
* `PrivateChannel`: `MaybeSend` is `CoverTraffic.maybe_send` and the transmission
  of its packet, `SendReal` is `pad_to_size`, `ReliableChannel.send` and
  `record_real_send`. A plaintext is its length, a padded one its length and last
  byte. Cover packets are received and acknowledged like any other; their size and
  authentication are settings of their own that no state depends on, and are left
  out. A jitter is a delay of the network.
* `Transport`: `reader` is the thread of an endpoint, in `recv()` or ended by
  `TransportClosed`. `Get` and `RecvTimeout` are the two ways out of
  `queue.get()`, `AfterCall` the test at the start of the next `recv()`.
* `Mesh`: `routes[n][d]` is `RouteTable._routes` of node n for destination d, by
  link (`add` replaces the entry of the same transport and address). Scores are
  compared by cross-multiplying integers, with trust scaled so that `0.9 **
  hop_count` is exact; among equal scores any may be best. A stale entry is one
  that is gone. `ReceiveData` is the forwarding the module's documentation tells
  applications to do with `forward`.
* `LiveRotation`: a device id is `<<device, rotations>>`; `Authenticates` is the
  lookup by `sender_id` and the signature test of `receive_packet`.
* `Trust`: a device id is the hash of its key, one value stands for both.
  `RotateKey` and `Endorse` are what other devices sign; `ApplyTransition` is the
  whole of `apply_transition` including `TrustStore.add`.

## 3. Runs

| Run | Bounds | Shows |
|---|---|---|
| `replay_window` | window 3, 7 numbers, 8 sends, skew 1, 2 ticks | nothing twice, window exact and bounded, no false refusal, implements `AtMostOnce` |
| `handshake` | 3 devices: a may call b or c, a and b restart once each, b sends; window 2, 3 packets per session, 1 tick, fair | an established device shares its key with some device, and with its peer unless a stray HELLO redirected it; numbers unique per key; no delivery twice; ephemerals forgotten; a handshake nothing disturbs completes on both sides |
| `handshake_glare` | 2 devices, both call | **violation**: two keys from one secret |
| `sliding_window` | up to 4 packets one way and 1 the other, 2 in flight, replay window 3, fair | ordered stream both ways; nothing acknowledged is missing; nothing received is withheld; in one direction and within the replay window everything is handed up, and every packet leaves the send window, whatever becomes of the SACKs |
| `sliding_window_first` | 3 packets one way, the first may be lost | **violation**: a packet is acknowledged that never arrived |
| `sliding_window_duplex` | 2 packets each way, fair | **violation**: delivery stops at the number a SACK took |
| `reliable_channel` | 3 packets, at most 2 of them data and the others cover, intervals 2, 3, skew 3, polls up to 1 late, cover interval 2, replay window 2, fair | each packet ends acknowledged or reported, not before its backoff is over; no copy leaves too old to be accepted, nor with a number that cover traffic made too low before its time; padding round trip |
| `reliable_attempts` | 2 packets, 1 retry each | **violation**: a packet is reported that was never retransmitted |
| `mesh` | 3 routers, all linked, routes to one of them, hop field up to 4, one loss, fair | no loops, no drops, hops within the promise and arrival before the first loss; hop counts within the field and readers that end after it too |
| `live_rotation` | 2 devices, one rotation each | **violation**: packets sent in the session after a rotation are refused |
| `trust` | 4 identities, 2 devices, cyclic endorsements, one blacklisted | trust rooted, never lowered, endorsers carried over, transitions once |
| `trust_blacklist` | as above | **violation**: a blacklisted identity hands its trust on |

Why the bounds are enough for the cases meant:

* The window must slide past packets still in the network, and a number must
  wait at each of its edges: 7 numbers over a window of 3 do both, and the eighth
  send is the first that does not fit the header.
* One restart per device already produces a second handshake over the packets of
  the first (re-keying with a live session, late KEY_EXCHANGE and BYE); one tick
  makes packets stale. The third device answers a call and redirects an instance
  that has moved on; only a and b need to restart and only b to send for every
  branch of the handlers to be taken. Simultaneous calls are in `handshake_glare`,
  and the theorems hold for any set of calls. For `HandshakeCompletes` a responder must be
  able to send a replay window of packets besides its KEY_EXCHANGE: with numbers 0
  to 2 over a window of 2 the KEY_EXCHANGE (number 0) can fall out of the window,
  and without `~Overtaken` in `Undisturbed` the property fails.
* Two packets in flight with the window moving over acknowledged ones give a gap,
  buffered runs behind it and SACKs with blocks; one packet in the other direction
  takes a number from the SACKs' counter.
* Two packets in the queue are enough for a poll that gives one up and meets the
  other; the second interval is cut by the cap, and with polls one tick late the
  last copy leaves exactly at the age of 3 that the skew still admits (in the
  code 15.5 s of backoff against 30 s of skew). One data and one cover packet sent
  while a packet waits fill the replay window of 2, and the bound of
  `RetransmissionFresh` is met with equality: with `<=` in place of `<` it fails.
  The lengths lie at both edges of target, block and length byte.
* A triangle is the smallest mesh with a detour, in which two neighbours of the
  destination can prefer each other; one datagram per inbox and direction lets
  every pair of announcements and packets cross. The latency 3 is the largest at
  which a registered route (score 1/3) beats a learned one (0.95 * 0.81 / 3);
  from 4 on `LoopFree` fails. A hop field of 4 is passed by mutual announcements.
  A ring of four routers passes the same checks without losses (not kept as a run).
* Two rotations and a cycle of endorsements reach chains of rotations applied in
  both orders and a successor known before its transition.

`reliable_channel` and `mesh` are checked for deadlock: time and timeouts always
go on. The other runs have `CHECK_DEADLOCK FALSE`: an application may stop
calling, and the models stop at their bounds.

### Fairness

`HandshakeCompletes` assumes weak fairness of delivering the packets an unfinished
handshake waits for. Nothing in the code retransmits a handshake packet, so the
network must deliver; nothing is assumed about repeated or late ones, which may
arrive in between, and nobody has to call `initiate`. The property is about
handshakes that stay `Undisturbed`: a KEY_EXCHANGE older than the skew is refused
for good, so is one that a replay window of the responder's DATA has overtaken
(`Overtaken`; `session.py:107`), and a restart, a third device's HELLO or a
simultaneous call can leave both sides waiting.

`OneDirectionDelivered`, `EverythingDelivered` and `WindowSettles` assume weak
fairness of `Receive` (the application reads, and of a DATA packet the receiver
would take some copy gets through, which retransmission provides as long as
retries remain) and of polling `get_retransmissions` while packets are in flight.
Nothing is assumed of `Send`, and nothing of SACKs: a SACK is sent once and nothing
repeats it.

`Settles` assumes that time passes and that the
application polls, as the class demands of its callers; nothing is assumed of the
network or the receiver. `PacketsArrive` and `ReadersStop` assume that the threads
that read the transports run, and nothing of announcements.

## 4. Disagreements with the repository's own statements

Each has a run that ends in a counterexample.

1. **Simultaneous initiation** (`handshake_glare`). `protocol.py:219` completes
   the exchange as initiator on both sides; `device.py:156` says the order of
   identities makes "both sides derive the same key".
2. **First packet** (`sliding_window_first`). `sliding_window.py:421` starts at
   whatever arrives first; `sliding_window.py:97` defines `cum_ack` by what has
   been received. The run `sliding_window` sets `FirstInOrder` to show that, within its bounds, this
   is the only way `AckedIsReceived` fails.
3. **Two-way traffic** (`sliding_window_duplex`). SACKs take numbers from the
   counter of DATA (`sliding_window.py:488`), the receiver waits for them.
4. **Blacklisted rotation** (`trust_blacklist`). `identity.py:299` looks the old
   identity up without its blacklist; the comment above it says "known and
   trusted".
5. **Rotation under a session** (`live_rotation`). `device.py:111` changes the id
   and key that later packets carry, and the peer finds no session for them;
   `device.py:92` says existing sessions are not invalidated.
6. **Attempts not made** (`reliable_attempts`). When `get_retransmissions` raises,
   what it had collected is lost although counted (`reliability.py:232`), and a
   packet is reported without the retransmissions that `SPEC.md:575`
   ("`RetransmitError` after `max_retries` attempts") and `exceptions.py:43`
   promise, although `reliability.py:220` means "other pending packets" to be
   retransmitted still. `sliding_window.py:379` has the same loop.

Seen while modelling, present in the models' behaviour, without a run:

* a HELLO of a third device replaces the peer before it is refused
  (`protocol.py:201`), hence `ConfirmedBySomePeer` and the second condition of
  `KeyConfirmed`;
* a BYE of an earlier session closes the present one (`protocol.py:289`), and its
  sender stays ESTABLISHED; HELLOs have no timestamp test (`device.py:414`);
* past 2^32 packets building fails instead of wrapping (`SendOverflows`);
* a late packet of the previous session takes a number of the present one before
  it fails to decrypt (`device.py:455`), and the packet that has the number by
  right is refused;
* a repeated DATA packet is refused by the session (`sliding_window.py:414`) before
  the branch that should "discard data but still ACK" (`sliding_window.py:436`), so
  when the last SACK is lost the sender reports as failed what was delivered;
* the send window counts packets and not their span (`sliding_window.py:285`): it
  moves on while a hole stays, and once a replay window of later packets has
  arrived no retransmission of the missing one is accepted. With five packets one
  way and a replay window of three `EverythingDelivered` fails for this reason;
* a thread in `recv()` without a timeout waits in `queue.get()` (`transport.py:169`),
  which `close()` does not wake, where `transport.py:20` says it blocks until "the
  transport is closed": with `RecvTimeouts` FALSE `ReadersStop` fails;
* cover packets (64 bytes and a MAC by default, `privacy.py:296`) and data padded to
  256 bytes (`privacy.py:105`) and signed (`reliability.py:132`) differ on the wire by
  size and flag, where `privacy.py:320` and `SPEC.md:617` say they look alike; it
  takes equal settings to hide the difference, and nothing relates them;
* the stop-and-wait channel holds any number of packets, not "one unacknowledged
  packet at a time" (`SPEC.md:573`);
* one hop is counted twice, when a route is announced (`router.py:351`) and when
  it is learned (`router.py:421`): the hop count of a path of L links is 2L - 1,
  where `router.py:19` says "number of hops to the destination"; it is still an
  upper bound (`WithinHopCount`);
* learned routes have latency 0 (`router.py:417`), so a direct link of 4 ms or more
  loses against a detour, and two neighbours can prefer each other for good;
  after a route has been lost, neighbours announce it back (no split horizon)
  until the hop field is full, and packets circle meanwhile;
* nothing sets or reads the `PADDING` flag in `ztlnp/`; the receiver has to know
  by other means whether to call `strip_padding`;
* the endorsement depth is overwritten by the latest endorser (`trust.py:421`)
  and not carried over a rotation; transitions applied in reverse order leave the
  newest identity less trusted than the oldest (`identity.py:355`).

## 5. Theorems

All hold for every value of the constants that satisfies the modules' `ASSUME`s
(positive window, `Nil` / `None` outside the sets they are used beside, nobody
calls itself); TLC evaluates the same assumptions in the runs. Some suppose more
of the settings: such a hypothesis is a definition of the component's module and
appears in the statement of the theorem, and the run of the same property
satisfies it (`MCPrivateChannel` and `MCMesh` assume theirs, so that TLC
evaluates it; `SlidingWindow.cfg` sets `FirstInOrder`). Without it the property
is false, as the violation runs or the remarks under *Runs* show.

**`ReplayWindowProofs`**: `TypeCorrect`, `AtMostOneAcceptance`, `WindowIsExact`,
`WindowIsBounded`, `ReorderingTolerated`, `Refinement` (implements `AtMostOnce`).
`NoDoubleAccept` is not inductive: a number that was accepted and pruned must be
known to be refused. The invariant adds `WindowExact` (the window is what was
accepted, above the edge), `BelowMax` (no accepted number exceeds the maximum)
and `FromSender` (numbers in the network, and the maximum that came from there,
are below the sender's counter). `WindowBounded` then follows from the interval above the edge, the
refinement from `NoDoubleAccept` and `FromSender`.

**`HandshakeProofs`**, for any number of devices, restarts and packets:
`TypeCorrect`, `ForwardSecrecy`, `SequenceNumbersUnique`, `DeliveredOnce`,
`KeyConfirmation`, `PeerConfirmation`. The argument runs through keys: a session key is never
installed twice by a device.

* `Origins`: every ephemeral that is held, sent, taken from a HELLO or used in a
  key was generated by its owner, so a freshly generated one is new to everybody.
* `EphemeralsForgotten`: a key already installed contains no ephemeral its owner
  still holds, so the next key derived from a held ephemeral differs from all
  earlier ones.
* `CounterAhead`, `KeysInstalled`: the packets of the present session are
  numbered below its counter, and every packet's key was installed by its sender;
  with the two facts above `SequenceUnique` survives a counter that restarts at 0.
* `DeliveredCovered`: what was delivered under the present key is refused by the
  present window, which gives `NoDuplicateDelivery` across re-keying.
* `Greetings`: a device has sessions only with devices whose HELLO it was sent, so
  the device that `ConfirmedBySomePeer` speaks of is the peer when nobody else
  sent one (`KeyConfirmed`).

Actions are first reduced to four shapes (`Offers`, `Sends`, `Installs`,
`Receives`); each part of the invariant is preserved by each shape.

**`TrustProofs`**: `TypeCorrect` (with the depth and rotation limits),
`TrustIsRooted`, `EndorsersCarried`, `TransitionsOnce`, `LevelsOnlyRise`.
`Rooted` quantifies over all sets closed under endorsement and rotation, which
states reachability without recursion; it needs `Rotated` (an identity signs one
transition, so a recorded retirement is never redirected). `AppliedOnce` needs
`Stamped`: a transition in a history is no newer than the last timestamp seen for
its old identity, so `apply_transition` refuses it when it comes again.

**`SlidingWindowProofs`**, for every window, replay window, retry limit and amount
of data: `TypeCorrect`, and under `FirstInOrder` `AcksAreTrue`,
`NothingIsWithheld`, `StreamImplemented` (implements `OrderedStream` both ways).

* `Bookkeeping` carries the types. That no counter passes its bound is a matter of
  counting (`Counted`): an end has drawn one number for each packet it sent and
  one for each it received, and it receives none twice because the session
  refuses it.
* `Orderly` carries the rest. `InOrder`: what an end has received is a run that
  begins with the first number its peer sent and ends at `recvNext`, and a buffer
  beyond the number expected next; what it handed up is that run. `SackTrue`:
  every SACK in the network speaks of packets its sender has received, or of
  numbers below the peer's first packet; what has been received stays so, hence a
  late SACK acknowledges nothing that is missing. `FirstInOrder` is needed for the first step only, where
  the code takes any number for the beginning.
* The lemmas on the operators are that the loop of `receive` stops at the first
  missing number (`DrainedToFacts`) and that a SACK names the run and the buffer
  and nothing else (`BuildSackFacts`).

**`PrivateChannelProofs`**, for every timeout, cap, retry limit, skew and payload
length: `PaddingUndone`, `NothingLostSilently`, `AcknowledgedMeansDelivered`,
`ChannelTypeCorrect`, `NothingReportedEarly`, `CopiesStayFresh`; under
`BackoffFits` `NoCopyFutile`. The padding theorem rests on the lemma `RoundTrip`
about `PadToSize`. The channel has four invariants:

* `QueueInv` adds to two properties of the queue `Drawn` (a number that was
  transmitted is below the session's counter, so the next `send` takes one that is
  in none of the queue, `acked` and `reported`, also when cover packets have taken
  numbers in between) and `AcksTrue` (every ACK in the network names a packet the
  receiver accepted).
* `Timing` relates the two clocks of a packet: the age of its timestamp is at
  least the intervals of the attempts it has had (`Patience`, a recursive
  function) plus the time since the last, and at most that and one `PollDelay` per
  attempt. The lower bound gives `NeverReportedEarly`, the upper one
  `NoFutileRetransmission`. `BackoffFits` says that the upper bound for the last
  copy is within the skew: 15.5 s with the defaults of the code against 30 s, so
  the polls may together be 14.5 s late.
* `Exchange`: the receiver has answered each number it accepted once and refuses
  it now, and its maximum is below the sender's counter.
* `Paced`: each cover packet sent after a packet that still waits took a cover
  interval of the time that one has waited. The numbers drawn after it are those
  of cover packets and those of real ones (`NumbersSince`), so the replay window
  has not passed it while the real packets sent since, and its wait divided by the
  interval, together stay below the window: `RetransmissionFresh`, which counts
  from the packet's own send and supposes nothing of the settings or of the
  session's past. With the defaults (31.5 s at most, 1 s, window 64) 31 cover
  packets go by while polls are on time, which leaves room for 32 real ones during
  the wait; nothing in the code limits those.

**`MeshProofs`**, for every network, any number of destinations and datagrams:
`MeshTypeCorrect`, also after losses; under `ShorterScoresHigher` and
`HopCountFits`, before the first loss, `MeshLoopFree`, `MeshWithinHopCount`,
`MeshNothingDropped`. `ShorterScoresHigher` says that a route of fewer hops has
the higher score, whatever the trust and latency; `AlikeRankByHops` proves it of
the code's formula for trust scores less than a tenth apart (after the cap of
`process_announce_payload`) and registered latencies up to 3 ms, which settings
that differ more do not have. `HopCountFits` says that a path through all
routers, at two per link, fits the hop field. The invariant is `SteadyInv`; what
it needs beyond the properties is that information may be old but never
optimistic:

* while nothing is lost, the hop count a router holds over a link only falls, and
  the announcements that wait in an inbox tell of no longer routes than the one
  held or than those before them (`BoxTrue`: in-process links are FIFO). So what
  an entry or an announcement says of the next router's distance (`Backed`) stays
  an upper bound however late it is read;
* the next router's distance is at least two less, since a hop is counted twice;
  a packet therefore stays `OnTime`, always finds a route, and a set of routers
  that pass packets round would have no nearest member;
* hop counts must not reach the end of the field, where `min` would make two
  distances equal: each entry of h hops has a set of (h + 2) / 2 different routers
  nearer than h (`Support`), which the network does not have for a large h.

**`NaturalFacts`** makes such proofs possible. The library's induction theorems
take an operator as a parameter, which the installed provers cannot instantiate;
here induction is stated for a set of numbers, and `Recursion` constructs the
function that a definition f[n \in Nat] == IF n = 0 THEN c ELSE ... chooses, so
that its equation can be used (`Patience`, `Doubled`, `TenTo`, `NineTo`).

**Only model-checked.** Liveness (`HandshakeCompletes`, `OneDirectionDelivered`,
`WindowSettles`, `Settles`, `PacketsArrive`, `ReadersStop`) is out of the prover's
reach, as are proofs about `ENABLED`. Every other property of a passing run is
stated by a theorem. `SameSecretSameKey` and the properties of the other violation
runs do not hold.

## 6. Not modelled

* Byte layouts, text formats, signatures and primitives: conversions without
  state; a wrong signature is a packet that is refused.
* ERROR packets: nothing in the repository builds one.
* Broadcast HELLOs: `Protocol` never sends one.
* `UdpTransport`: socket calls; the network of the other modules stands for it.
* `build_announce_payload(extra_destinations)`, which only a test passes, and the
  size check of announcements (a conversion).
* `resolve`, `has_route`, `all_routes` and other readers, which change nothing.
* `exceptions.py`, `__init__.py`, `example.py`: declarations and a demonstration.

## 7. Plan

Done, in order of importance: session and replay window with proofs; handshake
with proofs; sliding window with proofs; trust and rotation with proofs; reliable
channel with padding and cover traffic with proofs; transports and mesh with
proofs; rotation under a session.

1. Proofs: lemmas towards the liveness properties, as safety (a measure that every
   fair step lowers) where one can be stated.
2. `Trust`: the order of transitions and chains across rotations, once what the
   code should promise is stated; `Handshake`: what BYE promises across sessions.
3. `Mesh`: what the router should guarantee after a loss (split horizon or a
   withdrawal), once the code has one.
