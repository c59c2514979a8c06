------------------------------- MODULE Trust --------------------------------
(***************************************************************************)
(* One device's view of the identities of others: the TrustStore of        *)
(* ztlnp/trust.py and the RotationManager of ztlnp/identity.py that moves  *)
(* its records when a device rotates its identity key.                     *)
(*                                                                         *)
(* A device id is the hash of the public key, so one value stands for both *)
(* and a stored key always matches its id.  Endorsements and transitions   *)
(* are signed by their makers; once made they stay in circulation and may  *)
(* reach the store late, repeatedly and in any order.  Clocks of devices   *)
(* are not synchronised: a transition carries any timestamp.               *)
(***************************************************************************)
EXTENDS Integers, Sequences

CONSTANTS Ids,            \* identities that may ever exist
          Initial,        \* identities devices start with
          None,           \* an identity that has not been retired
          Endorsements,   \* pairs <<i, j>>: i may endorse j
          Suspects,       \* identities the operator may blacklist
          AllowTofu,      \* TrustStore(allow_tofu)
          MinTrust,       \* TrustStore(min_trust)
          MaxDepth,       \* TrustStore(max_endorsement_depth)
          MaxRotations,   \* RotationManager(max_rotations)
          MaxClockSkew,   \* _MAX_CLOCK_SKEW_MS, in ticks
          MaxTime         \* bound on the clock

UNKNOWN  == 0
TOFU     == 1
VERIFIED == 2
ENDORSED == 3

ASSUME TrustAssumption ==
    /\ Initial \subseteq Ids /\ None \notin Ids
    /\ Endorsements \subseteq Ids \X Ids /\ Suspects \subseteq Ids
    /\ AllowTofu \in BOOLEAN /\ MinTrust \in TOFU .. ENDORSED
    /\ MaxDepth \in Nat /\ MaxRotations \in Nat
    /\ MaxClockSkew \in Nat /\ MaxTime \in Nat

VARIABLES now,            \* the store's clock
          minted,         \* identities generated so far
          current,        \* those whose device has not rotated away
          vouchers,       \* endorsements made: <<endorser, target>>
          transitions,    \* transitions made
          level,          \* TrustRecord.trust_level; UNKNOWN: no record
          depth,          \* TrustRecord.endorsement_depth
          endorsers,      \* TrustRecord.endorsers
          blacklist,      \* TrustStore._blacklist
          retired,        \* RotationManager._retired
          rotations,      \* RotationManager._rotation_count
          lastTs,         \* RotationManager._last_ts
          history,        \* RotationManager._history
          confirmed       \* history: ids the operator confirmed out of band

world == <<minted, current, vouchers, transitions>>
records == <<level, depth, endorsers>>
manager == <<retired, rotations, lastTs, history>>
vars == <<now, minted, current, vouchers, transitions, level, depth, endorsers,
          blacklist, retired, rotations, lastTs, history, confirmed>>

Transitions == [old : Ids, new : Ids, ts : 1 .. MaxTime]

-----------------------------------------------------------------------------
(* Other devices.                                                          *)

(* Device.rotate_key() with create_key_transition(): a new identity, and   *)
(* a statement about it under the old one, stamped with the device's clock.*)
(* An identity is assumed to sign one such statement: nothing stops        *)
(* create_key_transition() from signing competing ones, which the code     *)
(* does not resolve (docs/security-analysis.md:253-259).                   *)
RotateKey(i, j, ts) ==
    /\ i \in current /\ j \in Ids \ minted
    /\ minted' = minted \cup {j}
    /\ current' = (current \ {i}) \cup {j}
    /\ transitions' = transitions \cup {[old |-> i, new |-> j, ts |-> ts]}
    /\ UNCHANGED <<now, vouchers, records, blacklist, manager, confirmed>>

(* create_endorsement().                                                   *)
Endorse(i, j) ==
    /\ <<i, j>> \in Endorsements
    /\ i \in current /\ j \in minted
    /\ vouchers' = vouchers \cup {<<i, j>>}
    /\ UNCHANGED <<now, minted, current, transitions, records, blacklist, manager, confirmed>>

-----------------------------------------------------------------------------
(* TrustStore.                                                             *)

MaxLevel(a, b) == IF a > b THEN a ELSE b

(* Slip: add() overwrites the level of an existing record.                 *)
AddedOverwrites(i, l) == [level EXCEPT ![i] = l]

(* The levels after add(): a new record, or an upgrade.                    *)
Added(i, l) == [level EXCEPT ![i] = MaxLevel(@, l)]

IsTrusted(i) == i \notin blacklist /\ level[i] >= MinTrust /\ level[i] # UNKNOWN

(* add(), for TOFU or after parse_qr_payload() for VERIFIED.               *)
Add(i, l) ==
    /\ i \in minted
    /\ level' = Added(i, l)
    /\ confirmed' = IF l = VERIFIED THEN confirmed \cup {i} ELSE confirmed
    /\ UNCHANGED <<now, world, depth, endorsers, blacklist, manager>>

(* process_hello() of an unknown device; a known one changes nothing.      *)
ProcessHello(i) ==
    /\ i \in minted /\ level[i] = UNKNOWN
    /\ AllowTofu
    /\ level' = Added(i, TOFU)
    /\ UNCHANGED <<now, world, depth, endorsers, blacklist, manager, confirmed>>

(* verify_fingerprint() with the right fingerprint.                        *)
VerifyFingerprint(i) ==
    /\ level[i] # UNKNOWN
    /\ level' = [level EXCEPT ![i] = MaxLevel(@, VERIFIED)]
    /\ confirmed' = confirmed \cup {i}
    /\ UNCHANGED <<now, world, depth, endorsers, blacklist, manager>>

(* Slip: any known device may vouch.                                       *)
MayEndorseKnown(i) == level[i] # UNKNOWN /\ depth[i] + 1 <= MaxDepth

(* Slip: the depth compared one too late.                                  *)
MayEndorseDeeper(i) == level[i] >= VERIFIED /\ depth[i] <= MaxDepth

(* The checks add_endorsement() makes of the endorser.                     *)
MayEndorse(i) == level[i] >= VERIFIED /\ depth[i] + 1 <= MaxDepth

AddEndorsement(i, j) ==
    /\ <<i, j>> \in vouchers
    /\ MayEndorse(i)
    /\ level' = Added(j, ENDORSED)
    /\ endorsers' = [endorsers EXCEPT ![j] = @ \cup {i}]
    /\ depth' = [depth EXCEPT ![j] = depth[i] + 1]
    /\ UNCHANGED <<now, world, blacklist, manager, confirmed>>

Distrust(i) ==
    /\ i \in Suspects
    /\ blacklist' = blacklist \cup {i}
    /\ UNCHANGED <<now, world, records, manager, confirmed>>

RemoveBlacklist(i) ==
    /\ i \in blacklist
    /\ blacklist' = blacklist \ {i}
    /\ UNCHANGED <<now, world, records, manager, confirmed>>

-----------------------------------------------------------------------------
(* RotationManager.                                                        *)

(* Slip: a transition with the last timestamp passes again.                *)
AcceptableAgain(t) ==
    /\ level[t.old] # UNKNOWN
    /\ t.ts <= now + MaxClockSkew /\ t.ts >= lastTs[t.old]
    /\ rotations[t.old] < MaxRotations

(* The checks of apply_transition(); signature and new id are right.       *)
Acceptable(t) ==
    /\ level[t.old] # UNKNOWN
    /\ t.ts <= now + MaxClockSkew /\ t.ts > lastTs[t.old]
    /\ rotations[t.old] < MaxRotations

(* Slip: the endorsers are left with the old record.                       *)
EndorsersAfterNone(t) == endorsers

EndorsersAfter(t) == [endorsers EXCEPT ![t.new] = @ \cup endorsers[t.old]]

ApplyTransition(t) ==
    /\ Acceptable(t)
    /\ level' = Added(t.new, level[t.old])
    /\ endorsers' = EndorsersAfter(t)
    /\ retired' = [retired EXCEPT ![t.old] = t.new]
    /\ lastTs' = [lastTs EXCEPT ![t.old] = t.ts]
    /\ rotations' = [rotations EXCEPT ![t.new] = rotations[t.old] + 1]
    /\ history' = [history EXCEPT ![t.new] = Append(@, t)]
    /\ UNCHANGED <<now, world, depth, blacklist, confirmed>>

Tick ==
    /\ now < MaxTime
    /\ now' = now + 1
    /\ UNCHANGED <<world, records, blacklist, manager, confirmed>>

-----------------------------------------------------------------------------
Init ==
    /\ now = 0
    /\ minted = Initial /\ current = Initial
    /\ vouchers = {} /\ transitions = {}
    /\ level = [i \in Ids |-> UNKNOWN]
    /\ depth = [i \in Ids |-> 0]
    /\ endorsers = [i \in Ids |-> {}]
    /\ blacklist = {}
    /\ retired = [i \in Ids |-> None]
    /\ rotations = [i \in Ids |-> 0]
    /\ lastTs = [i \in Ids |-> 0]
    /\ history = [i \in Ids |-> <<>>]
    /\ confirmed = {}

Next ==
    \/ \E i, j \in Ids :
          \/ \E ts \in 1 .. MaxTime : RotateKey(i, j, ts)
          \/ Endorse(i, j)
          \/ AddEndorsement(i, j)
    \/ \E i \in Ids :
          \/ Add(i, TOFU) \/ Add(i, VERIFIED)
          \/ ProcessHello(i) \/ VerifyFingerprint(i)
          \/ Distrust(i) \/ RemoveBlacklist(i)
    \/ \E t \in transitions : ApplyTransition(t)
    \/ Tick

Spec == Init /\ [][Next]_vars

-----------------------------------------------------------------------------
(* The depth of a record stays within the limit whatever is endorsed by    *)
(* whom and in which order.                                                *)
TypeOK ==
    /\ now \in 0 .. MaxTime
    /\ current \subseteq minted /\ minted \subseteq Ids
    /\ vouchers \subseteq Ids \X Ids /\ transitions \subseteq Transitions
    /\ level \in [Ids -> UNKNOWN .. ENDORSED]
    /\ depth \in [Ids -> 0 .. MaxDepth]
    /\ endorsers \in [Ids -> SUBSET Ids]
    /\ blacklist \subseteq Ids
    /\ retired \in [Ids -> Ids \cup {None}]
    /\ rotations \in [Ids -> 0 .. MaxRotations]
    /\ lastTs \in [Ids -> 0 .. MaxTime]
    /\ history \in [Ids -> Seq(Transitions)]
    /\ confirmed \subseteq Ids

(* S contains whom the operator confirmed, and with an identity those it   *)
(* endorsed and the one it rotated to.                                     *)
Closed(S) ==
    /\ confirmed \subseteq S
    /\ \A i \in S : retired[i] # None => retired[i] \in S
    /\ \A j \in Ids : endorsers[j] \cap S # {} => j \in S

(* Trust has a root: an identity is VERIFIED or ENDORSED only if a chain   *)
(* of endorsements and rotations leads to it from one the operator         *)
(* confirmed (trust.py, "At least one already-VERIFIED device has signed   *)
(* an endorsement"); endorsements that arrive in any order, in cycles or   *)
(* from identities since retired cannot hold each other up.                *)
Rooted ==
    \A S \in SUBSET Ids : Closed(S) =>
        \A i \in Ids : level[i] >= VERIFIED => i \in S

(* A record is ENDORSED exactly when it names an endorser, also after      *)
(* rotations onto identities that were already known.                      *)
EndorsedHasEndorsers == \A i \in Ids : level[i] = ENDORSED <=> endorsers[i] # {}

(* A record is never downgraded: not by a HELLO, not by a rotation from a  *)
(* less trusted identity (trust.py, "Add or upgrade").                     *)
NeverDowngraded == [][\A i \in Ids : level'[i] >= level[i]]_vars

(* A transition is applied once, however often it is delivered             *)
(* (identity.py, "The transition has not been seen before").               *)
AppliedOnce ==
    \A i \in Ids : \A m, n \in 1 .. Len(history[i]) :
        history[i][m] = history[i][n] => m = n

(* "Old identity must be known and trusted" (identity.py:298).             *)
MigratesOnlyTrusted ==
    [][\A i \in Ids : retired'[i] # retired[i] => IsTrusted(i)]_vars
=============================================================================
