---------------------------- MODULE TrustProofs -----------------------------
(***************************************************************************)
(* Proofs about Trust, for any set of identities and any endorsements.     *)
(* Rooted needs to know that an identity rotates once, so that a           *)
(* retirement, once recorded, is never redirected (Rotated); AppliedOnce   *)
(* needs the timestamps of the applied transitions (Stamped).              *)
(***************************************************************************)
EXTENDS Trust, TLAPS

(* An identity signs one transition, and retirements come from them.       *)
Rotated ==
    /\ \A t \in transitions : t.old \in minted /\ t.old \notin current
    /\ \A t, u \in transitions : t.old = u.old => t = u
    /\ \A i \in Ids : retired[i] # None =>
          \E t \in transitions : t.old = i /\ t.new = retired[i]

(* The last timestamp of an identity is that of its latest transition.     *)
Stamped ==
    \A i \in Ids : \A n \in 1 .. Len(history[i]) :
        history[i][n].ts <= lastTs[history[i][n].old]

Inv == /\ TypeOK /\ Rotated /\ Stamped
       /\ Rooted /\ EndorsedHasEndorsers /\ AppliedOnce

-----------------------------------------------------------------------------
(* The larger of two levels.                                               *)
LEMMA MaxLevelFacts ==
    ASSUME NEW x \in UNKNOWN .. ENDORSED, NEW y \in UNKNOWN .. ENDORSED
    PROVE  /\ MaxLevel(x, y) \in UNKNOWN .. ENDORSED
           /\ MaxLevel(x, y) >= x /\ MaxLevel(x, y) >= y
           /\ MaxLevel(x, y) = x \/ MaxLevel(x, y) = y
  BY DEF MaxLevel, UNKNOWN, ENDORSED

(* add() changes one level, upwards (trust.py:174-209).                    *)
LEMMA AddedFacts ==
    ASSUME TypeOK, NEW i \in Ids, NEW l \in UNKNOWN .. ENDORSED
    PROVE  /\ Added(i, l) \in [Ids -> UNKNOWN .. ENDORSED]
           /\ Added(i, l)[i] = MaxLevel(level[i], l)
           /\ \A j \in Ids \ {i} : Added(i, l)[j] = level[j]
  BY MaxLevelFacts DEF TypeOK, Added

(* Every step keeps the types; levels never go down.                       *)
LEMMA TypeStep ==
    ASSUME TypeOK, [Next]_vars
    PROVE  TypeOK' /\ \A i \in Ids : level'[i] >= level[i]
<1>0. \A i \in Ids : level[i] \in UNKNOWN .. ENDORSED /\ level[i] >= level[i]
  BY DEF TypeOK, UNKNOWN, ENDORSED
<1>1. TOFU \in UNKNOWN .. ENDORSED /\ VERIFIED \in UNKNOWN .. ENDORSED
      /\ ENDORSED \in UNKNOWN .. ENDORSED
  BY DEF UNKNOWN, TOFU, VERIFIED, ENDORSED
<1>2. ASSUME NEW i \in Ids, NEW l \in UNKNOWN .. ENDORSED, level' = Added(i, l)
      PROVE  /\ level' \in [Ids -> UNKNOWN .. ENDORSED]
             /\ \A j \in Ids : level'[j] >= level[j]
  <2>1. /\ Added(i, l) \in [Ids -> UNKNOWN .. ENDORSED]
        /\ Added(i, l)[i] = MaxLevel(level[i], l)
        /\ \A j \in Ids \ {i} : Added(i, l)[j] = level[j]
    BY AddedFacts
  <2>2. MaxLevel(level[i], l) >= level[i]
    BY <1>0, MaxLevelFacts
  <2> QED BY <1>0, <1>2, <2>1, <2>2
<1>3. ASSUME NEW i \in Ids, NEW j \in Ids, NEW ts \in 1 .. MaxTime, RotateKey(i, j, ts)
      PROVE  TypeOK' /\ level' = level
  <2>1. transitions' \subseteq Transitions
    BY <1>3 DEF RotateKey, TypeOK, Transitions
  <2> QED BY <1>3, <2>1 DEF RotateKey, TypeOK, records, manager
<1>4. ASSUME NEW i \in Ids, NEW j \in Ids, Endorse(i, j)
      PROVE  TypeOK' /\ level' = level
  <2>1. vouchers' \subseteq Ids \X Ids
    BY <1>4 DEF Endorse, TypeOK
  <2> QED BY <1>4, <2>1 DEF Endorse, TypeOK, records, manager
<1>5. ASSUME NEW i \in Ids, NEW j \in Ids, AddEndorsement(i, j)
      PROVE  TypeOK' /\ \A k \in Ids : level'[k] >= level[k]
  <2>1. /\ level' \in [Ids -> UNKNOWN .. ENDORSED]
        /\ \A k \in Ids : level'[k] >= level[k]
    BY <1>1, <1>2, <1>5 DEF AddEndorsement
  <2>2. depth' \in [Ids -> 0 .. MaxDepth]
    BY <1>5, TrustAssumption DEF AddEndorsement, MayEndorse, TypeOK
  <2>3. endorsers' \in [Ids -> SUBSET Ids]
    BY <1>5 DEF AddEndorsement, TypeOK
  <2> QED BY <1>5, <2>1, <2>2, <2>3 DEF AddEndorsement, TypeOK, world, manager
<1>6. ASSUME NEW i \in Ids, Add(i, TOFU) \/ Add(i, VERIFIED)
      PROVE  TypeOK' /\ \A k \in Ids : level'[k] >= level[k]
  <2>1. /\ level' \in [Ids -> UNKNOWN .. ENDORSED]
        /\ \A k \in Ids : level'[k] >= level[k]
    BY <1>1, <1>2, <1>6 DEF Add
  <2>2. confirmed' \subseteq Ids
    BY <1>6 DEF Add, TypeOK
  <2> QED BY <1>6, <2>1, <2>2 DEF Add, TypeOK, world, manager
<1>7. ASSUME NEW i \in Ids, ProcessHello(i)
      PROVE  TypeOK' /\ \A k \in Ids : level'[k] >= level[k]
  <2>1. /\ level' \in [Ids -> UNKNOWN .. ENDORSED]
        /\ \A k \in Ids : level'[k] >= level[k]
    BY <1>1, <1>2, <1>7 DEF ProcessHello
  <2> QED BY <1>7, <2>1 DEF ProcessHello, TypeOK, world, manager
<1>8. ASSUME NEW i \in Ids, VerifyFingerprint(i)
      PROVE  TypeOK' /\ \A k \in Ids : level'[k] >= level[k]
  <2>1. /\ level' \in [Ids -> UNKNOWN .. ENDORSED]
        /\ \A k \in Ids : level'[k] >= level[k]
    BY <1>1, <1>2, <1>8 DEF VerifyFingerprint, Added
  <2> QED BY <1>8, <2>1 DEF VerifyFingerprint, TypeOK, world, manager
<1>9. ASSUME NEW i \in Ids, Distrust(i) \/ RemoveBlacklist(i)
      PROVE  TypeOK' /\ level' = level
  BY <1>9 DEF Distrust, RemoveBlacklist, TypeOK, world, records, manager
<1>10. ASSUME NEW t \in transitions, ApplyTransition(t)
       PROVE  TypeOK' /\ \A k \in Ids : level'[k] >= level[k]
  <2>1. t \in Transitions /\ t.old \in Ids /\ t.new \in Ids /\ t.ts \in 1 .. MaxTime
    BY DEF TypeOK, Transitions
  <2>2. /\ level' \in [Ids -> UNKNOWN .. ENDORSED]
        /\ \A k \in Ids : level'[k] >= level[k]
    BY <1>0, <1>2, <1>10, <2>1 DEF ApplyTransition
  <2>3. endorsers' \in [Ids -> SUBSET Ids]
    BY <1>10, <2>1 DEF ApplyTransition, EndorsersAfter, TypeOK
  <2>4. retired' \in [Ids -> Ids \cup {None}]
    BY <1>10, <2>1 DEF ApplyTransition, TypeOK
  <2>7. lastTs' \in [Ids -> 0 .. MaxTime]
    <3>1. t.ts \in 0 .. MaxTime
      BY <2>1, TrustAssumption
    <3> QED BY <1>10, <2>1, <3>1 DEF ApplyTransition, TypeOK
  <2>5. rotations' \in [Ids -> 0 .. MaxRotations]
    <3>1. rotations[t.old] \in 0 .. MaxRotations /\ rotations[t.old] < MaxRotations
      BY <1>10, <2>1 DEF ApplyTransition, Acceptable, TypeOK
    <3>2. rotations[t.old] + 1 \in 0 .. MaxRotations
      BY <3>1, TrustAssumption
    <3> QED BY <1>10, <2>1, <3>2 DEF ApplyTransition, TypeOK
  <2>6. history' \in [Ids -> Seq(Transitions)]
    <3>1. history[t.new] \in Seq(Transitions)
      BY <2>1 DEF TypeOK
    <3>2. Append(history[t.new], t) \in Seq(Transitions)
      BY <2>1, <3>1
    <3> QED BY <1>10, <3>2 DEF ApplyTransition, TypeOK
  <2> QED BY <1>10, <2>2, <2>3, <2>4, <2>5, <2>6, <2>7 DEF ApplyTransition, TypeOK, world
<1>11. CASE Tick
  <2>1. now' \in 0 .. MaxTime
    BY <1>11, TrustAssumption DEF Tick, TypeOK
  <2> QED BY <1>0, <1>11, <2>1 DEF Tick, TypeOK, world, records, manager
<1>12. CASE UNCHANGED vars
  BY <1>0, <1>12 DEF TypeOK, vars
<1> QED BY <1>0, <1>3, <1>4, <1>5, <1>6, <1>7, <1>8, <1>9, <1>10, <1>11, <1>12 DEF Next

-----------------------------------------------------------------------------
(* What a transition does, given its types.                                *)
LEMMA ApplyFacts ==
    ASSUME TypeOK, NEW t \in transitions, ApplyTransition(t)
    PROVE  /\ t \in Transitions /\ t.old \in Ids /\ t.new \in Ids /\ t.ts \in Int
           /\ lastTs[t.old] < t.ts
           /\ level'[t.new] = MaxLevel(level[t.new], level[t.old])
           /\ \A i \in Ids \ {t.new} : level'[i] = level[i] /\ endorsers'[i] = endorsers[i]
           /\ endorsers'[t.new] = endorsers[t.new] \cup endorsers[t.old]
           /\ retired'[t.old] = t.new
           /\ \A i \in Ids \ {t.old} : retired'[i] = retired[i]
           /\ UNCHANGED <<confirmed, minted, current, transitions>>
<1>1. t \in Transitions /\ t.old \in Ids /\ t.new \in Ids /\ t.ts \in Int
  BY DEF TypeOK, Transitions
<1>2. lastTs[t.old] < t.ts
  BY <1>1 DEF ApplyTransition, Acceptable, TypeOK
<1>3. /\ level'[t.new] = MaxLevel(level[t.new], level[t.old])
      /\ \A i \in Ids \ {t.new} : level'[i] = level[i]
  <2>1. level[t.old] \in UNKNOWN .. ENDORSED
    BY <1>1 DEF TypeOK
  <2>2. level' = Added(t.new, level[t.old])
    BY DEF ApplyTransition
  <2> QED BY <1>1, <2>1, <2>2, AddedFacts
<1>4. /\ endorsers'[t.new] = endorsers[t.new] \cup endorsers[t.old]
      /\ \A i \in Ids \ {t.new} : endorsers'[i] = endorsers[i]
  BY <1>1 DEF ApplyTransition, EndorsersAfter, TypeOK
<1>5. /\ retired'[t.old] = t.new
      /\ \A i \in Ids \ {t.old} : retired'[i] = retired[i]
      /\ UNCHANGED <<confirmed, minted, current, transitions>>
  BY <1>1 DEF ApplyTransition, TypeOK, world
<1> QED BY <1>1, <1>2, <1>3, <1>4, <1>5

(* Every step keeps Rotated.                                               *)
LEMMA RotatedStep ==
    ASSUME TypeOK, Rotated, [Next]_vars
    PROVE  Rotated'
<1>1. ASSUME NEW i \in Ids, NEW j \in Ids, NEW ts \in 1 .. MaxTime, RotateKey(i, j, ts)
      PROVE  Rotated'
  <2> DEFINE t == [old |-> i, new |-> j, ts |-> ts]
  <2>1. /\ i \in current /\ i \in minted /\ j \notin minted /\ j # i
        /\ minted' = minted \cup {j} /\ current' = (current \ {i}) \cup {j}
        /\ transitions' = transitions \cup {t} /\ t.old = i /\ retired' = retired
    BY <1>1 DEF RotateKey, TypeOK, manager
  <2> HIDE DEF t
  <2> QED BY <2>1 DEF Rotated
<1>2. ASSUME NEW t \in transitions, ApplyTransition(t)
      PROVE  Rotated'
  BY <1>2, ApplyFacts DEF Rotated
<1>3. ASSUME UNCHANGED <<minted, current, transitions, retired>>
      PROVE  Rotated'
  BY <1>3 DEF Rotated
<1>4. ASSUME NEW i \in Ids, NEW j \in Ids, Endorse(i, j) \/ AddEndorsement(i, j)
      PROVE  Rotated'
  BY <1>3, <1>4 DEF Endorse, AddEndorsement, manager, world
<1>5. ASSUME NEW i \in Ids,
             \/ Add(i, TOFU) \/ Add(i, VERIFIED) \/ ProcessHello(i) \/ VerifyFingerprint(i)
             \/ Distrust(i) \/ RemoveBlacklist(i)
      PROVE  Rotated'
  BY <1>3, <1>5 DEF Add, ProcessHello, VerifyFingerprint, Distrust, RemoveBlacklist, manager, world
<1>6. CASE Tick \/ UNCHANGED vars
  BY <1>3, <1>6 DEF Tick, vars, manager, world
<1> QED BY <1>1, <1>2, <1>4, <1>5, <1>6 DEF Next

-----------------------------------------------------------------------------
(* Every step keeps Rooted: whoever gets a level of VERIFIED or more gets  *)
(* it from the operator, an endorser that has it or a predecessor.         *)
LEMMA RootedStep ==
    ASSUME TypeOK, Rotated, Rooted, [Next]_vars
    PROVE  Rooted'
<1> DEFINE Grow(S) == /\ confirmed \subseteq confirmed'
                      /\ \A i \in Ids : retired[i] # None => retired'[i] = retired[i]
                      /\ \A i \in Ids : endorsers[i] \subseteq endorsers'[i]
<1>1. ASSUME NEW S \in SUBSET Ids, Closed(S)', Grow(S)
      PROVE  \A i \in Ids : level[i] >= VERIFIED => i \in S
  <2>1. Closed(S)
    BY <1>1 DEF Closed
  <2> QED BY <2>1 DEF Rooted
<1>2. ASSUME level' = level, UNCHANGED <<confirmed, retired, endorsers>>
      PROVE  Rooted'
  BY <1>1, <1>2 DEF Rooted
<1>3. ASSUME NEW i \in Ids, NEW j \in Ids, AddEndorsement(i, j)
      PROVE  Rooted'
  <2>1. /\ level[i] >= VERIFIED /\ UNCHANGED <<confirmed, retired>>
        /\ i \in endorsers'[j] /\ \A k \in Ids : endorsers[k] \subseteq endorsers'[k]
    BY <1>3 DEF AddEndorsement, MayEndorse, manager, TypeOK
  <2>2. \A k \in Ids \ {j} : level'[k] = level[k]
    BY <1>3, AddedFacts DEF AddEndorsement, UNKNOWN, ENDORSED
  <2>3. ASSUME NEW S \in SUBSET Ids, Closed(S)'
        PROVE  \A k \in Ids : level'[k] >= VERIFIED => k \in S
    <3>1. i \in S /\ \A k \in Ids : level[k] >= VERIFIED => k \in S
      BY <1>1, <2>1, <2>3
    <3>2. j \in S
      BY <2>1, <2>3, <3>1 DEF Closed
    <3> QED BY <2>2, <3>1, <3>2
  <2> QED BY <2>3 DEF Rooted
<1>4. ASSUME NEW i \in Ids, confirmed \subseteq confirmed', UNCHANGED <<retired, endorsers>>,
             \A k \in Ids \ {i} : level'[k] = level[k],
             level'[i] >= VERIFIED => level[i] >= VERIFIED \/ i \in confirmed'
      PROVE  Rooted'
  <2>1. ASSUME NEW S \in SUBSET Ids, Closed(S)'
        PROVE  \A k \in Ids : level'[k] >= VERIFIED => k \in S
    <3>1. \A k \in Ids : level[k] >= VERIFIED => k \in S
      BY <1>1, <1>4, <2>1
    <3>2. confirmed' \subseteq S
      BY <2>1 DEF Closed
    <3> QED BY <1>4, <3>1, <3>2
  <2> QED BY <2>1 DEF Rooted
<1>5. ASSUME NEW i \in Ids, Add(i, TOFU) \/ ProcessHello(i)
      PROVE  Rooted'
  <2>1. level' = Added(i, TOFU) /\ confirmed' = confirmed /\ UNCHANGED <<retired, endorsers>>
    BY <1>5 DEF Add, ProcessHello, manager, TOFU, VERIFIED
  <2>2. /\ level'[i] = MaxLevel(level[i], TOFU)
        /\ \A k \in Ids \ {i} : level'[k] = level[k]
    BY <2>1, AddedFacts DEF UNKNOWN, TOFU, ENDORSED
  <2>3. level'[i] >= VERIFIED => level[i] >= VERIFIED
    BY <2>2 DEF MaxLevel, TOFU, VERIFIED
  <2> QED BY <1>4, <2>1, <2>2, <2>3
<1>6. ASSUME NEW i \in Ids, Add(i, VERIFIED) \/ VerifyFingerprint(i)
      PROVE  Rooted'
  <2>1. /\ level' = Added(i, VERIFIED) /\ confirmed' = confirmed \cup {i}
        /\ UNCHANGED <<retired, endorsers>>
    BY <1>6 DEF Add, VerifyFingerprint, Added, manager
  <2>2. \A k \in Ids \ {i} : level'[k] = level[k]
    BY <2>1, AddedFacts DEF UNKNOWN, VERIFIED, ENDORSED
  <2> QED BY <1>4, <2>1, <2>2
<1>7. ASSUME NEW t \in transitions, ApplyTransition(t)
      PROVE  Rooted'
  <2>1. retired[t.old] # None => retired[t.old] = t.new
    BY <1>7, ApplyFacts DEF Rotated
  <2>2. ASSUME NEW S \in SUBSET Ids, Closed(S)'
        PROVE  \A k \in Ids : level'[k] >= VERIFIED => k \in S
    <3>1. Grow(S)
      BY <1>7, <2>1, ApplyFacts
    <3>2. \A k \in Ids : level[k] >= VERIFIED => k \in S
      BY <1>1, <2>2, <3>1
    <3>3. level[t.old] >= VERIFIED => t.new \in S
      <4>1. t.old \in Ids /\ t.new \in Ids /\ retired'[t.old] = t.new /\ t.new # None
        BY <1>7, ApplyFacts, TrustAssumption
      <4> QED BY <2>2, <3>2, <4>1 DEF Closed
    <3>4. level'[t.new] = level[t.new] \/ level'[t.new] = level[t.old]
      BY <1>7, ApplyFacts DEF MaxLevel
    <3>5. \A k \in Ids \ {t.new} : level'[k] = level[k]
      BY <1>7, ApplyFacts
    <3> QED BY <3>2, <3>3, <3>4, <3>5
  <2> QED BY <2>2 DEF Rooted
<1>8. ASSUME NEW i \in Ids, NEW j \in Ids,
             Endorse(i, j) \/ (\E ts \in 1 .. MaxTime : RotateKey(i, j, ts))
      PROVE  Rooted'
  BY <1>2, <1>8 DEF Endorse, RotateKey, records, manager
<1>9. ASSUME NEW i \in Ids, Distrust(i) \/ RemoveBlacklist(i)
      PROVE  Rooted'
  BY <1>2, <1>9 DEF Distrust, RemoveBlacklist, records, manager
<1>10. CASE Tick \/ UNCHANGED vars
  BY <1>2, <1>10 DEF Tick, vars, records, manager
<1> HIDE DEF Grow
<1> QED BY <1>3, <1>5, <1>6, <1>7, <1>8, <1>9, <1>10 DEF Next

-----------------------------------------------------------------------------
(* Every step keeps EndorsedHasEndorsers.                                  *)
LEMMA EndorsedStep ==
    ASSUME TypeOK, EndorsedHasEndorsers, [Next]_vars
    PROVE  EndorsedHasEndorsers'
<1>0. \A i \in Ids : level[i] \in UNKNOWN .. ENDORSED
  BY DEF TypeOK
<1>1. ASSUME UNCHANGED <<level, endorsers>>
      PROVE  EndorsedHasEndorsers'
  BY <1>1 DEF EndorsedHasEndorsers
<1>2. ASSUME NEW i \in Ids, NEW l \in {TOFU, VERIFIED}, level' = Added(i, l), endorsers' = endorsers
      PROVE  EndorsedHasEndorsers'
  <2>1. /\ level'[i] = MaxLevel(level[i], l)
        /\ \A k \in Ids \ {i} : level'[k] = level[k]
    BY <1>2, AddedFacts DEF UNKNOWN, TOFU, VERIFIED, ENDORSED
  <2>2. level'[i] = ENDORSED <=> level[i] = ENDORSED
    BY <1>0, <1>2, <2>1 DEF MaxLevel, UNKNOWN, TOFU, VERIFIED, ENDORSED
  <2> QED BY <1>2, <2>1, <2>2 DEF EndorsedHasEndorsers
<1>3. ASSUME NEW i \in Ids,
             Add(i, TOFU) \/ Add(i, VERIFIED) \/ ProcessHello(i) \/ VerifyFingerprint(i)
      PROVE  EndorsedHasEndorsers'
  <2>1. endorsers' = endorsers /\ (level' = Added(i, TOFU) \/ level' = Added(i, VERIFIED))
    BY <1>3 DEF Add, ProcessHello, VerifyFingerprint, Added
  <2> QED BY <1>2, <2>1
<1>4. ASSUME NEW i \in Ids, NEW j \in Ids, AddEndorsement(i, j)
      PROVE  EndorsedHasEndorsers'
  <2>1. /\ level'[j] = MaxLevel(level[j], ENDORSED)
        /\ \A k \in Ids \ {j} : level'[k] = level[k]
    BY <1>4, AddedFacts DEF AddEndorsement, UNKNOWN, ENDORSED
  <2>2. level'[j] = ENDORSED
    BY <1>0, <2>1 DEF MaxLevel, UNKNOWN, ENDORSED
  <2>3. i \in endorsers'[j] /\ \A k \in Ids \ {j} : endorsers'[k] = endorsers[k]
    BY <1>4 DEF AddEndorsement, TypeOK
  <2> QED BY <2>1, <2>2, <2>3 DEF EndorsedHasEndorsers
<1>5. ASSUME NEW t \in transitions, ApplyTransition(t)
      PROVE  EndorsedHasEndorsers'
  <2>1. /\ t.old \in Ids /\ t.new \in Ids
        /\ level'[t.new] = MaxLevel(level[t.new], level[t.old])
        /\ endorsers'[t.new] = endorsers[t.new] \cup endorsers[t.old]
        /\ \A k \in Ids \ {t.new} : level'[k] = level[k] /\ endorsers'[k] = endorsers[k]
    BY <1>5, ApplyFacts
  <2>2. level'[t.new] = ENDORSED <=> level[t.new] = ENDORSED \/ level[t.old] = ENDORSED
    BY <1>0, <2>1 DEF MaxLevel, UNKNOWN, ENDORSED
  <2> QED BY <2>1, <2>2 DEF EndorsedHasEndorsers
<1>6. ASSUME NEW i \in Ids, NEW j \in Ids,
             Endorse(i, j) \/ (\E ts \in 1 .. MaxTime : RotateKey(i, j, ts))
      PROVE  EndorsedHasEndorsers'
  BY <1>1, <1>6 DEF Endorse, RotateKey, records
<1>7. ASSUME NEW i \in Ids, Distrust(i) \/ RemoveBlacklist(i)
      PROVE  EndorsedHasEndorsers'
  BY <1>1, <1>7 DEF Distrust, RemoveBlacklist, records
<1>8. CASE Tick \/ UNCHANGED vars
  BY <1>1, <1>8 DEF Tick, vars, records
<1> QED BY <1>3, <1>4, <1>5, <1>6, <1>7, <1>8 DEF Next

(* Every step keeps Stamped and AppliedOnce: an applied transition is too  *)
(* old to be applied again.                                                *)
LEMMA AppliedStep ==
    ASSUME TypeOK, Stamped, AppliedOnce, [Next]_vars
    PROVE  Stamped' /\ AppliedOnce'
<1>1. ASSUME UNCHANGED <<history, lastTs>>
      PROVE  Stamped' /\ AppliedOnce'
  BY <1>1 DEF Stamped, AppliedOnce
<1>2. ASSUME NEW t \in transitions, ApplyTransition(t)
      PROVE  Stamped' /\ AppliedOnce'
  <2> DEFINE h == history[t.new]
             g == Append(h, t)
  <2>1. /\ t \in Transitions /\ t.old \in Ids /\ t.new \in Ids /\ t.ts \in Int
        /\ lastTs[t.old] < t.ts
    BY <1>2, ApplyFacts
  <2>2. h \in Seq(Transitions) /\ history \in [Ids -> Seq(Transitions)] /\ lastTs \in [Ids -> 0 .. MaxTime]
    BY <2>1 DEF TypeOK
  <2>3. /\ history'[t.new] = g /\ \A i \in Ids \ {t.new} : history'[i] = history[i]
        /\ lastTs'[t.old] = t.ts /\ \A i \in Ids \ {t.old} : lastTs'[i] = lastTs[i]
    BY <1>2, <2>1, <2>2 DEF ApplyTransition
  <2>4. /\ Len(h) \in Nat /\ Len(g) = Len(h) + 1 /\ g[Len(h) + 1] = t
        /\ \A n \in 1 .. Len(h) : g[n] = h[n]
    BY <2>1, <2>2
  <2>5. \A i \in Ids : \A n \in 1 .. Len(history[i]) :
            /\ history[i][n] \in Transitions
            /\ history[i][n].old \in Ids /\ history[i][n].ts \in Int
    <3>1. SUFFICES ASSUME NEW i \in Ids, NEW n \in 1 .. Len(history[i])
                   PROVE  /\ history[i][n] \in Transitions
                          /\ history[i][n].old \in Ids /\ history[i][n].ts \in Int
      OBVIOUS
    <3>2. history[i] \in Seq(Transitions)
      BY <2>2
    <3>3. history[i][n] \in Transitions
      BY <3>2
    <3> QED BY <3>3 DEF Transitions
  <2>6. \A i \in Ids : lastTs[i] <= lastTs'[i] /\ lastTs[i] \in Int /\ lastTs'[i] \in Int
    BY <2>1, <2>2, <2>3
  <2>7. \A i \in Ids : \A n \in 1 .. Len(history[i]) :
            history[i][n].ts <= lastTs'[history[i][n].old] /\ history[i][n] # t
    <3>1. SUFFICES ASSUME NEW i \in Ids, NEW n \in 1 .. Len(history[i])
                   PROVE  history[i][n].ts <= lastTs'[history[i][n].old] /\ history[i][n] # t
      OBVIOUS
    <3>2. history[i][n].ts <= lastTs[history[i][n].old]
      BY DEF Stamped
    <3> QED BY <2>1, <2>5, <2>6, <3>2
  <2> HIDE DEF g
  <2>8. Stamped'
    <3>1. SUFFICES ASSUME NEW i \in Ids, NEW n \in 1 .. Len(history'[i])
                   PROVE  history'[i][n].ts <= lastTs'[history'[i][n].old]
      BY DEF Stamped
    <3>2. CASE i = t.new /\ n = Len(h) + 1
      BY <2>1, <2>3, <2>4, <3>2
    <3>3. CASE i = t.new /\ n \in 1 .. Len(h)
      BY <2>1, <2>3, <2>4, <2>7, <3>3
    <3>4. CASE i # t.new
      BY <2>3, <2>7, <3>4
    <3> QED BY <2>3, <2>4, <3>2, <3>3, <3>4
  <2>9. AppliedOnce'
    <3>1. SUFFICES ASSUME NEW i \in Ids, NEW m \in 1 .. Len(history'[i]),
                          NEW n \in 1 .. Len(history'[i]), history'[i][m] = history'[i][n]
                   PROVE  m = n
      BY DEF AppliedOnce
    <3>2. CASE i # t.new
      BY <2>3, <3>1, <3>2 DEF AppliedOnce
    <3>3. CASE i = t.new
      <4>1. \A k \in 1 .. Len(g) : k \in 1 .. Len(h) \/ k = Len(h) + 1
        BY <2>4
      <4>2. \A k \in 1 .. Len(h) : g[k] # t
        BY <2>1, <2>4, <2>7
      <4>3. \A k, l \in 1 .. Len(h) : g[k] = g[l] => k = l
        BY <2>1, <2>4 DEF AppliedOnce
      <4> QED BY <2>3, <2>4, <3>1, <3>3, <4>1, <4>2, <4>3
    <3> QED BY <3>2, <3>3
  <2> QED BY <2>8, <2>9
<1>3. ASSUME NEW i \in Ids, NEW j \in Ids,
             \/ Endorse(i, j) \/ AddEndorsement(i, j)
             \/ \E ts \in 1 .. MaxTime : RotateKey(i, j, ts)
      PROVE  Stamped' /\ AppliedOnce'
  BY <1>1, <1>3 DEF Endorse, AddEndorsement, RotateKey, manager
<1>4. ASSUME NEW i \in Ids,
             \/ Add(i, TOFU) \/ Add(i, VERIFIED) \/ ProcessHello(i) \/ VerifyFingerprint(i)
             \/ Distrust(i) \/ RemoveBlacklist(i)
      PROVE  Stamped' /\ AppliedOnce'
  BY <1>1, <1>4 DEF Add, ProcessHello, VerifyFingerprint, Distrust, RemoveBlacklist, manager
<1>5. CASE Tick \/ UNCHANGED vars
  BY <1>1, <1>5 DEF Tick, vars, manager
<1> QED BY <1>2, <1>3, <1>4, <1>5 DEF Next

-----------------------------------------------------------------------------
(* The theorems.                                                           *)

(* Inv is an invariant of the trust store and its rotation manager.        *)
THEOREM Invariance == Spec => []Inv
<1>1. Init => Inv
  <2> SUFFICES ASSUME Init
               PROVE  Inv
    OBVIOUS
  <2>1. TypeOK
    <3>1. <<>> \in Seq(Transitions)
      OBVIOUS
    <3> QED BY <3>1, TrustAssumption DEF Init, TypeOK, UNKNOWN, ENDORSED
  <2>2. Rotated /\ Stamped /\ AppliedOnce
    BY DEF Init, Rotated, Stamped, AppliedOnce
  <2>3. Rooted /\ EndorsedHasEndorsers
    BY DEF Init, Rooted, EndorsedHasEndorsers, UNKNOWN, VERIFIED, ENDORSED
  <2> QED BY <2>1, <2>2, <2>3 DEF Inv
<1>2. Inv /\ [Next]_vars => Inv'
  BY TypeStep, RotatedStep, RootedStep, EndorsedStep, AppliedStep DEF Inv
<1> QED BY <1>1, <1>2, PTL DEF Spec

(* The records of the store and the manager keep their types, the depth    *)
(* and the rotation count their limits.                                    *)
THEOREM TypeCorrect == Spec => []TypeOK
<1>1. Inv => TypeOK
  BY DEF Inv
<1> QED BY <1>1, Invariance, PTL

(* Trust above TOFU goes back to the operator (add, add_endorsement,       *)
(* apply_transition), for any web of endorsements and rotations.           *)
THEOREM TrustIsRooted == Spec => []Rooted
<1>1. Inv => Rooted
  BY DEF Inv
<1> QED BY <1>1, Invariance, PTL

(* ENDORSED records are those with endorsers, carried over by rotations.   *)
THEOREM EndorsersCarried == Spec => []EndorsedHasEndorsers
<1>1. Inv => EndorsedHasEndorsers
  BY DEF Inv
<1> QED BY <1>1, Invariance, PTL

(* apply_transition() accepts no transition twice.                         *)
THEOREM TransitionsOnce == Spec => []AppliedOnce
<1>1. Inv => AppliedOnce
  BY DEF Inv
<1> QED BY <1>1, Invariance, PTL

(* No operation of the store or the manager lowers a level.                *)
THEOREM LevelsOnlyRise == Spec => NeverDowngraded
<1>1. Inv /\ [Next]_vars => [\A i \in Ids : level'[i] >= level[i]]_vars
  BY TypeStep DEF Inv
<1> QED BY <1>1, Invariance, PTL DEF Spec, NeverDowngraded
=============================================================================
