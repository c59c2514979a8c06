---------------------------- MODULE NaturalFacts ----------------------------
(***************************************************************************)
(* What the other proof modules need of the natural numbers: least and     *)
(* greatest members, induction over a set, and that a function defined by  *)
(* recursion satisfies its equation.  Induction is stated for sets instead *)
(* of predicates, a form the provers can use.                              *)
(***************************************************************************)
EXTENDS Integers, TLAPS, WellFoundedInduction

(* A set of natural numbers has a least member.                            *)
LEMMA Least ==
    ASSUME NEW S, S \subseteq Nat, S # {}
    PROVE  \E x \in S : \A y \in S : x <= y
<1> DEFINE R == OpToRel(<, Nat)
<1>1. IsWellFoundedOn(R, Nat)
  BY NatLessThanWellFounded, Zenon
<1>2. \A y, x \in Nat : y < x => <<y, x>> \in R
  BY DEF OpToRel
<1> HIDE DEF R
<1>3. PICK x \in S : \A y \in S : ~(<<y, x>> \in R)
  BY <1>1, WFMin, Zenon
<1>4. \A y \in S : ~(y < x)
  BY <1>2, <1>3
<1> QED BY <1>4

(* A bounded set of natural numbers has a greatest member.                 *)
LEMMA Greatest ==
    ASSUME NEW S, S \subseteq Nat, S # {}, NEW b \in Nat, \A y \in S : y <= b
    PROVE  \E x \in S : \A y \in S : y <= x
<1> DEFINE T == {n \in Nat : \E y \in S : n = b - y}
<1>1. T # {}
  <2>1. PICK y \in S : TRUE
    OBVIOUS
  <2>2. b - y \in T
    BY <2>1
  <2> QED BY <2>2
<1>2. PICK m \in T : \A n \in T : m <= n
  <2>1. T \subseteq Nat
    OBVIOUS
  <2> HIDE DEF T
  <2> QED BY <1>1, <2>1, Least
<1>3. PICK x \in S : m = b - x
  BY <1>2
<1>4. \A y \in S : b - y \in T
  OBVIOUS
<1> HIDE DEF T
<1>5. \A y \in S : y <= x
  BY <1>2, <1>3, <1>4
<1> QED BY <1>5

(* Induction.                                                              *)
LEMMA Induction ==
    ASSUME NEW S, 0 \in S, \A n \in Nat : n \in S => n + 1 \in S
    PROVE  \A n \in Nat : n \in S
<1> DEFINE T == {n \in Nat : n \notin S}
<1> SUFFICES ASSUME T # {} PROVE FALSE
  OBVIOUS
<1>1. T \subseteq Nat
  OBVIOUS
<1>2. PICK m \in T : \A n \in T : m <= n
  <2> HIDE DEF T
  <2> QED BY <1>1, Least
<1>3. m \in Nat /\ m # 0 /\ m \notin S
  BY <1>2
<1>4. m - 1 \in Nat /\ m - 1 \notin T
  BY <1>2, <1>3
<1> QED BY <1>3, <1>4

-----------------------------------------------------------------------------
(* Functions that begin with c and go on with step.                        *)
Chain(h, n, c, step) ==
    h[0] = c /\ \A i \in 0 .. n - 1 : h[i + 1] = step[<<i, h[i]>>]

(* There is one on every initial segment.                                  *)
LEMMA Segments ==
    ASSUME NEW T, NEW c \in T, NEW step \in [Nat \X T -> T], NEW n \in Nat
    PROVE  \E h \in [0 .. n -> T] : Chain(h, n, c, step)
<1> DEFINE S == {k \in Nat : \E h \in [0 .. k -> T] : Chain(h, k, c, step)}
<1>1. 0 \in S
  <2> DEFINE h == [i \in 0 .. 0 |-> c]
  <2>1. h \in [0 .. 0 -> T] /\ Chain(h, 0, c, step)
    BY DEF Chain
  <2> QED BY <2>1
<1>2. ASSUME NEW k \in Nat, k \in S PROVE k + 1 \in S
  <2>1. PICK h \in [0 .. k -> T] : Chain(h, k, c, step)
    BY <1>2
  <2> DEFINE g == [i \in 0 .. k + 1 |-> IF i = k + 1 THEN step[<<k, h[k]>>] ELSE h[i]]
  <2>2. g \in [0 .. k + 1 -> T]
    OBVIOUS
  <2>3. Chain(g, k + 1, c, step)
    <3>1. g[0] = c
      BY <2>1 DEF Chain
    <3>2. ASSUME NEW i \in 0 .. (k + 1) - 1 PROVE g[i + 1] = step[<<i, g[i]>>]
      <4>1. CASE i = k
        <5>1. g[k] = h[k] /\ g[k + 1] = step[<<k, h[k]>>]
          OBVIOUS
        <5> QED BY <4>1, <5>1
      <4>2. CASE i # k
        <5>1. i \in 0 .. k - 1 /\ g[i] = h[i] /\ g[i + 1] = h[i + 1]
          BY <4>2
        <5> QED BY <5>1, <2>1 DEF Chain
      <4> QED BY <4>1, <4>2
    <3> HIDE DEF g
    <3> QED BY <3>1, <3>2 DEF Chain
  <2> HIDE DEF g
  <2> QED BY <2>2, <2>3
<1> HIDE DEF S
<1>3. n \in S
  BY <1>1, <1>2, Induction
<1> QED BY <1>3 DEF S

(* Two of them agree where both are defined.                               *)
LEMMA SegmentsAgree ==
    ASSUME NEW c, NEW step, NEW m \in Nat, NEW n \in Nat, m <= n, NEW g, NEW h,
           Chain(g, m, c, step), Chain(h, n, c, step)
    PROVE  \A i \in 0 .. m : g[i] = h[i]
<1> DEFINE S == {i \in Nat : i <= m => g[i] = h[i]}
<1>1. 0 \in S
  BY DEF Chain
<1>2. ASSUME NEW i \in Nat, i \in S PROVE i + 1 \in S
  <2> SUFFICES ASSUME i + 1 <= m PROVE g[i + 1] = h[i + 1]
    OBVIOUS
  <2>1. i \in 0 .. m - 1 /\ i \in 0 .. n - 1 /\ g[i] = h[i]
    BY <1>2
  <2> QED BY <2>1 DEF Chain
<1> HIDE DEF S
<1>3. \A i \in Nat : i \in S
  BY <1>1, <1>2, Induction
<1> QED BY <1>3 DEF S

(* There is one on all natural numbers.                                    *)
Recurs(f, c, step) == f[0] = c /\ \A n \in Nat : f[n + 1] = step[<<n, f[n]>>]

LEMMA Recursion ==
    ASSUME NEW T, NEW c \in T, NEW step \in [Nat \X T -> T]
    PROVE  \E f \in [Nat -> T] : Recurs(f, c, step)
<1> DEFINE seg(n) == CHOOSE h \in [0 .. n -> T] : Chain(h, n, c, step)
           f == [n \in Nat |-> seg(n)[n]]
<1>1. \A n \in Nat : seg(n) \in [0 .. n -> T] /\ Chain(seg(n), n, c, step)
  BY Segments
<1> HIDE DEF seg
<1>2. f \in [Nat -> T]
  BY <1>1
<1>3. f[0] = c
  BY <1>1 DEF Chain
<1>4. ASSUME NEW n \in Nat PROVE f[n + 1] = step[<<n, f[n]>>]
  <2>1. seg(n + 1)[n + 1] = step[<<n, seg(n + 1)[n]>>]
    BY <1>1 DEF Chain
  <2>2. \A i \in 0 .. n : seg(n)[i] = seg(n + 1)[i]
    BY <1>1, SegmentsAgree
  <2> QED BY <2>1, <2>2
<1> HIDE DEF f
<1>5. Recurs(f, c, step)
  BY <1>3, <1>4 DEF Recurs
<1> QED BY <1>2, <1>5

-----------------------------------------------------------------------------
(* Factors.                                                                *)
LEMMA ProductFacts ==
    ASSUME NEW x \in Nat, NEW y \in Nat, NEW z \in Nat
    PROVE  /\ x * y \in Nat /\ x * y = y * x
           /\ x > 0 /\ y > 0 => x * y > 0
           /\ x <= y => x * z <= y * z
           /\ x < y /\ z > 0 => x * z < y * z
  OBVIOUS

(* A function that multiplies by b from one number to the next exists ...  *)
LEMMA Powers ==
    ASSUME NEW b \in Nat \ {0}, NEW c \in Nat \ {0}
    PROVE  \E h : h = [n \in Nat |-> IF n = 0 THEN c ELSE b * h[n - 1]]
<1> DEFINE step == [p \in Nat \X Nat |-> b * p[2]]
<1>1. step \in [Nat \X Nat -> Nat] /\ \A n, v \in Nat : step[<<n, v>>] = b * v
  BY ProductFacts
<1> HIDE DEF step
<1>2. c \in Nat
  OBVIOUS
<1>3. PICK h \in [Nat -> Nat] : Recurs(h, c, step)
  BY <1>1, <1>2, Recursion
<1>4. ASSUME NEW n \in Nat PROVE h[n] = IF n = 0 THEN c ELSE b * h[n - 1]
  <2>1. CASE n # 0
    <3>1. n - 1 \in Nat /\ (n - 1) + 1 = n
      BY <2>1
    <3>2. h[n] = step[<<n - 1, h[n - 1]>>] /\ h[n - 1] \in Nat
      BY <1>3, <3>1 DEF Recurs
    <3> QED BY <1>1, <2>1, <3>1, <3>2
  <2> QED BY <2>1, <1>3 DEF Recurs
<1>5. h = [n \in Nat |-> IF n = 0 THEN c ELSE b * h[n - 1]]
  BY <1>4
<1> QED BY <1>5

(* ... and has positive values.                                            *)
Multiplies(f, b, c) ==
    f \in [Nat -> Nat \ {0}] /\ f[0] = c /\ \A n \in Nat : f[n + 1] = b * f[n]

LEMMA PowerFacts ==
    ASSUME NEW b \in Nat \ {0}, NEW c \in Nat \ {0},
           NEW f, f = [n \in Nat |-> IF n = 0 THEN c ELSE b * f[n - 1]]
    PROVE  Multiplies(f, b, c)
<1>1. f[0] = c
  OBVIOUS
<1>2. \A n \in Nat : f[n + 1] = b * f[n]
  <2> SUFFICES ASSUME NEW n \in Nat PROVE f[n + 1] = b * f[n]
    OBVIOUS
  <2>1. n + 1 \in Nat /\ n + 1 # 0 /\ (n + 1) - 1 = n
    OBVIOUS
  <2> QED BY <2>1
<1> DEFINE S == {n \in Nat : f[n] \in Nat \ {0}}
<1>3. 0 \in S
  BY <1>1
<1>4. \A n \in Nat : n \in S => n + 1 \in S
  BY <1>2, ProductFacts
<1>5. \A n \in Nat : n \in S
  <2> HIDE DEF S
  <2> QED BY <1>3, <1>4, Induction
<1>6. f \in [Nat -> Nat \ {0}]
  <2>1. \A n \in Nat : f[n] \in Nat \ {0}
    BY <1>5
  <2> QED BY <2>1
<1> QED BY <1>1, <1>2, <1>6 DEF Multiplies
=============================================================================
