------------------------------ MODULE MCTrust -------------------------------
(* Instances of Trust for TLC.                                             *)
EXTENDS Trust

CONSTANTS a, b, c, d

(* Two devices, with two rotations between them; the endorsements include  *)
(* a cycle, a chain and ones by and for identities that rotated.           *)
FourIds  == {a, b, c, d}
TwoFirst == {a, b}
OneFirst == {a}
Cyclic   == {<<a, b>>, <<b, a>>, <<b, c>>, <<c, b>>, <<c, d>>}
=============================================================================
