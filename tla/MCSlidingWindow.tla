-------------------------- MODULE MCSlidingWindow --------------------------
(* SlidingWindow for TLC: the ends and how much each of them sends.        *)
EXTENDS SlidingWindow

CONSTANTS a, b

BothEnds  == {a, b}
OneWay    == (a :> 3) @@ (b :> 0)
FourOne   == (a :> 4) @@ (b :> 1)
TwoTwo    == (a :> 2) @@ (b :> 2)
=============================================================================
