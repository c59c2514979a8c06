---------------------------- MODULE MCHandshake ----------------------------
(* Handshake for TLC: who may call initiate() in each configuration.       *)
EXTENDS Handshake

CONSTANTS a, b, c

TwoDevices    == {a, b}
ThreeDevices  == {a, b, c}
BothCall      == {<<a, b>>, <<b, a>>}

(* a may call b or c.                                                      *)
CallsOfA      == {<<a, b>>, <<a, c>>}
=============================================================================
