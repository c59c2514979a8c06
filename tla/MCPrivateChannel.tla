-------------------------- MODULE MCPrivateChannel --------------------------
(***************************************************************************)
(* PrivateChannel with settings of which the theorems of                   *)
(* PrivateChannelProofs speak.                                             *)
(***************************************************************************)
EXTENDS PrivateChannel

ASSUME SettingsAssumption == BackoffFits
=============================================================================
