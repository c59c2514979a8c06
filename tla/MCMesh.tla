------------------------------- MODULE MCMesh -------------------------------
(***************************************************************************)
(* Mesh with settings of which the theorems of MeshProofs speak.           *)
(***************************************************************************)
EXTENDS Mesh

ASSUME SettingsAssumption == TrustsAlike /\ HopCountFits
=============================================================================
