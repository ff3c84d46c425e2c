------------------------------ MODULE MCTransport ------------------------------
(***************************************************************************)
(* Transport for TLC.  The two ends differ, so there is no symmetry.       *)
(***************************************************************************)
EXTENDS Transport

AllFaults == FaultKinds
NoFaults  == {}
=============================================================================
