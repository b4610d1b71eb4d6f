--------------------------- MODULE MCPreprocessing ---------------------------
(***************************************************************************)
(* TLC instance of Preprocessing: one type of each kind, since Execute     *)
(* tells the four types apart only by IsSIP and IsAIP.                     *)
(***************************************************************************)
EXTENDS Preprocessing

MCSIPTypes == {"BornDigitalSIP"}
MCAIPTypes == {"BornDigitalAIP"}
=============================================================================
