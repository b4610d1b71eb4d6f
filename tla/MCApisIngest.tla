---------------------------- MODULE MCApisIngest ----------------------------
(***************************************************************************)
(* TLC instance of ApisIngest.                                             *)
(***************************************************************************)
EXTENDS ApisIngest

CONSTANTS s1
MCSips == {s1}
=============================================================================
