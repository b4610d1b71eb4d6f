-------------------------- MODULE MCDuplicateCheck --------------------------
(***************************************************************************)
(* TLC instance of DuplicateCheck.                                         *)
(***************************************************************************)
EXTENDS DuplicateCheck

CONSTANTS s1, s2, c1, c2
MCSips == {s1, s2}
MCChecksums == {c1, c2}
=============================================================================
