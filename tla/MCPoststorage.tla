---------------------------- MODULE MCPoststorage ----------------------------
(***************************************************************************)
(* TLC instance of Poststorage.                                            *)
(***************************************************************************)
EXTENDS Poststorage

CONSTANTS p1, p2, w1, w2
MCRuns == {p1, p2}
MCOneRun == {p1}
MCWorkers == {w1, w2}
MCOneWorker == {w1}
=============================================================================
