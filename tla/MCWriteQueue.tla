---------------------------- MODULE MCWriteQueue ----------------------------
(***************************************************************************)
(* An instance of WriteQueue for TLC.  Threads are interchangeable, but    *)
(* symmetry is not sound for the liveness properties and is not used.      *)
(***************************************************************************)
EXTENDS WriteQueue

CONSTANTS t1, t2, t3

MCThreads == {t1, t2, t3}

=============================================================================
