----------------------------- MODULE MCReadPool -----------------------------
(***************************************************************************)
(* Instances of ReadPool for TLC.                                          *)
(***************************************************************************)
EXTENDS ReadPool, TLC

CONSTANTS c1, c2, t1, t2, t3, t4, w

MCConnections == {c1, c2}
MCThreads == {t1, t2, t3, t4, w}

=============================================================================
