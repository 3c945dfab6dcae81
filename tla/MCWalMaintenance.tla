-------------------------- MODULE MCWalMaintenance --------------------------
(***************************************************************************)
(* Instances of WalMaintenance for TLC.                                    *)
(***************************************************************************)
EXTENDS WalMaintenance, TLC

CONSTANTS r1, r2

MCReaders == {r1, r2}

\* Off, every commit with a limit of two frames, every third with one.
MCPolicies == {[enabled |-> e, interval |-> p[1], limit |-> p[2]] :
                  e \in BOOLEAN, p \in {<<1, 2>>, <<3, 1>>}}

=============================================================================
