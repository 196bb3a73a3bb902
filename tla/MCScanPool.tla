----------------------------- MODULE MCScanPool -----------------------------
(***************************************************************************)
(* An instance of ScanPool for TLC.                                        *)
(***************************************************************************)
EXTENDS ScanPool, TLC

CONSTANTS w1, w2

WorkerSymmetry == Permutations(Workers)

=============================================================================
