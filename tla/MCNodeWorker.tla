---------------------------- MODULE MCNodeWorker ----------------------------
(* Instances of NodeWorker for TLC. *)
EXTENDS NodeWorker

CONSTANTS c1, c2, e1, e2, e3, bad

=============================================================================
