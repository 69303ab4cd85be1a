------------------------------ MODULE MCFailover ------------------------------
(* Failover on small replica sets, for TLC. *)
EXTENDS Failover, TLC

(* The replicas of the initial primary are interchangeable. *)
Symmetry == Permutations(Node \ {InitPrimary})
=============================================================================
