---------------------------- MODULE MCSwitchover ----------------------------
(* Switchover on small replica sets, for TLC. *)
EXTENDS Switchover, TLC

(* The replicas of the initial primary are interchangeable. *)
Symmetry == Permutations(Node \ {InitPrimary})
=============================================================================
