--------------------------- MODULE MCReplacement ---------------------------
(* A set of three nodes and a spare, on its own. *)
EXTENDS Replacement

Spec ==
    /\ ReplacementInit /\ [][ReplacementNext]_replacementVars
    /\ WF_replacementVars(Tick)

MCNodes == <<"n1", "n2", "n3">>
=============================================================================
