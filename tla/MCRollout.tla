----------------------------- MODULE MCRollout ------------------------------
(***************************************************************************)
(* A small instance of KyuubiRollout for TLC.  The user edits the          *)
(* KyuubiCluster that he creates, or deletes it and creates another.       *)
(***************************************************************************)
EXTENDS KyuubiRollout, MCReconciler

MCInit ==
    /\ NothingYet({"edits", "faults"}) \/ NothingYet({"deletes", "faults"})
    /\ askedFor = <<0, 0>>
    /\ builtFrom = <<0, 0>>

MCSpec == MCInit /\ [][RolloutNext]_rolloutVars
=============================================================================
