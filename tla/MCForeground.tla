---------------------------- MODULE MCForeground ----------------------------
(***************************************************************************)
(* A small instance of Foreground for TLC.  A KyuubiCluster is created and *)
(* edited, with a failure; or it was created, its objects synchronised,    *)
(* nothing is left to do and the user may delete it.                       *)
(***************************************************************************)
EXTENDS Foreground, MCReconciler

MCInit ==
    /\ NothingYet({"edits", "faults"}) \/ ToBeDeleted
    /\ deleting = FALSE

MCSpec == MCInit /\ [][ForegroundNext]_foregroundVars /\ ForegroundFairness
=============================================================================
