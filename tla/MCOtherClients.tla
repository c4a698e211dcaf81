--------------------------- MODULE MCOtherClients ---------------------------
(***************************************************************************)
(* A small instance of OtherClients for TLC.  A KyuubiCluster is created   *)
(* and then edited, or there is a fault: a failure, a restart or another   *)
(* client.                                                                 *)
(***************************************************************************)
EXTENDS OtherClients, MCReconciler

MCInit == NothingYet({"edits"}) \/ NothingYet({"faults"})

MCSpec == MCInit /\ [][OtherNext]_vars /\ Fairness
=============================================================================
