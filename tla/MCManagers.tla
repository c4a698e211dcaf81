----------------------------- MODULE MCManagers -----------------------------
(***************************************************************************)
(* A small instance of Managers for TLC.  Either no KyuubiCluster was      *)
(* created yet and the user will not edit the one that he creates, or one  *)
(* was created, its objects synchronised and seen by both managers, and    *)
(* edits and failures come after that.                                     *)
(***************************************************************************)
EXTENDS Managers, MCReconciler

\* The status is written and nothing is left to do.  The specs of this instance
\* differ in every object, so it does not matter which one is the first.
SyncedInit ==
    /\ \E t \in Time : api = SyncedObjects(SpecE, Exposed(t))
    /\ AtRest
    /\ used = [b \in Bounds |-> IF b = "creates" THEN 1 ELSE 0]
    /\ leader \in IF leaderElect THEN {"first", "second"} ELSE {Nil}

MCInit ==
    /\ leaderElect \in BOOLEAN
    /\ (NothingYet({}) /\ leader = Nil) \/ SyncedInit
    /\ cache2 = api /\ lag2 = NoEvents
    /\ queued2 = FALSE /\ retry2 = FALSE /\ fresh2 = FALSE
    /\ pc2 = "idle" /\ kyuubi2 = Nil /\ existing2 = <<>>

MCSpec == MCInit /\ [][ManagersNext]_managerVars
=============================================================================
