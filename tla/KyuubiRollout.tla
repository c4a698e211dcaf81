--------------------------- MODULE KyuubiRollout ----------------------------
(***************************************************************************)
(* The reconciler implements Rollout.  Neither the StatefulSet says which  *)
(* version of the KyuubiCluster it was built from, nor the API server what *)
(* it was asked for before a deletion, so two history variables do.  No    *)
(* step of the reconciler depends on them.                                 *)
(***************************************************************************)
EXTENDS KyuubiReconciler

VARIABLES
    askedFor,       \* the version of the present or the last KyuubiCluster
    builtFrom       \* the version the last StatefulSet was built from

rolloutVars == <<vars, askedFor, builtFrom>>

VersionOf(c) == <<c.uid, c.generation>>

RolloutInit ==
    /\ Init
    /\ askedFor = <<0, 0>>
    /\ builtFrom = <<0, 0>>

\* createOrUpdateKyuubi has returned without an error.
WorkloadBuilt == pc = "sts" /\ pc' = "svc"

RolloutNext ==
    /\ Next
    /\ askedFor' = IF api'["cr"] # Nil THEN VersionOf(api'["cr"]) ELSE askedFor
    /\ builtFrom' = IF WorkloadBuilt THEN VersionOf(kyuubi) ELSE builtFrom

RolloutSpec == RolloutInit /\ [][RolloutNext]_rolloutVars

R == INSTANCE Rollout WITH
        asked   <- askedFor,
        wanted  <- api["cr"] # Nil,
        built   <- builtFrom,
        running <- api["sts"] # Nil

\* The workload is built from what the user asked for, never from an older
\* version than before and not taken away while its KyuubiCluster is there: not
\* by passes on stale copies, retries, restarts or leftovers of a deleted
\* KyuubiCluster (createOrUpdateKyuubi overwrites unconditionally).
ImplementsRollout == R!Spec

Box == INSTANCE RequestBox WITH
          known   <- cache["cr"],
          running <- pc # "idle"

\* Passes are requested, run and retried as in RequestBox, the abstraction that
\* the queue of several names implements as well: what is shown here of one
\* name holds beside others, as long as the worker is not held up.
ImplementsRequestBox == Box!Spec
=============================================================================
