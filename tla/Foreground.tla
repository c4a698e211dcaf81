----------------------------- MODULE Foreground -----------------------------
(***************************************************************************)
(* Foreground deletion of a KyuubiCluster (kubectl delete                  *)
(* --cascade=foreground): the KyuubiCluster stays, with a                  *)
(* deletionTimestamp, until the garbage collector has deleted the objects  *)
(* it owns.  Reconcile does not look at the deletionTimestamp, so passes   *)
(* go on for a KyuubiCluster that is being deleted and create again what   *)
(* they miss.                                                              *)
(*                                                                         *)
(* All definitions here are Kubernetes'; the operator is that of           *)
(* KyuubiReconciler.                                                       *)
(***************************************************************************)
EXTENDS KyuubiReconciler

VARIABLE deleting       \* whether the KyuubiCluster has a deletionTimestamp

foregroundVars == <<vars, deleting>>

ForegroundInit == Init /\ deleting = FALSE

Dependents == {k \in Kinds : api[k] # Nil /\ api[k].owner = api["cr"].uid}

\* The request is an event like any other update; it counts as a generation.
UserDeletesForeground ==
    /\ api["cr"] # Nil
    /\ ~deleting
    /\ Use("deletes", MaxDeletes)
    /\ WriteCluster([api["cr"] EXCEPT !.generation = @ + 1])
    /\ deleting' = TRUE
    /\ UNCHANGED <<queueVars, pc, kyuubi, existing, past>>

CollectDependent(k) ==
    /\ deleting
    /\ k \in Dependents
    /\ Len(lag[k]) < MaxLag
    /\ Write(k, Nil)
    /\ UNCHANGED <<queueVars, localVars, history, deleting>>

\* No dependents are left: the finalizer is removed, and with it the object.
Finish ==
    /\ deleting
    /\ Dependents = {}
    /\ WriteCluster(Nil)
    /\ deleting' = FALSE
    /\ UNCHANGED <<queueVars, pc, kyuubi, existing, history>>

\* Everything else goes on, except that nobody else removes the KyuubiCluster.
GoesOn ==
    /\ Next
    /\ deleting => api'["cr"] # Nil
    /\ UNCHANGED deleting

ForegroundNext ==
    \/ UserDeletesForeground
    \/ \E k \in Kinds : CollectDependent(k)
    \/ Finish
    \/ GoesOn

ForegroundFairness ==
    /\ Fairness
    /\ \A k \in Kinds : WF_foregroundVars(CollectDependent(k))
    /\ SF_foregroundVars(Finish)

ForegroundSpec ==
    /\ ForegroundInit
    /\ [][ForegroundNext]_foregroundVars
    /\ ForegroundFairness

-----------------------------------------------------------------------------
\* The operator's own writes do not keep it busy: without a resync and with
\* the user at rest, passes end (the status update triggers another pass, and
\* ConfigMaps are rewritten in random order), except while a deletion goes on.
SettlesUnlessDeleting ==
    \A spec \in Specs :
        Realisable(spec) /\ Stays(spec) /\ <>[]~deleting => <>[]Settled

Advertises(ports) ==
    api["cr"] # Nil /\ api["cr"].status.exposedInfos = ExposedInfos(ports)

\* A deletion that has begun comes to its end, unless the operator undoes the
\* collector's work for ever; then it does so pass after pass, by way of its own
\* status, which loses the service and gets it back again and again.
EndsUnlessStatusFlaps ==
    <>[]deleting => /\ []<>Advertises(<<>>)
                    /\ []<>Advertises(contructDesiredService)
=============================================================================
