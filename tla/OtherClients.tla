---------------------------- MODULE OtherClients ----------------------------
(***************************************************************************)
(* Other clients of the API server that change or delete what the operator *)
(* made (a scaled StatefulSet, an edited ConfigMap, a deleted Service).    *)
(* SetupWithManager watches KyuubiClusters only, so no pass follows; the   *)
(* operator finds out when it reconciles for another reason.               *)
(*                                                                         *)
(* All definitions here are Kubernetes'; the operator is that of           *)
(* KyuubiReconciler.                                                       *)
(***************************************************************************)
EXTENDS KyuubiReconciler

CONSTANTS
    Edited,     \* the objects that other clients change
    Removed     \* the objects that other clients delete

ASSUME IntrusionsAssumption == Edited \subseteq Kinds /\ Removed \subseteq Kinds

\* What another client may store: what suits another spec, or one port less.
Foreign(k) == IF k = "svc" THEN {Tail(contructDesiredService)} ELSE Manifest[k]

\* An intrusion counts as a fault.
Intrude(k, v) ==
    /\ api[k] # Nil
    /\ api[k] # v
    /\ Use("faults", MaxFaults)
    /\ Write(k, v)
    /\ UNCHANGED <<queueVars, localVars, past>>

OtherEdits(k) == \E data \in Foreign(k) : Intrude(k, [api[k] EXCEPT !.data = data])

OtherRemoves(k) == Intrude(k, Nil)

OtherNext ==
    \/ \E k \in Edited : OtherEdits(k)
    \/ \E k \in Removed : OtherRemoves(k)
    \/ Next

OtherSpec == Init /\ [][OtherNext]_vars /\ Fairness
=============================================================================
