------------------------------ MODULE Rollout -------------------------------
(***************************************************************************)
(* What the operator promises for the workload of a KyuubiCluster, without *)
(* caches, passes, retries or failures: the workload is only ever built    *)
(* from what the user has asked for, and each time from something at least *)
(* as recent as the time before.                                           *)
(*                                                                         *)
(* A version is a pair: how many KyuubiClusters of the name there have     *)
(* been, and how often the spec of this one was written.                   *)
(***************************************************************************)
EXTENDS Integers

VARIABLES
    asked,      \* the latest version the user has asked for
    wanted,     \* whether there is a KyuubiCluster now
    built,      \* the latest version a workload was built from
    running     \* whether there is a workload now

vars == <<asked, wanted, built, running>>

Version == Nat \X Nat

\* v is not a later version than w.
NotAfter(v, w) == v[1] < w[1] \/ (v[1] = w[1] /\ v[2] <= w[2])

Init ==
    /\ asked = <<0, 0>>
    /\ wanted = FALSE
    /\ built = <<0, 0>>
    /\ running = FALSE

Ask ==
    /\ asked' = IF wanted THEN <<asked[1], asked[2] + 1>>
                          ELSE <<asked[1] + 1, 1>>
    /\ wanted' = TRUE
    /\ UNCHANGED <<built, running>>

Withdraw ==
    /\ wanted
    /\ wanted' = FALSE
    /\ UNCHANGED <<asked, built, running>>

\* The workload is built, or built anew, from a version that was asked for.
Roll ==
    /\ built' \in Version
    /\ NotAfter(built, built')
    /\ NotAfter(built', asked)
    /\ running' = TRUE
    /\ UNCHANGED <<asked, wanted>>

\* A workload goes away only with the KyuubiCluster it was built for.
Remove ==
    /\ running
    /\ wanted => built[1] < asked[1]
    /\ running' = FALSE
    /\ UNCHANGED <<asked, wanted, built>>

Next == Ask \/ Withdraw \/ Roll \/ Remove

Spec == Init /\ [][Next]_vars
=============================================================================
