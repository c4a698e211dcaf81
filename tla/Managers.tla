------------------------------ MODULE Managers ------------------------------
(***************************************************************************)
(* Two processes of cmd/main.go over one API server.  Each has informers,  *)
(* a work queue and a worker of its own.  The variables of the first are   *)
(* those of KyuubiReconciler, the second is an instance with variables of  *)
(* its own; objects, user and garbage collector are common to both.        *)
(*                                                                         *)
(* With -leader-elect only the holder of the lease runs its controller;    *)
(* the informers of the other are warm, and may lag.  The lease library    *)
(* stops renewing, and main exits, before another process may take the     *)
(* lease over, so that the lease has at most one holder (RenewDeadline is  *)
(* shorter than LeaseDuration).                                            *)
(*                                                                         *)
(* A definition whose comment starts with "Seeded fault" is a plausible    *)
(* mistake in the one that follows it; the properties are shown to notice. *)
(***************************************************************************)
EXTENDS KyuubiReconciler

VARIABLES
    cache2, lag2, queued2, retry2, pc2, kyuubi2, fresh2, existing2,
    leaderElect,    \* whether main is started with -leader-elect
    leader          \* the holder of the lease, or Nil

\* The holder of a lease that nobody holds is not the name of a process.
ASSUME LeaseAssumption == Nil \notin {"first", "second"}

S == INSTANCE KyuubiReconciler WITH
        cache <- cache2, lag <- lag2, queued <- queued2, retry <- retry2,
        pc <- pc2, kyuubi <- kyuubi2, fresh <- fresh2, existing <- existing2

ownVars1 == <<cache, queueVars, pc, kyuubi, existing>>
ownVars2 == <<cache2, queued2, retry2, pc2, kyuubi2, existing2>>
leaseVars == <<leaderElect, leader>>
managerVars == <<vars, ownVars2, lag2, fresh2, leaseVars>>

\* What the watches of an idle process see of the step that another takes.
Told(events) ==
    [k \in AllKinds |-> IF api'[k] = api[k] THEN events[k]
                        ELSE Append(events[k], api'[k])]

FirstIsTold ==
    /\ lag' = Told(lag)
    /\ fresh' = (fresh /\ api'["cr"] = api["cr"])
    /\ UNCHANGED ownVars1

SecondIsTold ==
    /\ lag2' = Told(lag2)
    /\ fresh2' = (fresh2 /\ api'["cr"] = api["cr"])
    /\ UNCHANGED ownVars2

Leads(m) == leaderElect => leader = m

ManagersInit ==
    /\ Init
    /\ S!Init
    /\ leaderElect \in BOOLEAN
    /\ leader = Nil

-----------------------------------------------------------------------------
Environment ==
    /\ User \/ \E k \in Kinds : GarbageCollect(k)
    /\ SecondIsTold
    /\ UNCHANGED leaseVars

FirstManager ==
    /\ \/ Leads("first") /\ (Operator \/ RetryExpires \/ Resync \/ CallFails)
       \/ \E k \in AllKinds : DeliverEvent(k)
    /\ SecondIsTold
    /\ UNCHANGED leaseVars

SecondManager ==
    /\ \/ Leads("second") /\ (S!Operator \/ S!RetryExpires \/ S!Resync
                                \/ S!CallFails)
       \/ \E k \in AllKinds : S!DeliverEvent(k)
    /\ FirstIsTold
    /\ UNCHANGED leaseVars

\* A process ends, also because it could not renew its lease, and a new one
\* starts; it does not hold the lease.
Released(m) ==
    /\ leader' = IF leader = m THEN Nil ELSE leader
    /\ UNCHANGED leaderElect

FirstRestarts  == Restart /\ SecondIsTold /\ Released("first")
SecondRestarts == S!Restart /\ FirstIsTold /\ Released("second")

\* The controller starts: what its informer lists is what it queues.
FirstAcquires ==
    /\ leaderElect
    /\ leader = Nil
    /\ leader' = "first"
    /\ queued' = (cache["cr"] # Nil)
    /\ UNCHANGED <<storeVars, retry, localVars, history, leaderElect>>
    /\ UNCHANGED <<ownVars2, lag2, fresh2>>

\* Seeded fault: the new leader waits for news instead of listing.
SecondAcquiresSilently ==
    /\ leaderElect
    /\ leader = Nil
    /\ leader' = "second"
    /\ queued2' = FALSE
    /\ UNCHANGED <<vars, leaderElect, cache2, lag2, retry2>>
    /\ UNCHANGED <<pc2, kyuubi2, fresh2, existing2>>

SecondAcquires ==
    /\ leaderElect
    /\ leader = Nil
    /\ leader' = "second"
    /\ queued2' = (cache2["cr"] # Nil)
    /\ UNCHANGED <<vars, leaderElect, cache2, lag2, retry2>>
    /\ UNCHANGED <<pc2, kyuubi2, fresh2, existing2>>

ManagersNext ==
    \/ Environment
    \/ FirstManager \/ FirstRestarts \/ FirstAcquires
    \/ SecondManager \/ SecondRestarts \/ SecondAcquires

ManagersSpec == ManagersInit /\ [][ManagersNext]_managerVars

-----------------------------------------------------------------------------
\* No process that runs a controller has anything left to do.
AllQuiet ==
    /\ leaderElect => leader # Nil
    /\ Leads("first") => Settled
    /\ Leads("second") => S!Settled

\* With two managers, or after a change of the leader, the StatefulSet is still
\* what the KyuubiCluster asks for once all is quiet: a manager may overwrite
\* the other's newer StatefulSet from a stale KyuubiCluster, but then it has
\* yet to see the newer one and comes back (createOrUpdateKyuubi).
WorkloadSyncedByAll == AllQuiet /\ api["cr"] # Nil => InSync("sts")

\* As long as the first KyuubiCluster of its name has its first spec, every object
\* and the status are right as well once all is quiet: managers that create the
\* same objects at the same time run into AlreadyExists and conflicts, and come
\* back.
FirstSpecSyncedByAll ==
    AllQuiet /\ api["cr"] # Nil /\ api["cr"].uid = 1 /\ past = {} => Synced
=============================================================================
