------------------------- MODULE KyuubiRolloutProofs ------------------------
(***************************************************************************)
(* The reconciler implements what Rollout promises of the workload, and    *)
(* its requests are handled as in RequestBox: the refinements, for every   *)
(* set of specs and every value of the bounds.                             *)
(***************************************************************************)
EXTENDS KyuubiRollout, KyuubiVersionsProofs

-----------------------------------------------------------------------------
(***************************************************************************)
(* RequestBox.                                                             *)
(***************************************************************************)
\* A call of a pass is no event for RequestBox unless the pass ends with it.
LEMMA CallInBox ==
    ASSUME StoreTypeOK, Operator, ~Reconcile
    PROVE  /\ pc # "idle" /\ cache' = cache /\ queued' = queued
           /\ \/ pc' # "idle" /\ retry' = retry
              \/ pc' = "idle" /\ retry' = retry
              \/ pc' = "idle" /\ retry' = TRUE
  BY DEF Operator, createOrUpdateServiceAccount, createOrUpdateRole,
     createOrUpdateRoleBinding, CreateIfMissing, createOrUpdateKyuubiConfigmap,
     createOrUpdateClusterRefsConfigmap, CreateOrUpdateConfigMap,
     UpdateConfigMap, waitForKyuubiConfigmap, waitForClusterRefsConfigmap,
     WaitForConfigMap, createOrUpdateKyuubi, UpdateWorkload, createOrUpdateService,
     updateKyuubiClusterStatus, Create, Write, AlreadyExists, ReturnError, Leave,
     Proceed, storeVars, queueVars

\* Every step of the reconciler is a step of the request box, or none.
LEMMA BoxStep ==
    ASSUME TypeOK, [Next]_vars
    PROVE  [Box!Next]_(Box!vars)
<1>1. StoreTypeOK /\ "cr" \in AllKinds /\ queued \in BOOLEAN /\ retry \in BOOLEAN
      /\ "cr" \notin Kinds
  BY KindFacts DEF TypeOK, ReconcilerTypeOK
<1>2. ASSUME cache' = cache, queued' = queued, retry' = retry,
             (pc' # "idle") = (pc # "idle")
      PROVE  UNCHANGED Box!vars
  BY <1>2 DEF Box!vars
<1>3. CASE User
  <2>1. UNCHANGED <<cache, queueVars, pc>>
    BY <1>3 DEF User, UserCreates, UserEdits, UserDeletes, WriteCluster, Write
  <2> QED BY <1>2, <2>1 DEF queueVars
<1>4. CASE Reconcile
  BY <1>4 DEF Reconcile, storeVars, localVars, Box!Next, Box!Begin, Box!BeginInVain
<1>5. CASE Operator /\ ~Reconcile
  <2>1. /\ pc # "idle" /\ cache' = cache /\ queued' = queued
        /\ \/ pc' # "idle" /\ retry' = retry
           \/ pc' = "idle" /\ retry' = retry
           \/ pc' = "idle" /\ retry' = TRUE
    BY <1>1, <1>5, CallInBox
  <2> QED BY <1>2, <2>1 DEF Box!Next, Box!Succeed, Box!Fail
<1>6. CASE Kubernetes
  <2>1. ASSUME NEW k \in Kinds, GarbageCollect(k) PROVE UNCHANGED Box!vars
    BY <1>2, <2>1 DEF GarbageCollect, Write, queueVars, localVars
  <2>2. ASSUME NEW k \in AllKinds, DeliverEvent(k) PROVE [Box!Next]_(Box!vars)
    <3>1. /\ cache' = [cache EXCEPT ![k] = Head(lag[k])] /\ pc' = pc
          /\ queued' = (queued \/ k = "cr") /\ retry' = retry
      BY <2>2 DEF DeliverEvent, localVars
    <3>2. CASE k = "cr"
      <4>1. queued' = TRUE
        BY <3>1, <3>2
      <4> QED BY <3>1, <4>1 DEF Box!Next, Box!Learn, Box!Remind
    <3>3. CASE k # "cr"
      <4>1. cache'["cr"] = cache["cr"] /\ queued' = queued
        BY <1>1, <3>1, <3>3 DEF StoreTypeOK
      <4> QED BY <3>1, <4>1 DEF Box!vars
    <3> QED BY <3>2, <3>3
  <2>3. CASE Resync
    BY <2>3 DEF Resync, storeVars, localVars, Box!Next, Box!Remind
  <2>4. CASE RetryExpires
    BY <2>4 DEF RetryExpires, storeVars, localVars, Box!Next, Box!RetryExpires
  <2> QED BY <1>6, <2>1, <2>2, <2>3, <2>4 DEF Kubernetes
<1>7. CASE CallFails
  BY <1>7 DEF CallFails, Leave, storeVars, Box!Next, Box!Fail
<1>8. CASE Restart
  BY <1>8 DEF Restart, Leave, Box!Next, Box!Restart
<1>9. CASE UNCHANGED vars
  BY <1>2, <1>9 DEF vars, storeVars, queueVars, localVars
<1> QED BY <1>3, <1>4, <1>5, <1>6, <1>7, <1>8, <1>9 DEF Next, Operator

\* The passes of the reconciler are requested, run and retried as RequestBox
\* says: every step of the reconciler, its informers, its queue and its failures
\* is a step of RequestBox or none.
THEOREM RequestsAreHandled == Spec => ImplementsRequestBox
<1>1. Init => Box!Init
  BY KindFacts DEF Init, Box!Init
<1>2. TypeOK /\ [Next]_vars => [Box!Next]_(Box!vars)
  BY BoxStep
<1> QED BY <1>1, <1>2, TypeCorrectness, PTL DEF Spec, ImplementsRequestBox, Box!Spec

-----------------------------------------------------------------------------
(***************************************************************************)
(* Rollout.                                                                *)
(***************************************************************************)
IsPair(v) == v = <<v[1], v[2]>> /\ v[1] \in Nat /\ v[2] \in Nat

\* What the history variables have to do with the state.  Every copy of the
\* KyuubiCluster that a pass has, or will have, lies between the version that
\* the workload was built from and the one that was asked for.
RolloutInv ==
    /\ IsPair(askedFor) /\ IsPair(builtFrom)
    /\ askedFor[1] = used["creates"]
    /\ api["cr"] # Nil => askedFor = VersionOf(api["cr"])
    /\ R!NotAfter(builtFrom, askedFor)
    /\ \A c \in Seen : /\ R!NotAfter(builtFrom, VersionOf(c))
                       /\ R!NotAfter(VersionOf(c), askedFor)
    /\ api["sts"] # Nil => api["sts"].owner = builtFrom[1]

\* The versions of a KyuubiCluster are ordered lexicographically.
LEMMA NotAfterOrders ==
    ASSUME NEW u, NEW v, NEW w, IsPair(u), IsPair(v), IsPair(w)
    PROVE  /\ R!NotAfter(u, u)
           /\ R!NotAfter(u, v) /\ R!NotAfter(v, w) => R!NotAfter(u, w)
  BY DEF IsPair, R!NotAfter

\* The version of a KyuubiCluster is its uid and its generation.
LEMMA VersionIsPair ==
    ASSUME NEW c \in Cluster
    PROVE  /\ IsPair(VersionOf(c))
           /\ VersionOf(c)[1] = c.uid /\ VersionOf(c)[2] = c.generation
  BY ClusterFields DEF VersionOf, IsPair

\* Only createOrUpdateKyuubi builds the workload, and only the garbage collector
\* takes it away.
LEMMA WorkloadSteps ==
    ASSUME BaseInv, [Next]_vars
    PROVE  \/ createOrUpdateKyuubi /\ WorkloadBuilt
           \/ /\ ~WorkloadBuilt
              /\ api'["sts"] = api["sts"] \/ ObjectCollected("sts")
<1>1. "sts" \in Kinds /\ "sts" \in AllKinds /\ StoreTypeOK /\ "sts" # "cr"
  BY KindFacts DEF BaseInv, TypeOK
<1>2. CASE createOrUpdateKyuubi
  BY <1>2, WorkloadStores DEF WorkloadBuilt, createOrUpdateKyuubi, storeVars
<1>3. CASE Operator /\ ~createOrUpdateKyuubi
  <2>1. pc # "sts"
    BY <1>3 DEF Operator, Reconcile, createOrUpdateServiceAccount, createOrUpdateRole,
       createOrUpdateRoleBinding, CreateIfMissing, createOrUpdateKyuubiConfigmap,
       createOrUpdateClusterRefsConfigmap, waitForKyuubiConfigmap,
       waitForClusterRefsConfigmap, WaitForConfigMap, createOrUpdateService,
       updateKyuubiClusterStatus
  <2>2. ASSUME NEW k \in Kinds, NEW v, PassStores(k, v) PROVE api'["sts"] = api["sts"]
    BY <1>1, <2>1, <2>2 DEF PassStores, Kept
  <2>3. ASSUME NEW v, StatusStored(v) PROVE api'["sts"] = api["sts"]
    BY <1>1, <2>3 DEF StatusStored, Kept
  <2> QED BY <1>3, <2>1, <2>2, <2>3, PassEffect DEF Kept, WorkloadBuilt
<1>4. CASE User
  <2>1. api'["sts"] = api["sts"] /\ pc' = pc
    BY <1>1, <1>4, UserEffect DEF ClusterCreated, ClusterEdited, ClusterDeleted,
       UserStores, Kept
  <2> QED BY <2>1 DEF WorkloadBuilt
<1>5. CASE Kubernetes
  <2>1. ASSUME NEW k \in Kinds, GarbageCollect(k)
        PROVE  (api'["sts"] = api["sts"] \/ ObjectCollected("sts")) /\ pc' = pc
    <3>1. Stores(k, Nil) /\ \A j \in AllKinds \ {k} : Kept(j)
      BY <1>1, <2>1, KindFacts, WriteEffect DEF GarbageCollect
    <3>2. ObjectCollected(k) /\ pc' = pc
      BY <2>1, <3>1 DEF GarbageCollect, ObjectCollected, localVars
    <3> QED BY <1>1, <3>1, <3>2 DEF Kept
  <2>2. CASE \/ \E k \in AllKinds : DeliverEvent(k)
             \/ Resync \/ RetryExpires
    BY <2>2 DEF DeliverEvent, Resync, RetryExpires, storeVars, localVars,
       WorkloadBuilt
  <2> QED BY <1>5, <2>1, <2>2 DEF Kubernetes, WorkloadBuilt
<1>6. CASE CallFails \/ Restart \/ UNCHANGED vars
  BY <1>6 DEF CallFails, Restart, Leave, vars, storeVars, localVars, WorkloadBuilt
<1> QED BY <1>2, <1>3, <1>4, <1>5, <1>6 DEF Next

\* What a step does to askedFor: the user asks, withdraws, or nothing happens.
LEMMA AskedStep ==
    ASSUME BaseInv, BaseInv', VersionsInv, VersionsInv', RolloutInv, [Next]_vars,
           askedFor' = IF api'["cr"] # Nil THEN VersionOf(api'["cr"]) ELSE askedFor
    PROVE  /\ \/ /\ askedFor' = IF api["cr"] # Nil
                                THEN <<askedFor[1], askedFor[2] + 1>>
                                ELSE <<askedFor[1] + 1, 1>>
                 /\ api'["cr"] # Nil /\ api'["sts"] = api["sts"] /\ pc' = pc
              \/ /\ api["cr"] # Nil /\ api'["cr"] = Nil /\ askedFor' = askedFor
                 /\ api'["sts"] = api["sts"] /\ pc' = pc
              \/ (api'["cr"] # Nil) = (api["cr"] # Nil) /\ askedFor' = askedFor
           /\ IsPair(askedFor') /\ askedFor'[1] = used'["creates"]
           /\ api'["cr"] # Nil => askedFor' = VersionOf(api'["cr"])
           /\ R!NotAfter(askedFor, askedFor')
<1>1. /\ IsPair(askedFor) /\ askedFor[1] = used["creates"]
      /\ api["cr"] # Nil => /\ askedFor = VersionOf(api["cr"])
                            /\ api["cr"] \in Cluster
      /\ "sts" \in Kinds
  BY SeenTypes, KindFacts DEF RolloutInv
<1>2. api'["cr"] # Nil => api'["cr"] \in Cluster
  BY ClusterAfter
<1>3. ASSUME NEW v, ClusterCreated(v)
      PROVE  /\ askedFor' = <<askedFor[1] + 1, 1>> /\ api["cr"] = Nil
             /\ api'["cr"] # Nil /\ api'["sts"] = api["sts"] /\ pc' = pc
             /\ used'["creates"] = used["creates"] + 1
  <2>1. /\ api'["cr"] = v /\ v \in Cluster /\ v.uid = used["creates"] + 1
        /\ v.generation = 1
    BY <1>3 DEF ClusterCreated, UserStores, Stores
  <2>2. v # Nil
    BY <2>1, CopyFacts
  <2> QED BY <1>1, <1>3, <2>1, <2>2 DEF ClusterCreated, UserStores, Kept, VersionOf
<1>4. ASSUME NEW v, ClusterEdited(v)
      PROVE  /\ askedFor' = <<askedFor[1], askedFor[2] + 1>> /\ api["cr"] # Nil
             /\ api'["cr"] # Nil /\ api'["sts"] = api["sts"] /\ pc' = pc
             /\ used'["creates"] = used["creates"]
  <2>1. /\ api'["cr"] = v /\ v \in Cluster /\ v.uid = api["cr"].uid
        /\ v.generation = api["cr"].generation + 1 /\ api["cr"] # Nil
    BY <1>4 DEF ClusterEdited, UserStores, Stores
  <2>2. v # Nil
    BY <2>1, CopyFacts
  <2>3. askedFor[1] = api["cr"].uid /\ askedFor[2] = api["cr"].generation
    BY <1>1, <2>1, VersionIsPair
  <2> QED BY <1>1, <1>4, <2>1, <2>2, <2>3
          DEF ClusterEdited, UserStores, Kept, VersionOf
<1>5. CASE ClusterDeleted
  <2>1. /\ api["cr"] # Nil /\ api'["cr"] = Nil /\ askedFor' = askedFor
        /\ api'["sts"] = api["sts"] /\ pc' = pc /\ used'["creates"] = used["creates"]
    BY <1>1, <1>5 DEF ClusterDeleted, UserStores, Stores, Kept
  <2> QED BY <1>1, <2>1, NotAfterOrders
<1>6. CASE OwnStep
  <2>1. /\ (api'["cr"] # Nil) = (api["cr"] # Nil)
        /\ used'["creates"] = used["creates"]
        /\ api["cr"] # Nil => /\ api'["cr"].uid = api["cr"].uid
                              /\ api'["cr"].generation = api["cr"].generation
    <3>1. ASSUME NEW v, StatusStored(v)
          PROVE  /\ api["cr"] # Nil /\ api'["cr"] # Nil
                 /\ api'["cr"].uid = api["cr"].uid
                 /\ api'["cr"].generation = api["cr"].generation
      BY <3>1, CopyFacts DEF StatusStored, Stores
    <3>2. ASSUME ~(\E v : StatusStored(v)) PROVE api'["cr"] = api["cr"]
      BY <1>6, <3>2, KindFacts DEF OwnStep, AllKept, PassStores, ObjectCollected,
         EventApplied, AllListed, Kept, Applies, Lists
    <3> QED BY <1>6, <3>1, <3>2 DEF OwnStep
  <2>2. askedFor' = askedFor
    BY <1>1, <2>1 DEF VersionOf
  <2> QED BY <1>1, <2>1, <2>2, NotAfterOrders
<1>7. ASSUME NEW v, ClusterCreated(v) \/ ClusterEdited(v)
      PROVE  /\ IsPair(askedFor') /\ askedFor'[1] = used'["creates"]
             /\ R!NotAfter(askedFor, askedFor')
  BY <1>1, <1>3, <1>4, <1>7 DEF IsPair, R!NotAfter
<1>8. api'["cr"] # Nil => askedFor' = VersionOf(api'["cr"])
  OBVIOUS
<1> QED BY <1>3, <1>4, <1>5, <1>6, <1>7, <1>8, StepEffect

\* The workload that createOrUpdateKyuubi leaves behind was built from the version
\* in hand, which is no older than the one before and no newer than what was
\* asked for.
LEMMA BuiltStep ==
    ASSUME BaseInv, VersionsInv, RolloutInv, createOrUpdateKyuubi, WorkloadBuilt,
           builtFrom' = IF WorkloadBuilt THEN VersionOf(kyuubi) ELSE builtFrom
    PROVE  /\ IsPair(builtFrom')
           /\ R!NotAfter(builtFrom, builtFrom') /\ R!NotAfter(builtFrom', askedFor)
           /\ \A c \in Seen : R!NotAfter(builtFrom', VersionOf(c))
           /\ api'["sts"] # Nil /\ api'["sts"].owner = builtFrom'[1]
           /\ api'["cr"] = api["cr"]
<1>1. builtFrom' = VersionOf(kyuubi) /\ pc # "idle" /\ pc' = "svc"
  BY DEF WorkloadBuilt
<1>2. kyuubi # Nil /\ kyuubi \in Cluster
  BY <1>1, PassFacts DEF BaseInv
<1>3. kyuubi \in Seen /\ \A c \in Seen : NotNewer(kyuubi, c)
  BY <1>2, SeenAfterPass DEF VersionsInv
<1>4. IsPair(builtFrom') /\ builtFrom'[1] = kyuubi.uid
  BY <1>1, <1>2, VersionIsPair
<1>5. R!NotAfter(builtFrom, builtFrom') /\ R!NotAfter(builtFrom', askedFor)
  BY <1>1, <1>3 DEF RolloutInv
<1>6. \A c \in Seen : R!NotAfter(builtFrom', VersionOf(c))
  BY <1>1, <1>3 DEF R!NotAfter, NotNewer, VersionOf
<1>7. /\ (\A j : Kept(j)) \/ \E v : PassStores("sts", v)
      /\ api'["sts"] =
           [owner |-> kyuubi.uid,
            data  |-> ServerDefaults(constructDesiredKyuubiWorkload(kyuubi.spec))]
  BY <1>1, WorkloadStores
<1>8. api'["cr"] = api["cr"]
  BY <1>7, KindFacts DEF PassStores, Kept
<1>9. api'["sts"] # Nil
  <2> DEFINE data == ServerDefaults(constructDesiredKyuubiWorkload(kyuubi.spec))
             v == [owner |-> kyuubi.uid, data |-> data]
  <2>1. kyuubi.spec \in Specs /\ kyuubi.uid \in 1..MaxCreates
    BY <1>1, PassFacts DEF BaseInv
  <2>2. data \in Manifest["sts"]
    BY <2>1, WorkloadManifest, DesiredIsManifest, KindFacts
  <2> HIDE DEF data
  <2>3. v \in Object("sts")
    BY <2>1, <2>2 DEF Object
  <2> HIDE DEF v
  <2> QED BY <1>7, <2>3, CopyFacts, KindFacts DEF v, data
<1>10. api'["sts"].owner = builtFrom'[1]
  BY <1>4, <1>7
<1> QED BY <1>4, <1>5, <1>6, <1>8, <1>9, <1>10

\* The history variables stay in step with the state.
LEMMA RolloutInvStep ==
    ASSUME BaseInv, BaseInv', VersionsInv, VersionsInv', RolloutInv, RolloutNext
    PROVE  RolloutInv'
<1>1. /\ [Next]_vars
      /\ askedFor' = IF api'["cr"] # Nil THEN VersionOf(api'["cr"]) ELSE askedFor
      /\ builtFrom' = IF WorkloadBuilt THEN VersionOf(kyuubi) ELSE builtFrom
  BY DEF RolloutNext
<1>2. /\ IsPair(askedFor') /\ askedFor'[1] = used'["creates"]
      /\ api'["cr"] # Nil => askedFor' = VersionOf(api'["cr"])
      /\ R!NotAfter(askedFor, askedFor')
  BY <1>1, AskedStep
<1>3. /\ IsPair(askedFor) /\ IsPair(builtFrom) /\ R!NotAfter(builtFrom, askedFor)
  BY DEF RolloutInv
<1>4. /\ IsPair(builtFrom') /\ R!NotAfter(builtFrom', askedFor)
      /\ \A c \in Seen : R!NotAfter(builtFrom', VersionOf(c))
      /\ api'["sts"] # Nil => api'["sts"].owner = builtFrom'[1]
  <2>1. CASE createOrUpdateKyuubi /\ WorkloadBuilt
    BY <1>1, <2>1, BuiltStep
  <2>2. CASE ~WorkloadBuilt /\ (api'["sts"] = api["sts"] \/ ObjectCollected("sts"))
    BY <1>1, <2>2 DEF RolloutInv, ObjectCollected, Stores
  <2> QED BY <1>1, <2>1, <2>2, WorkloadSteps
<1>5. R!NotAfter(builtFrom', askedFor')
  BY <1>2, <1>3, <1>4, NotAfterOrders
<1>6. ASSUME NEW c \in Seen'
      PROVE  /\ R!NotAfter(builtFrom', VersionOf(c))
             /\ R!NotAfter(VersionOf(c), askedFor')
  <2>1. c # Nil
    BY DEF Seen
  <2>2. CASE c \in Seen
    <3>1. IsPair(VersionOf(c)) /\ R!NotAfter(VersionOf(c), askedFor)
      BY <2>2, SeenTypes, VersionIsPair DEF RolloutInv
    <3> QED BY <1>2, <1>3, <1>4, <2>2, <3>1, NotAfterOrders
  <2>3. CASE c = api'["cr"]
    BY <1>2, <1>5, <2>1, <2>3, NotAfterOrders
  <2> QED BY <1>1, <2>2, <2>3, SeenStep
<1>7. \A c \in Seen' : /\ R!NotAfter(builtFrom', VersionOf(c))
                       /\ R!NotAfter(VersionOf(c), askedFor')
  BY <1>6
<1> QED BY <1>2, <1>4, <1>5, <1>7 DEF RolloutInv, IsPair, VersionOf, R!NotAfter

\* Every step of the reconciler is one that Rollout allows, or changes nothing
\* that Rollout speaks of.
LEMMA RollStep ==
    ASSUME BaseInv, BaseInv', VersionsInv, VersionsInv', RolloutInv, RolloutNext
    PROVE  [R!Next]_(R!vars)
<1>1. /\ [Next]_vars
      /\ askedFor' = IF api'["cr"] # Nil THEN VersionOf(api'["cr"]) ELSE askedFor
      /\ builtFrom' = IF WorkloadBuilt THEN VersionOf(kyuubi) ELSE builtFrom
  BY DEF RolloutNext
<1>2. IsPair(askedFor) /\ IsPair(builtFrom) /\ R!NotAfter(builtFrom, askedFor)
  BY DEF RolloutInv
<1>3. CASE createOrUpdateKyuubi /\ WorkloadBuilt
  <2>1. /\ IsPair(builtFrom')
        /\ R!NotAfter(builtFrom, builtFrom') /\ R!NotAfter(builtFrom', askedFor)
        /\ api'["sts"] # Nil /\ api'["cr"] = api["cr"]
    BY <1>1, <1>3, BuiltStep
  <2>2. askedFor' = askedFor
    BY <1>1, <2>1 DEF RolloutInv
  <2>3. builtFrom' \in R!Version
    BY <2>1 DEF IsPair, R!Version
  <2>4. R!Roll
    BY <2>1, <2>2, <2>3 DEF R!Roll
  <2> QED BY <2>4 DEF R!Next
<1>4. CASE ~WorkloadBuilt /\ (api'["sts"] = api["sts"] \/ ObjectCollected("sts"))
  <2>1. builtFrom' = builtFrom
    BY <1>1, <1>4
  <2>2. CASE /\ askedFor' = IF api["cr"] # Nil
                            THEN <<askedFor[1], askedFor[2] + 1>>
                            ELSE <<askedFor[1] + 1, 1>>
             /\ api'["cr"] # Nil /\ api'["sts"] = api["sts"]
    <3>1. R!Ask
      BY <2>1, <2>2 DEF R!Ask
    <3> QED BY <3>1 DEF R!Next
  <2>3. CASE /\ api["cr"] # Nil /\ api'["cr"] = Nil /\ askedFor' = askedFor
             /\ api'["sts"] = api["sts"]
    <3>1. R!Withdraw
      BY <2>1, <2>3 DEF R!Withdraw
    <3> QED BY <3>1 DEF R!Next
  <2>4. CASE (api'["cr"] # Nil) = (api["cr"] # Nil) /\ askedFor' = askedFor
    <3>1. CASE api'["sts"] = api["sts"]
      BY <2>1, <2>4, <3>1 DEF R!vars
    <3>2. CASE ObjectCollected("sts")
      <4>1. /\ api["sts"] # Nil /\ api'["sts"] = Nil
            /\ api["cr"] # Nil => api["cr"].uid # api["sts"].owner
        BY <3>2 DEF ObjectCollected, Stores
      <4>2. ASSUME api["cr"] # Nil PROVE builtFrom[1] < askedFor[1]
        <5>1. /\ askedFor[1] = api["cr"].uid /\ api["sts"].owner = builtFrom[1]
              /\ IsPair(askedFor) /\ IsPair(builtFrom)
          BY <4>1, <4>2 DEF RolloutInv, VersionOf
        <5> QED BY <1>2, <4>1, <4>2, <5>1 DEF IsPair, R!NotAfter
      <4>3. R!Remove
        BY <2>1, <2>4, <4>1, <4>2 DEF R!Remove
      <4> QED BY <4>3 DEF R!Next
    <3> QED BY <1>4, <3>1, <3>2
  <2> QED BY <1>1, <2>2, <2>3, <2>4, AskedStep
<1> QED BY <1>1, <1>3, <1>4, WorkloadSteps

\* The workload is built from what the user asked for and never from an older
\* version than before: the reconciler implements Rollout.
THEOREM WorkloadRollsForward == RolloutSpec => ImplementsRollout
<1>1. RolloutInit => HistoryInv /\ RolloutInv /\ R!Init
  <2> SUFFICES ASSUME RolloutInit PROVE HistoryInv /\ RolloutInv /\ R!Init
    OBVIOUS
  <2>1. Init /\ askedFor = <<0, 0>> /\ builtFrom = <<0, 0>>
    BY DEF RolloutInit
  <2>2. HistoryInv
    BY <2>1, InitInv, InitVersions DEF HistoryInv
  <2>3. /\ api["cr"] = Nil /\ api["sts"] = Nil /\ cache["cr"] = Nil
        /\ lag["cr"] = <<>> /\ kyuubi = Nil /\ used["creates"] = 0
    BY <2>1, KindFacts DEF Init, Bounds
  <2>4. Range(lag["cr"]) = {}
    BY <2>3 DEF Range
  <2>5. Seen = {}
    BY <2>3, <2>4 DEF Seen
  <2>6. RolloutInv
    BY <2>1, <2>3, <2>5 DEF RolloutInv, IsPair, R!NotAfter
  <2>7. R!Init
    BY <2>1, <2>3 DEF R!Init
  <2> QED BY <2>2, <2>6, <2>7
<1>2. HistoryInv /\ RolloutInv /\ [RolloutNext]_rolloutVars
      => HistoryInv' /\ RolloutInv' /\ [R!Next]_(R!vars)
  <2> SUFFICES ASSUME HistoryInv, RolloutInv, [RolloutNext]_rolloutVars
               PROVE  HistoryInv' /\ RolloutInv' /\ [R!Next]_(R!vars)
    OBVIOUS
  <2>1. [Next]_vars
    BY DEF RolloutNext, rolloutVars
  <2>2. HistoryInv'
    BY <2>1, HistoryStep
  <2>3. BaseInv /\ BaseInv' /\ VersionsInv /\ VersionsInv'
    BY <2>2 DEF HistoryInv, WorkloadInv, BaseInv
  <2>4. CASE RolloutNext
    BY <2>2, <2>3, <2>4, RolloutInvStep, RollStep
  <2>5. CASE UNCHANGED rolloutVars
    <3>1. /\ UNCHANGED <<api, cache, lag, kyuubi, used>>
          /\ UNCHANGED <<askedFor, builtFrom>>
      BY <2>5 DEF rolloutVars, vars, storeVars, localVars, history
    <3>2. RolloutInv'
      BY <3>1 DEF RolloutInv, Seen, IsPair, VersionOf, R!NotAfter
    <3>3. UNCHANGED R!vars
      BY <3>1 DEF R!vars
    <3> QED BY <2>2, <3>2, <3>3
  <2> QED BY <2>4, <2>5
<1> QED BY <1>1, <1>2, PTL DEF RolloutSpec, ImplementsRollout, R!Spec
=============================================================================
