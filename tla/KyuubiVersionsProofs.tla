------------------------ MODULE KyuubiVersionsProofs ------------------------
(***************************************************************************)
(* Passes see the KyuubiCluster in the order in which it was written, and  *)
(* so no late pass rolls the workload back: proofs for every set of specs  *)
(* and every value of the bounds.                                          *)
(***************************************************************************)
EXTENDS KyuubiReconcilerProofs

\* The manifests that a spec asks for, kind by kind.
LEMMA WantedTable ==
    ASSUME NEW spec \in Specs
    PROVE  /\ Wanted["kyuubiCm"][spec] = constructKyuubiConfigMap(spec)
           /\ Wanted["refsCm"][spec] = desiredClusterRefsConfigMap(spec)
           /\ Wanted["svc"][spec] = {contructDesiredService}
           /\ \A k \in Access : Wanted[k][spec] = {k}
<1>1. /\ Desired("kyuubiCm", spec) = constructKyuubiConfigMap(spec)
      /\ Desired("refsCm", spec) = desiredClusterRefsConfigMap(spec)
      /\ Desired("svc", spec) = {contructDesiredService}
  BY DEF Desired
<1>2. \A k \in {"sa", "role", "rb"} : Desired(k, spec) = {k}
  BY DEF Desired
<1>3. \A k \in Kinds : Wanted[k][spec] = Desired(k, spec)
  BY DesiredIsManifest
<1> QED BY <1>1, <1>2, <1>3, KindFacts, AccessAssumption

-----------------------------------------------------------------------------
(***************************************************************************)
(* What a step does to one object, and what it does to the KyuubiCluster.  *)
(***************************************************************************)
\* What is known of the state but for WorkInHand.
BaseInv == TypeOK /\ InformersCatchUp /\ FreshIsCurrent

\* The object, the informer's copy of it and the events stay as they are.
Kept(k) == api'[k] = api[k] /\ cache'[k] = cache[k] /\ lag'[k] = lag[k]

\* The server stores v for object k.
Stores(k, v) ==
    /\ api'[k] = v
    /\ lag'[k] = Append(lag[k], v)
    /\ cache'[k] = cache[k]

\* The informer applies the next event of object k.
Applies(k) ==
    /\ lag[k] # <<>>
    /\ cache'[k] = Head(lag[k])
    /\ lag'[k] = Tail(lag[k])
    /\ api'[k] = api[k]

\* The informer of a new process lists object k.
Lists(k) == api'[k] = api[k] /\ cache'[k] = api[k] /\ lag'[k] = <<>>

\* The pass that is running stores v for object k.
PassStores(k, v) ==
    /\ pc = k
    /\ v \in Object(k)
    /\ v.data \in Wanted[k][kyuubi.spec]
    /\ v.owner = kyuubi.uid \/ (api[k] # Nil /\ v.owner = api[k].owner)
    /\ Stores(k, v)
    /\ \A j \in AllKinds \ {k} : Kept(j)
    /\ UNCHANGED <<queueVars, kyuubi, fresh, history>>

\* The last call of a pass stores the KyuubiCluster with a new status.
StatusStored(v) ==
    /\ pc = "status"
    /\ api["cr"] # Nil /\ kyuubi = api["cr"]
    /\ v \in Cluster
    /\ v.uid = api["cr"].uid /\ v.generation = api["cr"].generation
    /\ v.spec = api["cr"].spec
    /\ Stores("cr", v)
    /\ \A k \in Kinds : Kept(k)
    /\ Leave
    /\ UNCHANGED <<queueVars, history>>

\* A write changes one object and leaves the others as they are.
LEMMA WriteEffect ==
    ASSUME StoreTypeOK, NEW k \in AllKinds, NEW v, Write(k, v)
    PROVE  Stores(k, v) /\ \A j \in AllKinds \ {k} : Kept(j)
<1>1. /\ api' = [api EXCEPT ![k] = v] /\ cache' = cache
      /\ lag' = [lag EXCEPT ![k] = Append(lag[k], v)]
  BY DEF Write
<1>2. /\ api = [j \in AllKinds |-> api[j]] /\ lag = [j \in AllKinds |-> lag[j]]
  BY DEF StoreTypeOK
<1> QED BY <1>1, <1>2 DEF Stores, Kept

\* A step that leaves the store alone keeps every object.
LEMMA StoreKept == UNCHANGED storeVars => \A k : Kept(k)
  BY DEF storeVars, Kept

\* A call that creates object k stores what the spec in hand asks for.
LEMMA CreateStores ==
    ASSUME BaseInv, NEW k \in Kinds, pc = k, pc # "idle",
           NEW data \in Wanted[k][kyuubi.spec], Create(k, data),
           UNCHANGED <<queueVars, kyuubi, fresh, history>>
    PROVE  \E v : PassStores(k, v)
<1> DEFINE v == [owner |-> kyuubi.uid, data |-> data]
<1>1. k \in AllKinds /\ StoreTypeOK /\ Write(k, v)
  BY KindFacts DEF BaseInv, TypeOK, Create
<1>2. Stores(k, v) /\ \A j \in AllKinds \ {k} : Kept(j)
  BY <1>1, WriteEffect
<1>3. kyuubi.uid \in 1..MaxCreates /\ kyuubi.spec \in Specs
  BY PassFacts DEF BaseInv
<1>4. data \in Manifest[k]
  BY <1>3, DesiredIsManifest
<1>5. v \in Object(k) /\ v.owner = kyuubi.uid /\ v.data = data
  BY <1>3, <1>4 DEF Object
<1> HIDE DEF v
<1> QED BY <1>2, <1>5 DEF PassStores

\* createOrUpdateServiceAccount, createOrUpdateRole, createOrUpdateRoleBinding.
LEMMA AccessStores ==
    ASSUME BaseInv, NEW k \in {"sa", "role", "rb"}, NEW next,
           CreateIfMissing(k, next)
    PROVE  (\A j : Kept(j)) \/ (k \in Kinds /\ \E v : PassStores(k, v))
<1>1. pc = k /\ pc # "idle"
  BY DEF CreateIfMissing
<1>2. CASE UNCHANGED storeVars
  BY <1>2, StoreKept
<1>3. CASE k \in Access /\ Create(k, k) /\ Proceed(next)
  <2>1. k \in Kinds /\ kyuubi.spec \in Specs
    BY <1>1, <1>3, KindFacts, PassFacts DEF BaseInv
  <2>2. k \in Wanted[k][kyuubi.spec]
    BY <1>3, <2>1, WantedTable
  <2> QED BY <1>1, <1>3, <2>1, <2>2, CreateStores DEF Proceed
<1> QED BY <1>2, <1>3 DEF CreateIfMissing, AlreadyExists

\* A ConfigMap is written for the spec in hand, if at all.
LEMMA ConfigMapStores ==
    ASSUME BaseInv, NEW k \in {"kyuubiCm", "refsCm"}, pc = k,
           NEW data \in Wanted[k][kyuubi.spec], NEW wait, NEW next,
           CreateOrUpdateConfigMap(k, data, wait, next)
    PROVE  (\A j : Kept(j)) \/ \E v : PassStores(k, v)
<1>1. /\ k \in Kinds /\ k \in AllKinds /\ pc # "idle" /\ kyuubi.spec \in Specs
      /\ StoreTypeOK
  BY KindFacts, PassFacts DEF BaseInv, TypeOK
<1>2. CASE UNCHANGED storeVars
  BY <1>2, StoreKept
<1>3. CASE Create(k, data) /\ Proceed(wait)
  BY <1>1, <1>3, CreateStores DEF Proceed
<1>4. CASE /\ cache[k] # Nil /\ lag[k] = <<>>
           /\ Write(k, [cache[k] EXCEPT !.data = data])
           /\ Proceed(next)
  <2> DEFINE v == [cache[k] EXCEPT !.data = data]
  <2>1. api[k] = cache[k] /\ cache[k] \in Object(k)
    BY <1>1, <1>4, CopyFacts DEF BaseInv, InformersCatchUp, StoreTypeOK
  <2>2. data \in Manifest[k]
    BY <1>1, DesiredIsManifest
  <2>3. v \in Object(k) /\ v.owner = api[k].owner /\ v.data = data
    BY <2>1, <2>2 DEF Object
  <2>4. Stores(k, v) /\ \A j \in AllKinds \ {k} : Kept(j)
    BY <1>1, <1>4, WriteEffect
  <2> HIDE DEF v
  <2>5. PassStores(k, v)
    BY <1>4, <2>1, <2>3, <2>4 DEF PassStores, Proceed
  <2> QED BY <2>5
<1> QED BY <1>2, <1>3, <1>4
        DEF CreateOrUpdateConfigMap, UpdateConfigMap, AlreadyExists

\* createOrUpdateKyuubi, when it returns nil, leaves behind the StatefulSet of
\* the KyuubiCluster in hand.
LEMMA WorkloadStores ==
    ASSUME BaseInv, createOrUpdateKyuubi
    PROVE  /\ (\A j : Kept(j)) \/ \E v : PassStores("sts", v)
           /\ \/ /\ pc' = "svc"
                 /\ api'["sts"] =
                      [owner |-> kyuubi.uid,
                       data  |-> ServerDefaults(
                                    constructDesiredKyuubiWorkload(kyuubi.spec))]
                 /\ UNCHANGED <<queueVars, kyuubi, fresh, existing, history>>
              \/ pc' # "svc" /\ ReturnError /\ UNCHANGED storeVars
<1> DEFINE desired == constructDesiredKyuubiWorkload(kyuubi.spec)
           data == ServerDefaults(desired)
           v == [owner |-> kyuubi.uid, data |-> data]
<1>1. /\ pc = "sts" /\ pc # "idle" /\ "sts" \in Kinds /\ "sts" \in AllKinds
      /\ StoreTypeOK
  BY KindFacts DEF createOrUpdateKyuubi, BaseInv, TypeOK
<1>2. kyuubi.spec \in Specs /\ kyuubi.uid \in 1..MaxCreates
  BY <1>1, PassFacts DEF BaseInv
<1>3. data \in Wanted["sts"][kyuubi.spec]
  BY <1>2, WorkloadManifest
<1>4. v \in Object("sts") /\ v.owner = kyuubi.uid /\ v.data = data
  <2>1. data \in Manifest["sts"]
    BY <1>1, <1>2, <1>3, DesiredIsManifest
  <2> QED BY <1>2, <2>1 DEF Object
<1>5. ASSUME Write("sts", v), Proceed("svc")
      PROVE  PassStores("sts", v) /\ api'["sts"] = v
  <2>1. Stores("sts", v) /\ \A j \in AllKinds \ {"sts"} : Kept(j)
    BY <1>1, <1>5, WriteEffect
  <2> HIDE DEF v
  <2> QED BY <1>1, <1>3, <1>4, <1>5, <2>1 DEF PassStores, Proceed, Stores
<1>6. CASE Create("sts", data) /\ Proceed("svc")
  <2>1. Write("sts", v)
    BY <1>6 DEF Create
  <2> QED BY <1>5, <1>6, <2>1 DEF Proceed
<1>7. CASE cache["sts"] # Nil /\ UpdateWorkload(desired) /\ Proceed("svc")
  <2>1. cache["sts"].data # desired
    <3>1. cache["sts"].data \in Manifest["sts"]
      BY <1>1, <1>7, CopyFacts DEF StoreTypeOK
    <3> QED BY <3>1, StoredWorkloadDiffers
  <2>2. CASE api["sts"] = v
    <3>1. UNCHANGED storeVars
      BY <1>7, <2>2 DEF UpdateWorkload
    <3> QED BY <1>7, <2>2, <3>1, StoreKept DEF Proceed, storeVars
  <2>3. CASE api["sts"] # v
    <3>1. Write("sts", v)
      BY <1>7, <2>1, <2>3 DEF UpdateWorkload
    <3> QED BY <1>5, <1>7, <3>1 DEF Proceed
  <2> QED BY <2>2, <2>3
<1>8. CASE UNCHANGED storeVars /\ ReturnError
  BY <1>8, StoreKept DEF ReturnError, Leave
<1> QED BY <1>6, <1>7, <1>8 DEF createOrUpdateKyuubi

\* createOrUpdateService.
LEMMA ServiceStores ==
    ASSUME BaseInv, createOrUpdateService
    PROVE  (\A j : Kept(j)) \/ \E v : PassStores("svc", v)
<1>1. pc = "svc" /\ pc # "idle" /\ "svc" \in Kinds /\ kyuubi.spec \in Specs
  BY KindFacts, PassFacts DEF createOrUpdateService, BaseInv
<1>2. CASE UNCHANGED storeVars
  BY <1>2, StoreKept
<1>3. CASE UNCHANGED <<storeVars, queueVars, kyuubi, fresh, history>>
  BY <1>2, <1>3
<1>4. CASE Create("svc", contructDesiredService) /\ Proceed("status")
  <2>1. contructDesiredService \in Wanted["svc"][kyuubi.spec]
    BY <1>1, WantedTable
  <2> QED BY <1>1, <1>4, <2>1, CreateStores DEF Proceed
<1> QED BY <1>2, <1>3, <1>4 DEF createOrUpdateService, AlreadyExists

\* updateKyuubiClusterStatus ends the pass; it may store the status.
LEMMA StatusStores ==
    ASSUME BaseInv, updateKyuubiClusterStatus
    PROVE  (\A j : Kept(j)) \/ \E v : StatusStored(v)
<1>1. /\ pc = "status" /\ pc # "idle" /\ "cr" \in AllKinds /\ "cr" \notin Kinds
      /\ Kinds \subseteq AllKinds /\ TypeOK /\ StoreTypeOK
  BY KindFacts DEF updateKyuubiClusterStatus, BaseInv, TypeOK
<1>2. CASE UNCHANGED storeVars
  BY <1>2, StoreKept
<1>3. CASE UNCHANGED <<storeVars, queueVars, history>>
  BY <1>2, <1>3
<1>4. ASSUME fresh, Leave, UNCHANGED <<queueVars, history>>, NEW now \in Time,
             Write("cr", [api["cr"] EXCEPT !.status =
                            [exposedInfos |-> ExposedInfos(existing),
                             creationTime |-> CreationTime(now)]])
      PROVE  \E v : StatusStored(v)
  <2> DEFINE st == [exposedInfos |-> ExposedInfos(existing),
                    creationTime |-> CreationTime(now)]
             v == [api["cr"] EXCEPT !.status = st]
  <2>1. kyuubi = api["cr"] /\ api["cr"] # Nil /\ api["cr"] \in Cluster
    BY <1>1, <1>4, PassFacts DEF BaseInv, FreshIsCurrent
  <2>2. st \in Status
    BY <1>1, StatusType
  <2>3. Stores("cr", v) /\ \A j \in AllKinds \ {"cr"} : Kept(j)
    BY <1>1, <1>4, WriteEffect
  <2> HIDE DEF st
  <2>4. /\ v \in Cluster /\ v.uid = api["cr"].uid /\ v.spec = api["cr"].spec
        /\ v.generation = api["cr"].generation
    BY <2>1, <2>2 DEF Cluster
  <2> HIDE DEF v
  <2>5. StatusStored(v)
    BY <1>1, <1>4, <2>1, <2>3, <2>4 DEF StatusStored
  <2> QED BY <2>5
<1> QED BY <1>2, <1>3, <1>4 DEF updateKyuubiClusterStatus

\* What a step of a pass may do to the objects.
LEMMA PassEffect ==
    ASSUME BaseInv, Operator
    PROVE  \/ \A j : Kept(j)
           \/ \E k \in Kinds : \E v : PassStores(k, v)
           \/ \E v : StatusStored(v)
<1>1. {"kyuubiCm", "refsCm", "sts", "svc"} \subseteq Kinds
  BY KindFacts
<1>2. CASE Reconcile
  BY <1>2, StoreKept DEF Reconcile
<1>3. CASE \/ createOrUpdateServiceAccount \/ createOrUpdateRole
           \/ createOrUpdateRoleBinding
  BY <1>3, AccessStores DEF createOrUpdateServiceAccount, createOrUpdateRole,
     createOrUpdateRoleBinding
<1>4. CASE createOrUpdateKyuubiConfigmap
  <2>1. PICK data \in constructKyuubiConfigMap(kyuubi.spec) :
          CreateOrUpdateConfigMap("kyuubiCm", data, "kyuubiCmWait", "refsCm")
    BY <1>4 DEF createOrUpdateKyuubiConfigmap
  <2>2. pc = "kyuubiCm" /\ kyuubi.spec \in Specs
    BY <1>4, PassFacts DEF createOrUpdateKyuubiConfigmap, BaseInv
  <2>3. data \in Wanted["kyuubiCm"][kyuubi.spec]
    BY <1>1, <2>1, <2>2, WantedTable
  <2> QED BY <1>1, <2>1, <2>2, <2>3, ConfigMapStores
<1>5. CASE createOrUpdateClusterRefsConfigmap
  <2>1. pc = "refsCm" /\ kyuubi.spec \in Specs
    BY <1>5, PassFacts DEF createOrUpdateClusterRefsConfigmap, BaseInv
  <2>2. ASSUME NEW data \in desiredClusterRefsConfigMap(kyuubi.spec),
               CreateOrUpdateConfigMap("refsCm", data, "refsCmWait", "sts")
        PROVE  (\A j : Kept(j)) \/ \E v : PassStores("refsCm", v)
    <3>1. data \in Wanted["refsCm"][kyuubi.spec]
      BY <1>1, <2>1, <2>2, WantedTable
    <3> QED BY <2>1, <2>2, <3>1, ConfigMapStores
  <2> QED BY <1>1, <1>5, <2>2, StoreKept DEF createOrUpdateClusterRefsConfigmap
<1>6. CASE waitForKyuubiConfigmap \/ waitForClusterRefsConfigmap
  BY <1>6, StoreKept DEF waitForKyuubiConfigmap, waitForClusterRefsConfigmap,
     WaitForConfigMap
<1>7. CASE createOrUpdateKyuubi
  BY <1>1, <1>7, WorkloadStores
<1>8. CASE createOrUpdateService
  BY <1>1, <1>8, ServiceStores
<1>9. CASE updateKyuubiClusterStatus
  BY <1>9, StatusStores
<1> QED BY <1>2, <1>3, <1>4, <1>5, <1>6, <1>7, <1>8, <1>9 DEF Operator

\* Which KyuubiCluster a pass has in hand after a step of it.
LEMMA PassLocals ==
    ASSUME Operator
    PROVE  /\ kyuubi' \in {kyuubi, cache["cr"], Nil}
           /\ UNCHANGED history
  BY DEF Operator, Reconcile, createOrUpdateServiceAccount, createOrUpdateRole,
     createOrUpdateRoleBinding, CreateIfMissing, createOrUpdateKyuubiConfigmap,
     createOrUpdateClusterRefsConfigmap, CreateOrUpdateConfigMap,
     UpdateConfigMap, waitForKyuubiConfigmap, waitForClusterRefsConfigmap,
     WaitForConfigMap, createOrUpdateKyuubi, createOrUpdateService,
     updateKyuubiClusterStatus, AlreadyExists, ReturnError, Leave, Proceed,
     localVars, history

\* The user's three actions: what the server stores for the KyuubiCluster.
UserStores(v) ==
    /\ Stores("cr", v)
    /\ \A k \in Kinds : Kept(k)
    /\ fresh' = FALSE
    /\ UNCHANGED <<queueVars, pc, kyuubi, existing>>

ClusterCreated(v) ==
    /\ api["cr"] = Nil
    /\ v \in Cluster
    /\ v.uid = used["creates"] + 1 /\ v.generation = 1 /\ v.status = NoStatus
    /\ used'["creates"] = used["creates"] + 1
    /\ past' = {}
    /\ UserStores(v)

ClusterEdited(v) ==
    /\ api["cr"] # Nil
    /\ v \in Cluster
    /\ v.uid = api["cr"].uid /\ v.generation = api["cr"].generation + 1
    /\ v.status = api["cr"].status
    /\ used'["creates"] = used["creates"]
    /\ past' = past \cup {api["cr"].spec}
    /\ UserStores(v)

ClusterDeleted ==
    /\ api["cr"] # Nil
    /\ used'["creates"] = used["creates"]
    /\ past' = past
    /\ UserStores(Nil)

\* Every action of the user is one of these.
LEMMA UserEffect ==
    ASSUME BaseInv, User
    PROVE  \/ \E v : ClusterCreated(v)
           \/ \E v : ClusterEdited(v)
           \/ ClusterDeleted
<1>1. /\ ReconcilerTypeOK /\ StoreTypeOK /\ {"creates", "edits", "deletes"} \subseteq Bounds
      /\ "cr" \in AllKinds /\ "cr" \notin Kinds /\ Kinds \subseteq AllKinds
      /\ api["cr"] \in Copies("cr")
  BY KindFacts DEF BaseInv, TypeOK, StoreTypeOK, Bounds
<1>2. ASSUME NEW v, WriteCluster(v), UNCHANGED <<queueVars, pc, kyuubi, existing>>
      PROVE  UserStores(v)
  BY <1>1, <1>2, WriteEffect DEF WriteCluster, UserStores
<1>3. ASSUME NEW spec \in Specs, UserCreates(spec)
      PROVE  \E v : ClusterCreated(v)
  <2> DEFINE n == used["creates"] + 1
             v == [uid |-> n, generation |-> 1, spec |-> spec,
                   status |-> NoStatus]
  <2>1. used'["creates"] = used["creates"] + 1 /\ n \in 1..MaxCreates
    <3>1. used["creates"] < MaxCreates /\ Use("creates", MaxCreates)
      BY <1>3 DEF UserCreates, Use
    <3> QED BY <1>1, <3>1, UseType, BoundsAssumption
  <2>2. v \in Cluster /\ v.uid = n /\ v.generation = 1 /\ v.status = NoStatus
    BY <2>1 DEF Cluster, Status
  <2>3. WriteCluster(v)
    BY <1>3 DEF UserCreates, Default
  <2> HIDE DEF v
  <2>4. ClusterCreated(v)
    BY <1>2, <1>3, <2>1, <2>2, <2>3 DEF UserCreates, ClusterCreated
  <2> QED BY <2>4
<1>4. ASSUME NEW spec \in Specs, UserEdits(spec)
      PROVE  \E v : ClusterEdited(v)
  <2> DEFINE n == api["cr"].generation + 1
             v == [api["cr"] EXCEPT !.spec = spec, !.generation = n]
  <2>1. api["cr"] \in Cluster /\ api["cr"] # Nil
    BY <1>1, <1>4, CopyFacts DEF UserEdits
  <2>2. n \in Nat
    <3>1. api["cr"].generation \in Nat
      BY <2>1 DEF Cluster
    <3> QED BY <3>1
  <2>3. WriteCluster(v)
    BY <1>4 DEF UserEdits, Default
  <2> HIDE DEF n
  <2>4. /\ v \in Cluster /\ v.uid = api["cr"].uid /\ v.generation = n
        /\ v.status = api["cr"].status
    BY <2>1, <2>2 DEF Cluster
  <2> HIDE DEF v
  <2>5. used'["creates"] = used["creates"]
    BY <1>1, <1>4, UseType DEF UserEdits
  <2>6. ClusterEdited(v)
    BY <1>2, <1>4, <2>1, <2>3, <2>4, <2>5 DEF UserEdits, ClusterEdited, n
  <2> QED BY <2>6
<1>5. ASSUME UserDeletes PROVE ClusterDeleted
  <2>1. used'["creates"] = used["creates"]
    BY <1>1, <1>5, UseType DEF UserDeletes
  <2> QED BY <1>2, <1>5, <2>1 DEF UserDeletes, ClusterDeleted
<1> QED BY <1>3, <1>4, <1>5 DEF User

\* The garbage collector, an informer and a new process.
ObjectCollected(k) ==
    /\ k \in Kinds
    /\ api[k] # Nil
    /\ api["cr"] # Nil => api["cr"].uid # api[k].owner
    /\ Stores(k, Nil)
    /\ \A j \in AllKinds \ {k} : Kept(j)
    /\ UNCHANGED <<queueVars, localVars>>

EventApplied(k) ==
    /\ k \in AllKinds
    /\ Applies(k)
    /\ \A j \in AllKinds \ {k} : Kept(j)
    /\ queued' = (queued \/ k = "cr")
    /\ UNCHANGED <<retry, localVars>>

AllListed ==
    /\ \A k \in AllKinds : Lists(k)
    /\ queued' = (api["cr"] # Nil) /\ retry' = FALSE
    /\ Leave

\* A step that keeps every object: a pass starts, ends or goes on.
AllKept ==
    /\ \A k : Kept(k)
    /\ kyuubi' \in {kyuubi, cache["cr"], Nil}

\* The steps of everyone but the user.
OwnStep ==
    /\ past' = past /\ used'["creates"] = used["creates"]
    /\ \/ AllKept
       \/ \E k \in Kinds : \E v : PassStores(k, v)
       \/ \E v : StatusStored(v)
       \/ \E k : ObjectCollected(k)
       \/ \E k : EventApplied(k)
       \/ AllListed

\* What a step does to the KyuubiCluster, or that it is not the user's.
LEMMA StepEffect ==
    ASSUME BaseInv, [Next]_vars
    PROVE  \/ \E v : ClusterCreated(v)
           \/ \E v : ClusterEdited(v)
           \/ ClusterDeleted
           \/ OwnStep
<1>1. /\ StoreTypeOK /\ ReconcilerTypeOK /\ "cr" \in AllKinds
      /\ Kinds \subseteq AllKinds /\ "creates" \in Bounds /\ "faults" \in Bounds
  BY KindFacts DEF BaseInv, TypeOK, Bounds
<1>2. CASE User
  BY <1>2, UserEffect
<1>3. CASE Operator
  <2>1. past' = past /\ used'["creates"] = used["creates"]
    BY <1>3, PassLocals DEF history
  <2> QED BY <1>3, <2>1, PassEffect, PassLocals DEF OwnStep, AllKept
<1>4. CASE Kubernetes
  <2>1. ASSUME NEW k \in Kinds, GarbageCollect(k) PROVE OwnStep
    <3>1. Stores(k, Nil) /\ \A j \in AllKinds \ {k} : Kept(j)
      BY <1>1, <2>1, WriteEffect DEF GarbageCollect
    <3>2. ObjectCollected(k)
      BY <2>1, <3>1 DEF GarbageCollect, ObjectCollected
    <3> QED BY <2>1, <3>2 DEF OwnStep, GarbageCollect, history
  <2>2. ASSUME NEW k \in AllKinds, DeliverEvent(k) PROVE OwnStep
    <3>1. /\ api' = api /\ lag[k] # <<>>
          /\ cache' = [cache EXCEPT ![k] = Head(lag[k])]
          /\ lag' = [lag EXCEPT ![k] = Tail(lag[k])]
      BY <2>2 DEF DeliverEvent
    <3>2. Applies(k) /\ \A j \in AllKinds \ {k} : Kept(j)
      BY <1>1, <3>1 DEF StoreTypeOK, Applies, Kept
    <3>3. EventApplied(k)
      BY <2>2, <3>2 DEF DeliverEvent, EventApplied
    <3> QED BY <2>2, <3>3 DEF OwnStep, DeliverEvent, history
  <2>3. CASE Resync \/ RetryExpires
    BY <2>3, StoreKept DEF Resync, RetryExpires, localVars, history, OwnStep,
       AllKept
  <2> QED BY <1>4, <2>1, <2>2, <2>3 DEF Kubernetes
<1>5. CASE CallFails
  <2>1. used'["creates"] = used["creates"]
    BY <1>1, <1>5, UseType DEF CallFails
  <2> QED BY <1>5, <2>1, StoreKept DEF CallFails, Leave, OwnStep, AllKept
<1>6. CASE Restart
  <2>1. used'["creates"] = used["creates"]
    BY <1>1, <1>6, UseType DEF Restart
  <2>2. \A k \in AllKinds : Lists(k)
    BY <1>6 DEF Restart, Lists
  <2> QED BY <1>6, <2>1, <2>2 DEF Restart, OwnStep, AllListed
<1>7. CASE UNCHANGED vars
  BY <1>7, StoreKept DEF vars, localVars, history, OwnStep, AllKept
<1> QED BY <1>2, <1>3, <1>4, <1>5, <1>6, <1>7 DEF Next

-----------------------------------------------------------------------------
(***************************************************************************)
(* The copies of the KyuubiCluster that the process has, in the order in   *)
(* which they reach a pass: the one of the running pass, the informer's    *)
(* and the events.                                                         *)
(***************************************************************************)
Seen == ({kyuubi, cache["cr"]} \cup Range(lag["cr"])) \ {Nil}

\* c is not a later version of the KyuubiCluster than d.
NotNewer(c, d) ==
    c.uid < d.uid \/ (c.uid = d.uid /\ c.generation <= d.generation)

InOrder(c, d) == c # Nil /\ d # Nil => NotNewer(c, d)

\* A later copy is not an older version.
SeenInOrder ==
    /\ InOrder(kyuubi, cache["cr"])
    /\ \A e \in Range(lag["cr"]) : InOrder(kyuubi, e) /\ InOrder(cache["cr"], e)
    /\ \A i, j \in DOMAIN lag["cr"] :
          i <= j => InOrder(lag["cr"][i], lag["cr"][j])

\* The copy c has the present version, or one that it had in the past.
IsVersion(c) ==
    /\ c.uid <= used["creates"]
    /\ api["cr"] # Nil =>
          \/ c.uid < api["cr"].uid
          \/ /\ c.uid = api["cr"].uid /\ c.generation < api["cr"].generation
             /\ c.spec \in past
          \/ /\ c.uid = api["cr"].uid /\ c.generation = api["cr"].generation
             /\ c.spec = api["cr"].spec

SeenAreVersions == \A c \in Seen : IsVersion(c)

\* The server gives each KyuubiCluster a uid of its own.
UidsCount == api["cr"] # Nil => api["cr"].uid = used["creates"]

VersionsInv == UidsCount /\ SeenAreVersions /\ SeenInOrder

\* The elements of a sequence of events that was appended to or shortened.
LEMMA EventsAppended ==
    ASSUME NEW S, NEW s \in Seq(S), NEW e \in S
    PROVE  /\ Range(Append(s, e)) = Range(s) \cup {e}
           /\ \A i \in DOMAIN Append(s, e) :
                 \/ i \in DOMAIN s /\ Append(s, e)[i] = s[i]
                 \/ i = Len(s) + 1 /\ Append(s, e)[i] = e
           /\ DOMAIN s = 1..Len(s) /\ Len(s) \in Nat
<1>1. /\ DOMAIN s = 1..Len(s) /\ Len(s) \in Nat
      /\ DOMAIN Append(s, e) = 1..(Len(s) + 1)
      /\ \A i \in 1..Len(s) : Append(s, e)[i] = s[i]
      /\ Append(s, e)[Len(s) + 1] = e
  OBVIOUS
<1>2. \A i \in DOMAIN Append(s, e) :
         \/ i \in DOMAIN s /\ Append(s, e)[i] = s[i]
         \/ i = Len(s) + 1 /\ Append(s, e)[i] = e
  BY <1>1
<1>3. \A i \in DOMAIN s : i \in DOMAIN Append(s, e) /\ Append(s, e)[i] = s[i]
  BY <1>1
<1>4. Len(s) + 1 \in DOMAIN Append(s, e)
  BY <1>1
<1> QED BY <1>1, <1>2, <1>3, <1>4 DEF Range

\* What remains of the events when the first one has been applied.
LEMMA EventApplies ==
    ASSUME NEW S, NEW s \in Seq(S), s # <<>>
    PROVE  /\ Head(s) \in Range(s)
           /\ Range(Tail(s)) \subseteq Range(s)
           /\ 1 \in DOMAIN s /\ Head(s) = s[1] /\ DOMAIN s \subseteq Int
           /\ \A i \in DOMAIN Tail(s) :
                 1 <= i + 1 /\ i + 1 \in DOMAIN s /\ Tail(s)[i] = s[i + 1]
           /\ \A i \in DOMAIN s : 1 <= i
<1>1. /\ Len(s) \in Nat \ {0} /\ DOMAIN s = 1..Len(s) /\ Head(s) = s[1]
  OBVIOUS
<1> DEFINE t == Tail(s)
<1>2. /\ t \in Seq(S)
      /\ Len(t) = Len(s) - 1
      /\ \A i \in 1..Len(t) : t[i] = s[i + 1]
  BY HeadTailProperties
<1>3. DOMAIN t = 1..Len(t)
  BY <1>2
<1> HIDE DEF t
<1>4. \A i \in DOMAIN t : 1 <= i + 1 /\ i + 1 \in DOMAIN s /\ t[i] = s[i + 1]
  BY <1>1, <1>2, <1>3
<1>5. Range(t) \subseteq Range(s)
  BY <1>4 DEF Range
<1> QED BY <1>1, <1>4, <1>5 DEF t, Range

\* The fields of a KyuubiCluster.
LEMMA ClusterFields ==
    ASSUME NEW c \in Cluster
    PROVE  /\ c # Nil
           /\ c.uid \in Nat /\ c.uid >= 1 /\ c.generation \in Nat
           /\ c.spec \in Specs
<1>1. c.uid \in 1..MaxCreates /\ c.generation \in Nat /\ c.spec \in Specs
  BY DEF Cluster
<1> QED BY <1>1, BoundsAssumption, CopyFacts

\* The KyuubiCluster that a step leaves behind is well typed.
LEMMA ClusterAfter ==
    ASSUME BaseInv'
    PROVE  api'["cr"] # Nil => api'["cr"] \in Cluster
<1>1. Copies("cr")' = Copies("cr")
  BY DEF Copies, Stored, Cluster, Object, Status
<1>2. api'["cr"] \in Copies("cr")
  BY <1>1, KindFacts DEF BaseInv, TypeOK, StoreTypeOK
<1> QED BY <1>2, CopyFacts

\* What the process has of the KyuubiCluster is well typed.
LEMMA SeenTypes ==
    ASSUME BaseInv
    PROVE  /\ lag["cr"] \in Seq(Copies("cr"))
           /\ Range(lag["cr"]) \subseteq Copies("cr")
           /\ \A c \in Seen \cup ({api["cr"]} \ {Nil}) :
                 /\ c # Nil /\ c \in Cluster
                 /\ c.uid \in Nat /\ c.uid >= 1 /\ c.generation \in Nat
                 /\ c.spec \in Specs
           /\ used["creates"] \in Nat
<1>1. /\ api["cr"] \in Copies("cr") /\ cache["cr"] \in Copies("cr")
      /\ lag["cr"] \in Seq(Copies("cr")) /\ kyuubi \in Copies("cr")
  BY KindFacts DEF BaseInv, TypeOK, StoreTypeOK, ReconcilerTypeOK
<1>2. Range(lag["cr"]) \subseteq Copies("cr")
  BY <1>1 DEF Range
<1>3. used["creates"] \in Nat
  BY DEF BaseInv, TypeOK, ReconcilerTypeOK, Bounds
<1> QED BY <1>1, <1>2, <1>3, ClusterFields, CopyFacts DEF Seen

\* A step brings no copy but the one that the server stores or has stored.
LEMMA SeenStep ==
    ASSUME BaseInv, [Next]_vars
    PROVE  Seen' \subseteq Seen \cup {api'["cr"]}
<1>1. lag["cr"] \in Seq(Copies("cr")) /\ "cr" \in AllKinds /\ "cr" \notin Kinds
  BY SeenTypes, KindFacts
<1>2. ASSUME NEW v \in Copies("cr"), Stores("cr", v), kyuubi' \in {kyuubi, Nil}
      PROVE  Seen' \subseteq Seen \cup {api'["cr"]}
  BY <1>1, <1>2, EventsAppended DEF Stores, Seen
<1>3. ASSUME Kept("cr"), kyuubi' \in {kyuubi, cache["cr"], Nil}
      PROVE  Seen' \subseteq Seen
  BY <1>3 DEF Kept, Seen
<1>4. ASSUME NEW v, ClusterCreated(v) \/ ClusterEdited(v)
      PROVE  Seen' \subseteq Seen \cup {api'["cr"]}
  BY <1>2, <1>4, CopyFacts DEF ClusterCreated, ClusterEdited, UserStores
<1>5. CASE ClusterDeleted
  BY <1>1, <1>2, <1>5, CopyFacts DEF ClusterDeleted, UserStores
<1>6. CASE AllKept
  BY <1>3, <1>6 DEF AllKept
<1>7. ASSUME NEW k \in Kinds, NEW v, PassStores(k, v)
      PROVE  Seen' \subseteq Seen
  BY <1>1, <1>3, <1>7 DEF PassStores
<1>8. ASSUME NEW v, StatusStored(v)
      PROVE  Seen' \subseteq Seen \cup {api'["cr"]}
  BY <1>2, <1>8, CopyFacts DEF StatusStored, Leave
<1>9. ASSUME NEW k, ObjectCollected(k)
      PROVE  Seen' \subseteq Seen
  BY <1>1, <1>3, <1>9 DEF ObjectCollected, localVars
<1>10. ASSUME NEW k, EventApplied(k)
       PROVE  Seen' \subseteq Seen
  <2>1. kyuubi' = kyuubi
    BY <1>10 DEF EventApplied, localVars
  <2>2. CASE k = "cr"
    BY <1>1, <1>10, <2>1, <2>2, EventApplies DEF EventApplied, Applies, Seen
  <2>3. CASE k # "cr"
    BY <1>1, <1>3, <1>10, <2>1, <2>3 DEF EventApplied
  <2> QED BY <2>2, <2>3
<1>11. CASE AllListed
  <2>1. kyuubi' = Nil /\ cache'["cr"] = api'["cr"] /\ lag'["cr"] = <<>>
    BY <1>1, <1>11 DEF AllListed, Lists, Leave
  <2>2. Range(lag'["cr"]) = {}
    BY <2>1 DEF Range
  <2> QED BY <2>1, <2>2 DEF Seen
<1> QED BY <1>4, <1>5, <1>6, <1>7, <1>8, <1>9, <1>10, <1>11, StepEffect
        DEF OwnStep

\* Only the user changes the version: he creates the KyuubiCluster, edits it,
\* deletes it, or it keeps its version.
LEMMA VersionStep ==
    ASSUME BaseInv, [Next]_vars
    PROVE  \/ \E v : ClusterCreated(v) /\ api'["cr"] = v
           \/ \E v : ClusterEdited(v) /\ api'["cr"] = v
           \/ /\ past' = past /\ used'["creates"] = used["creates"]
              /\ \/ api'["cr"] = Nil
                 \/ /\ api["cr"] # Nil /\ api'["cr"] # Nil
                    /\ api'["cr"].uid = api["cr"].uid
                    /\ api'["cr"].generation = api["cr"].generation
                    /\ api'["cr"].spec = api["cr"].spec
<1>1. "cr" \in AllKinds /\ "cr" \notin Kinds
  BY KindFacts
<1>2. ASSUME api'["cr"] = api["cr"]
      PROVE  \/ api'["cr"] = Nil
             \/ /\ api["cr"] # Nil /\ api'["cr"] # Nil
                /\ api'["cr"].uid = api["cr"].uid
                /\ api'["cr"].generation = api["cr"].generation
                /\ api'["cr"].spec = api["cr"].spec
  BY <1>2
<1>3. ASSUME NEW v, ClusterCreated(v) \/ ClusterEdited(v)
      PROVE  api'["cr"] = v
  BY <1>3 DEF ClusterCreated, ClusterEdited, UserStores, Stores
<1>4. CASE ClusterDeleted
  BY <1>4 DEF ClusterDeleted, UserStores, Stores
<1>5. ASSUME NEW v, StatusStored(v)
      PROVE  /\ api["cr"] # Nil /\ api'["cr"] # Nil
             /\ api'["cr"].uid = api["cr"].uid
             /\ api'["cr"].generation = api["cr"].generation
             /\ api'["cr"].spec = api["cr"].spec
  BY <1>5, CopyFacts DEF StatusStored, Stores
<1>6. ASSUME OwnStep, ~(\E v : StatusStored(v)) PROVE api'["cr"] = api["cr"]
  BY <1>1, <1>6 DEF OwnStep, AllKept, PassStores, ObjectCollected, EventApplied,
     AllListed, Kept, Applies, Lists
<1> QED BY <1>2, <1>3, <1>4, <1>5, <1>6, StepEffect DEF OwnStep

\* The versions are kept in order by every step.
LEMMA VersionsStep ==
    ASSUME BaseInv, BaseInv', VersionsInv, [Next]_vars
    PROVE  VersionsInv'
<1>1. /\ "cr" \in AllKinds /\ "cr" \notin Kinds
      /\ lag["cr"] \in Seq(Copies("cr")) /\ used["creates"] \in Nat
  BY KindFacts, SeenTypes
<1>2. UidsCount'
  BY <1>1, VersionStep DEF VersionsInv, UidsCount, ClusterCreated, ClusterEdited
<1>3. ASSUME NEW c \in Seen PROVE IsVersion(c)'
  <2>1. /\ IsVersion(c) /\ UidsCount
        /\ c.uid \in Nat /\ c.generation \in Nat
    BY SeenTypes DEF VersionsInv, SeenAreVersions
  <2>2. api["cr"] # Nil => api["cr"].generation \in Nat
    BY SeenTypes
  <2>3. ASSUME NEW v, ClusterCreated(v), api'["cr"] = v PROVE IsVersion(c)'
    BY <1>1, <2>1, <2>3 DEF IsVersion, ClusterCreated
  <2>4. ASSUME NEW v, ClusterEdited(v), api'["cr"] = v PROVE IsVersion(c)'
    <3>1. /\ v.uid = api["cr"].uid /\ v.generation = api["cr"].generation + 1
          /\ api["cr"] # Nil /\ past' = past \cup {api["cr"].spec}
          /\ used'["creates"] = used["creates"]
      BY <2>4 DEF ClusterEdited
    <3> QED BY <1>1, <2>1, <2>2, <2>4, <3>1 DEF IsVersion
  <2> QED BY <2>1, <2>3, <2>4, VersionStep DEF IsVersion
<1>4. ASSUME api'["cr"] # Nil PROVE IsVersion(api["cr"])'
  <2>1. api'["cr"].uid \in Nat
    BY <1>4, ClusterAfter, ClusterFields
  <2> QED BY <1>2, <1>4, <2>1 DEF UidsCount, IsVersion
<1>5. SeenAreVersions'
  <2> SUFFICES ASSUME NEW c \in Seen' PROVE IsVersion(c)'
    BY DEF SeenAreVersions
  <2>1. c # Nil
    BY DEF Seen
  <2> QED BY <1>3, <1>4, <2>1, SeenStep
<1>6. SeenInOrder'
  <2>1. ASSUME NEW v \in Cluster, Stores("cr", v), kyuubi' \in {kyuubi, Nil}
        PROVE  SeenInOrder'
    <3>1. v # Nil /\ v \in Copies("cr") /\ api'["cr"] = v
          /\ cache'["cr"] = cache["cr"] /\ lag'["cr"] = Append(lag["cr"], v)
      BY <2>1, CopyFacts DEF Stores
    <3>2. v.uid \in Nat /\ v.generation \in Nat
      BY ClusterFields
    <3>3. \A c \in Seen \cup {Nil} : InOrder(c, v)
      <4>1. \A c \in Seen : IsVersion(c)' /\ c.uid \in Nat /\ c.generation \in Nat
        BY <1>3, SeenTypes
      <4> QED BY <3>1, <3>2, <4>1 DEF IsVersion, InOrder, NotNewer
    <3>4. InOrder(v, v)
      BY <3>2 DEF InOrder, NotNewer
    <3>5. \A e \in Range(lag["cr"]) \cup {kyuubi, cache["cr"]} : InOrder(e, v)
      BY <3>3 DEF Seen
    <3>6. InOrder(kyuubi, cache["cr"])'
      BY <2>1, <3>1 DEF VersionsInv, SeenInOrder, InOrder
    <3>7. \A e \in Range(lag'["cr"]) : InOrder(kyuubi', e) /\ InOrder(cache'["cr"], e)
      <4>1. Range(lag'["cr"]) = Range(lag["cr"]) \cup {v}
        BY <1>1, <3>1, EventsAppended
      <4>2. \A e \in Range(lag["cr"]) :
               InOrder(kyuubi, e) /\ InOrder(cache["cr"], e)
        BY DEF VersionsInv, SeenInOrder
      <4>3. InOrder(Nil, v) /\ \A e : InOrder(Nil, e)
        BY DEF InOrder
      <4> QED BY <2>1, <3>1, <3>5, <4>1, <4>2, <4>3
    <3>8. \A i, j \in DOMAIN lag'["cr"] :
             i <= j => InOrder(lag'["cr"][i], lag'["cr"][j])
      <4> SUFFICES ASSUME NEW i \in DOMAIN lag'["cr"], NEW j \in DOMAIN lag'["cr"],
                          i <= j
                   PROVE  InOrder(lag'["cr"][i], lag'["cr"][j])
        OBVIOUS
      <4>1. \A n \in DOMAIN lag'["cr"] :
               \/ n \in DOMAIN lag["cr"] /\ lag'["cr"][n] = lag["cr"][n]
               \/ n = Len(lag["cr"]) + 1 /\ lag'["cr"][n] = v
        BY <1>1, <3>1, EventsAppended
      <4>2. DOMAIN lag["cr"] = 1..Len(lag["cr"]) /\ Len(lag["cr"]) \in Nat
        BY <1>1
      <4>3. \A n \in DOMAIN lag["cr"] : lag["cr"][n] \in Range(lag["cr"])
        BY DEF Range
      <4>4. CASE j \in DOMAIN lag["cr"]
        <5>1. i \in DOMAIN lag["cr"] /\ lag'["cr"][i] = lag["cr"][i]
              /\ lag'["cr"][j] = lag["cr"][j]
          BY <4>1, <4>2, <4>4
        <5> QED BY <4>4, <5>1 DEF VersionsInv, SeenInOrder
      <4>5. CASE lag'["cr"][j] = v
        BY <3>4, <3>5, <4>1, <4>3, <4>5
      <4> QED BY <4>1, <4>4, <4>5
    <3> QED BY <3>6, <3>7, <3>8 DEF SeenInOrder
  <2>2. ASSUME Kept("cr"), kyuubi' \in {kyuubi, cache["cr"], Nil}
        PROVE  SeenInOrder'
    <3>1. InOrder(cache["cr"], cache["cr"])
      BY SeenTypes DEF InOrder, NotNewer, Seen
    <3>2. \A e : InOrder(Nil, e)
      BY DEF InOrder
    <3> QED BY <2>2, <3>1, <3>2 DEF Kept, VersionsInv, SeenInOrder
  <2>3. ASSUME NEW v, ClusterCreated(v) \/ ClusterEdited(v)
        PROVE  SeenInOrder'
    BY <2>1, <2>3 DEF ClusterCreated, ClusterEdited, UserStores
  <2>4. CASE ClusterDeleted
    <3>1. /\ lag'["cr"] = Append(lag["cr"], Nil) /\ cache'["cr"] = cache["cr"]
          /\ kyuubi' = kyuubi /\ Nil \in Copies("cr")
      BY <1>1, <2>4, CopyFacts DEF ClusterDeleted, UserStores, Stores
    <3>2. /\ Range(lag'["cr"]) = Range(lag["cr"]) \cup {Nil}
          /\ \A n \in DOMAIN lag'["cr"] :
               \/ n \in DOMAIN lag["cr"] /\ lag'["cr"][n] = lag["cr"][n]
               \/ lag'["cr"][n] = Nil
      BY <1>1, <3>1, EventsAppended
    <3>3. \A c : InOrder(c, Nil) /\ InOrder(Nil, c)
      BY DEF InOrder
    <3> QED BY <3>1, <3>2, <3>3 DEF VersionsInv, SeenInOrder
  <2>5. ASSUME NEW v, StatusStored(v) PROVE SeenInOrder'
    BY <2>1, <2>5 DEF StatusStored, Leave
  <2>6. ASSUME NEW k, EventApplied(k) PROVE SeenInOrder'
    <3>1. kyuubi' = kyuubi
      BY <2>6 DEF EventApplied, localVars
    <3>2. CASE k # "cr"
      BY <1>1, <2>2, <2>6, <3>1, <3>2 DEF EventApplied
    <3>3. CASE k = "cr"
      <4> DEFINE s == lag["cr"]
                 t == lag'["cr"]
      <4>1. /\ s # <<>> /\ cache'["cr"] = Head(s) /\ t = Tail(s)
        BY <2>6, <3>3 DEF EventApplied, Applies
      <4>2. /\ Head(s) \in Range(s) /\ Range(t) \subseteq Range(s)
            /\ 1 \in DOMAIN s /\ Head(s) = s[1] /\ DOMAIN s \subseteq Int
            /\ \A i \in DOMAIN t :
                  1 <= i + 1 /\ i + 1 \in DOMAIN s /\ t[i] = s[i + 1]
        BY <1>1, <4>1, EventApplies
      <4>3. \A i \in DOMAIN t : i \in Int
        <5>1. t \in Seq(Copies("cr"))
          BY <1>1, <4>1, TailLast
        <5> QED BY <5>1
      <4> HIDE DEF s, t
      <4>4. /\ \A e \in Range(s) : InOrder(kyuubi, e)
            /\ \A i, j \in DOMAIN s : i <= j => InOrder(s[i], s[j])
        BY DEF VersionsInv, SeenInOrder, s
      <4>5. \A i, j \in DOMAIN t : i <= j => InOrder(t[i], t[j])
        BY <4>2, <4>3, <4>4
      <4>6. \A e \in Range(t) : InOrder(cache'["cr"], e)
        BY <4>1, <4>2, <4>4 DEF Range
      <4> QED BY <3>1, <4>1, <4>2, <4>4, <4>5, <4>6 DEF SeenInOrder, t
    <3> QED BY <3>2, <3>3
  <2>7. CASE AllListed
    <3>1. kyuubi' = Nil /\ lag'["cr"] = <<>>
      BY <1>1, <2>7 DEF AllListed, Lists, Leave
    <3>2. Range(lag'["cr"]) = {} /\ DOMAIN lag'["cr"] = {}
      BY <3>1 DEF Range
    <3> QED BY <3>1, <3>2 DEF SeenInOrder, InOrder
  <2>8. ASSUME NEW k \in Kinds, NEW v, PassStores(k, v) PROVE SeenInOrder'
    BY <1>1, <2>2, <2>8 DEF PassStores
  <2>9. ASSUME NEW k, ObjectCollected(k) PROVE SeenInOrder'
    BY <1>1, <2>2, <2>9 DEF ObjectCollected, localVars
  <2>10. CASE AllKept
    BY <2>2, <2>10 DEF AllKept
  <2> QED BY <2>3, <2>4, <2>5, <2>6, <2>7, <2>8, <2>9, <2>10, StepEffect
          DEF OwnStep
<1> QED BY <1>2, <1>5, <1>6 DEF VersionsInv

-----------------------------------------------------------------------------
(***************************************************************************)
(* The objects, and the versions of the KyuubiCluster that they were built *)
(* from.                                                                   *)
(***************************************************************************)
\* Object k as it is and as the informer has, or will have, seen it.
ObjectsOf(k) == ({api[k], cache[k]} \cup Range(lag[k])) \ {Nil}

\* The object o is what the KyuubiCluster now asks for.
IsCurrent(k, o) ==
    /\ api["cr"] # Nil
    /\ o.owner = api["cr"].uid
    /\ o.data \in Wanted[k][api["cr"].spec]

\* No pass will see a KyuubiCluster older than the owner of the object o; one
\* that belongs to the present KyuubiCluster was built for a spec that this one
\* has or had; and when that can only be the present spec, every pass to come
\* has the present spec as well.
FitsVersions(k, o) ==
    /\ o.owner <= used["creates"]
    /\ \A c \in Seen : o.owner <= c.uid
    /\ api["cr"] # Nil /\ o.owner = api["cr"].uid
         => \E spec \in past \cup {api["cr"].spec} : o.data \in Wanted[k][spec]
    /\ IsCurrent(k, o) /\ ~Reverted(k)
         => \A c \in Seen : c.uid = api["cr"].uid /\ c.spec = api["cr"].spec

ObjectsInv == \A k \in Kinds : \A o \in ObjectsOf(k) : FitsVersions(k, o)

\* Every copy that a later pass will get is at least as new as the present one.
LEMMA SeenAfterPass ==
    ASSUME BaseInv, SeenInOrder, kyuubi # Nil
    PROVE  kyuubi \in Seen /\ \A c \in Seen : NotNewer(kyuubi, c)
<1>1. kyuubi \in Seen
  BY DEF Seen
<1>2. kyuubi.uid \in Nat /\ kyuubi.generation \in Nat
  BY <1>1, SeenTypes
<1>3. NotNewer(kyuubi, kyuubi)
  BY <1>2 DEF NotNewer
<1> QED BY <1>1, <1>3 DEF Seen, SeenInOrder, InOrder

\* A step brings no object but one that the pass in hand stores.
LEMMA ObjectsStep ==
    ASSUME BaseInv, [Next]_vars, NEW k \in Kinds, NEW o \in ObjectsOf(k)'
    PROVE  o \in ObjectsOf(k) \/ PassStores(k, o)
<1>1. /\ k \in AllKinds /\ k # "cr" /\ lag[k] \in Seq(Copies(k))
      /\ o # Nil /\ Nil \in Copies(k) /\ Object(k) \subseteq Copies(k)
  BY KindFacts, CopyFacts DEF BaseInv, TypeOK, StoreTypeOK, ObjectsOf
<1>2. ASSUME Kept(k) PROVE o \in ObjectsOf(k)
  BY <1>2 DEF Kept, ObjectsOf
<1>3. ASSUME NEW v \in Copies(k), Stores(k, v) PROVE o \in ObjectsOf(k) \/ o = v
  BY <1>1, <1>3, EventsAppended DEF Stores, ObjectsOf
<1>4. ASSUME NEW v, \/ ClusterCreated(v) \/ ClusterEdited(v) \/ ClusterDeleted
                    \/ StatusStored(v)
      PROVE  o \in ObjectsOf(k)
  BY <1>1, <1>2, <1>4 DEF ClusterCreated, ClusterEdited, ClusterDeleted, UserStores,
     StatusStored
<1>5. ASSUME NEW j \in Kinds, NEW v, PassStores(j, v)
      PROVE  o \in ObjectsOf(k) \/ PassStores(k, o)
  <2>1. CASE j = k
    BY <1>1, <1>3, <1>5, <2>1 DEF PassStores
  <2>2. CASE j # k
    BY <1>1, <1>2, <1>5, <2>2 DEF PassStores
  <2> QED BY <2>1, <2>2
<1>6. ASSUME NEW j, ObjectCollected(j) PROVE o \in ObjectsOf(k)
  <2>1. CASE j = k
    BY <1>1, <1>3, <1>6, <2>1 DEF ObjectCollected
  <2>2. CASE j # k
    BY <1>1, <1>2, <1>6, <2>2 DEF ObjectCollected
  <2> QED BY <2>1, <2>2
<1>7. ASSUME NEW j, EventApplied(j) PROVE o \in ObjectsOf(k)
  <2>1. CASE j = k
    BY <1>1, <1>7, <2>1, EventApplies DEF EventApplied, Applies, ObjectsOf
  <2>2. CASE j # k
    BY <1>1, <1>2, <1>7, <2>2 DEF EventApplied
  <2> QED BY <2>1, <2>2
<1>8. CASE AllListed
  <2>1. api'[k] = api[k] /\ cache'[k] = api[k] /\ lag'[k] = <<>>
    BY <1>1, <1>8 DEF AllListed, Lists
  <2>2. Range(lag'[k]) = {}
    BY <2>1 DEF Range
  <2> QED BY <2>1, <2>2 DEF ObjectsOf
<1>9. CASE AllKept
  BY <1>2, <1>9 DEF AllKept
<1> QED BY <1>4, <1>5, <1>6, <1>7, <1>8, <1>9, StepEffect DEF OwnStep

\* Every object and every copy of one is well typed.
LEMMA ObjectTypes ==
    ASSUME BaseInv, NEW k \in Kinds, NEW o \in ObjectsOf(k)
    PROVE  o \in Object(k) /\ o.owner \in Nat /\ o.owner >= 1 /\ o # Nil
<1>1. /\ api[k] \in Copies(k) /\ cache[k] \in Copies(k)
      /\ lag[k] \in Seq(Copies(k))
  BY KindFacts DEF BaseInv, TypeOK, StoreTypeOK
<1>2. o \in Copies(k) /\ o # Nil
  BY <1>1 DEF ObjectsOf, Range
<1>3. o \in Object(k)
  BY <1>2, CopyFacts
<1>4. o.owner \in 1..MaxCreates
  BY <1>3 DEF Object
<1> QED BY <1>2, <1>3, <1>4, BoundsAssumption

\* An object that fits goes on to do so, whatever happens to the KyuubiCluster.
LEMMA FitStays ==
    ASSUME BaseInv, BaseInv', VersionsInv, VersionsInv', [Next]_vars,
           NEW k \in Kinds, NEW o \in ObjectsOf(k), FitsVersions(k, o)
    PROVE  FitsVersions(k, o)'
<1>1. o.owner \in Nat /\ used["creates"] \in Nat
  BY ObjectTypes, SeenTypes
<1>2. o.owner <= used'["creates"]
  BY <1>1, VersionStep DEF FitsVersions, ClusterCreated, ClusterEdited
<1>3. \A c \in Seen' : o.owner <= c.uid
  <2>1. api'["cr"] # Nil => o.owner <= api'["cr"].uid
    BY <1>2 DEF VersionsInv, UidsCount
  <2>2. Nil \notin Seen'
    BY DEF Seen
  <2> QED BY <2>1, <2>2, SeenStep DEF FitsVersions
<1>4. ASSUME NEW v, ClusterCreated(v), api'["cr"] = v
      PROVE  api'["cr"].uid # o.owner
  BY <1>1, <1>4 DEF ClusterCreated, FitsVersions
<1>5. ASSUME NEW v, ClusterEdited(v), api'["cr"] = v,
             o.owner = api'["cr"].uid
      PROVE  /\ \E spec \in past' : o.data \in Wanted[k][spec]
             /\ IsCurrent(k, o)' => Reverted(k)'
  <2>1. PICK spec \in past \cup {api["cr"].spec} : o.data \in Wanted[k][spec]
    BY <1>5 DEF ClusterEdited, FitsVersions
  <2>2. spec \in past'
    BY <1>5, <2>1 DEF ClusterEdited
  <2> QED BY <2>1, <2>2 DEF IsCurrent, Reverted
<1>6. ASSUME past' = past, api["cr"] # Nil, api'["cr"] # Nil,
             api'["cr"].uid = api["cr"].uid, api'["cr"].spec = api["cr"].spec,
             o.owner = api'["cr"].uid
      PROVE  /\ \E spec \in past' \cup {api'["cr"].spec} :
                   o.data \in Wanted[k][spec]
             /\ IsCurrent(k, o)' /\ ~Reverted(k)' =>
                   \A c \in Seen' :
                      c.uid = api'["cr"].uid /\ c.spec = api'["cr"].spec
  <2>1. \E spec \in past' \cup {api'["cr"].spec} : o.data \in Wanted[k][spec]
    BY <1>6 DEF FitsVersions
  <2>2. IsCurrent(k, o)' => IsCurrent(k, o)
    BY <1>6 DEF IsCurrent
  <2>3. Reverted(k) => Reverted(k)'
    BY <1>6 DEF Reverted
  <2> QED BY <1>6, <2>1, <2>2, <2>3, SeenStep DEF FitsVersions
<1>7. api'["cr"] # Nil /\ o.owner = api'["cr"].uid
        => \E spec \in past' \cup {api'["cr"].spec} : o.data \in Wanted[k][spec]
  BY <1>4, <1>5, <1>6, VersionStep
<1>8. IsCurrent(k, o)' /\ ~Reverted(k)'
        => \A c \in Seen' : c.uid = api'["cr"].uid /\ c.spec = api'["cr"].spec
  <2>1. IsCurrent(k, o)' => api'["cr"] # Nil /\ o.owner = api'["cr"].uid
    BY DEF IsCurrent
  <2> QED BY <1>4, <1>5, <1>6, <2>1, VersionStep
<1> QED BY <1>2, <1>3, <1>7, <1>8 DEF FitsVersions

\* What a pass stores fits the versions, however old its KyuubiCluster is.
LEMMA StoredFits ==
    ASSUME BaseInv, VersionsInv, ObjectsInv, [Next]_vars,
           NEW k \in Kinds, NEW v, PassStores(k, v)
    PROVE  FitsVersions(k, v)'
<1>1. /\ api'["cr"] = api["cr"] /\ past' = past /\ Seen' = Seen
      /\ used'["creates"] = used["creates"] /\ v.data \in Wanted[k][kyuubi.spec]
  BY KindFacts DEF PassStores, Kept, history, Seen
<1>2. kyuubi # Nil
  <2>1. pc # "idle"
    BY AccessAssumption DEF PassStores, Kinds
  <2> QED BY <2>1, PassFacts DEF BaseInv
<1>3. kyuubi \in Seen /\ \A c \in Seen : NotNewer(kyuubi, c)
  BY <1>2, SeenAfterPass DEF VersionsInv
<1>4. \A c \in Seen : /\ IsVersion(c) /\ c.uid \in Nat /\ c.generation \in Nat
  BY SeenTypes DEF VersionsInv, SeenAreVersions
<1>5. /\ v.owner \in Nat /\ used["creates"] \in Nat
      /\ api["cr"] # Nil => api["cr"].uid \in Nat /\ api["cr"].generation \in Nat
  <2>1. v.owner \in 1..MaxCreates
    BY DEF PassStores, Object
  <2> QED BY <2>1, BoundsAssumption, SeenTypes
<1>6. \A c \in Seen : kyuubi.uid <= c.uid
  BY <1>3, <1>4 DEF NotNewer
<1>7. v.owner <= used["creates"] /\ \A c \in Seen : v.owner <= c.uid
  <2>1. CASE v.owner = kyuubi.uid
    BY <1>3, <1>4, <1>6, <2>1 DEF IsVersion
  <2>2. CASE api[k] # Nil /\ v.owner = api[k].owner
    <3>1. api[k] \in ObjectsOf(k)
      BY <2>2 DEF ObjectsOf
    <3> QED BY <2>2, <3>1 DEF ObjectsInv, FitsVersions
  <2> QED BY <2>1, <2>2 DEF PassStores
<1>8. ASSUME api["cr"] # Nil, v.owner = api["cr"].uid
      PROVE  /\ kyuubi.uid = api["cr"].uid
             /\ \/ kyuubi.generation < api["cr"].generation /\ kyuubi.spec \in past
                \/ /\ kyuubi.generation = api["cr"].generation
                   /\ kyuubi.spec = api["cr"].spec
  <2>1. api["cr"].uid <= kyuubi.uid
    BY <1>3, <1>7, <1>8
  <2> QED BY <1>3, <1>4, <1>5, <1>8, <2>1 DEF IsVersion
<1>9. ASSUME IsCurrent(k, v)', ~Reverted(k)', NEW c \in Seen
      PROVE  c.uid = api["cr"].uid /\ c.spec = api["cr"].spec
  <2>1. /\ api["cr"] # Nil /\ v.owner = api["cr"].uid
        /\ v.data \in Wanted[k][api["cr"].spec]
    BY <1>1, <1>9 DEF IsCurrent
  <2>2. kyuubi.spec \notin past
    BY <1>1, <1>9, <2>1 DEF Reverted
  <2>3. kyuubi.uid = api["cr"].uid /\ kyuubi.generation = api["cr"].generation
    BY <1>8, <2>1, <2>2
  <2>4. NotNewer(kyuubi, c) /\ IsVersion(c) /\ c.uid \in Nat /\ c.generation \in Nat
    BY <1>3, <1>4
  <2> QED BY <1>5, <2>1, <2>3, <2>4 DEF NotNewer, IsVersion
<1>10. ASSUME api["cr"] # Nil, v.owner = api["cr"].uid
       PROVE  \E spec \in past \cup {api["cr"].spec} : v.data \in Wanted[k][spec]
  BY <1>1, <1>8, <1>10
<1> QED BY <1>1, <1>7, <1>9, <1>10 DEF FitsVersions

\* The objects keep fitting the versions.
LEMMA ObjectsInvStep ==
    ASSUME BaseInv, BaseInv', VersionsInv, VersionsInv', ObjectsInv, [Next]_vars
    PROVE  ObjectsInv'
<1> SUFFICES ASSUME NEW k \in Kinds, NEW o \in ObjectsOf(k)'
             PROVE  FitsVersions(k, o)'
  BY DEF ObjectsInv
<1>1. CASE o \in ObjectsOf(k)
  BY <1>1, FitStays DEF ObjectsInv
<1>2. CASE PassStores(k, o)
  BY <1>2, StoredFits
<1> QED BY <1>1, <1>2, ObjectsStep

\* Before the first KyuubiCluster there is nothing that could not fit.
LEMMA InitVersions == Init => VersionsInv /\ ObjectsInv
<1> SUFFICES ASSUME Init PROVE VersionsInv /\ ObjectsInv
  OBVIOUS
<1>1. \A k \in AllKinds : api[k] = Nil /\ cache[k] = Nil /\ lag[k] = <<>>
  BY DEF Init
<1>2. kyuubi = Nil
  BY DEF Init
<1>3. Range(<<>>) = {} /\ DOMAIN <<>> = {}
  BY DEF Range
<1>4. Seen = {}
  BY <1>1, <1>2, <1>3, KindFacts DEF Seen
<1>5. VersionsInv
  BY <1>1, <1>2, <1>3, <1>4, KindFacts DEF VersionsInv, UidsCount, SeenAreVersions,
     SeenInOrder, InOrder
<1>6. ObjectsInv
  BY <1>1, <1>3, KindFacts DEF ObjectsInv, ObjectsOf
<1> QED BY <1>5, <1>6

\* All of what is invariant here.
HistoryInv == WorkloadInv /\ VersionsInv /\ ObjectsInv

\* The part of WorkloadInv that is used here.
LEMMA WorkloadInvBase == WorkloadInv => BaseInv
  BY DEF WorkloadInv, BaseInv

\* Every step preserves what is known of versions and objects.
LEMMA HistoryStep == HistoryInv /\ [Next]_vars => HistoryInv'
<1> SUFFICES ASSUME HistoryInv, [Next]_vars PROVE HistoryInv'
  OBVIOUS
<1>1. WorkloadInv /\ VersionsInv /\ ObjectsInv
  BY DEF HistoryInv
<1>2. WorkloadInv'
  BY <1>1, NextInv
<1>3. BaseInv /\ BaseInv'
  BY <1>1, <1>2 DEF WorkloadInv, BaseInv
<1>4. VersionsInv'
  BY <1>1, <1>3, VersionsStep
<1>5. ObjectsInv'
  BY <1>1, <1>3, <1>4, ObjectsInvStep
<1> QED BY <1>2, <1>4, <1>5 DEF HistoryInv

\* Passes get the KyuubiCluster in the order of its versions, each a version
\* that it has or had, and every object was built from such a version.
THEOREM HistoryInvariance == Spec => []HistoryInv
<1>1. Init => HistoryInv
  BY InitInv, InitVersions DEF HistoryInv
<1> QED BY <1>1, HistoryStep, PTL DEF Spec

-----------------------------------------------------------------------------
\* No late pass with an older copy of the KyuubiCluster takes the workload
\* back: a StatefulSet that is right stays right until the user acts.
THEOREM WorkloadNeverRollsBack == Spec => NoRollback
<1> DEFINE P == /\ api["cr"] # Nil /\ InSync("sts") /\ ~Reverted("sts")
                /\ api'["cr"] # Nil
                /\ api'["cr"].uid = api["cr"].uid
                /\ api'["cr"].spec = api["cr"].spec
                => InSync("sts")'
<1>1. HistoryInv /\ [Next]_vars => [P]_vars
  <2> SUFFICES ASSUME HistoryInv, [Next]_vars,
                      api["cr"] # Nil, InSync("sts"), ~Reverted("sts"),
                      api'["cr"].uid = api["cr"].uid,
                      api'["cr"].spec = api["cr"].spec
               PROVE  InSync("sts")'
    OBVIOUS
  <2>1. /\ BaseInv /\ VersionsInv /\ ObjectsInv
        /\ "sts" \in Kinds /\ "sts" \in AllKinds /\ "sts" # "cr"
    BY WorkloadInvBase, KindFacts DEF HistoryInv
  <2>2. ASSUME api'["sts"] = api["sts"] PROVE InSync("sts")'
    BY <2>2 DEF InSync
  <2>3. ASSUME NEW v, PassStores("sts", v) PROVE InSync("sts")'
    <3>1. pc = "sts" /\ kyuubi # Nil
      BY <2>1, <2>3, PassFacts DEF PassStores, BaseInv
    <3>2. kyuubi \in Seen
      BY <3>1 DEF Seen
    <3>3. api["sts"] \in ObjectsOf("sts") /\ IsCurrent("sts", api["sts"])
      BY DEF InSync, ObjectsOf, IsCurrent
    <3>4. kyuubi.uid = api["cr"].uid /\ kyuubi.spec = api["cr"].spec
      BY <2>1, <3>2, <3>3 DEF ObjectsInv, FitsVersions
    <3>5. /\ api'["sts"] = v /\ v # Nil /\ v.data \in Wanted["sts"][kyuubi.spec]
          /\ v.owner = kyuubi.uid \/ v.owner = api["sts"].owner
      BY <2>1, <2>3, CopyFacts DEF PassStores, Stores
    <3> QED BY <3>4, <3>5 DEF InSync
  <2>4. ASSUME NEW k, ObjectCollected(k) PROVE InSync("sts")'
    <3>1. k # "sts"
      BY <2>4 DEF ObjectCollected, InSync
    <3> QED BY <2>1, <2>2, <2>4, <3>1 DEF ObjectCollected, Kept
  <2>5. ASSUME NEW k \in Kinds, NEW v, PassStores(k, v), k # "sts"
        PROVE  InSync("sts")'
    BY <2>1, <2>2, <2>5 DEF PassStores, Kept
  <2>6. ASSUME NEW v, \/ ClusterCreated(v) \/ ClusterEdited(v) \/ ClusterDeleted
                      \/ StatusStored(v)
        PROVE  InSync("sts")'
    BY <2>1, <2>2, <2>6 DEF ClusterCreated, ClusterEdited, ClusterDeleted,
       UserStores, StatusStored, Kept
  <2>7. ASSUME NEW k, EventApplied(k) PROVE InSync("sts")'
    BY <2>1, <2>2, <2>7 DEF EventApplied, Applies, Kept
  <2>8. CASE AllListed \/ AllKept
    BY <2>1, <2>2, <2>8 DEF AllListed, AllKept, Lists, Kept
  <2> QED BY <2>1, <2>3, <2>4, <2>5, <2>6, <2>7, <2>8, StepEffect DEF OwnStep
<1> QED BY <1>1, HistoryInvariance, PTL DEF Spec, NoRollback
=============================================================================
