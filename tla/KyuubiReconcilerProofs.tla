----------------------- MODULE KyuubiReconcilerProofs -----------------------
(***************************************************************************)
(* Proofs about KyuubiReconciler for every set of specs and every value of *)
(* the bounds.  The heart is that WorkloadInv is inductive.                *)
(***************************************************************************)
EXTENDS KyuubiReconciler, SequenceTheorems, TLAPS

-----------------------------------------------------------------------------
(***************************************************************************)
(* Sequences of events.                                                    *)
(***************************************************************************)
\* An appended event is the last one outstanding.
LEMMA AppendLast ==
    ASSUME NEW S, NEW s \in Seq(S), NEW e \in S
    PROVE  /\ Append(s, e) \in Seq(S)
           /\ Append(s, e) # <<>>
           /\ Last(Append(s, e)) = e
  BY DEF Last

\* When the first event is applied the last one stays, or nothing does.
LEMMA TailLast ==
    ASSUME NEW S, NEW s \in Seq(S), s # <<>>
    PROVE  /\ Head(s) \in S
           /\ Tail(s) \in Seq(S)
           /\ IF Tail(s) = <<>> THEN Head(s) = Last(s)
                                ELSE Last(Tail(s)) = Last(s)
<1>1. Len(s) \in Nat \ {0} /\ Head(s) = s[1] /\ Head(s) \in S
  OBVIOUS
<1> DEFINE t == Tail(s)
<1>2. /\ t \in Seq(S)
      /\ Len(t) = Len(s) - 1
      /\ \A i \in 1..Len(t) : t[i] = s[i + 1]
  BY HeadTailProperties
<1> HIDE DEF t
<1>3. t = <<>> => Len(s) = 1
  BY <1>1, <1>2, EmptySeq
<1>4. t # <<>> => t[Len(t)] = s[Len(s)]
  <2>1. t # <<>> => Len(t) \in 1..Len(t) /\ Len(s) = Len(t) + 1
    BY <1>1, <1>2, EmptySeq
  <2> QED BY <1>2, <2>1
<1> QED BY <1>1, <1>2, <1>3, <1>4 DEF Last, t

(***************************************************************************)
(* Kinds and manifests.                                                    *)
(***************************************************************************)
\* The KyuubiCluster is none of the objects the operator manages.
LEMMA KindFacts ==
    /\ Kinds \subseteq AllKinds
    /\ "cr" \in AllKinds /\ "cr" \notin Kinds
    /\ {"kyuubiCm", "refsCm", "sts", "svc"} \subseteq Kinds
    /\ Access \subseteq Kinds
  BY AccessAssumption DEF Kinds, AllKinds

\* What a construct function yields is a manifest of its kind.
LEMMA DesiredIsManifest ==
    ASSUME NEW k \in Kinds, NEW spec \in Specs
    PROVE  /\ Wanted[k][spec] = Desired(k, spec)
           /\ Desired(k, spec) \subseteq Manifest[k]
  BY DEF Wanted, Manifest

\* The one StatefulSet that the server stores for a spec.
LEMMA WorkloadManifest ==
    ASSUME NEW spec \in Specs
    PROVE  Wanted["sts"][spec] =
             {ServerDefaults(constructDesiredKyuubiWorkload(spec))}
  BY DesiredIsManifest, KindFacts DEF Desired

\* A stored StatefulSet never equals the one the operator builds: the server
\* has filled in defaults, so reflect.DeepEqual always finds a difference.
LEMMA StoredWorkloadDiffers ==
    ASSUME NEW data \in Manifest["sts"], NEW spec
    PROVE  data # constructDesiredKyuubiWorkload(spec)
<1>1. PICK s \in Specs : data \in Wanted["sts"][s]
  BY KindFacts DEF Manifest
<1>2. data = ServerDefaults(constructDesiredKyuubiWorkload(s))
  BY <1>1, WorkloadManifest
<1>3. data.defaulted = TRUE
  BY <1>2 DEF ServerDefaults, constructDesiredKyuubiWorkload
<1>4. constructDesiredKyuubiWorkload(spec).defaulted = FALSE
  BY DEF constructDesiredKyuubiWorkload
<1> QED BY <1>3, <1>4

\* The service is the same for every spec.
LEMMA ServiceManifest == Manifest["svc"] = {contructDesiredService}
<1>1. \A spec \in Specs : Wanted["svc"][spec] = {contructDesiredService}
  BY DesiredIsManifest, KindFacts DEF Desired
<1> QED BY <1>1, SpecsAssumption, KindFacts DEF Manifest

-----------------------------------------------------------------------------
(***************************************************************************)
(* The store: the API server's objects, the informers and their events.    *)
(***************************************************************************)
StoreInv == StoreTypeOK /\ InformersCatchUp

\* A write of a well typed object preserves the store's invariant.
LEMMA WriteStore ==
    ASSUME StoreInv, NEW k \in AllKinds, NEW v \in Copies(k), Write(k, v)
    PROVE  /\ StoreInv'
           /\ api'[k] = v /\ lag'[k] # <<>>
           /\ \A j \in AllKinds \ {k} : api'[j] = api[j] /\ lag'[j] = lag[j]
<1>1. /\ api' = [api EXCEPT ![k] = v] /\ cache' = cache
      /\ lag' = [lag EXCEPT ![k] = Append(lag[k], v)]
  BY DEF Write
<1>2. /\ api'[k] = v /\ lag'[k] = Append(lag[k], v)
      /\ \A j \in AllKinds \ {k} : api'[j] = api[j] /\ lag'[j] = lag[j]
      /\ api' = [j \in AllKinds |-> api'[j]]
      /\ lag' = [j \in AllKinds |-> lag'[j]]
  BY <1>1 DEF StoreInv, StoreTypeOK
<1>3. /\ Append(lag[k], v) \in Seq(Copies(k))
      /\ Append(lag[k], v) # <<>>
      /\ Last(Append(lag[k], v)) = v
  BY AppendLast DEF StoreInv, StoreTypeOK
<1>4. StoreTypeOK'
  <2>1. \A j \in AllKinds : Copies(j)' = Copies(j)
    BY DEF Copies, Stored, Cluster, Object, Status
  <2> QED BY <1>1, <1>2, <1>3, <2>1 DEF StoreInv, StoreTypeOK
<1>5. InformersCatchUp'
  BY <1>1, <1>2, <1>3 DEF StoreInv, InformersCatchUp
<1> QED BY <1>2, <1>3, <1>4, <1>5 DEF StoreInv

\* So does the delivery of an event, which leaves the objects alone.
LEMMA DeliverStore ==
    ASSUME StoreInv, NEW k \in AllKinds, DeliverEvent(k)
    PROVE  /\ StoreInv'
           /\ api' = api
           /\ \A j \in AllKinds \ {k} : lag'[j] = lag[j]
<1>1. /\ api' = api /\ lag[k] # <<>>
      /\ cache' = [cache EXCEPT ![k] = Head(lag[k])]
      /\ lag' = [lag EXCEPT ![k] = Tail(lag[k])]
  BY DEF DeliverEvent
<1>2. /\ cache'[k] = Head(lag[k]) /\ lag'[k] = Tail(lag[k])
      /\ \A j \in AllKinds \ {k} : cache'[j] = cache[j] /\ lag'[j] = lag[j]
      /\ cache' = [j \in AllKinds |-> cache'[j]]
      /\ lag' = [j \in AllKinds |-> lag'[j]]
  BY <1>1 DEF StoreInv, StoreTypeOK
<1> DEFINE h == Head(lag[k])
           t == Tail(lag[k])
<1>3. /\ h \in Copies(k)
      /\ t \in Seq(Copies(k))
      /\ IF t = <<>> THEN h = Last(lag[k]) ELSE Last(t) = Last(lag[k])
  BY <1>1, TailLast DEF StoreInv, StoreTypeOK
<1>4. cache'[k] = h /\ lag'[k] = t
  BY <1>2
<1> HIDE DEF h, t
<1>5. StoreTypeOK'
  <2>1. \A j \in AllKinds : Copies(j)' = Copies(j)
    BY DEF Copies, Stored, Cluster, Object, Status
  <2> QED BY <1>1, <1>2, <1>3, <1>4, <2>1 DEF StoreInv, StoreTypeOK
<1>6. InformersCatchUp'
  <2>1. Last(lag[k]) = api[k]
    BY <1>1 DEF StoreInv, InformersCatchUp
  <2> QED BY <1>1, <1>2, <1>3, <1>4, <2>1 DEF StoreInv, InformersCatchUp
<1> QED BY <1>1, <1>2, <1>5, <1>6 DEF StoreInv

\* So does a restart, after which every informer has listed the objects.
LEMMA RestartStore ==
    ASSUME StoreInv, Restart
    PROVE  StoreInv' /\ api' = api
<1>1. api' = api /\ cache' = api /\ lag' = [k \in AllKinds |-> <<>>]
  BY DEF Restart
<1>2. StoreTypeOK'
  <2>1. \A j \in AllKinds : Copies(j)' = Copies(j)
    BY DEF Copies, Stored, Cluster, Object, Status
  <2>2. \A j \in AllKinds : lag'[j] = <<>> /\ <<>> \in Seq(Copies(j))
    BY <1>1, EmptySeq
  <2> QED BY <1>1, <2>1, <2>2 DEF StoreInv, StoreTypeOK
<1>3. InformersCatchUp'
  BY <1>1 DEF InformersCatchUp
<1> QED BY <1>1, <1>2, <1>3 DEF StoreInv

\* And a step that leaves the store alone.
LEMMA UnchangedStore ==
    ASSUME StoreInv, UNCHANGED storeVars
    PROVE  StoreInv' /\ api' = api /\ lag' = lag /\ cache' = cache
<1>1. api' = api /\ lag' = lag /\ cache' = cache
  BY DEF storeVars
<1>2. \A j \in AllKinds : Copies(j)' = Copies(j)
  BY DEF Copies, Stored, Cluster, Object, Status
<1> QED BY <1>1, <1>2 DEF StoreInv, StoreTypeOK, InformersCatchUp

-----------------------------------------------------------------------------
(***************************************************************************)
(* Steps that several actions share.                                       *)
(***************************************************************************)
\* What a stored KyuubiCluster and a stored object are made of.
LEMMA CopyFacts ==
    /\ \A c \in Copies("cr") : c # Nil =>
          /\ c \in Cluster /\ c.uid \in 1..MaxCreates
          /\ c.spec \in Specs /\ c.status \in Status
    /\ Cluster \subseteq Copies("cr") /\ Nil \notin Cluster
    /\ \A k \in Kinds : \A c \in Copies(k) : c # Nil =>
          c \in Object(k) /\ c.data \in Manifest[k]
    /\ \A k \in Kinds : Object(k) \subseteq Copies(k) /\ Nil \notin Object(k)
    /\ \A k \in AllKinds : Nil \in Copies(k)
  BY KindFacts, NilAssumption DEF Copies, Stored, Cluster, Object

\* A pass has a KyuubiCluster in hand.
LEMMA PassFacts ==
    ASSUME TypeOK, pc # "idle"
    PROVE  /\ kyuubi # Nil /\ kyuubi \in Cluster
           /\ kyuubi.uid \in 1..MaxCreates
           /\ kyuubi.spec \in Specs
           /\ kyuubi.status \in Status
  BY CopyFacts DEF TypeOK, ReconcilerTypeOK

\* A pass that ends with an error is repeated.
LEMMA ErrorStep ==
    ASSUME WorkloadInv, UNCHANGED storeVars, ReturnError
    PROVE  WorkloadInv'
<1>1. StoreInv' /\ api' = api /\ lag' = lag
  BY UnchangedStore DEF WorkloadInv, TypeOK, StoreInv
<1>2. ReconcilerTypeOK' /\ FreshIsCurrent' /\ retry' = TRUE
  BY CopyFacts, KindFacts DEF ReturnError, Leave, history, WorkloadInv, TypeOK,
     ReconcilerTypeOK, FreshIsCurrent, PCs
<1> QED BY <1>1, <1>2 DEF WorkloadInv, TypeOK, StoreInv, WorkInHand

\* A call before that of createOrUpdateKyuubi succeeds.
LEMMA ProceedStep ==
    ASSUME WorkloadInv, pc \in BeforeWorkload,
           NEW next \in BeforeWorkload, Proceed(next), StoreInv',
           api'["cr"] = api["cr"], lag'["cr"] = lag["cr"]
    PROVE  WorkloadInv'
<1>1. ReconcilerTypeOK'
  BY DEF Proceed, queueVars, history, WorkloadInv, TypeOK, ReconcilerTypeOK,
     BeforeWorkload
<1>2. FreshIsCurrent'
  BY DEF Proceed, WorkloadInv, FreshIsCurrent
<1>3. WorkInHand'
  BY DEF Proceed, queueVars, WorkloadInv, WorkInHand
<1> QED BY <1>1, <1>2, <1>3 DEF WorkloadInv, TypeOK, StoreInv

\* An object created by a pass belongs to the KyuubiCluster in hand.
LEMMA CreateStep ==
    ASSUME WorkloadInv, pc # "idle",
           NEW k \in Kinds, NEW data \in Manifest[k], Create(k, data)
    PROVE  /\ StoreInv'
           /\ api'[k] = [owner |-> kyuubi.uid, data |-> data] /\ api'[k] # Nil
           /\ \A j \in AllKinds \ {k} : api'[j] = api[j] /\ lag'[j] = lag[j]
<1> DEFINE v == [owner |-> kyuubi.uid, data |-> data]
<1>1. v \in Object(k)
  BY PassFacts DEF WorkloadInv, Object
<1>2. v \in Copies(k) /\ v # Nil /\ Write(k, v) /\ k \in AllKinds
  BY <1>1, CopyFacts, KindFacts DEF Create
<1> HIDE DEF v
<1>3. StoreInv
  BY DEF WorkloadInv, TypeOK, StoreInv
<1> QED BY <1>2, <1>3, WriteStore DEF v

-----------------------------------------------------------------------------
(***************************************************************************)
(* Every action preserves WorkloadInv.                                     *)
(***************************************************************************)
\* createOrUpdateServiceAccount, createOrUpdateRole, createOrUpdateRoleBinding.
LEMMA AccessStep ==
    ASSUME WorkloadInv, NEW k \in {"sa", "role", "rb"},
           NEW next \in BeforeWorkload, CreateIfMissing(k, next)
    PROVE  WorkloadInv'
<1>1. pc = k /\ k \in BeforeWorkload /\ pc # "idle"
  BY DEF CreateIfMissing, BeforeWorkload, PCs
<1>2. CASE UNCHANGED storeVars /\ Proceed(next)
  BY <1>1, <1>2, ProceedStep, UnchangedStore DEF WorkloadInv, TypeOK, StoreInv
<1>3. CASE k \in Access /\ Create(k, k) /\ Proceed(next)
  <2>1. k \in Kinds /\ k # "cr"
    BY <1>3, KindFacts
  <2>2. k \in Manifest[k]
    <3>1. \A spec \in Specs : k \in Desired(k, spec)
      BY DEF Desired
    <3> QED BY <3>1, <2>1, DesiredIsManifest, SpecsAssumption
  <2> QED BY <1>1, <1>3, <2>1, <2>2, CreateStep, ProceedStep, KindFacts
<1>4. CASE AlreadyExists(k)
  BY <1>4, ErrorStep DEF AlreadyExists
<1> QED BY <1>2, <1>3, <1>4 DEF CreateIfMissing

\* A ConfigMap is created, updated, found equal, or the call fails.
LEMMA ConfigMapStep ==
    ASSUME WorkloadInv, NEW k \in {"kyuubiCm", "refsCm"},
           NEW data \in Manifest[k],
           NEW wait \in BeforeWorkload, NEW next \in BeforeWorkload, pc = k,
           CreateOrUpdateConfigMap(k, data, wait, next)
    PROVE  WorkloadInv'
<1>1. /\ k \in BeforeWorkload /\ pc # "idle"
      /\ k \in Kinds /\ k \in AllKinds /\ k # "cr" /\ "cr" \in AllKinds
      /\ StoreInv
  BY KindFacts DEF BeforeWorkload, PCs, WorkloadInv, TypeOK, StoreInv
<1>2. CASE Create(k, data) /\ Proceed(wait)
  BY <1>1, <1>2, CreateStep, ProceedStep
<1>3. CASE AlreadyExists(k)
  BY <1>3, ErrorStep DEF AlreadyExists
<1>4. CASE UNCHANGED storeVars /\ Proceed(next)
  BY <1>1, <1>4, ProceedStep, UnchangedStore
<1>5. CASE /\ cache[k] # Nil
           /\ Write(k, [cache[k] EXCEPT !.data = data])
           /\ Proceed(next)
  <2> DEFINE v == [cache[k] EXCEPT !.data = data]
  <2>1. cache[k] \in Object(k)
    BY <1>1, <1>5, CopyFacts DEF StoreInv, StoreTypeOK
  <2>2. v \in Object(k)
    BY <2>1 DEF Object
  <2>3. v \in Copies(k) /\ Write(k, v)
    BY <1>1, <1>5, <2>2, CopyFacts
  <2> HIDE DEF v
  <2> QED BY <1>1, <1>5, <2>3, WriteStore, ProceedStep
<1>6. CASE UNCHANGED storeVars /\ ReturnError
  BY <1>6, ErrorStep
<1> QED BY <1>2, <1>3, <1>4, <1>5, <1>6
        DEF CreateOrUpdateConfigMap, UpdateConfigMap

\* createOrUpdateKyuubi leaves behind the StatefulSet of the spec in hand.
LEMMA WorkloadStep ==
    ASSUME WorkloadInv, createOrUpdateKyuubi
    PROVE  WorkloadInv'
<1> DEFINE desired == constructDesiredKyuubiWorkload(kyuubi.spec)
           data == ServerDefaults(desired)
           v == [owner |-> kyuubi.uid, data |-> data]
<1>1. /\ pc = "sts" /\ pc # "idle" /\ pc \in BeforeWorkload
      /\ "sts" \in Kinds /\ "sts" \in AllKinds /\ "cr" \in AllKinds
      /\ StoreInv
  BY KindFacts DEF createOrUpdateKyuubi, BeforeWorkload, PCs, WorkloadInv, TypeOK,
     StoreInv
<1>2. /\ kyuubi \in Cluster /\ kyuubi.uid \in 1..MaxCreates
      /\ kyuubi.spec \in Specs
  BY <1>1, PassFacts DEF WorkloadInv
<1>3. data \in Manifest["sts"] /\ Wanted["sts"][kyuubi.spec] = {data}
  BY <1>1, <1>2, WorkloadManifest, DesiredIsManifest
<1>4. v \in Object("sts") /\ v \in Copies("sts") /\ v # Nil
  BY <1>1, <1>2, <1>3, CopyFacts DEF Object
<1>5. ASSUME StoreInv', api'["sts"] = v, api'["cr"] = api["cr"],
             lag'["cr"] = lag["cr"], Proceed("svc")
      PROVE  WorkloadInv'
  <2>1. ReconcilerTypeOK'
    BY <1>1, <1>5 DEF Proceed, queueVars, history, WorkloadInv, TypeOK,
       ReconcilerTypeOK, PCs
  <2>2. FreshIsCurrent'
    BY <1>5 DEF Proceed, WorkloadInv, FreshIsCurrent
  <2>3. WorkInHand'
    <3>1. SUFFICES ASSUME api["cr"] # Nil, ~queued, ~retry, lag["cr"] = <<>>
                   PROVE  InSync("sts")'
      BY <1>5 DEF WorkInHand, Proceed, queueVars, BeforeWorkload
    <3>2. kyuubi.uid = api["cr"].uid /\ kyuubi.spec = api["cr"].spec
      BY <1>1, <3>1 DEF WorkloadInv, WorkInHand
    <3> QED BY <1>3, <1>4, <1>5, <3>2 DEF InSync
  <2> QED BY <1>5, <2>1, <2>2, <2>3 DEF WorkloadInv, TypeOK, StoreInv
<1>6. CASE Create("sts", data) /\ Proceed("svc")
  BY <1>1, <1>3, <1>5, <1>6, CreateStep
<1>7. CASE cache["sts"] # Nil /\ UpdateWorkload(desired) /\ Proceed("svc")
  <2>1. cache["sts"].data # desired
    <3>1. cache["sts"].data \in Manifest["sts"]
      BY <1>1, <1>7, CopyFacts DEF StoreInv, StoreTypeOK
    <3> QED BY <3>1, StoredWorkloadDiffers
  <2>2. CASE api["sts"] = v
    <3>1. UNCHANGED storeVars
      BY <1>7, <2>2 DEF UpdateWorkload
    <3> QED BY <1>1, <1>5, <1>7, <2>2, <3>1, UnchangedStore
  <2>3. CASE api["sts"] # v
    <3>1. Write("sts", v)
      BY <1>7, <2>1, <2>3 DEF UpdateWorkload
    <3> QED BY <1>1, <1>4, <1>5, <1>7, <3>1, WriteStore
  <2> QED BY <2>2, <2>3
<1>8. CASE UNCHANGED storeVars /\ ReturnError
  BY <1>8, ErrorStep
<1> QED BY <1>6, <1>7, <1>8 DEF createOrUpdateKyuubi

\* The service is found or created; the StatefulSet has been written before.
LEMMA ServiceStep ==
    ASSUME WorkloadInv, createOrUpdateService
    PROVE  WorkloadInv'
<1>1. /\ pc = "svc" /\ pc # "idle" /\ pc \notin BeforeWorkload
      /\ {"svc", "sts"} \subseteq Kinds /\ "cr" \notin Kinds
      /\ {"svc", "sts", "cr"} \subseteq AllKinds
      /\ StoreInv
  BY KindFacts DEF createOrUpdateService, BeforeWorkload, WorkloadInv, TypeOK,
     StoreInv
<1>2. ASSUME StoreInv', api'["sts"] = api["sts"], api'["cr"] = api["cr"],
             lag'["cr"] = lag["cr"], pc' = "status",
             existing' \in {<<>>, contructDesiredService},
             UNCHANGED <<queueVars, kyuubi, fresh, history>>
      PROVE  WorkloadInv'
  <2>1. ReconcilerTypeOK'
    BY <1>1, <1>2 DEF queueVars, history, WorkloadInv, TypeOK,
       ReconcilerTypeOK, PCs
  <2>2. FreshIsCurrent'
    BY <1>2 DEF WorkloadInv, FreshIsCurrent
  <2>3. WorkInHand'
    BY <1>1, <1>2 DEF queueVars, WorkloadInv, WorkInHand, InSync, BeforeWorkload
  <2> QED BY <1>2, <2>1, <2>2, <2>3 DEF WorkloadInv, TypeOK, StoreInv
<1>3. CASE /\ cache["svc"] # Nil /\ existing' = cache["svc"].data
           /\ pc' = "status"
           /\ UNCHANGED <<storeVars, queueVars, kyuubi, fresh, history>>
  <2>1. cache["svc"].data \in Manifest["svc"]
    BY <1>1, <1>3, CopyFacts DEF StoreInv, StoreTypeOK
  <2> QED BY <1>1, <1>2, <1>3, <2>1, ServiceManifest, UnchangedStore
<1>4. CASE Create("svc", contructDesiredService) /\ Proceed("status")
  <2>1. contructDesiredService \in Manifest["svc"]
    BY ServiceManifest
  <2>2. /\ StoreInv' /\ api'["sts"] = api["sts"] /\ api'["cr"] = api["cr"]
        /\ lag'["cr"] = lag["cr"]
    BY <1>1, <1>4, <2>1, CreateStep
  <2>3. existing' \in {<<>>, contructDesiredService}
    BY <1>4 DEF Proceed, WorkloadInv, TypeOK, ReconcilerTypeOK
  <2> QED BY <1>2, <1>4, <2>2, <2>3 DEF Proceed
<1>5. CASE AlreadyExists("svc")
  BY <1>5, ErrorStep DEF AlreadyExists
<1> QED BY <1>3, <1>4, <1>5 DEF createOrUpdateService

\* The status that a pass stores is well typed.
LEMMA StatusType ==
    ASSUME TypeOK, pc # "idle", NEW now \in Time
    PROVE  [exposedInfos |-> ExposedInfos(existing),
            creationTime |-> CreationTime(now)] \in Status
<1>1. ExposedInfos(existing) \in
        {ExposedInfos(<<>>), ExposedInfos(contructDesiredService)}
  BY DEF TypeOK, ReconcilerTypeOK
<1>2. kyuubi.status \in Status
  BY PassFacts
<1>3. kyuubi.status.exposedInfos # Nil => kyuubi.status.creationTime \in Time
  BY <1>2 DEF Status, NoStatus
<1>4. CreationTime(now) \in Time
  BY <1>3 DEF CreationTime
<1> QED BY <1>1, <1>4 DEF Status

\* The status is stored, which triggers another pass, or left as it is.
LEMMA StatusStep ==
    ASSUME WorkloadInv, updateKyuubiClusterStatus
    PROVE  WorkloadInv'
<1>1. /\ pc = "status" /\ pc # "idle" /\ pc \notin BeforeWorkload
      /\ "sts" \in AllKinds /\ "cr" \in AllKinds /\ StoreInv
  BY KindFacts DEF updateKyuubiClusterStatus, BeforeWorkload, WorkloadInv, TypeOK,
     StoreInv
<1>2. ASSUME Leave, UNCHANGED <<queueVars, history>>
      PROVE  ReconcilerTypeOK' /\ FreshIsCurrent' /\ pc' \notin BeforeWorkload
  BY <1>2, CopyFacts, KindFacts DEF Leave, queueVars, history, WorkloadInv, TypeOK,
     ReconcilerTypeOK, FreshIsCurrent, PCs, BeforeWorkload
<1>3. CASE Leave /\ UNCHANGED <<storeVars, queueVars, history>>
  <2>1. StoreInv' /\ api' = api /\ lag' = lag
    BY <1>1, <1>3, UnchangedStore
  <2>2. WorkInHand'
    BY <1>1, <1>2, <1>3, <2>1 DEF queueVars, WorkloadInv, WorkInHand, InSync
  <2> QED BY <1>2, <1>3, <2>1, <2>2 DEF WorkloadInv, TypeOK, StoreInv
<1>4. CASE /\ fresh
           /\ \E now \in Time :
                 Write("cr", [api["cr"] EXCEPT !.status =
                                [exposedInfos |-> ExposedInfos(existing),
                                 creationTime |-> CreationTime(now)]])
           /\ Leave /\ UNCHANGED <<queueVars, history>>
  <2>1. PICK now \in Time :
          Write("cr", [api["cr"] EXCEPT !.status =
                         [exposedInfos |-> ExposedInfos(existing),
                          creationTime |-> CreationTime(now)]])
    BY <1>4
  <2> DEFINE st == [exposedInfos |-> ExposedInfos(existing),
                    creationTime |-> CreationTime(now)]
             v == [api["cr"] EXCEPT !.status = st]
  <2>2. api["cr"] \in Cluster
    BY <1>1, <1>4, PassFacts DEF WorkloadInv, FreshIsCurrent
  <2>3. st \in Status
    BY <1>1, StatusType DEF WorkloadInv
  <2> HIDE DEF st
  <2>4. v \in Cluster
    BY <2>2, <2>3 DEF Cluster
  <2>5. v \in Copies("cr") /\ Write("cr", v)
    BY <2>1, <2>4, CopyFacts DEF st
  <2> HIDE DEF v
  <2>6. StoreInv' /\ lag'["cr"] # <<>>
    BY <1>1, <2>5, WriteStore
  <2> QED BY <1>2, <1>4, <2>6 DEF WorkloadInv, TypeOK, StoreInv, WorkInHand
<1>5. CASE UNCHANGED storeVars /\ ReturnError
  BY <1>5, ErrorStep
<1> QED BY <1>3, <1>4, <1>5 DEF updateKyuubiClusterStatus

\* A pass starts with the latest KyuubiCluster unless an event is outstanding.
LEMMA ReconcileStep ==
    ASSUME WorkloadInv, Reconcile
    PROVE  WorkloadInv'
<1>1. StoreInv /\ StoreInv' /\ api' = api /\ lag' = lag /\ "cr" \in AllKinds
  BY UnchangedStore, KindFacts DEF Reconcile, WorkloadInv, TypeOK, StoreInv
<1>2. CASE cache["cr"] = Nil /\ retry' = TRUE /\ UNCHANGED localVars
  BY <1>1, <1>2 DEF Reconcile, localVars, history, WorkloadInv, TypeOK, StoreInv,
     ReconcilerTypeOK, FreshIsCurrent, WorkInHand
<1>3. CASE /\ cache["cr"] # Nil /\ pc' = "sa" /\ kyuubi' = cache["cr"]
           /\ fresh' = (lag["cr"] = <<>>) /\ UNCHANGED <<retry, existing>>
  <2>1. lag["cr"] = <<>> => cache["cr"] = api["cr"]
    BY <1>1 DEF StoreInv, InformersCatchUp
  <2>2. ReconcilerTypeOK'
    BY <1>1, <1>3 DEF Reconcile, history, WorkloadInv, TypeOK, StoreInv,
       StoreTypeOK, ReconcilerTypeOK, PCs
  <2>3. FreshIsCurrent'
    BY <1>1, <1>3, <2>1 DEF FreshIsCurrent
  <2>4. WorkInHand'
    BY <1>1, <1>3, <2>1 DEF WorkInHand, BeforeWorkload, PCs
  <2> QED BY <1>1, <2>2, <2>3, <2>4 DEF WorkloadInv, TypeOK, StoreInv
<1> QED BY <1>2, <1>3 DEF Reconcile

\* What the user stores is on its way to the operator.
LEMMA UserWriteStep ==
    ASSUME WorkloadInv, NEW v \in Copies("cr"), WriteCluster(v),
           UNCHANGED <<queueVars, pc, kyuubi, existing>>,
           used' \in [Bounds -> Nat], used'["creates"] <= MaxCreates,
           past' \subseteq Specs
    PROVE  WorkloadInv'
<1>1. StoreInv' /\ lag'["cr"] # <<>>
  BY WriteStore, KindFacts DEF WriteCluster, WorkloadInv, TypeOK, StoreInv
<1>2. ReconcilerTypeOK'
  BY DEF WriteCluster, queueVars, WorkloadInv, TypeOK, ReconcilerTypeOK
<1>3. FreshIsCurrent'
  BY DEF WriteCluster, FreshIsCurrent
<1> QED BY <1>1, <1>2, <1>3 DEF WorkloadInv, TypeOK, StoreInv, WorkInHand

\* A bound that is used counts on.
LEMMA UseType ==
    ASSUME ReconcilerTypeOK, NEW b \in Bounds, NEW max, Use(b, max)
    PROVE  /\ used' \in [Bounds -> Nat]
           /\ used'[b] = used[b] + 1 /\ used[b] \in Nat
           /\ \A c \in Bounds \ {b} : used'[c] = used[c]
  BY DEF Use, ReconcilerTypeOK

\* An edited KyuubiCluster is one: field by field.
LEMMA EditedCluster ==
    ASSUME NEW c \in Cluster, NEW spec \in Specs
    PROVE  [c EXCEPT !.spec = spec, !.generation = @ + 1] \in Cluster
<1>1. c.generation + 1 \in Nat
  <2>1. c.generation \in Nat
    BY DEF Cluster
  <2> QED BY <2>1
<1>2. ASSUME NEW n \in Nat
      PROVE  [c EXCEPT !.spec = spec, !.generation = n] \in Cluster
  BY DEF Cluster
<1> QED BY <1>1, <1>2

\* The user's three actions.
LEMMA UserStep ==
    ASSUME WorkloadInv, User
    PROVE  WorkloadInv'
<1>1. ReconcilerTypeOK /\ "creates" \in Bounds /\ "edits" \in Bounds
      /\ "deletes" \in Bounds /\ api["cr"] \in Copies("cr")
  BY KindFacts DEF WorkloadInv, TypeOK, StoreTypeOK, Bounds
<1>2. ASSUME NEW spec \in Specs, UserCreates(spec) PROVE WorkloadInv'
  <2> DEFINE n == used["creates"] + 1
             v == [uid |-> n, generation |-> 1, spec |-> spec,
                   status |-> NoStatus]
  <2>1. /\ used' \in [Bounds -> Nat] /\ used'["creates"] <= MaxCreates
        /\ n \in 1..MaxCreates
    <3>1. used["creates"] < MaxCreates /\ Use("creates", MaxCreates)
      BY <1>2 DEF UserCreates, Use
    <3> QED BY <1>1, <3>1, UseType, BoundsAssumption
  <2>2. v \in Cluster
    BY <2>1 DEF Cluster, Status
  <2>3. v \in Copies("cr") /\ WriteCluster(v)
    BY <1>2, <2>2, CopyFacts DEF UserCreates, Default
  <2> HIDE DEF v
  <2> QED BY <1>2, <2>1, <2>3, UserWriteStep DEF UserCreates
<1>3. ASSUME NEW spec \in Specs, UserEdits(spec) PROVE WorkloadInv'
  <2> DEFINE v == [api["cr"] EXCEPT !.spec = spec, !.generation = @ + 1]
  <2>1. api["cr"] \in Cluster /\ api["cr"].spec \in Specs
    BY <1>1, <1>3, CopyFacts DEF UserEdits
  <2>2. v \in Cluster
    BY <2>1, EditedCluster
  <2>3. v \in Copies("cr") /\ WriteCluster(v)
    BY <1>3, <2>2, CopyFacts DEF UserEdits, Default
  <2>4. used' \in [Bounds -> Nat] /\ used'["creates"] <= MaxCreates
    BY <1>1, <1>3, UseType DEF UserEdits, ReconcilerTypeOK
  <2>5. past' \subseteq Specs
    BY <1>1, <1>3, <2>1 DEF UserEdits, ReconcilerTypeOK
  <2> HIDE DEF v
  <2> QED BY <1>3, <2>3, <2>4, <2>5, UserWriteStep DEF UserEdits
<1>4. CASE UserDeletes
  <2>1. used' \in [Bounds -> Nat] /\ used'["creates"] <= MaxCreates
    BY <1>1, <1>4, UseType DEF UserDeletes, ReconcilerTypeOK
  <2>2. Nil \in Copies("cr") /\ past' \subseteq Specs
    BY <1>1, <1>4, CopyFacts, KindFacts DEF UserDeletes, ReconcilerTypeOK
  <2> QED BY <1>4, <2>1, <2>2, UserWriteStep DEF UserDeletes
<1> QED BY <1>2, <1>3, <1>4 DEF User

\* The collector takes no StatefulSet that is in sync: its owner is alive.
LEMMA CollectStep ==
    ASSUME WorkloadInv, NEW k \in Kinds, GarbageCollect(k)
    PROVE  WorkloadInv'
<1>1. /\ k \in AllKinds /\ k # "cr" /\ {"cr", "sts"} \subseteq AllKinds
      /\ StoreInv /\ Nil \in Copies(k)
  BY KindFacts, CopyFacts DEF WorkloadInv, TypeOK, StoreInv
<1>2. /\ StoreInv'
      /\ \A j \in AllKinds \ {k} : api'[j] = api[j] /\ lag'[j] = lag[j]
  BY <1>1, WriteStore DEF GarbageCollect
<1>3. ReconcilerTypeOK' /\ FreshIsCurrent'
  BY <1>1, <1>2 DEF GarbageCollect, queueVars, localVars, history, WorkloadInv,
     TypeOK, ReconcilerTypeOK, FreshIsCurrent
<1>4. WorkInHand'
  <2>1. api["cr"] # Nil /\ InSync("sts") => k # "sts"
    BY DEF GarbageCollect, InSync
  <2> QED BY <1>1, <1>2, <2>1 DEF GarbageCollect, queueVars, localVars,
             WorkloadInv, WorkInHand, InSync
<1> QED BY <1>2, <1>3, <1>4 DEF WorkloadInv, TypeOK, StoreInv

\* An event of the KyuubiCluster that is delivered queues a pass.
LEMMA DeliverStep ==
    ASSUME WorkloadInv, NEW k \in AllKinds, DeliverEvent(k)
    PROVE  WorkloadInv'
<1>1. StoreInv /\ "cr" \in AllKinds
  BY KindFacts DEF WorkloadInv, TypeOK, StoreInv
<1>2. /\ StoreInv' /\ api' = api
      /\ \A j \in AllKinds \ {k} : lag'[j] = lag[j]
  BY <1>1, DeliverStore
<1>3. ReconcilerTypeOK' /\ FreshIsCurrent'
  BY <1>2 DEF DeliverEvent, localVars, history, WorkloadInv,
     TypeOK, ReconcilerTypeOK, FreshIsCurrent
<1>4. WorkInHand'
  BY <1>1, <1>2 DEF DeliverEvent, localVars, WorkloadInv, WorkInHand, InSync
<1> QED BY <1>2, <1>3, <1>4 DEF WorkloadInv, TypeOK, StoreInv

\* The timers queue a pass.
LEMMA TimerStep ==
    ASSUME WorkloadInv, Resync \/ RetryExpires
    PROVE  WorkloadInv'
<1>1. StoreInv' /\ api' = api /\ queued' = TRUE
  BY UnchangedStore DEF Resync, RetryExpires, WorkloadInv, TypeOK, StoreInv
<1>2. (retry' = retry \/ retry' = FALSE) /\ UNCHANGED <<localVars, history>>
  BY DEF Resync, RetryExpires
<1>3. ReconcilerTypeOK' /\ FreshIsCurrent'
  BY <1>1, <1>2 DEF localVars, history, WorkloadInv, TypeOK, ReconcilerTypeOK,
     FreshIsCurrent
<1> QED BY <1>1, <1>3 DEF WorkloadInv, TypeOK, StoreInv, WorkInHand

\* A failed call is retried, and a restart queues every KyuubiCluster.
LEMMA FaultStep ==
    ASSUME WorkloadInv, CallFails \/ Restart
    PROVE  WorkloadInv'
<1>1. Nil \in Copies("cr") /\ "faults" \in Bounds /\ "creates" # "faults"
      /\ ReconcilerTypeOK /\ StoreInv
  BY CopyFacts, KindFacts DEF Bounds, WorkloadInv, TypeOK, StoreInv
<1>2. used' \in [Bounds -> Nat] /\ used'["creates"] <= MaxCreates
  BY <1>1, UseType DEF CallFails, Restart, ReconcilerTypeOK, Bounds
<1>3. ReconcilerTypeOK' /\ FreshIsCurrent'
  BY <1>1, <1>2 DEF CallFails, Restart, Leave, ReconcilerTypeOK, FreshIsCurrent, PCs
<1>4. CASE CallFails
  <2>1. StoreInv' /\ retry' = TRUE
    BY <1>1, <1>4, UnchangedStore DEF CallFails
  <2> QED BY <1>3, <2>1 DEF WorkloadInv, TypeOK, StoreInv, WorkInHand
<1>5. CASE Restart
  <2>1. StoreInv' /\ api' = api /\ queued' = (api["cr"] # Nil)
    BY <1>1, <1>5, RestartStore DEF Restart
  <2> QED BY <1>3, <2>1 DEF WorkloadInv, TypeOK, StoreInv, WorkInHand
<1> QED BY <1>4, <1>5

\* The actions of a pass.
LEMMA OperatorStep ==
    ASSUME WorkloadInv, Operator
    PROVE  WorkloadInv'
<1>1. {"role", "rb", "kyuubiCm", "kyuubiCmWait", "refsCm", "refsCmWait", "sts"}
        \subseteq BeforeWorkload
  BY DEF BeforeWorkload, PCs
<1>2. CASE Reconcile
  BY <1>2, ReconcileStep
<1>3. CASE createOrUpdateServiceAccount
  BY <1>1, <1>3, AccessStep DEF createOrUpdateServiceAccount
<1>4. CASE createOrUpdateRole
  BY <1>1, <1>4, AccessStep DEF createOrUpdateRole
<1>5. CASE createOrUpdateRoleBinding
  BY <1>1, <1>5, AccessStep DEF createOrUpdateRoleBinding
<1>6. CASE createOrUpdateKyuubiConfigmap
  <2>1. PICK data \in constructKyuubiConfigMap(kyuubi.spec) :
          CreateOrUpdateConfigMap("kyuubiCm", data, "kyuubiCmWait", "refsCm")
    BY <1>6 DEF createOrUpdateKyuubiConfigmap
  <2>2. pc = "kyuubiCm" /\ kyuubi.spec \in Specs
    BY <1>6, PassFacts DEF createOrUpdateKyuubiConfigmap, WorkloadInv
  <2>3. data \in Manifest["kyuubiCm"]
    BY <2>1, <2>2, DesiredIsManifest, KindFacts DEF Desired
  <2> QED BY <1>1, <2>1, <2>2, <2>3, ConfigMapStep
<1>7. CASE createOrUpdateClusterRefsConfigmap
  <2>1. pc = "refsCm" /\ kyuubi.spec \in Specs
    BY <1>7, PassFacts DEF createOrUpdateClusterRefsConfigmap, WorkloadInv
  <2>2. ASSUME NEW data \in desiredClusterRefsConfigMap(kyuubi.spec),
               CreateOrUpdateConfigMap("refsCm", data, "refsCmWait", "sts")
        PROVE  WorkloadInv'
    <3>1. data \in Manifest["refsCm"]
      BY <2>1, <2>2, DesiredIsManifest, KindFacts DEF Desired
    <3> QED BY <1>1, <2>1, <2>2, <3>1, ConfigMapStep
  <2>3. CASE UNCHANGED storeVars /\ ReturnError
    BY <2>3, ErrorStep
  <2> QED BY <1>7, <2>2, <2>3 DEF createOrUpdateClusterRefsConfigmap
<1>8. CASE waitForKyuubiConfigmap \/ waitForClusterRefsConfigmap
  <2>1. pc \in BeforeWorkload /\ UNCHANGED storeVars
        /\ (Proceed("refsCm") \/ Proceed("sts"))
    BY <1>1, <1>8 DEF waitForKyuubiConfigmap, waitForClusterRefsConfigmap,
       WaitForConfigMap
  <2>2. StoreInv' /\ api' = api /\ lag' = lag
    BY <2>1, UnchangedStore DEF WorkloadInv, TypeOK, StoreInv
  <2> QED BY <1>1, <2>1, <2>2, ProceedStep
<1>9. CASE createOrUpdateKyuubi
  BY <1>9, WorkloadStep
<1>10. CASE createOrUpdateService
  BY <1>10, ServiceStep
<1>11. CASE updateKyuubiClusterStatus
  BY <1>11, StatusStep
<1> QED BY <1>2, <1>3, <1>4, <1>5, <1>6, <1>7, <1>8, <1>9, <1>10, <1>11
        DEF Operator

\* The initial state satisfies WorkloadInv.
LEMMA InitInv == Init => WorkloadInv
<1> SUFFICES ASSUME Init PROVE WorkloadInv
  OBVIOUS
<1>1. \A k \in AllKinds : Nil \in Copies(k) /\ <<>> \in Seq(Copies(k))
  BY CopyFacts, EmptySeq
<1>2. \A k \in AllKinds : api[k] = Nil /\ cache[k] = Nil /\ lag[k] = <<>>
  BY DEF Init
<1>3. StoreTypeOK
  BY <1>1, <1>2 DEF Init, StoreTypeOK
<1>4. InformersCatchUp
  BY <1>2 DEF InformersCatchUp
<1>5. ReconcilerTypeOK
  <2>1. used \in [Bounds -> Nat] /\ used["creates"] = 0
    BY DEF Init, Bounds
  <2>2. 0 <= MaxCreates
    BY BoundsAssumption
  <2> QED BY <1>1, <2>1, <2>2, KindFacts DEF Init, ReconcilerTypeOK, PCs
<1>6. FreshIsCurrent /\ WorkInHand
  BY <1>2, KindFacts DEF Init, FreshIsCurrent, WorkInHand
<1> QED BY <1>3, <1>4, <1>5, <1>6 DEF WorkloadInv, TypeOK

\* Every step preserves it.
LEMMA NextInv == WorkloadInv /\ [Next]_vars => WorkloadInv'
<1> SUFFICES ASSUME WorkloadInv, [Next]_vars PROVE WorkloadInv'
  OBVIOUS
<1>1. CASE User
  BY <1>1, UserStep
<1>2. CASE Operator
  BY <1>2, OperatorStep
<1>3. CASE Kubernetes
  BY <1>3, CollectStep, DeliverStep, TimerStep DEF Kubernetes
<1>4. CASE CallFails \/ Restart
  BY <1>4, FaultStep
<1>5. CASE UNCHANGED vars
  <2>1. StoreInv' /\ api' = api /\ lag' = lag
    BY <1>5, UnchangedStore DEF vars, WorkloadInv, TypeOK, StoreInv
  <2>2. ReconcilerTypeOK' /\ FreshIsCurrent' /\ WorkInHand'
    BY <1>5, <2>1 DEF vars, queueVars, localVars, history, WorkloadInv, TypeOK,
       ReconcilerTypeOK, FreshIsCurrent, WorkInHand, InSync
  <2> QED BY <2>1, <2>2 DEF WorkloadInv, TypeOK, StoreInv
<1> QED BY <1>1, <1>2, <1>3, <1>4, <1>5 DEF Next

-----------------------------------------------------------------------------
\* WorkloadInv holds in every reachable state.
THEOREM WorkloadInvariance == Spec => []WorkloadInv
  BY InitInv, NextInv, PTL DEF Spec

\* Every object, every informer's copy, every event and the locals of a pass
\* keep their types: what the operator stores is always a manifest it builds
\* for some spec.
THEOREM TypeCorrectness == Spec => []TypeOK
<1>1. WorkloadInv => TypeOK
  BY DEF WorkloadInv
<1> QED BY <1>1, WorkloadInvariance, PTL

\* When the operator has nothing left to do for a KyuubiCluster, the
\* StatefulSet is the one its spec asks for and belongs to it, whatever stale
\* reads, conflicts, failures, restarts, deletions and recreations there were.
THEOREM WorkloadIsSynced == Spec => []WorkloadSynced
<1>1. WorkloadInv => WorkloadSynced
  BY DEF WorkloadInv, WorkInHand, WorkloadSynced, Settled, BeforeWorkload
<1> QED BY <1>1, WorkloadInvariance, PTL

-----------------------------------------------------------------------------
(***************************************************************************)
(* What becomes of the status.                                             *)
(***************************************************************************)
\* The pass's calls before the last one do not write the KyuubiCluster.
LEMMA PassKeepsCluster ==
    ASSUME WorkloadInv, Operator, ~updateKyuubiClusterStatus
    PROVE  api'["cr"] = api["cr"]
<1>1. "cr" \notin Kinds /\ "cr" \in AllKinds /\ StoreInv
      /\ api = [k \in AllKinds |-> api[k]]
      /\ Access \subseteq AllKinds
      /\ {"kyuubiCm", "refsCm", "sts", "svc"} \subseteq AllKinds
  BY KindFacts DEF WorkloadInv, TypeOK, StoreInv, StoreTypeOK
<1>2. ASSUME NEW k \in AllKinds \ {"cr"}, NEW v, Write(k, v)
      PROVE  api'["cr"] = api["cr"]
  BY <1>1, <1>2 DEF Write
<1>3. ASSUME UNCHANGED storeVars PROVE api'["cr"] = api["cr"]
  BY <1>3 DEF storeVars
<1>4. ASSUME NEW k \in {"sa", "role", "rb"}, NEW next, CreateIfMissing(k, next)
      PROVE  api'["cr"] = api["cr"]
  BY <1>1, <1>2, <1>3, <1>4 DEF CreateIfMissing, Create, AlreadyExists
<1>5. ASSUME NEW k \in {"kyuubiCm", "refsCm"}, NEW data, NEW wait, NEW next,
             CreateOrUpdateConfigMap(k, data, wait, next)
      PROVE  api'["cr"] = api["cr"]
  BY <1>1, <1>2, <1>3, <1>5
     DEF CreateOrUpdateConfigMap, UpdateConfigMap, Create, AlreadyExists
<1>6. CASE createOrUpdateKyuubi
  BY <1>1, <1>2, <1>3, <1>6 DEF createOrUpdateKyuubi, Create, UpdateWorkload
<1>7. CASE createOrUpdateService
  <2>1. ASSUME UNCHANGED <<storeVars, queueVars, kyuubi, fresh, history>>
        PROVE  api'["cr"] = api["cr"]
    BY <2>1, <1>3
  <2> QED BY <1>1, <1>2, <1>3, <1>7, <2>1
          DEF createOrUpdateService, Create, AlreadyExists
<1>8. CASE Reconcile
  BY <1>3, <1>8 DEF Reconcile
<1>9. CASE waitForKyuubiConfigmap \/ waitForClusterRefsConfigmap
  BY <1>3, <1>9 DEF waitForKyuubiConfigmap, waitForClusterRefsConfigmap,
     WaitForConfigMap
<1>10. CASE createOrUpdateKyuubiConfigmap \/ createOrUpdateClusterRefsConfigmap
  BY <1>3, <1>5, <1>10
     DEF createOrUpdateKyuubiConfigmap, createOrUpdateClusterRefsConfigmap
<1>11. CASE \/ createOrUpdateServiceAccount \/ createOrUpdateRole
            \/ createOrUpdateRoleBinding
  BY <1>4, <1>11 DEF createOrUpdateServiceAccount, createOrUpdateRole,
     createOrUpdateRoleBinding
<1> QED BY <1>6, <1>7, <1>8, <1>9, <1>10, <1>11 DEF Operator

\* The status of a KyuubiCluster changes only by updateKyuubiClusterStatus, and
\* then the pass holds that very KyuubiCluster.
LEMMA StatusWrites ==
    ASSUME WorkloadInv, [Next]_vars, api["cr"] # Nil, api'["cr"] # Nil
    PROVE  \/ api'["cr"].status = api["cr"].status
           \/ /\ kyuubi # Nil /\ kyuubi = api["cr"]
              /\ \E now \in Time :
                    api'["cr"].status = [exposedInfos |-> ExposedInfos(existing),
                                         creationTime |-> CreationTime(now)]
              /\ existing \in {<<>>, contructDesiredService}
<1>1. "cr" \in AllKinds /\ "cr" \notin Kinds /\ Kinds \subseteq AllKinds
      /\ api = [k \in AllKinds |-> api[k]] /\ api["cr"] \in Cluster
  BY KindFacts, CopyFacts DEF WorkloadInv, TypeOK, StoreTypeOK
<1>2. ASSUME api'["cr"] = api["cr"] PROVE api'["cr"].status = api["cr"].status
  BY <1>2
<1>3. ASSUME NEW spec \in Specs, UserCreates(spec) PROVE FALSE
  BY <1>3 DEF UserCreates
<1>4. ASSUME NEW spec \in Specs, UserEdits(spec)
      PROVE  api'["cr"].status = api["cr"].status
  BY <1>1, <1>4 DEF UserEdits, WriteCluster, Write, Cluster
<1>5. ASSUME UserDeletes PROVE FALSE
  BY <1>1, <1>5 DEF UserDeletes, WriteCluster, Write
<1>6. CASE updateKyuubiClusterStatus
  <2>1. ASSUME UNCHANGED <<storeVars, queueVars, history>>
        PROVE  api'["cr"] = api["cr"]
    BY <2>1 DEF storeVars
  <2>2. ASSUME UNCHANGED storeVars PROVE api'["cr"] = api["cr"]
    BY <2>2 DEF storeVars
  <2>3. ASSUME NEW st, Write("cr", [api["cr"] EXCEPT !.status = st])
        PROVE  api'["cr"].status = st
    BY <1>1, <2>3 DEF Write, Cluster
  <2>4. existing \in {<<>>, contructDesiredService}
        /\ (fresh => kyuubi # Nil /\ kyuubi = api["cr"])
    BY DEF WorkloadInv, TypeOK, ReconcilerTypeOK, FreshIsCurrent
  <2> QED BY <1>2, <1>6, <2>1, <2>2, <2>3, <2>4 DEF updateKyuubiClusterStatus
<1>7. CASE Operator /\ ~updateKyuubiClusterStatus
  BY <1>2, <1>7, PassKeepsCluster
<1>8. CASE Kubernetes \/ CallFails \/ Restart \/ UNCHANGED vars
  <2>1. ASSUME NEW k \in Kinds, GarbageCollect(k) PROVE api'["cr"] = api["cr"]
    BY <1>1, <2>1 DEF GarbageCollect, Write
  <2>2. ASSUME NEW k \in AllKinds, DeliverEvent(k) PROVE api'["cr"] = api["cr"]
    BY <2>2 DEF DeliverEvent
  <2>3. CASE Resync \/ RetryExpires \/ CallFails \/ Restart \/ UNCHANGED vars
    BY <2>3 DEF Resync, RetryExpires, CallFails, Restart, vars, storeVars
  <2> QED BY <1>2, <1>8, <2>1, <2>2, <2>3 DEF Kubernetes
<1> QED BY <1>3, <1>4, <1>5, <1>6, <1>7, <1>8 DEF Next, User

\* The creationTime of a KyuubiCluster is set once, and exposedInfos are never
\* lost again, although passes decide from a copy that may be outdated.
THEOREM CreationTimeIsStable == Spec => CreationTimeStable
<1> DEFINE P == /\ api["cr"] # Nil /\ api'["cr"] # Nil
                /\ api'["cr"].uid = api["cr"].uid
                /\ api["cr"].status.exposedInfos # Nil
                => /\ api'["cr"].status.exposedInfos # Nil
                   /\ api'["cr"].status.creationTime =
                        api["cr"].status.creationTime
<1>1. WorkloadInv /\ [Next]_vars => [P]_vars
  <2> SUFFICES ASSUME WorkloadInv, [Next]_vars,
                      api["cr"] # Nil, api'["cr"] # Nil,
                      api["cr"].status.exposedInfos # Nil
               PROVE  /\ api'["cr"].status.exposedInfos # Nil
                      /\ api'["cr"].status.creationTime =
                           api["cr"].status.creationTime
    OBVIOUS
  <2>1. CASE api'["cr"].status = api["cr"].status
    BY <2>1
  <2>2. ASSUME kyuubi = api["cr"], existing \in {<<>>, contructDesiredService},
               NEW now \in Time,
               api'["cr"].status = [exposedInfos |-> ExposedInfos(existing),
                                    creationTime |-> CreationTime(now)]
        PROVE  /\ api'["cr"].status.exposedInfos # Nil
               /\ api'["cr"].status.creationTime = api["cr"].status.creationTime
    BY <2>2, NilAssumption DEF CreationTime
  <2> QED BY <2>1, <2>2, StatusWrites
<1> QED BY <1>1, WorkloadInvariance, PTL DEF Spec, CreationTimeStable

\* A status is stored only by a pass that worked on the present spec.
THEOREM StatusIsFromCurrentSpec == Spec => StatusFromCurrentSpec
<1> DEFINE P == /\ api["cr"] # Nil /\ api'["cr"] # Nil
                /\ api'["cr"].uid = api["cr"].uid
                /\ api'["cr"].status # api["cr"].status
                => /\ kyuubi # Nil
                   /\ kyuubi.uid = api["cr"].uid
                   /\ kyuubi.spec = api["cr"].spec
<1>1. WorkloadInv /\ [Next]_vars => [P]_vars
  BY StatusWrites
<1> QED BY <1>1, WorkloadInvariance, PTL DEF Spec, StatusFromCurrentSpec
=============================================================================
