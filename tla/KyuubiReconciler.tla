-------------------------- MODULE KyuubiReconciler --------------------------
(***************************************************************************)
(* The reconcile loop of internal/controller/kyuubicluster_controller.go   *)
(* for one KyuubiCluster name, with what runs beside it: the user who      *)
(* creates, edits and deletes the KyuubiCluster, the API server, the       *)
(* informer caches that the manager's client reads, the work queue and the *)
(* garbage collector.                                                      *)
(*                                                                         *)
(* Every r.Get is a read of an informer cache; every r.Create, r.Update    *)
(* and r.Status().Update goes to the API server.  A createOrUpdate         *)
(* function reads one cached object and then writes that same object: it   *)
(* is one action, because a read of a cache commutes with everything but   *)
(* the delivery of an event to that cache, which may as well come later.   *)
(* The polling loops that follow the creation of a ConfigMap are actions   *)
(* of their own.                                                           *)
(*                                                                         *)
(* Resource versions are abstracted to the question that is asked of them: *)
(* a cached copy is the latest version of its object exactly when no watch *)
(* event for the object is outstanding, and fresh says whether kyuubi, the *)
(* copy that Reconcile holds, still has the API server's version.          *)
(*                                                                         *)
(* A definition whose comment starts with "Seeded fault" is a plausible    *)
(* mistake in the one that follows it; the properties are shown to notice. *)
(***************************************************************************)
EXTENDS Manifests

CONSTANTS
    Specs,          \* the specs a KyuubiCluster may have
    Access,         \* the access objects an instance follows; all, in the code
    Time,           \* the instants metav1.Now() may return
    MaxCreates,     \* bound: how often the user creates the KyuubiCluster
    MaxEdits,       \* bound: how often the user changes its spec
    MaxDeletes,     \* bound: how often the user deletes it
    MaxFaults,      \* bound: failed API calls and restarts of the operator
    MaxLag,         \* bound: events outstanding before a garbage collection
    Resyncs         \* whether the informers' periodic resync happens

ASSUME SpecsAssumption == Specs # {} /\ Nil \notin Specs
\* The CRD admits no other type of a cluster reference.
ASSUME RefTypesAssumption ==
    \A spec \in Specs : \A i \in DOMAIN spec.clusterRefs :
        spec.clusterRefs[i].type \in ClusterTypes
ASSUME AccessAssumption == Access \subseteq {"sa", "role", "rb"}
ASSUME TimeAssumption == Time # {} /\ Nil \notin Time
ASSUME BoundsAssumption ==
    /\ {MaxCreates, MaxEdits, MaxDeletes, MaxFaults, MaxLag} \subseteq Nat
    /\ Resyncs \in BOOLEAN

\* The objects the operator manages, and the KyuubiCluster itself.
Kinds    == Access \cup {"kyuubiCm", "refsCm", "sts", "svc"}
AllKinds == Kinds \cup {"cr"}

VARIABLES
    api,        \* the API server's copy of each object, or Nil
    cache,      \* the informers' copy of each object, or Nil
    lag,        \* the watch events that each informer has yet to see
    queued,     \* whether the work queue holds the request
    retry,      \* whether a rate limited retry of the request is pending
    pc,         \* the next createOrUpdate call of Reconcile, or "idle"
    kyuubi,     \* Reconcile's copy of the KyuubiCluster
    fresh,      \* whether that copy still has the latest resourceVersion
    existing,   \* the ports of the service createOrUpdateService returned
    used,       \* how much of each bound has been used
    past        \* the earlier specs of the KyuubiCluster (read by properties)

storeVars == <<api, cache, lag>>
queueVars == <<queued, retry>>
localVars == <<pc, kyuubi, fresh, existing>>
history == <<used, past>>
vars == <<storeVars, queueVars, localVars, history>>

(***************************************************************************)
(* What the operator may store for a spec: the set of manifests that a     *)
(* call of the construct function may yield.                               *)
(***************************************************************************)
Desired(k, spec) ==
    [sa       |-> {"sa"},
     role     |-> {"role"},
     rb       |-> {"rb"},
     kyuubiCm |-> constructKyuubiConfigMap(spec),
     refsCm   |-> desiredClusterRefsConfigMap(spec),
     sts      |-> {ServerDefaults(constructDesiredKyuubiWorkload(spec))},
     svc      |-> {contructDesiredService}][k]

NoStatus == [exposedInfos |-> Nil, creationTime |-> Nil]

Status ==
    {NoStatus} \cup
    [exposedInfos : {ExposedInfos(<<>>), ExposedInfos(contructDesiredService)},
     creationTime : Time]

\* The server counts the changes of the spec in metadata.generation.
Cluster == [uid : 1..MaxCreates, generation : Nat, spec : Specs,
            status : Status]

\* The same as a table, and all that an object of kind k may hold.
Wanted   == [k \in Kinds |-> [spec \in Specs |-> Desired(k, spec)]]
Manifest == [k \in Kinds |-> UNION {Wanted[k][spec] : spec \in Specs}]

Object(k) == [owner : 1..MaxCreates, data : Manifest[k]]

Stored(k) == IF k = "cr" THEN Cluster ELSE Object(k)
Copies(k) == {Nil} \cup Stored(k)

\* A Go nil is neither an object nor a slice, not even an empty one.
ASSUME NilAssumption ==
    /\ \A k \in AllKinds : Nil \notin Stored(k)
    /\ \A ports \in {<<>>, contructDesiredService} : Nil # ExposedInfos(ports)

PCs == {"idle", "sa", "role", "rb", "kyuubiCm", "kyuubiCmWait",
        "refsCm", "refsCmWait", "sts", "svc", "status"}

Bounds == {"creates", "edits", "deletes", "faults"}

\* The objects, the informers' copies of them and the events have their types.
StoreTypeOK ==
    /\ api = [k \in AllKinds |-> api[k]]
    /\ cache = [k \in AllKinds |-> cache[k]]
    /\ lag = [k \in AllKinds |-> lag[k]]
    /\ \A k \in AllKinds : /\ api[k] \in Copies(k)
                           /\ cache[k] \in Copies(k)
                           /\ lag[k] \in Seq(Copies(k))

ReconcilerTypeOK ==
    /\ queued \in BOOLEAN /\ retry \in BOOLEAN
    /\ pc \in PCs
    /\ kyuubi \in Copies("cr") /\ (pc # "idle" => kyuubi # Nil)
    /\ fresh \in BOOLEAN
    /\ existing \in {<<>>, contructDesiredService}
    /\ used \in [Bounds -> Nat] /\ used["creates"] <= MaxCreates
    /\ past \subseteq Specs

\* Type correctness: every object holds, at any moment, a manifest that the
\* operator builds for some spec, and a pass always has a KyuubiCluster.
TypeOK == StoreTypeOK /\ ReconcilerTypeOK

Init ==
    /\ api = [k \in AllKinds |-> Nil]
    /\ cache = [k \in AllKinds |-> Nil]
    /\ lag = [k \in AllKinds |-> <<>>]
    /\ queued = FALSE
    /\ retry = FALSE
    /\ pc = "idle"
    /\ kyuubi = Nil
    /\ fresh = FALSE
    /\ existing = <<>>
    /\ used = [b \in Bounds |-> 0]
    /\ past = {}

-----------------------------------------------------------------------------
(***************************************************************************)
(* Steps shared by the actions.                                            *)
(***************************************************************************)
\* The API server stores v for object k and sends the watch event.
Write(k, v) ==
    /\ api' = [api EXCEPT ![k] = v]
    /\ lag' = [lag EXCEPT ![k] = Append(@, v)]
    /\ UNCHANGED cache

Use(b, max) ==
    /\ used[b] < max
    /\ used' = [used EXCEPT ![b] = @ + 1]

\* A KyuubiCluster manifest is stored; Reconcile's copy is now outdated.
WriteCluster(v) == Write("cr", v) /\ fresh' = FALSE

\* The call returned nil and createOrUpdateClusters makes the next one.
Proceed(next) ==
    /\ pc' = next
    /\ UNCHANGED <<queueVars, kyuubi, fresh, existing, history>>

\* Reconcile returns; the locals are gone.
Leave ==
    /\ pc' = "idle"
    /\ kyuubi' = Nil
    /\ fresh' = FALSE
    /\ existing' = <<>>

\* Seeded fault: the error is logged and nil is returned.
ReturnErrorAsNil ==
    /\ Leave
    /\ UNCHANGED <<queueVars, history>>

\* Every error is handed up to controller-runtime, which retries later.
ReturnError ==
    /\ Leave
    /\ retry' = TRUE
    /\ UNCHANGED <<queued, history>>

\* Seeded fault: no controller reference is set.
CreateWithoutOwner(k, data) ==
    /\ api[k] = Nil
    /\ Write(k, [owner |-> Nil, data |-> data])

\* r.Create with the controller reference that the constructor has set.
Create(k, data) ==
    /\ api[k] = Nil
    /\ Write(k, [owner |-> kyuubi.uid, data |-> data])

\* r.Create fails with AlreadyExists: the cache had not seen the object.
AlreadyExists(k) ==
    /\ api[k] # Nil
    /\ ReturnError
    /\ UNCHANGED storeVars

-----------------------------------------------------------------------------
(***************************************************************************)
(* The user and the admission webhooks, which accept everything.           *)
(***************************************************************************)
Default(spec) == spec
ValidateCreate(spec) == TRUE
ValidateUpdate(spec) == TRUE

UserCreates(spec) ==
    /\ api["cr"] = Nil
    /\ ValidateCreate(Default(spec))
    /\ Use("creates", MaxCreates)
    /\ WriteCluster([uid |-> used["creates"] + 1, generation |-> 1,
                     spec |-> Default(spec), status |-> NoStatus])
    /\ past' = {}
    /\ UNCHANGED <<queueVars, pc, kyuubi, existing>>

UserEdits(spec) ==
    /\ api["cr"] # Nil
    /\ api["cr"].spec # spec
    /\ ValidateUpdate(Default(spec))
    /\ Use("edits", MaxEdits)
    /\ WriteCluster([api["cr"] EXCEPT !.spec = Default(spec),
                                       !.generation = @ + 1])
    /\ past' = past \cup {api["cr"].spec}
    /\ UNCHANGED <<queueVars, pc, kyuubi, existing>>

UserDeletes ==
    /\ api["cr"] # Nil
    /\ Use("deletes", MaxDeletes)
    /\ WriteCluster(Nil)
    /\ UNCHANGED <<queueVars, pc, kyuubi, existing, past>>

-----------------------------------------------------------------------------
(***************************************************************************)
(* Kubernetes (external): the garbage collector, which deletes an object   *)
(* whose owner is gone; the informers, which apply watch events in order   *)
(* and hand those of the KyuubiCluster to the work queue (For is the only  *)
(* watch that SetupWithManager registers); the periodic resync and the     *)
(* rate limited retry, which put the request back into the queue.          *)
(***************************************************************************)
GarbageCollect(k) ==
    /\ api[k] # Nil
    /\ api[k].owner # Nil
    /\ api["cr"] # Nil => api["cr"].uid # api[k].owner
    /\ Len(lag[k]) < MaxLag
    /\ Write(k, Nil)
    /\ UNCHANGED <<queueVars, localVars, history>>

\* Only a read of its cache can tell when an object's event was applied, so it
\* is applied just before a read, or to make room for another event.
ReadsCache(k) ==
    \/ k = "cr"
    \/ pc = k
    \/ k = "kyuubiCm" /\ pc = "kyuubiCmWait"
    \/ k = "refsCm" /\ pc = "refsCmWait"

\* Seeded fault: events that do not change the spec are filtered out.
DeliverEventIfSpecChanges(k) ==
    /\ lag[k] # <<>>
    /\ ReadsCache(k) \/ Len(lag[k]) >= MaxLag
    /\ cache' = [cache EXCEPT ![k] = Head(lag[k])]
    /\ lag' = [lag EXCEPT ![k] = Tail(@)]
    /\ queued' = (queued \/ (k = "cr" /\ (Nil \in {cache[k], Head(lag[k])}
                                 \/ cache[k].spec # Head(lag[k]).spec)))
    /\ UNCHANGED <<api, retry, localVars, history>>

DeliverEvent(k) ==
    /\ lag[k] # <<>>
    /\ ReadsCache(k) \/ Len(lag[k]) >= MaxLag
    /\ cache' = [cache EXCEPT ![k] = Head(lag[k])]
    /\ lag' = [lag EXCEPT ![k] = Tail(@)]
    /\ queued' = (queued \/ k = "cr")
    /\ UNCHANGED <<api, retry, localVars, history>>

Resync ==
    /\ Resyncs
    /\ cache["cr"] # Nil
    /\ queued' = TRUE
    /\ UNCHANGED <<storeVars, retry, localVars, history>>

RetryExpires ==
    /\ retry
    /\ retry' = FALSE
    /\ queued' = TRUE
    /\ UNCHANGED <<storeVars, localVars, history>>

-----------------------------------------------------------------------------
(***************************************************************************)
(* Reconcile.                                                              *)
(***************************************************************************)
\* The KyuubiCluster is fetched; NotFound is returned as an error.  The
\* request's name is always the name of the object that was fetched.
Reconcile ==
    /\ pc = "idle"
    /\ queued
    /\ queued' = FALSE
    /\ \/ /\ cache["cr"] = Nil
          /\ retry' = TRUE
          /\ UNCHANGED localVars
       \/ /\ cache["cr"] # Nil
          /\ pc' = "sa"
          /\ kyuubi' = cache["cr"]
          /\ fresh' = (lag["cr"] = <<>>)
          /\ UNCHANGED <<retry, existing>>
    /\ UNCHANGED <<storeVars, history>>

\* Objects that are created when the cache has none and never updated.  One
\* that an instance does not follow is always found.
CreateIfMissing(k, next) ==
    /\ pc = k
    /\ \/ /\ k \in Access => cache[k] # Nil
          /\ UNCHANGED storeVars
          /\ Proceed(next)
       \/ /\ k \in Access
          /\ cache[k] = Nil
          /\ \/ Create(k, k) /\ Proceed(next)
             \/ AlreadyExists(k)

createOrUpdateServiceAccount == CreateIfMissing("sa", "role")
createOrUpdateRole           == CreateIfMissing("role", "rb")
createOrUpdateRoleBinding    == CreateIfMissing("rb", "kyuubiCm")

\* A ConfigMap that has the desired data is left alone; one that differs is
\* written back, over the cached copy, so a stale copy is a conflict.
UpdateConfigMap(k, data, next) ==
    \/ /\ compareConf(data, cache[k].data)
       /\ UNCHANGED storeVars
       /\ Proceed(next)
    \/ /\ ~compareConf(data, cache[k].data)
       /\ lag[k] = <<>>
       /\ Write(k, [cache[k] EXCEPT !.data = data])
       /\ Proceed(next)
    \/ /\ ~compareConf(data, cache[k].data)
       /\ lag[k] # <<>>
       /\ UNCHANGED storeVars
       /\ ReturnError

CreateOrUpdateConfigMap(k, data, wait, next) ==
    \/ cache[k] = Nil /\ Create(k, data) /\ Proceed(wait)
    \/ cache[k] = Nil /\ AlreadyExists(k)
    \/ cache[k] # Nil /\ UpdateConfigMap(k, data, next)

createOrUpdateKyuubiConfigmap ==
    /\ pc = "kyuubiCm"
    /\ \E data \in constructKyuubiConfigMap(kyuubi.spec) :
          CreateOrUpdateConfigMap("kyuubiCm", data, "kyuubiCmWait", "refsCm")

createOrUpdateClusterRefsConfigmap ==
    /\ pc = "refsCm"
    /\ \/ \E data \in desiredClusterRefsConfigMap(kyuubi.spec) :
             CreateOrUpdateConfigMap("refsCm", data, "refsCmWait", "sts")
       \/ /\ desiredClusterRefsConfigMap(kyuubi.spec) = {}
          /\ UNCHANGED storeVars
          /\ ReturnError

\* The loop after a creation: it ends when a poll finds the ConfigMap in the
\* cache, and nothing else ends it.
WaitForConfigMap(k, wait, next) ==
    /\ pc = wait
    /\ cache[k] # Nil
    /\ UNCHANGED storeVars
    /\ Proceed(next)

waitForKyuubiConfigmap ==
    WaitForConfigMap("kyuubiCm", "kyuubiCmWait", "refsCm")
waitForClusterRefsConfigmap ==
    WaitForConfigMap("refsCm", "refsCmWait", "sts")

\* Seeded fault: defaults are taken into account, so no update when the spec
\* is that of the cached copy.
UpdateWorkloadIfChanged(desired) ==
    LET v == [owner |-> kyuubi.uid, data |-> ServerDefaults(desired)]
    IN  IF cache["sts"].data = v.data \/ api["sts"] = v
        THEN UNCHANGED storeVars
        ELSE Write("sts", v)

\* Seeded fault: a StatefulSet that differs is deleted, for a later pass to
\* create it anew.
UpdateWorkloadByDeletion(desired) ==
    IF cache["sts"].data = desired \/ api["sts"] = Nil
    THEN UNCHANGED storeVars
    ELSE Write("sts", Nil)

\* The desired StatefulSet carries no resourceVersion, so the update is
\* unconditional.  The server stores it with its defaults and sends no event
\* when that changes nothing.
UpdateWorkload(desired) ==
    LET v == [owner |-> kyuubi.uid, data |-> ServerDefaults(desired)]
    IN  IF cache["sts"].data = desired \/ api["sts"] = v
        THEN UNCHANGED storeVars
        ELSE Write("sts", v)

createOrUpdateKyuubi ==
    LET desired  == constructDesiredKyuubiWorkload(kyuubi.spec)
        found    == cache["sts"] # Nil
        differs  == cache["sts"].data # desired
        accepted == ValidStatefulSet(desired) /\ (found <=> api["sts"] # Nil)
    IN  /\ pc = "sts"
        /\ \/ /\ ~found
              /\ accepted
              /\ Create("sts", ServerDefaults(desired))
              /\ Proceed("svc")
           \/ /\ found
              /\ differs => accepted
              /\ UpdateWorkload(desired)
              /\ Proceed("svc")
           \/ /\ found => differs
              /\ ~accepted
              /\ UNCHANGED storeVars
              /\ ReturnError

\* A service that was just created is returned as the empty object that the
\* failed Get left behind.
createOrUpdateService ==
    /\ pc = "svc"
    /\ \/ /\ cache["svc"] # Nil
          /\ existing' = cache["svc"].data
          /\ pc' = "status"
          /\ UNCHANGED <<storeVars, queueVars, kyuubi, fresh, history>>
       \/ /\ cache["svc"] = Nil
          /\ Create("svc", contructDesiredService)
          /\ Proceed("status")
       \/ cache["svc"] = Nil /\ AlreadyExists("svc")

\* Seeded fault: exposedInfos are compared with nil only.
StatusDiffersIfNil == kyuubi.status.exposedInfos = Nil

\* Seeded fault: the status, with a new updateTime, is written on every pass.
StatusDiffersAlways == TRUE

StatusDiffers ==
    \/ kyuubi.status.exposedInfos = Nil
    \/ kyuubi.status.exposedInfos # ExposedInfos(existing)

\* Seeded fault: every write of the status sets creationTime.
CreationTimeNow(now) == now

\* Seeded fault: creationTime is always carried over, also from no status.
CreationTimeKept(now) == kyuubi.status.creationTime

CreationTime(now) ==
    IF kyuubi.status.exposedInfos = Nil THEN now ELSE kyuubi.status.creationTime

\* Seeded fault: the status is patched without a resourceVersion.
patchKyuubiClusterStatus ==
    /\ pc = "status"
    /\ IF StatusDiffers /\ api["cr"] # Nil
       THEN \E now \in Time :
              Write("cr", [api["cr"] EXCEPT !.status =
                             [exposedInfos |-> ExposedInfos(existing),
                              creationTime |-> CreationTime(now)]])
       ELSE UNCHANGED storeVars
    /\ Leave
    /\ UNCHANGED <<queueVars, history>>

updateKyuubiClusterStatus ==
    /\ pc = "status"
    /\ \/ /\ ~StatusDiffers
          /\ Leave
          /\ UNCHANGED <<storeVars, queueVars, history>>
       \/ /\ StatusDiffers
          /\ fresh
          /\ \E now \in Time :
                Write("cr", [api["cr"] EXCEPT !.status =
                               [exposedInfos |-> ExposedInfos(existing),
                                creationTime |-> CreationTime(now)]])
          /\ Leave
          /\ UNCHANGED <<queueVars, history>>
       \/ /\ StatusDiffers
          /\ ~fresh
          /\ UNCHANGED storeVars
          /\ ReturnError

-----------------------------------------------------------------------------
(***************************************************************************)
(* Failures.                                                               *)
(***************************************************************************)
\* An API call fails: the server has not performed it, or it has, in the step
\* before, and its answer is lost.  The answer of the last call, the write of the
\* status, is not lost here: its event queues the next pass, as the retry would.
CallFails ==
    /\ pc # "idle"
    /\ Use("faults", MaxFaults)
    /\ Leave
    /\ retry' = TRUE
    /\ UNCHANGED <<storeVars, queued, past>>

\* The operator's process ends and a new one starts: the informers list
\* afresh and the list of KyuubiClusters is the first content of the queue.
Restart ==
    /\ Use("faults", MaxFaults)
    /\ cache' = api
    /\ lag' = [k \in AllKinds |-> <<>>]
    /\ queued' = (api["cr"] # Nil)
    /\ retry' = FALSE
    /\ Leave
    /\ UNCHANGED <<api, past>>

User ==
    \/ \E spec \in Specs : UserCreates(spec) \/ UserEdits(spec)
    \/ UserDeletes

Operator ==
    \/ Reconcile
    \/ createOrUpdateServiceAccount
    \/ createOrUpdateRole
    \/ createOrUpdateRoleBinding
    \/ createOrUpdateKyuubiConfigmap
    \/ waitForKyuubiConfigmap
    \/ createOrUpdateClusterRefsConfigmap
    \/ waitForClusterRefsConfigmap
    \/ createOrUpdateKyuubi
    \/ createOrUpdateService
    \/ updateKyuubiClusterStatus

Kubernetes ==
    \/ \E k \in Kinds : GarbageCollect(k)
    \/ \E k \in AllKinds : DeliverEvent(k)
    \/ Resync
    \/ RetryExpires

Next == User \/ Operator \/ Kubernetes \/ CallFails \/ Restart

Spec == Init /\ [][Next]_vars

(***************************************************************************)
(* The worker goroutine keeps running, watches deliver, retries are timed, *)
(* the collector and the resync timer run.  The user owes nothing.         *)
(***************************************************************************)
Fairness ==
    /\ WF_vars(Operator)
    /\ WF_vars(DeliverEvent("cr"))
    /\ \A k \in Kinds : SF_vars(DeliverEvent(k))
    /\ \A k \in Kinds : WF_vars(GarbageCollect(k))
    /\ WF_vars(RetryExpires)
    /\ WF_vars(Resync)

FairSpec == Spec /\ Fairness

-----------------------------------------------------------------------------
(***************************************************************************)
(* Properties.                                                             *)
(***************************************************************************)
\* Nothing is left to do: no pass is running, none is queued or due, and the
\* operator has seen the latest KyuubiCluster.
Settled == pc = "idle" /\ ~queued /\ ~retry /\ lag["cr"] = <<>>

\* Object k is what the KyuubiCluster now asks for, and belongs to it.
InSync(k) ==
    /\ api[k] # Nil
    /\ api[k].owner = api["cr"].uid
    /\ api[k].data \in Wanted[k][api["cr"].spec]

StatusInSync ==
    /\ api["svc"] # Nil
    /\ api["cr"].status.exposedInfos = ExposedInfos(api["svc"].data)

Synced ==
    /\ api["cr"] # Nil
    /\ StatusInSync
    /\ \A k \in Kinds : InSync(k)

\* An informer that has seen every event has the API server's copy; the last
\* outstanding event brings it (an informer applies all events, in order).
InformersCatchUp ==
    \A k \in AllKinds :
        IF lag[k] = <<>> THEN cache[k] = api[k] ELSE Last(lag[k]) = api[k]

\* fresh is what it says: the pass holds the KyuubiCluster as it is.
FreshIsCurrent == fresh => kyuubi # Nil /\ kyuubi = api["cr"]

BeforeWorkload == PCs \ {"idle", "svc", "status"}

\* With nothing queued, due or outstanding, a pass that has yet to write the
\* StatefulSet works on the present uid and spec, and without such a pass the
\* StatefulSet is as it should be (no pass is started twice, none is lost).
WorkInHand ==
    api["cr"] # Nil /\ ~queued /\ ~retry /\ lag["cr"] = <<>> =>
        IF pc \in BeforeWorkload
        THEN kyuubi.uid = api["cr"].uid /\ kyuubi.spec = api["cr"].spec
        ELSE InSync("sts")

\* The inductive invariant behind WorkloadSynced.
WorkloadInv ==
    /\ TypeOK
    /\ InformersCatchUp
    /\ FreshIsCurrent
    /\ WorkInHand

\* Once the operator has settled on a KyuubiCluster, its StatefulSet is the
\* one this spec asks for and is owned by this incarnation, whatever was
\* stale, failed, restarted, deleted or recreated on the way
\* (createOrUpdateKyuubi overwrites the StatefulSet on every pass).
WorkloadSynced == Settled /\ api["cr"] # Nil => InSync("sts")

\* Once the operator has settled, every object and the status are what the
\* spec asks for (createOrUpdateClusters runs to its end or is retried).
AllSynced == Settled /\ api["cr"] # Nil => Synced

\* The manifest of object k may be one that an earlier spec asked for too.
Reverted(k) ==
    \E spec \in past : Wanted[k][spec] \cap Wanted[k][api["cr"].spec] # {}

\* For the first KyuubiCluster of its name AllSynced has one exception: a
\* ConfigMap whose desired data are those of an earlier spec, which compareConf
\* may have found in a cached copy older than the ConfigMap.  Every other stale
\* read, failed call, conflict or restart leads to another pass.
SyncedUnlessReverted ==
    Settled /\ api["cr"] # Nil /\ api["cr"].uid = 1
        => /\ StatusInSync
           /\ \A k \in Kinds :
                 InSync(k) \/ (k \in {"kyuubiCm", "refsCm"} /\ Reverted(k))

\* The status of a KyuubiCluster, once it has exposedInfos, never loses them
\* again and keeps its creationTime for good (updateKyuubiClusterStatus),
\* also when passes run on a stale copy of the KyuubiCluster.
CreationTimeStable ==
    [][ /\ api["cr"] # Nil /\ api'["cr"] # Nil
        /\ api'["cr"].uid = api["cr"].uid
        /\ api["cr"].status.exposedInfos # Nil
        => /\ api'["cr"].status.exposedInfos # Nil
           /\ api'["cr"].status.creationTime = api["cr"].status.creationTime
      ]_vars

\* A status is only ever stored by a pass that worked on the spec the
\* KyuubiCluster has at that moment, and never by a pass for a deleted
\* KyuubiCluster of the same name (updateKyuubiClusterStatus sends the copy,
\* with its resourceVersion, that Reconcile fetched many calls earlier).
StatusFromCurrentSpec ==
    [][ /\ api["cr"] # Nil /\ api'["cr"] # Nil
        /\ api'["cr"].uid = api["cr"].uid
        /\ api'["cr"].status # api["cr"].status
        => /\ kyuubi # Nil
           /\ kyuubi.uid = api["cr"].uid
           /\ kyuubi.spec = api["cr"].spec
      ]_vars

\* The API server accepts everything the operator builds for this spec.
Realisable(spec) ==
    /\ desiredClusterRefsConfigMap(spec) # {}
    /\ ValidStatefulSet(constructDesiredKyuubiWorkload(spec))

Stays(spec) == <>[](api["cr"] # Nil /\ api["cr"].spec = spec)

\* A KyuubiCluster that stays as it is, with a spec that can be realised, is
\* in the end realised for good: every object and the status are what the
\* spec asks for (stale ConfigMap reads, and what other clients did to the
\* objects in the middle of a pass or later, are made good by the resync).
EventuallySynced ==
    \A spec \in Specs : Realisable(spec) /\ Stays(spec) => <>[]Synced

\* A KyuubiCluster that is deleted for good leaves nothing behind, also when
\* a pass for it was still creating objects.
Collected ==
    <>[](api["cr"] = Nil) => <>[](\A k \in Kinds : api[k] = Nil)

\* The StatefulSet of a KyuubiCluster, once it is what the spec asks for, stays
\* so until the user acts: no late pass with an older copy of the KyuubiCluster
\* rolls the workload back.  (A spec the user has returned to is excepted: the
\* pass for the spec in between may still be under way.)
NoRollback ==
    [][ /\ api["cr"] # Nil /\ InSync("sts") /\ ~Reverted("sts")
        /\ api'["cr"] # Nil
        /\ api'["cr"].uid = api["cr"].uid /\ api'["cr"].spec = api["cr"].spec
        => InSync("sts")'
      ]_vars

\* The services that the status of a settled KyuubiCluster lists exist.
AdvertisedServiceExists ==
    /\ Settled
    /\ api["cr"] # Nil
    /\ api["cr"].status.exposedInfos \notin {Nil, <<>>}
    => api["svc"] # Nil

\* As EventuallySynced, for every spec whose StatefulSet the API server takes:
\* an optional field may be left out.
OptionalFieldsAreOptional ==
    \A spec \in Specs :
        ValidStatefulSet(constructDesiredKyuubiWorkload(spec)) /\ Stays(spec)
            => <>[]Synced
=============================================================================
