# Verification of kyuubi-operator

TLA+ modules, TLC instances and TLAPS proofs for the Kubernetes operator that
keeps Apache Kyuubi clusters (`KyuubiCluster` custom resources) running. Paths
are those of the repository (`src/...` is its root). `PROJECT.json` lists
components, runs, mutants, hazards, theorems, and the source lines behind every
definition.

## 1. The system

### Parts, their state and operations

| Part | State | Operations |
|---|---|---|
| Reconciler, `internal/controller/kyuubicluster_controller.go` | none between passes; in a pass the fetched `KyuubiCluster` and the `Service` just found | `Reconcile`, `createOrUpdateClusters` and under it, in order: ServiceAccount, Role, RoleBinding, the Kyuubi ConfigMap, the cluster references' ConfigMap, the StatefulSet, the Service, the status |
| Manifests, `construct*` / `desired*` functions there, `utils.go`, `constants.go`, `common.go` | none | pure functions from the spec to objects; `compareConf`, `map2String`, `map2Xml` |
| API types, `api/v1alpha1/kyuubicluster_types.go` | the spec and the status | none |
| Admission webhooks, `api/v1alpha1/kyuubicluster_webhook.go` | none | `Default`, `ValidateCreate`, `ValidateUpdate`: accept everything unchanged |
| Manager, `cmd/main.go` | informer caches, work queue, optional lease | starts the controller with one worker, with `-leader-elect` once it holds the lease |
| API server, informers, garbage collector (outside the repository) | the stored objects, pending watch events | create, update with optimistic locking, watch, collection of orphans |
| Deep copies, `api/v1alpha1/zz_generated.deepcopy.go` | none | the copy of a cached object that a pass works on |
| Generated clientset, charts, kustomize files | none | none of their own |

### How they interact

The user writes a `KyuubiCluster` to the API server. The informer of that kind,
and only that one (`SetupWithManager`, line 793), puts the request into the work
queue. The worker calls `Reconcile`, which reads the `KyuubiCluster` **from a
cache** and makes the calls above one after the other. Every read is from a
cache, every write goes to the API server, every error ends the pass and is
retried with backoff. The status is sent with the copy that was read at the
start of the pass, so a conflict is possible there; the StatefulSet is sent
without a resourceVersion, so a conflict is not possible there. Objects carry a
controller reference to the `KyuubiCluster`'s uid, and the garbage collector
deletes them when this uid is gone.

### What is hard

* Stale reads: each of eight informers lags on its own, and what a pass decides
  depends on all of them.
* The operator does not watch what it creates; it gets another chance only by an
  error, by a change of the `KyuubiCluster` or by the resync (about ten hours).
* A pass is a dozen calls; the user edits, deletes or recreates in between.
* Recreation under the same name meets leftovers of the previous object.
* Failed calls, lost answers and restarts between any two writes.
* Two loops poll a cache with only one way out.
* The operator's own status writes and random map orders wake it up again.
* All KyuubiClusters share one worker, and deleted ones are retried for good.
* Two processes may be at work at once (leader election is off by default), and
  a new leader starts with caches that lag.
* A deletion timestamp is not looked at, and changes by other clients are not
  watched.
* A pass writes into an object that is a copy of a shared one.

### What makes each part correct

* Reconciler: when it has nothing left to do, what the spec asks for is what is
  stored; it reaches that state, and rests there; a late pass never undoes it;
  the status is that of the present spec and keeps its `creationTime`; nothing
  is left behind after a deletion.
* Manifests: volumes, mounts and ConfigMap files fit each other, the files on
  Spark's classpath do not contradict each other, `compareConf` is equality.
* Webhooks: nothing, they accept everything.
* Work queue and worker: no change of a name is forgotten, and every name is
  served whatever the others do.
* Manager: two of them, or one after the other, end with what the spec asks for.
* Deep copies: a copy shares nothing with the original and says the same.

The full list of hazards, each at its line and with the properties that cover
it, is in `PROJECT.json`.

## 2. Modules

| Module | What it is |
|---|---|
| `Manifests` | the pure functions, as operators |
| `KyuubiReconciler` (extends `Manifests`) | the state machine: user, reconciler, Kubernetes, failures; its properties |
| `Rollout` | abstract specification: what is promised for the workload |
| `KyuubiRollout` (extends `KyuubiReconciler`) | two history variables and the refinements of `Rollout` and `RequestBox` |
| `RequestBox` | abstract specification: requests, passes and retries of one name |
| `SharedWorker` | several names, client-go's queue, the one worker |
| `Managers` (extends `KyuubiReconciler`) | two operator processes, the second an instance of the same module; the lease |
| `Foreground` (extends `KyuubiReconciler`) | foreground deletion |
| `OtherClients` (extends `KyuubiReconciler`) | changes and deletions by other clients |
| `DeepCopies` | the generated deep copies over a heap of maps and slices |
| `MCManifests` | all lists of up to `MaxRefs` cluster references; the properties of the manifests |
| `MCReconciler` | the specs used in the instances of `KyuubiReconciler` |
| `MCRollout`, `MCManagers`, `MCForeground`, `MCOtherClients`, `MCSharedWorker`, `MCDeepCopies` | the instances of the modules of these names |
| `KyuubiReconcilerProofs` (extends `KyuubiReconciler`) | theorems: types, the workload, the status |
| `KyuubiVersionsProofs` (extends `KyuubiReconcilerProofs`) | theorems: the order of versions, no rollback |
| `FirstLifeProofs` (extends `KyuubiVersionsProofs`) | theorem: all objects and the status in the first life |
| `KyuubiRolloutProofs` (extends `KyuubiRollout`, `KyuubiVersionsProofs`) | theorems: the refinements of `RequestBox` and `Rollout` |
| `ManagersProofs` (extends `Managers`, `KyuubiReconcilerProofs`) | theorem: the workload with two operator processes |
| `SharedWorkerProofs` (extends `SharedWorker`) | theorems: the queue, several names |
| `DeepCopiesProofs` (extends `DeepCopies`) | theorems: a pass's copy shares nothing and says the same |
| `ManifestsProofs` (extends `MCManifests`) | theorems: the properties of the manifests, for lists of any length |

### Manifests

A configuration key is the tuple of its dotted parts, a value the sequence of
its comma separated parts, since `desiredClusterRefsConfigMap` takes both apart
or puts them together. A renderer ranges over a Go map, whose order is random,
so `map2String(kv)` and `map2Xml(kv)` are the **set** of texts a call may return,
and `constructKyuubiConfigMap` and `desiredClusterRefsConfigMap` the set of
possible ConfigMaps (the empty set is the error for missing `sparkDefaults`).
`constructDesiredKyuubiWorkload` keeps what varies with the spec: replicas,
image, mounts and volumes, plus a flag `defaulted`. The API server stores every
StatefulSet with defaults filled in, so a stored one never equals the desired
one and `createOrUpdateKyuubi` updates on every pass; an update that changes
nothing sends no event. `ValidStatefulSet` is the part of the server's
validation that the operator's manifests can violate. `Setting` and `++` stand for
assignments to a Go map; they are `:>` and `@@` of module `TLC`, spelled out
because the prover has no definition of those.

### KyuubiReconciler

One name of a `KyuubiCluster`, over its whole life and recreations.

| Variable | In the system |
|---|---|
| `api` | the API server's object of each kind, with owner uid and data |
| `cache`, `lag` | each informer's copy, and the watch events it has yet to see |
| `queued`, `retry` | the request in the work queue; a rate limited retry |
| `pc` | the next call of the pass |
| `kyuubi`, `existing` | the locals: the fetched object, the service's ports |
| `fresh` | whether `kyuubi` still has the stored resourceVersion |
| `used` | how much of each bound is used |
| `past` | earlier specs; only the properties read it |

There is one action for each `createOrUpdate` function, with all its branches:
found, created, `AlreadyExists`, updated, conflict, refused. Reading one cached
object and writing the same object is one step: the read commutes with
everything except a delivery to that one cache, and delaying that delivery
until after the write is a behaviour of the model as well. The two polling loops
are actions of their own (`waitFor...`), because what happens between the
creation and the poll matters.

`DeliverEvent(k)` may apply an event only when the reconciler is at the call
that reads this cache (or when `MaxLag` events wait). Which moment before that
an event arrived at cannot be observed, so this loses no behaviour and saves most
of the interleavings. The informer of the `KyuubiCluster` also fills the queue,
so its events may arrive at any time.

`CallFails` ends a pass at any point; a call whose answer is lost is the step
followed by `CallFails`, except for the last one (section 6). `Restart` starts a new process: informers list afresh,
the list fills the queue. `GarbageCollect` deletes what belongs to a uid that is
gone. Deletion of a `KyuubiCluster` is one step here: the operator sets no
finalizer. `Foreground` has the other kind.

Definitions commented "Seeded fault" are the mutated forms that the mutants of
`PROJECT.json` put in place of the definition that follows; they show that each
property notices a plausible mistake in the code.

### Rollout, KyuubiRollout

A version is a pair: the uid (a counter) and `metadata.generation` of the
`KyuubiCluster`. `Rollout` says that a workload is built from a version the user
has asked for, that the versions it is built from never go back, and that it is
taken away only when its `KyuubiCluster` is gone. The StatefulSet does not say
what it was built from, so `KyuubiRollout` adds `builtFrom` (set when
`createOrUpdateKyuubi` returns nil) and `askedFor` (the last version, also after a
deletion). Both are history variables: no action reads them.

### SharedWorker, RequestBox

`SharedWorker` has the queue as it is in client-go: `queue`, `dirty`, `processing`
and the `delayed` retries. A pass is reduced to what can hold the worker up or
matters to the queue: the lookup of the `KyuubiCluster` with its `NotFound`, the
first ConfigMap (found, created, `AlreadyExists`), the polling loop, and whether
the rest ends in an error; a name in `Unrealisable` always does.
`KyuubiReconciler` has all the calls but a queue of two booleans. `RequestBox` is
what both have in common, and both are shown to implement it
(`ImplementsBoxes`, one box per name, and `ImplementsRequestBox`), so that the
booleans are a fair picture of the queue, other names included. The box's
`Restart` may take place at any time, so nothing is promised of the requests for
a `KyuubiCluster` that is gone; for one that exists it leaves a request.

### Managers

The variables of the first process are those of `KyuubiReconciler`; the second is
`INSTANCE KyuubiReconciler` with its own caches, queue and locals over the same
`api`. A step of one appends the watch events to the other's `lag` and makes its
copy of the `KyuubiCluster` outdated (`Told`). With `leaderElect`,
which is chosen at the start and stays, only the holder of the lease takes steps
of the controller, but both informers run. A process that loses the lease exits, which is a restart. The lease has at most one holder:
client-go gives up renewing (10 s) before others may take over (15 s).

### Foreground, OtherClients

Both extend the reconciler by what Kubernetes and others do and leave its actions
alone. In `Foreground` the request sets `deleting` and bumps the generation, the
collector deletes dependents one by one, and `Finish` removes the
`KyuubiCluster` when it finds none. In `OtherClients` another client stores the
data of another spec (for a Service, one port less) or deletes the object, which
counts as a fault.

### DeepCopies

Maps and slices are pointers into `heap`, structs are records, and each
`DeepCopyInto` is an operator that returns the new struct and the new cells. A
cell is named after its allocation step (an id that is free), its field and the
index of its cluster reference, so that cells allocated together differ by name.
Nil and empty are kept apart, because the code does (lines 145 and 584). The state
machine is a pass (`Get`, the loop with the range variable that is written to,
the status) that may end with an error at any step, as it does without
`sparkDefaults` (line 584), with an informer that replaces its object at any time.

## 3. Runs

| Run | Module | Result | What it shows |
|---|---|---|---|
| `first_life` | `MCReconciler` | passes | `WorkloadInv` (with `TypeOK`), `SyncedUnlessReverted`, `CreationTimeStable`, `NoRollback`: one `KyuubiCluster`, three specs, two edits, one failure, informers lagging; and a deletion |
| `recreate` | `MCRollout` | passes | `WorkloadSynced`, `StatusFromCurrentSpec`, `ImplementsRollout`, `ImplementsRequestBox`: deletion and recreation during passes with collection of the leftovers, or two edits, and one failure |
| `converge` | `MCOtherClients` | passes | `EventuallySynced`, with the resync: two edits through specs that are refused or cannot be rendered, and back; or a failure, a restart or another client that edits or deletes an object, at any point |
| `settle` | `MCForeground` | passes | `TypeOK`, `SettlesUnlessDeleting`, `EndsUnlessStatusFlaps`, `Collected`, without the resync: an edit and a failure; or a deletion, background or foreground, of a synchronised `KyuubiCluster` |
| `manifests` | `MCManifests` | passes | the five properties of the manifests, for all 585 lists of up to three references out of eight |
| `managers` | `MCManagers` | passes | `WorkloadSyncedByAll`, `FirstSpecSyncedByAll`: two managers, with and without leader election, create the same objects, or meet an edit and a failure, restart or change of the leader at any point |
| `served` | `MCSharedWorker` | passes | `QueueInv`, `ImplementsBoxes`, `ServedUnlessStuck`: three names, one of which always fails, two actions of the user on each |
| `deep_copies` | `MCDeepCopies` | passes | `NoSharing`, `SpecAsFetched` for 22 `KyuubiCluster`s |
| `starved` | `MCSharedWorker` | violation | `EveryNameServed`: one deleted name keeps the worker from all others |
| `revert` | `MCReconciler` | violation | `AllSynced`: a ConfigMap is left at an intermediate spec |
| `advertised` | `MCReconciler` | violation | `AdvertisedServiceExists`: the status lists a collected Service |
| `spark_defaults` | `MCReconciler` | violation | `OptionalFieldsAreOptional`: without `sparkDefaults` nothing is ever deployed |

Several runs have more than one course of events. Their initial states then
differ in `used`: what is not part of a course counts as used up from the start,
so that the courses are explored side by side and not multiplied. Every initial
state is one the system reaches.

### Bounds

* Specs: two, or three, that differ in every object; in `first_life` the third
  (`SpecC`) shares the Kyuubi ConfigMap with the first but not its other
  ConfigMap, so the exception of `SyncedUnlessReverted` is exercised for each
  ConfigMap on its own. `SpecA` has two settings and so two renderings.
* `MaxEdits = 2` is the least with which a spec can be returned to, or a pass
  can be two specs behind. `MaxCreates = 2`, `MaxDeletes = 1` is the least for
  leftovers. One failure suffices to abandon a pass anywhere; a second one meets
  a state in which the request is due again anyway, and the theorems of section
  5 hold for any number.
* `Access`: the ServiceAccount, the Role and the RoleBinding are created and
  never updated, all three by the same code on another type
  (`CreateIfMissing`). `first_life` follows the last; the other instances take
  them as found, and what they show is a behaviour of the full system in which
  these three exist.
* `MaxLag` limits only the garbage collector (it waits until an event is
  delivered) and forces deliveries beyond it.
* `Time = {t1, t2}` where creation times are compared.
* `managers`: an edit and a failure come after all is synchronised; a creation
  starts from nothing and meets neither. Two specs suffice for a stale write, one
  failure for a change of the leader. `PlainSpecs` differ in every object,
  `WorkloadSpecs` in the StatefulSet only.
* `settle`: the deletion starts from a synchronised `KyuubiCluster`. Passes run all
  the same, because a foreground deletion is an event, and are caught at any
  point by the end of the deletion.
* `SharedWorker`: three names are one that fails, one that is deleted and one
  that stays; two actions of the user are a creation and an edit or a deletion.
* `OtherClients`: one intrusion, anywhere in or between passes. ConfigMaps are
  changed but not deleted (a deletion between two polls holds the worker up, as
  in `starved`), the Service is deleted but not changed (see section 4).
* `DeepCopies`: every pointer field of every type is nil, empty and filled in some
  document; four ids are enough for the informer's object, the pass's copy, its
  new status and an object that is being decoded.
* Deadlock is not checked: a settled operator with a user who has nothing more
  to do is where the system is meant to stop.

### Fairness

The liveness runs (`converge`, `settle`, `served`, and `starved` and
`spark_defaults` among the violations) state fairness. The worker goroutine runs on
(`WF Operator`); watches deliver; retries and the resync are timers
(`WF RetryExpires`, `WF Resync`); the collector runs (`WF GarbageCollect(k)`).
Delivery to the `KyuubiCluster`'s informer is weakly fair. For the other kinds it
is strongly fair, for a reason in the model: there a delivery is enabled only
around a read, while the real delivery is enabled all the time; a reconciler
that comes back again and again finds the event delivered at last. Nothing is
assumed of the user and nothing about failures. In `SharedWorker` every delivery
is enabled until it happens, so weak fairness does. `Foreground` adds weak
fairness for the collector and strong fairness for `Finish`, which the collector
tries again whenever a dependent goes away. `SettlesUnlessDeleting` is checked without the
resync, `EventuallySynced` with it (the code does not switch it off).

## 4. Findings

1. `revert`. `createOrUpdateKyuubiConfigmap` (line 724) and
   `createOrUpdateClusterRefsConfigmap` (line 664) compare with a cached
   ConfigMap. The user changes the spec from A to B and back; the pass for B
   writes the ConfigMap; the pass for A still sees the old copy in the cache,
   finds it equal, writes nothing, and ends without an error. The ConfigMap
   stays at B and the StatefulSet is at A, until the resync. Other stale reads
   heal: a write over a stale copy is a conflict, a creation of what exists is
   `AlreadyExists`, and both are retried. `SyncedUnlessReverted` says that this
   is the only gap in the first life of a `KyuubiCluster`.
2. `starved`. After a creation the code polls until the ConfigMap shows up
   (lines 711 and 651). If the `KyuubiCluster` is deleted meanwhile and creation
   and collection reach the cache between two polls, the loop never ends, and
   with `MaxConcurrentReconciles` 1 neither does the worker: a `KyuubiCluster`
   that nobody touched is never reconciled again, nor is one created again under
   the deleted name. `ServedUnlessStuck` says that nothing else has this effect:
   not names that fail, and not deleted names, which are retried for good (line
   74).
3. `advertised`. After recreation under the same name the previous Service is
   found in the cache, is not adopted, is listed in the status and is collected
   afterwards. Nothing is watched that would start another pass.
4. `spark_defaults`. A reference to Spark without `sparkDefaults`, marked
   optional in the type and absent from the README's sample, fails every pass.

Observations beside the runs:

* The gap of `revert` is met on another way after a change of the leader. The old
  leader has updated the ConfigMap for a new spec. The new one, whose
  `KyuubiCluster` informer lags, writes the old data over it; then it sees the new
  spec and compares with its cache, which still holds the old leader's update:
  equal, nothing to write. The user has changed the spec only once. This is why
  `FirstSpecSyncedByAll` speaks of the first spec; it speaks of the first
  `KyuubiCluster` of its name because of the leftovers that `recreate` shows. The
  StatefulSet is written on every pass and has no such gap
  (`WorkloadSyncedByAll`).
* A Service that exists is never written again (line 782): ports that another
  client has changed stay so, and the status repeats them. With
  `Edited = {"svc"}` TLC finds `EventuallySynced` violated.
* The comment on `ImageConfig.Tag` promises `latest` for an empty tag; line 472
  leaves it empty, and only the Spark image gets the default (line 579).
* A foreground deletion may in theory never end. A pass that creates the Service
  again stores a status without services, this write starts the next pass, which
  finds the Service and stores it, and so on, while the collector deletes one
  object and the pass creates another. `EndsUnlessStatusFlaps` says that there is
  no other way.

## 5. Proofs

`KyuubiReconcilerProofs` proves, for every set of specs, every set of times and
all values of the bounds:

| Theorem | Statement |
|---|---|
| `WorkloadInvariance` | `Spec => []WorkloadInv` |
| `TypeCorrectness` | `Spec => []TypeOK` |
| `WorkloadIsSynced` | `Spec => []WorkloadSynced` |
| `CreationTimeIsStable` | `Spec => CreationTimeStable` |
| `StatusIsFromCurrentSpec` | `Spec => StatusFromCurrentSpec` |

Assumptions: `SpecsAssumption`, `TimeAssumption` (neither set is empty nor holds
`Nil`), `RefTypesAssumption` (a cluster reference has one of the four types of the
`Enum` at `api/v1alpha1/kyuubicluster_types.go:100`), `AccessAssumption` (which
kinds are followed), `BoundsAssumption` (the bounds are natural numbers),
`NilAssumption` (nil is not an object and not a slice). TLC evaluates them in every
run of `MCReconciler`. `Managers` adds `LeaseAssumption` (the holder of a free
lease is not the name of a process). The modules below that extend this one
have the same assumptions.

`WorkloadSynced` speaks of settled states only and is not inductive. Its
strengthening `WorkloadInv` adds what carries it through a pass:

* `TypeOK`: every stored StatefulSet is one with the server's defaults, hence
  never equal to the desired one (lemma `StoredWorkloadDiffers`), hence every
  pass that succeeds has written it. A comparison with a stale cache therefore
  cannot skip the write, which is where the ConfigMaps differ.
* `InformersCatchUp`: an informer without outstanding events has the server's
  copy, so a pass that starts with none outstanding works on the present spec.
* `FreshIsCurrent`: what a status update that is not a conflict writes over.
* `WorkInHand`: while nothing is queued, due or outstanding, the running pass has
  the present uid and spec until it has written the StatefulSet, and from then
  on, or without a pass, the StatefulSet is in sync.

The proof that a step preserves it has one step per action; the lemmas
`WriteStore`, `DeliverStore`, `RestartStore` and `UnchangedStore` say what a step
does to objects, caches and events, and `ErrorStep`, `ProceedStep` and
`CreateStep` cover what the actions have in common. The two action properties
follow from `FreshIsCurrent`: a status is stored only over the very copy that the
pass has read.

`KyuubiVersionsProofs` proves:

| Theorem | Statement |
|---|---|
| `HistoryInvariance` | `Spec => []HistoryInv` |
| `WorkloadNeverRollsBack` | `Spec => NoRollback` |

A rollback takes a pass with an older spec after a pass with a newer one, so the
invariant is about order. `VersionsInv`: the copies of the `KyuubiCluster` that the
process has (`Seen`: the one of the running pass, the informer's and the events)
are versions of it, by uid and generation, and come in this order.
`ObjectsInv`: an object, as it is, as it is cached or as an event brings it, was
built for a spec that its owner has or had; and if it is what the present spec
asks for and no earlier spec asked for the same, every copy in `Seen` has the
present spec already. From then on nobody but the user can change it. The step
lemmas speak of effects (`StepEffect`: created, edited, deleted, or a step of
everyone else, which stores, collects, applies an event, lists or keeps), so that
the dozen actions are looked at once.

`FirstLifeProofs` proves:

| Theorem | Statement |
|---|---|
| `FirstLifeIsSynced` | `Spec => []SyncedUnlessReverted` |

On top of `HistoryInv`, `FirstLifeInv` follows the last pass, the one after which
nothing is queued, due or outstanding: it works on the `KyuubiCluster` as it is
(`PassIsCurrent`), and each of its calls that has returned nil has left its object
right (`CallsDone`). Whether a call may trust what it finds in a lagging cache
is `NewsInOrder`: in a first life nothing is collected, and once a copy of an
object is right the later ones are, unless an earlier spec asked for the same
data. This is the exception of the property, and the proof needs it at one place
only: where `compareConf` finds a cached ConfigMap equal. `StatusAfterService` says
that the status is compared with the ports of a Service that exists. The lemma
`CompareIsEquality` is the general form of what `CompareFindsChanges` checks:
`compareConf` of two finite maps is equality.

`KyuubiRolloutProofs` proves:

| Theorem | Statement |
|---|---|
| `RequestsAreHandled` | `Spec => ImplementsRequestBox` |
| `WorkloadRollsForward` | `RolloutSpec => ImplementsRollout` |

The first needs `TypeOK` only. The second rests on `HistoryInv` and on
`RolloutInv`, which ties the history variables to the state: every copy in `Seen`
lies between the version that the workload was built from and the one that was
asked for, and a StatefulSet belongs to the uid it was built from. So a pass can
build only from a version in between (`Roll`), and the collector, which compares
uids, takes away only what belongs to an earlier incarnation (`Remove`).

`ManagersProofs` proves, with leader election and without:

| Theorem | Statement |
|---|---|
| `ManagersInvariance` | `ManagersSpec => []ManagersInv` |
| `WorkloadIsSyncedByAll` | `ManagersSpec => []WorkloadSyncedByAll` |
| `EarlyInvariance` | `ManagersSpec => []EarlyInv` |
| `FirstSpecIsSyncedByAll` | `ManagersSpec => []FirstSpecSyncedByAll` |

`WorkloadInv` does not carry over: the API server's objects change under a
manager by the other's hand. A manager is therefore described once, as a record
with its caches, events, queue and locals, and the steps it may take are
relations between the record before and after (`Works`, `Hears`, `Restarts`,
`Acquires`, and `IsTold` for the steps of others). The lemmas named `First...` and
`Second...` show that the two processes are such managers; the argument itself
(`ActStep`, `ToldStep`, `QuietWork`, `PairStep`) is about records and is made once.
The second process is an instance, whose operators the prover takes for others
than those of the first (`SameOperators` identifies the ones that matter) and
whose theorems it cannot use, hence the second set of lemmas. The invariant `Pair`
says: each manager is well formed (`ManagerOK`); one without the lease is idle;
and if some manager runs its controller, and each that does has nothing queued,
due or outstanding and is past its write of the StatefulSet, then the StatefulSet
is right. It holds because whoever writes from a stale copy still has an event
outstanding or a request queued, and because a new leader queues what it has
listed.

The second result is about all objects and the status, and about the time until
the user first edits, deletes or recreates the `KyuubiCluster`. What one manager
has done in a pass the other could undo, or could have hidden from it, so
`EarlyInv` says what nobody can undo in that time. Every object, every cached copy
and every event of either process is of this spec and this owner (`Genuine`), so
that finding one in however old a cache is as good as having made it; nothing is
collected, since the owner is there; and an object that a pass has been through
exists (`After`, by the place of the pass). The status is the delicate part. A
pass that creates the Service itself has no ports of it and would store a status
without services; `EarlyManager` says that such a pass works on a copy that has no
status yet, so that it cannot take its status for the right one and end with
nothing to do: it writes, or has a conflict, and either brings the next pass. A
manager at rest (`Rested`) has therefore ended with a pass that compared the
present status with the ports of the Service and found it equal. `Calls` is what
the proof needs of the calls of a pass, and `FirstMakesCalls` and
`SecondMakesCalls` show it of the two processes. TLC has checked `ManagersInv` and
`EarlyInv` on the instance of the run `managers`.

`SharedWorkerProofs` proves, for every set of names, every set of names that
always fail and any number of changes (`NamesAssumption`: `Nil` is not a name;
`ChangesAssumption`: the bound is a natural number):

| Theorem | Statement |
|---|---|
| `QueueInvariance` | `Spec => []QueueInv` |
| `BoxesAreImplemented` | `Spec => ImplementsBoxes` |

`QueueInv` is inductive as it stands. `NothingForgotten` is the goal;
`PassIsCurrent` carries it through a pass (what a pass serves at its end is what
the informer has, or the name is dirty), and `QueueOK` through the queue (a name
that is not dirty is not in line, so the worker that takes a name away takes its
only entry). The lemmas `AppendLine` and `TailLine` say what joining and leaving
does to the names in line, `AddStep`, `GetStep` and `DoneStep` what the three
operations of the queue do to `QueueOK`. For the refinement each action is
mapped to the box's step of the name it is about; for all other names it leaves
the box alone (`OtherNameStep`).

`DeepCopiesProofs` proves, for any set of documents, with any number of cluster
references in each:

| Theorem | Statement |
|---|---|
| `CopiesShareNothing` | `Spec => []NoSharing` |
| `PassSeesWhatItFetched` | `Spec => []SpecAsFetched` |

Assumptions: `DocumentsAssumption` (a document has the types of the API),
`NilAssumption` (nil is neither an address nor an object) and `IdsAssumption`
(there are at least four ids; lemma `FreshIdExists` shows that four suffice, that
is, that the model never runs out of memory by its own bound). The invariant
`IInv` says that the heap holds what the two objects reach, which document each
of them stands for, and that their cells come from allocations with different
ids, of which at most three are in use. The lemmas follow the
generated code bottom up: for each `DeepCopyInto`, the copy says the same, all its
cells are new, and it is nil where the original is.

`ManifestsProofs` proves, for any `MaxRefs`:

| Theorem | Statement |
|---|---|
| `RefusedExactly` | `Spec => []RefusedIffTwoOfAType` |
| `WorkloadFitsConfigMaps` | `Spec => []MountsFitConfigMaps` |
| `HiveNeverContradictsHdfs` | `Spec => []HiveAgreesWithHdfs` |
| `HiveReachesNameNodes` | `Spec => []HiveFindsNameNodes` |
| `CompareIsExact` | `Spec => []CompareFindsChanges` |

Each rests on a lemma about an arbitrary list of references, not only of the
eight of `MCManifests`: `Refused`, `MountsFit` and `CompareFinds` ask only for
known types; `HiveAgrees` and `HiveFinds` also for `SitesApart` (the nameservice
is not set in core-site.xml, nor fs.defaultFS in hdfs-site.xml) and
`AddressesNamed` (addresses only of the namenodes that are named), which say what
a user has to respect for the two files to agree. Lists of any length need
induction. The induction theorems of the library take an operator and cannot be
instantiated, but the least element of a set of numbers can be had from
`NatLessThanWellFounded` and `WFMin` (lemma `LeastNatural`), and that gives
`Induction` for sets. With it the function behind `FlattenSeq` is shown to exist
(`RoundsExist`) and to place the parts one behind the other (`FlattenPlaces`), so
that a slice to which a loop appends has exactly the elements and the duplicates
of its parts (`LoopAppends`). That the two loops of `desiredClusterRefsConfigMap`
pick the same hdfs reference is `LastRefFound`.

Every invariant that a passing run checks is thus proved, and so are the
refinements and the action properties. Model-checked only are the liveness
properties (`EventuallySynced`, `SettlesUnlessDeleting`, `Collected`,
`ServedUnlessStuck`, `EndsUnlessStatusFlaps`), which are out of the prover's reach.

## 6. What is not modelled

* A request that the API server performs only after the process that sent it is
  gone, and a list at the start that is older than that process's last write: a
  restart sees the latest objects.
* A lost answer of the last call of a pass, the write of the status. The pass would
  end with an error and be retried; the event of the write queues the next pass
  in any case.
* The garbage collector in steps: it looks for the owner and deletes at once, where
  Kubernetes looks first and then deletes under a precondition on the uid of the
  dependent.
* The length of backoffs, and Kubernetes' own limits (quotas, API priority).
* More than two processes, and a lease held by two at once.
* Fields that no code reads (`kyuubiVersion`, `sparkMaster`, pull secrets), and
  what is constant in the manifests: labels, ports, probes, environment, role
  rules. `updateTime` is written and never read.
* Pods, and the StatefulSet's own controller: the operator reads neither.
* The generated clientset is for other programs, the operator does not import it.
  Charts and kustomize files have no behaviour of their own; metrics, health
  endpoints and the other flags are I/O. `KyuubiClusterList` is never copied by
  the operator.

## 7. Plan

In this order; all of it is done.

1. `Manifests`, `MCManifests`: the pure functions.
2. `KyuubiReconciler`, `MCReconciler`: the loop with stale caches, failures,
   recreation; safety, liveness, findings.
3. `KyuubiReconcilerProofs`: types, the workload, the status.
4. `SharedWorker` and `RequestBox`: several names, the queue and the single
   worker.
5. `Managers`: two operator processes, with and without the lease.
6. `Foreground`, `OtherClients`: foreground deletion and drift.
7. `Rollout`, `KyuubiRollout`: the abstract specification of the workload.
8. `DeepCopies`.
9. `SharedWorkerProofs`: the queue and the boxes for any number of names.
10. `KyuubiVersionsProofs`, `FirstLifeProofs`, `KyuubiRolloutProofs`: no rollback,
   the first life, the refinements of `RequestBox` and `Rollout`.
11. `ManagersProofs`: the workload with two processes, then all objects and the
   status in the time of the first spec.
12. `DeepCopiesProofs`, `ManifestsProofs`: the copies and the manifests.

## 8. Running

In this directory:

    tlc -workers 2 -config first_life.cfg MCReconciler
    tlc -workers 2 -config manifests.cfg MCManifests
    tlc -workers 2 -config managers.cfg MCManagers
    tlc -workers 2 -config served.cfg MCSharedWorker
    tlapm KyuubiReconcilerProofs.tla
    tlapm KyuubiVersionsProofs.tla
    tlapm FirstLifeProofs.tla
    tlapm KyuubiRolloutProofs.tla
    tlapm ManagersProofs.tla
    tlapm SharedWorkerProofs.tla
    tlapm DeepCopiesProofs.tla
    tlapm ManifestsProofs.tla
