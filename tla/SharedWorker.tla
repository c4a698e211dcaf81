---------------------------- MODULE SharedWorker ----------------------------
(***************************************************************************)
(* Several KyuubiClusters and the one worker they share: SetupWithManager  *)
(* sets no MaxConcurrentReconciles, so controller-runtime starts a single  *)
(* worker.  KyuubiReconciler follows one name through every call of a      *)
(* pass; here a pass is reduced to what can hold the worker up (the lookup *)
(* of the KyuubiCluster, the first ConfigMap and the loop that waits for   *)
(* it) and to whether it ends in an error.                                 *)
(*                                                                         *)
(* The queue is client-go's: a name that is added is dirty; it stands in   *)
(* the queue unless a pass for it is running, in which case the end of the *)
(* pass puts it there; retries are added after a while.                    *)
(*                                                                         *)
(* A definition whose comment starts with "Seeded fault" is a plausible    *)
(* mistake in the one that follows it; the properties are shown to notice. *)
(***************************************************************************)
EXTENDS Integers, Sequences, FiniteSets

CONSTANTS
    Nil,
    Names,          \* the names of KyuubiClusters
    Unrealisable,   \* those whose passes fail, always (a spec that is refused)
    MaxChanges      \* bound: how often the user acts on each name

ASSUME NamesAssumption == Nil \notin Names /\ Unrealisable \subseteq Names
ASSUME ChangesAssumption == MaxChanges \in Nat

VARIABLES
    changes,    \* how often the user has acted on each name
    cluster,    \* the API server's KyuubiCluster of each name, or Nil
    cached,     \* the informer's copy of it
    cm,         \* the uid that owns the ConfigMap of each name, or Nil
    cmSeen,     \* whether the informer has the ConfigMap
    queue,      \* the work queue: the names in line,
    dirty,      \* the names to be processed, in line or after a running pass,
    processing, \* the name whose pass is running, or Nil,
    delayed,    \* and the names whose retry is due some time
    pc,         \* where the worker is
    kyuubi,     \* the KyuubiCluster the running pass works on, or Nil
    served      \* the KyuubiCluster of the last pass that succeeded, by name

userVars  == <<changes, cluster>>
storeVars == <<cached, cm, cmSeen>>
queueVars == <<queue, dirty, processing, delayed>>
passVars  == <<pc, kyuubi>>
vars == <<userVars, storeVars, queueVars, passVars, served>>

\* A KyuubiCluster is told apart by its uid and the version of its spec.
Cluster == [uid : 1..MaxChanges, version : 1..MaxChanges]

TypeOK ==
    /\ changes \in [Names -> 0..MaxChanges]
    /\ cluster \in [Names -> Cluster \cup {Nil}]
    /\ cached \in [Names -> Cluster \cup {Nil}]
    /\ cm \in [Names -> 1..MaxChanges \cup {Nil}]
    /\ cmSeen \in [Names -> BOOLEAN]
    /\ queue \in Seq(Names)
    /\ dirty \subseteq Names
    /\ processing \in Names \cup {Nil}
    /\ delayed \subseteq Names
    /\ pc \in {"idle", "configMap", "wait", "rest"}
    /\ kyuubi \in Cluster \cup {Nil} /\ (pc # "idle" => kyuubi # Nil)
    /\ served \in [Names -> Cluster \cup {Nil}]

Init ==
    /\ changes = [n \in Names |-> 0]
    /\ cluster = [n \in Names |-> Nil]
    /\ cached = [n \in Names |-> Nil]
    /\ cm = [n \in Names |-> Nil]
    /\ cmSeen = [n \in Names |-> FALSE]
    /\ queue = <<>>
    /\ dirty = {}
    /\ processing = Nil
    /\ delayed = {}
    /\ pc = "idle"
    /\ kyuubi = Nil
    /\ served = [n \in Names |-> Nil]

-----------------------------------------------------------------------------
(***************************************************************************)
(* The work queue (external: client-go and controller-runtime).            *)
(***************************************************************************)
Add(n) ==
    /\ dirty' = dirty \cup {n}
    /\ queue' = IF n \in dirty \/ n = processing THEN queue ELSE Append(queue, n)

\* Get hands the first name to the worker.
Get(n) ==
    /\ queue # <<>>
    /\ n = Head(queue)
    /\ queue' = Tail(queue)
    /\ dirty' = dirty \ {n}

\* Done: a name that has become dirty during its pass goes to the end.
Done ==
    /\ processing' = Nil
    /\ queue' = IF processing \in dirty THEN Append(queue, processing) ELSE queue
    /\ UNCHANGED dirty

\* AddRateLimited, as long as it waits.
RetryExpires(n) ==
    /\ n \in delayed
    /\ delayed' = delayed \ {n}
    /\ Add(n)
    /\ UNCHANGED <<userVars, storeVars, processing, passVars, served>>

-----------------------------------------------------------------------------
(***************************************************************************)
(* The user, the garbage collector and the informers (external).           *)
(***************************************************************************)
UserActs(n, v) ==
    /\ changes[n] < MaxChanges
    /\ changes' = [changes EXCEPT ![n] = @ + 1]
    /\ cluster' = [cluster EXCEPT ![n] = v]
    /\ UNCHANGED <<storeVars, queueVars, passVars, served>>

UserCreates(n) ==
    /\ cluster[n] = Nil
    /\ UserActs(n, [uid |-> changes[n] + 1, version |-> changes[n] + 1])

UserEdits(n) ==
    /\ cluster[n] # Nil
    /\ UserActs(n, [cluster[n] EXCEPT !.version = changes[n] + 1])

UserDeletes(n) ==
    /\ cluster[n] # Nil
    /\ UserActs(n, Nil)

GarbageCollect(n) ==
    /\ cm[n] # Nil
    /\ cluster[n] # Nil => cluster[n].uid # cm[n]
    /\ cm' = [cm EXCEPT ![n] = Nil]
    /\ UNCHANGED <<userVars, cached, cmSeen, queueVars, passVars, served>>

\* The ConfigMap's informer catches up, with one event or with several.
DeliverConfigMap(n) ==
    /\ cmSeen[n] # (cm[n] # Nil)
    /\ cmSeen' = [cmSeen EXCEPT ![n] = ~@]
    /\ UNCHANGED <<userVars, cached, cm, queueVars, passVars, served>>

\* Seeded fault: an event for the name that is being reconciled is dropped.
DeliverEventUnlessRunning(n) ==
    /\ cached[n] # cluster[n]
    /\ cached' = [cached EXCEPT ![n] = cluster[n]]
    /\ IF n = processing THEN UNCHANGED <<queue, dirty>> ELSE Add(n)
    /\ UNCHANGED <<userVars, cm, cmSeen, processing, delayed, passVars, served>>

\* For(&KyuubiCluster{}): every event of a KyuubiCluster adds its name.
DeliverEvent(n) ==
    /\ cached[n] # cluster[n]
    /\ cached' = [cached EXCEPT ![n] = cluster[n]]
    /\ Add(n)
    /\ UNCHANGED <<userVars, cm, cmSeen, processing, delayed, passVars, served>>

-----------------------------------------------------------------------------
(***************************************************************************)
(* The worker.                                                             *)
(***************************************************************************)
\* The pass is over.
Leave ==
    /\ Done
    /\ pc' = "idle"
    /\ kyuubi' = Nil

\* Seeded fault: the error is logged and nil is returned.
ReturnErrorAsNil ==
    /\ Leave
    /\ UNCHANGED <<delayed, served>>

ReturnError ==
    /\ Leave
    /\ delayed' = delayed \cup {processing}
    /\ UNCHANGED served

\* Seeded fault: a KyuubiCluster that is not found is waited for.
ReconcileWaits ==
    /\ pc = "idle"
    /\ \E n \in Names :
          /\ Get(n)
          /\ cached[n] # Nil
          /\ processing' = n
          /\ pc' = "configMap"
          /\ kyuubi' = cached[n]
          /\ UNCHANGED delayed
    /\ UNCHANGED <<userVars, storeVars, served>>

\* A name that is not found has its retry at once; nothing else happens in
\* such a pass.
Reconcile ==
    /\ pc = "idle"
    /\ \E n \in Names :
          /\ Get(n)
          /\ \/ /\ cached[n] = Nil
                /\ delayed' = delayed \cup {n}
                /\ UNCHANGED <<processing, passVars>>
             \/ /\ cached[n] # Nil
                /\ processing' = n
                /\ pc' = "configMap"
                /\ kyuubi' = cached[n]
                /\ UNCHANGED delayed
    /\ UNCHANGED <<userVars, storeVars, served>>

GoOn(next) ==
    /\ pc' = next
    /\ UNCHANGED <<queueVars, kyuubi, served>>

createOrUpdateKyuubiConfigmap ==
    LET n == processing
    IN  /\ pc = "configMap"
        /\ \/ cmSeen[n] /\ UNCHANGED cm /\ GoOn("rest")
           \/ /\ ~cmSeen[n] /\ cm[n] = Nil
              /\ cm' = [cm EXCEPT ![n] = kyuubi.uid]
              /\ GoOn("wait")
           \/ ~cmSeen[n] /\ cm[n] # Nil /\ UNCHANGED cm /\ ReturnError
        /\ UNCHANGED <<userVars, cached, cmSeen>>

\* A poll that finds the ConfigMap ends the loop; nothing else does.
waitForKyuubiConfigmap ==
    /\ pc = "wait"
    /\ cmSeen[processing]
    /\ GoOn("rest")
    /\ UNCHANGED <<userVars, storeVars>>

\* All other calls of createOrUpdateClusters.
createOrUpdateClusters ==
    /\ pc = "rest"
    /\ \/ processing \in Unrealisable /\ ReturnError
       \/ /\ processing \notin Unrealisable
          /\ Leave
          /\ served' = [served EXCEPT ![processing] = kyuubi]
          /\ UNCHANGED delayed
    /\ UNCHANGED <<userVars, storeVars>>

Worker ==
    \/ Reconcile
    \/ createOrUpdateKyuubiConfigmap
    \/ waitForKyuubiConfigmap
    \/ createOrUpdateClusters

Environment(n) ==
    \/ UserCreates(n) \/ UserEdits(n) \/ UserDeletes(n)
    \/ GarbageCollect(n)
    \/ DeliverEvent(n) \/ DeliverConfigMap(n)
    \/ RetryExpires(n)

Next == Worker \/ \E n \in Names : Environment(n)

Spec == Init /\ [][Next]_vars

(***************************************************************************)
(* The worker runs, watches deliver, the collector collects and retries    *)
(* are timed.  The user owes nothing.                                      *)
(***************************************************************************)
FairSpec ==
    /\ Spec
    /\ WF_vars(Worker)
    /\ \A n \in Names : /\ WF_vars(DeliverEvent(n))
                         /\ WF_vars(DeliverConfigMap(n))
                         /\ WF_vars(GarbageCollect(n))
                         /\ WF_vars(RetryExpires(n))

-----------------------------------------------------------------------------
(***************************************************************************)
(* Properties.                                                             *)
(***************************************************************************)
InLine == {queue[i] : i \in 1..Len(queue)}

\* The queue holds the dirty names, each once and except the one that is being
\* processed: it is never longer than there are names, however often they are
\* changed and retried.
QueueOK ==
    /\ InLine = dirty \ {processing}
    /\ \A i, j \in 1..Len(queue) : queue[i] = queue[j] => i = j

\* A running pass works on the KyuubiCluster the informer has, or its name is
\* dirty and has another pass to come.
PassIsCurrent ==
    /\ pc = "idle" <=> processing = Nil
    /\ processing # Nil =>
          \/ processing \in dirty
          \/ kyuubi = cached[processing]

\* No change of any KyuubiCluster is forgotten: a name that is neither dirty nor
\* delayed nor being processed was served as the informer has it, whatever the
\* passes of other names do meanwhile.
NothingForgotten ==
    \A n \in Names :
        cached[n] # Nil /\ n \notin dirty \cup delayed /\ n # processing
            => served[n] = cached[n]

\* The inductive invariant.
QueueInv == TypeOK /\ QueueOK /\ PassIsCurrent /\ NothingForgotten

\* The worker waits for a ConfigMap that was collected before a poll saw it.
Stuck == pc = "wait" /\ cm[processing] = Nil /\ ~cmSeen[processing]

Stays(n) == <>[](cluster[n] # Nil)

EndsServed(n) == <>[](cluster[n] # Nil /\ served[n] = cluster[n])

\* A KyuubiCluster that is not deleted is served in its final form, whatever
\* other names do: neither names that fail on every pass nor deleted names,
\* which are retried for good, keep the worker from it.  The one exception is a
\* worker that polls for a ConfigMap that is gone.
ServedUnlessStuck ==
    \A n \in Names \ Unrealisable :
        Stays(n) => EndsServed(n) \/ <>[]Stuck

\* The same without the exception.
EveryNameServed == \A n \in Names \ Unrealisable : Stays(n) => EndsServed(n)

Box(n) == INSTANCE RequestBox WITH
             known   <- cached[n],
             queued  <- n \in dirty,
             retry   <- n \in delayed,
             running <- n = processing

\* For each name the shared queue is the request box that the model of a single
\* name takes it for (KyuubiReconciler's queued and retry): other names cannot
\* make a request, a retry or the end of a pass go missing.
ImplementsBoxes ==
    /\ \A n \in Names : Box(n)!Init
    /\ [][\A n \in Names : Box(n)!Next \/ UNCHANGED Box(n)!vars]_vars
=============================================================================
