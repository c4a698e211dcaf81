--------------------------- MODULE ManagersProofs ---------------------------
(***************************************************************************)
(* Two managers over one API server leave the StatefulSet that the         *)
(* KyuubiCluster asks for, and, as long as the first KyuubiCluster has its *)
(* first spec, all its objects and its status: the proofs, for every set   *)
(* of specs and every value of the bounds, with leader election and        *)
(* without.                                                                *)
(*                                                                         *)
(* What a manager is and what it may do is said once, of a manager m as a  *)
(* record, with n for the same manager after the step.  The two processes  *)
(* of Managers are then shown to be such managers.                         *)
(***************************************************************************)
EXTENDS Managers, KyuubiReconcilerProofs

\* The kinds of objects that the argument is about.  The Service is one because
\* its ports go into the status of the KyuubiCluster.
Followed == {"cr", "sts", "svc"}

\* An informer has the API server's copy v, or it is the last event to come.
View(k, v, c, l) ==
    /\ v \in Copies(k) /\ c \in Copies(k) /\ l \in Seq(Copies(k))
    /\ IF l = <<>> THEN c = v ELSE Last(l) = v

Quiet(m) == m.due = "no" /\ m.lag["cr"] = <<>>

\* What holds of a manager while the API server has the objects a.
ManagerOK(a, m) ==
    /\ \A k \in Followed : View(k, a[k], m.cache[k], m.lag[k])
    /\ m.pc \in PCs
    /\ m.kyuubi \in Copies("cr") /\ (m.pc # "idle" => m.kyuubi # Nil)
    /\ m.existing \in {<<>>, contructDesiredService}
    /\ m.held # Nil => m.held = a["cr"]
    /\ Quiet(m) /\ m.pc # "idle" => m.kyuubi = a["cr"]

(***************************************************************************)
(* What a step of a manager does to one object and to its locals.          *)
(***************************************************************************)
KeepsCopy(k, m, n) == n.cache[k] = m.cache[k] /\ n.lag[k] = m.lag[k]

Keeps(k, m, n) == api'[k] = api[k] /\ KeepsCopy(k, m, n)

Writes(k, v, m, n) ==
    /\ api'[k] = v
    /\ n.cache[k] = m.cache[k]
    /\ n.lag[k] = Append(m.lag[k], v)

Reads(k, m, n) ==
    /\ api'[k] = api[k]
    /\ m.lag[k] # <<>>
    /\ n.cache[k] = Head(m.lag[k])
    /\ n.lag[k] = Tail(m.lag[k])

KeepsAll(m, n) == \A k \in Followed : Keeps(k, m, n)

KeepsLocals(m, n) ==
    /\ n.pc = m.pc /\ n.kyuubi = m.kyuubi
    /\ n.held = m.held /\ n.existing = m.existing

Idles(n) == n.pc = "idle" /\ n.kyuubi = Nil /\ n.held = Nil /\ n.existing = <<>>

Starts(m, n) ==
    /\ m.pc = "idle" /\ n.pc = "sa"
    /\ m.cache["cr"] # Nil /\ n.kyuubi = m.cache["cr"]
    /\ n.held # Nil => m.lag["cr"] = <<>> /\ n.held = m.cache["cr"]
    /\ n.existing = m.existing
    /\ KeepsAll(m, n)

\* The request is queued again, or a retry of it is due.
Reminded(m, n) == n.due = "yes" /\ KeepsLocals(m, n) /\ KeepsAll(m, n)

GoesOn(m, n) ==
    /\ m.pc # "idle" /\ n.pc \in PCs \ {"idle"}
    /\ m.pc \in BeforeWorkload => n.pc \in BeforeWorkload
    /\ n.due = m.due /\ n.kyuubi = m.kyuubi /\ n.held = m.held
    /\ n.existing \in {<<>>, contructDesiredService}
    /\ Keeps("cr", m, n) /\ Keeps("sts", m, n)
    /\ Keeps("svc", m, n) \/ \E v \in Copies("svc") : Writes("svc", v, m, n)

Workload(c) ==
    [owner |-> c.uid,
     data  |-> ServerDefaults(constructDesiredKyuubiWorkload(c.spec))]

Builds(m, n) ==
    /\ m.pc = "sts" /\ n.pc = "svc"
    /\ n.due = m.due /\ n.kyuubi = m.kyuubi /\ n.held = m.held
    /\ n.existing = m.existing
    /\ Keeps("cr", m, n) /\ Keeps("svc", m, n)
    /\ api'["sts"] = Workload(m.kyuubi)
    /\ Keeps("sts", m, n) \/ Writes("sts", Workload(m.kyuubi), m, n)

Fails(m, n) == n.due = "yes" /\ Idles(n) /\ KeepsAll(m, n)

Ends(m, n) ==
    /\ m.pc = "status" /\ n.due = m.due /\ Idles(n)
    /\ Keeps("sts", m, n) /\ Keeps("svc", m, n)
    /\ \/ Keeps("cr", m, n)
       \/ /\ m.held # Nil
          /\ \E st \in Status :
                Writes("cr", [api["cr"] EXCEPT !.status = st], m, n)

Hears(m, n) ==
    /\ KeepsLocals(m, n)
    /\ \E k \in AllKinds :
          /\ k \in Followed => Reads(k, m, n)
          /\ \A j \in Followed \ {k} : Keeps(j, m, n)
          /\ n.due = IF k = "cr" THEN "yes" ELSE m.due

Restarts(m, n) ==
    /\ Idles(n)
    /\ n.due = IF api["cr"] # Nil THEN "yes" ELSE "no"
    /\ \A k \in Followed : /\ api'[k] = api[k]
                           /\ n.cache[k] = api[k] /\ n.lag[k] = <<>>

\* A controller starts to work: it queues what its informer has.
Acquires(m, n) ==
    /\ m.pc = "idle"
    /\ n.due = "no" => m.cache["cr"] = Nil
    /\ KeepsLocals(m, n) /\ KeepsAll(m, n)

\* What a running controller does, and what every process does.
Works(m, n) ==
    \/ Starts(m, n) \/ Reminded(m, n) \/ GoesOn(m, n) \/ Builds(m, n)
    \/ Fails(m, n) \/ Ends(m, n)

\* What a manager notices of a step that it does not take.
IsTold(m, n) ==
    /\ n.pc = m.pc /\ n.kyuubi = m.kyuubi /\ n.existing = m.existing
    /\ n.due = m.due
    /\ n.held = m.held \/ n.held = Nil
    /\ api'["cr"] # api["cr"] => n.held = Nil
    /\ \A k \in Followed :
          IF api'[k] = api[k] THEN KeepsCopy(k, m, n)
          ELSE Writes(k, api'[k], m, n)

-----------------------------------------------------------------------------
(***************************************************************************)
(* A manager goes on to be one.                                            *)
(***************************************************************************)
\* A copy that is kept, written by the API server or brought up by an event
\* stays one from which the informer catches up.
LEMMA ViewSteps ==
    ASSUME NEW k \in Followed, NEW m, NEW n,
           View(k, api[k], m.cache[k], m.lag[k])
    PROVE  /\ Keeps(k, m, n) => View(k, api'[k], n.cache[k], n.lag[k])
           /\ \A v \in Copies(k) :
                 Writes(k, v, m, n) => /\ View(k, api'[k], n.cache[k], n.lag[k])
                                       /\ n.lag[k] # <<>>
           /\ Reads(k, m, n) => View(k, api'[k], n.cache[k], n.lag[k])
<1>1. /\ api[k] \in Copies(k) /\ m.cache[k] \in Copies(k)
      /\ m.lag[k] \in Seq(Copies(k))
      /\ IF m.lag[k] = <<>> THEN m.cache[k] = api[k]
         ELSE Last(m.lag[k]) = api[k]
  BY DEF View
<1>2. Keeps(k, m, n) => View(k, api'[k], n.cache[k], n.lag[k])
  BY <1>1 DEF Keeps, KeepsCopy, View
<1>3. ASSUME NEW v \in Copies(k), Writes(k, v, m, n)
      PROVE  View(k, api'[k], n.cache[k], n.lag[k]) /\ n.lag[k] # <<>>
  BY <1>1, <1>3, AppendLast DEF Writes, View
<1>4. ASSUME Reads(k, m, n) PROVE View(k, api'[k], n.cache[k], n.lag[k])
  BY <1>1, <1>4, TailLast DEF Reads, View
<1> QED BY <1>2, <1>3, <1>4

\* What is kept of a manager when the API server keeps the KyuubiCluster.
LEMMA LocalsKept ==
    ASSUME NEW m, NEW n, ManagerOK(api, m),
           \A k \in Followed : View(k, api'[k], n.cache[k], n.lag[k]),
           api'["cr"] = api["cr"], n.pc = m.pc, n.kyuubi = m.kyuubi,
           n.existing = m.existing, n.held = m.held \/ n.held = Nil,
           Quiet(n) => Quiet(m)
    PROVE  ManagerOK(api', n)
  BY DEF ManagerOK

\* A manager between two passes is one, whatever the API server has.
LEMMA IdlesOK ==
    ASSUME NEW n, Idles(n),
           \A k \in Followed : View(k, api'[k], n.cache[k], n.lag[k])
    PROVE  ManagerOK(api', n)
<1>1. Nil \in Copies("cr")
  BY CopyFacts, KindFacts
<1> QED BY <1>1 DEF ManagerOK, Idles, PCs

\* A manager that is told of a step.
LEMMA ToldStep ==
    ASSUME NEW m, NEW n, ManagerOK(api, m), IsTold(m, n),
           \A k \in Followed : api'[k] \in Copies(k)
    PROVE  /\ ManagerOK(api', n)
           /\ api'["cr"] # api["cr"] => ~Quiet(n)
           /\ Quiet(n) => Quiet(m)
           /\ n.pc = m.pc
<1>1. "cr" \in Followed
  BY DEF Followed
<1>2. ASSUME NEW k \in Followed
      PROVE  /\ View(k, api'[k], n.cache[k], n.lag[k])
             /\ api'[k] # api[k] => n.lag[k] # <<>>
             /\ api'[k] = api[k] => n.lag[k] = m.lag[k]
  <2>1. View(k, api[k], m.cache[k], m.lag[k])
    BY DEF ManagerOK
  <2> QED BY <2>1, ViewSteps DEF IsTold, Keeps, KeepsCopy
<1>3. api'["cr"] # api["cr"] => ~Quiet(n)
  BY <1>1, <1>2 DEF Quiet
<1>4. Quiet(n) => Quiet(m)
  BY <1>1, <1>2, <1>3 DEF Quiet, IsTold
<1>5. CASE api'["cr"] = api["cr"]
  BY <1>2, <1>4, <1>5, LocalsKept DEF IsTold
<1>6. CASE api'["cr"] # api["cr"]
  BY <1>2, <1>3, <1>6 DEF ManagerOK, IsTold
<1> QED BY <1>3, <1>4, <1>5, <1>6 DEF IsTold

\* The StatefulSet that a pass builds is one.
LEMMA WorkloadIsObject ==
    ASSUME NEW c \in Cluster
    PROVE  /\ Workload(c) \in Copies("sts") /\ Workload(c) # Nil
           /\ Workload(c).owner = c.uid
           /\ Workload(c).data \in Wanted["sts"][c.spec]
<1>1. c.spec \in Specs /\ c.uid \in 1..MaxCreates
  BY DEF Cluster
<1>2. "sts" \in Kinds
  BY KindFacts
<1>3. ServerDefaults(constructDesiredKyuubiWorkload(c.spec))
        \in Wanted["sts"][c.spec]
  BY <1>1, WorkloadManifest
<1>4. ServerDefaults(constructDesiredKyuubiWorkload(c.spec)) \in Manifest["sts"]
  BY <1>1, <1>2, <1>3, DesiredIsManifest
<1>5. Workload(c) \in Object("sts")
  BY <1>1, <1>4 DEF Workload, Object
<1> QED BY <1>2, <1>3, <1>5, CopyFacts DEF Workload

\* A KyuubiCluster with another status is one, with the same uid and spec.
LEMMA ClusterWithStatus ==
    ASSUME NEW c \in Cluster, NEW st \in Status
    PROVE  [c EXCEPT !.status = st] \in Cluster
  BY DEF Cluster

\* A step that keeps the three objects as they are, or stores a copy of one.
LEMMA FollowedViews ==
    ASSUME NEW m, NEW n, ManagerOK(api, m),
           \A k \in Followed :
              \/ Keeps(k, m, n)
              \/ Reads(k, m, n)
              \/ \E v \in Copies(k) : Writes(k, v, m, n)
    PROVE  \A k \in Followed : /\ View(k, api'[k], n.cache[k], n.lag[k])
                               /\ api'[k] \in Copies(k)
<1>1. \A k \in Followed : View(k, api[k], m.cache[k], m.lag[k])
  BY DEF ManagerOK
<1>2. \A k \in Followed : View(k, api'[k], n.cache[k], n.lag[k])
  BY <1>1, ViewSteps
<1> QED BY <1>2 DEF View

\* What a manager does leaves it, and the objects, well formed.
LEMMA ActStep ==
    ASSUME NEW m, NEW n, ManagerOK(api, m),
           Works(m, n) \/ Hears(m, n) \/ Restarts(m, n) \/ Acquires(m, n)
    PROVE  /\ ManagerOK(api', n)
           /\ \A k \in Followed : api'[k] \in Copies(k)
<1> USE DEF Followed
<1>0. /\ \A k \in Followed : View(k, api[k], m.cache[k], m.lag[k])
      /\ api["cr"] \in Copies("cr")
      /\ m.pc # "idle" => m.kyuubi \in Cluster
  BY CopyFacts DEF ManagerOK, View
<1>1. CASE Starts(m, n)
  <2>1. \A k \in Followed : /\ View(k, api'[k], n.cache[k], n.lag[k])
                            /\ api'[k] \in Copies(k)
    BY <1>1, FollowedViews DEF Starts, KeepsAll
  <2>2. /\ api'["cr"] = api["cr"] /\ n.lag["cr"] = m.lag["cr"]
        /\ n.kyuubi = m.cache["cr"] /\ n.kyuubi # Nil /\ n.pc = "sa"
        /\ n.held # Nil => m.lag["cr"] = <<>> /\ n.held = m.cache["cr"]
        /\ n.existing = m.existing
    BY <1>1 DEF Starts, KeepsAll, Keeps, KeepsCopy
  <2>3. /\ m.cache["cr"] \in Copies("cr")
        /\ m.lag["cr"] = <<>> => m.cache["cr"] = api["cr"]
    BY <1>0 DEF View
  <2> QED BY <2>1, <2>2, <2>3 DEF ManagerOK, Quiet, PCs
<1>2. CASE Reminded(m, n) \/ Hears(m, n) \/ Acquires(m, n)
  <2>1. \A k \in Followed : Keeps(k, m, n) \/ Reads(k, m, n)
    BY <1>2 DEF Reminded, Hears, Acquires, KeepsAll
  <2>2. \A k \in Followed : /\ View(k, api'[k], n.cache[k], n.lag[k])
                            /\ api'[k] \in Copies(k)
    BY <2>1, FollowedViews
  <2>3. api'["cr"] = api["cr"]
    BY <2>1 DEF Keeps, Reads
  <2>4. /\ n.pc = m.pc /\ n.kyuubi = m.kyuubi
        /\ n.existing = m.existing /\ n.held = m.held
    BY <1>2 DEF Reminded, Hears, Acquires, KeepsLocals
  <2>5. n.pc # "idle" /\ Quiet(n) => Quiet(m)
    BY <1>2, <2>4 DEF Reminded, Hears, Acquires, Quiet, Keeps, KeepsCopy
  <2> QED BY <2>2, <2>3, <2>4, <2>5 DEF ManagerOK
<1>3. CASE GoesOn(m, n)
  <2>1. \A k \in Followed : /\ View(k, api'[k], n.cache[k], n.lag[k])
                            /\ api'[k] \in Copies(k)
    BY <1>3, FollowedViews DEF GoesOn
  <2> QED BY <1>3, <2>1 DEF ManagerOK, GoesOn, Quiet, Keeps, KeepsCopy
<1>4. CASE Builds(m, n)
  <2>1. Workload(m.kyuubi) \in Copies("sts")
    BY <1>0, <1>4, WorkloadIsObject DEF Builds
  <2>2. \A k \in Followed : /\ View(k, api'[k], n.cache[k], n.lag[k])
                            /\ api'[k] \in Copies(k)
    BY <1>4, <2>1, FollowedViews DEF Builds
  <2> QED BY <1>4, <2>2 DEF ManagerOK, Builds, Quiet, Keeps, KeepsCopy, PCs
<1>5. CASE Fails(m, n)
  BY <1>5, FollowedViews, IdlesOK DEF Fails, KeepsAll
<1>6. CASE Ends(m, n)
  <2>1. \A st \in Status : m.held # Nil =>
            [api["cr"] EXCEPT !.status = st] \in Copies("cr")
    BY <1>0, ClusterWithStatus, CopyFacts DEF ManagerOK
  <2>2. \A k \in Followed : /\ View(k, api'[k], n.cache[k], n.lag[k])
                            /\ api'[k] \in Copies(k)
    BY <1>6, <2>1, FollowedViews DEF Ends
  <2> QED BY <1>6, <2>2, IdlesOK DEF Ends
<1>7. CASE Restarts(m, n)
  <2>1. \A k \in Followed : <<>> \in Seq(Copies(k))
    OBVIOUS
  <2>2. \A k \in Followed : /\ View(k, api'[k], n.cache[k], n.lag[k])
                            /\ api'[k] \in Copies(k)
    BY <1>0, <1>7, <2>1 DEF Restarts, View
  <2> QED BY <1>7, <2>2, IdlesOK DEF Restarts
<1> QED BY <1>1, <1>2, <1>3, <1>4, <1>5, <1>6, <1>7 DEF Works

\* A running controller that is quiet after its step and has written the
\* StatefulSet has written it with this step, as it should be, or the step has
\* nothing to do with it.
LEMMA QuietWork ==
    ASSUME NEW m, NEW n, ManagerOK(api, m), Works(m, n),
           Quiet(n), n.pc \notin BeforeWorkload
    PROVE  /\ api'["cr"] = api["cr"]
           /\ \/ InSync("sts")'
              \/ /\ Quiet(m) /\ m.pc \notin BeforeWorkload
                 /\ api'["sts"] = api["sts"]
<1> USE DEF Followed
<1>0. /\ \A k \in Followed : View(k, api[k], m.cache[k], m.lag[k])
      /\ m.pc # "idle" => m.kyuubi \in Cluster
      /\ Quiet(m) /\ m.pc # "idle" => m.kyuubi = api["cr"]
  BY CopyFacts DEF ManagerOK
<1>1. CASE Starts(m, n)
  BY <1>1 DEF Starts, BeforeWorkload, PCs
<1>2. CASE Reminded(m, n)
  BY <1>2 DEF Reminded, Quiet
<1>3. CASE GoesOn(m, n)
  BY <1>3 DEF GoesOn, Quiet, Keeps, KeepsCopy
<1>4. CASE Builds(m, n)
  <2>1. /\ m.kyuubi \in Cluster /\ api'["cr"] = api["cr"]
        /\ api'["sts"] = Workload(m.kyuubi) /\ m.kyuubi = api["cr"]
    BY <1>0, <1>4 DEF Builds, Quiet, Keeps, KeepsCopy
  <2> QED BY <2>1, WorkloadIsObject DEF InSync
<1>5. CASE Fails(m, n)
  BY <1>5 DEF Fails, Quiet
<1>6. CASE Ends(m, n)
  <2>1. Keeps("cr", m, n)
    <3>1. ASSUME NEW st \in Status, m.held # Nil,
                 Writes("cr", [api["cr"] EXCEPT !.status = st], m, n)
          PROVE  FALSE
      <4>1. [api["cr"] EXCEPT !.status = st] \in Copies("cr")
        BY <1>0, <3>1, ClusterWithStatus, CopyFacts DEF ManagerOK, View
      <4> QED BY <1>0, <3>1, <4>1, ViewSteps DEF Quiet
    <3> QED BY <1>6, <3>1 DEF Ends
  <2> QED BY <1>6, <2>1 DEF Ends, Quiet, Keeps, KeepsCopy, BeforeWorkload
<1> QED BY <1>1, <1>2, <1>3, <1>4, <1>5, <1>6 DEF Works

\* The status that a pass stores is one.
LEMMA StoredStatus ==
    ASSUME NEW st \in Status, NEW ports \in {<<>>, contructDesiredService},
           NEW now \in Time
    PROVE  [exposedInfos |-> ExposedInfos(ports),
            creationTime |-> IF st.exposedInfos = Nil THEN now
                             ELSE st.creationTime] \in Status
<1>1. ExposedInfos(ports) \in
        {ExposedInfos(<<>>), ExposedInfos(contructDesiredService)}
  OBVIOUS
<1>2. st.exposedInfos # Nil => st.creationTime \in Time
  BY DEF Status, NoStatus
<1> QED BY <1>1, <1>2 DEF Status

-----------------------------------------------------------------------------
(***************************************************************************)
(* The first process is a manager.                                         *)
(***************************************************************************)
First ==
    [cache |-> cache, lag |-> lag,
     due |-> IF queued \/ retry THEN "yes" ELSE "no",
     pc |-> pc, kyuubi |-> kyuubi, held |-> IF fresh THEN kyuubi ELSE Nil,
     existing |-> existing]

Formed ==
    /\ api = [k \in AllKinds |-> api[k]]
    /\ cache = [k \in AllKinds |-> cache[k]]
    /\ lag = [k \in AllKinds |-> lag[k]]
    /\ queued \in BOOLEAN /\ retry \in BOOLEAN /\ fresh \in BOOLEAN

\* The fields of the record, before and after a step.
LEMMA FirstFields ==
    /\ First.cache = cache /\ First.lag = lag /\ First.pc = pc
    /\ First.kyuubi = kyuubi /\ First.existing = existing
    /\ First.due = (IF queued \/ retry THEN "yes" ELSE "no")
    /\ First.held = (IF fresh THEN kyuubi ELSE Nil)
    /\ First'.cache = cache' /\ First'.lag = lag' /\ First'.pc = pc'
    /\ First'.kyuubi = kyuubi' /\ First'.existing = existing'
    /\ First'.due = (IF queued' \/ retry' THEN "yes" ELSE "no")
    /\ First'.held = (IF fresh' THEN kyuubi' ELSE Nil)
  BY DEF First

\* What the first process writes.
LEMMA FirstWrites ==
    ASSUME Formed, NEW k \in AllKinds, NEW v, Write(k, v)
    PROVE  /\ api' = [j \in AllKinds |-> api'[j]]
           /\ cache' = [j \in AllKinds |-> cache'[j]]
           /\ lag' = [j \in AllKinds |-> lag'[j]]
           /\ Writes(k, v, First, First')
           /\ \A j \in AllKinds \ {k} : Keeps(j, First, First')
<1>1. /\ api' = [api EXCEPT ![k] = v] /\ cache' = cache
      /\ lag' = [lag EXCEPT ![k] = Append(@, v)]
  BY DEF Write
<1>2. \A j \in AllKinds : /\ api'[j] = (IF j = k THEN v ELSE api[j])
                          /\ lag'[j] = (IF j = k THEN Append(lag[k], v)
                                        ELSE lag[j])
  BY <1>1 DEF Formed
<1>3. /\ api' = [j \in AllKinds |-> api'[j]]
      /\ cache' = [j \in AllKinds |-> cache'[j]]
      /\ lag' = [j \in AllKinds |-> lag'[j]]
  BY <1>1 DEF Formed
<1> QED BY <1>1, <1>2, <1>3, FirstFields DEF Writes, Keeps, KeepsCopy

\* A pass of the first process goes on to the next call.
LEMMA FirstProceeds ==
    ASSUME Formed, ManagerOK(api, First), pc # "idle",
           NEW next \in PCs \ {"idle"},
           pc \in BeforeWorkload => next \in BeforeWorkload,
           Proceed(next),
           \/ UNCHANGED storeVars
           \/ \E k \in AllKinds \ Followed : \E v : Write(k, v)
    PROVE  GoesOn(First, First') /\ Formed'
<1>1. /\ pc' = next /\ queued' = queued /\ retry' = retry /\ kyuubi' = kyuubi
      /\ fresh' = fresh /\ existing' = existing
  BY DEF Proceed, queueVars
<1>2. existing \in {<<>>, contructDesiredService}
  BY FirstFields DEF ManagerOK
<1>3. Followed \subseteq AllKinds
  BY KindFacts DEF Followed
<1>4. CASE UNCHANGED storeVars
  BY <1>1, <1>2, <1>3, <1>4, FirstFields
     DEF GoesOn, storeVars, Formed, Keeps, KeepsCopy
<1>5. CASE \E k \in AllKinds \ Followed : \E v : Write(k, v)
  <2>0. PICK k \in AllKinds \ Followed : \E v : Write(k, v)
    BY <1>5
  <2>1. PICK v : Write(k, v)
    BY <2>0
  <2>2. /\ api' = [j \in AllKinds |-> api'[j]]
        /\ cache' = [j \in AllKinds |-> cache'[j]]
        /\ lag' = [j \in AllKinds |-> lag'[j]]
        /\ \A j \in AllKinds \ {k} : Keeps(j, First, First')
    BY <2>1, FirstWrites
  <2>3. Keeps("cr", First, First') /\ Keeps("sts", First, First')
        /\ Keeps("svc", First, First')
    BY <1>3, <2>1, <2>2 DEF Followed
  <2>4. Formed'
    BY <1>1, <2>2 DEF Formed
  <2> QED BY <1>1, <1>2, <2>3, <2>4, FirstFields DEF GoesOn
<1> QED BY <1>4, <1>5

\* A pass of the first process ends with an error.
LEMMA FirstFails ==
    ASSUME Formed, UNCHANGED storeVars, Leave, retry' = TRUE, queued' = queued
    PROVE  Fails(First, First') /\ Formed'
  BY FirstFields
     DEF Fails, Idles, Leave, KeepsAll, Keeps, KeepsCopy, storeVars, Formed

\* The calls before the one that writes the StatefulSet.
LEMMA FirstPrepares ==
    ASSUME Formed, ManagerOK(api, First),
           \/ createOrUpdateServiceAccount \/ createOrUpdateRole
           \/ createOrUpdateRoleBinding \/ createOrUpdateKyuubiConfigmap
           \/ waitForKyuubiConfigmap \/ createOrUpdateClusterRefsConfigmap
           \/ waitForClusterRefsConfigmap
    PROVE  (GoesOn(First, First') \/ Fails(First, First')) /\ Formed'
<1> DEFINE Goes(next) ==
       /\ Proceed(next)
       /\ \/ UNCHANGED storeVars
          \/ \E k \in AllKinds \ Followed : \E v : Write(k, v)
           Errs == UNCHANGED storeVars /\ ReturnError
<1>1. ASSUME NEW k \in {"sa", "role", "rb"}, NEW next, CreateIfMissing(k, next)
      PROVE  pc = k /\ (Goes(next) \/ Errs)
  <2>1. k \in Access => k \in AllKinds \ Followed
    BY KindFacts DEF Followed
  <2> QED BY <1>1, <2>1 DEF CreateIfMissing, Create, AlreadyExists
<1>2. ASSUME NEW k \in {"kyuubiCm", "refsCm"}, NEW data, NEW wait, NEW next,
             CreateOrUpdateConfigMap(k, data, wait, next)
      PROVE  Goes(wait) \/ Goes(next) \/ Errs
  <2>1. k \in AllKinds \ Followed
    BY KindFacts DEF Followed
  <2> QED BY <1>2, <2>1
          DEF CreateOrUpdateConfigMap, UpdateConfigMap, Create, AlreadyExists
<1>3. /\ pc \in BeforeWorkload
      /\ Errs \/ \E next \in BeforeWorkload : Goes(next)
  <2> USE DEF BeforeWorkload, PCs
  <2> HIDE DEF Goes, Errs
  <2>1. CASE createOrUpdateServiceAccount
    BY <1>1, <2>1 DEF createOrUpdateServiceAccount
  <2>2. CASE createOrUpdateRole
    BY <1>1, <2>2 DEF createOrUpdateRole
  <2>3. CASE createOrUpdateRoleBinding
    BY <1>1, <2>3 DEF createOrUpdateRoleBinding
  <2>4. CASE createOrUpdateKyuubiConfigmap
    BY <1>2, <2>4 DEF createOrUpdateKyuubiConfigmap
  <2>5. CASE waitForKyuubiConfigmap
    BY <2>5 DEF waitForKyuubiConfigmap, WaitForConfigMap, Goes
  <2>6. CASE createOrUpdateClusterRefsConfigmap
    BY <1>2, <2>6 DEF createOrUpdateClusterRefsConfigmap, Errs
  <2>7. CASE waitForClusterRefsConfigmap
    BY <2>7 DEF waitForClusterRefsConfigmap, WaitForConfigMap, Goes
  <2> QED BY <2>1, <2>2, <2>3, <2>4, <2>5, <2>6, <2>7
<1>4. CASE Errs
  BY <1>4, FirstFails DEF ReturnError
<1>5. CASE \E next \in BeforeWorkload : Goes(next)
  <2>1. PICK next \in BeforeWorkload : Goes(next)
    BY <1>5
  <2>2. next \in PCs \ {"idle"} /\ pc # "idle"
    BY <1>3 DEF BeforeWorkload
  <2> QED BY <2>1, <2>2, FirstProceeds
<1> QED BY <1>3, <1>4, <1>5

\* createOrUpdateKyuubi leaves the StatefulSet of the copy in hand.
LEMMA FirstBuilds ==
    ASSUME Formed, ManagerOK(api, First), createOrUpdateKyuubi
    PROVE  (Builds(First, First') \/ Fails(First, First')) /\ Formed'
<1> DEFINE desired == constructDesiredKyuubiWorkload(kyuubi.spec)
           v == Workload(kyuubi)
<1>1. /\ pc = "sts" /\ "sts" \in Followed /\ Followed \subseteq AllKinds
      /\ "sts" \in Kinds
  BY KindFacts DEF createOrUpdateKyuubi, Followed
<1>2. ASSUME Proceed("svc"),
             Write("sts", v) \/ (UNCHANGED storeVars /\ api["sts"] = v)
      PROVE  Builds(First, First') /\ Formed'
  <2> HIDE DEF v
  <2>1. /\ pc' = "svc" /\ queued' = queued /\ retry' = retry /\ kyuubi' = kyuubi
        /\ fresh' = fresh /\ existing' = existing
    BY <1>2 DEF Proceed, queueVars
  <2>2. /\ Formed' /\ api'["sts"] = v
        /\ Keeps("cr", First, First') /\ Keeps("svc", First, First')
        /\ Keeps("sts", First, First') \/ Writes("sts", v, First, First')
    <3>1. CASE Write("sts", v)
      BY <1>1, <2>1, <3>1, FirstWrites DEF Formed, Followed, Writes
    <3>2. CASE UNCHANGED storeVars /\ api["sts"] = v
      BY <2>1, <3>2, FirstFields DEF storeVars, Formed, Keeps, KeepsCopy
    <3> QED BY <1>2, <3>1, <3>2
  <2> QED BY <1>1, <2>1, <2>2, FirstFields DEF Builds, v
<1>3. CASE Create("sts", ServerDefaults(desired)) /\ Proceed("svc")
  BY <1>2, <1>3 DEF Create, Workload
<1>4. CASE cache["sts"] # Nil /\ UpdateWorkload(desired) /\ Proceed("svc")
  <2>1. cache["sts"].data # desired
    <3>1. cache["sts"] \in Copies("sts")
      BY <1>1, FirstFields DEF ManagerOK, View
    <3> QED BY <1>1, <1>4, <3>1, CopyFacts, StoredWorkloadDiffers
  <2> QED BY <1>2, <1>4, <2>1 DEF UpdateWorkload, Workload
<1>5. CASE UNCHANGED storeVars /\ ReturnError
  BY <1>5, FirstFails DEF ReturnError
<1> QED BY <1>3, <1>4, <1>5 DEF createOrUpdateKyuubi

\* createOrUpdateService finds the Service or creates it.
LEMMA FirstExposes ==
    ASSUME Formed, ManagerOK(api, First), createOrUpdateService
    PROVE  (GoesOn(First, First') \/ Fails(First, First')) /\ Formed'
<1> DEFINE v == [owner |-> kyuubi.uid, data |-> contructDesiredService]
<1>1. /\ pc = "svc" /\ "svc" \in Followed /\ Followed \subseteq AllKinds
      /\ "svc" \in Kinds /\ pc \notin BeforeWorkload
      /\ "status" \in PCs \ {"idle"}
  BY KindFacts DEF createOrUpdateService, Followed, BeforeWorkload, PCs
<1>2. CASE /\ cache["svc"] # Nil /\ existing' = cache["svc"].data
           /\ pc' = "status"
           /\ UNCHANGED <<storeVars, queueVars, kyuubi, fresh, history>>
  <2>1. cache["svc"] \in Copies("svc")
    BY <1>1, FirstFields DEF ManagerOK, View
  <2>2. cache["svc"].data = contructDesiredService
    BY <1>1, <1>2, <2>1, CopyFacts, ServiceManifest
  <2> QED BY <1>1, <1>2, <2>2, FirstFields
          DEF GoesOn, storeVars, queueVars, Formed, Keeps, KeepsCopy
<1>3. CASE Create("svc", contructDesiredService) /\ Proceed("status")
  <2>1. kyuubi \in Cluster
    BY <1>1, FirstFields, CopyFacts DEF ManagerOK
  <2>2. v \in Copies("svc")
    <3>1. v \in Object("svc")
      BY <2>1, ServiceManifest DEF Object, Cluster
    <3> QED BY <1>1, <3>1, CopyFacts
  <2>3. Write("svc", v)
    BY <1>3 DEF Create
  <2> HIDE DEF v
  <2>4. /\ pc' = "status" /\ queued' = queued /\ retry' = retry
        /\ kyuubi' = kyuubi /\ fresh' = fresh /\ existing' = existing
    BY <1>3 DEF Proceed, queueVars
  <2>5. /\ Formed' /\ Writes("svc", v, First, First')
        /\ Keeps("cr", First, First') /\ Keeps("sts", First, First')
    BY <1>1, <2>3, <2>4, FirstWrites DEF Formed, Followed
  <2>6. existing \in {<<>>, contructDesiredService}
    BY FirstFields DEF ManagerOK
  <2> QED BY <1>1, <2>2, <2>4, <2>5, <2>6, FirstFields DEF GoesOn
<1>4. CASE AlreadyExists("svc")
  BY <1>4, FirstFails DEF AlreadyExists, ReturnError
<1> QED BY <1>2, <1>3, <1>4 DEF createOrUpdateService

\* updateKyuubiClusterStatus ends the pass, and only writes over the copy in
\* hand.
LEMMA FirstEnds ==
    ASSUME Formed, ManagerOK(api, First), updateKyuubiClusterStatus
    PROVE  (Ends(First, First') \/ Fails(First, First')) /\ Formed'
<1>1. /\ pc = "status" /\ "cr" \in Followed /\ Followed \subseteq AllKinds
  BY KindFacts DEF updateKyuubiClusterStatus, Followed
<1>2. kyuubi \in Cluster /\ kyuubi # Nil
  BY <1>1, FirstFields, CopyFacts DEF ManagerOK
<1>3. CASE Leave /\ UNCHANGED <<storeVars, queueVars, history>>
  BY <1>1, <1>3, FirstFields
     DEF Ends, Idles, Leave, storeVars, queueVars, Formed, Keeps, KeepsCopy
<1>4. CASE /\ fresh
           /\ \E now \in Time :
                 Write("cr", [api["cr"] EXCEPT !.status =
                                [exposedInfos |-> ExposedInfos(existing),
                                 creationTime |-> CreationTime(now)]])
           /\ Leave /\ UNCHANGED <<queueVars, history>>
  <2>1. PICK now \in Time :
          Write("cr", [api["cr"] EXCEPT !.status =
                         [exposedInfos |-> ExposedInfos(existing),
                          creationTime |-> CreationTime(now)]])
    BY <1>4
  <2> DEFINE st == [exposedInfos |-> ExposedInfos(existing),
                    creationTime |-> CreationTime(now)]
             v == [api["cr"] EXCEPT !.status = st]
  <2>2. st \in Status
    BY <1>2, FirstFields, StoredStatus DEF CreationTime, ManagerOK, Cluster
  <2> HIDE DEF st
  <2>3. Write("cr", v)
    BY <2>1 DEF st
  <2> HIDE DEF v
  <2>4. Idles(First') /\ queued' = queued /\ retry' = retry
    BY <1>4, FirstFields DEF Idles, Leave, queueVars
  <2>5. /\ Formed' /\ Writes("cr", v, First, First')
        /\ Keeps("svc", First, First') /\ Keeps("sts", First, First')
    BY <1>1, <1>4, <2>3, <2>4, FirstWrites DEF Formed, Followed, Leave
  <2>6. First.held # Nil
    BY <1>2, <1>4, FirstFields
  <2> QED BY <1>1, <2>2, <2>4, <2>5, <2>6, FirstFields DEF Ends, v
<1>5. CASE UNCHANGED storeVars /\ ReturnError
  BY <1>5, FirstFails DEF ReturnError
<1> QED BY <1>3, <1>4, <1>5 DEF updateKyuubiClusterStatus

\* A pass begins, or finds no KyuubiCluster and is repeated later.
LEMMA FirstStarts ==
    ASSUME Formed, Reconcile
    PROVE  (Starts(First, First') \/ Reminded(First, First')) /\ Formed'
<1>1. /\ UNCHANGED storeVars /\ pc = "idle"
      /\ \/ cache["cr"] = Nil /\ retry' = TRUE /\ UNCHANGED localVars
         \/ /\ cache["cr"] # Nil /\ pc' = "sa" /\ kyuubi' = cache["cr"]
            /\ fresh' = (lag["cr"] = <<>>) /\ UNCHANGED <<retry, existing>>
  BY DEF Reconcile
<1>2. KeepsAll(First, First')
  BY <1>1, FirstFields DEF KeepsAll, Keeps, KeepsCopy, storeVars
<1>3. Formed'
  BY <1>1 DEF Reconcile, Formed, storeVars, localVars
<1>4. CASE retry' = TRUE /\ UNCHANGED localVars
  BY <1>2, <1>3, <1>4, FirstFields DEF Reminded, KeepsLocals, localVars
<1>5. CASE /\ cache["cr"] # Nil /\ pc' = "sa" /\ kyuubi' = cache["cr"]
           /\ fresh' = (lag["cr"] = <<>>) /\ UNCHANGED <<retry, existing>>
  BY <1>1, <1>2, <1>3, <1>5, FirstFields DEF Starts
<1> QED BY <1>1, <1>4, <1>5

\* What the controller of the first process does is the work of a manager.
LEMMA FirstWorks ==
    ASSUME Formed, ManagerOK(api, First),
           Operator \/ RetryExpires \/ Resync \/ CallFails
    PROVE  Works(First, First') /\ Formed'
<1>1. CASE Operator
  BY <1>1, FirstStarts, FirstPrepares, FirstBuilds, FirstExposes, FirstEnds
     DEF Operator, Works
<1>2. CASE RetryExpires \/ Resync
  <2>1. /\ UNCHANGED storeVars /\ UNCHANGED localVars /\ queued' = TRUE
        /\ retry' \in BOOLEAN
    BY <1>2 DEF RetryExpires, Resync, Formed
  <2>2. Reminded(First, First')
    BY <2>1, FirstFields DEF Reminded, KeepsLocals, KeepsAll, Keeps, KeepsCopy,
       storeVars, localVars
  <2> QED BY <2>1, <2>2 DEF Works, Formed, storeVars, localVars
<1>3. CASE CallFails
  BY <1>3, FirstFails DEF CallFails, Works
<1> QED BY <1>1, <1>2, <1>3

\* An event is delivered to an informer of the first process.
LEMMA FirstHears ==
    ASSUME Formed, NEW k \in AllKinds, DeliverEvent(k)
    PROVE  Hears(First, First') /\ Formed'
<1>1. /\ lag[k] # <<>> /\ api' = api
      /\ cache' = [cache EXCEPT ![k] = Head(lag[k])]
      /\ lag' = [lag EXCEPT ![k] = Tail(@)]
      /\ queued' = (queued \/ k = "cr")
      /\ retry' = retry /\ UNCHANGED localVars
  BY DEF DeliverEvent
<1>2. /\ Formed'
      /\ cache'[k] = Head(lag[k]) /\ lag'[k] = Tail(lag[k])
      /\ \A j \in AllKinds \ {k} : cache'[j] = cache[j] /\ lag'[j] = lag[j]
  BY <1>1 DEF Formed, localVars
<1>3. /\ Reads(k, First, First')
      /\ \A j \in AllKinds \ {k} : Keeps(j, First, First')
  BY <1>1, <1>2, FirstFields DEF Reads, Keeps, KeepsCopy
<1>4. First'.due = (IF k = "cr" THEN "yes" ELSE First.due)
  BY <1>1, FirstFields DEF Formed
<1>5. KeepsLocals(First, First') /\ Followed \subseteq AllKinds
  BY <1>1, FirstFields, KindFacts DEF KeepsLocals, localVars, Followed
<1> QED BY <1>2, <1>3, <1>4, <1>5 DEF Hears

\* The first process is replaced by a new one.
LEMMA FirstRestartsAsManager ==
    ASSUME Formed, Restart
    PROVE  Restarts(First, First') /\ Formed'
<1>1. /\ api' = api /\ cache' = api /\ lag' = [k \in AllKinds |-> <<>>]
      /\ queued' = (api["cr"] # Nil) /\ retry' = FALSE /\ Leave
  BY DEF Restart
<1>2. Followed \subseteq AllKinds
  BY KindFacts DEF Followed
<1> QED BY <1>1, <1>2, FirstFields DEF Restarts, Idles, Leave, Formed

\* The controller of the first process starts to work.
LEMMA FirstAcquiresAsManager ==
    ASSUME Formed, FirstAcquires, pc = "idle"
    PROVE  Acquires(First, First') /\ Formed'
<1>1. /\ queued' = (cache["cr"] # Nil) /\ UNCHANGED storeVars /\ retry' = retry
      /\ UNCHANGED localVars
  BY DEF FirstAcquires
<1>2. Formed' /\ KeepsLocals(First, First') /\ KeepsAll(First, First')
  BY <1>1, FirstFields DEF Formed, KeepsLocals, KeepsAll, Keeps, KeepsCopy,
     storeVars, localVars
<1> QED BY <1>1, <1>2, FirstFields DEF Acquires

\* The first process notices what another actor has done.
LEMMA FirstNotices ==
    ASSUME Formed, FirstIsTold, api' = [k \in AllKinds |-> api'[k]]
    PROVE  IsTold(First, First') /\ Formed'
<1>1. /\ lag' = Told(lag) /\ fresh' = (fresh /\ api'["cr"] = api["cr"])
      /\ cache' = cache /\ queued' = queued /\ retry' = retry /\ pc' = pc
      /\ kyuubi' = kyuubi /\ existing' = existing
  BY DEF FirstIsTold, ownVars1, queueVars
<1>2. Followed \subseteq AllKinds
  BY KindFacts DEF Followed
<1>3. \A k \in AllKinds :
         IF api'[k] = api[k] THEN KeepsCopy(k, First, First')
         ELSE Writes(k, api'[k], First, First')
  BY <1>1, FirstFields DEF Told, KeepsCopy, Writes
<1>4. Formed'
  BY <1>1 DEF Formed, Told
<1> QED BY <1>1, <1>2, <1>3, <1>4, FirstFields DEF IsTold, Formed

-----------------------------------------------------------------------------
(***************************************************************************)
(* The second process is a manager.  The instance S has the operators of   *)
(* KyuubiReconciler under names of its own, with the same values.          *)
(***************************************************************************)
\* The operators that the two processes share are equal.
LEMMA SameOperators ==
    /\ S!AllKinds = AllKinds /\ S!Kinds = Kinds
    /\ S!contructDesiredService = contructDesiredService
    /\ \A w : S!ServerDefaults(w) = ServerDefaults(w)
    /\ \A spec : S!constructDesiredKyuubiWorkload(spec)
                   = constructDesiredKyuubiWorkload(spec)
    /\ \A ports : S!ExposedInfos(ports) = ExposedInfos(ports)
<1>1. S!AllKinds = AllKinds /\ S!Kinds = Kinds
  BY DEF S!AllKinds, AllKinds, S!Kinds, Kinds
<1>2. S!contructDesiredService = contructDesiredService
  BY DEF S!contructDesiredService, contructDesiredService
<1>3. ASSUME NEW w PROVE S!ServerDefaults(w) = ServerDefaults(w)
  BY DEF S!ServerDefaults, ServerDefaults
<1>4. ASSUME NEW spec
      PROVE  S!constructDesiredKyuubiWorkload(spec)
               = constructDesiredKyuubiWorkload(spec)
  BY DEF S!constructDesiredKyuubiWorkload, constructDesiredKyuubiWorkload,
     S!constructVolumeMounts, constructVolumeMounts, S!constructVolumes,
     constructVolumes, S!Mount, Mount, S!Volume, Volume, S!FlattenSeq,
     FlattenSeq, S!DefaultKyuubiConfFile, DefaultKyuubiConfFile, S!DefaultSparkConfFile,
     DefaultSparkConfFile, S!DefaultHiveSiteFile, DefaultHiveSiteFile,
     S!DefaultHdfsSiteFile, DefaultHdfsSiteFile, S!DefaultCoreSiteFile,
     DefaultCoreSiteFile
<1>5. ASSUME NEW ports PROVE S!ExposedInfos(ports) = ExposedInfos(ports)
  BY DEF S!ExposedInfos, ExposedInfos
<1> QED BY <1>1, <1>2, <1>3, <1>4, <1>5

Second ==
    [cache |-> cache2, lag |-> lag2,
     due |-> IF queued2 \/ retry2 THEN "yes" ELSE "no",
     pc |-> pc2, kyuubi |-> kyuubi2, held |-> IF fresh2 THEN kyuubi2 ELSE Nil,
     existing |-> existing2]

Formed2 ==
    /\ api = [k \in AllKinds |-> api[k]]
    /\ cache2 = [k \in AllKinds |-> cache2[k]]
    /\ lag2 = [k \in AllKinds |-> lag2[k]]
    /\ queued2 \in BOOLEAN /\ retry2 \in BOOLEAN /\ fresh2 \in BOOLEAN

\* The fields of the record, before and after a step.
LEMMA SecondFields ==
    /\ Second.cache = cache2 /\ Second.lag = lag2 /\ Second.pc = pc2
    /\ Second.kyuubi = kyuubi2 /\ Second.existing = existing2
    /\ Second.due = (IF queued2 \/ retry2 THEN "yes" ELSE "no")
    /\ Second.held = (IF fresh2 THEN kyuubi2 ELSE Nil)
    /\ Second'.cache = cache2' /\ Second'.lag = lag2' /\ Second'.pc = pc2'
    /\ Second'.kyuubi = kyuubi2' /\ Second'.existing = existing2'
    /\ Second'.due = (IF queued2' \/ retry2' THEN "yes" ELSE "no")
    /\ Second'.held = (IF fresh2' THEN kyuubi2' ELSE Nil)
  BY DEF Second

\* What the second process writes.
LEMMA SecondWrites ==
    ASSUME Formed2, NEW k \in AllKinds, NEW v, S!Write(k, v)
    PROVE  /\ api' = [j \in AllKinds |-> api'[j]]
           /\ cache2' = [j \in AllKinds |-> cache2'[j]]
           /\ lag2' = [j \in AllKinds |-> lag2'[j]]
           /\ Writes(k, v, Second, Second')
           /\ \A j \in AllKinds \ {k} : Keeps(j, Second, Second')
<1>1. /\ api' = [api EXCEPT ![k] = v] /\ cache2' = cache2
      /\ lag2' = [lag2 EXCEPT ![k] = Append(@, v)]
  BY DEF S!Write
<1>2. \A j \in AllKinds : /\ api'[j] = (IF j = k THEN v ELSE api[j])
                          /\ lag2'[j] = (IF j = k THEN Append(lag2[k], v)
                                        ELSE lag2[j])
  BY <1>1 DEF Formed2
<1>3. /\ api' = [j \in AllKinds |-> api'[j]]
      /\ cache2' = [j \in AllKinds |-> cache2'[j]]
      /\ lag2' = [j \in AllKinds |-> lag2'[j]]
  BY <1>1 DEF Formed2
<1> QED BY <1>1, <1>2, <1>3, SecondFields DEF Writes, Keeps, KeepsCopy

\* A pass of the second process goes on to the next call.
LEMMA SecondProceeds ==
    ASSUME Formed2, ManagerOK(api, Second), pc2 # "idle",
           NEW next \in PCs \ {"idle"},
           pc2 \in BeforeWorkload => next \in BeforeWorkload,
           S!Proceed(next),
           \/ UNCHANGED S!storeVars
           \/ \E k \in AllKinds \ Followed : \E v : S!Write(k, v)
    PROVE  GoesOn(Second, Second') /\ Formed2'
<1>1. /\ pc2' = next /\ queued2' = queued2 /\ retry2' = retry2
      /\ kyuubi2' = kyuubi2
      /\ fresh2' = fresh2 /\ existing2' = existing2
  BY DEF S!Proceed, S!queueVars
<1>2. existing2 \in {<<>>, contructDesiredService}
  BY SecondFields DEF ManagerOK
<1>3. Followed \subseteq AllKinds
  BY KindFacts DEF Followed
<1>4. CASE UNCHANGED S!storeVars
  BY <1>1, <1>2, <1>3, <1>4, SecondFields
     DEF GoesOn, S!storeVars, Formed2, Keeps, KeepsCopy
<1>5. CASE \E k \in AllKinds \ Followed : \E v : S!Write(k, v)
  <2>0. PICK k \in AllKinds \ Followed : \E v : S!Write(k, v)
    BY <1>5
  <2>1. PICK v : S!Write(k, v)
    BY <2>0
  <2>2. /\ api' = [j \in AllKinds |-> api'[j]]
        /\ cache2' = [j \in AllKinds |-> cache2'[j]]
        /\ lag2' = [j \in AllKinds |-> lag2'[j]]
        /\ \A j \in AllKinds \ {k} : Keeps(j, Second, Second')
    BY <2>1, SecondWrites
  <2>3. Keeps("cr", Second, Second') /\ Keeps("sts", Second, Second')
        /\ Keeps("svc", Second, Second')
    BY <1>3, <2>1, <2>2 DEF Followed
  <2>4. Formed2'
    BY <1>1, <2>2 DEF Formed2
  <2> QED BY <1>1, <1>2, <2>3, <2>4, SecondFields DEF GoesOn
<1> QED BY <1>4, <1>5

\* A pass of the second process ends with an error.
LEMMA SecondFails ==
    ASSUME Formed2, UNCHANGED S!storeVars, S!Leave, retry2' = TRUE,
           queued2' = queued2
    PROVE  Fails(Second, Second') /\ Formed2'
  BY SecondFields
     DEF Fails, Idles, S!Leave, KeepsAll, Keeps, KeepsCopy, S!storeVars, Formed2

\* The calls before the one that writes the StatefulSet.
LEMMA SecondPrepares ==
    ASSUME Formed2, ManagerOK(api, Second),
           \/ S!createOrUpdateServiceAccount \/ S!createOrUpdateRole
           \/ S!createOrUpdateRoleBinding \/ S!createOrUpdateKyuubiConfigmap
           \/ S!waitForKyuubiConfigmap \/ S!createOrUpdateClusterRefsConfigmap
           \/ S!waitForClusterRefsConfigmap
    PROVE  (GoesOn(Second, Second') \/ Fails(Second, Second')) /\ Formed2'
<1> DEFINE Goes(next) ==
       /\ S!Proceed(next)
       /\ \/ UNCHANGED S!storeVars
          \/ \E k \in AllKinds \ Followed : \E v : S!Write(k, v)
           Errs == UNCHANGED S!storeVars /\ S!ReturnError
<1>1. ASSUME NEW k \in {"sa", "role", "rb"}, NEW next,
             S!CreateIfMissing(k, next)
      PROVE  pc2 = k /\ (Goes(next) \/ Errs)
  <2>1. k \in Access => k \in AllKinds \ Followed
    BY KindFacts DEF Followed
  <2> QED BY <1>1, <2>1 DEF S!CreateIfMissing, S!Create, S!AlreadyExists
<1>2. ASSUME NEW k \in {"kyuubiCm", "refsCm"}, NEW data, NEW wait, NEW next,
             S!CreateOrUpdateConfigMap(k, data, wait, next)
      PROVE  Goes(wait) \/ Goes(next) \/ Errs
  <2>1. k \in AllKinds \ Followed
    BY KindFacts DEF Followed
  <2> QED BY <1>2, <2>1
          DEF S!CreateOrUpdateConfigMap, S!UpdateConfigMap, S!Create,
              S!AlreadyExists
<1>3. /\ pc2 \in BeforeWorkload
      /\ Errs \/ \E next \in BeforeWorkload : Goes(next)
  <2> USE DEF BeforeWorkload, PCs
  <2> HIDE DEF Goes, Errs
  <2>1. CASE S!createOrUpdateServiceAccount
    BY <1>1, <2>1 DEF S!createOrUpdateServiceAccount
  <2>2. CASE S!createOrUpdateRole
    BY <1>1, <2>2 DEF S!createOrUpdateRole
  <2>3. CASE S!createOrUpdateRoleBinding
    BY <1>1, <2>3 DEF S!createOrUpdateRoleBinding
  <2>4. CASE S!createOrUpdateKyuubiConfigmap
    BY <1>2, <2>4 DEF S!createOrUpdateKyuubiConfigmap
  <2>5. CASE S!waitForKyuubiConfigmap
    BY <2>5 DEF S!waitForKyuubiConfigmap, S!WaitForConfigMap, Goes
  <2>6. CASE S!createOrUpdateClusterRefsConfigmap
    BY <1>2, <2>6 DEF S!createOrUpdateClusterRefsConfigmap, Errs
  <2>7. CASE S!waitForClusterRefsConfigmap
    BY <2>7 DEF S!waitForClusterRefsConfigmap, S!WaitForConfigMap, Goes
  <2> QED BY <2>1, <2>2, <2>3, <2>4, <2>5, <2>6, <2>7
<1>4. CASE Errs
  BY <1>4, SecondFails DEF S!ReturnError
<1>5. CASE \E next \in BeforeWorkload : Goes(next)
  <2>1. PICK next \in BeforeWorkload : Goes(next)
    BY <1>5
  <2>2. next \in PCs \ {"idle"} /\ pc2 # "idle"
    BY <1>3 DEF BeforeWorkload
  <2> QED BY <2>1, <2>2, SecondProceeds
<1> QED BY <1>3, <1>4, <1>5

\* createOrUpdateKyuubi leaves the StatefulSet of the copy in hand.
LEMMA SecondBuilds ==
    ASSUME Formed2, ManagerOK(api, Second), S!createOrUpdateKyuubi
    PROVE  (Builds(Second, Second') \/ Fails(Second, Second')) /\ Formed2'
<1> DEFINE desired == constructDesiredKyuubiWorkload(kyuubi2.spec)
           v == Workload(kyuubi2)
<1>1. /\ pc2 = "sts" /\ "sts" \in Followed /\ Followed \subseteq AllKinds
      /\ "sts" \in Kinds
  BY KindFacts DEF S!createOrUpdateKyuubi, Followed
<1>2. ASSUME S!Proceed("svc"),
             S!Write("sts", v) \/ (UNCHANGED S!storeVars /\ api["sts"] = v)
      PROVE  Builds(Second, Second') /\ Formed2'
  <2> HIDE DEF v
  <2>1. /\ pc2' = "svc" /\ queued2' = queued2 /\ retry2' = retry2
        /\ kyuubi2' = kyuubi2
        /\ fresh2' = fresh2 /\ existing2' = existing2
    BY <1>2 DEF S!Proceed, S!queueVars
  <2>2. /\ Formed2' /\ api'["sts"] = v
        /\ Keeps("cr", Second, Second') /\ Keeps("svc", Second, Second')
        /\ Keeps("sts", Second, Second') \/ Writes("sts", v, Second, Second')
    <3>1. CASE S!Write("sts", v)
      BY <1>1, <2>1, <3>1, SecondWrites DEF Formed2, Followed, Writes
    <3>2. CASE UNCHANGED S!storeVars /\ api["sts"] = v
      BY <2>1, <3>2, SecondFields DEF S!storeVars, Formed2, Keeps, KeepsCopy
    <3> QED BY <1>2, <3>1, <3>2
  <2> QED BY <1>1, <2>1, <2>2, SecondFields DEF Builds, v
<1>3. CASE S!Create("sts", ServerDefaults(desired)) /\ S!Proceed("svc")
  BY <1>2, <1>3 DEF S!Create, Workload
<1>4. CASE cache2["sts"] # Nil /\ S!UpdateWorkload(desired) /\ S!Proceed("svc")
  <2>1. cache2["sts"].data # desired
    <3>1. cache2["sts"] \in Copies("sts")
      BY <1>1, SecondFields DEF ManagerOK, View
    <3> QED BY <1>1, <1>4, <3>1, CopyFacts, StoredWorkloadDiffers
  <2> QED BY <1>2, <1>4, <2>1, SameOperators DEF S!UpdateWorkload, Workload
<1>5. CASE UNCHANGED S!storeVars /\ S!ReturnError
  BY <1>5, SecondFails DEF S!ReturnError
<1> QED BY <1>3, <1>4, <1>5, SameOperators DEF S!createOrUpdateKyuubi

\* createOrUpdateService finds the Service or creates it.
LEMMA SecondExposes ==
    ASSUME Formed2, ManagerOK(api, Second), S!createOrUpdateService
    PROVE  (GoesOn(Second, Second') \/ Fails(Second, Second')) /\ Formed2'
<1> DEFINE v == [owner |-> kyuubi2.uid, data |-> contructDesiredService]
<1>1. /\ pc2 = "svc" /\ "svc" \in Followed /\ Followed \subseteq AllKinds
      /\ "svc" \in Kinds /\ pc2 \notin BeforeWorkload
      /\ "status" \in PCs \ {"idle"}
  BY KindFacts DEF S!createOrUpdateService, Followed, BeforeWorkload, PCs
<1>2. CASE /\ cache2["svc"] # Nil /\ existing2' = cache2["svc"].data
           /\ pc2' = "status"
           /\ UNCHANGED <<S!storeVars, S!queueVars, kyuubi2, fresh2, S!history>>
  <2>1. cache2["svc"] \in Copies("svc")
    BY <1>1, SecondFields DEF ManagerOK, View
  <2>2. cache2["svc"].data = contructDesiredService
    BY <1>1, <1>2, <2>1, CopyFacts, ServiceManifest
  <2> QED BY <1>1, <1>2, <2>2, SecondFields
          DEF GoesOn, S!storeVars, S!queueVars, Formed2, Keeps, KeepsCopy
<1>3. CASE S!Create("svc", contructDesiredService) /\ S!Proceed("status")
  <2>1. kyuubi2 \in Cluster
    BY <1>1, SecondFields, CopyFacts DEF ManagerOK
  <2>2. v \in Copies("svc")
    <3>1. v \in Object("svc")
      BY <2>1, ServiceManifest DEF Object, Cluster
    <3> QED BY <1>1, <3>1, CopyFacts
  <2>3. S!Write("svc", v)
    BY <1>3 DEF S!Create
  <2> HIDE DEF v
  <2>4. /\ pc2' = "status" /\ queued2' = queued2 /\ retry2' = retry2
        /\ kyuubi2' = kyuubi2 /\ fresh2' = fresh2 /\ existing2' = existing2
    BY <1>3 DEF S!Proceed, S!queueVars
  <2>5. /\ Formed2' /\ Writes("svc", v, Second, Second')
        /\ Keeps("cr", Second, Second') /\ Keeps("sts", Second, Second')
    BY <1>1, <2>3, <2>4, SecondWrites DEF Formed2, Followed
  <2>6. existing2 \in {<<>>, contructDesiredService}
    BY SecondFields DEF ManagerOK
  <2> QED BY <1>1, <2>2, <2>4, <2>5, <2>6, SecondFields DEF GoesOn
<1>4. CASE S!AlreadyExists("svc")
  BY <1>4, SecondFails DEF S!AlreadyExists, S!ReturnError
<1> QED BY <1>2, <1>3, <1>4, SameOperators DEF S!createOrUpdateService

\* updateKyuubiClusterStatus ends the pass, and only writes over the copy in
\* hand.
LEMMA SecondEnds ==
    ASSUME Formed2, ManagerOK(api, Second), S!updateKyuubiClusterStatus
    PROVE  (Ends(Second, Second') \/ Fails(Second, Second')) /\ Formed2'
<1>1. /\ pc2 = "status" /\ "cr" \in Followed /\ Followed \subseteq AllKinds
  BY KindFacts DEF S!updateKyuubiClusterStatus, Followed
<1>2. kyuubi2 \in Cluster /\ kyuubi2 # Nil
  BY <1>1, SecondFields, CopyFacts DEF ManagerOK
<1>3. CASE S!Leave /\ UNCHANGED <<S!storeVars, S!queueVars, S!history>>
  BY <1>1, <1>3, SecondFields
     DEF Ends, Idles, S!Leave, S!storeVars, S!queueVars, Formed2, Keeps,
         KeepsCopy
<1>4. CASE /\ fresh2
           /\ \E now \in Time :
                 S!Write("cr", [api["cr"] EXCEPT !.status =
                                [exposedInfos |-> ExposedInfos(existing2),
                                 creationTime |-> S!CreationTime(now)]])
           /\ S!Leave /\ UNCHANGED <<S!queueVars, S!history>>
  <2>1. PICK now \in Time :
          S!Write("cr", [api["cr"] EXCEPT !.status =
                         [exposedInfos |-> ExposedInfos(existing2),
                          creationTime |-> S!CreationTime(now)]])
    BY <1>4
  <2> DEFINE st == [exposedInfos |-> ExposedInfos(existing2),
                    creationTime |-> S!CreationTime(now)]
             v == [api["cr"] EXCEPT !.status = st]
  <2>2. st \in Status
    BY <1>2, SecondFields, StoredStatus DEF S!CreationTime, ManagerOK, Cluster
  <2> HIDE DEF st
  <2>3. S!Write("cr", v)
    BY <2>1 DEF st
  <2> HIDE DEF v
  <2>4. Idles(Second') /\ queued2' = queued2 /\ retry2' = retry2
    BY <1>4, SecondFields DEF Idles, S!Leave, S!queueVars
  <2>5. /\ Formed2' /\ Writes("cr", v, Second, Second')
        /\ Keeps("svc", Second, Second') /\ Keeps("sts", Second, Second')
    BY <1>1, <1>4, <2>3, <2>4, SecondWrites DEF Formed2, Followed, S!Leave
  <2>6. Second.held # Nil
    BY <1>2, <1>4, SecondFields
  <2> QED BY <1>1, <2>2, <2>4, <2>5, <2>6, SecondFields DEF Ends, v
<1>5. CASE UNCHANGED S!storeVars /\ S!ReturnError
  BY <1>5, SecondFails DEF S!ReturnError
<1> QED BY <1>3, <1>4, <1>5, SameOperators DEF S!updateKyuubiClusterStatus

\* A pass begins, or finds no KyuubiCluster and is repeated later.
LEMMA SecondStarts ==
    ASSUME Formed2, S!Reconcile
    PROVE  (Starts(Second, Second') \/ Reminded(Second, Second')) /\ Formed2'
<1>1. /\ UNCHANGED S!storeVars /\ pc2 = "idle"
      /\ \/ cache2["cr"] = Nil /\ retry2' = TRUE /\ UNCHANGED S!localVars
         \/ /\ cache2["cr"] # Nil /\ pc2' = "sa" /\ kyuubi2' = cache2["cr"]
            /\ fresh2' = (lag2["cr"] = <<>>) /\ UNCHANGED <<retry2, existing2>>
  BY DEF S!Reconcile
<1>2. KeepsAll(Second, Second')
  BY <1>1, SecondFields DEF KeepsAll, Keeps, KeepsCopy, S!storeVars
<1>3. Formed2'
  BY <1>1 DEF S!Reconcile, Formed2, S!storeVars, S!localVars
<1>4. CASE retry2' = TRUE /\ UNCHANGED S!localVars
  BY <1>2, <1>3, <1>4, SecondFields DEF Reminded, KeepsLocals, S!localVars
<1>5. CASE /\ cache2["cr"] # Nil /\ pc2' = "sa" /\ kyuubi2' = cache2["cr"]
           /\ fresh2' = (lag2["cr"] = <<>>) /\ UNCHANGED <<retry2, existing2>>
  BY <1>1, <1>2, <1>3, <1>5, SecondFields DEF Starts
<1> QED BY <1>1, <1>4, <1>5

\* What the controller of the second process does is the work of a manager.
LEMMA SecondWorks ==
    ASSUME Formed2, ManagerOK(api, Second),
           S!Operator \/ S!RetryExpires \/ S!Resync \/ S!CallFails
    PROVE  Works(Second, Second') /\ Formed2'
<1>1. CASE S!Operator
  BY <1>1, SecondStarts, SecondPrepares, SecondBuilds, SecondExposes, SecondEnds
     DEF S!Operator, Works
<1>2. CASE S!RetryExpires \/ S!Resync
  <2>1. /\ UNCHANGED S!storeVars /\ UNCHANGED S!localVars /\ queued2' = TRUE
        /\ retry2' \in BOOLEAN
    BY <1>2 DEF S!RetryExpires, S!Resync, Formed2
  <2>2. Reminded(Second, Second')
    BY <2>1, SecondFields DEF Reminded, KeepsLocals, KeepsAll, Keeps, KeepsCopy,
       S!storeVars, S!localVars
  <2> QED BY <2>1, <2>2 DEF Works, Formed2, S!storeVars, S!localVars
<1>3. CASE S!CallFails
  BY <1>3, SecondFails DEF S!CallFails, Works
<1> QED BY <1>1, <1>2, <1>3

\* An event is delivered to an informer of the second process.
LEMMA SecondHears ==
    ASSUME Formed2, NEW k \in AllKinds, S!DeliverEvent(k)
    PROVE  Hears(Second, Second') /\ Formed2'
<1>1. /\ lag2[k] # <<>> /\ api' = api
      /\ cache2' = [cache2 EXCEPT ![k] = Head(lag2[k])]
      /\ lag2' = [lag2 EXCEPT ![k] = Tail(@)]
      /\ queued2' = (queued2 \/ k = "cr")
      /\ retry2' = retry2 /\ UNCHANGED S!localVars
  BY DEF S!DeliverEvent
<1>2. /\ Formed2'
      /\ cache2'[k] = Head(lag2[k]) /\ lag2'[k] = Tail(lag2[k])
      /\ \A j \in AllKinds \ {k} : cache2'[j] = cache2[j] /\ lag2'[j] = lag2[j]
  BY <1>1 DEF Formed2, S!localVars
<1>3. /\ Reads(k, Second, Second')
      /\ \A j \in AllKinds \ {k} : Keeps(j, Second, Second')
  BY <1>1, <1>2, SecondFields DEF Reads, Keeps, KeepsCopy
<1>4. Second'.due = (IF k = "cr" THEN "yes" ELSE Second.due)
  BY <1>1, SecondFields DEF Formed2
<1>5. KeepsLocals(Second, Second') /\ Followed \subseteq AllKinds
  BY <1>1, SecondFields, KindFacts DEF KeepsLocals, S!localVars, Followed
<1> QED BY <1>2, <1>3, <1>4, <1>5 DEF Hears

\* The second process is replaced by a new one.
LEMMA SecondRestartsAsManager ==
    ASSUME Formed2, S!Restart
    PROVE  Restarts(Second, Second') /\ Formed2'
<1>1. /\ api' = api /\ cache2' = api /\ lag2' = [k \in AllKinds |-> <<>>]
      /\ queued2' = (api["cr"] # Nil) /\ retry2' = FALSE /\ S!Leave
  BY SameOperators DEF S!Restart
<1>2. Followed \subseteq AllKinds
  BY KindFacts DEF Followed
<1> QED BY <1>1, <1>2, SecondFields DEF Restarts, Idles, S!Leave, Formed2

\* The controller of the second process starts to work.
LEMMA SecondAcquiresAsManager ==
    ASSUME Formed2, SecondAcquires, pc2 = "idle"
    PROVE  Acquires(Second, Second') /\ Formed2'
<1>1. /\ queued2' = (cache2["cr"] # Nil) /\ UNCHANGED S!storeVars
      /\ retry2' = retry2
      /\ UNCHANGED S!localVars
  BY DEF SecondAcquires, vars, storeVars, S!storeVars, S!localVars
<1>2. Formed2' /\ KeepsLocals(Second, Second') /\ KeepsAll(Second, Second')
  BY <1>1, SecondFields DEF Formed2, KeepsLocals, KeepsAll, Keeps, KeepsCopy,
     S!storeVars, S!localVars
<1> QED BY <1>1, <1>2, SecondFields DEF Acquires

\* The second process notices what another actor has done.
LEMMA SecondNotices ==
    ASSUME Formed2, SecondIsTold, api' = [k \in AllKinds |-> api'[k]]
    PROVE  IsTold(Second, Second') /\ Formed2'
<1>1. /\ lag2' = Told(lag2) /\ fresh2' = (fresh2 /\ api'["cr"] = api["cr"])
      /\ cache2' = cache2 /\ queued2' = queued2 /\ retry2' = retry2
      /\ pc2' = pc2
      /\ kyuubi2' = kyuubi2 /\ existing2' = existing2
  BY DEF SecondIsTold, ownVars2
<1>2. Followed \subseteq AllKinds
  BY KindFacts DEF Followed
<1>3. \A k \in AllKinds :
         IF api'[k] = api[k] THEN KeepsCopy(k, Second, Second')
         ELSE Writes(k, api'[k], Second, Second')
  BY <1>1, SecondFields DEF Told, KeepsCopy, Writes
<1>4. Formed2'
  BY <1>1 DEF Formed2, Told
<1> QED BY <1>1, <1>2, <1>3, <1>4, SecondFields DEF IsTold, Formed2

-----------------------------------------------------------------------------
(***************************************************************************)
(* Two managers, p and q, of which m and x are the records, over objects a *)
(* with the lease le, l: leader election and the holder.                   *)
(***************************************************************************)
\* A manager that has nothing to do but, perhaps, to end a pass.
Done(m) == Quiet(m) /\ m.pc \notin BeforeWorkload

Right(a) ==
    /\ a["sts"] # Nil
    /\ a["sts"].owner = a["cr"].uid
    /\ a["sts"].data \in Wanted["sts"][a["cr"].spec]

\* The inductive invariant: who does not lead is idle, and when all who lead are
\* done with the StatefulSet it is what the KyuubiCluster asks for.
Pair(a, le, l, p, m, q, x) ==
    /\ ManagerOK(a, m) /\ ManagerOK(a, x)
    /\ l \in {Nil, p, q}
    /\ ~(le => l = p) => m.pc = "idle"
    /\ ~(le => l = q) => x.pc = "idle"
    /\ /\ le => l # Nil
       /\ (le => l = p) => Done(m)
       /\ (le => l = q) => Done(x)
       /\ a["cr"] # Nil
       => Right(a)

\* The two are interchangeable.
LEMMA PairSymmetry ==
    ASSUME NEW a, NEW le, NEW l, NEW p, NEW q, NEW m, NEW x,
           Pair(a, le, l, p, m, q, x)
    PROVE  Pair(a, le, l, q, x, p, m)
  BY DEF Pair

\* One of the two takes a step, the other is told.
LEMMA PairStep ==
    ASSUME NEW p, NEW q, p # q, Nil \notin {p, q},
           NEW m, NEW n, NEW x, NEW y,
           Pair(api, leaderElect, leader, p, m, q, x),
           IsTold(x, y), leaderElect' = leaderElect,
           \/ (leaderElect => leader = p) /\ Works(m, n) /\ leader' = leader
           \/ Hears(m, n) /\ leader' = leader
           \/ Restarts(m, n) /\ leader' = (IF leader = p THEN Nil ELSE leader)
           \/ Acquires(m, n) /\ leaderElect /\ leader = Nil /\ leader' = p
    PROVE  Pair(api', leaderElect', leader', p, n, q, y)
<1>1. /\ ManagerOK(api', n)
      /\ \A k \in Followed : api'[k] \in Copies(k)
  BY ActStep DEF Pair
<1>2. /\ ManagerOK(api', y) /\ y.pc = x.pc
      /\ Quiet(y) => Quiet(x)
  BY <1>1, ToldStep DEF Pair
<1>3. leader' \in {Nil, p, q}
  BY DEF Pair
<1>4. ~(leaderElect' => leader' = q) => y.pc = "idle"
  BY <1>2 DEF Pair
<1>5. ~(leaderElect' => leader' = p) => n.pc = "idle"
  BY DEF Pair, Hears, KeepsLocals, Restarts, Idles
<1>6. ASSUME leaderElect' => leader' # Nil, api'["cr"] # Nil,
             (leaderElect' => leader' = p) => Done(n),
             (leaderElect' => leader' = q) => Done(y)
      PROVE  Right(api')
  <2>0. "cr" \in Followed /\ "sts" \in Followed
    BY DEF Followed
  <2>1. Done(y) => Done(x)
    BY <1>2 DEF Done
  <2>2. CASE (leaderElect => leader = p) /\ Works(m, n) /\ leader' = leader
    <3>1. /\ api'["cr"] = api["cr"]
          /\ \/ InSync("sts")'
             \/ Quiet(m) /\ m.pc \notin BeforeWorkload /\ api'["sts"] = api["sts"]
      BY <1>6, <2>2, QuietWork DEF Done, Pair
    <3>2. CASE InSync("sts")'
      BY <3>2 DEF InSync, Right
    <3>3. CASE Done(m) /\ api'["sts"] = api["sts"]
      BY <1>6, <2>1, <2>2, <3>1, <3>3 DEF Pair, Right
    <3> QED BY <3>1, <3>2, <3>3 DEF Done
  <2>3. CASE Hears(m, n) /\ leader' = leader
    <3>1. api'["cr"] = api["cr"] /\ api'["sts"] = api["sts"]
      BY <2>0, <2>3 DEF Hears, Reads, Keeps
    <3>2. Done(n) => Done(m)
      BY <2>0, <2>3 DEF Hears, Done, Quiet, KeepsLocals, Keeps, KeepsCopy
    <3> QED BY <1>6, <2>1, <2>3, <3>1, <3>2 DEF Pair, Right
  <2>4. CASE Restarts(m, n) /\ leader' = (IF leader = p THEN Nil ELSE leader)
    <3>1. api'["cr"] = api["cr"] /\ api'["sts"] = api["sts"]
      BY <2>0, <2>4 DEF Restarts
    <3>2. ~(leaderElect' => leader' = p)
      BY <1>6, <2>4, <3>1 DEF Restarts, Done, Quiet
    <3>3. leaderElect /\ leader = q /\ leader' = q
      BY <1>6, <2>4, <3>2 DEF Pair
    <3> QED BY <1>6, <2>1, <3>1, <3>3 DEF Pair, Right
  <2>5. CASE Acquires(m, n) /\ leaderElect /\ leader = Nil /\ leader' = p
    <3>1. n.lag["cr"] = <<>> /\ n.due = "no"
      BY <1>6, <2>5 DEF Done, Quiet
    <3>2. /\ m.cache["cr"] = Nil /\ m.lag["cr"] = <<>>
          /\ api'["cr"] = api["cr"]
      BY <2>0, <2>5, <3>1 DEF Acquires, KeepsAll, Keeps, KeepsCopy
    <3>3. api["cr"] = Nil
      BY <2>0, <3>2 DEF Pair, ManagerOK, View
    <3> QED BY <1>6, <3>2, <3>3
  <2> QED BY <2>2, <2>3, <2>4, <2>5
<1> QED BY <1>1, <1>2, <1>3, <1>4, <1>5, <1>6 DEF Pair

\* The user or the garbage collector takes a step, and both are told.
LEMMA PairIsTold ==
    ASSUME NEW p, NEW q, p # q, Nil \notin {p, q},
           NEW m, NEW n, NEW x, NEW y,
           Pair(api, leaderElect, leader, p, m, q, x),
           IsTold(m, n), IsTold(x, y), UNCHANGED leaseVars,
           \A k \in Followed : api'[k] \in Copies(k),
           \/ api'["cr"] # api["cr"]
           \/ api'["sts"] = api["sts"]
           \/ api["cr"] # Nil => api["cr"].uid # api["sts"].owner
    PROVE  Pair(api', leaderElect', leader', p, n, q, y)
<1>1. /\ ManagerOK(api', n) /\ n.pc = m.pc /\ (Quiet(n) => Quiet(m))
      /\ api'["cr"] # api["cr"] => ~Quiet(n)
  BY ToldStep DEF Pair
<1>2. /\ ManagerOK(api', y) /\ y.pc = x.pc /\ (Quiet(y) => Quiet(x))
      /\ api'["cr"] # api["cr"] => ~Quiet(y)
  BY ToldStep DEF Pair
<1>3. leader' = leader /\ leaderElect' = leaderElect
  BY DEF leaseVars
<1>4. ASSUME leaderElect' => leader' # Nil, api'["cr"] # Nil,
             (leaderElect' => leader' = p) => Done(n),
             (leaderElect' => leader' = q) => Done(y)
      PROVE  Right(api')
  <2>1. Done(n) \/ Done(y)
    BY <1>3, <1>4 DEF Pair
  <2>2. api'["cr"] = api["cr"]
    BY <1>1, <1>2, <2>1 DEF Done
  <2>3. Right(api)
    BY <1>1, <1>2, <1>3, <1>4, <2>2 DEF Pair, Done
  <2> QED BY <1>4, <2>2, <2>3 DEF Right
<1> QED BY <1>1, <1>2, <1>3, <1>4 DEF Pair

-----------------------------------------------------------------------------
(***************************************************************************)
(* The composition.                                                        *)
(***************************************************************************)
UsedOK == used \in [Bounds -> Nat] /\ used["creates"] <= MaxCreates

ManagersInv ==
    /\ Formed /\ Formed2 /\ UsedOK
    /\ Pair(api, leaderElect, leader, "first", First, "second", Second)

\* The user stores, changes or removes the KyuubiCluster, and nothing else.
LEMMA UserActs ==
    ASSUME Formed, UsedOK, api["cr"] \in Copies("cr"), User
    PROVE  /\ IsTold(First, First') /\ Formed' /\ UsedOK'
           /\ api'["cr"] # api["cr"] /\ api'["cr"] \in Copies("cr")
           /\ \A k \in AllKinds \ {"cr"} : api'[k] = api[k]
<1>1. "cr" \in AllKinds /\ Followed \subseteq AllKinds
  BY KindFacts DEF Followed
<1>2. ASSUME NEW v \in Copies("cr"), v # api["cr"], WriteCluster(v),
             UNCHANGED <<queueVars, pc, kyuubi, existing>>
      PROVE  /\ IsTold(First, First') /\ Formed'
             /\ api'["cr"] # api["cr"] /\ api'["cr"] \in Copies("cr")
             /\ \A k \in AllKinds \ {"cr"} : api'[k] = api[k]
  <2>1. /\ fresh' = FALSE /\ queued' = queued /\ retry' = retry /\ pc' = pc
        /\ kyuubi' = kyuubi /\ existing' = existing /\ Write("cr", v)
    BY <1>2 DEF WriteCluster, queueVars
  <2>2. /\ api' = [j \in AllKinds |-> api'[j]]
        /\ cache' = [j \in AllKinds |-> cache'[j]]
        /\ lag' = [j \in AllKinds |-> lag'[j]]
        /\ Writes("cr", v, First, First')
        /\ \A j \in AllKinds \ {"cr"} : Keeps(j, First, First')
    BY <1>1, <2>1, FirstWrites
  <2>3. Formed'
    BY <2>1, <2>2 DEF Formed
  <2>4. /\ api'["cr"] = v
        /\ \A k \in AllKinds \ {"cr"} :
              api'[k] = api[k] /\ KeepsCopy(k, First, First')
    BY <2>2 DEF Writes, Keeps
  <2>5. \A k \in Followed :
           IF api'[k] = api[k] THEN KeepsCopy(k, First, First')
           ELSE Writes(k, api'[k], First, First')
    BY <1>1, <1>2, <2>2, <2>4
  <2>6. First'.held = Nil
    BY <2>1, FirstFields
  <2>7. IsTold(First, First')
    BY <2>1, <2>5, <2>6, FirstFields DEF IsTold
  <2> QED BY <1>2, <2>3, <2>4, <2>7
<1>3. ASSUME NEW spec \in Specs, UserCreates(spec)
      PROVE  \E v \in Copies("cr") :
                v # api["cr"] /\ WriteCluster(v) /\ UsedOK'
  <2> DEFINE v == [uid |-> used["creates"] + 1, generation |-> 1,
                   spec |-> spec, status |-> NoStatus]
  <2>1. /\ used["creates"] \in Nat /\ used["creates"] < MaxCreates /\ UsedOK'
    BY <1>3, BoundsAssumption DEF UserCreates, Use, UsedOK, Bounds
  <2>2. v \in Cluster
    BY <2>1, BoundsAssumption DEF Cluster, Status
  <2>3. v \in Copies("cr") /\ v # Nil
    BY <2>2, CopyFacts
  <2>4. api["cr"] = Nil /\ WriteCluster(v)
    BY <1>3 DEF UserCreates, Default
  <2> QED BY <2>1, <2>3, <2>4
<1>4. ASSUME NEW spec \in Specs, UserEdits(spec)
      PROVE  \E v \in Copies("cr") :
                v # api["cr"] /\ WriteCluster(v) /\ UsedOK'
  <2> DEFINE v == [api["cr"] EXCEPT !.spec = spec, !.generation = @ + 1]
  <2>1. api["cr"] \in Cluster /\ api["cr"].spec # spec
    BY <1>4, CopyFacts DEF UserEdits
  <2>2. v \in Cluster
    BY <2>1, EditedCluster
  <2>3. v.spec = spec
    BY <2>1 DEF Cluster
  <2>4. WriteCluster(v)
    BY <1>4 DEF UserEdits, Default
  <2>5. UsedOK'
    BY <1>4, BoundsAssumption DEF UserEdits, Use, UsedOK, Bounds
  <2> HIDE DEF v
  <2>6. v \in Copies("cr") /\ v # api["cr"]
    BY <2>1, <2>2, <2>3, CopyFacts
  <2> QED BY <2>4, <2>5, <2>6
<1>5. ASSUME UserDeletes
      PROVE  /\ Nil \in Copies("cr") /\ Nil # api["cr"] /\ WriteCluster(Nil)
             /\ UsedOK'
  <2>1. UsedOK'
    BY <1>5, BoundsAssumption DEF UserDeletes, Use, UsedOK, Bounds
  <2> QED BY <1>1, <1>5, <2>1, CopyFacts DEF UserDeletes
<1>6. UNCHANGED <<queueVars, pc, kyuubi, existing>>
  BY DEF User, UserCreates, UserEdits, UserDeletes
<1>7. \E v \in Copies("cr") : v # api["cr"] /\ WriteCluster(v) /\ UsedOK'
  BY <1>3, <1>4, <1>5 DEF User
<1> QED BY <1>2, <1>6, <1>7

\* The garbage collector removes an object that has lost its owner.
LEMMA CollectorActs ==
    ASSUME Formed, UsedOK, NEW k \in Kinds, GarbageCollect(k)
    PROVE  /\ IsTold(First, First') /\ Formed' /\ UsedOK'
           /\ api'[k] = Nil /\ \A j \in AllKinds \ {k} : api'[j] = api[j]
           /\ api["cr"] # Nil => api["cr"].uid # api[k].owner
<1>1. k \in AllKinds /\ k # "cr" /\ Followed \subseteq AllKinds
  BY KindFacts DEF Followed
<1>2. /\ api[k] # Nil /\ Write(k, Nil)
      /\ UNCHANGED queueVars /\ UNCHANGED localVars /\ UNCHANGED history
      /\ api["cr"] # Nil => api["cr"].uid # api[k].owner
  BY DEF GarbageCollect
<1>3. /\ api' = [j \in AllKinds |-> api'[j]]
      /\ cache' = [j \in AllKinds |-> cache'[j]]
      /\ lag' = [j \in AllKinds |-> lag'[j]]
      /\ Writes(k, Nil, First, First')
      /\ \A j \in AllKinds \ {k} : Keeps(j, First, First')
  BY <1>1, <1>2, FirstWrites
<1>4. Formed' /\ UsedOK'
  BY <1>2, <1>3 DEF Formed, UsedOK, queueVars, localVars, history
<1>5. api'[k] = Nil /\ \A j \in AllKinds \ {k} : api'[j] = api[j]
  BY <1>3 DEF Writes, Keeps
<1>6. \A j \in Followed :
         IF api'[j] = api[j] THEN KeepsCopy(j, First, First')
         ELSE Writes(j, api'[j], First, First')
  BY <1>1, <1>2, <1>3, <1>5 DEF Keeps
<1>7. api'["cr"] = api["cr"]
  BY <1>1, <1>5, KindFacts
<1>8. IsTold(First, First')
  BY <1>2, <1>6, <1>7, FirstFields DEF IsTold, queueVars, localVars
<1> QED BY <1>2, <1>4, <1>5, <1>8

\* Nobody is told of anything when a lease is taken.
LEMMA FirstUntouched ==
    ASSUME Formed, SecondAcquires
    PROVE  IsTold(First, First') /\ Formed'
  BY FirstFields DEF SecondAcquires, IsTold, KeepsCopy, vars, storeVars, queueVars,
     localVars, Formed

\* And the other way round.
LEMMA SecondUntouched ==
    ASSUME Formed2, FirstAcquires
    PROVE  IsTold(Second, Second') /\ Formed2'
  BY SecondFields DEF FirstAcquires, IsTold, KeepsCopy, storeVars, ownVars2,
     Formed2

\* The bound on the creations holds, whoever acts.
LEMMA UsedSteps ==
    ASSUME UsedOK
    PROVE  /\ Operator \/ RetryExpires \/ Resync \/ CallFails \/ Restart => UsedOK'
           /\ \A k \in AllKinds : DeliverEvent(k) => UsedOK'
           /\ \/ S!Operator \/ S!RetryExpires \/ S!Resync \/ S!CallFails \/ S!Restart
              => UsedOK'
           /\ \A k \in AllKinds : S!DeliverEvent(k) => UsedOK'
<1>1. ASSUME used' = used PROVE UsedOK'
  BY <1>1 DEF UsedOK
<1>2. Use("faults", MaxFaults) \/ S!Use("faults", MaxFaults) => UsedOK'
  BY DEF UsedOK, Use, S!Use, Bounds
<1>3. Operator => used' = used
  BY DEF Operator, Reconcile, createOrUpdateServiceAccount, createOrUpdateRole,
     createOrUpdateRoleBinding, CreateIfMissing, AlreadyExists, ReturnError,
     createOrUpdateKyuubiConfigmap, waitForKyuubiConfigmap,
     createOrUpdateClusterRefsConfigmap, waitForClusterRefsConfigmap,
     CreateOrUpdateConfigMap, UpdateConfigMap, WaitForConfigMap,
     createOrUpdateKyuubi, createOrUpdateService, updateKyuubiClusterStatus,
     Proceed, history
<1>4. S!Operator => used' = used
  BY DEF S!Operator, S!Reconcile, S!createOrUpdateServiceAccount,
     S!createOrUpdateRole, S!createOrUpdateRoleBinding, S!CreateIfMissing,
     S!AlreadyExists, S!ReturnError, S!createOrUpdateKyuubiConfigmap,
     S!waitForKyuubiConfigmap, S!createOrUpdateClusterRefsConfigmap,
     S!waitForClusterRefsConfigmap, S!CreateOrUpdateConfigMap,
     S!UpdateConfigMap, S!WaitForConfigMap, S!createOrUpdateKyuubi,
     S!createOrUpdateService, S!updateKyuubiClusterStatus, S!Proceed, S!history
<1>5. /\ RetryExpires \/ Resync => used' = used
      /\ \A k \in AllKinds : DeliverEvent(k) => used' = used
  BY DEF RetryExpires, Resync, DeliverEvent, history
<1>6. /\ S!RetryExpires \/ S!Resync => used' = used
      /\ \A k \in AllKinds : S!DeliverEvent(k) => used' = used
  BY DEF S!RetryExpires, S!Resync, S!DeliverEvent, S!history
<1>7. (CallFails \/ Restart) \/ (S!CallFails \/ S!Restart) => UsedOK'
  BY <1>2 DEF CallFails, Restart, S!CallFails, S!Restart
<1> QED BY <1>1, <1>3, <1>4, <1>5, <1>6, <1>7

\* Every step of the composition.
LEMMA ManagersStep ==
    ManagersInv /\ [ManagersNext]_managerVars => ManagersInv'
<1> SUFFICES ASSUME ManagersInv, [ManagersNext]_managerVars
             PROVE  ManagersInv'
  OBVIOUS
<1>0. /\ Formed /\ Formed2 /\ UsedOK
      /\ ManagerOK(api, First) /\ ManagerOK(api, Second)
      /\ Pair(api, leaderElect, leader, "first", First, "second", Second)
      /\ Pair(api, leaderElect, leader, "second", Second, "first", First)
      /\ Nil \notin {"first", "second"} /\ Followed \subseteq AllKinds
  BY PairSymmetry, LeaseAssumption, KindFacts DEF ManagersInv, Pair, Followed
<1>1. CASE Environment
  <2>1. /\ Formed' /\ UsedOK' /\ IsTold(First, First')
        /\ \A k \in Followed : api'[k] \in Copies(k)
        /\ \/ api'["cr"] # api["cr"]
           \/ api'["sts"] = api["sts"]
           \/ api["cr"] # Nil => api["cr"].uid # api["sts"].owner
    <3>1. \A k \in Followed : api[k] \in Copies(k) /\ Nil \in Copies(k)
      BY <1>0, CopyFacts DEF ManagerOK, View
    <3>2. CASE User
      BY <1>0, <3>1, <3>2, UserActs DEF Followed
    <3>3. CASE \E k \in Kinds : GarbageCollect(k)
      <4>1. PICK k \in Kinds : GarbageCollect(k)
        BY <3>3
      <4> QED BY <1>0, <3>1, <4>1, CollectorActs DEF Followed
    <3> QED BY <1>1, <3>2, <3>3 DEF Environment
  <2>2. IsTold(Second, Second') /\ Formed2' /\ UNCHANGED leaseVars
    BY <1>0, <1>1, <2>1, SecondNotices DEF Environment, Formed
  <2> QED BY <1>0, <2>1, <2>2, PairIsTold DEF ManagersInv
<1>2. CASE FirstManager \/ FirstRestarts \/ FirstAcquires
  <2>1. /\ Formed' /\ UsedOK' /\ leaderElect' = leaderElect
        /\ \/ /\ (leaderElect => leader = "first") /\ Works(First, First')
              /\ leader' = leader
           \/ Hears(First, First') /\ leader' = leader
           \/ /\ Restarts(First, First')
              /\ leader' = (IF leader = "first" THEN Nil ELSE leader)
           \/ /\ Acquires(First, First')
              /\ leaderElect /\ leader = Nil /\ leader' = "first"
    <3>1. CASE FirstManager
      BY <1>0, <3>1, FirstWorks, FirstHears, UsedSteps
         DEF FirstManager, Leads, leaseVars
    <3>2. CASE FirstRestarts
      BY <1>0, <3>2, FirstRestartsAsManager, UsedSteps DEF FirstRestarts, Released
    <3>3. CASE FirstAcquires
      <4>1. pc = "idle"
        BY <1>0, <3>3, FirstFields DEF FirstAcquires, Pair
      <4>2. used' = used /\ leaderElect' = leaderElect
        BY <3>3 DEF FirstAcquires, history
      <4> QED BY <1>0, <3>3, <4>1, <4>2, FirstAcquiresAsManager
              DEF FirstAcquires, UsedOK
    <3> QED BY <1>2, <3>1, <3>2, <3>3
  <2>2. IsTold(Second, Second') /\ Formed2'
    BY <1>0, <1>2, <2>1, SecondNotices, SecondUntouched
       DEF FirstManager, FirstRestarts, Formed
  <2> QED BY <1>0, <2>1, <2>2, PairStep DEF ManagersInv
<1>3. CASE SecondManager \/ SecondRestarts \/ SecondAcquires
  <2>1. /\ Formed2' /\ UsedOK' /\ leaderElect' = leaderElect
        /\ \/ /\ (leaderElect => leader = "second") /\ Works(Second, Second')
              /\ leader' = leader
           \/ Hears(Second, Second') /\ leader' = leader
           \/ /\ Restarts(Second, Second')
              /\ leader' = (IF leader = "second" THEN Nil ELSE leader)
           \/ /\ Acquires(Second, Second')
              /\ leaderElect /\ leader = Nil /\ leader' = "second"
    <3>1. CASE SecondManager
      BY <1>0, <3>1, SecondWorks, SecondHears, UsedSteps
         DEF SecondManager, Leads, leaseVars
    <3>2. CASE SecondRestarts
      BY <1>0, <3>2, SecondRestartsAsManager, UsedSteps
         DEF SecondRestarts, Released
    <3>3. CASE SecondAcquires
      <4>1. pc2 = "idle"
        BY <1>0, <3>3, SecondFields DEF SecondAcquires, Pair
      <4>2. used' = used /\ leaderElect' = leaderElect
        BY <3>3 DEF SecondAcquires, vars, history
      <4> QED BY <1>0, <3>3, <4>1, <4>2, SecondAcquiresAsManager
              DEF SecondAcquires, UsedOK
    <3> QED BY <1>3, <3>1, <3>2, <3>3
  <2>2. IsTold(First, First') /\ Formed'
    BY <1>0, <1>3, <2>1, FirstNotices, FirstUntouched
       DEF SecondManager, SecondRestarts, Formed2
  <2>3. Pair(api', leaderElect', leader', "second", Second', "first", First')
    BY <1>0, <2>1, <2>2, PairStep
  <2>4. Pair(api', leaderElect', leader', "first", First', "second", Second')
    BY <2>3, PairSymmetry
  <2> QED BY <2>1, <2>2, <2>4 DEF ManagersInv
<1>4. CASE UNCHANGED managerVars
  <2>1. /\ UNCHANGED vars /\ UNCHANGED <<ownVars2, lag2, fresh2, leaseVars>>
    BY <1>4 DEF managerVars
  <2>2. First' = First /\ Second' = Second /\ api' = api /\ used' = used
        /\ leader' = leader /\ leaderElect' = leaderElect
    BY <2>1 DEF vars, storeVars, queueVars, localVars, history, ownVars2,
       leaseVars, First, Second
  <2>3. Formed' /\ Formed2'
    BY <1>0, <2>1 DEF Formed, Formed2, vars, storeVars, queueVars, localVars,
       ownVars2
  <2> QED BY <1>0, <2>2, <2>3 DEF ManagersInv, UsedOK
<1> QED BY <1>1, <1>2, <1>3, <1>4 DEF ManagersNext

\* Both processes start with nothing, and nothing is there.
LEMMA ManagersBegin == ManagersInit => ManagersInv
<1> SUFFICES ASSUME ManagersInit PROVE ManagersInv
  OBVIOUS
<1>1. /\ api = [k \in AllKinds |-> Nil] /\ cache = [k \in AllKinds |-> Nil]
      /\ lag = [k \in AllKinds |-> <<>>] /\ queued = FALSE /\ retry = FALSE
      /\ pc = "idle" /\ kyuubi = Nil /\ fresh = FALSE /\ existing = <<>>
      /\ used = [b \in Bounds |-> 0] /\ leader = Nil
  BY DEF ManagersInit, Init
<1>2. /\ cache2 = [k \in AllKinds |-> Nil]
      /\ lag2 = [k \in AllKinds |-> <<>>] /\ queued2 = FALSE /\ retry2 = FALSE
      /\ pc2 = "idle" /\ kyuubi2 = Nil /\ fresh2 = FALSE /\ existing2 = <<>>
  BY SameOperators DEF ManagersInit, S!Init
<1>3. Formed /\ Formed2 /\ UsedOK
  <2>1. UsedOK
    BY <1>1, BoundsAssumption DEF UsedOK, Bounds
  <2>2. Formed
    BY <1>1 DEF Formed
  <2>3. Formed2
    BY <1>1, <1>2 DEF Formed2
  <2> QED BY <2>1, <2>2, <2>3
<1>4. Followed \subseteq AllKinds /\ "cr" \in Followed
  BY KindFacts DEF Followed
<1>5. \A k \in Followed : View(k, Nil, Nil, <<>>)
  <2>1. ASSUME NEW k \in Followed PROVE View(k, Nil, Nil, <<>>)
    <3>1. Nil \in Copies(k)
      BY <1>4, CopyFacts
    <3>2. <<>> \in Seq(Copies(k))
      OBVIOUS
    <3> QED BY <3>1, <3>2 DEF View
  <2> QED BY <2>1
<1>6. Nil \in Copies("cr") /\ "idle" \in PCs
  BY <1>4, CopyFacts DEF PCs
<1>7. ManagerOK(api, First)
  BY <1>1, <1>4, <1>5, <1>6, FirstFields DEF ManagerOK
<1>8. ManagerOK(api, Second)
  BY <1>1, <1>2, <1>4, <1>5, <1>6, SecondFields DEF ManagerOK
<1> QED BY <1>1, <1>2, <1>3, <1>4, <1>7, <1>8, FirstFields, SecondFields
        DEF ManagersInv, Pair

\* The invariant that carries the argument: the informers of both processes
\* catch up, a pass with nothing outstanding works on the present KyuubiCluster,
\* a process without the lease is idle, and when no running controller has
\* anything left before its write of the StatefulSet, that is as it should be.
THEOREM ManagersInvariance == ManagersSpec => []ManagersInv
  BY ManagersBegin, ManagersStep, PTL DEF ManagersSpec

\* Two managers, with a lease or without, and whatever lags, fails, restarts or
\* takes the lease over: once every running controller is quiet the StatefulSet
\* is the one that the KyuubiCluster asks for and belongs to it
\* (createOrUpdateKyuubi overwrites it on every pass).
THEOREM WorkloadIsSyncedByAll == ManagersSpec => []WorkloadSyncedByAll
<1>1. ManagersInv => WorkloadSyncedByAll
  <2>1. SUFFICES ASSUME ManagersInv, AllQuiet, api["cr"] # Nil
                 PROVE  InSync("sts")
    BY DEF WorkloadSyncedByAll
  <2>2. "idle" \notin BeforeWorkload
    BY DEF BeforeWorkload
  <2>3. Leads("first") => Done(First)
    BY <2>1, <2>2, FirstFields DEF AllQuiet, Settled, Done, Quiet
  <2>4. Leads("second") => Done(Second)
    BY <2>1, <2>2, SecondFields DEF AllQuiet, S!Settled, Done, Quiet
  <2> QED BY <2>1, <2>3, <2>4 DEF ManagersInv, Pair, AllQuiet, Leads, Right, InSync
<1> QED BY <1>1, ManagersInvariance, PTL

-----------------------------------------------------------------------------
(***************************************************************************)
(* The first spec of the first KyuubiCluster.                              *)
(***************************************************************************)
\* What an object of kind k, or a copy of it, may be when the API server has the
\* objects a, of which the KyuubiCluster is the first of its name and has its
\* first spec.  Its status was written after the Service was made.
Genuine(a, k) ==
    {Nil} \cup
    {v \in Stored(k) :
        /\ a["cr"] # Nil /\ a[k] # Nil
        /\ IF k = "cr"
           THEN /\ v.uid = 1 /\ v.spec = a["cr"].spec
                /\ v.status.exposedInfos # Nil => a["svc"] # Nil
           ELSE v.owner = 1 /\ v.data \in Wanted[k][a["cr"].spec]}

\* Where a pass is once the call that makes the object has returned.
After ==
    [sa       |-> PCs \ {"idle", "sa"},
     role     |-> PCs \ {"idle", "sa", "role"},
     rb       |-> PCs \ {"idle", "sa", "role", "rb"},
     kyuubiCm |-> {"kyuubiCmWait", "refsCm", "refsCmWait", "sts", "svc", "status"},
     refsCm   |-> {"refsCmWait", "sts", "svc", "status"},
     sts      |-> {"svc", "status"},
     svc      |-> {"status"}]

\* What holds of a manager: it knows nothing but the objects of this spec, what
\* its pass has been through is there, and a pass that made the Service, and so
\* has no ports of it, works on a KyuubiCluster without a status.
EarlyManager(a, m) ==
    /\ \A k \in AllKinds : /\ m.cache[k] \in Genuine(a, k)
                           /\ m.lag[k] \in Seq(Genuine(a, k))
    /\ m.kyuubi \in Genuine(a, "cr")
    /\ \A k \in Kinds : m.pc \in After[k] => a[k] # Nil
    /\ m.pc = "status" => \/ m.existing = contructDesiredService
                          \/ m.kyuubi.status.exposedInfos = Nil

Complete(a) ==
    /\ a["cr"].status.exposedInfos = ExposedInfos(contructDesiredService)
    /\ \A k \in Kinds : a[k] # Nil

\* A manager that has nothing to do has done everything.
Rested(a, m) == Quiet(m) /\ m.pc = "idle" /\ a["cr"] # Nil => Complete(a)

Early ==
    \/ used["creates"] = 0
    \/ api["cr"] # Nil /\ api["cr"].uid = 1 /\ past = {}

EarlyInv ==
    /\ used["creates"] = 0 => api["cr"] = Nil
    /\ Early =>
         /\ \A k \in AllKinds : api[k] \in Genuine(api, k)
         /\ EarlyManager(api, First) /\ EarlyManager(api, Second)
         /\ (leaderElect => leader = "first") => Rested(api, First)
         /\ (leaderElect => leader = "second") => Rested(api, Second)

(***************************************************************************)
(* What a step does to the copies of a manager, whatever their kind, and   *)
(* what the call of a pass does to the objects.                            *)
(***************************************************************************)
Follows(k, m, n) ==
    \/ KeepsCopy(k, m, n)
    \/ Writes(k, api'[k], m, n)
    \/ /\ m.lag[k] # <<>>
       /\ n.cache[k] = Head(m.lag[k]) /\ n.lag[k] = Tail(m.lag[k])
    \/ n.cache[k] = api[k] /\ n.lag[k] = <<>>

\* An object that a pass stores: for the spec in hand, and for the owner in hand
\* or that of the copy that it writes over.
Put(k, v, m) ==
    /\ v # Nil /\ v \in [owner : {v.owner}, data : Wanted[k][m.kyuubi.spec]]
    /\ v.owner = m.kyuubi.uid \/ (m.cache[k] # Nil /\ v.owner = m.cache[k].owner)

Calls(m, n) ==
    /\ \A k \in AllKinds : Follows(k, m, n)
    /\ \A k \in Kinds : api'[k] = api[k] \/ (m.pc # "idle" /\ Put(k, api'[k], m))
    /\ \A k \in Kinds : n.pc \in After[k] =>
          m.pc \in After[k] \/ api'[k] # Nil \/ m.cache[k] # Nil
    /\ n.pc = "status" =>
          \/ m.pc = "status" /\ n.existing = m.existing
          \/ n.existing = contructDesiredService
          \/ api["svc"] = Nil
    /\ m.pc = "status" /\ n.pc = "idle" /\ Quiet(n) =>
          /\ m.kyuubi.status.exposedInfos # Nil
          /\ m.kyuubi.status.exposedInfos = ExposedInfos(m.existing)

\* The objects stay those of this spec, and so do the copies of them.
Lasting ==
    \A k \in AllKinds : /\ api'[k] \in Genuine(api', k)
                        /\ Genuine(api, k) \subseteq Genuine(api', k)

\* A longer list of what may be in it.
LEMMA SeqGrows ==
    ASSUME NEW A, NEW B, A \subseteq B, NEW s \in Seq(A)
    PROVE  s \in Seq(B)
  OBVIOUS

\* What a manager knows.
LEMMA CopiesStayGenuine ==
    ASSUME NEW m, NEW n, EarlyManager(api, m), Lasting,
           \A k \in AllKinds : api[k] \in Genuine(api, k),
           \A k \in AllKinds : Follows(k, m, n)
    PROVE  \A k \in AllKinds : /\ n.cache[k] \in Genuine(api', k)
                               /\ n.lag[k] \in Seq(Genuine(api', k))
<1> TAKE k \in AllKinds
<1> DEFINE G == Genuine(api, k)
           H == Genuine(api', k)
<1>1. /\ m.cache[k] \in G /\ m.lag[k] \in Seq(G) /\ api[k] \in G
      /\ api'[k] \in H /\ G \subseteq H /\ Follows(k, m, n)
  BY DEF EarlyManager, Lasting
<1> SUFFICES n.cache[k] \in H /\ n.lag[k] \in Seq(H)
  OBVIOUS
<1> HIDE DEF G, H
<1>2. m.cache[k] \in H /\ m.lag[k] \in Seq(H) /\ api[k] \in H
  BY <1>1, SeqGrows
<1>3. CASE KeepsCopy(k, m, n)
  BY <1>2, <1>3 DEF KeepsCopy
<1>4. CASE Writes(k, api'[k], m, n)
  BY <1>1, <1>2, <1>4 DEF Writes
<1>5. CASE /\ m.lag[k] # <<>>
           /\ n.cache[k] = Head(m.lag[k]) /\ n.lag[k] = Tail(m.lag[k])
  BY <1>2, <1>5
<1>6. CASE n.cache[k] = api[k] /\ n.lag[k] = <<>>
  BY <1>2, <1>6
<1> QED BY <1>1, <1>3, <1>4, <1>5, <1>6 DEF Follows

\* What is genuine stays so while the spec stays and no object is lost.
LEMMA GenuineGrows ==
    ASSUME NEW a, NEW b, NEW k \in AllKinds,
           a["cr"] # Nil => /\ b["cr"] # Nil /\ b["cr"].spec = a["cr"].spec
                            /\ \A j \in AllKinds : a[j] # Nil => b[j] # Nil
    PROVE  Genuine(a, k) \subseteq Genuine(b, k)
<1>1. "cr" \in AllKinds /\ "svc" \in AllKinds
  BY KindFacts
<1> QED BY <1>1 DEF Genuine

\* A step that leaves all objects as they are.
LEMMA NothingLost ==
    ASSUME \A k \in AllKinds : api'[k] = api[k],
           \A k \in AllKinds : api[k] \in Genuine(api, k)
    PROVE  Lasting
<1>1. "cr" \in AllKinds
  BY KindFacts
<1>2. \A k \in AllKinds : Genuine(api, k) \subseteq Genuine(api', k)
  BY <1>1, GenuineGrows
<1> QED BY <1>2 DEF Lasting

\* A running controller writes no more of the KyuubiCluster than its status, and
\* only at the end of a pass.
LEMMA WorksOnStatus ==
    ASSUME NEW m, NEW n, ManagerOK(api, m), Works(m, n), api'["cr"] # api["cr"]
    PROVE  /\ m.pc = "status" /\ api["cr"] \in Cluster
           /\ \E st \in Status : api'["cr"] = [api["cr"] EXCEPT !.status = st]
<1>1. "cr" \in Followed
  BY DEF Followed
<1>2. Ends(m, n) /\ ~Keeps("cr", m, n)
  BY <1>1 DEF Works, Starts, Reminded, GoesOn, Builds, Fails, Ends, KeepsAll, Keeps
<1>3. /\ m.pc = "status" /\ m.held # Nil
      /\ \E st \in Status : Writes("cr", [api["cr"] EXCEPT !.status = st], m, n)
  BY <1>2 DEF Ends
<1>4. api["cr"] \in Copies("cr") /\ api["cr"] # Nil
  BY <1>1, <1>3 DEF ManagerOK, View
<1> QED BY <1>3, <1>4, CopyFacts DEF Writes

\* The calls of a pass leave the objects of this spec.
LEMMA CallsLast ==
    ASSUME NEW m, NEW n, ManagerOK(api, m), Works(m, n), Calls(m, n),
           EarlyManager(api, m), \A k \in AllKinds : api[k] \in Genuine(api, k)
    PROVE  /\ Lasting
           /\ \A k \in AllKinds : api[k] # Nil => api'[k] # Nil
<1>1. /\ "cr" \in AllKinds /\ "svc" \in Kinds /\ AllKinds = Kinds \cup {"cr"}
      /\ "cr" \notin Kinds
  BY KindFacts DEF AllKinds
<1>2. CASE m.kyuubi = Nil
  <2>1. m.pc = "idle"
    BY <1>2 DEF ManagerOK
  <2>2. \A k \in AllKinds : api'[k] = api[k]
    BY <1>1, <2>1, WorksOnStatus DEF Calls
  <2> QED BY <2>2, NothingLost
<1>3. CASE m.kyuubi # Nil
  <2> DEFINE spec == api["cr"].spec
  <2>1. /\ m.kyuubi \in Cluster /\ api["cr"] # Nil
        /\ m.kyuubi.uid = 1 /\ m.kyuubi.spec = spec
    BY <1>1, <1>3 DEF EarlyManager, Genuine, Stored
  <2>2. spec \in Specs /\ 1 \in 1..MaxCreates
    BY <2>1 DEF Cluster
  <2>3. api["cr"] \in Cluster /\ api["cr"].uid = 1
        /\ (api["cr"].status.exposedInfos # Nil => api["svc"] # Nil)
    BY <1>1, <2>1 DEF Genuine, Stored
  <2>4. ASSUME NEW k \in Kinds
        PROVE  /\ api'[k] # Nil =>
                    /\ api'[k] \in Object(k) /\ api'[k].owner = 1
                    /\ api'[k].data \in Wanted[k][spec]
               /\ api[k] # Nil => api'[k] # Nil
    <3>1. CASE api'[k] = api[k]
      BY <1>1, <2>1, <3>1 DEF Genuine, Stored
    <3>2. CASE Put(k, api'[k], m)
      <4>1. m.cache[k] # Nil => m.cache[k].owner = 1
        BY <1>1 DEF EarlyManager, Genuine
      <4>2. /\ api'[k] # Nil /\ api'[k].owner = 1
            /\ api'[k] \in [owner : {1}, data : Wanted[k][spec]]
        BY <2>1, <3>2, <4>1 DEF Put
      <4>3. Wanted[k][spec] \subseteq Manifest[k]
        BY <2>2, DesiredIsManifest
      <4> QED BY <2>2, <4>2, <4>3 DEF Object
    <3> QED BY <3>1, <3>2 DEF Calls
  <2>5. /\ api'["cr"] \in Cluster /\ api'["cr"] # Nil
        /\ api'["cr"].uid = 1 /\ api'["cr"].spec = spec
        /\ api'["cr"].status.exposedInfos # Nil => api'["svc"] # Nil
    <3>1. CASE api'["cr"] = api["cr"]
      BY <1>1, <2>1, <2>3, <2>4, <3>1
    <3>2. CASE api'["cr"] # api["cr"]
      <4>1. m.pc = "status"
        BY <3>2, WorksOnStatus
      <4>2. api["svc"] # Nil
        BY <1>1, <4>1 DEF EarlyManager, After
      <4>3. PICK st \in Status : api'["cr"] = [api["cr"] EXCEPT !.status = st]
        BY <3>2, WorksOnStatus
      <4>4. /\ api'["cr"] \in Cluster
            /\ api'["cr"].uid = 1 /\ api'["cr"].spec = spec
        BY <2>3, <4>3 DEF Cluster
      <4> QED BY <1>1, <2>4, <4>2, <4>4, CopyFacts
    <3> QED BY <3>1, <3>2
  <2>6. \A k \in AllKinds : api[k] # Nil => api'[k] # Nil
    BY <1>1, <2>4, <2>5
  <2>7. \A k \in AllKinds : Genuine(api, k) \subseteq Genuine(api', k)
    BY <2>5, <2>6, GenuineGrows
  <2>8. \A k \in AllKinds : api'[k] \in Genuine(api', k)
    BY <1>1, <2>4, <2>5 DEF Genuine, Stored
  <2> QED BY <2>6, <2>7, <2>8 DEF Lasting
<1> QED BY <1>2, <1>3

\* No object is lost.
Kept == \A k \in AllKinds : api[k] # Nil => api'[k] # Nil

\* A manager that is told of a step that loses nothing.
LEMMA EarlyTold ==
    ASSUME NEW x, NEW y, ManagerOK(api, x), EarlyManager(api, x), IsTold(x, y),
           Lasting, Kept, \A k \in AllKinds : api[k] \in Genuine(api, k),
           \A k \in AllKinds : Follows(k, x, y),
           \A k \in Followed : api'[k] \in Copies(k)
    PROVE  /\ EarlyManager(api', y)
           /\ Rested(api, x) => Rested(api', y)
<1>1. /\ \A k \in AllKinds : /\ y.cache[k] \in Genuine(api', k)
                             /\ y.lag[k] \in Seq(Genuine(api', k))
  BY CopiesStayGenuine
<1>2. y.pc = x.pc /\ y.kyuubi = x.kyuubi /\ y.existing = x.existing
  BY DEF IsTold
<1>3. Kinds \subseteq AllKinds /\ "cr" \in AllKinds
  BY KindFacts
<1>4. EarlyManager(api', y)
  BY <1>1, <1>2, <1>3 DEF EarlyManager, Lasting, Kept
<1>5. /\ api'["cr"] # api["cr"] => ~Quiet(y)
      /\ Quiet(y) => Quiet(x)
  BY ToldStep
<1>6. Rested(api, x) => Rested(api', y)
  BY <1>2, <1>3, <1>5 DEF Rested, Complete, Kept
<1> QED BY <1>4, <1>6

\* A running controller.
LEMMA EarlyWorks ==
    ASSUME NEW m, NEW n, ManagerOK(api, m), EarlyManager(api, m), Works(m, n),
           Calls(m, n), Lasting, Kept, \A k \in AllKinds : api[k] \in Genuine(api, k)
    PROVE  EarlyManager(api', n) /\ Rested(api', n)
<1>1. /\ \A k \in AllKinds : /\ n.cache[k] \in Genuine(api', k)
                             /\ n.lag[k] \in Seq(Genuine(api', k))
  BY CopiesStayGenuine DEF Calls
<1>2. Kinds \subseteq AllKinds /\ "cr" \in AllKinds /\ "cr" \in Followed
      /\ "svc" \in Kinds
  BY KindFacts DEF Followed
<1>3. n.kyuubi \in {m.kyuubi, m.cache["cr"], Nil}
  BY DEF Works, Starts, Reminded, GoesOn, Builds, Fails, Ends, KeepsLocals, Idles
<1>4. n.kyuubi \in Genuine(api', "cr")
  <2>1. Nil \in Genuine(api', "cr")
    BY DEF Genuine
  <2> QED BY <1>2, <1>3, <2>1 DEF EarlyManager, Lasting
<1>5. ASSUME NEW k \in Kinds, n.pc \in After[k] PROVE api'[k] # Nil
  <2>1. m.cache[k] # Nil => api[k] # Nil
    BY <1>2 DEF EarlyManager, Genuine
  <2> QED BY <1>2, <1>5, <2>1 DEF Calls, EarlyManager, Kept
<1>6. ASSUME n.pc = "status"
      PROVE  \/ n.existing = contructDesiredService
             \/ n.kyuubi.status.exposedInfos = Nil
  <2>1. n.kyuubi = m.kyuubi /\ m.pc # "idle"
    BY <1>6 DEF Works, Starts, Reminded, GoesOn, Builds, Fails, Ends, KeepsLocals,
       Idles
  <2>2. m.kyuubi.status.exposedInfos # Nil => api["svc"] # Nil
    BY <2>1 DEF EarlyManager, Genuine, ManagerOK
  <2> QED BY <1>6, <2>1, <2>2 DEF Calls, EarlyManager
<1>7. ASSUME Quiet(n), n.pc = "idle" PROVE Complete(api')
  <2>1. Ends(m, n) /\ Keeps("cr", m, n) /\ m.pc = "status"
    <3>1. Ends(m, n) \/ Reminded(m, n) \/ Fails(m, n)
      BY <1>7 DEF Works, Starts, GoesOn, Builds
    <3>2. Ends(m, n)
      BY <1>7, <3>1 DEF Reminded, Fails, Quiet
    <3>3. ASSUME NEW st, Writes("cr", st, m, n) PROVE FALSE
      <4>1. m.lag["cr"] \in Seq(Copies("cr")) /\ n.lag["cr"] = <<>>
        BY <1>2, <1>7 DEF ManagerOK, View, Quiet
      <4>2. m.lag["cr"] \in Seq(Copies("cr") \cup {st})
        BY <4>1, SeqGrows
      <4>3. Append(m.lag["cr"], st) # <<>>
        BY <4>2
      <4> QED BY <3>3, <4>1, <4>3 DEF Writes
    <3> QED BY <3>2, <3>3 DEF Ends
  <2>2. Quiet(m) /\ api'["cr"] = api["cr"]
    BY <1>7, <2>1 DEF Quiet, Ends, Keeps, KeepsCopy
  <2>3. m.kyuubi = api["cr"]
    BY <2>1, <2>2 DEF ManagerOK
  <2>4. m.existing = contructDesiredService
    BY <1>7, <2>1 DEF Calls, EarlyManager
  <2>5. api'["cr"].status.exposedInfos = ExposedInfos(contructDesiredService)
    BY <1>7, <2>1, <2>2, <2>3, <2>4 DEF Calls
  <2>6. ASSUME NEW k \in Kinds PROVE api'[k] # Nil
    <3>1. "status" \in After[k]
      BY AccessAssumption DEF Kinds, After, PCs
    <3> QED BY <1>2, <2>1, <3>1 DEF EarlyManager, Kept
  <2> QED BY <2>5, <2>6 DEF Complete
<1> QED BY <1>1, <1>4, <1>5, <1>6, <1>7 DEF EarlyManager, Rested

\* A process that hears of an event, is replaced, or takes the lease.
LEMMA EarlyChanges ==
    ASSUME NEW m, NEW n, ManagerOK(api, m), EarlyManager(api, m),
           Hears(m, n) \/ Restarts(m, n) \/ Acquires(m, n),
           Lasting, \A k \in AllKinds : api'[k] = api[k],
           \A k \in AllKinds : Follows(k, m, n),
           \A k \in AllKinds : api[k] \in Genuine(api, k)
    PROVE  /\ EarlyManager(api', n)
           /\ Hears(m, n) /\ Rested(api, m) => Rested(api', n)
           /\ Restarts(m, n) \/ Acquires(m, n) => Rested(api', n)
<1>1. /\ \A k \in AllKinds : /\ n.cache[k] \in Genuine(api', k)
                             /\ n.lag[k] \in Seq(Genuine(api', k))
  BY CopiesStayGenuine
<1>2. Kinds \subseteq AllKinds /\ "cr" \in AllKinds /\ "cr" \in Followed
  BY KindFacts DEF Followed
<1>3. ASSUME Hears(m, n) \/ Acquires(m, n)
      PROVE  EarlyManager(api', n)
  <2>1. n.pc = m.pc /\ n.kyuubi = m.kyuubi /\ n.existing = m.existing
    BY <1>3 DEF Hears, Acquires, KeepsLocals
  <2> QED BY <1>1, <1>2, <2>1 DEF EarlyManager, Lasting
<1>4. ASSUME Restarts(m, n) PROVE EarlyManager(api', n)
  <2>1. n.pc = "idle" /\ n.kyuubi = Nil
    BY <1>4 DEF Restarts, Idles
  <2>2. \A k \in Kinds : "idle" \notin After[k]
    BY AccessAssumption DEF Kinds, After, PCs
  <2>3. Nil \in Genuine(api', "cr")
    BY DEF Genuine
  <2> QED BY <1>1, <2>1, <2>2, <2>3 DEF EarlyManager
<1>5. ASSUME Hears(m, n), Rested(api, m) PROVE Rested(api', n)
  <2>1. n.pc = m.pc /\ (Quiet(n) => Quiet(m))
    BY <1>2, <1>5 DEF Hears, KeepsLocals, Quiet, Keeps, KeepsCopy
  <2> QED BY <1>2, <1>5, <2>1 DEF Rested, Complete
<1>6. ASSUME Restarts(m, n) PROVE Rested(api', n)
  BY <1>2, <1>6 DEF Restarts, Rested, Quiet
<1>7. ASSUME Acquires(m, n) PROVE Rested(api', n)
  <2>1. Quiet(n) => m.cache["cr"] = Nil /\ m.lag["cr"] = <<>>
    BY <1>2, <1>7 DEF Acquires, KeepsAll, Keeps, KeepsCopy, Quiet
  <2>2. Quiet(n) => api["cr"] = Nil
    BY <1>2, <2>1 DEF ManagerOK, View
  <2> QED BY <1>2, <2>2 DEF Rested
<1> QED BY <1>3, <1>4, <1>5, <1>6, <1>7

-----------------------------------------------------------------------------
(***************************************************************************)
(* The calls of the first process.                                         *)
(***************************************************************************)
\* Whatever the first process stores, its informers follow.
LEMMA FirstFollows ==
    ASSUME Formed,
           \/ UNCHANGED storeVars
           \/ \E k \in AllKinds : \E v : Write(k, v)
    PROVE  \A k \in AllKinds : Follows(k, First, First')
<1>1. CASE UNCHANGED storeVars
  BY <1>1, FirstFields DEF storeVars, Follows, KeepsCopy
<1>2. CASE \E k \in AllKinds : \E v : Write(k, v)
  <2>1. PICK k \in AllKinds : \E v : Write(k, v)
    BY <1>2
  <2>2. PICK v : Write(k, v)
    BY <2>1
  <2>3. /\ Writes(k, v, First, First')
        /\ \A j \in AllKinds \ {k} : Keeps(j, First, First')
    BY <2>2, FirstWrites
  <2> QED BY <2>3 DEF Follows, Writes, Keeps
<1> QED BY <1>1, <1>2

\* A call that finds the object or stores it, and after which the pass goes on.
LEMMA FirstCalls ==
    ASSUME Formed, NEW k, NEW v,
           \/ UNCHANGED storeVars /\ (k \in Kinds => cache[k] # Nil)
           \/ k \in Kinds /\ Write(k, v) /\ Put(k, v, First),
           pc # "idle", pc' # "idle",
           \A j \in Kinds \ {k} : pc' \in After[j] => pc \in After[j],
           pc' = "status" => existing' = contructDesiredService \/ api["svc"] = Nil
    PROVE  Calls(First, First')
<1>1. Kinds \subseteq AllKinds
  BY KindFacts
<1>2. \A j \in AllKinds : Follows(j, First, First')
  BY <1>1, FirstFollows
<1>3. /\ \A j \in Kinds : api'[j] = api[j] \/ Put(j, api'[j], First)
      /\ k \in Kinds => cache[k] # Nil \/ api'[k] # Nil
  <2>1. CASE UNCHANGED storeVars /\ (k \in Kinds => cache[k] # Nil)
    BY <2>1 DEF storeVars
  <2>2. CASE k \in Kinds /\ Write(k, v) /\ Put(k, v, First)
    <3>1. /\ Writes(k, v, First, First')
          /\ \A j \in AllKinds \ {k} : Keeps(j, First, First')
      BY <1>1, <2>2, FirstWrites
    <3>2. v # Nil
      BY <2>2 DEF Put
    <3> QED BY <1>1, <2>2, <3>1, <3>2 DEF Writes, Keeps
  <2> QED BY <2>1, <2>2
<1> QED BY <1>2, <1>3, FirstFields DEF Calls

\* A step that makes no call, or the error that ends a pass.
LEMMA FirstMakesNoCall ==
    ASSUME Formed, UNCHANGED storeVars,
           \/ pc' = "sa"
           \/ pc' = pc /\ existing' = existing
           \/ pc' = "idle" /\ retry' = TRUE
    PROVE  Calls(First, First')
<1>1. \A k \in AllKinds : Follows(k, First, First') /\ api'[k] = api[k]
  BY FirstFollows DEF storeVars
<1>2. \A k \in Kinds : "sa" \notin After[k] /\ "idle" \notin After[k]
  BY AccessAssumption DEF Kinds, After, PCs
<1>3. Kinds \subseteq AllKinds
  BY KindFacts
<1>4. pc' = "idle" /\ pc = "status" => First'.due = "yes"
  BY FirstFields
<1> QED BY <1>1, <1>2, <1>3, <1>4, FirstFields DEF Calls, Quiet

\* A ConfigMap or access object for the spec in hand.
LEMMA FirstPuts ==
    ASSUME ManagerOK(api, First), EarlyManager(api, First), pc # "idle",
           NEW k \in Kinds, NEW data \in Desired(k, kyuubi.spec)
    PROVE  /\ Put(k, [owner |-> kyuubi.uid, data |-> data], First)
           /\ cache[k] # Nil => Put(k, [cache[k] EXCEPT !.data = data], First)
<1>1. kyuubi \in Cluster
  BY FirstFields, CopyFacts DEF ManagerOK
<1>2. kyuubi.spec \in Specs
  BY <1>1 DEF Cluster
<1>3. data \in Wanted[k][kyuubi.spec] /\ data \in Manifest[k]
  BY <1>2, DesiredIsManifest
<1>4. Kinds \subseteq AllKinds /\ "cr" \notin Kinds
  BY KindFacts
<1>5. cache[k] # Nil => cache[k] \in Object(k)
  BY <1>4, FirstFields DEF EarlyManager, Genuine, Stored
<1>6. \A v \in Object(k) : v # Nil
  BY CopyFacts
<1>7. kyuubi.uid \in 1..MaxCreates
  BY <1>1 DEF Cluster
<1>8. [owner |-> kyuubi.uid, data |-> data] \in Object(k)
  BY <1>3, <1>7 DEF Object
<1>9. cache[k] # Nil => /\ [cache[k] EXCEPT !.data = data] \in Object(k)
                        /\ [cache[k] EXCEPT !.data = data].owner = cache[k].owner
                        /\ [cache[k] EXCEPT !.data = data].data = data
  BY <1>3, <1>5 DEF Object
<1>10. \A v \in Object(k) : v = [owner |-> v.owner, data |-> v.data]
  BY DEF Object
<1>11. First.kyuubi = kyuubi /\ First.cache = cache
  BY FirstFields
<1>12. Put(k, [owner |-> kyuubi.uid, data |-> data], First)
  BY <1>3, <1>6, <1>8, <1>11 DEF Put
<1>13. ASSUME cache[k] # Nil PROVE Put(k, [cache[k] EXCEPT !.data = data], First)
  <2> DEFINE v == [cache[k] EXCEPT !.data = data]
  <2>1. /\ v # Nil /\ v = [owner |-> v.owner, data |-> v.data]
        /\ v.owner = cache[k].owner /\ v.data = data
    BY <1>6, <1>9, <1>10, <1>13
  <2> HIDE DEF v
  <2>2. Put(k, v, First)
    BY <1>3, <1>11, <1>13, <2>1 DEF Put
  <2> QED BY <2>2 DEF v
<1> QED BY <1>12, <1>13

\* createOrUpdateServiceAccount, createOrUpdateRole, createOrUpdateRoleBinding
\* and the ConfigMaps.
LEMMA FirstPreparesObjects ==
    ASSUME Formed, ManagerOK(api, First), EarlyManager(api, First),
           \/ createOrUpdateServiceAccount \/ createOrUpdateRole
           \/ createOrUpdateRoleBinding \/ createOrUpdateKyuubiConfigmap
           \/ waitForKyuubiConfigmap \/ createOrUpdateClusterRefsConfigmap
           \/ waitForClusterRefsConfigmap
    PROVE  Calls(First, First')
<1>1. Kinds = Access \cup {"kyuubiCm", "refsCm", "sts", "svc"}
      /\ Access \subseteq {"sa", "role", "rb"}
  BY AccessAssumption DEF Kinds
<1>2. ASSUME UNCHANGED storeVars, ReturnError PROVE Calls(First, First')
  BY <1>2, FirstMakesNoCall DEF ReturnError, Leave
<1>3. ASSUME NEW k \in {"sa", "role", "rb"}, NEW next \in PCs \ {"idle", "status"},
             CreateIfMissing(k, next),
             \A j \in Kinds \ {k} : next \in After[j] => pc \in After[j]
      PROVE  Calls(First, First')
  <2>1. pc = k /\ pc # "idle"
    BY <1>3 DEF CreateIfMissing
  <2>2. CASE AlreadyExists(k)
    BY <1>2, <2>2 DEF AlreadyExists
  <2>3. CASE UNCHANGED storeVars /\ (k \in Access => cache[k] # Nil) /\ Proceed(next)
    <3>1. k \in Kinds => cache[k] # Nil
      BY <1>1, <1>3, <2>3
    <3> QED BY <1>3, <2>1, <2>3, <3>1, FirstCalls DEF Proceed
  <2>4. CASE k \in Access /\ Create(k, k) /\ Proceed(next)
    <3>1. k \in Kinds /\ k \in Desired(k, kyuubi.spec)
      BY <1>1, <1>3, <2>4 DEF Desired
    <3>2. Put(k, [owner |-> kyuubi.uid, data |-> k], First)
      BY <2>1, <3>1, FirstPuts
    <3> QED BY <1>3, <2>1, <2>4, <3>1, <3>2, FirstCalls DEF Proceed, Create
  <2> QED BY <1>3, <2>2, <2>3, <2>4 DEF CreateIfMissing
<1>4. ASSUME NEW k \in {"kyuubiCm", "refsCm"}, NEW data \in Desired(k, kyuubi.spec),
             NEW wait \in PCs \ {"idle", "status"},
             NEW next \in PCs \ {"idle", "status"}, pc = k,
             CreateOrUpdateConfigMap(k, data, wait, next),
             \A j \in Kinds \ {k} :
                wait \in After[j] \/ next \in After[j] => pc \in After[j]
      PROVE  Calls(First, First')
  <2>1. k \in Kinds /\ pc # "idle"
    BY <1>1, <1>4
  <2>2. CASE AlreadyExists(k) \/ (UNCHANGED storeVars /\ ReturnError)
    BY <1>2, <2>2 DEF AlreadyExists
  <2>3. CASE UNCHANGED storeVars /\ cache[k] # Nil /\ Proceed(next)
    BY <1>4, <2>1, <2>3, FirstCalls DEF Proceed
  <2>4. CASE Create(k, data) /\ Proceed(wait)
    <3>1. Put(k, [owner |-> kyuubi.uid, data |-> data], First)
      BY <1>4, <2>1, FirstPuts
    <3> QED BY <1>4, <2>1, <2>4, <3>1, FirstCalls DEF Proceed, Create
  <2>5. CASE /\ cache[k] # Nil
             /\ Write(k, [cache[k] EXCEPT !.data = data]) /\ Proceed(next)
    <3>1. Put(k, [cache[k] EXCEPT !.data = data], First)
      BY <1>4, <2>1, <2>5, FirstPuts
    <3> QED BY <1>4, <2>1, <2>5, <3>1, FirstCalls DEF Proceed
  <2> QED BY <1>4, <2>2, <2>3, <2>4, <2>5
          DEF CreateOrUpdateConfigMap, UpdateConfigMap
<1>5. ASSUME NEW k \in {"kyuubiCm", "refsCm"}, NEW wait \in PCs \ {"idle"},
             NEW next \in PCs \ {"idle", "status"}, WaitForConfigMap(k, wait, next),
             \A j \in Kinds \ {k} : next \in After[j] => wait \in After[j]
      PROVE  Calls(First, First')
  BY <1>5, FirstCalls DEF WaitForConfigMap, Proceed
<1> USE DEF After, PCs
<1>6. CASE createOrUpdateServiceAccount
  BY <1>1, <1>3, <1>6 DEF createOrUpdateServiceAccount, CreateIfMissing
<1>7. CASE createOrUpdateRole
  BY <1>1, <1>3, <1>7 DEF createOrUpdateRole, CreateIfMissing
<1>8. CASE createOrUpdateRoleBinding
  BY <1>1, <1>3, <1>8 DEF createOrUpdateRoleBinding, CreateIfMissing
<1>9. CASE createOrUpdateKyuubiConfigmap
  BY <1>1, <1>4, <1>9 DEF createOrUpdateKyuubiConfigmap, Desired
<1>10. CASE waitForKyuubiConfigmap
  <2>1. \A j \in Kinds \ {"kyuubiCm"} :
           "refsCm" \in After[j] => "kyuubiCmWait" \in After[j]
    BY <1>1
  <2>2. "kyuubiCmWait" \in PCs \ {"idle"} /\ "refsCm" \in PCs \ {"idle", "status"}
    OBVIOUS
  <2> HIDE DEF After, PCs
  <2> QED BY <1>5, <1>10, <2>1, <2>2 DEF waitForKyuubiConfigmap
<1>11. CASE createOrUpdateClusterRefsConfigmap
  <2>1. \A j \in Kinds \ {"refsCm"} :
           "refsCmWait" \in After[j] \/ "sts" \in After[j] => "refsCm" \in After[j]
    BY <1>1
  <2>2. {"refsCmWait", "sts"} \subseteq PCs \ {"idle", "status"}
    OBVIOUS
  <2> HIDE DEF After, PCs
  <2>3. Desired("refsCm", kyuubi.spec) = desiredClusterRefsConfigMap(kyuubi.spec)
    BY DEF Desired
  <2>4. ASSUME NEW data \in desiredClusterRefsConfigMap(kyuubi.spec),
               CreateOrUpdateConfigMap("refsCm", data, "refsCmWait", "sts")
        PROVE  Calls(First, First')
    <3>1. pc = "refsCm" /\ data \in Desired("refsCm", kyuubi.spec)
      BY <1>11, <2>3, <2>4 DEF createOrUpdateClusterRefsConfigmap
    <3> QED BY <1>4, <2>1, <2>2, <2>4, <3>1
  <2> QED BY <1>2, <1>11, <2>4 DEF createOrUpdateClusterRefsConfigmap
<1>12. CASE waitForClusterRefsConfigmap
  <2>1. \A j \in Kinds \ {"refsCm"} :
           "sts" \in After[j] => "refsCmWait" \in After[j]
    BY <1>1
  <2>2. "refsCmWait" \in PCs \ {"idle"} /\ "sts" \in PCs \ {"idle", "status"}
    OBVIOUS
  <2> HIDE DEF After, PCs
  <2> QED BY <1>5, <1>12, <2>1, <2>2 DEF waitForClusterRefsConfigmap
<1> QED BY <1>6, <1>7, <1>8, <1>9, <1>10, <1>11, <1>12

\* createOrUpdateKyuubi and createOrUpdateService.
LEMMA FirstServes ==
    ASSUME Formed, ManagerOK(api, First), EarlyManager(api, First),
           createOrUpdateKyuubi \/ createOrUpdateService
    PROVE  Calls(First, First')
<1>1. Kinds = Access \cup {"kyuubiCm", "refsCm", "sts", "svc"}
      /\ Access \subseteq {"sa", "role", "rb"}
  BY AccessAssumption DEF Kinds
<1>2. ASSUME UNCHANGED storeVars, ReturnError PROVE Calls(First, First')
  BY <1>2, FirstMakesNoCall DEF ReturnError, Leave
<1>3. CASE createOrUpdateKyuubi
  <2> DEFINE data == ServerDefaults(constructDesiredKyuubiWorkload(kyuubi.spec))
             v == [owner |-> kyuubi.uid, data |-> data]
  <2>1. /\ pc = "sts"
        /\ \/ UNCHANGED storeVars /\ ReturnError
           \/ /\ Proceed("svc")
              /\ Write("sts", v) \/ (UNCHANGED storeVars /\ cache["sts"] # Nil)
    BY <1>3 DEF createOrUpdateKyuubi, Create, UpdateWorkload
  <2>2. \A j \in Kinds \ {"sts"} : "svc" \in After[j] => "sts" \in After[j]
    BY <1>1 DEF After, PCs
  <2>3. "sts" \in Kinds /\ data \in Desired("sts", kyuubi.spec)
    BY <1>1 DEF Desired
  <2>4. pc # "idle"
    BY <2>1
  <2> HIDE DEF data
  <2>5. Put("sts", v, First)
    BY <2>3, <2>4, FirstPuts
  <2> HIDE DEF v
  <2>6. CASE Proceed("svc")
    <3>1. pc' = "svc"
      BY <2>6 DEF Proceed
    <3> QED BY <1>2, <2>1, <2>2, <2>3, <2>5, <3>1, FirstCalls
  <2> QED BY <1>2, <2>1, <2>6
<1>4. CASE createOrUpdateService
  <2> DEFINE v == [owner |-> kyuubi.uid, data |-> contructDesiredService]
  <2>1. /\ pc = "svc" /\ pc # "idle" /\ "svc" \in Kinds /\ "svc" \in Followed
        /\ contructDesiredService \in Desired("svc", kyuubi.spec)
    BY <1>1, <1>4 DEF createOrUpdateService, Desired, Followed
  <2>2. \A j \in Kinds \ {"svc"} : "status" \in After[j] => "svc" \in After[j]
    BY <1>1 DEF After, PCs
  <2>3. CASE AlreadyExists("svc")
    BY <1>2, <2>3 DEF AlreadyExists
  <2>4. CASE /\ cache["svc"] # Nil /\ existing' = cache["svc"].data
             /\ pc' = "status" /\ UNCHANGED storeVars
    <3>1. cache["svc"] \in Copies("svc")
      BY <2>1, FirstFields DEF ManagerOK, View
    <3>2. existing' = contructDesiredService
      BY <2>1, <2>4, <3>1, CopyFacts, ServiceManifest
    <3> QED BY <2>1, <2>2, <2>4, <3>2, FirstCalls
  <2>5. CASE Create("svc", contructDesiredService) /\ Proceed("status")
    <3>1. Put("svc", v, First)
      BY <2>1, FirstPuts
    <3>2. pc' = "status" /\ api["svc"] = Nil /\ Write("svc", v)
      BY <2>5 DEF Create, Proceed
    <3> HIDE DEF v
    <3> QED BY <2>1, <2>2, <3>1, <3>2, FirstCalls
  <2> QED BY <1>4, <2>3, <2>4, <2>5 DEF createOrUpdateService
<1> QED BY <1>3, <1>4

\* updateKyuubiClusterStatus: a pass that ends quietly has found its status.
LEMMA FirstFindsStatus ==
    ASSUME Formed, ManagerOK(api, First), updateKyuubiClusterStatus
    PROVE  Calls(First, First')
<1>1. /\ pc = "status" /\ "cr" \in AllKinds /\ Kinds \subseteq AllKinds \ {"cr"}
      /\ "cr" \in Followed
  BY KindFacts DEF updateKyuubiClusterStatus, Followed
<1>2. \A k \in Kinds : "idle" \notin After[k]
  BY AccessAssumption DEF Kinds, After, PCs
<1>3. CASE ~StatusDiffers /\ Leave /\ UNCHANGED storeVars
  <2>1. /\ kyuubi.status.exposedInfos # Nil
        /\ kyuubi.status.exposedInfos = ExposedInfos(existing)
    BY <1>3 DEF StatusDiffers
  <2>2. \A k \in AllKinds : Follows(k, First, First') /\ api'[k] = api[k]
    BY <1>3, FirstFollows DEF storeVars
  <2>3. pc' = "idle"
    BY <1>3 DEF Leave
  <2> QED BY <1>1, <1>2, <2>1, <2>2, <2>3, FirstFields DEF Calls
<1>4. ASSUME NEW v, Write("cr", v), Leave
      PROVE  Calls(First, First')
  <2>1. pc' = "idle"
    BY <1>4 DEF Leave
  <2>2. /\ \A k \in AllKinds : Follows(k, First, First')
        /\ Writes("cr", v, First, First')
        /\ \A k \in Kinds : api'[k] = api[k]
    BY <1>1, <1>4, FirstFollows, FirstWrites DEF Keeps
  <2>3. First.lag["cr"] \in Seq(Copies("cr") \cup {v})
    BY <1>1, SeqGrows DEF ManagerOK, View
  <2>4. Append(First.lag["cr"], v) # <<>>
    BY <2>3
  <2>5. ~Quiet(First')
    BY <2>2, <2>4 DEF Quiet, Writes
  <2> QED BY <1>2, <2>1, <2>2, <2>5, FirstFields DEF Calls
<1>5. CASE UNCHANGED storeVars /\ ReturnError
  BY <1>5, FirstMakesNoCall DEF ReturnError, Leave
<1> QED BY <1>3, <1>4, <1>5 DEF updateKyuubiClusterStatus

\* All that the controller of the first process does.
LEMMA FirstMakesCalls ==
    ASSUME Formed, ManagerOK(api, First), EarlyManager(api, First),
           Operator \/ RetryExpires \/ Resync \/ CallFails
    PROVE  Calls(First, First')
<1>1. CASE Reconcile
  <2>1. /\ UNCHANGED storeVars
        /\ \/ pc' = pc /\ existing' = existing
           \/ pc' = "sa"
    BY <1>1 DEF Reconcile, localVars
  <2> QED BY <2>1, FirstMakesNoCall
<1>2. CASE RetryExpires \/ Resync
  <2>1. UNCHANGED storeVars /\ pc' = pc /\ existing' = existing
    BY <1>2 DEF RetryExpires, Resync, localVars
  <2> QED BY <2>1, FirstMakesNoCall
<1>3. CASE CallFails
  BY <1>3, FirstMakesNoCall DEF CallFails, Leave
<1> QED BY <1>1, <1>2, <1>3, FirstPreparesObjects, FirstServes, FirstFindsStatus
        DEF Operator

\* Events, a new process and what others do.
LEMMA FirstKeepsUp ==
    ASSUME Formed,
           \/ \E k \in AllKinds : DeliverEvent(k)
           \/ Restart \/ FirstAcquires \/ SecondAcquires \/ FirstIsTold
    PROVE  \A k \in AllKinds : Follows(k, First, First')
<1>1. CASE \E k \in AllKinds : DeliverEvent(k)
  <2>1. PICK k \in AllKinds : DeliverEvent(k)
    BY <1>1
  <2>2. /\ lag[k] # <<>>
        /\ cache' = [cache EXCEPT ![k] = Head(lag[k])]
        /\ lag' = [lag EXCEPT ![k] = Tail(@)]
    BY <2>1 DEF DeliverEvent
  <2>3. /\ cache'[k] = Head(lag[k]) /\ lag'[k] = Tail(lag[k])
        /\ \A j \in AllKinds \ {k} : cache'[j] = cache[j] /\ lag'[j] = lag[j]
    BY <2>2 DEF Formed
  <2> QED BY <2>2, <2>3, FirstFields DEF Follows, KeepsCopy
<1>2. CASE Restart
  BY <1>2, FirstFields DEF Restart, Follows
<1>3. CASE FirstAcquires \/ SecondAcquires
  BY <1>3, FirstFields DEF FirstAcquires, SecondAcquires, vars, storeVars, Follows,
     KeepsCopy
<1>4. CASE FirstIsTold
  BY <1>4, FirstFields DEF FirstIsTold, ownVars1, Told, Follows, KeepsCopy, Writes
<1> QED BY <1>1, <1>2, <1>3, <1>4

-----------------------------------------------------------------------------
(***************************************************************************)
(* The calls of the second process.                                        *)
(***************************************************************************)
\* The ConfigMaps that the two processes build are equal, too.
LEMMA SameManifests ==
    \A spec : /\ S!constructKyuubiConfigMap(spec) = constructKyuubiConfigMap(spec)
              /\ S!desiredClusterRefsConfigMap(spec)
                   = desiredClusterRefsConfigMap(spec)
<1>1. \A conf : S!RenderAll(conf) = RenderAll(conf)
  BY DEF S!RenderAll, RenderAll, S!Render, Render, S!map2String, map2String,
     S!map2Xml, map2Xml, S!Pairs, Pairs, S!OrEmpty, OrEmpty, S!SetToSeqs,
     SetToSeqs, S!DefaultKyuubiConfFile, DefaultKyuubiConfFile,
     S!DefaultSparkConfFile, DefaultSparkConfFile, S!Cardinality, Cardinality
<1>2. /\ \A x : S!OrEmpty(x) = OrEmpty(x)
      /\ \A x, y : S!Has(x, y) = Has(x, y) /\ S!Setting(x, y) = Setting(x, y)
      /\ S!FSDefaultFSConfKey = FSDefaultFSConfKey
      /\ S!DFSNameSpacesConfKey = DFSNameSpacesConfKey
      /\ S!DefaultKyuubiConfFile = DefaultKyuubiConfFile
  BY DEF S!OrEmpty, OrEmpty, S!Has, Has, S!Setting, Setting,
     S!FSDefaultFSConfKey, FSDefaultFSConfKey, S!DFSNameSpacesConfKey,
     DFSNameSpacesConfKey, S!DefaultKyuubiConfFile, DefaultKyuubiConfFile
<1>3. \A x, y : S!++(x, y) = x ++ y
  BY DEF S!++, ++
<1>4. \A refs, t : S!LastRef(refs, t) = LastRef(refs, t)
  BY DEF S!LastRef, LastRef, S!SelectLastInSeq, SelectLastInSeq, S!Max, Max
<1>5. \A refs : S!HdfsSource(refs) = HdfsSource(refs)
  BY DEF S!HdfsSource, HdfsSource, S!SelectLastInSeq, SelectLastInSeq, S!Max, Max
<1>6. \A cluster : S!SparkConf(cluster) = SparkConf(cluster)
  BY DEF S!SparkConf, SparkConf, S!OrEmpty, OrEmpty, S!Setting, Setting, S!++, ++
<1>7. \A site : S!NameServiceConf(site) = NameServiceConf(site)
  BY DEF S!NameServiceConf, NameServiceConf, S!Setting, Setting, S!++, ++, S!At, At,
     S!Has, Has, S!HaNameNodes, HaNameNodes, S!FailoverProvider, FailoverProvider,
     S!RpcAddress, RpcAddress, S!HaRpcAddress, HaRpcAddress,
     S!DFSNameSpacesConfKey, DFSNameSpacesConfKey, S!ToSet, ToSet
<1>8. \A refs, cluster : S!HiveConf(refs, cluster) = HiveConf(refs, cluster)
  BY <1>2, <1>3, <1>5, <1>7 DEF S!HiveConf, HiveConf
<1>9. \A refs, f : S!FileConf(refs, f) = FileConf(refs, f)
  BY <1>2, <1>4, <1>6, <1>8 DEF S!FileConf, FileConf, S!DefaultSparkConfFile,
     DefaultSparkConfFile, S!DefaultHiveSiteFile, DefaultHiveSiteFile,
     S!DefaultHdfsSiteFile, DefaultHdfsSiteFile, S!DefaultCoreSiteFile,
     DefaultCoreSiteFile
<1>10. \A t : S!FilesOf(t) = FilesOf(t)
  BY DEF S!FilesOf, FilesOf, S!DefaultSparkConfFile, DefaultSparkConfFile,
     S!DefaultHiveSiteFile, DefaultHiveSiteFile, S!DefaultHdfsSiteFile,
     DefaultHdfsSiteFile, S!DefaultCoreSiteFile, DefaultCoreSiteFile
<1>11. \A refs : S!ClusterRefsConf(refs) = ClusterRefsConf(refs)
  BY <1>9, <1>10 DEF S!ClusterRefsConf, ClusterRefsConf
<1>12. ASSUME NEW spec
       PROVE  S!constructKyuubiConfigMap(spec) = constructKyuubiConfigMap(spec)
  BY <1>1, <1>2 DEF S!constructKyuubiConfigMap, constructKyuubiConfigMap
<1>13. ASSUME NEW spec
       PROVE  S!desiredClusterRefsConfigMap(spec) = desiredClusterRefsConfigMap(spec)
  BY <1>1, <1>11 DEF S!desiredClusterRefsConfigMap, desiredClusterRefsConfigMap
<1> QED BY <1>12, <1>13

\* Whatever the second process stores, its informers follow.
LEMMA SecondFollows ==
    ASSUME Formed2,
           \/ UNCHANGED S!storeVars
           \/ \E k \in AllKinds : \E v : S!Write(k, v)
    PROVE  \A k \in AllKinds : Follows(k, Second, Second')
<1>1. CASE UNCHANGED S!storeVars
  BY <1>1, SecondFields DEF S!storeVars, Follows, KeepsCopy
<1>2. CASE \E k \in AllKinds : \E v : S!Write(k, v)
  <2>1. PICK k \in AllKinds : \E v : S!Write(k, v)
    BY <1>2
  <2>2. PICK v : S!Write(k, v)
    BY <2>1
  <2>3. /\ Writes(k, v, Second, Second')
        /\ \A j \in AllKinds \ {k} : Keeps(j, Second, Second')
    BY <2>2, SecondWrites
  <2> QED BY <2>3 DEF Follows, Writes, Keeps
<1> QED BY <1>1, <1>2

\* A call that finds the object or stores it, and after which the pass goes on.
LEMMA SecondCalls ==
    ASSUME Formed2, NEW k, NEW v,
           \/ UNCHANGED S!storeVars /\ (k \in Kinds => cache2[k] # Nil)
           \/ k \in Kinds /\ S!Write(k, v) /\ Put(k, v, Second),
           pc2 # "idle", pc2' # "idle",
           \A j \in Kinds \ {k} : pc2' \in After[j] => pc2 \in After[j],
           pc2' = "status" => existing2' = contructDesiredService \/ api["svc"] = Nil
    PROVE  Calls(Second, Second')
<1>1. Kinds \subseteq AllKinds
  BY KindFacts
<1>2. \A j \in AllKinds : Follows(j, Second, Second')
  BY <1>1, SecondFollows
<1>3. /\ \A j \in Kinds : api'[j] = api[j] \/ Put(j, api'[j], Second)
      /\ k \in Kinds => cache2[k] # Nil \/ api'[k] # Nil
  <2>1. CASE UNCHANGED S!storeVars /\ (k \in Kinds => cache2[k] # Nil)
    BY <2>1 DEF S!storeVars
  <2>2. CASE k \in Kinds /\ S!Write(k, v) /\ Put(k, v, Second)
    <3>1. /\ Writes(k, v, Second, Second')
          /\ \A j \in AllKinds \ {k} : Keeps(j, Second, Second')
      BY <1>1, <2>2, SecondWrites
    <3>2. v # Nil
      BY <2>2 DEF Put
    <3> QED BY <1>1, <2>2, <3>1, <3>2 DEF Writes, Keeps
  <2> QED BY <2>1, <2>2
<1> QED BY <1>2, <1>3, SecondFields DEF Calls

\* A step that makes no call, or the error that ends a pass.
LEMMA SecondMakesNoCall ==
    ASSUME Formed2, UNCHANGED S!storeVars,
           \/ pc2' = "sa"
           \/ pc2' = pc2 /\ existing2' = existing2
           \/ pc2' = "idle" /\ retry2' = TRUE
    PROVE  Calls(Second, Second')
<1>1. \A k \in AllKinds : Follows(k, Second, Second') /\ api'[k] = api[k]
  BY SecondFollows DEF S!storeVars
<1>2. \A k \in Kinds : "sa" \notin After[k] /\ "idle" \notin After[k]
  BY AccessAssumption DEF Kinds, After, PCs
<1>3. Kinds \subseteq AllKinds
  BY KindFacts
<1>4. pc2' = "idle" /\ pc2 = "status" => Second'.due = "yes"
  BY SecondFields
<1> QED BY <1>1, <1>2, <1>3, <1>4, SecondFields DEF Calls, Quiet

\* A ConfigMap or access object for the spec in hand.
LEMMA SecondPuts ==
    ASSUME ManagerOK(api, Second), EarlyManager(api, Second), pc2 # "idle",
           NEW k \in Kinds, NEW data \in Desired(k, kyuubi2.spec)
    PROVE  /\ Put(k, [owner |-> kyuubi2.uid, data |-> data], Second)
           /\ cache2[k] # Nil => Put(k, [cache2[k] EXCEPT !.data = data], Second)
<1>1. kyuubi2 \in Cluster
  BY SecondFields, CopyFacts DEF ManagerOK
<1>2. kyuubi2.spec \in Specs
  BY <1>1 DEF Cluster
<1>3. data \in Wanted[k][kyuubi2.spec] /\ data \in Manifest[k]
  BY <1>2, DesiredIsManifest
<1>4. Kinds \subseteq AllKinds /\ "cr" \notin Kinds
  BY KindFacts
<1>5. cache2[k] # Nil => cache2[k] \in Object(k)
  BY <1>4, SecondFields DEF EarlyManager, Genuine, Stored
<1>6. \A v \in Object(k) : v # Nil
  BY CopyFacts
<1>7. kyuubi2.uid \in 1..MaxCreates
  BY <1>1 DEF Cluster
<1>8. [owner |-> kyuubi2.uid, data |-> data] \in Object(k)
  BY <1>3, <1>7 DEF Object
<1>9. cache2[k] # Nil => /\ [cache2[k] EXCEPT !.data = data] \in Object(k)
                        /\ [cache2[k] EXCEPT !.data = data].owner = cache2[k].owner
                        /\ [cache2[k] EXCEPT !.data = data].data = data
  BY <1>3, <1>5 DEF Object
<1>10. \A v \in Object(k) : v = [owner |-> v.owner, data |-> v.data]
  BY DEF Object
<1>11. Second.kyuubi = kyuubi2 /\ Second.cache = cache2
  BY SecondFields
<1>12. Put(k, [owner |-> kyuubi2.uid, data |-> data], Second)
  BY <1>3, <1>6, <1>8, <1>11 DEF Put
<1>13. ASSUME cache2[k] # Nil PROVE Put(k, [cache2[k] EXCEPT !.data = data], Second)
  <2> DEFINE v == [cache2[k] EXCEPT !.data = data]
  <2>1. /\ v # Nil /\ v = [owner |-> v.owner, data |-> v.data]
        /\ v.owner = cache2[k].owner /\ v.data = data
    BY <1>6, <1>9, <1>10, <1>13
  <2> HIDE DEF v
  <2>2. Put(k, v, Second)
    BY <1>3, <1>11, <1>13, <2>1 DEF Put
  <2> QED BY <2>2 DEF v
<1> QED BY <1>12, <1>13

\* createOrUpdateServiceAccount, createOrUpdateRole, createOrUpdateRoleBinding
\* and the ConfigMaps.
LEMMA SecondPreparesObjects ==
    ASSUME Formed2, ManagerOK(api, Second), EarlyManager(api, Second),
           \/ S!createOrUpdateServiceAccount \/ S!createOrUpdateRole
           \/ S!createOrUpdateRoleBinding \/ S!createOrUpdateKyuubiConfigmap
           \/ S!waitForKyuubiConfigmap \/ S!createOrUpdateClusterRefsConfigmap
           \/ S!waitForClusterRefsConfigmap
    PROVE  Calls(Second, Second')
<1>1. Kinds = Access \cup {"kyuubiCm", "refsCm", "sts", "svc"}
      /\ Access \subseteq {"sa", "role", "rb"}
  BY AccessAssumption DEF Kinds
<1>2. ASSUME UNCHANGED S!storeVars, S!ReturnError PROVE Calls(Second, Second')
  BY <1>2, SecondMakesNoCall DEF S!ReturnError, S!Leave
<1>3. ASSUME NEW k \in {"sa", "role", "rb"}, NEW next \in PCs \ {"idle", "status"},
             S!CreateIfMissing(k, next),
             \A j \in Kinds \ {k} : next \in After[j] => pc2 \in After[j]
      PROVE  Calls(Second, Second')
  <2>1. pc2 = k /\ pc2 # "idle"
    BY <1>3 DEF S!CreateIfMissing
  <2>2. CASE S!AlreadyExists(k)
    BY <1>2, <2>2 DEF S!AlreadyExists
  <2>3. CASE /\ UNCHANGED S!storeVars /\ (k \in Access => cache2[k] # Nil)
             /\ S!Proceed(next)
    <3>1. k \in Kinds => cache2[k] # Nil
      BY <1>1, <1>3, <2>3
    <3> QED BY <1>3, <2>1, <2>3, <3>1, SecondCalls DEF S!Proceed
  <2>4. CASE k \in Access /\ S!Create(k, k) /\ S!Proceed(next)
    <3>1. k \in Kinds /\ k \in Desired(k, kyuubi2.spec)
      BY <1>1, <1>3, <2>4 DEF Desired
    <3>2. Put(k, [owner |-> kyuubi2.uid, data |-> k], Second)
      BY <2>1, <3>1, SecondPuts
    <3> QED BY <1>3, <2>1, <2>4, <3>1, <3>2, SecondCalls DEF S!Proceed, S!Create
  <2> QED BY <1>3, <2>2, <2>3, <2>4 DEF S!CreateIfMissing
<1>4. ASSUME NEW k \in {"kyuubiCm", "refsCm"}, NEW data \in Desired(k, kyuubi2.spec),
             NEW wait \in PCs \ {"idle", "status"},
             NEW next \in PCs \ {"idle", "status"}, pc2 = k,
             S!CreateOrUpdateConfigMap(k, data, wait, next),
             \A j \in Kinds \ {k} :
                wait \in After[j] \/ next \in After[j] => pc2 \in After[j]
      PROVE  Calls(Second, Second')
  <2>1. k \in Kinds /\ pc2 # "idle"
    BY <1>1, <1>4
  <2>2. CASE S!AlreadyExists(k) \/ (UNCHANGED S!storeVars /\ S!ReturnError)
    BY <1>2, <2>2 DEF S!AlreadyExists
  <2>3. CASE UNCHANGED S!storeVars /\ cache2[k] # Nil /\ S!Proceed(next)
    BY <1>4, <2>1, <2>3, SecondCalls DEF S!Proceed
  <2>4. CASE S!Create(k, data) /\ S!Proceed(wait)
    <3>1. Put(k, [owner |-> kyuubi2.uid, data |-> data], Second)
      BY <1>4, <2>1, SecondPuts
    <3> QED BY <1>4, <2>1, <2>4, <3>1, SecondCalls DEF S!Proceed, S!Create
  <2>5. CASE /\ cache2[k] # Nil
             /\ S!Write(k, [cache2[k] EXCEPT !.data = data]) /\ S!Proceed(next)
    <3>1. Put(k, [cache2[k] EXCEPT !.data = data], Second)
      BY <1>4, <2>1, <2>5, SecondPuts
    <3> QED BY <1>4, <2>1, <2>5, <3>1, SecondCalls DEF S!Proceed
  <2> QED BY <1>4, <2>2, <2>3, <2>4, <2>5
          DEF S!CreateOrUpdateConfigMap, S!UpdateConfigMap
<1>5. ASSUME NEW k \in {"kyuubiCm", "refsCm"}, NEW wait \in PCs \ {"idle"},
             NEW next \in PCs \ {"idle", "status"}, S!WaitForConfigMap(k, wait, next),
             \A j \in Kinds \ {k} : next \in After[j] => wait \in After[j]
      PROVE  Calls(Second, Second')
  BY <1>5, SecondCalls DEF S!WaitForConfigMap, S!Proceed
<1> USE DEF After, PCs
<1>6. CASE S!createOrUpdateServiceAccount
  BY <1>1, <1>3, <1>6 DEF S!createOrUpdateServiceAccount, S!CreateIfMissing
<1>7. CASE S!createOrUpdateRole
  BY <1>1, <1>3, <1>7 DEF S!createOrUpdateRole, S!CreateIfMissing
<1>8. CASE S!createOrUpdateRoleBinding
  BY <1>1, <1>3, <1>8 DEF S!createOrUpdateRoleBinding, S!CreateIfMissing
<1>9. CASE S!createOrUpdateKyuubiConfigmap
  BY <1>1, <1>4, <1>9, SameManifests DEF S!createOrUpdateKyuubiConfigmap, Desired
<1>10. CASE S!waitForKyuubiConfigmap
  <2>1. \A j \in Kinds \ {"kyuubiCm"} :
           "refsCm" \in After[j] => "kyuubiCmWait" \in After[j]
    BY <1>1
  <2>2. "kyuubiCmWait" \in PCs \ {"idle"} /\ "refsCm" \in PCs \ {"idle", "status"}
    OBVIOUS
  <2> HIDE DEF After, PCs
  <2> QED BY <1>5, <1>10, <2>1, <2>2 DEF S!waitForKyuubiConfigmap
<1>11. CASE S!createOrUpdateClusterRefsConfigmap
  <2>1. \A j \in Kinds \ {"refsCm"} :
           "refsCmWait" \in After[j] \/ "sts" \in After[j] => "refsCm" \in After[j]
    BY <1>1
  <2>2. {"refsCmWait", "sts"} \subseteq PCs \ {"idle", "status"}
    OBVIOUS
  <2> HIDE DEF After, PCs
  <2>3. Desired("refsCm", kyuubi2.spec) = S!desiredClusterRefsConfigMap(kyuubi2.spec)
    BY SameManifests DEF Desired
  <2>4. ASSUME NEW data \in S!desiredClusterRefsConfigMap(kyuubi2.spec),
               S!CreateOrUpdateConfigMap("refsCm", data, "refsCmWait", "sts")
        PROVE  Calls(Second, Second')
    <3>1. pc2 = "refsCm" /\ data \in Desired("refsCm", kyuubi2.spec)
      BY <1>11, <2>3, <2>4 DEF S!createOrUpdateClusterRefsConfigmap
    <3> QED BY <1>4, <2>1, <2>2, <2>4, <3>1
  <2> QED BY <1>2, <1>11, <2>4 DEF S!createOrUpdateClusterRefsConfigmap
<1>12. CASE S!waitForClusterRefsConfigmap
  <2>1. \A j \in Kinds \ {"refsCm"} :
           "sts" \in After[j] => "refsCmWait" \in After[j]
    BY <1>1
  <2>2. "refsCmWait" \in PCs \ {"idle"} /\ "sts" \in PCs \ {"idle", "status"}
    OBVIOUS
  <2> HIDE DEF After, PCs
  <2> QED BY <1>5, <1>12, <2>1, <2>2 DEF S!waitForClusterRefsConfigmap
<1> QED BY <1>6, <1>7, <1>8, <1>9, <1>10, <1>11, <1>12

\* createOrUpdateKyuubi and createOrUpdateService.
LEMMA SecondServes ==
    ASSUME Formed2, ManagerOK(api, Second), EarlyManager(api, Second),
           S!createOrUpdateKyuubi \/ S!createOrUpdateService
    PROVE  Calls(Second, Second')
<1>1. Kinds = Access \cup {"kyuubiCm", "refsCm", "sts", "svc"}
      /\ Access \subseteq {"sa", "role", "rb"}
  BY AccessAssumption DEF Kinds
<1>2. ASSUME UNCHANGED S!storeVars, S!ReturnError PROVE Calls(Second, Second')
  BY <1>2, SecondMakesNoCall DEF S!ReturnError, S!Leave
<1>3. CASE S!createOrUpdateKyuubi
  <2> DEFINE data == ServerDefaults(constructDesiredKyuubiWorkload(kyuubi2.spec))
             v == [owner |-> kyuubi2.uid, data |-> data]
  <2>1. /\ pc2 = "sts"
        /\ \/ UNCHANGED S!storeVars /\ S!ReturnError
           \/ /\ S!Proceed("svc")
              /\ S!Write("sts", v) \/ (UNCHANGED S!storeVars /\ cache2["sts"] # Nil)
    BY <1>3, SameOperators DEF S!createOrUpdateKyuubi, S!Create, S!UpdateWorkload
  <2>2. \A j \in Kinds \ {"sts"} : "svc" \in After[j] => "sts" \in After[j]
    BY <1>1 DEF After, PCs
  <2>3. "sts" \in Kinds /\ data \in Desired("sts", kyuubi2.spec)
    BY <1>1 DEF Desired
  <2>4. pc2 # "idle"
    BY <2>1
  <2> HIDE DEF data
  <2>5. Put("sts", v, Second)
    BY <2>3, <2>4, SecondPuts
  <2> HIDE DEF v
  <2>6. CASE S!Proceed("svc")
    <3>1. pc2' = "svc"
      BY <2>6 DEF S!Proceed
    <3> QED BY <1>2, <2>1, <2>2, <2>3, <2>5, <3>1, SecondCalls
  <2> QED BY <1>2, <2>1, <2>6
<1>4. CASE S!createOrUpdateService
  <2> DEFINE v == [owner |-> kyuubi2.uid, data |-> contructDesiredService]
  <2>1. /\ pc2 = "svc" /\ pc2 # "idle" /\ "svc" \in Kinds /\ "svc" \in Followed
        /\ contructDesiredService \in Desired("svc", kyuubi2.spec)
    BY <1>1, <1>4 DEF S!createOrUpdateService, Desired, Followed
  <2>2. \A j \in Kinds \ {"svc"} : "status" \in After[j] => "svc" \in After[j]
    BY <1>1 DEF After, PCs
  <2>3. CASE S!AlreadyExists("svc")
    BY <1>2, <2>3 DEF S!AlreadyExists
  <2>4. CASE /\ cache2["svc"] # Nil /\ existing2' = cache2["svc"].data
             /\ pc2' = "status" /\ UNCHANGED S!storeVars
    <3>1. cache2["svc"] \in Copies("svc")
      BY <2>1, SecondFields DEF ManagerOK, View
    <3>2. existing2' = contructDesiredService
      BY <2>1, <2>4, <3>1, CopyFacts, ServiceManifest
    <3> QED BY <2>1, <2>2, <2>4, <3>2, SecondCalls
  <2>5. CASE S!Create("svc", contructDesiredService) /\ S!Proceed("status")
    <3>1. Put("svc", v, Second)
      BY <2>1, SecondPuts
    <3>2. pc2' = "status" /\ api["svc"] = Nil /\ S!Write("svc", v)
      BY <2>5 DEF S!Create, S!Proceed
    <3> HIDE DEF v
    <3> QED BY <2>1, <2>2, <3>1, <3>2, SecondCalls
  <2> QED BY <1>4, <2>3, <2>4, <2>5, SameOperators DEF S!createOrUpdateService
<1> QED BY <1>3, <1>4

\* updateKyuubiClusterStatus: a pass that ends quietly has found its status.
LEMMA SecondFindsStatus ==
    ASSUME Formed2, ManagerOK(api, Second), S!updateKyuubiClusterStatus
    PROVE  Calls(Second, Second')
<1>1. /\ pc2 = "status" /\ "cr" \in AllKinds /\ Kinds \subseteq AllKinds \ {"cr"}
      /\ "cr" \in Followed
  BY KindFacts DEF S!updateKyuubiClusterStatus, Followed
<1>2. \A k \in Kinds : "idle" \notin After[k]
  BY AccessAssumption DEF Kinds, After, PCs
<1>3. CASE ~S!StatusDiffers /\ S!Leave /\ UNCHANGED S!storeVars
  <2>1. /\ kyuubi2.status.exposedInfos # Nil
        /\ kyuubi2.status.exposedInfos = ExposedInfos(existing2)
    BY <1>3, SameOperators DEF S!StatusDiffers
  <2>2. \A k \in AllKinds : Follows(k, Second, Second') /\ api'[k] = api[k]
    BY <1>3, SecondFollows DEF S!storeVars
  <2>3. pc2' = "idle"
    BY <1>3 DEF S!Leave
  <2> QED BY <1>1, <1>2, <2>1, <2>2, <2>3, SecondFields DEF Calls
<1>4. ASSUME NEW v, S!Write("cr", v), S!Leave
      PROVE  Calls(Second, Second')
  <2>1. pc2' = "idle"
    BY <1>4 DEF S!Leave
  <2>2. /\ \A k \in AllKinds : Follows(k, Second, Second')
        /\ Writes("cr", v, Second, Second')
        /\ \A k \in Kinds : api'[k] = api[k]
    BY <1>1, <1>4, SecondFollows, SecondWrites DEF Keeps
  <2>3. Second.lag["cr"] \in Seq(Copies("cr") \cup {v})
    BY <1>1, SeqGrows DEF ManagerOK, View
  <2>4. Append(Second.lag["cr"], v) # <<>>
    BY <2>3
  <2>5. ~Quiet(Second')
    BY <2>2, <2>4 DEF Quiet, Writes
  <2> QED BY <1>2, <2>1, <2>2, <2>5, SecondFields DEF Calls
<1>5. CASE UNCHANGED S!storeVars /\ S!ReturnError
  BY <1>5, SecondMakesNoCall DEF S!ReturnError, S!Leave
<1> QED BY <1>3, <1>4, <1>5 DEF S!updateKyuubiClusterStatus

\* All that the controller of the second process does.
LEMMA SecondMakesCalls ==
    ASSUME Formed2, ManagerOK(api, Second), EarlyManager(api, Second),
           S!Operator \/ S!RetryExpires \/ S!Resync \/ S!CallFails
    PROVE  Calls(Second, Second')
<1>1. CASE S!Reconcile
  <2>1. /\ UNCHANGED S!storeVars
        /\ \/ pc2' = pc2 /\ existing2' = existing2
           \/ pc2' = "sa"
    BY <1>1 DEF S!Reconcile, S!localVars
  <2> QED BY <2>1, SecondMakesNoCall
<1>2. CASE S!RetryExpires \/ S!Resync
  <2>1. UNCHANGED S!storeVars /\ pc2' = pc2 /\ existing2' = existing2
    BY <1>2 DEF S!RetryExpires, S!Resync, S!localVars
  <2> QED BY <2>1, SecondMakesNoCall
<1>3. CASE S!CallFails
  BY <1>3, SecondMakesNoCall DEF S!CallFails, S!Leave
<1> QED BY <1>1, <1>2, <1>3, SecondPreparesObjects, SecondServes, SecondFindsStatus
        DEF S!Operator

\* Events, a new process and what others do.
LEMMA SecondKeepsUp ==
    ASSUME Formed2,
           \/ \E k \in AllKinds : S!DeliverEvent(k)
           \/ S!Restart \/ SecondAcquires \/ FirstAcquires \/ SecondIsTold
    PROVE  \A k \in AllKinds : Follows(k, Second, Second')
<1>1. CASE \E k \in AllKinds : S!DeliverEvent(k)
  <2>1. PICK k \in AllKinds : S!DeliverEvent(k)
    BY <1>1
  <2>2. /\ lag2[k] # <<>>
        /\ cache2' = [cache2 EXCEPT ![k] = Head(lag2[k])]
        /\ lag2' = [lag2 EXCEPT ![k] = Tail(@)]
    BY <2>1 DEF S!DeliverEvent
  <2>3. /\ cache2'[k] = Head(lag2[k]) /\ lag2'[k] = Tail(lag2[k])
        /\ \A j \in AllKinds \ {k} : cache2'[j] = cache2[j] /\ lag2'[j] = lag2[j]
    BY <2>2 DEF Formed2
  <2> QED BY <2>2, <2>3, SecondFields DEF Follows, KeepsCopy
<1>2. CASE S!Restart
  BY <1>2, SecondFields, SameOperators DEF S!Restart, Follows
<1>3. CASE SecondAcquires \/ FirstAcquires
  BY <1>3, SecondFields DEF SecondAcquires, FirstAcquires, ownVars2, Follows,
     KeepsCopy
<1>4. CASE SecondIsTold
  BY <1>4, SecondFields DEF SecondIsTold, ownVars2, Told, Follows, KeepsCopy, Writes
<1> QED BY <1>1, <1>2, <1>3, <1>4

-----------------------------------------------------------------------------
(***************************************************************************)
(* The composition.                                                        *)
(***************************************************************************)
\* One of the two takes a step, the other is told.
LEMMA EarlyPair ==
    ASSUME NEW p, NEW q, p # q, NEW m, NEW n, NEW x, NEW y,
           ManagerOK(api, m), ManagerOK(api, x),
           EarlyManager(api, m), EarlyManager(api, x),
           (leaderElect => leader = p) => Rested(api, m),
           (leaderElect => leader = q) => Rested(api, x),
           \A k \in AllKinds : api[k] \in Genuine(api, k),
           IsTold(x, y), \A k \in AllKinds : Follows(k, x, y),
           leaderElect' = leaderElect,
           \/ /\ (leaderElect => leader = p) /\ Works(m, n) /\ Calls(m, n)
              /\ leader' = leader
           \/ /\ \A k \in AllKinds : api'[k] = api[k] /\ Follows(k, m, n)
              /\ \/ Hears(m, n) /\ leader' = leader
                 \/ /\ Restarts(m, n)
                    /\ leader' = (IF leader = p THEN Nil ELSE leader)
                 \/ Acquires(m, n) /\ leaderElect /\ leader = Nil /\ leader' = p,
           Nil \notin {p, q}
    PROVE  /\ \A k \in AllKinds : api'[k] \in Genuine(api', k)
           /\ EarlyManager(api', n) /\ EarlyManager(api', y)
           /\ (leaderElect' => leader' = p) => Rested(api', n)
           /\ (leaderElect' => leader' = q) => Rested(api', y)
<1>1. Lasting /\ Kept
  BY CallsLast, NothingLost DEF Kept
<1>2. \A k \in Followed : api'[k] \in Copies(k)
  BY ActStep
<1>3. EarlyManager(api', y) /\ (Rested(api, x) => Rested(api', y))
  BY <1>1, <1>2, EarlyTold
<1>4. (leaderElect' => leader' = q) => (leaderElect => leader = q)
  OBVIOUS
<1>5. CASE (leaderElect => leader = p) /\ Works(m, n) /\ Calls(m, n)
  BY <1>1, <1>3, <1>4, <1>5, EarlyWorks DEF Lasting
<1>6. CASE /\ \A k \in AllKinds : api'[k] = api[k] /\ Follows(k, m, n)
           /\ \/ Hears(m, n) /\ leader' = leader
              \/ Restarts(m, n)
              \/ Acquires(m, n)
  <2>1. /\ EarlyManager(api', n)
        /\ Hears(m, n) /\ Rested(api, m) => Rested(api', n)
        /\ Restarts(m, n) \/ Acquires(m, n) => Rested(api', n)
    BY <1>1, <1>6, EarlyChanges
  <2> QED BY <1>1, <1>3, <1>4, <1>6, <2>1 DEF Lasting
<1> QED BY <1>5, <1>6

HistoryKept == past' = past /\ used'["creates"] = used["creates"]

\* Only the user counts the creations and the earlier specs.
LEMMA HistorySteps ==
    ASSUME UsedOK
    PROVE  /\ Operator \/ RetryExpires \/ Resync \/ CallFails \/ Restart
              => HistoryKept
           /\ \A k \in AllKinds : DeliverEvent(k) => HistoryKept
           /\ \A k \in Kinds : GarbageCollect(k) => HistoryKept
           /\ \/ S!Operator \/ S!RetryExpires \/ S!Resync \/ S!CallFails \/ S!Restart
              => HistoryKept
           /\ \A k \in AllKinds : S!DeliverEvent(k) => HistoryKept
           /\ FirstAcquires \/ SecondAcquires => HistoryKept
<1>1. Use("faults", MaxFaults) \/ S!Use("faults", MaxFaults)
        => used'["creates"] = used["creates"]
  BY DEF UsedOK, Use, S!Use, Bounds
<1>2. Operator => HistoryKept
  BY DEF HistoryKept, Operator, Reconcile, createOrUpdateServiceAccount,
     createOrUpdateRole,
     createOrUpdateRoleBinding, CreateIfMissing, AlreadyExists, ReturnError,
     createOrUpdateKyuubiConfigmap, waitForKyuubiConfigmap,
     createOrUpdateClusterRefsConfigmap, waitForClusterRefsConfigmap,
     CreateOrUpdateConfigMap, UpdateConfigMap, WaitForConfigMap,
     createOrUpdateKyuubi, createOrUpdateService, updateKyuubiClusterStatus,
     Proceed, history
<1>3. S!Operator => HistoryKept
  BY DEF HistoryKept, S!Operator, S!Reconcile, S!createOrUpdateServiceAccount,
     S!createOrUpdateRole, S!createOrUpdateRoleBinding, S!CreateIfMissing,
     S!AlreadyExists, S!ReturnError, S!createOrUpdateKyuubiConfigmap,
     S!waitForKyuubiConfigmap, S!createOrUpdateClusterRefsConfigmap,
     S!waitForClusterRefsConfigmap, S!CreateOrUpdateConfigMap,
     S!UpdateConfigMap, S!WaitForConfigMap, S!createOrUpdateKyuubi,
     S!createOrUpdateService, S!updateKyuubiClusterStatus, S!Proceed, S!history
<1>4. /\ RetryExpires \/ Resync \/ FirstAcquires \/ SecondAcquires => HistoryKept
      /\ \A k \in AllKinds : DeliverEvent(k) => HistoryKept
      /\ \A k \in Kinds : GarbageCollect(k) => HistoryKept
  BY DEF HistoryKept, RetryExpires, Resync, FirstAcquires, SecondAcquires,
     DeliverEvent, GarbageCollect, vars, history
<1>5. /\ S!RetryExpires \/ S!Resync => HistoryKept
      /\ \A k \in AllKinds : S!DeliverEvent(k) => HistoryKept
  BY DEF HistoryKept, S!RetryExpires, S!Resync, S!DeliverEvent, S!history
<1>6. (CallFails \/ Restart) \/ (S!CallFails \/ S!Restart) => HistoryKept
  BY <1>1 DEF HistoryKept, CallFails, Restart, S!CallFails, S!Restart
<1> QED BY <1>2, <1>3, <1>4, <1>5, <1>6

\* A step that is not the user's neither begins nor ends the time of the first
\* spec.
LEMMA EarlyBefore ==
    ASSUME EarlyInv, HistoryKept,
           \/ api'["cr"] = api["cr"]
           \/ api["cr"] # Nil /\ api'["cr"] # Nil /\ api'["cr"].uid = api["cr"].uid
    PROVE  (Early' => Early) /\ (used'["creates"] = 0 => api'["cr"] = Nil)
  BY DEF EarlyInv, HistoryKept, Early

\* What a running controller does to the KyuubiCluster.
LEMMA WorksOnCluster ==
    ASSUME NEW m, NEW n, ManagerOK(api, m), Works(m, n)
    PROVE  \/ api'["cr"] = api["cr"]
           \/ api["cr"] # Nil /\ api'["cr"] # Nil /\ api'["cr"].uid = api["cr"].uid
<1>1. SUFFICES ASSUME api'["cr"] # api["cr"]
               PROVE  /\ api["cr"] # Nil /\ api'["cr"] # Nil
                      /\ api'["cr"].uid = api["cr"].uid
  OBVIOUS
<1>2. api["cr"] \in Cluster
  BY <1>1, WorksOnStatus
<1>3. PICK st \in Status : api'["cr"] = [api["cr"] EXCEPT !.status = st]
  BY <1>1, WorksOnStatus
<1>4. api'["cr"] \in Cluster /\ api'["cr"].uid = api["cr"].uid
  BY <1>2, <1>3 DEF Cluster
<1> QED BY <1>2, <1>4, CopyFacts

\* The user creates the first KyuubiCluster, or the time of its first spec is
\* over.
LEMMA EarlyUser ==
    ASSUME ManagersInv, EarlyInv, User, SecondIsTold, UNCHANGED leaseVars
    PROVE  EarlyInv'
<1>1. /\ "cr" \in AllKinds /\ AllKinds = Kinds \cup {"cr"} /\ "cr" \notin Kinds
      /\ "cr" \in Followed /\ Followed \subseteq AllKinds /\ "svc" \in AllKinds
  BY KindFacts DEF AllKinds, Followed
<1>2. /\ Formed /\ Formed2 /\ UsedOK
      /\ ManagerOK(api, First) /\ ManagerOK(api, Second)
  BY DEF ManagersInv, Pair
<1>3. used["creates"] \in Nat
  BY <1>2 DEF UsedOK, Bounds
<1>4. \A k \in Followed : api[k] \in Copies(k)
  BY <1>2 DEF ManagerOK, View
<1>5. CASE \E spec \in Specs : UserCreates(spec)
  <2>1. PICK spec \in Specs : UserCreates(spec)
    BY <1>5
  <2> DEFINE v == [uid |-> used["creates"] + 1, generation |-> 1, spec |-> spec,
                   status |-> NoStatus]
  <2>2. /\ api["cr"] = Nil /\ Write("cr", v) /\ past' = {}
        /\ used["creates"] < MaxCreates
        /\ used'["creates"] = used["creates"] + 1
    BY <1>2, <2>1 DEF UserCreates, WriteCluster, Default, Use, UsedOK, Bounds
  <2>3. /\ v \in Cluster /\ v.uid = used["creates"] + 1 /\ v.spec = spec
        /\ v.status.exposedInfos = Nil
    BY <1>3, <2>2, BoundsAssumption DEF Cluster, Status, NoStatus
  <2> HIDE DEF v
  <2>4. v # Nil
    BY <2>3, CopyFacts
  <2>5. /\ api'["cr"] = v /\ \A k \in Kinds : api'[k] = api[k]
        /\ api' = [k \in AllKinds |-> api'[k]]
    BY <1>1, <1>2, <2>2, FirstWrites DEF Writes, Keeps
  <2>6. used'["creates"] # 0
    BY <1>3, <2>2
  <2>7. CASE used["creates"] # 0
    <3>1. v.uid # 1
      BY <1>3, <2>3, <2>7
    <3> QED BY <2>5, <2>6, <3>1 DEF EarlyInv, Early
  <2>8. CASE used["creates"] = 0
    <3>1. /\ EarlyManager(api, First) /\ EarlyManager(api, Second)
          /\ \A k \in AllKinds : api[k] \in Genuine(api, k)
      BY <2>8 DEF EarlyInv, Early
    <3>2. \A k \in AllKinds : api[k] = Nil
      BY <2>2, <3>1 DEF Genuine
    <3>3. v.uid = 1
      BY <2>3, <2>8
    <3>4. \A k \in AllKinds : api'[k] \in Genuine(api', k)
      BY <1>1, <2>3, <2>4, <2>5, <3>2, <3>3 DEF Genuine, Stored
    <3>5. Lasting /\ Kept
      BY <2>2, <3>2, <3>4, GenuineGrows DEF Lasting, Kept
    <3>6. IsTold(First, First') /\ IsTold(Second, Second')
      BY <1>1, <1>2, <1>4, <2>1, <2>5, UserActs, SecondNotices DEF User
    <3>7. /\ \A k \in AllKinds : Follows(k, First, First')
          /\ \A k \in AllKinds : Follows(k, Second, Second')
      BY <1>1, <1>2, <2>2, FirstFollows, SecondKeepsUp
    <3>8. \A k \in Followed : api'[k] \in Copies(k)
      BY <1>1, <1>4, <2>3, <2>5, CopyFacts
    <3>9. Rested(api, First) /\ Rested(api, Second)
      BY <2>2 DEF Rested
    <3>10. EarlyManager(api', First') /\ Rested(api', First')
      BY <1>2, <3>1, <3>5, <3>6, <3>7, <3>8, <3>9, EarlyTold
    <3>11. EarlyManager(api', Second') /\ Rested(api', Second')
      BY <1>2, <3>1, <3>5, <3>6, <3>7, <3>8, <3>9, EarlyTold
    <3> QED BY <2>6, <3>4, <3>10, <3>11 DEF EarlyInv
  <2> QED BY <2>7, <2>8
<1>6. CASE \E spec \in Specs : UserEdits(spec)
  <2>1. /\ api["cr"] # Nil /\ past' # {}
        /\ used'["creates"] = used["creates"]
    BY <1>2, <1>6 DEF UserEdits, Use, UsedOK, Bounds
  <2>2. used'["creates"] # 0
    BY <2>1 DEF EarlyInv
  <2> QED BY <2>1, <2>2 DEF EarlyInv, Early
<1>7. CASE UserDeletes
  <2>1. /\ api["cr"] # Nil /\ used'["creates"] = used["creates"]
        /\ Write("cr", Nil)
    BY <1>2, <1>7 DEF UserDeletes, WriteCluster, Use, UsedOK, Bounds
  <2>2. used'["creates"] # 0
    BY <2>1 DEF EarlyInv
  <2>3. api'["cr"] = Nil
    BY <1>1, <1>2, <2>1, FirstWrites DEF Writes
  <2> QED BY <2>2, <2>3 DEF EarlyInv, Early
<1> QED BY <1>5, <1>6, <1>7 DEF User

\* The garbage collector finds nothing to collect in that time.
LEMMA EarlyCollector ==
    ASSUME ManagersInv, EarlyInv, NEW k \in Kinds, GarbageCollect(k)
    PROVE  EarlyInv'
<1>1. k \in AllKinds /\ "cr" \in AllKinds \ {k} /\ k # "cr"
  BY KindFacts
<1>2. Formed /\ UsedOK
  BY DEF ManagersInv
<1>3. /\ api'["cr"] = api["cr"] /\ api[k] # Nil
      /\ api["cr"] # Nil => api["cr"].uid # api[k].owner
  BY <1>1, <1>2, CollectorActs DEF GarbageCollect
<1>4. HistoryKept
  BY <1>2, HistorySteps
<1>5. /\ Early' => Early
      /\ used'["creates"] = 0 => api'["cr"] = Nil
  BY <1>3, <1>4, EarlyBefore
<1>6. ~Early
  <2>1. SUFFICES ASSUME Early PROVE FALSE
    OBVIOUS
  <2>2. api[k] \in Genuine(api, k) /\ api["cr"] \in Genuine(api, "cr")
    BY <1>1, <2>1 DEF EarlyInv
  <2>3. api[k].owner = 1 /\ api["cr"] # Nil
    BY <1>1, <1>3, <2>2 DEF Genuine
  <2>4. api["cr"].uid = 1
    BY <2>2, <2>3 DEF Genuine
  <2> QED BY <1>3, <2>3, <2>4
<1> QED BY <1>5, <1>6 DEF EarlyInv

\* Every step of the composition.
LEMMA EarlyStep ==
    ManagersInv /\ EarlyInv /\ [ManagersNext]_managerVars => EarlyInv'
<1> SUFFICES ASSUME ManagersInv, EarlyInv, [ManagersNext]_managerVars
             PROVE  EarlyInv'
  OBVIOUS
<1>0. /\ Formed /\ Formed2 /\ UsedOK
      /\ ManagerOK(api, First) /\ ManagerOK(api, Second)
      /\ Nil \notin {"first", "second"} /\ "cr" \in AllKinds
  BY LeaseAssumption, KindFacts DEF ManagersInv, Pair
<1>1. CASE Environment
  BY <1>1, EarlyUser, EarlyCollector DEF Environment
<1>2. CASE FirstManager \/ FirstRestarts \/ FirstAcquires
  <2>1. \/ /\ (leaderElect => leader = "first") /\ leader' = leader
           /\ Operator \/ RetryExpires \/ Resync \/ CallFails
           /\ Works(First, First')
        \/ /\ \A k \in AllKinds : api'[k] = api[k] /\ Follows(k, First, First')
           /\ \/ Hears(First, First') /\ leader' = leader
              \/ /\ Restarts(First, First')
                 /\ leader' = (IF leader = "first" THEN Nil ELSE leader)
              \/ /\ Acquires(First, First')
                 /\ leaderElect /\ leader = Nil /\ leader' = "first"
    <3>1. CASE /\ (leaderElect => leader = "first") /\ UNCHANGED leaseVars
               /\ Operator \/ RetryExpires \/ Resync \/ CallFails
      BY <1>0, <3>1, FirstWorks DEF leaseVars
    <3>2. CASE (\E k \in AllKinds : DeliverEvent(k)) /\ UNCHANGED leaseVars
      BY <1>0, <3>2, FirstHears, FirstKeepsUp DEF DeliverEvent, leaseVars
    <3>3. CASE FirstRestarts
      BY <1>0, <3>3, FirstRestartsAsManager, FirstKeepsUp
         DEF FirstRestarts, Restart, Released
    <3>4. CASE FirstAcquires
      <4>1. pc = "idle"
        BY <1>0, <3>4, FirstFields DEF FirstAcquires, ManagersInv, Pair
      <4> QED BY <1>0, <3>4, <4>1, FirstAcquiresAsManager, FirstKeepsUp
              DEF FirstAcquires, storeVars
    <3> QED BY <1>2, <3>1, <3>2, <3>3, <3>4 DEF FirstManager, Leads
  <2>2. HistoryKept /\ leaderElect' = leaderElect
    BY <1>0, <1>2, HistorySteps
       DEF FirstManager, FirstRestarts, Released, FirstAcquires, leaseVars
  <2>3. /\ Early' => Early
        /\ used'["creates"] = 0 => api'["cr"] = Nil
    BY <1>0, <2>1, <2>2, WorksOnCluster, EarlyBefore
  <2>4. Formed'
    BY <1>0, <1>2, FirstWorks, FirstHears, FirstRestartsAsManager
       DEF FirstManager, FirstRestarts, FirstAcquires, Formed, storeVars, localVars
  <2>5. IsTold(Second, Second') /\ \A k \in AllKinds : Follows(k, Second, Second')
    BY <1>0, <1>2, <2>4, SecondNotices, SecondUntouched, SecondKeepsUp
       DEF FirstManager, FirstRestarts, Formed
  <2>6. ASSUME Early
        PROVE  /\ \A k \in AllKinds : api'[k] \in Genuine(api', k)
               /\ EarlyManager(api', First') /\ EarlyManager(api', Second')
               /\ (leaderElect' => leader' = "first") => Rested(api', First')
               /\ (leaderElect' => leader' = "second") => Rested(api', Second')
    <3>1. /\ \A k \in AllKinds : api[k] \in Genuine(api, k)
          /\ EarlyManager(api, First) /\ EarlyManager(api, Second)
          /\ (leaderElect => leader = "first") => Rested(api, First)
          /\ (leaderElect => leader = "second") => Rested(api, Second)
      BY <2>6 DEF EarlyInv
    <3>2. Operator \/ RetryExpires \/ Resync \/ CallFails => Calls(First, First')
      BY <1>0, <3>1, FirstMakesCalls
    <3>3. \/ /\ (leaderElect => leader = "first") /\ leader' = leader
             /\ Works(First, First') /\ Calls(First, First')
          \/ /\ \A k \in AllKinds : api'[k] = api[k] /\ Follows(k, First, First')
             /\ \/ Hears(First, First') /\ leader' = leader
                \/ /\ Restarts(First, First')
                   /\ leader' = (IF leader = "first" THEN Nil ELSE leader)
                \/ /\ Acquires(First, First')
                   /\ leaderElect /\ leader = Nil /\ leader' = "first"
      BY <2>1, <3>2
    <3> QED BY <1>0, <2>2, <2>5, <3>1, <3>3, EarlyPair
  <2> QED BY <2>3, <2>6 DEF EarlyInv
<1>3. CASE SecondManager \/ SecondRestarts \/ SecondAcquires
  <2>1. \/ /\ (leaderElect => leader = "second") /\ leader' = leader
           /\ S!Operator \/ S!RetryExpires \/ S!Resync \/ S!CallFails
           /\ Works(Second, Second')
        \/ /\ \A k \in AllKinds : api'[k] = api[k] /\ Follows(k, Second, Second')
           /\ \/ Hears(Second, Second') /\ leader' = leader
              \/ /\ Restarts(Second, Second')
                 /\ leader' = (IF leader = "second" THEN Nil ELSE leader)
              \/ /\ Acquires(Second, Second')
                 /\ leaderElect /\ leader = Nil /\ leader' = "second"
    <3>1. CASE /\ (leaderElect => leader = "second") /\ UNCHANGED leaseVars
               /\ S!Operator \/ S!RetryExpires \/ S!Resync \/ S!CallFails
      BY <1>0, <3>1, SecondWorks DEF leaseVars
    <3>2. CASE (\E k \in AllKinds : S!DeliverEvent(k)) /\ UNCHANGED leaseVars
      BY <1>0, <3>2, SecondHears, SecondKeepsUp DEF S!DeliverEvent, leaseVars
    <3>3. CASE SecondRestarts
      BY <1>0, <3>3, SecondRestartsAsManager, SecondKeepsUp
         DEF SecondRestarts, S!Restart, Released
    <3>4. CASE SecondAcquires
      <4>1. pc2 = "idle"
        BY <1>0, <3>4, SecondFields DEF SecondAcquires, ManagersInv, Pair
      <4> QED BY <1>0, <3>4, <4>1, SecondAcquiresAsManager, SecondKeepsUp
              DEF SecondAcquires, vars, storeVars
    <3> QED BY <1>3, <3>1, <3>2, <3>3, <3>4 DEF SecondManager, Leads
  <2>2. HistoryKept /\ leaderElect' = leaderElect
    BY <1>0, <1>3, HistorySteps
       DEF SecondManager, SecondRestarts, Released, SecondAcquires, leaseVars
  <2>3. /\ Early' => Early
        /\ used'["creates"] = 0 => api'["cr"] = Nil
    BY <1>0, <2>1, <2>2, WorksOnCluster, EarlyBefore
  <2>4. Formed2' \/ SecondAcquires
    BY <1>0, <1>3, SecondWorks, SecondHears, SecondRestartsAsManager
       DEF SecondManager, SecondRestarts
  <2>5. IsTold(First, First') /\ \A k \in AllKinds : Follows(k, First, First')
    BY <1>0, <1>3, <2>4, FirstNotices, FirstUntouched, FirstKeepsUp
       DEF SecondManager, SecondRestarts, Formed2
  <2>6. ASSUME Early
        PROVE  /\ \A k \in AllKinds : api'[k] \in Genuine(api', k)
               /\ EarlyManager(api', First') /\ EarlyManager(api', Second')
               /\ (leaderElect' => leader' = "first") => Rested(api', First')
               /\ (leaderElect' => leader' = "second") => Rested(api', Second')
    <3>1. /\ \A k \in AllKinds : api[k] \in Genuine(api, k)
          /\ EarlyManager(api, First) /\ EarlyManager(api, Second)
          /\ (leaderElect => leader = "first") => Rested(api, First)
          /\ (leaderElect => leader = "second") => Rested(api, Second)
      BY <2>6 DEF EarlyInv
    <3>2. \/ S!Operator \/ S!RetryExpires \/ S!Resync \/ S!CallFails
          => Calls(Second, Second')
      BY <1>0, <3>1, SecondMakesCalls
    <3>3. \/ /\ (leaderElect => leader = "second") /\ leader' = leader
             /\ Works(Second, Second') /\ Calls(Second, Second')
          \/ /\ \A k \in AllKinds : api'[k] = api[k] /\ Follows(k, Second, Second')
             /\ \/ Hears(Second, Second') /\ leader' = leader
                \/ /\ Restarts(Second, Second')
                   /\ leader' = (IF leader = "second" THEN Nil ELSE leader)
                \/ /\ Acquires(Second, Second')
                   /\ leaderElect /\ leader = Nil /\ leader' = "second"
      BY <2>1, <3>2
    <3>4. /\ \A k \in AllKinds : api'[k] \in Genuine(api', k)
          /\ EarlyManager(api', Second') /\ EarlyManager(api', First')
          /\ (leaderElect' => leader' = "second") => Rested(api', Second')
          /\ (leaderElect' => leader' = "first") => Rested(api', First')
      <4> DEFINE m == Second
                 n == Second'
                 x == First
                 y == First'
      <4> HIDE DEF m, n, x, y
      <4>1. /\ ManagerOK(api, m) /\ ManagerOK(api, x)
            /\ EarlyManager(api, m) /\ EarlyManager(api, x)
            /\ (leaderElect => leader = "second") => Rested(api, m)
            /\ (leaderElect => leader = "first") => Rested(api, x)
        BY <1>0, <3>1 DEF m, x
      <4>2. IsTold(x, y) /\ \A k \in AllKinds : Follows(k, x, y)
        BY <2>5 DEF x, y
      <4>3. \/ /\ (leaderElect => leader = "second") /\ Works(m, n) /\ Calls(m, n)
               /\ leader' = leader
            \/ /\ \A k \in AllKinds : api'[k] = api[k] /\ Follows(k, m, n)
               /\ \/ Hears(m, n) /\ leader' = leader
                  \/ /\ Restarts(m, n)
                     /\ leader' = (IF leader = "second" THEN Nil ELSE leader)
                  \/ /\ Acquires(m, n)
                     /\ leaderElect /\ leader = Nil /\ leader' = "second"
        BY <3>3 DEF m, n
      <4>4. "second" # "first"
        OBVIOUS
      <4>5. /\ \A k \in AllKinds : api'[k] \in Genuine(api', k)
            /\ EarlyManager(api', n) /\ EarlyManager(api', y)
            /\ (leaderElect' => leader' = "second") => Rested(api', n)
            /\ (leaderElect' => leader' = "first") => Rested(api', y)
        BY <1>0, <2>2, <3>1, <4>1, <4>2, <4>3, <4>4, EarlyPair
      <4> QED BY <4>5 DEF n, y
    <3> QED BY <3>4
  <2> QED BY <2>3, <2>6 DEF EarlyInv
<1>4. CASE UNCHANGED managerVars
  <2>1. /\ UNCHANGED vars /\ UNCHANGED <<ownVars2, lag2, fresh2, leaseVars>>
    BY <1>4 DEF managerVars
  <2>2. First' = First /\ Second' = Second /\ api' = api /\ used' = used
        /\ leader' = leader /\ leaderElect' = leaderElect /\ past' = past
    BY <2>1 DEF vars, storeVars, queueVars, localVars, history, ownVars2,
       leaseVars, First, Second
  <2> QED BY <2>2 DEF EarlyInv, Early
<1> QED BY <1>1, <1>2, <1>3, <1>4 DEF ManagersNext

\* Nothing is there, and no pass is under way.
LEMMA EarlyBegins == ManagersInit => EarlyInv
<1> SUFFICES ASSUME ManagersInit PROVE EarlyInv
  OBVIOUS
<1>1. /\ api = [k \in AllKinds |-> Nil] /\ cache = [k \in AllKinds |-> Nil]
      /\ lag = [k \in AllKinds |-> <<>>] /\ pc = "idle" /\ kyuubi = Nil
  BY DEF ManagersInit, Init
<1>2. /\ cache2 = [k \in AllKinds |-> Nil] /\ lag2 = [k \in AllKinds |-> <<>>]
      /\ pc2 = "idle" /\ kyuubi2 = Nil
  BY SameOperators DEF ManagersInit, S!Init
<1>3. "cr" \in AllKinds
  BY KindFacts
<1>4. \A k \in AllKinds : Nil \in Genuine(api, k) /\ <<>> \in Seq(Genuine(api, k))
  BY DEF Genuine
<1>5. \A k \in Kinds : "idle" \notin After[k]
  BY AccessAssumption DEF Kinds, After
<1>6. api["cr"] = Nil /\ \A k \in AllKinds : api[k] \in Genuine(api, k)
  BY <1>1, <1>3, <1>4
<1>7. EarlyManager(api, First)
  BY <1>1, <1>3, <1>4, <1>5, FirstFields DEF EarlyManager
<1>8. EarlyManager(api, Second)
  BY <1>2, <1>3, <1>4, <1>5, SecondFields DEF EarlyManager
<1> QED BY <1>6, <1>7, <1>8 DEF EarlyInv, Rested

\* While the first KyuubiCluster of its name has its first spec, every copy that
\* either process has is of an object of that spec, a pass has made what it has
\* been through, and a running controller that is at rest has done everything.
THEOREM EarlyInvariance == ManagersSpec => []EarlyInv
  BY EarlyBegins, EarlyStep, ManagersInvariance, PTL DEF ManagersSpec

\* Two managers, with a lease or without, and whatever lags, fails, restarts or
\* takes the lease over: as long as the user has not changed the spec of the
\* first KyuubiCluster, all its objects and its status are right once every
\* running controller is quiet.  A controller that runs into the other's
\* AlreadyExists, or whose status update finds a newer version, comes back.
THEOREM FirstSpecIsSyncedByAll == ManagersSpec => []FirstSpecSyncedByAll
<1>1. ManagersInv /\ EarlyInv => FirstSpecSyncedByAll
  <2>1. SUFFICES ASSUME ManagersInv, EarlyInv, AllQuiet, api["cr"] # Nil,
                        api["cr"].uid = 1, past = {}
                 PROVE  Synced
    BY DEF FirstSpecSyncedByAll
  <2>2. /\ \A k \in AllKinds : api[k] \in Genuine(api, k)
        /\ (leaderElect => leader = "first") => Rested(api, First)
        /\ (leaderElect => leader = "second") => Rested(api, Second)
    BY <2>1 DEF EarlyInv, Early
  <2>3. \/ leaderElect => leader = "first"
        \/ leaderElect => leader = "second"
    BY <2>1 DEF ManagersInv, Pair, AllQuiet
  <2>4. (leaderElect => leader = "first") => Complete(api)
    BY <2>1, <2>2, FirstFields DEF AllQuiet, Leads, Settled, Quiet, Rested
  <2>5. (leaderElect => leader = "second") => Complete(api)
    BY <2>1, <2>2, SecondFields DEF AllQuiet, Leads, S!Settled, Quiet, Rested
  <2>6. Complete(api)
    BY <2>3, <2>4, <2>5
  <2>7. Kinds \subseteq AllKinds /\ "cr" \notin Kinds /\ "svc" \in Kinds
    BY KindFacts
  <2>8. \A k \in Kinds : InSync(k)
    BY <2>1, <2>2, <2>6, <2>7 DEF Genuine, Complete, InSync
  <2>9. api["svc"].data = contructDesiredService
    <3>1. api["svc"] \in Object("svc")
      BY <2>2, <2>6, <2>7 DEF Genuine, Complete, Stored
    <3> QED BY <3>1, ServiceManifest DEF Object
  <2> QED BY <2>1, <2>6, <2>7, <2>8, <2>9 DEF Complete, Synced, StatusInSync
<1> QED BY <1>1, ManagersInvariance, EarlyInvariance, PTL
=============================================================================
