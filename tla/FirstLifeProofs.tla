--------------------------- MODULE FirstLifeProofs --------------------------
(***************************************************************************)
(* The first KyuubiCluster of a name: when the operator has settled on it, *)
(* every object is what the spec asks for, or is a ConfigMap that an       *)
(* earlier spec may have asked for too.                                    *)
(***************************************************************************)
EXTENDS KyuubiVersionsProofs, FiniteSetTheorems

-----------------------------------------------------------------------------
(***************************************************************************)
(* compareConf.                                                            *)
(***************************************************************************)
\* Two maps with finitely many keys that compareConf takes for equal are equal.
LEMMA CompareIsEquality ==
    ASSUME NEW srcConf, srcConf = [key \in DOMAIN srcConf |-> srcConf[key]],
           NEW dstConf, dstConf = [key \in DOMAIN dstConf |-> dstConf[key]],
           IsFiniteSet(DOMAIN dstConf), compareConf(srcConf, dstConf)
    PROVE  srcConf = dstConf
<1>1. /\ Cardinality(DOMAIN srcConf) = Cardinality(DOMAIN dstConf)
      /\ \A key \in DOMAIN srcConf :
            key \in DOMAIN dstConf /\ srcConf[key] = dstConf[key]
  BY DEF compareConf
<1>2. DOMAIN srcConf = DOMAIN dstConf
  BY <1>1, FS_Subset
<1> QED BY <1>1, <1>2

\* What map2String and map2Xml render is one text for each file.
LEMMA RenderedFiles ==
    ASSUME NEW conf, NEW data \in RenderAll(conf)
    PROVE  \E S : data \in [DOMAIN conf -> S]
  BY DEF RenderAll

Files == {DefaultKyuubiConfFile, DefaultSparkConfFile, DefaultHiveSiteFile,
          DefaultHdfsSiteFile, DefaultCoreSiteFile}

\* A ConfigMap has some of five files.
LEMMA ConfigMapFiles ==
    ASSUME NEW k \in {"kyuubiCm", "refsCm"}, NEW data \in Manifest[k]
    PROVE  \E D \in SUBSET Files : \E S : data \in [D -> S]
<1>1. PICK spec \in Specs : data \in Wanted[k][spec]
  BY KindFacts DEF Manifest
<1>2. CASE k = "kyuubiCm"
  <2> DEFINE conf == [f \in {DefaultKyuubiConfFile} |-> OrEmpty(spec.kyuubiConf)]
  <2>1. data \in RenderAll(conf)
    BY <1>1, <1>2, WantedTable DEF constructKyuubiConfigMap
  <2>2. DOMAIN conf = {DefaultKyuubiConfFile}
    OBVIOUS
  <2> QED BY <2>1, <2>2, RenderedFiles DEF Files
<1>3. CASE k = "refsCm"
  <2> DEFINE refs == spec.clusterRefs
  <2>1. data \in RenderAll(ClusterRefsConf(refs))
    BY <1>1, <1>3, WantedTable DEF desiredClusterRefsConfigMap
  <2>2. DOMAIN ClusterRefsConf(refs) = UNION {FilesOf(refs[i].type) : i \in DOMAIN refs}
    BY DEF ClusterRefsConf
  <2>3. \A i \in DOMAIN refs : FilesOf(refs[i].type) \subseteq Files
    BY RefTypesAssumption DEF FilesOf, Files, ClusterTypes
  <2>4. DOMAIN ClusterRefsConf(refs) \subseteq Files
    BY <2>2, <2>3
  <2> QED BY <2>1, <2>4, RenderedFiles
<1> QED BY <1>2, <1>3

\* So createOrUpdateKyuubiConfigmap and createOrUpdateClusterRefsConfigmap leave a
\* ConfigMap alone exactly when it has the desired data.
LEMMA ComparedConfigMaps ==
    ASSUME NEW k \in {"kyuubiCm", "refsCm"},
           NEW data \in Manifest[k], NEW found \in Manifest[k],
           compareConf(data, found)
    PROVE  data = found
<1>1. PICK D \in SUBSET Files : \E S : data \in [D -> S]
  BY ConfigMapFiles
<1>2. PICK S : data \in [D -> S]
  BY <1>1
<1>3. PICK E \in SUBSET Files : \E T : found \in [E -> T]
  BY ConfigMapFiles
<1>4. PICK T : found \in [E -> T]
  BY <1>3
<1>5. IsFiniteSet(E)
  <2> DEFINE F1 == {DefaultKyuubiConfFile}
             F2 == F1 \cup {DefaultSparkConfFile}
             F3 == F2 \cup {DefaultHiveSiteFile}
             F4 == F3 \cup {DefaultHdfsSiteFile}
             F5 == F4 \cup {DefaultCoreSiteFile}
  <2>1. Files = F5
    BY DEF Files
  <2> HIDE DEF F5
  <2>2. IsFiniteSet(F1)
    BY FS_Singleton
  <2> HIDE DEF F1
  <2>3. IsFiniteSet(F2)
    BY <2>2, FS_AddElement
  <2> HIDE DEF F2
  <2>4. IsFiniteSet(F3)
    BY <2>3, FS_AddElement
  <2> HIDE DEF F3
  <2>5. IsFiniteSet(F4)
    BY <2>4, FS_AddElement
  <2> HIDE DEF F4
  <2>6. IsFiniteSet(F5)
    BY <2>5, FS_AddElement DEF F5
  <2> QED BY <2>1, <2>6, FS_Subset
<1>6. /\ data = [f \in DOMAIN data |-> data[f]] /\ DOMAIN found = E
      /\ found = [f \in DOMAIN found |-> found[f]]
  BY <1>2, <1>4
<1> QED BY <1>5, <1>6, CompareIsEquality

-----------------------------------------------------------------------------
(***************************************************************************)
(* The first KyuubiCluster of a name and its objects.                      *)
(***************************************************************************)
FirstLife == api["cr"] # Nil /\ api["cr"].uid = 1

\* Nobody has told the operator anything that it has yet to act on.
Quiet == ~queued /\ ~retry /\ lag["cr"] = <<>>

\* The places in createOrUpdateClusters where the call for each object is still
\* to be made.
ToDo ==
    [sa       |-> {"sa"},
     role     |-> {"sa", "role"},
     rb       |-> {"sa", "role", "rb"},
     kyuubiCm |-> {"sa", "role", "rb", "kyuubiCm"},
     refsCm   |-> {"sa", "role", "rb", "kyuubiCm", "kyuubiCmWait", "refsCm"},
     sts      |-> BeforeWorkload,
     svc      |-> BeforeWorkload \cup {"svc"}]

\* A pass that nothing will follow works on the KyuubiCluster as it is.
PassIsCurrent == Quiet /\ pc # "idle" => kyuubi = api["cr"]

\* There are no objects, and no events of one, before the first KyuubiCluster.
NothingBefore == used["creates"] = 0 => \A k \in Kinds : lag[k] = <<>>

\* Nothing is collected, and once a copy of the object is what the spec asks
\* for, so are the later ones, unless an earlier spec asked for the same.
NewsInOrder(k) ==
    /\ Nil \notin Range(lag[k])
    /\ ~Reverted(k) =>
          /\ cache[k] # Nil /\ IsCurrent(k, cache[k])
               => \A e \in Range(lag[k]) : IsCurrent(k, e)
          /\ \A i, j \in DOMAIN lag[k] :
                i <= j /\ IsCurrent(k, lag[k][i]) => IsCurrent(k, lag[k][j])

Right(k) == InSync(k) \/ (k \in {"kyuubiCm", "refsCm"} /\ Reverted(k))

\* The calls that a last pass has made have done what they are for.
CallsDone == Quiet => \A k \in Kinds : pc \notin ToDo[k] => Right(k)

\* No status is written before there is a Service, and the first one is written
\* by a pass that had the Service of an empty list of ports in hand, or later.
StatusAfterService ==
    /\ pc = "status" => api["svc"] # Nil
    /\ api["svc"] = Nil \/ (pc = "status" /\ existing = <<>>)
         => \A c \in Seen \cup {api["cr"]} : c.status.exposedInfos = Nil

FirstLifeInv ==
    /\ PassIsCurrent
    /\ NothingBefore
    /\ FirstLife =>
          /\ \A k \in Kinds : NewsInOrder(k)
          /\ CallsDone
          /\ StatusAfterService
          /\ Quiet /\ pc = "idle" => StatusInSync

\* The first KyuubiCluster owns every object there is.
LEMMA FirstOwners ==
    ASSUME BaseInv, VersionsInv, ObjectsInv, FirstLife
    PROVE  /\ used["creates"] = 1
           /\ \A c \in Seen : c.uid = 1
           /\ \A k \in Kinds : \A o \in ObjectsOf(k) : o.owner = 1
<1>1. used["creates"] = 1
  BY DEF VersionsInv, UidsCount, FirstLife
<1>2. \A c \in Seen : c.uid = 1
  <2>1. \A c \in Seen : c.uid \in Nat /\ c.uid >= 1 /\ c.uid <= used["creates"]
    BY SeenTypes DEF VersionsInv, SeenAreVersions, IsVersion
  <2> QED BY <1>1, <2>1
<1>3. ASSUME NEW k \in Kinds, NEW o \in ObjectsOf(k) PROVE o.owner = 1
  <2>1. o.owner \in Nat /\ o.owner >= 1 /\ o.owner <= used["creates"]
    BY ObjectTypes DEF ObjectsInv, FitsVersions
  <2> QED BY <1>1, <2>1
<1> QED BY <1>1, <1>2, <1>3

\* What a pass stores belongs to the first KyuubiCluster.
LEMMA FirstStored ==
    ASSUME BaseInv, VersionsInv, ObjectsInv, FirstLife,
           NEW k \in Kinds, NEW v, PassStores(k, v)
    PROVE  /\ v # Nil /\ v.owner = 1 /\ v.data \in Wanted[k][kyuubi.spec]
           /\ kyuubi \in Seen
           /\ api'[k] = v /\ api'["cr"] = api["cr"] /\ past' = past
<1>1. pc # "idle"
  BY AccessAssumption DEF PassStores, Kinds
<1>2. kyuubi # Nil
  BY <1>1, PassFacts DEF BaseInv
<1>3. kyuubi \in Seen /\ kyuubi.uid = 1
  BY <1>2, FirstOwners DEF Seen
<1>4. v.owner = 1
  <2>1. api[k] # Nil => api[k].owner = 1
    BY FirstOwners DEF ObjectsOf
  <2> QED BY <1>3, <2>1 DEF PassStores
<1>5. v # Nil
  BY CopyFacts DEF PassStores
<1> QED BY <1>3, <1>4, <1>5, KindFacts DEF PassStores, Stores, Kept, history

\* So the garbage collector has nothing to do.
LEMMA FirstNotCollected ==
    ASSUME BaseInv, VersionsInv, ObjectsInv, FirstLife, NEW k
    PROVE  ~ObjectCollected(k)
<1> SUFFICES ASSUME ObjectCollected(k) PROVE FALSE
  OBVIOUS
<1>1. k \in Kinds /\ api[k] # Nil /\ api["cr"].uid # api[k].owner
  BY DEF ObjectCollected, FirstLife
<1>2. api[k].owner = 1
  BY <1>1, FirstOwners DEF ObjectsOf
<1> QED BY <1>1, <1>2 DEF FirstLife

\* Before the first KyuubiCluster the operator has seen and done nothing.
LEMMA NothingSeen ==
    ASSUME BaseInv, VersionsInv, ObjectsInv, used["creates"] = 0
    PROVE  /\ Seen = {} /\ kyuubi = Nil /\ pc = "idle"
           /\ \A k \in Kinds : ObjectsOf(k) = {}
<1>1. Seen = {}
  <2>1. \A c \in Seen : c.uid \in Nat /\ c.uid >= 1 /\ c.uid <= used["creates"]
    BY SeenTypes DEF VersionsInv, SeenAreVersions, IsVersion
  <2> QED BY <2>1
<1>2. kyuubi = Nil
  BY <1>1 DEF Seen
<1>3. pc = "idle"
  BY <1>2 DEF BaseInv, TypeOK, ReconcilerTypeOK
<1>4. ASSUME NEW k \in Kinds, NEW o \in ObjectsOf(k) PROVE FALSE
  <2>1. o.owner \in Nat /\ o.owner >= 1 /\ o.owner <= used["creates"]
    BY <1>4, ObjectTypes DEF ObjectsInv, FitsVersions
  <2> QED BY <2>1
<1> QED BY <1>1, <1>2, <1>3, <1>4

\* The first life begins with the first creation.
LEMMA FirstLifeStep ==
    ASSUME BaseInv, VersionsInv, [Next]_vars, FirstLife'
    PROVE  \/ FirstLife
           \/ used["creates"] = 0 /\ \E v : ClusterCreated(v) /\ api'["cr"] = v
<1>1. used["creates"] \in Nat
  BY SeenTypes
<1>2. ASSUME NEW v, ClusterCreated(v), api'["cr"] = v PROVE used["creates"] = 0
  BY <1>1, <1>2 DEF ClusterCreated, FirstLife
<1>3. ASSUME NEW v, ClusterEdited(v), api'["cr"] = v PROVE FirstLife
  BY <1>3 DEF ClusterEdited, FirstLife
<1> QED BY <1>2, <1>3, VersionStep DEF FirstLife

\* No object is written before the first KyuubiCluster has been created.
LEMMA NothingBeforeStep ==
    ASSUME BaseInv, VersionsInv, ObjectsInv, NothingBefore, [Next]_vars
    PROVE  NothingBefore'
<1> SUFFICES ASSUME used'["creates"] = 0, NEW k \in Kinds PROVE lag'[k] = <<>>
  BY DEF NothingBefore
<1>1. used["creates"] \in Nat /\ k \in AllKinds /\ k # "cr"
  BY SeenTypes, KindFacts
<1>2. used["creates"] = 0 /\ ~(\E v : ClusterCreated(v))
  BY <1>1, StepEffect DEF ClusterCreated, ClusterEdited, ClusterDeleted, OwnStep
<1>3. lag[k] = <<>> /\ pc = "idle" /\ \A j \in Kinds : lag[j] = <<>> /\ api[j] = Nil
  BY <1>2, NothingSeen DEF NothingBefore, ObjectsOf
<1>4. ASSUME NEW v, ClusterEdited(v) \/ ClusterDeleted \/ StatusStored(v)
      PROVE  lag'[k] = <<>>
  BY <1>3, <1>4 DEF ClusterEdited, ClusterDeleted, UserStores, StatusStored, Kept
<1>5. ASSUME NEW j \in Kinds, NEW v, PassStores(j, v) PROVE FALSE
  BY <1>3, <1>5, AccessAssumption DEF PassStores, Kinds
<1>6. ASSUME NEW j, ObjectCollected(j) PROVE FALSE
  BY <1>3, <1>6 DEF ObjectCollected
<1>7. ASSUME NEW j, EventApplied(j) PROVE lag'[k] = <<>>
  BY <1>1, <1>3, <1>7 DEF EventApplied, Applies, Kept
<1>8. CASE AllListed \/ AllKept
  BY <1>1, <1>3, <1>8 DEF AllListed, AllKept, Lists, Kept
<1> QED BY <1>2, <1>4, <1>5, <1>6, <1>7, <1>8, StepEffect DEF OwnStep

-----------------------------------------------------------------------------
(***************************************************************************)
(* What the informers have yet to see.                                     *)
(***************************************************************************)
\* A user's edit makes every object out of date, or the spec is one that the
\* KyuubiCluster may have had.
LEMMA EditOutdates ==
    ASSUME BaseInv, ObjectsInv, NEW w, ClusterEdited(w), api'["cr"] = w,
           NEW k \in Kinds, ~Reverted(k)', NEW o \in ObjectsOf(k)
    PROVE  ~IsCurrent(k, o)'
<1> SUFFICES ASSUME IsCurrent(k, o)' PROVE FALSE
  OBVIOUS
<1>1. /\ o.owner = api["cr"].uid /\ api["cr"] # Nil
      /\ o.data \in Wanted[k][api'["cr"].spec]
      /\ past' = past \cup {api["cr"].spec}
  BY DEF ClusterEdited, IsCurrent
<1>2. PICK spec \in past' : o.data \in Wanted[k][spec]
  BY <1>1 DEF ObjectsInv, FitsVersions
<1> QED BY <1>1, <1>2 DEF Reverted

\* While the KyuubiCluster has its version, an object stays what it is to it.
LEMMA SameVersion ==
    ASSUME api["cr"] # Nil, api'["cr"] # Nil, past' = past,
           api'["cr"].uid = api["cr"].uid, api'["cr"].spec = api["cr"].spec,
           NEW k
    PROVE  /\ \A o : IsCurrent(k, o)' = IsCurrent(k, o)
           /\ Reverted(k)' = Reverted(k)
  BY DEF IsCurrent, Reverted

\* What a pass stores after a copy that is right is right as well.
LEMMA NewsStays ==
    ASSUME BaseInv, VersionsInv, ObjectsInv, FirstLife, NEW k \in Kinds,
           NEW v, PassStores(k, v), ~Reverted(k),
           NEW o \in ObjectsOf(k), IsCurrent(k, o)
    PROVE  IsCurrent(k, v)
<1>1. v.owner = 1 /\ v.data \in Wanted[k][kyuubi.spec] /\ kyuubi \in Seen
  BY FirstStored
<1>2. kyuubi.spec = api["cr"].spec
  BY <1>1 DEF ObjectsInv, FitsVersions
<1> QED BY <1>1, <1>2 DEF IsCurrent, FirstLife

\* The events of an object come in the order in which its copies were stored,
\* and none of them is of another KyuubiCluster than the first.
LEMMA NewsInOrderStep ==
    ASSUME BaseInv, VersionsInv, ObjectsInv, FirstLifeInv, [Next]_vars, FirstLife',
           NEW k \in Kinds
    PROVE  NewsInOrder(k)'
<1>1. k \in AllKinds /\ k # "cr" /\ lag[k] \in Seq(Copies(k))
  BY KindFacts DEF BaseInv, TypeOK, StoreTypeOK
<1>2. ASSUME lag'[k] = <<>> PROVE NewsInOrder(k)'
  <2>1. DOMAIN lag'[k] = {} /\ Range(lag'[k]) = {}
    BY <1>2 DEF Range
  <2> QED BY <2>1 DEF NewsInOrder
<1>3. CASE used["creates"] = 0 /\ \E v : ClusterCreated(v)
  BY <1>2, <1>3 DEF ClusterCreated, UserStores, Kept, FirstLifeInv, NothingBefore
<1>4. CASE FirstLife
  <2>1. NewsInOrder(k) /\ Nil \notin Range(lag[k])
    BY <1>4 DEF FirstLifeInv, NewsInOrder
  <2>2. ASSUME NEW w, ClusterEdited(w), api'["cr"] = w PROVE NewsInOrder(k)'
    <3>1. lag'[k] = lag[k] /\ cache'[k] = cache[k]
      BY <2>2 DEF ClusterEdited, UserStores, Kept
    <3>2. \A i \in DOMAIN lag[k] : lag[k][i] \in Range(lag[k])
      BY DEF Range
    <3>3. \A i \in DOMAIN lag[k] : lag[k][i] \in ObjectsOf(k)
      BY <2>1, <3>2 DEF ObjectsOf
    <3>4. cache[k] # Nil => cache[k] \in ObjectsOf(k)
      BY DEF ObjectsOf
    <3> QED BY <2>1, <2>2, <3>1, <3>3, <3>4, EditOutdates DEF NewsInOrder
  <2>3. ASSUME api'["cr"] # Nil, past' = past, api'["cr"].uid = api["cr"].uid,
               api'["cr"].spec = api["cr"].spec
        PROVE  NewsInOrder(k)'
    <3>1. /\ \A o : IsCurrent(k, o)' = IsCurrent(k, o)
          /\ Reverted(k)' = Reverted(k)
      BY <1>4, <2>3, SameVersion DEF FirstLife
    <3>2. CASE Kept(k)
      BY <2>1, <3>1, <3>2 DEF Kept, NewsInOrder
    <3>3. CASE Applies(k)
      <4> DEFINE s == lag[k]
      <4>1. s \in Seq(Copies(k)) /\ s # <<>> /\ cache'[k] = Head(s) /\ lag'[k] = Tail(s)
        BY <1>1, <3>3 DEF Applies
      <4>2. /\ Range(Tail(s)) \subseteq Range(s)
            /\ 1 \in DOMAIN s /\ Head(s) = s[1] /\ DOMAIN s \subseteq Int
            /\ \A i \in DOMAIN s : 1 <= i
            /\ \A i \in DOMAIN Tail(s) : i + 1 \in DOMAIN s /\ Tail(s)[i] = s[i + 1]
        BY <4>1, EventApplies
      <4>3. DOMAIN Tail(s) \subseteq Int
        <5>1. Tail(s) \in Seq(Copies(k))
          BY <4>1
        <5> QED BY <5>1
      <4>4. \A i, j \in DOMAIN s :
               ~Reverted(k) /\ i <= j /\ IsCurrent(k, s[i]) => IsCurrent(k, s[j])
        BY <2>1 DEF NewsInOrder
      <4>5. ASSUME ~Reverted(k), IsCurrent(k, Head(s)), NEW e \in Range(Tail(s))
            PROVE  IsCurrent(k, e)
        <5>1. PICK i \in DOMAIN s : e = s[i]
          BY <4>2 DEF Range
        <5> QED BY <4>2, <4>4, <4>5, <5>1
      <4>6. ASSUME ~Reverted(k), NEW i \in DOMAIN Tail(s), NEW j \in DOMAIN Tail(s),
                   i <= j, IsCurrent(k, Tail(s)[i])
            PROVE  IsCurrent(k, Tail(s)[j])
        <5>1. i + 1 <= j + 1
          BY <4>3, <4>6
        <5> QED BY <4>2, <4>4, <4>6, <5>1
      <4> HIDE DEF s
      <4> QED BY <2>1, <3>1, <4>1, <4>2, <4>5, <4>6 DEF NewsInOrder, s
    <3>4. ASSUME NEW v, PassStores(k, v) PROVE NewsInOrder(k)'
      <4> DEFINE s == lag[k]
      <4>1. /\ v \in Copies(k) /\ v # Nil /\ lag'[k] = Append(s, v)
            /\ cache'[k] = cache[k]
        BY <3>4, CopyFacts DEF PassStores, Stores
      <4>2. /\ Range(Append(s, v)) = Range(s) \cup {v}
            /\ \A i \in DOMAIN Append(s, v) :
                 \/ i \in DOMAIN s /\ Append(s, v)[i] = s[i]
                 \/ i = Len(s) + 1 /\ Append(s, v)[i] = v
            /\ DOMAIN s = 1..Len(s) /\ Len(s) \in Nat
        BY <1>1, <4>1, EventsAppended
      <4>3. \A i \in DOMAIN s : s[i] \in ObjectsOf(k)
        <5>1. \A i \in DOMAIN s : s[i] \in Range(s)
          BY DEF Range
        <5> QED BY <2>1, <5>1 DEF ObjectsOf
      <4>4. cache[k] # Nil => cache[k] \in ObjectsOf(k)
        BY DEF ObjectsOf
      <4>5. ASSUME ~Reverted(k), NEW o \in ObjectsOf(k), IsCurrent(k, o)
            PROVE  IsCurrent(k, v)
        BY <1>4, <3>4, <4>5, NewsStays
      <4>6. ASSUME ~Reverted(k), cache[k] # Nil, IsCurrent(k, cache[k]),
                   NEW e \in Range(Append(s, v))
            PROVE  IsCurrent(k, e)
        BY <2>1, <4>2, <4>4, <4>5, <4>6 DEF NewsInOrder
      <4>7. ASSUME ~Reverted(k), NEW i \in DOMAIN Append(s, v),
                   NEW j \in DOMAIN Append(s, v),
                   i <= j, IsCurrent(k, Append(s, v)[i])
            PROVE  IsCurrent(k, Append(s, v)[j])
        <5>1. CASE i \in DOMAIN s /\ Append(s, v)[i] = s[i]
          BY <2>1, <4>2, <4>3, <4>5, <4>7, <5>1 DEF NewsInOrder
        <5>2. CASE i = Len(s) + 1 /\ Append(s, v)[i] = v
          <6>1. j \notin DOMAIN s
            BY <4>2, <4>7, <5>2
          <6> QED BY <4>2, <4>7, <5>2, <6>1
        <5> QED BY <4>2, <5>1, <5>2
      <4> HIDE DEF s
      <4> QED BY <2>1, <3>1, <4>1, <4>2, <4>6, <4>7 DEF NewsInOrder, s
    <3>5. ASSUME NEW v, \/ ClusterCreated(v) \/ ClusterEdited(v) \/ ClusterDeleted
                        \/ StatusStored(v)
          PROVE  Kept(k)
      BY <3>5 DEF ClusterCreated, ClusterEdited, ClusterDeleted, UserStores,
         StatusStored
    <3>6. ASSUME NEW j \in Kinds, NEW v, PassStores(j, v), j # k PROVE Kept(k)
      BY <1>1, <3>6 DEF PassStores
    <3>7. ASSUME NEW j, ObjectCollected(j) PROVE FALSE
      BY <1>4, <3>7, FirstNotCollected
    <3>8. ASSUME NEW j, EventApplied(j) PROVE Kept(k) \/ Applies(k)
      BY <1>1, <3>8 DEF EventApplied
    <3>9. CASE AllListed
      BY <1>1, <1>2, <3>9 DEF AllListed, Lists
    <3>10. CASE AllKept
      BY <3>2, <3>10 DEF AllKept
    <3> QED BY <3>2, <3>3, <3>4, <3>5, <3>6, <3>7, <3>8, <3>9, <3>10, StepEffect
            DEF OwnStep
  <2>4. ASSUME NEW v, ClusterCreated(v) PROVE FALSE
    BY <1>4, <2>4 DEF ClusterCreated, FirstLife
  <2> QED BY <2>2, <2>3, <2>4, VersionStep DEF FirstLife
<1> QED BY <1>3, <1>4, FirstLifeStep

-----------------------------------------------------------------------------
(***************************************************************************)
(* The steps after which nothing is queued, due or outstanding.            *)
(***************************************************************************)
\* A call of a running pass leaves the queue alone, or fails and is retried.
LEMMA CallQueues ==
    ASSUME Operator, ~Reconcile
    PROVE  pc # "idle" /\ (retry' = TRUE \/ (UNCHANGED queueVars))
  BY DEF Operator, createOrUpdateServiceAccount, createOrUpdateRole,
     createOrUpdateRoleBinding, CreateIfMissing, createOrUpdateKyuubiConfigmap,
     createOrUpdateClusterRefsConfigmap, CreateOrUpdateConfigMap,
     UpdateConfigMap, waitForKyuubiConfigmap, waitForClusterRefsConfigmap,
     WaitForConfigMap, createOrUpdateKyuubi, createOrUpdateService,
     updateKyuubiClusterStatus, AlreadyExists, ReturnError, Leave, Proceed

\* A pass is started, and no later one is due.
LastPassStarts ==
    /\ Reconcile
    /\ pc' = "sa" /\ kyuubi' = cache["cr"] /\ lag["cr"] = <<>>
    /\ UNCHANGED <<storeVars, history, existing>>

\* A step beside the last pass.
StepBeside ==
    /\ Quiet
    /\ api'["cr"] = api["cr"] /\ past' = past
    /\ UNCHANGED localVars
    /\ \A k \in Kinds : api'[k] = api[k] \/ ObjectCollected(k)

\* A call of the last pass.
LastPassCalls ==
    /\ Quiet
    /\ api'["cr"] = api["cr"] /\ past' = past
    /\ Operator /\ ~Reconcile /\ pc # "idle" /\ ~retry'
    /\ (\A k \in Kinds : Kept(k)) \/ \E k \in Kinds : \E v : PassStores(k, v)

\* The steps after which nothing is queued, due or outstanding.
LEMMA QuietStep ==
    ASSUME BaseInv, [Next]_vars, Quiet'
    PROVE  \/ AllListed /\ api'["cr"] = Nil
           \/ LastPassStarts
           \/ StepBeside
           \/ LastPassCalls
<1>1. /\ StoreTypeOK /\ "cr" \in AllKinds /\ "cr" \notin Kinds
      /\ Kinds \subseteq AllKinds /\ lag["cr"] \in Seq(Copies("cr"))
      /\ Nil \in Copies("cr")
  BY KindFacts, CopyFacts DEF BaseInv, TypeOK, StoreTypeOK
<1>2. ~queued' /\ ~retry' /\ lag'["cr"] = <<>>
  BY DEF Quiet
<1>3. ASSUME NEW v \in Copies("cr"), Stores("cr", v) PROVE FALSE
  BY <1>1, <1>2, <1>3, AppendLast DEF Stores
<1>4. CASE User
  <2>1. ASSUME NEW v, ClusterCreated(v) \/ ClusterEdited(v) PROVE FALSE
    BY <1>3, <2>1, CopyFacts DEF ClusterCreated, ClusterEdited, UserStores
  <2>2. CASE ClusterDeleted
    BY <1>1, <1>3, <2>2 DEF ClusterDeleted, UserStores
  <2> QED BY <1>4, <2>1, <2>2, UserEffect
<1>5. CASE Operator
  <2>1. CASE Reconcile
    <3>1. UNCHANGED <<storeVars, history>>
      BY <2>1 DEF Reconcile
    <3>2. lag' = lag
      BY <3>1 DEF storeVars
    <3> QED BY <1>2, <2>1, <3>1, <3>2 DEF Reconcile, LastPassStarts
  <2>2. CASE ~Reconcile
    <3>1. /\ pc # "idle" /\ past' = past
          /\ queued' = queued /\ retry' = retry
      BY <1>2, <1>5, <2>2, CallQueues, PassLocals DEF queueVars, history
    <3>2. ASSUME NEW v, StatusStored(v) PROVE FALSE
      BY <1>3, <3>2, CopyFacts DEF StatusStored
    <3>3. CASE \A j : Kept(j)
      BY <1>2, <1>5, <2>2, <3>1, <3>3 DEF LastPassCalls, Kept, Quiet
    <3>4. ASSUME NEW k \in Kinds, NEW v, PassStores(k, v) PROVE LastPassCalls
      <4>1. Kept("cr")
        BY <1>1, <3>4 DEF PassStores
      <4> QED BY <1>2, <1>5, <2>2, <3>1, <3>4, <4>1 DEF LastPassCalls, Kept, Quiet
    <3> QED BY <1>5, <3>2, <3>3, <3>4, PassEffect
  <2> QED BY <2>1, <2>2
<1>6. CASE Kubernetes
  <2>1. ASSUME NEW k \in Kinds, GarbageCollect(k) PROVE StepBeside
    <3>1. Stores(k, Nil) /\ \A j \in AllKinds \ {k} : Kept(j)
      BY <1>1, <2>1, WriteEffect DEF GarbageCollect
    <3>2. ObjectCollected(k)
      BY <2>1, <3>1 DEF GarbageCollect, ObjectCollected
    <3> QED BY <1>1, <1>2, <2>1, <3>1, <3>2
            DEF StepBeside, GarbageCollect, history, Kept, Quiet, queueVars
  <2>2. ASSUME NEW k \in AllKinds, DeliverEvent(k) PROVE StepBeside
    <3>1. k # "cr" /\ api' = api /\ lag' = [lag EXCEPT ![k] = Tail(lag[k])]
      BY <1>2, <2>2 DEF DeliverEvent
    <3>2. lag'["cr"] = lag["cr"]
      BY <1>1, <3>1 DEF StoreTypeOK
    <3> QED BY <1>2, <2>2, <3>1, <3>2 DEF DeliverEvent, StepBeside, history, Quiet
  <2>3. CASE Resync \/ RetryExpires
    BY <1>2, <2>3 DEF Resync, RetryExpires
  <2> QED BY <1>6, <2>1, <2>2, <2>3 DEF Kubernetes
<1>7. CASE CallFails
  BY <1>2, <1>7 DEF CallFails
<1>8. CASE Restart
  <2>1. \A k \in AllKinds : Lists(k)
    BY <1>8 DEF Restart, Lists
  <2> QED BY <1>2, <1>8, <2>1 DEF Restart, AllListed
<1>9. CASE UNCHANGED vars
  BY <1>2, <1>9 DEF vars, storeVars, queueVars, history, StepBeside, Quiet
<1> QED BY <1>4, <1>5, <1>6, <1>7, <1>8, <1>9 DEF Next

\* A last pass is started with the KyuubiCluster as it is, and goes on with it.
LEMMA PassIsCurrentStep ==
    ASSUME BaseInv, PassIsCurrent, [Next]_vars
    PROVE  PassIsCurrent'
<1> SUFFICES ASSUME Quiet', pc' # "idle" PROVE kyuubi' = api'["cr"]
  BY DEF PassIsCurrent
<1>1. CASE AllListed
  BY <1>1 DEF AllListed, Leave
<1>2. CASE LastPassStarts
  BY <1>2, KindFacts DEF LastPassStarts, BaseInv, InformersCatchUp, storeVars
<1>3. CASE StepBeside
  BY <1>3 DEF StepBeside, localVars, PassIsCurrent
<1>4. CASE LastPassCalls
  <2>1. kyuubi = api["cr"] /\ api'["cr"] = api["cr"]
    BY <1>4 DEF LastPassCalls, PassIsCurrent
  <2>2. kyuubi' = kyuubi
    <3>1. Operator /\ ~Reconcile
      BY <1>4 DEF LastPassCalls
    <3> QED BY <3>1 DEF Operator, createOrUpdateServiceAccount, createOrUpdateRole,
         createOrUpdateRoleBinding, CreateIfMissing, createOrUpdateKyuubiConfigmap,
         createOrUpdateClusterRefsConfigmap, CreateOrUpdateConfigMap,
         UpdateConfigMap, waitForKyuubiConfigmap, waitForClusterRefsConfigmap,
         WaitForConfigMap, createOrUpdateKyuubi, createOrUpdateService,
         updateKyuubiClusterStatus, AlreadyExists, ReturnError, Leave, Proceed
  <2> QED BY <2>1, <2>2
<1> QED BY <1>1, <1>2, <1>3, <1>4, QuietStep

-----------------------------------------------------------------------------
(***************************************************************************)
(* What the calls of the last pass leave behind.                           *)
(***************************************************************************)
\* An object that the informer has seen exists, and is what the spec asks for
\* if the informer's copy is.
LEMMA CachedIsStored ==
    ASSUME BaseInv, NEW k \in Kinds, NewsInOrder(k), cache[k] # Nil
    PROVE  /\ api[k] # Nil
           /\ IsCurrent(k, cache[k]) /\ ~Reverted(k) => IsCurrent(k, api[k])
<1>1. /\ lag[k] \in Seq(Copies(k))
      /\ IF lag[k] = <<>> THEN cache[k] = api[k] ELSE Last(lag[k]) = api[k]
  BY KindFacts DEF BaseInv, TypeOK, StoreTypeOK, InformersCatchUp
<1>2. ASSUME lag[k] # <<>> PROVE api[k] \in Range(lag[k])
  <2>1. Len(lag[k]) \in DOMAIN lag[k]
    BY <1>1, <1>2
  <2> QED BY <1>1, <1>2, <2>1 DEF Last, Range
<1> QED BY <1>1, <1>2 DEF NewsInOrder

\* Objects that are the same for every spec are right when they exist.
LEMMA FixedObjects ==
    ASSUME BaseInv, VersionsInv, ObjectsInv, FirstLife,
           NEW k \in Access \cup {"svc"}, api[k] # Nil
    PROVE  InSync(k)
<1>1. k \in Kinds /\ api["cr"] \in Cluster /\ api["cr"].spec \in Specs
  BY KindFacts, SeenTypes DEF FirstLife
<1>2. api[k] \in ObjectsOf(k) /\ api[k].owner = 1
  BY <1>1, FirstOwners DEF ObjectsOf
<1>3. \A spec \in Specs : Wanted[k][spec] = {IF k = "svc" THEN contructDesiredService
                                             ELSE k}
  BY WantedTable, AccessAssumption
<1>4. api[k].data \in Manifest[k]
  BY <1>1, <1>2, ObjectTypes DEF Object
<1>5. api[k].data \in Wanted[k][api["cr"].spec]
  BY <1>1, <1>3, <1>4 DEF Manifest
<1> QED BY <1>2, <1>5 DEF InSync, FirstLife

\* What the last pass stores is what the spec asks for.
LEMMA LastPassStores ==
    ASSUME BaseInv, VersionsInv, ObjectsInv, FirstLife, kyuubi = api["cr"],
           NEW k \in Kinds, NEW v, PassStores(k, v)
    PROVE  InSync(k)'
  BY FirstStored DEF InSync, FirstLife

\* createOrUpdateServiceAccount, createOrUpdateRole, createOrUpdateRoleBinding.
LEMMA AccessDone ==
    ASSUME BaseInv, VersionsInv, ObjectsInv, FirstLife, kyuubi = api["cr"],
           NEW k \in {"sa", "role", "rb"}, k \in Kinds, NewsInOrder(k),
           NEW next, CreateIfMissing(k, next), ~retry'
    PROVE  InSync(k)'
<1>1. /\ k \in Access /\ pc = k /\ pc # "idle" /\ kyuubi.spec \in Specs
      /\ k \in Access \cup {"svc"}
  BY PassFacts DEF Kinds, CreateIfMissing, BaseInv
<1>2. CASE cache[k] # Nil /\ UNCHANGED storeVars
  <2>1. InSync(k)
    BY <1>1, <1>2, CachedIsStored, FixedObjects
  <2> QED BY <1>2, <2>1 DEF storeVars, InSync
<1>3. CASE Create(k, k) /\ Proceed(next)
  <2>1. k \in Wanted[k][kyuubi.spec]
    BY <1>1, WantedTable
  <2>2. PICK v : PassStores(k, v)
    BY <1>1, <1>3, <2>1, CreateStores DEF Proceed
  <2> QED BY <2>2, LastPassStores
<1> QED BY <1>1, <1>2, <1>3 DEF CreateIfMissing, AlreadyExists, ReturnError

\* The two ConfigMap calls.  The copy that compareConf finds equal may be stale.
LEMMA ConfigMapDone ==
    ASSUME BaseInv, VersionsInv, ObjectsInv, FirstLife, kyuubi = api["cr"],
           NEW k \in {"kyuubiCm", "refsCm"}, NewsInOrder(k), pc = k,
           NEW data \in Wanted[k][kyuubi.spec], NEW wait, NEW next,
           CreateOrUpdateConfigMap(k, data, wait, next), ~retry'
    PROVE  Right(k)'
<1>1. /\ k \in Kinds /\ pc # "idle" /\ kyuubi.spec \in Specs /\ kyuubi.uid = 1
      /\ k \in AllKinds /\ data \in Manifest[k]
  BY KindFacts, PassFacts, DesiredIsManifest DEF BaseInv, FirstLife
<1>2. CASE cache[k] # Nil /\ compareConf(data, cache[k].data) /\ Proceed(next)
           /\ UNCHANGED storeVars
  <2>1. cache[k] \in ObjectsOf(k) /\ cache[k].owner = 1
    BY <1>1, <1>2, FirstOwners DEF ObjectsOf
  <2>2. cache[k].data \in Manifest[k]
    BY <1>1, <2>1, ObjectTypes DEF Object
  <2>3. cache[k].data = data
    BY <1>1, <1>2, <2>2, ComparedConfigMaps
  <2>4. IsCurrent(k, cache[k])
    BY <2>1, <2>3 DEF IsCurrent, FirstLife
  <2>5. api[k] # Nil /\ (~Reverted(k) => IsCurrent(k, api[k]))
    BY <1>1, <1>2, <2>4, CachedIsStored
  <2>6. Right(k)
    BY <2>5 DEF Right, InSync, IsCurrent
  <2> QED BY <1>2, <2>6 DEF Proceed, storeVars, history, Right, InSync, Reverted
<1>3. CASE \E v : PassStores(k, v)
  BY <1>1, <1>3, LastPassStores DEF Right
<1>4. CASE Create(k, data) /\ Proceed(wait)
  BY <1>1, <1>3, <1>4, CreateStores DEF Proceed
<1>5. CASE /\ cache[k] # Nil /\ lag[k] = <<>>
           /\ Write(k, [cache[k] EXCEPT !.data = data])
           /\ Proceed(next)
  <2>1. \E j \in {k} : \E v : PassStores(j, v)
    <3>1. ~(\A j : Kept(j))
      <4> DEFINE w == [cache[k] EXCEPT !.data = data]
      <4>1. StoreTypeOK /\ lag[k] \in Seq(Copies(k)) /\ Len(lag[k]) = 0
        BY <1>1, <1>5 DEF BaseInv, TypeOK, StoreTypeOK
      <4>2. lag'[k] = Append(lag[k], w)
        BY <1>1, <1>5, <4>1, WriteEffect DEF Stores
      <4>3. Len(lag'[k]) = 1
        BY <1>5, <4>2
      <4> QED BY <4>1, <4>3 DEF Kept
    <3> QED BY <1>1, <1>5, <3>1, ConfigMapStores
  <2> QED BY <1>3, <2>1
<1> QED BY <1>2, <1>4, <1>5 DEF CreateOrUpdateConfigMap, UpdateConfigMap,
        AlreadyExists, ReturnError

\* createOrUpdateService.
LEMMA ServiceDone ==
    ASSUME BaseInv, VersionsInv, ObjectsInv, FirstLife, NewsInOrder("svc"),
           createOrUpdateService, pc' = "status"
    PROVE  api'["svc"] # Nil
<1>1. "svc" \in Kinds /\ pc = "svc" /\ kyuubi.spec \in Specs
  BY KindFacts, PassFacts DEF createOrUpdateService, BaseInv
<1>2. CASE cache["svc"] # Nil /\ UNCHANGED <<storeVars, queueVars, kyuubi, fresh, history>>
  BY <1>1, <1>2, CachedIsStored DEF storeVars
<1>3. CASE Create("svc", contructDesiredService) /\ Proceed("status")
  <2>1. contructDesiredService \in Wanted["svc"][kyuubi.spec]
    BY <1>1, WantedTable
  <2>2. PICK v : PassStores("svc", v)
    BY <1>1, <1>3, <2>1, CreateStores DEF Proceed
  <2> QED BY <1>1, <2>2, FirstStored
<1> QED BY <1>2, <1>3 DEF createOrUpdateService, AlreadyExists, ReturnError, Leave

\* The call for an object is the one after which it is no longer to be made.
LEMMA CallOfKind ==
    ASSUME Operator, ~Reconcile, ~retry',
           NEW k \in Kinds \ {"sts"}, pc \in ToDo[k], pc' \notin ToDo[k]
    PROVE  \/ k = "sa" /\ createOrUpdateServiceAccount
           \/ k = "role" /\ createOrUpdateRole
           \/ k = "rb" /\ createOrUpdateRoleBinding
           \/ k = "kyuubiCm" /\ createOrUpdateKyuubiConfigmap
           \/ k = "refsCm" /\ createOrUpdateClusterRefsConfigmap
           \/ k = "svc" /\ createOrUpdateService /\ pc' = "status"
<1>1. k \in {"sa", "role", "rb", "kyuubiCm", "refsCm", "svc"}
  BY AccessAssumption DEF Kinds
<1>2. BeforeWorkload = {"sa", "role", "rb", "kyuubiCm", "kyuubiCmWait", "refsCm",
                        "refsCmWait", "sts"}
  BY DEF BeforeWorkload, PCs
<1>3. /\ ToDo["sa"] = {"sa"} /\ ToDo["role"] = {"sa", "role"}
      /\ ToDo["rb"] = {"sa", "role", "rb"}
      /\ ToDo["kyuubiCm"] = {"sa", "role", "rb", "kyuubiCm"}
      /\ ToDo["refsCm"] = {"sa", "role", "rb", "kyuubiCm", "kyuubiCmWait", "refsCm"}
      /\ ToDo["svc"] = {"sa", "role", "rb", "kyuubiCm", "kyuubiCmWait", "refsCm",
                        "refsCmWait", "sts", "svc"}
  BY <1>2 DEF ToDo
<1>4. CASE createOrUpdateServiceAccount
  <2>1. pc = "sa" /\ pc' = "role"
    BY <1>4 DEF createOrUpdateServiceAccount, CreateIfMissing, Proceed,
       AlreadyExists, ReturnError
  <2> QED BY <1>1, <1>3, <1>4, <2>1
<1>5. CASE createOrUpdateRole
  <2>1. pc = "role" /\ pc' = "rb"
    BY <1>5 DEF createOrUpdateRole, CreateIfMissing, Proceed, AlreadyExists,
       ReturnError
  <2> QED BY <1>1, <1>3, <1>5, <2>1
<1>6. CASE createOrUpdateRoleBinding
  <2>1. pc = "rb" /\ pc' = "kyuubiCm"
    BY <1>6 DEF createOrUpdateRoleBinding, CreateIfMissing, Proceed, AlreadyExists,
       ReturnError
  <2> QED BY <1>1, <1>3, <1>6, <2>1
<1>7. CASE createOrUpdateKyuubiConfigmap
  <2>1. pc = "kyuubiCm" /\ pc' \in {"kyuubiCmWait", "refsCm"}
    BY <1>7 DEF createOrUpdateKyuubiConfigmap, CreateOrUpdateConfigMap,
       UpdateConfigMap, Proceed, AlreadyExists, ReturnError
  <2> QED BY <1>1, <1>3, <1>7, <2>1
<1>8. CASE waitForKyuubiConfigmap
  <2>1. pc = "kyuubiCmWait" /\ pc' = "refsCm"
    BY <1>8 DEF waitForKyuubiConfigmap, WaitForConfigMap, Proceed
  <2> QED BY <1>1, <1>3, <2>1
<1>9. CASE createOrUpdateClusterRefsConfigmap
  <2>1. pc = "refsCm" /\ pc' \in {"refsCmWait", "sts"}
    BY <1>9 DEF createOrUpdateClusterRefsConfigmap, CreateOrUpdateConfigMap,
       UpdateConfigMap, Proceed, AlreadyExists, ReturnError
  <2> QED BY <1>1, <1>3, <1>9, <2>1
<1>10. CASE waitForClusterRefsConfigmap
  <2>1. pc = "refsCmWait" /\ pc' = "sts"
    BY <1>10 DEF waitForClusterRefsConfigmap, WaitForConfigMap, Proceed
  <2> QED BY <1>1, <1>3, <2>1
<1>11. CASE createOrUpdateKyuubi
  <2>1. pc = "sts" /\ pc' = "svc"
    BY <1>11 DEF createOrUpdateKyuubi, Proceed, ReturnError
  <2> QED BY <1>1, <1>3, <2>1
<1>12. CASE createOrUpdateService
  <2>1. pc = "svc" /\ pc' = "status"
    BY <1>12 DEF createOrUpdateService, Proceed, AlreadyExists, ReturnError
  <2> QED BY <1>1, <1>3, <1>12, <2>1
<1>13. CASE updateKyuubiClusterStatus
  <2>1. pc = "status"
    BY <1>13 DEF updateKyuubiClusterStatus
  <2> QED BY <1>1, <1>3, <2>1
<1> QED BY <1>4, <1>5, <1>6, <1>7, <1>8, <1>9, <1>10, <1>11, <1>12, <1>13
        DEF Operator

\* Every call of a last pass does what it is for, and nothing undoes it.
LEMMA CallsDoneStep ==
    ASSUME BaseInv, VersionsInv, ObjectsInv, FirstLifeInv, [Next]_vars,
           WorkloadInv', FirstLife'
    PROVE  CallsDone'
<1> SUFFICES ASSUME Quiet', NEW k \in Kinds, pc' \notin ToDo[k]
             PROVE  Right(k)'
  BY DEF CallsDone
<1>1. k \in {"sa", "role", "rb", "kyuubiCm", "refsCm", "sts", "svc"} /\ k \in AllKinds
  BY AccessAssumption, KindFacts DEF Kinds
<1>2. "sa" \in ToDo[k] /\ k \in ToDo[k] /\ ToDo["sts"] = BeforeWorkload
  BY <1>1 DEF ToDo, BeforeWorkload, PCs
<1>3. CASE k = "sts"
  <2>1. InSync("sts")'
    BY <1>2, <1>3 DEF WorkloadInv, WorkInHand, FirstLife, Quiet
  <2> QED BY <1>3, <2>1 DEF Right
<1>4. CASE k # "sts"
  <2>1. CASE AllListed /\ api'["cr"] = Nil
    BY <2>1 DEF FirstLife
  <2>2. CASE LastPassStarts
    BY <1>2, <2>2 DEF LastPassStarts
  <2>3. ASSUME api'["cr"] = api["cr"], past' = past, api'[k] = api[k], Right(k)
        PROVE  Right(k)'
    BY <2>3 DEF Right, InSync, Reverted
  <2>4. ASSUME api'["cr"] = api["cr"]
        PROVE  /\ FirstLife /\ CallsDone
               /\ \A j \in Kinds : NewsInOrder(j)
    BY <2>4 DEF FirstLife, FirstLifeInv
  <2>5. CASE StepBeside
    <3>1. api'["cr"] = api["cr"] /\ past' = past /\ pc' = pc /\ Quiet
      BY <2>5 DEF StepBeside, localVars
    <3>2. api'[k] = api[k]
      BY <2>4, <2>5, <3>1, FirstNotCollected DEF StepBeside
    <3> QED BY <2>3, <2>4, <3>1, <3>2 DEF CallsDone
  <2>6. CASE LastPassCalls
    <3>1. /\ api'["cr"] = api["cr"] /\ past' = past /\ Quiet /\ pc # "idle"
          /\ Operator /\ ~Reconcile /\ ~retry'
      BY <2>6 DEF LastPassCalls
    <3>2. kyuubi = api["cr"] /\ FirstLife /\ NewsInOrder(k)
      BY <2>4, <3>1 DEF FirstLifeInv, PassIsCurrent
    <3>3. CASE pc \notin ToDo[k]
      <4>1. api'[k] = api[k]
        BY <1>1, <1>2, <2>6, <3>3 DEF LastPassCalls, PassStores, Kept
      <4> QED BY <2>3, <2>4, <3>1, <3>3, <4>1 DEF CallsDone
    <3>4. CASE pc \in ToDo[k]
      <4>1. ASSUME k \in {"sa", "role", "rb"}, NEW next, CreateIfMissing(k, next)
            PROVE  Right(k)'
        BY <3>1, <3>2, <4>1, AccessDone DEF Right
      <4>2. CASE k = "kyuubiCm" /\ createOrUpdateKyuubiConfigmap
        <5>1. PICK data \in constructKyuubiConfigMap(kyuubi.spec) :
                CreateOrUpdateConfigMap(k, data, "kyuubiCmWait", "refsCm")
          BY <4>2 DEF createOrUpdateKyuubiConfigmap
        <5>2. pc = k /\ kyuubi.spec \in Specs
          BY <3>1, <4>2, PassFacts DEF createOrUpdateKyuubiConfigmap, BaseInv
        <5>3. data \in Wanted[k][kyuubi.spec]
          BY <4>2, <5>2, WantedTable
        <5> QED BY <3>1, <3>2, <4>2, <5>1, <5>2, <5>3, ConfigMapDone
      <4>3. CASE k = "refsCm" /\ createOrUpdateClusterRefsConfigmap
        <5>1. PICK data \in desiredClusterRefsConfigMap(kyuubi.spec) :
                CreateOrUpdateConfigMap(k, data, "refsCmWait", "sts")
          BY <3>1, <4>3 DEF createOrUpdateClusterRefsConfigmap, ReturnError
        <5>2. pc = k /\ kyuubi.spec \in Specs
          BY <3>1, <4>3, PassFacts DEF createOrUpdateClusterRefsConfigmap, BaseInv
        <5>3. data \in Wanted[k][kyuubi.spec]
          BY <4>3, <5>2, WantedTable
        <5> QED BY <3>1, <3>2, <4>3, <5>1, <5>2, <5>3, ConfigMapDone
      <4>4. CASE k = "svc" /\ createOrUpdateService /\ pc' = "status"
        <5>1. api'["svc"] # Nil
          BY <3>2, <4>4, ServiceDone
        <5>2. CASE api["svc"] # Nil
          <6>1. InSync("svc")
            BY <3>2, <5>2, FixedObjects
          <6>2. (\A j : Kept(j)) \/ \E v : PassStores("svc", v)
            BY <4>4, ServiceStores
          <6>3. CASE \A j : Kept(j)
            BY <2>3, <3>1, <4>4, <6>1, <6>3 DEF Kept, Right
          <6> QED BY <3>2, <4>4, <6>2, <6>3, LastPassStores DEF Right
        <5>3. CASE api["svc"] = Nil
          <6>1. \E v : PassStores("svc", v)
            BY <4>4, <5>1, <5>3, ServiceStores DEF Kept
          <6> QED BY <3>2, <4>4, <6>1, LastPassStores DEF Right
        <5> QED BY <5>2, <5>3
      <4> QED BY <1>4, <3>1, <3>4, <4>1, <4>2, <4>3, <4>4, CallOfKind
              DEF createOrUpdateServiceAccount, createOrUpdateRole,
                  createOrUpdateRoleBinding
    <3> QED BY <3>3, <3>4
  <2> QED BY <2>1, <2>2, <2>5, <2>6, QuietStep
<1> QED BY <1>3, <1>4

-----------------------------------------------------------------------------
(***************************************************************************)
(* The status.                                                             *)
(***************************************************************************)
\* The status is the next thing to write when createOrUpdateService is done.
LEMMA StatusReached ==
    ASSUME [Next]_vars, pc' = "status"
    PROVE  \/ createOrUpdateService
           \/ pc = "status" /\ existing' = existing
<1>1. CASE Operator
  BY <1>1 DEF Operator, Reconcile, createOrUpdateServiceAccount, createOrUpdateRole,
     createOrUpdateRoleBinding, CreateIfMissing, createOrUpdateKyuubiConfigmap,
     createOrUpdateClusterRefsConfigmap, CreateOrUpdateConfigMap,
     UpdateConfigMap, waitForKyuubiConfigmap, waitForClusterRefsConfigmap,
     WaitForConfigMap, createOrUpdateKyuubi, createOrUpdateService,
     updateKyuubiClusterStatus, AlreadyExists, ReturnError, Leave, Proceed,
     localVars
<1>2. CASE User \/ Kubernetes \/ CallFails \/ Restart \/ UNCHANGED vars
  BY <1>2 DEF User, UserCreates, UserEdits, UserDeletes, Kubernetes, GarbageCollect,
     DeliverEvent, Resync, RetryExpires, CallFails, Restart, Leave, vars, localVars
<1> QED BY <1>1, <1>2 DEF Next

\* The objects of the first KyuubiCluster stay.
LEMMA FirstObjectsStay ==
    ASSUME BaseInv, VersionsInv, ObjectsInv, FirstLife, [Next]_vars,
           NEW k \in Kinds, api[k] # Nil
    PROVE  api'[k] # Nil
<1>1. k \in AllKinds /\ k # "cr"
  BY KindFacts
<1>2. ASSUME NEW v, \/ ClusterCreated(v) \/ ClusterEdited(v) \/ ClusterDeleted
                    \/ StatusStored(v)
      PROVE  Kept(k)
  BY <1>2 DEF ClusterCreated, ClusterEdited, ClusterDeleted, UserStores,
     StatusStored
<1>3. ASSUME NEW j \in Kinds, NEW v, PassStores(j, v) PROVE api'[k] # Nil
  <2>1. CASE j = k
    BY <1>3, <2>1, FirstStored
  <2>2. CASE j # k
    BY <1>1, <1>3, <2>2 DEF PassStores, Kept
  <2> QED BY <2>1, <2>2
<1>4. ASSUME NEW j, ObjectCollected(j) PROVE FALSE
  BY <1>4, FirstNotCollected
<1>5. ASSUME NEW j, EventApplied(j) PROVE api'[k] = api[k]
  BY <1>1, <1>5 DEF EventApplied, Applies, Kept
<1>6. CASE AllListed \/ AllKept
  BY <1>1, <1>6 DEF AllListed, AllKept, Lists, Kept
<1> QED BY <1>2, <1>3, <1>4, <1>5, <1>6, StepEffect DEF OwnStep, Kept

\* Only updateKyuubiClusterStatus gives the KyuubiCluster another status.
LEMMA StatusKept ==
    ASSUME BaseInv, [Next]_vars, api'["cr"] # Nil
    PROVE  \/ api'["cr"].status = NoStatus
           \/ api["cr"] # Nil /\ api'["cr"].status = api["cr"].status
           \/ \E v : StatusStored(v)
<1>1. ASSUME NEW v, ClusterCreated(v)
      PROVE  api'["cr"].status = NoStatus
  BY <1>1 DEF ClusterCreated, UserStores, Stores
<1>2. ASSUME NEW v, ClusterEdited(v)
      PROVE  api["cr"] # Nil /\ api'["cr"].status = api["cr"].status
  BY <1>2 DEF ClusterEdited, UserStores, Stores
<1>3. CASE ClusterDeleted
  BY <1>3 DEF ClusterDeleted, UserStores, Stores
<1>4. ASSUME OwnStep, ~(\E v : StatusStored(v)) PROVE api'["cr"] = api["cr"]
  BY <1>4, KindFacts DEF OwnStep, AllKept, PassStores, ObjectCollected, EventApplied,
     AllListed, Kept, Applies, Lists
<1> QED BY <1>1, <1>2, <1>3, <1>4, StepEffect

\* The Service comes before the status, whoever takes the step.
LEMMA StatusAfterServiceStep ==
    ASSUME BaseInv, VersionsInv, ObjectsInv, FirstLifeInv, [Next]_vars, FirstLife'
    PROVE  StatusAfterService'
<1>1. "svc" \in Kinds /\ "svc" \in AllKinds /\ NoStatus.exposedInfos = Nil
  BY KindFacts DEF NoStatus
<1>2. api'["cr"] # Nil
  BY DEF FirstLife
<1>3. CASE used["creates"] = 0 /\ \E v : ClusterCreated(v) /\ api'["cr"] = v
  <2>1. Seen = {} /\ pc' = "idle"
    BY <1>3, NothingSeen DEF ClusterCreated, UserStores
  <2>2. Seen' \subseteq {api'["cr"]}
    BY <2>1, SeenStep
  <2>3. api'["cr"].status.exposedInfos = Nil
    BY <1>1, <1>3 DEF ClusterCreated
  <2> QED BY <2>1, <2>2, <2>3 DEF StatusAfterService
<1>4. CASE FirstLife
  <2>1. StatusAfterService /\ NewsInOrder("svc")
    BY <1>1, <1>4 DEF FirstLifeInv
  <2>2. api["svc"] # Nil => api'["svc"] # Nil
    BY <1>1, <1>4, FirstObjectsStay
  <2>3. pc' = "status" => api'["svc"] # Nil
    BY <1>4, <2>1, <2>2, StatusReached, ServiceDone DEF StatusAfterService
  <2>4. ASSUME api'["svc"] = Nil \/ (pc' = "status" /\ existing' = <<>>)
        PROVE  api["svc"] = Nil \/ (pc = "status" /\ existing = <<>>)
    <3>1. CASE api'["svc"] = Nil
      BY <2>2, <3>1
    <3>2. CASE pc' = "status" /\ existing' = <<>> /\ createOrUpdateService
      <4>1. CASE cache["svc"] # Nil /\ existing' = cache["svc"].data
        <5>1. cache["svc"].data \in Manifest["svc"]
          BY <1>1, <4>1, CopyFacts DEF BaseInv, TypeOK, StoreTypeOK
        <5>2. existing' = contructDesiredService
          BY <4>1, <5>1, ServiceManifest
        <5> QED BY <3>2, <5>2 DEF contructDesiredService
      <4>2. CASE Create("svc", contructDesiredService)
        BY <4>2 DEF Create
      <4> QED BY <3>2, <4>1, <4>2
              DEF createOrUpdateService, AlreadyExists, ReturnError, Leave
    <3> QED BY <2>4, <3>1, <3>2, StatusReached
  <2>5. ASSUME api'["svc"] = Nil \/ (pc' = "status" /\ existing' = <<>>),
               NEW c \in Seen' \cup {api'["cr"]}
        PROVE  c.status.exposedInfos = Nil
    <3>1. \A d \in Seen \cup {api["cr"]} : d.status.exposedInfos = Nil
      BY <2>1, <2>4, <2>5 DEF StatusAfterService
    <3>2. ASSUME NEW v, StatusStored(v) PROVE FALSE
      <4>1. pc = "status" /\ pc' = "idle"
        BY <3>2 DEF StatusStored, Leave
      <4> QED BY <2>1, <2>2, <2>5, <4>1 DEF StatusAfterService
    <3>3. api'["cr"].status.exposedInfos = Nil
      BY <1>1, <1>2, <3>1, <3>2, StatusKept
    <3> QED BY <3>1, <3>3, SeenStep
  <2> QED BY <2>3, <2>5 DEF StatusAfterService
<1> QED BY <1>3, <1>4, FirstLifeStep

\* The last pass leaves the status of the Service behind.
LEMMA StatusDone ==
    ASSUME BaseInv, VersionsInv, ObjectsInv, FirstLifeInv, [Next]_vars,
           FirstLife', Quiet', pc' = "idle"
    PROVE  StatusInSync'
<1>1. "svc" \in Kinds /\ "cr" \in AllKinds /\ {"svc"} \subseteq AllKinds
  BY KindFacts
<1>2. ASSUME api'["cr"] = api["cr"]
      PROVE  /\ FirstLife /\ StatusAfterService
             /\ Quiet /\ pc = "idle" => StatusInSync
  BY <1>2 DEF FirstLife, FirstLifeInv
<1>3. CASE StepBeside
  <2>1. api'["cr"] = api["cr"] /\ pc = "idle" /\ Quiet
    BY <1>3 DEF StepBeside, localVars
  <2>2. api'["svc"] = api["svc"]
    BY <1>1, <1>2, <1>3, <2>1, FirstNotCollected DEF StepBeside
  <2> QED BY <1>2, <2>1, <2>2 DEF StatusInSync
<1>4. CASE LastPassCalls
  <2>1. /\ api'["cr"] = api["cr"] /\ Quiet /\ pc # "idle"
        /\ Operator /\ ~Reconcile /\ ~retry'
    BY <1>4 DEF LastPassCalls
  <2>2. kyuubi = api["cr"] /\ FirstLife /\ StatusAfterService
    BY <1>2, <2>1 DEF FirstLifeInv, PassIsCurrent
  <2>3. updateKyuubiClusterStatus
    BY <2>1 DEF Operator, createOrUpdateServiceAccount, createOrUpdateRole,
       createOrUpdateRoleBinding, CreateIfMissing, createOrUpdateKyuubiConfigmap,
       createOrUpdateClusterRefsConfigmap, CreateOrUpdateConfigMap,
       UpdateConfigMap, waitForKyuubiConfigmap, waitForClusterRefsConfigmap,
       WaitForConfigMap, createOrUpdateKyuubi, createOrUpdateService,
       AlreadyExists, ReturnError, Proceed
  <2>4. ASSUME NEW v \in Copies("cr"), Write("cr", v) PROVE FALSE
    <3>1. StoreTypeOK /\ lag["cr"] \in Seq(Copies("cr"))
      BY <1>1 DEF BaseInv, TypeOK, StoreTypeOK
    <3>2. lag'["cr"] = Append(lag["cr"], v)
      BY <1>1, <2>4, <3>1, WriteEffect DEF Stores
    <3> QED BY <3>1, <3>2, AppendLast DEF Quiet
  <2>5. ~StatusDiffers /\ UNCHANGED storeVars
    <3>1. ASSUME fresh, NEW now \in Time,
                 Write("cr", [api["cr"] EXCEPT !.status =
                                [exposedInfos |-> ExposedInfos(existing),
                                 creationTime |-> CreationTime(now)]])
          PROVE  FALSE
      <4> DEFINE st == [exposedInfos |-> ExposedInfos(existing),
                        creationTime |-> CreationTime(now)]
                 v == [api["cr"] EXCEPT !.status = st]
      <4>1. st \in Status /\ api["cr"] \in Cluster
        BY <2>1, <2>2, StatusType, PassFacts DEF BaseInv
      <4> HIDE DEF st
      <4>2. v \in Cluster
        BY <4>1 DEF Cluster
      <4>3. Write("cr", v)
        BY <3>1 DEF st
      <4> HIDE DEF v
      <4> QED BY <2>4, <4>2, <4>3, CopyFacts
    <3> QED BY <2>1, <2>3, <3>1 DEF updateKyuubiClusterStatus, ReturnError
  <2>6. /\ api["cr"].status.exposedInfos # Nil
        /\ api["cr"].status.exposedInfos = ExposedInfos(existing)
        /\ pc = "status"
    BY <2>2, <2>3, <2>5 DEF StatusDiffers, updateKyuubiClusterStatus
  <2>7. api["svc"] # Nil /\ existing # <<>>
    BY <2>2, <2>6 DEF StatusAfterService
  <2>8. existing = contructDesiredService
    BY <2>7 DEF BaseInv, TypeOK, ReconcilerTypeOK
  <2>9. api["svc"].data = contructDesiredService
    BY <1>1, <2>7, CopyFacts, ServiceManifest DEF BaseInv, TypeOK, StoreTypeOK
  <2> QED BY <2>5, <2>6, <2>7, <2>8, <2>9 DEF StatusInSync, storeVars
<1>5. CASE LastPassStarts
  BY <1>5 DEF LastPassStarts
<1> QED BY <1>3, <1>4, <1>5, QuietStep DEF FirstLife

-----------------------------------------------------------------------------
\* What holds of the first KyuubiCluster holds after every step.
LEMMA FirstLifeInvStep ==
    HistoryInv /\ HistoryInv' /\ FirstLifeInv /\ [Next]_vars => FirstLifeInv'
<1> SUFFICES ASSUME HistoryInv, HistoryInv', FirstLifeInv, [Next]_vars
             PROVE  FirstLifeInv'
  OBVIOUS
<1>1. BaseInv /\ VersionsInv /\ ObjectsInv /\ WorkloadInv'
  BY WorkloadInvBase DEF HistoryInv
<1>2. PassIsCurrent' /\ NothingBefore'
  BY <1>1, PassIsCurrentStep, NothingBeforeStep DEF FirstLifeInv
<1>3. ASSUME FirstLife'
      PROVE  /\ \A k \in Kinds : NewsInOrder(k)'
             /\ CallsDone' /\ StatusAfterService'
             /\ Quiet' /\ pc' = "idle" => StatusInSync'
  BY <1>1, <1>3, NewsInOrderStep, CallsDoneStep, StatusAfterServiceStep, StatusDone
<1> QED BY <1>2, <1>3 DEF FirstLifeInv

\* For the first KyuubiCluster of its name: a settled operator has brought every
\* object and the status in line with the spec, but for a ConfigMap that an
\* earlier spec asked for too.
THEOREM FirstLifeIsSynced == Spec => []SyncedUnlessReverted
<1>1. Init => FirstLifeInv
  <2> SUFFICES ASSUME Init PROVE FirstLifeInv
    OBVIOUS
  <2>1. pc = "idle" /\ api["cr"] = Nil /\ \A k \in Kinds : lag[k] = <<>>
    BY KindFacts DEF Init
  <2> QED BY <2>1 DEF FirstLifeInv, PassIsCurrent, NothingBefore, FirstLife
<1>2. FirstLifeInv => SyncedUnlessReverted
  <2> SUFFICES ASSUME FirstLifeInv, Settled, api["cr"] # Nil, api["cr"].uid = 1
               PROVE  StatusInSync /\ \A k \in Kinds : Right(k)
    BY DEF SyncedUnlessReverted, Right
  <2>1. FirstLife /\ Quiet /\ pc = "idle"
    BY DEF FirstLife, Settled, Quiet
  <2>2. ASSUME NEW k \in Kinds PROVE "idle" \notin ToDo[k]
    <3>1. k \in {"sa", "role", "rb", "kyuubiCm", "refsCm", "sts", "svc"}
      BY AccessAssumption DEF Kinds
    <3> QED BY <3>1 DEF ToDo, BeforeWorkload
  <2> QED BY <2>1, <2>2 DEF FirstLifeInv, CallsDone
<1> QED BY <1>1, <1>2, HistoryInvariance, FirstLifeInvStep, PTL DEF Spec
=============================================================================
