----------------------------- MODULE DeepCopies -----------------------------
(***************************************************************************)
(* Who owns the memory of a KyuubiCluster.  The informer's object is       *)
(* shared by everything in the process that reads the cache and must not   *)
(* be changed; r.Get hands a pass a copy of it, made by the DeepCopy       *)
(* functions of api/v1alpha1/zz_generated.deepcopy.go, and the pass works  *)
(* on that copy and changes parts of it.                                   *)
(*                                                                         *)
(* Go maps and slices are pointers to cells of the heap, or Nil.  The      *)
(* cells that an allocation step gets are named <<id, i, field>>: an id    *)
(* that is not in use, the field that points to the cell, and the index of *)
(* the clusterRef it is a field of (0 for what is in no clusterRef).  A    *)
(* struct is a record and is copied by assignment.  The content of a map   *)
(* is a value (its keys and values are strings), that of a slice the       *)
(* sequence of its elements.                                               *)
(*                                                                         *)
(* A copy is a record: the new struct, and the cells that were allocated.  *)
(*                                                                         *)
(* A definition whose comment starts with "Seeded fault" is a plausible    *)
(* mistake in the one that follows it; the properties are shown to notice. *)
(***************************************************************************)
EXTENDS Integers, Sequences

CONSTANTS
    Nil,
    Maps,           \* what a map may hold
    Documents,      \* the KyuubiClusters the API server may send
    Ids             \* the ids of allocations

RefFields == {"sparkDefaults", "hiveSite", "coreSite", "hdfsSite"}
Fields    == RefFields \cup {"kyuubiConf", "clusterRefs", "exposedInfos"}
Addresses == Ids \X Nat \X Fields
Pointers  == Addresses \cup {Nil}

\* The types of a ClusterRef and of a KyuubiCluster.  The maps of one are in M,
\* its slices in R and I: pointers in memory, contents in a document.
ClusterRefType(M) ==
    [spark     : [tag : STRING, sparkDefaults : M],
     metastore : [hiveSite : M],
     hdfs      : [coreSite : M, hdfsSite : M]]

KyuubiClusterType(M, R, I) ==
    [spec : [kyuubiConf : M, clusterRefs : R], status : [exposedInfos : I]]

Objects == KyuubiClusterType(Pointers, Pointers, Pointers)

\* What a status may list: the empty slice of a service just created, or ports.
Infos == {<<>>, <<"port">>}

ASSUME NilAssumption == Nil \notin Addresses /\ Nil \notin Objects

ASSUME DocumentsAssumption ==
    Documents \subseteq KyuubiClusterType(Maps \cup {Nil},
                                         {Nil} \cup Seq(ClusterRefType(Maps \cup {Nil})),
                                         {Nil} \cup Infos)

\* There are at least four ids.
ASSUME IdsAssumption ==
    /\ Ids # {}
    /\ \A a, b, c \in Ids : \E d \in Ids : d \notin {a, b, c}

VARIABLES
    heap,       \* the cells in use
    store,      \* the informer's KyuubiCluster, or Nil
    received,   \* the document it was decoded from (read by properties)
    kyuubi,     \* the copy that the running pass has, or Nil
    fetched,    \* the document the informer had when the pass began (likewise)
    pc          \* where the pass is

vars == <<heap, store, received, kyuubi, fetched, pc>>

-----------------------------------------------------------------------------
(***************************************************************************)
(* The generated functions.  In all of them *out = *in comes first, so     *)
(* that what is not mentioned is shared or is a plain value.               *)
(***************************************************************************)
Cell(a, content) == [x \in {a} |-> content]

\* All the cells of parts that have none in common.
Together(parts) ==
    [x \in UNION {DOMAIN f : f \in parts} |-> (CHOOSE f \in parts : x \in DOMAIN f)[x]]

\* Seeded fault: there is no test for nil, so that a nil map becomes an empty one.
CopyMapAlways(p, a) ==
    [out |-> a, cells |-> Cell(a, IF p = Nil THEN "empty" ELSE heap[p])]

\* A map, if it is not nil, or a slice of structs without pointers.
CopyMap(p, a) ==
    IF p = Nil THEN [out |-> Nil, cells |-> <<>>]
               ELSE [out |-> a, cells |-> Cell(a, heap[p])]

SparkCluster(in, id, i) ==
    LET m == CopyMap(in.sparkDefaults, <<id, i, "sparkDefaults">>)
    IN  [out |-> [in EXCEPT !.sparkDefaults = m.out], cells |-> m.cells]

MetastoreCluster(in, id, i) ==
    LET m == CopyMap(in.hiveSite, <<id, i, "hiveSite">>)
    IN  [out |-> [in EXCEPT !.hiveSite = m.out], cells |-> m.cells]

\* Seeded fault: the field hdfsSite was added, the code not generated anew.
HdfsClusterOutdated(in, id, i) ==
    LET c == CopyMap(in.coreSite, <<id, i, "coreSite">>)
    IN  [out |-> [in EXCEPT !.coreSite = c.out], cells |-> c.cells]

HdfsCluster(in, id, i) ==
    LET c == CopyMap(in.coreSite, <<id, i, "coreSite">>)
        h == CopyMap(in.hdfsSite, <<id, i, "hdfsSite">>)
    IN  [out   |-> [in EXCEPT !.coreSite = c.out, !.hdfsSite = h.out],
         cells |-> Together({c.cells, h.cells})]

ClusterRef(in, id, i) ==
    LET s == SparkCluster(in.spark, id, i)
        m == MetastoreCluster(in.metastore, id, i)
        h == HdfsCluster(in.hdfs, id, i)
    IN  [out   |-> [in EXCEPT !.spark = s.out, !.metastore = m.out, !.hdfs = h.out],
         cells |-> Together({s.cells, m.cells, h.cells})]

ClusterRefs(p, id) ==
    IF p = Nil THEN [out |-> Nil, cells |-> <<>>]
    ELSE LET a      == <<id, 0, "clusterRefs">>
             copies == [i \in DOMAIN heap[p] |-> ClusterRef(heap[p][i], id, i)]
         IN  [out   |-> a,
              cells |-> Together({Cell(a, [i \in DOMAIN copies |-> copies[i].out])}
                                \cup {copies[i].cells : i \in DOMAIN copies})]

KyuubiClusterSpec(in, id) ==
    LET m == CopyMap(in.kyuubiConf, <<id, 0, "kyuubiConf">>)
        r == ClusterRefs(in.clusterRefs, id)
    IN  [out   |-> [in EXCEPT !.kyuubiConf = m.out, !.clusterRefs = r.out],
         cells |-> Together({m.cells, r.cells})]

\* An ExposedInfo has no pointers in it: its ServicePort has no appProtocol.
KyuubiClusterStatus(in, id) ==
    LET m == CopyMap(in.exposedInfos, <<id, 0, "exposedInfos">>)
    IN  [out |-> [in EXCEPT !.exposedInfos = m.out], cells |-> m.cells]

KyuubiCluster(in, id) ==
    LET spec   == KyuubiClusterSpec(in.spec, id)
        status == KyuubiClusterStatus(in.status, id)
    IN  [out   |-> [in EXCEPT !.spec = spec.out, !.status = status.out],
         cells |-> Together({spec.cells, status.cells})]

-----------------------------------------------------------------------------
(***************************************************************************)
(* What an object reaches, and what it says: a document is a KyuubiCluster *)
(* in which every pointer is replaced by the content.                      *)
(***************************************************************************)
ContentIn(h, p) == IF p = Nil THEN Nil ELSE h[p]

RefIn(h, ref) ==
    [spark     |-> [tag           |-> ref.spark.tag,
                    sparkDefaults |-> ContentIn(h, ref.spark.sparkDefaults)],
     metastore |-> [hiveSite |-> ContentIn(h, ref.metastore.hiveSite)],
     hdfs      |-> [coreSite |-> ContentIn(h, ref.hdfs.coreSite),
                    hdfsSite |-> ContentIn(h, ref.hdfs.hdfsSite)]]

RefsIn(h, p) == IF p = Nil THEN Nil ELSE [i \in DOMAIN h[p] |-> RefIn(h, h[p][i])]

DocumentIn(h, c) ==
    [spec   |-> [kyuubiConf  |-> ContentIn(h, c.spec.kyuubiConf),
                 clusterRefs |-> RefsIn(h, c.spec.clusterRefs)],
     status |-> [exposedInfos |-> ContentIn(h, c.status.exposedInfos)]]

RefPointers(ref) == {ref.spark.sparkDefaults, ref.metastore.hiveSite,
                     ref.hdfs.coreSite, ref.hdfs.hdfsSite}

Reached(h, c) ==
    IF c = Nil THEN {}
    ELSE LET p    == c.spec.clusterRefs
             top  == {c.spec.kyuubiConf, p, c.status.exposedInfos}
             deep == IF p = Nil THEN {} ELSE UNION {RefPointers(h[p][i]) : i \in DOMAIN h[p]}
         IN  (top \cup deep) \ {Nil}

-----------------------------------------------------------------------------
(***************************************************************************)
(* The informer (external) decodes what it receives into new memory and    *)
(* puts that in place of the object it had.                                *)
(***************************************************************************)
Allocate(content, a) ==
    IF content = Nil THEN [out |-> Nil, cells |-> <<>>]
                     ELSE [out |-> a, cells |-> Cell(a, content)]

DecodedRef(ref, id, i) ==
    LET s == Allocate(ref.spark.sparkDefaults, <<id, i, "sparkDefaults">>)
        m == Allocate(ref.metastore.hiveSite, <<id, i, "hiveSite">>)
        c == Allocate(ref.hdfs.coreSite, <<id, i, "coreSite">>)
        h == Allocate(ref.hdfs.hdfsSite, <<id, i, "hdfsSite">>)
    IN  [out   |-> [spark     |-> [tag |-> ref.spark.tag, sparkDefaults |-> s.out],
                    metastore |-> [hiveSite |-> m.out],
                    hdfs      |-> [coreSite |-> c.out, hdfsSite |-> h.out]],
         cells |-> Together({s.cells, m.cells, c.cells, h.cells})]

DecodedRefs(refs, id) ==
    IF refs = Nil THEN [out |-> Nil, cells |-> <<>>]
    ELSE LET a    == <<id, 0, "clusterRefs">>
             each == [i \in DOMAIN refs |-> DecodedRef(refs[i], id, i)]
         IN  [out   |-> a,
              cells |-> Together({Cell(a, [i \in DOMAIN each |-> each[i].out])}
                                \cup {each[i].cells : i \in DOMAIN each})]

Decoded(doc, id) ==
    LET m == Allocate(doc.spec.kyuubiConf, <<id, 0, "kyuubiConf">>)
        r == DecodedRefs(doc.spec.clusterRefs, id)
        i == Allocate(doc.status.exposedInfos, <<id, 0, "exposedInfos">>)
    IN  [out   |-> [spec   |-> [kyuubiConf |-> m.out, clusterRefs |-> r.out],
                    status |-> [exposedInfos |-> i.out]],
         cells |-> Together({m.cells, r.cells, i.cells})]

\* Memory that nothing reaches is free again.
Live(h, roots) == [x \in UNION {Reached(h, c) : c \in roots} |-> h[x]]

FreshId == CHOOSE id \in Ids : \A x \in DOMAIN heap : x[1] # id

Init ==
    /\ heap = <<>>
    /\ store = Nil /\ received = Nil
    /\ kyuubi = Nil /\ fetched = Nil
    /\ pc = "idle"

InformerReceives(doc) ==
    /\ LET new == Decoded(doc, FreshId)
       IN  /\ store' = new.out
           /\ heap' = Live(Together({heap, new.cells}), {new.out, kyuubi})
    /\ received' = doc
    /\ UNCHANGED <<kyuubi, fetched, pc>>

-----------------------------------------------------------------------------
(***************************************************************************)
(* A pass.                                                                 *)
(***************************************************************************)
\* r.Get finds the informer's object and copies it.
Reconcile ==
    /\ pc = "idle"
    /\ store # Nil
    /\ LET copy == KyuubiCluster(store, FreshId)
       IN  /\ kyuubi' = copy.out
           /\ heap' = Together({heap, copy.cells})
    /\ fetched' = received
    /\ pc' = "refs"
    /\ UNCHANGED <<store, received>>

\* Seeded fault: the loop goes by index, so that a missing tag is filled in
\* where the elements of the slice are.
fillInTags ==
    LET p == kyuubi.spec.clusterRefs
    IN  /\ pc = "refs"
        /\ heap' = IF p = Nil THEN heap
                   ELSE [heap EXCEPT ![p] = [i \in DOMAIN @ |->
                           IF @[i].spark.tag = "" THEN [@[i] EXCEPT !.spark.tag = "latest"]
                                                  ELSE @[i]]]
        /\ pc' = "status"
        /\ UNCHANGED <<store, received, kyuubi, fetched>>

\* The variable of the loop is a copy of the element: the tag that is filled in
\* is lost with it.  All maps that are written are new ones.  The error of a
\* missing sparkDefaults is a Return.
desiredClusterRefsConfigMap ==
    /\ pc = "refs"
    /\ pc' = "status"
    /\ UNCHANGED <<heap, store, received, kyuubi, fetched>>

\* A status is made from the service's ports, in memory of its own, and copied
\* into the pass's KyuubiCluster, if it differs; then the pass ends.
updateKyuubiClusterStatus(infos) ==
    /\ pc = "status"
    /\ IF ContentIn(heap, kyuubi.status.exposedInfos) = infos
       THEN UNCHANGED <<heap, kyuubi>>
       ELSE LET a   == <<FreshId, 0, "exposedInfos">>
                new == [kyuubi EXCEPT !.status.exposedInfos = a]
            IN  /\ kyuubi' = new
                /\ heap' = Live(Together({heap, Cell(a, infos)}), {store, new})
    /\ pc' = "sent"
    /\ UNCHANGED <<store, received, fetched>>

\* The pass ends: with its status sent, or before with an error.
Return ==
    /\ pc # "idle"
    /\ pc' = "idle"
    /\ kyuubi' = Nil
    /\ fetched' = Nil
    /\ heap' = Live(heap, {store})
    /\ UNCHANGED <<store, received>>

Next ==
    \/ \E doc \in Documents : InformerReceives(doc)
    \/ Reconcile
    \/ desiredClusterRefsConfigMap
    \/ \E infos \in Infos : updateKyuubiClusterStatus(infos)
    \/ Return

Spec == Init /\ [][Next]_vars

-----------------------------------------------------------------------------
\* A pass shares no memory with the informer's object, which others read at the
\* same time: whatever it does to its copy, the cache is not touched (every
\* DeepCopyInto reaches every map and slice of its type).
NoSharing == Reached(heap, store) \cap Reached(heap, kyuubi) = {}

\* From the Get to the end a pass sees the spec that the informer had at the
\* Get, with nil where there was nil (a missing sparkDefaults is an error, an
\* empty one is not), and until it writes it the status too: neither a watch
\* event meanwhile nor the pass itself changes it.
SpecAsFetched ==
    kyuubi # Nil =>
        /\ DocumentIn(heap, kyuubi).spec = fetched.spec
        /\ pc # "sent" => DocumentIn(heap, kyuubi).status = fetched.status
=============================================================================
