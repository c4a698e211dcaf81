----------------------------- MODULE Manifests -----------------------------
(***************************************************************************)
(* The pure part of internal/controller: how the reconciler turns the spec *)
(* of a KyuubiCluster into the objects it wants in the cluster, and how it *)
(* compares what it wants with what it found.                              *)
(*                                                                         *)
(* Data are abstracted to what the reconciler and its properties tell      *)
(* apart.  A configuration key is the tuple of its dotted parts, a value   *)
(* the sequence of its comma separated parts ("" is <<"">>), a             *)
(* configuration map a function from keys to values or Nil (a nil Go map). *)
(* Names and labels derived from the name of the KyuubiCluster are left    *)
(* out: a component of this project looks at one KyuubiCluster name.       *)
(*                                                                         *)
(* A definition whose comment starts with "Seeded fault" is a plausible    *)
(* mistake in the one that follows it; the properties are shown to notice. *)
(***************************************************************************)
EXTENDS Integers, SequencesExt

CONSTANT Nil        \* a Go nil: an absent object, a nil map or a nil slice

ClusterTypes == {"spark", "metastore", "hdfs", "flink"}

DefaultKyuubiConfFile == "kyuubi-defaults.conf"
DefaultSparkConfFile  == "spark-defaults.conf"
DefaultHiveSiteFile   == "hive-site.xml"
DefaultHdfsSiteFile   == "hdfs-site.xml"
DefaultCoreSiteFile   == "core-site.xml"

FSDefaultFSConfKey   == <<"fs.defaultFS">>
DFSNameSpacesConfKey == <<"dfs.nameservices">>

(***************************************************************************)
(* Configuration maps.  Has is `_, ok := m[k]' and At is `m[k]', which     *)
(* yields the empty string for a key that is absent; OrEmpty is what a     *)
(* `range' over the map visits.                                            *)
(***************************************************************************)
Has(m, k) == m # Nil /\ k \in DOMAIN m
At(m, k)  == IF Has(m, k) THEN m[k] ELSE <<"">>
OrEmpty(m) == IF m = Nil THEN <<>> ELSE m

(***************************************************************************)
(* A map with one pair, and the map that assigning the pairs of g and then *)
(* those of f makes.  The operators :> and @@ of module TLC say the same,  *)
(* but have no definition that a proof could unfold.                       *)
(***************************************************************************)
Setting(key, value) == [k \in {key} |-> value]

f ++ g == [k \in DOMAIN f \cup DOMAIN g |->
             IF k \in DOMAIN f THEN f[k] ELSE g[k]]

\* Seeded fault: the sizes are not compared.
compareConfWithoutSizes(srcConf, dstConf) ==
    \A key \in DOMAIN srcConf :
        key \in DOMAIN dstConf /\ srcConf[key] = dstConf[key]

\* compareConf: equal sizes, and every pair of srcConf is a pair of dstConf.
compareConf(srcConf, dstConf) ==
    /\ Cardinality(DOMAIN srcConf) = Cardinality(DOMAIN dstConf)
    /\ \A key \in DOMAIN srcConf :
          key \in DOMAIN dstConf /\ srcConf[key] = dstConf[key]

(***************************************************************************)
(* Both renderers range over a Go map, whose iteration order is random:    *)
(* the same map has as many renderings as its pairs have orders, and two   *)
(* calls may return different ones.  Each operator is the set of the texts *)
(* a call may return.                                                      *)
(***************************************************************************)
Pairs(kv) == {<<key, OrEmpty(kv)[key]>> : key \in DOMAIN OrEmpty(kv)}

map2String(kv) ==
    {[format |-> "properties", lines |-> s] : s \in SetToSeqs(Pairs(kv))}

map2Xml(properties) ==
    {[format |-> "xml", lines |-> s] : s \in SetToSeqs(Pairs(properties))}

-----------------------------------------------------------------------------
(***************************************************************************)
(* desiredClusterRefsConfigMap.  A cluster reference is a record with the  *)
(* fields type, tag, sparkDefaults, coreSite, hdfsSite and hiveSite.       *)
(***************************************************************************)
\* The second loop assigns a file anew for every reference of its type.
LastRef(refs, t) ==
    LET i == SelectLastInSeq(refs, LAMBDA r : r.type = t)
    IN  IF i = 0 THEN Nil ELSE refs[i]

\* Seeded fault: the first hdfs reference wins in one loop only.
HdfsSourceFirst(refs) ==
    LET i == SelectInSeq(refs, LAMBDA r : r.type = "hdfs")
    IN  IF i = 0 THEN [coreSite |-> Nil, hdfsSite |-> Nil]
        ELSE [coreSite |-> refs[i].coreSite, hdfsSite |-> refs[i].hdfsSite]

\* The first loop: where hive-site.xml takes the HDFS settings from.
HdfsSource(refs) ==
    LET i == SelectLastInSeq(refs, LAMBDA r : r.type = "hdfs")
    IN  IF i = 0 THEN [coreSite |-> Nil, hdfsSite |-> Nil]
        ELSE [coreSite |-> refs[i].coreSite, hdfsSite |-> refs[i].hdfsSite]

\* spark-defaults.conf: three settings of the operator, then sparkDefaults.
SparkConf(cluster) ==
    OrEmpty(cluster.sparkDefaults) ++
    Setting(<<"spark.master">>, <<"k8s">>) ++
    Setting(<<"spark.kubernetes.container.image">>,
            <<IF cluster.tag = "" THEN "latest" ELSE cluster.tag>>) ++
    Setting(<<"spark.kubernetes.namespace">>, <<"namespace">>)

HaNameNodes(ns)      == <<"dfs.ha.namenodes", ns>>
FailoverProvider(ns) == <<"dfs.client.failover.proxy.provider", ns>>
RpcAddress(ns)       == <<"dfs.namenode.rpc-address", ns>>
HaRpcAddress(ns, nn) == <<"dfs.namenode.rpc-address", ns, nn>>

\* Seeded fault: only the first namenode's address is copied.
NameServiceConfFirstNode(hdfsSite) ==
    LET ns == At(hdfsSite, DFSNameSpacesConfKey)
        namenodes == At(hdfsSite, HaNameNodes(ns))
    IN  Setting(DFSNameSpacesConfKey, ns) ++
        IF Has(hdfsSite, HaNameNodes(ns))
        THEN Setting(HaNameNodes(ns), namenodes) ++
             Setting(HaRpcAddress(ns, namenodes[1]),
                     At(hdfsSite, HaRpcAddress(ns, namenodes[1])))
        ELSE Setting(RpcAddress(ns), At(hdfsSite, RpcAddress(ns)))

\* The settings that locate the nameservice of an hdfs-site.
NameServiceConf(hdfsSite) ==
    LET ns == At(hdfsSite, DFSNameSpacesConfKey)
        namenodes == At(hdfsSite, HaNameNodes(ns))
    IN  Setting(DFSNameSpacesConfKey, ns) ++
        IF Has(hdfsSite, HaNameNodes(ns))
        THEN Setting(HaNameNodes(ns), namenodes) ++
             Setting(FailoverProvider(ns),
                     <<"ConfiguredFailoverProxyProvider">>) ++
             [k \in {HaRpcAddress(ns, nn) : nn \in ToSet(namenodes)} |->
                At(hdfsSite, k)]
        ELSE Setting(RpcAddress(ns), At(hdfsSite, RpcAddress(ns)))

\* hive-site.xml: where HDFS is, from the hdfs reference, then hiveSite.
HiveConf(refs, cluster) ==
    LET coreSite == HdfsSource(refs).coreSite
        hdfsSite == HdfsSource(refs).hdfsSite
    IN  OrEmpty(cluster.hiveSite) ++
        (IF Has(coreSite, FSDefaultFSConfKey)
         THEN Setting(FSDefaultFSConfKey, coreSite[FSDefaultFSConfKey])
         ELSE <<>>) ++
        (IF Has(hdfsSite, DFSNameSpacesConfKey)
         THEN NameServiceConf(hdfsSite) ELSE <<>>)

\* Seeded fault: a metastore gets no hive-site.xml.
FilesOfWithoutHive(t) ==
    CASE t = "spark" -> {DefaultSparkConfFile}
      [] t = "hdfs"  -> {DefaultHdfsSiteFile, DefaultCoreSiteFile}
      [] OTHER       -> {}

FilesOf(t) ==
    CASE t = "spark"     -> {DefaultSparkConfFile}
      [] t = "hdfs"      -> {DefaultHdfsSiteFile, DefaultCoreSiteFile}
      [] t = "metastore" -> {DefaultHiveSiteFile}
      [] t = "flink"     -> {}

\* The configuration map behind file f of the clusterrefs ConfigMap.
FileConf(refs, f) ==
    CASE f = DefaultSparkConfFile -> SparkConf(LastRef(refs, "spark"))
      [] f = DefaultHdfsSiteFile  -> OrEmpty(LastRef(refs, "hdfs").hdfsSite)
      [] f = DefaultCoreSiteFile  -> OrEmpty(LastRef(refs, "hdfs").coreSite)
      [] f = DefaultHiveSiteFile  -> HiveConf(refs, LastRef(refs, "metastore"))

ClusterRefsConf(refs) ==
    [f \in UNION {FilesOf(refs[i].type) : i \in DOMAIN refs} |->
       FileConf(refs, f)]

Render(f, kv) == IF f \in {DefaultKyuubiConfFile, DefaultSparkConfFile}
                 THEN map2String(kv) ELSE map2Xml(kv)

\* Every way to render a set of files.
RenderAll(conf) ==
    {data \in [DOMAIN conf -> UNION {Render(f, conf[f]) : f \in DOMAIN conf}] :
        \A f \in DOMAIN conf : data[f] \in Render(f, conf[f])}

\* The error "spark default conf should not be nil" is the empty set.
desiredClusterRefsConfigMap(spec) ==
    IF \E i \in DOMAIN spec.clusterRefs :
          /\ spec.clusterRefs[i].type = "spark"
          /\ spec.clusterRefs[i].sparkDefaults = Nil
    THEN {}
    ELSE RenderAll(ClusterRefsConf(spec.clusterRefs))

constructKyuubiConfigMap(spec) ==
    RenderAll([f \in {DefaultKyuubiConfFile} |-> OrEmpty(spec.kyuubiConf)])

-----------------------------------------------------------------------------
(***************************************************************************)
(* constructDesiredKyuubiWorkload.  A volume names a key of a ConfigMap,   *)
(* a mount puts one key of a volume at a path.                             *)
(***************************************************************************)
Volume(name, cm, key) == [name |-> name, cm |-> cm, key |-> key]

\* Seeded fault: the directory is mounted over, not the file.
MountDirectory(name, dir, key) ==
    [name |-> name, path |-> <<dir>>, subPath |-> key]
Mount(name, dir, key) == [name |-> name, path |-> <<dir, key>>, subPath |-> key]

constructVolumeMounts(refs) ==
    <<Mount("kyuubi", "kyuubi/conf", DefaultKyuubiConfFile)>> \o
    FlattenSeq([i \in DOMAIN refs |->
      CASE refs[i].type = "spark" ->
             <<Mount("spark", "spark/conf", DefaultSparkConfFile)>>
        [] refs[i].type = "hdfs" ->
             <<Mount("hdfssite", "spark/conf", DefaultHdfsSiteFile),
               Mount("coresite", "spark/conf", DefaultCoreSiteFile)>>
        [] refs[i].type = "metastore" ->
             <<Mount("hivesite", "spark/conf", DefaultHiveSiteFile)>>
        [] refs[i].type = "flink" -> <<>>])

constructVolumes(refs) ==
    <<Volume("kyuubi", "kyuubiCm", DefaultKyuubiConfFile)>> \o
    FlattenSeq([i \in DOMAIN refs |->
      CASE refs[i].type = "spark" ->
             <<Volume("spark", "refsCm", DefaultSparkConfFile)>>
        [] refs[i].type = "hdfs" ->
             <<Volume("hdfssite", "refsCm", DefaultHdfsSiteFile),
               Volume("coresite", "refsCm", DefaultCoreSiteFile)>>
        [] refs[i].type = "metastore" ->
             <<Volume("hivesite", "refsCm", DefaultHiveSiteFile)>>
        [] refs[i].type = "flink" -> <<>>])

\* image is the pair that Repository + ":" + Tag joins; defaulted says
\* whether the API server has filled in the fields the operator leaves out.
constructDesiredKyuubiWorkload(spec) ==
    [replicas  |-> spec.replicas,
     image     |-> <<spec.kyuubiImage.repository, spec.kyuubiImage.tag>>,
     mounts    |-> constructVolumeMounts(spec.clusterRefs),
     volumes   |-> constructVolumes(spec.clusterRefs),
     defaulted |-> FALSE]

\* contructDesiredService: the ports, by name, are the same for every spec.
contructDesiredService == <<"rest", "thrift-binary">>

\* updateKyuubiClusterStatus: one ExposedInfo for each port of the service.
ExposedInfos(ports) ==
    [i \in DOMAIN ports |-> [name |-> i - 1, exposedType |-> ports[i]]]

-----------------------------------------------------------------------------
(***************************************************************************)
(* The API server's part (external).  It stores a StatefulSet with         *)
(* defaults for every field left out, and refuses a negative replica       *)
(* count, two volumes of one name, two mounts of one path and a mount of a *)
(* volume that does not exist.                                             *)
(***************************************************************************)
ServerDefaults(w) == [w EXCEPT !.defaulted = TRUE]

NoDuplicate(s, F(_)) ==
    \A i, j \in DOMAIN s : F(s[i]) = F(s[j]) => i = j

ValidStatefulSet(w) ==
    /\ w.replicas >= 0
    /\ NoDuplicate(w.volumes, LAMBDA v : v.name)
    /\ NoDuplicate(w.mounts, LAMBDA m : m.path)
    /\ \A i \in DOMAIN w.mounts :
          \E j \in DOMAIN w.volumes : w.volumes[j].name = w.mounts[i].name
=============================================================================
