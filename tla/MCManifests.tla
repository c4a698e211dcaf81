---------------------------- MODULE MCManifests -----------------------------
(***************************************************************************)
(* The manifests of every KyuubiCluster that a user can write with a few   *)
(* cluster references, listed one after the other in any order.            *)
(***************************************************************************)
EXTENDS Manifests

CONSTANT MaxRefs        \* bound: how many cluster references a spec has

ASSUME MaxRefsAssumption == MaxRefs \in Nat

Ref(type) ==
    [type |-> type, tag |-> "", sparkDefaults |-> Nil,
     coreSite |-> Nil, hdfsSite |-> Nil, hiveSite |-> Nil]

ns == <<"nine">>

HaHdfs == [Ref("hdfs") EXCEPT
    !.coreSite = Setting(FSDefaultFSConfKey, <<"hdfs://nine">>),
    !.hdfsSite = Setting(DFSNameSpacesConfKey, ns) ++
                 Setting(HaNameNodes(ns), <<"nn1", "nn2">>) ++
                 Setting(FailoverProvider(ns),
                         <<"RequestHedgingProxyProvider">>) ++
                 Setting(HaRpcAddress(ns, "nn1"), <<"host1">>) ++
                 Setting(HaRpcAddress(ns, "nn2"), <<"host2">>)]

PlainHdfs == [Ref("hdfs") EXCEPT
    !.coreSite = Setting(FSDefaultFSConfKey, <<"hdfs://host">>) ++
                 Setting(<<"io.file.buffer.size">>, <<"1">>),
    !.hdfsSite = Setting(DFSNameSpacesConfKey, ns) ++
                 Setting(RpcAddress(ns), <<"host">>)]

Refs == {Ref("flink"), Ref("hdfs"), HaHdfs, PlainHdfs, Ref("metastore"),
         [Ref("metastore") EXCEPT
            !.hiveSite = Setting(FSDefaultFSConfKey, <<"hive">>)],
         Ref("spark"),
         [Ref("spark") EXCEPT
            !.sparkDefaults = Setting(<<"spark.master">>, <<"local">>)]}

VARIABLE refs

Init == refs = <<>>

AddRef(r) ==
    /\ Len(refs) < MaxRefs
    /\ refs' = Append(refs, r)

Next == \E r \in Refs : AddRef(r)

Spec == Init /\ [][Next]_refs

spec == [kyuubiConf |-> <<>>, replicas |-> 1, clusterRefs |-> refs,
         kyuubiImage |-> [repository |-> "kyuubi", tag |-> "v1"]]

workload == constructDesiredKyuubiWorkload(spec)

\* The keys of the two ConfigMaps.
FilesIn(cm) == IF cm = "kyuubiCm" THEN {DefaultKyuubiConfFile}
               ELSE DOMAIN ClusterRefsConf(refs)

-----------------------------------------------------------------------------
\* The StatefulSet and the ConfigMaps, built by four functions that each walk
\* over the references, fit together: every volume takes a file that its
\* ConfigMap has, every file of a ConfigMap is mounted, and a mount takes from
\* its volume the file that the volume projects.  Otherwise a pod never
\* starts, or Spark starts without a configuration it was given.
MountsFitConfigMaps ==
    /\ \A v \in ToSet(workload.volumes) : v.key \in FilesIn(v.cm)
    /\ \A cm \in {"kyuubiCm", "refsCm"} : \A f \in FilesIn(cm) :
          \E v \in ToSet(workload.volumes), m \in ToSet(workload.mounts) :
             /\ v.cm = cm /\ v.key = f
             /\ m.name = v.name /\ m.subPath = f
    /\ \A m \in ToSet(workload.mounts) :
          \E v \in ToSet(workload.volumes) :
             v.name = m.name /\ v.key = m.subPath

\* The API server refuses the StatefulSet exactly when two references have
\* the same type, flink excepted: only then do the ConfigMaps change without
\* the workload (createOrUpdateClusters writes the ConfigMaps first).
RefusedIffTwoOfAType ==
    ValidStatefulSet(workload) <=>
        \A i, j \in DOMAIN refs :
            refs[i].type = refs[j].type /\ refs[i].type # "flink" => i = j

\* The metastore's hive-site.xml and the hdfs-site.xml and core-site.xml beside
\* it, all on Spark's classpath, never give one key two values, except where
\* the user's hiveSite says so and for the failover provider, which the code
\* fixes for hive-site.xml (one loop of desiredClusterRefsConfigMap picks the
\* HDFS settings for hive-site.xml, another writes the HDFS files).
HiveAgreesWithHdfs ==
    LET conf == ClusterRefsConf(refs)
        hive == conf[DefaultHiveSiteFile]
        user == OrEmpty(LastRef(refs, "metastore").hiveSite)
        free == DOMAIN user \cup {FailoverProvider(ns)}
    IN  {DefaultHiveSiteFile, DefaultHdfsSiteFile} \subseteq DOMAIN conf =>
          \A site \in {conf[DefaultHdfsSiteFile], conf[DefaultCoreSiteFile]} :
            \A key \in (DOMAIN hive \cap DOMAIN site) \ free :
                hive[key] = site[key]

\* Through hive-site.xml alone a client finds every namenode: each address
\* that hdfs-site.xml gives is there too, whatever the order of the references.
HiveFindsNameNodes ==
    LET conf == ClusterRefsConf(refs)
        hive == conf[DefaultHiveSiteFile]
        site == conf[DefaultHdfsSiteFile]
    IN  {DefaultHiveSiteFile, DefaultHdfsSiteFile} \subseteq DOMAIN conf =>
          \A key \in DOMAIN site :
            key[1] = RpcAddress(ns)[1] =>
                key \in DOMAIN hive /\ hive[key] = site[key]

\* compareConf finds every change of the clusterrefs ConfigMap that dropping
\* one reference makes, in both directions, and reports none where there is
\* none (a text is identified here with the settings it holds).
CompareFindsChanges ==
    \A i \in DOMAIN refs :
        LET before == ClusterRefsConf(refs)
            after  == ClusterRefsConf(RemoveAt(refs, i))
        IN  /\ compareConf(after, before) <=> after = before
            /\ compareConf(before, after) <=> after = before
=============================================================================
