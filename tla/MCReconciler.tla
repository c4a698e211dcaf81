---------------------------- MODULE MCReconciler ----------------------------
(***************************************************************************)
(* Small instances of KyuubiReconciler for TLC.                            *)
(***************************************************************************)
EXTENDS KyuubiReconciler

HdfsRef(fs) ==
    [type |-> "hdfs", tag |-> "", sparkDefaults |-> Nil,
     coreSite |-> Setting(FSDefaultFSConfKey, <<fs>>), hdfsSite |-> Nil,
     hiveSite |-> Nil]

SparkRefWithoutDefaults ==
    [type |-> "spark", tag |-> "v3", sparkDefaults |-> Nil,
     coreSite |-> Nil, hdfsSite |-> Nil, hiveSite |-> Nil]

ClusterSpec(conf, tag, replicas, refs) ==
    [kyuubiConf |-> conf, kyuubiImage |-> [repository |-> "kyuubi", tag |-> tag],
     replicas |-> replicas, clusterRefs |-> refs]

\* Two settings, so two renderings of kyuubi-defaults.conf.
SpecA == ClusterSpec(Setting(<<"port">>, <<"1">>) ++
                     Setting(<<"host">>, <<"h">>), "v1", 1,
                     <<HdfsRef("a")>>)
SpecB == ClusterSpec(Setting(<<"port">>, <<"2">>), "v2", 2, <<HdfsRef("b")>>)

\* The kyuubi-defaults.conf of SpecA and a clusterrefs ConfigMap of its own.
SpecC == ClusterSpec(SpecA.kyuubiConf, "v1", 2, <<HdfsRef("c")>>)

\* A spec whose StatefulSet the API server refuses, and one whose clusterrefs
\* ConfigMap cannot be built.
SpecTwoHdfs == ClusterSpec(Setting(<<"port">>, <<"2">>), "v1", 1,
                           <<HdfsRef("a"), HdfsRef("b")>>)
SpecNoSparkDefaults == ClusterSpec(Setting(<<"port">>, <<"1">>), "v1", 1,
                                   <<SparkRefWithoutDefaults>>)

\* SpecB with another image and size: the ConfigMaps stay the same.
SpecD == ClusterSpec(SpecB.kyuubiConf, "v1", 1, SpecB.clusterRefs)

\* Specs that differ in every object and have one rendering of each file.
SpecE == ClusterSpec(Setting(<<"port">>, <<"1">>), "v1", 1, <<HdfsRef("a")>>)

WorkloadSpecs == {SpecB, SpecD}
PlainSpecs == {SpecB, SpecE}
TwoSpecs   == {SpecA, SpecB}
ThreeSpecs == {SpecA, SpecB, SpecC}
AllSpecs   == {SpecE, SpecTwoHdfs, SpecNoSparkDefaults}

\* The objects of a KyuubiCluster that was created and synchronised.
Exposed(now) == [exposedInfos |-> ExposedInfos(contructDesiredService),
                 creationTime |-> now]

SyncedObjects(spec, status) ==
    [k \in AllKinds |->
        IF k = "cr"
        THEN [uid |-> 1, generation |-> 1, spec |-> spec, status |-> status]
        ELSE [owner |-> 1, data |-> CHOOSE d \in Wanted[k][spec] : TRUE]]

NoEvents == [k \in AllKinds |-> <<>>]

\* The informers have seen everything and there is nothing to do.
AtRest ==
    /\ cache = api /\ lag = NoEvents
    /\ queued = FALSE /\ retry = FALSE /\ fresh = FALSE
    /\ pc = "idle" /\ kyuubi = Nil /\ existing = <<>>
    /\ past = {}

\* Before the first KyuubiCluster; what is not in left counts as used up.
NothingYet(left) ==
    /\ api = [k \in AllKinds |-> Nil]
    /\ AtRest
    /\ used = [creates |-> 0,
               edits   |-> IF "edits" \in left THEN 0 ELSE MaxEdits,
               deletes |-> IF "deletes" \in left THEN 0 ELSE MaxDeletes,
               faults  |-> IF "faults" \in left THEN 0 ELSE MaxFaults]

\* Synchronised, and everything but the deletion counts as used up.
ToBeDeleted ==
    /\ \E t \in Time : api = SyncedObjects(SpecB, Exposed(t))
    /\ AtRest
    /\ used = [creates |-> MaxCreates, edits |-> MaxEdits, faults |-> MaxFaults,
               deletes |-> 0]

\* A KyuubiCluster is created and edited, with faults; or it is deleted.
FirstLifeInit == NothingYet({"edits", "faults"}) \/ ToBeDeleted

FirstLifeSpec == FirstLifeInit /\ [][Next]_vars
=============================================================================
