---------------------------- MODULE MCDeepCopies ----------------------------
(***************************************************************************)
(* A small instance of DeepCopies for TLC: KyuubiClusters whose maps and   *)
(* slices are nil, empty or not.                                           *)
(***************************************************************************)
EXTENDS DeepCopies

AllMaps == {"empty", "set"}

Ref(spark, hive, core, hdfs) ==
    [spark     |-> [tag |-> "", sparkDefaults |-> spark],
     metastore |-> [hiveSite |-> hive],
     hdfs      |-> [coreSite |-> core, hdfsSite |-> hdfs]]

Refs ==
    {Ref(m, Nil, Nil, Nil) : m \in AllMaps \cup {Nil}}
        \cup {Ref(Nil, m, Nil, Nil) : m \in AllMaps \cup {Nil}}
        \cup {Ref(Nil, Nil, m, n) : m, n \in AllMaps \cup {Nil}}

Document(conf, refs, infos) ==
    [spec   |-> [kyuubiConf |-> conf, clusterRefs |-> refs],
     status |-> [exposedInfos |-> infos]]

AllDocuments ==
    {Document("set", <<r>>, <<>>) : r \in Refs}
        \cup {Document("set", <<Ref("set", Nil, Nil, Nil), Ref(m, Nil, Nil, "set")>>, Nil)
                : m \in AllMaps \cup {Nil}}
        \cup {Document("empty", refs, infos) : refs \in {Nil, <<>>}, infos \in {Nil} \cup Infos}
=============================================================================
