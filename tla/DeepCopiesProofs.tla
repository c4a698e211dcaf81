-------------------------- MODULE DeepCopiesProofs --------------------------
(***************************************************************************)
(* Proofs about DeepCopies: whatever documents the informer receives and   *)
(* whenever it does, a pass and the informer share no memory, and the pass *)
(* sees the KyuubiCluster that it fetched.                                 *)
(***************************************************************************)
EXTENDS DeepCopies, TLAPS

\* The cells are in the heap g.
Holds(g, cells) == \A x \in DOMAIN cells : x \in DOMAIN g /\ g[x] = cells[x]

\* Every pointer of an object leads to a cell, that of clusterRefs to a slice of
\* ClusterRefs.
WellFormed(h, c) ==
    /\ c \in Objects
    /\ c.spec.clusterRefs # Nil =>
         /\ DOMAIN h[c.spec.clusterRefs] \subseteq Nat
         /\ \A i \in DOMAIN h[c.spec.clusterRefs] :
                h[c.spec.clusterRefs][i] \in ClusterRefType(Pointers)
    /\ Reached(h, c) \subseteq DOMAIN h

\* A new map or slice is nil or in the new cell, and has this content in every
\* heap that holds the cell.
IsNew(m, content, a) ==
    /\ m.out \in {Nil, a}
    /\ DOMAIN m.cells \subseteq {a}
    /\ \A g : Holds(g, m.cells) =>
         /\ ContentIn(g, m.out) = content
         /\ m.out # Nil => m.out \in DOMAIN g

\* The same for a new ClusterRef, whose cells are named for it.
IsNewRef(new, ref, id, i) ==
    /\ new.out \in ClusterRefType(Pointers)
    /\ DOMAIN new.cells \subseteq {<<id, i, f>> : f \in RefFields}
    /\ \A g : Holds(g, new.cells) =>
         /\ RefIn(g, new.out) = ref
         /\ \A p \in RefPointers(new.out) \ {Nil} : p \in DOMAIN g /\ p[1] = id

\* The same for a new slice of ClusterRefs.
IsNewSlice(new, refs, id) ==
    /\ new.out \in {Nil, <<id, 0, "clusterRefs">>}
    /\ DOMAIN new.cells \subseteq {<<id, i, f>> : i \in Nat, f \in RefFields \cup {"clusterRefs"}}
    /\ \A g : Holds(g, new.cells) =>
         /\ RefsIn(g, new.out) = refs
         /\ new.out # Nil =>
              /\ new.out \in DOMAIN g
              /\ DOMAIN g[new.out] \subseteq Nat
              /\ \A i \in DOMAIN g[new.out] :
                   /\ g[new.out][i] \in ClusterRefType(Pointers)
                   /\ \A p \in RefPointers(g[new.out][i]) \ {Nil} :
                         p \in DOMAIN g /\ p[1] = id

\* The store's cells have one id, the pass's have one and, once the status is
\* written, a second; there are no others.
ThreeIds ==
    \E a, b, c \in Ids :
        /\ \A x \in Reached(heap, store) : x[1] = a
        /\ \A x \in Reached(heap, kyuubi) : x[1] = b \/ (pc = "sent" /\ x[1] = c)
        /\ \A x \in DOMAIN heap : x[1] \in {a, b, c}
        /\ pc = "idle" => \A x \in DOMAIN heap : x[1] = a
        /\ pc # "sent" => \A x \in DOMAIN heap : x[1] \in {a, b}

IInv ==
    /\ pc \in {"idle", "refs", "status", "sent"}
    /\ (pc = "idle") <=> (kyuubi = Nil)
    /\ store # Nil => WellFormed(heap, store) /\ DocumentIn(heap, store) = received
    /\ kyuubi # Nil => WellFormed(heap, kyuubi)
    /\ SpecAsFetched
    /\ \A x \in Reached(heap, store), y \in Reached(heap, kyuubi) : x[1] # y[1]
    /\ ThreeIds

-----------------------------------------------------------------------------
(***************************************************************************)
(* Lemmas about allocation: what a copy says in a heap that holds it.      *)
(***************************************************************************)
\* A heap that holds all the cells of parts that do not overlap holds each part.
LEMMA PartsAreHeld ==
    ASSUME NEW g, NEW parts, Holds(g, Together(parts)),
           \A f1, f2 \in parts : DOMAIN f1 \cap DOMAIN f2 # {} => f1 = f2
    PROVE  \A f \in parts : Holds(g, f)
BY DEF Holds, Together

\* The cells of several parts are the cells of each.
LEMMA TogetherDomain ==
    ASSUME NEW parts
    PROVE  \A x : x \in DOMAIN Together(parts) <=> \E f \in parts : x \in DOMAIN f
BY DEF Together

\* Two parts that do not overlap.
LEMMA TwoParts ==
    ASSUME NEW A, NEW B, DOMAIN A \cap DOMAIN B = {}
    PROVE  /\ DOMAIN Together({A, B}) = DOMAIN A \cup DOMAIN B
           /\ \A g : Holds(g, Together({A, B})) => Holds(g, A) /\ Holds(g, B)
<1> DEFINE parts == {A, B}
<1>1. \A f1, f2 \in parts : DOMAIN f1 \cap DOMAIN f2 # {} => f1 = f2
  OBVIOUS
<1> HIDE DEF parts
<1>2. \A g : Holds(g, Together(parts)) => \A f \in parts : Holds(g, f)
  BY <1>1, PartsAreHeld
<1>3. \A x : x \in DOMAIN Together(parts) <=> \E f \in parts : x \in DOMAIN f
  BY TogetherDomain
<1>4. DOMAIN Together(parts) = DOMAIN A \cup DOMAIN B
  <2> DEFINE D == DOMAIN Together(parts)
  <2>1. \A x : x \in D <=> x \in DOMAIN A \/ x \in DOMAIN B
    BY <1>3 DEF parts
  <2> HIDE DEF D
  <2>2. D = DOMAIN A \cup DOMAIN B
    BY <2>1
  <2> QED BY <2>2 DEF D
<1> QED BY <1>2, <1>4 DEF parts

\* Three parts that do not overlap.
LEMMA ThreeParts ==
    ASSUME NEW A, NEW B, NEW C, DOMAIN A \cap DOMAIN B = {},
           DOMAIN A \cap DOMAIN C = {}, DOMAIN B \cap DOMAIN C = {}
    PROVE  /\ DOMAIN Together({A, B, C}) = DOMAIN A \cup DOMAIN B \cup DOMAIN C
           /\ \A g : Holds(g, Together({A, B, C})) => Holds(g, A) /\ Holds(g, B) /\ Holds(g, C)
<1> DEFINE parts == {A, B, C}
<1>1. \A f1, f2 \in parts : DOMAIN f1 \cap DOMAIN f2 # {} => f1 = f2
  OBVIOUS
<1> HIDE DEF parts
<1>2. \A g : Holds(g, Together(parts)) => \A f \in parts : Holds(g, f)
  BY <1>1, PartsAreHeld
<1>3. \A x : x \in DOMAIN Together(parts) <=> \E f \in parts : x \in DOMAIN f
  BY TogetherDomain
<1>4. DOMAIN Together(parts) = DOMAIN A \cup DOMAIN B \cup DOMAIN C
  <2> DEFINE D == DOMAIN Together(parts)
  <2>1. \A x : x \in D <=> x \in DOMAIN A \/ x \in DOMAIN B \/ x \in DOMAIN C
    BY <1>3 DEF parts
  <2> HIDE DEF D
  <2>2. D = DOMAIN A \cup DOMAIN B \cup DOMAIN C
    BY <2>1
  <2> QED BY <2>2 DEF D
<1> QED BY <1>2, <1>4 DEF parts

\* Four parts that do not overlap.
LEMMA FourParts ==
    ASSUME NEW A, NEW B, NEW C, NEW D, DOMAIN A \cap DOMAIN B = {},
           DOMAIN A \cap DOMAIN C = {}, DOMAIN B \cap DOMAIN C = {},
           DOMAIN A \cap DOMAIN D = {}, DOMAIN B \cap DOMAIN D = {}, DOMAIN C \cap DOMAIN D = {}
    PROVE  /\ DOMAIN Together({A, B, C, D}) = DOMAIN A \cup DOMAIN B \cup DOMAIN C \cup DOMAIN D
           /\ \A g : Holds(g, Together({A, B, C, D})) =>
                Holds(g, A) /\ Holds(g, B) /\ Holds(g, C) /\ Holds(g, D)
<1> DEFINE parts == {A, B, C, D}
<1>1. \A f1, f2 \in parts : DOMAIN f1 \cap DOMAIN f2 # {} => f1 = f2
  OBVIOUS
<1> HIDE DEF parts
<1>2. \A g : Holds(g, Together(parts)) => \A f \in parts : Holds(g, f)
  BY <1>1, PartsAreHeld
<1>3. \A x : x \in DOMAIN Together(parts) <=> \E f \in parts : x \in DOMAIN f
  BY TogetherDomain
<1>4. DOMAIN Together(parts) = DOMAIN A \cup DOMAIN B \cup DOMAIN C \cup DOMAIN D
  <2> DEFINE E == DOMAIN Together(parts)
  <2>1. \A x : x \in E <=> x \in DOMAIN A \/ x \in DOMAIN B \/ x \in DOMAIN C \/ x \in DOMAIN D
    BY <1>3 DEF parts
  <2> HIDE DEF E
  <2>2. E = DOMAIN A \cup DOMAIN B \cup DOMAIN C \cup DOMAIN D
    BY <2>1
  <2> QED BY <2>2 DEF E
<1> QED BY <1>2, <1>4 DEF parts

\* An address is not nil.
LEMMA AddressIsNotNil ==
    ASSUME NEW a \in Addresses
    PROVE  a # Nil
BY NilAssumption

\* The names of the cells of a ClusterRef are addresses.
LEMMA RefCellNames ==
    ASSUME NEW id \in Ids, NEW i \in Nat
    PROVE  \A f \in RefFields : /\ <<id, i, f>> \in Addresses
                                /\ <<id, i, f>> # Nil
                                /\ <<id, i, f>>[1] = id
<1> TAKE f \in RefFields
<1>1. f \in Fields
  BY DEF Fields
<1>2. <<id, i, f>> \in Addresses
  BY <1>1 DEF Addresses
<1>3. <<id, i, f>>[1] = id
  OBVIOUS
<1> QED BY <1>2, <1>3, AddressIsNotNil

\* CopyMap makes a new map with the content of the old one.
LEMMA MapIsCopied ==
    ASSUME NEW p, NEW a, a # Nil
    PROVE  IsNew(CopyMap(p, a), ContentIn(heap, p), a)
BY DEF IsNew, CopyMap, Holds, ContentIn, Cell

\* Decoding makes a new map or slice with the content that was sent.
LEMMA ContentIsAllocated ==
    ASSUME NEW content, NEW a, a # Nil
    PROVE  IsNew(Allocate(content, a), content, a)
BY DEF IsNew, Allocate, Holds, ContentIn, Cell

\* Four new maps make a new ClusterRef.
LEMMA FourMapsMakeRef ==
    ASSUME NEW tag \in STRING, NEW id \in Ids, NEW i \in Nat, NEW new, NEW ref,
           NEW s, NEW m, NEW c, NEW h,
           NEW s0, NEW m0, NEW c0, NEW h0,
           IsNew(s, s0, <<id, i, "sparkDefaults">>), IsNew(m, m0, <<id, i, "hiveSite">>),
           IsNew(c, c0, <<id, i, "coreSite">>), IsNew(h, h0, <<id, i, "hdfsSite">>),
           new.out = [spark     |-> [tag |-> tag, sparkDefaults |-> s.out],
                      metastore |-> [hiveSite |-> m.out],
                      hdfs      |-> [coreSite |-> c.out, hdfsSite |-> h.out]],
           ref = [spark     |-> [tag |-> tag, sparkDefaults |-> s0],
                  metastore |-> [hiveSite |-> m0],
                  hdfs      |-> [coreSite |-> c0, hdfsSite |-> h0]],
           DOMAIN new.cells = DOMAIN s.cells \cup DOMAIN m.cells
                                \cup DOMAIN c.cells \cup DOMAIN h.cells,
           \A g : Holds(g, new.cells) =>
                /\ Holds(g, s.cells) /\ Holds(g, m.cells)
                /\ Holds(g, c.cells) /\ Holds(g, h.cells)
    PROVE  IsNewRef(new, ref, id, i)
<1> USE DEF IsNew
<1>1. new.out \in ClusterRefType(Pointers)
  <2>1. \A f \in RefFields : <<id, i, f>> \in Addresses
    BY RefCellNames
  <2>2. s.out \in Pointers /\ m.out \in Pointers /\ c.out \in Pointers /\ h.out \in Pointers
    BY <2>1 DEF Pointers, RefFields
  <2> QED BY <2>2 DEF ClusterRefType
<1>2. DOMAIN new.cells \subseteq {<<id, i, f>> : f \in RefFields}
  BY DEF RefFields
<1>3. ASSUME NEW g, Holds(g, new.cells)
      PROVE  /\ RefIn(g, new.out) = ref
             /\ \A p \in RefPointers(new.out) \ {Nil} : p \in DOMAIN g /\ p[1] = id
  <2>1. /\ ContentIn(g, s.out) = s0 /\ ContentIn(g, m.out) = m0
        /\ ContentIn(g, c.out) = c0 /\ ContentIn(g, h.out) = h0
    BY <1>3
  <2>2. RefIn(g, new.out) = ref
    BY <2>1 DEF RefIn
  <2>3. RefPointers(new.out) = {s.out, m.out, c.out, h.out}
    BY DEF RefPointers
  <2>4. \A p \in {s.out, m.out, c.out, h.out} \ {Nil} : p \in DOMAIN g /\ p[1] = id
    <3>1. \A f \in RefFields : <<id, i, f>>[1] = id
      BY RefCellNames
    <3> QED BY <1>3, <3>1 DEF RefFields
  <2> QED BY <2>2, <2>3, <2>4
<1> QED BY <1>1, <1>2, <1>3 DEF IsNewRef

\* ClusterRef.DeepCopyInto makes a new ClusterRef that says what the old one does.
LEMMA RefIsCopied ==
    ASSUME NEW ref \in ClusterRefType(Pointers), NEW id \in Ids, NEW i \in Nat
    PROVE  IsNewRef(ClusterRef(ref, id, i), RefIn(heap, ref), id, i)
<1> DEFINE s == CopyMap(ref.spark.sparkDefaults, <<id, i, "sparkDefaults">>)
           m == CopyMap(ref.metastore.hiveSite, <<id, i, "hiveSite">>)
           c == CopyMap(ref.hdfs.coreSite, <<id, i, "coreSite">>)
           h == CopyMap(ref.hdfs.hdfsSite, <<id, i, "hdfsSite">>)
           s0 == ContentIn(heap, ref.spark.sparkDefaults)
           m0 == ContentIn(heap, ref.metastore.hiveSite)
           c0 == ContentIn(heap, ref.hdfs.coreSite)
           h0 == ContentIn(heap, ref.hdfs.hdfsSite)
           ch == Together({c.cells, h.cells})
           new == ClusterRef(ref, id, i)
<1>1. /\ IsNew(s, s0, <<id, i, "sparkDefaults">>) /\ IsNew(m, m0, <<id, i, "hiveSite">>)
      /\ IsNew(c, c0, <<id, i, "coreSite">>) /\ IsNew(h, h0, <<id, i, "hdfsSite">>)
  <2>1. \A f \in RefFields : <<id, i, f>> # Nil
    BY RefCellNames
  <2> QED BY <2>1, MapIsCopied DEF RefFields
<1>2. ref.spark.tag \in STRING
  BY DEF ClusterRefType
<1>3. /\ new.out = [spark     |-> [tag |-> ref.spark.tag, sparkDefaults |-> s.out],
                    metastore |-> [hiveSite |-> m.out],
                    hdfs      |-> [coreSite |-> c.out, hdfsSite |-> h.out]]
      /\ new.cells = Together({s.cells, m.cells, ch})
  <2> HIDE DEF s, m, c, h
  <2> QED BY DEF s, m, c, h, ClusterRef, SparkCluster, MetastoreCluster, HdfsCluster, ClusterRefType
<1>4. RefIn(heap, ref) = [spark     |-> [tag |-> ref.spark.tag, sparkDefaults |-> s0],
                          metastore |-> [hiveSite |-> m0],
                          hdfs      |-> [coreSite |-> c0, hdfsSite |-> h0]]
  BY DEF RefIn
<1> HIDE DEF s, m, c, h, s0, m0, c0, h0, new
<1>5. /\ DOMAIN ch = DOMAIN c.cells \cup DOMAIN h.cells
      /\ \A g : Holds(g, ch) => Holds(g, c.cells) /\ Holds(g, h.cells)
  <2>1. DOMAIN c.cells \cap DOMAIN h.cells = {}
    BY <1>1 DEF IsNew
  <2> QED BY <2>1, TwoParts
<1> HIDE DEF ch
<1>6. /\ DOMAIN new.cells = DOMAIN s.cells \cup DOMAIN m.cells \cup DOMAIN ch
      /\ \A g : Holds(g, new.cells) => Holds(g, s.cells) /\ Holds(g, m.cells) /\ Holds(g, ch)
  <2>1. /\ DOMAIN s.cells \cap DOMAIN m.cells = {} /\ DOMAIN s.cells \cap DOMAIN ch = {}
        /\ DOMAIN m.cells \cap DOMAIN ch = {}
    BY <1>1, <1>5 DEF IsNew
  <2> DEFINE all == Together({s.cells, m.cells, ch})
  <2>2. /\ DOMAIN all = DOMAIN s.cells \cup DOMAIN m.cells \cup DOMAIN ch
        /\ \A g : Holds(g, all) => Holds(g, s.cells) /\ Holds(g, m.cells) /\ Holds(g, ch)
    BY <2>1, ThreeParts
  <2> HIDE DEF all
  <2> QED BY <1>3, <2>2 DEF all
<1>7. DOMAIN new.cells = DOMAIN s.cells \cup DOMAIN m.cells
                            \cup DOMAIN c.cells \cup DOMAIN h.cells
  BY <1>5, <1>6
<1> QED BY <1>1, <1>2, <1>3, <1>4, <1>5, <1>6, <1>7, FourMapsMakeRef DEF new

\* A ClusterRef that is decoded into new memory says what was sent.
LEMMA RefIsDecoded ==
    ASSUME NEW ref \in ClusterRefType(Maps \cup {Nil}), NEW id \in Ids, NEW i \in Nat
    PROVE  IsNewRef(DecodedRef(ref, id, i), ref, id, i)
<1> DEFINE s == Allocate(ref.spark.sparkDefaults, <<id, i, "sparkDefaults">>)
           m == Allocate(ref.metastore.hiveSite, <<id, i, "hiveSite">>)
           c == Allocate(ref.hdfs.coreSite, <<id, i, "coreSite">>)
           h == Allocate(ref.hdfs.hdfsSite, <<id, i, "hdfsSite">>)
           new == DecodedRef(ref, id, i)
<1>1. /\ IsNew(s, ref.spark.sparkDefaults, <<id, i, "sparkDefaults">>)
      /\ IsNew(m, ref.metastore.hiveSite, <<id, i, "hiveSite">>)
      /\ IsNew(c, ref.hdfs.coreSite, <<id, i, "coreSite">>)
      /\ IsNew(h, ref.hdfs.hdfsSite, <<id, i, "hdfsSite">>)
  <2>1. \A f \in RefFields : <<id, i, f>> # Nil
    BY RefCellNames
  <2> QED BY <2>1, ContentIsAllocated DEF RefFields
<1>2. ref.spark.tag \in STRING
  BY DEF ClusterRefType
<1>3. /\ new.out = [spark     |-> [tag |-> ref.spark.tag, sparkDefaults |-> s.out],
                    metastore |-> [hiveSite |-> m.out],
                    hdfs      |-> [coreSite |-> c.out, hdfsSite |-> h.out]]
      /\ new.cells = Together({s.cells, m.cells, c.cells, h.cells})
  <2> HIDE DEF s, m, c, h
  <2> QED BY DEF s, m, c, h, DecodedRef
<1>4. ref = [spark     |-> [tag |-> ref.spark.tag, sparkDefaults |-> ref.spark.sparkDefaults],
             metastore |-> [hiveSite |-> ref.metastore.hiveSite],
             hdfs      |-> [coreSite |-> ref.hdfs.coreSite, hdfsSite |-> ref.hdfs.hdfsSite]]
  BY DEF ClusterRefType
<1> HIDE DEF s, m, c, h, new
<1>5. /\ DOMAIN new.cells = DOMAIN s.cells \cup DOMAIN m.cells
                               \cup DOMAIN c.cells \cup DOMAIN h.cells
      /\ \A g : Holds(g, new.cells) =>
            Holds(g, s.cells) /\ Holds(g, m.cells) /\ Holds(g, c.cells) /\ Holds(g, h.cells)
  <2>1. /\ DOMAIN s.cells \cap DOMAIN m.cells = {} /\ DOMAIN s.cells \cap DOMAIN c.cells = {}
        /\ DOMAIN s.cells \cap DOMAIN h.cells = {} /\ DOMAIN m.cells \cap DOMAIN c.cells = {}
        /\ DOMAIN m.cells \cap DOMAIN h.cells = {} /\ DOMAIN c.cells \cap DOMAIN h.cells = {}
    BY <1>1 DEF IsNew
  <2> DEFINE all == Together({s.cells, m.cells, c.cells, h.cells})
  <2>2. /\ DOMAIN all = DOMAIN s.cells \cup DOMAIN m.cells \cup DOMAIN c.cells \cup DOMAIN h.cells
        /\ \A g : Holds(g, all) =>
              Holds(g, s.cells) /\ Holds(g, m.cells) /\ Holds(g, c.cells) /\ Holds(g, h.cells)
    BY <2>1, FourParts
  <2> HIDE DEF all
  <2> QED BY <1>3, <2>2 DEF all
<1> QED BY <1>1, <1>2, <1>3, <1>4, <1>5, FourMapsMakeRef DEF new

\* New ClusterRefs make a new slice.
LEMMA RefsMakeSlice ==
    ASSUME NEW id \in Ids, NEW each, NEW refs, NEW new,
           DOMAIN each \subseteq Nat,
           refs = [i \in DOMAIN each |-> refs[i]],
           \A i \in DOMAIN each : IsNewRef(each[i], refs[i], id, i),
           new.out = <<id, 0, "clusterRefs">>,
           new.cells = Together({Cell(<<id, 0, "clusterRefs">>, [i \in DOMAIN each |-> each[i].out])}
                                   \cup {each[i].cells : i \in DOMAIN each})
    PROVE  IsNewSlice(new, refs, id)
<1> DEFINE a == <<id, 0, "clusterRefs">>
           outs == [i \in DOMAIN each |-> each[i].out]
           top == Cell(a, outs)
           parts == {top} \cup {each[i].cells : i \in DOMAIN each}
<1>1. a # Nil /\ a \in Addresses
  BY AddressIsNotNil DEF Addresses, Fields
<1>2. DOMAIN top = {a} /\ top[a] = outs
  BY DEF Cell
<1>3. \A i \in DOMAIN each :
        DOMAIN each[i].cells \subseteq {<<id, i, f>> : f \in RefFields}
  BY DEF IsNewRef
<1>4. \A f1, f2 \in parts : DOMAIN f1 \cap DOMAIN f2 # {} => f1 = f2
  <2> HIDE DEF top
  <2>1. \A i \in DOMAIN each : DOMAIN each[i].cells \cap DOMAIN top = {}
    BY <1>2, <1>3 DEF RefFields
  <2>2. \A i, j \in DOMAIN each :
            DOMAIN each[i].cells \cap DOMAIN each[j].cells # {} => i = j
    BY <1>3
  <2> QED BY <2>1, <2>2
<1>5. ASSUME NEW x \in DOMAIN new.cells
      PROVE  x \in {<<id, i, f>> : i \in Nat, f \in RefFields \cup {"clusterRefs"}}
  <2> HIDE DEF parts
  <2>1. PICK f \in parts : x \in DOMAIN f
    <3>1. x \in DOMAIN Together(parts)
      BY <1>5 DEF parts
    <3> QED BY <3>1, TogetherDomain
  <2>2. CASE f = top
    <3>1. x = a
      BY <2>1, <2>2, <1>2
    <3> QED BY <3>1
  <2>3. CASE \E i \in DOMAIN each : f = each[i].cells
    BY <2>1, <2>3, <1>3
  <2> QED BY <2>2, <2>3 DEF parts
<1>6. ASSUME NEW g, Holds(g, new.cells)
      PROVE  /\ RefsIn(g, new.out) = refs
             /\ new.out \in DOMAIN g
             /\ DOMAIN g[new.out] \subseteq Nat
             /\ \A i \in DOMAIN g[new.out] :
                  /\ g[new.out][i] \in ClusterRefType(Pointers)
                  /\ \A p \in RefPointers(g[new.out][i]) \ {Nil} :
                        p \in DOMAIN g /\ p[1] = id
  <2>1. \A f \in parts : Holds(g, f)
    <3> HIDE DEF parts
    <3>1. Holds(g, Together(parts))
      BY <1>6 DEF parts
    <3> QED BY <3>1, <1>4, PartsAreHeld
  <2>2. a \in DOMAIN g /\ g[a] = outs
    <3>1. Holds(g, top)
      BY <2>1
    <3> HIDE DEF top, outs, a
    <3> QED BY <3>1, <1>2 DEF Holds
  <2>3. ASSUME NEW i \in DOMAIN each
        PROVE  /\ outs[i] \in ClusterRefType(Pointers)
               /\ RefIn(g, outs[i]) = refs[i]
               /\ \A p \in RefPointers(outs[i]) \ {Nil} : p \in DOMAIN g /\ p[1] = id
    <3>1. Holds(g, each[i].cells)
      BY <2>1
    <3> QED BY <3>1 DEF IsNewRef
  <2>4. DOMAIN outs = DOMAIN each
    OBVIOUS
  <2> HIDE DEF a, outs, top, parts
  <2>5. RefsIn(g, a) = refs
    BY <2>2, <2>3, <2>4, <1>1 DEF RefsIn
  <2> QED BY <2>2, <2>3, <2>4, <2>5 DEF a
<1> QED BY <1>1, <1>5, <1>6 DEF IsNewSlice

\* The slice of a spec is copied with all that its elements point to.
LEMMA SliceIsCopied ==
    ASSUME NEW id \in Ids, NEW p,
           p # Nil => /\ DOMAIN heap[p] \subseteq Nat
                      /\ \A i \in DOMAIN heap[p] : heap[p][i] \in ClusterRefType(Pointers)
    PROVE  IsNewSlice(ClusterRefs(p, id), RefsIn(heap, p), id)
<1>1. CASE p = Nil
  BY <1>1 DEF IsNewSlice, ClusterRefs, RefsIn
<1>2. CASE p # Nil
  <2> DEFINE each == [i \in DOMAIN heap[p] |-> ClusterRef(heap[p][i], id, i)]
             refs == RefsIn(heap, p)
             new  == ClusterRefs(p, id)
  <2>1. DOMAIN each \subseteq Nat
    BY <1>2
  <2>2. refs = [i \in DOMAIN each |-> refs[i]]
    BY <1>2 DEF RefsIn
  <2>3. \A i \in DOMAIN each : IsNewRef(each[i], refs[i], id, i)
    <3> TAKE i \in DOMAIN each
    <3>1. each[i] = ClusterRef(heap[p][i], id, i) /\ refs[i] = RefIn(heap, heap[p][i])
      BY <1>2 DEF RefsIn
    <3>2. heap[p][i] \in ClusterRefType(Pointers) /\ i \in Nat
      BY <1>2
    <3> HIDE DEF each, refs
    <3> QED BY <3>1, <3>2, RefIsCopied
  <2>4. /\ new.out = <<id, 0, "clusterRefs">>
        /\ new.cells = Together({Cell(<<id, 0, "clusterRefs">>, [i \in DOMAIN each |-> each[i].out])}
                                   \cup {each[i].cells : i \in DOMAIN each})
    <3> HIDE DEF each
    <3> QED BY <1>2 DEF ClusterRefs, each
  <2> HIDE DEF each, refs, new
  <2>5. IsNewSlice(new, refs, id)
    BY <2>1, <2>2, <2>3, <2>4, RefsMakeSlice
  <2> QED BY <2>5 DEF refs, new
<1> QED BY <1>1, <1>2

\* A slice that is decoded says what was sent.
LEMMA SliceIsDecoded ==
    ASSUME NEW id \in Ids, NEW refs \in {Nil} \cup Seq(ClusterRefType(Maps \cup {Nil}))
    PROVE  IsNewSlice(DecodedRefs(refs, id), refs, id)
<1>1. CASE refs = Nil
  BY <1>1 DEF IsNewSlice, DecodedRefs, RefsIn
<1>2. CASE refs # Nil
  <2> DEFINE each == [i \in DOMAIN refs |-> DecodedRef(refs[i], id, i)]
             new  == DecodedRefs(refs, id)
  <2>0. /\ DOMAIN refs \subseteq Nat
        /\ refs = [i \in DOMAIN refs |-> refs[i]]
        /\ \A i \in DOMAIN refs : refs[i] \in ClusterRefType(Maps \cup {Nil})
    <3> DEFINE T == ClusterRefType(Maps \cup {Nil})
    <3>1. refs \in Seq(T)
      BY <1>2
    <3> HIDE DEF T
    <3>2. DOMAIN refs = 1..Len(refs) /\ Len(refs) \in Nat /\ refs \in [1..Len(refs) -> T]
      BY <3>1
    <3>3. refs = [i \in DOMAIN refs |-> refs[i]]
      BY <3>2
    <3>4. \A i \in DOMAIN refs : refs[i] \in T
      BY <3>2
    <3>5. DOMAIN refs \subseteq Nat
      BY <3>2
    <3> QED BY <3>3, <3>4, <3>5 DEF T
  <2>1. DOMAIN each \subseteq Nat
    BY <2>0
  <2>2. refs = [i \in DOMAIN each |-> refs[i]]
    BY <2>0
  <2>3. \A i \in DOMAIN each : IsNewRef(each[i], refs[i], id, i)
    <3> TAKE i \in DOMAIN each
    <3>1. each[i] = DecodedRef(refs[i], id, i)
      OBVIOUS
    <3>2. refs[i] \in ClusterRefType(Maps \cup {Nil}) /\ i \in Nat
      BY <2>0
    <3> HIDE DEF each
    <3> QED BY <3>1, <3>2, RefIsDecoded
  <2>4. /\ new.out = <<id, 0, "clusterRefs">>
        /\ new.cells = Together({Cell(<<id, 0, "clusterRefs">>, [i \in DOMAIN each |-> each[i].out])}
                                   \cup {each[i].cells : i \in DOMAIN each})
    <3> HIDE DEF each
    <3> QED BY <1>2 DEF DecodedRefs, each
  <2> HIDE DEF each, new
  <2>5. IsNewSlice(new, refs, id)
    BY <2>1, <2>2, <2>3, <2>4, RefsMakeSlice
  <2> QED BY <2>5 DEF new
<1> QED BY <1>1, <1>2

\* A new map, a new slice of ClusterRefs and a new slice of ExposedInfos make a
\* new KyuubiCluster.
LEMMA PartsMakeCluster ==
    ASSUME NEW id \in Ids, NEW new, NEW m, NEW r, NEW i, NEW m0, NEW r0, NEW i0, NEW g,
           IsNew(m, m0, <<id, 0, "kyuubiConf">>), IsNewSlice(r, r0, id),
           IsNew(i, i0, <<id, 0, "exposedInfos">>),
           new = [spec |-> [kyuubiConf |-> m.out, clusterRefs |-> r.out],
                  status |-> [exposedInfos |-> i.out]],
           Holds(g, m.cells), Holds(g, r.cells), Holds(g, i.cells)
    PROVE  /\ WellFormed(g, new)
           /\ DocumentIn(g, new) = [spec |-> [kyuubiConf |-> m0, clusterRefs |-> r0],
                                    status |-> [exposedInfos |-> i0]]
           /\ \A x \in Reached(g, new) : x[1] = id
<1>1. /\ \A f \in Fields : <<id, 0, f>> \in Addresses /\ <<id, 0, f>>[1] = id
      /\ \A f \in Fields : <<id, 0, f>> # Nil
  BY AddressIsNotNil DEF Addresses
<1>2. m.out \in Pointers /\ r.out \in Pointers /\ i.out \in Pointers
  BY <1>1 DEF IsNew, IsNewSlice, Pointers, Fields
<1>3. new \in Objects /\ new # Nil
  BY <1>2, NilAssumption DEF Objects, KyuubiClusterType
<1>4. DocumentIn(g, new) = [spec |-> [kyuubiConf |-> m0, clusterRefs |-> r0],
                            status |-> [exposedInfos |-> i0]]
  BY DEF DocumentIn, IsNew, IsNewSlice
<1>5. r.out # Nil =>
         /\ DOMAIN g[r.out] \subseteq Nat
         /\ \A j \in DOMAIN g[r.out] : g[r.out][j] \in ClusterRefType(Pointers)
  BY DEF IsNewSlice
<1>6. ASSUME NEW x \in Reached(g, new)
      PROVE  x \in DOMAIN g /\ x[1] = id
  <2>1. x # Nil
    BY <1>3 DEF Reached
  <2>2. CASE x \in {m.out, r.out, i.out}
    <3>1. x \in DOMAIN g
      BY <2>1, <2>2 DEF IsNew, IsNewSlice
    <3>2. x[1] = id
      BY <2>1, <2>2, <1>1 DEF IsNew, IsNewSlice, Fields
    <3> QED BY <3>1, <3>2
  <2>3. CASE r.out # Nil /\ \E j \in DOMAIN g[r.out] : x \in RefPointers(g[r.out][j])
    BY <2>1, <2>3 DEF IsNewSlice
  <2> QED BY <2>2, <2>3, <1>3 DEF Reached
<1> QED BY <1>3, <1>4, <1>5, <1>6 DEF WellFormed

\* KyuubiCluster.DeepCopyInto makes an object that says what the old one does, in
\* new memory.
LEMMA ClusterIsCopied ==
    ASSUME NEW c, WellFormed(heap, c), NEW id \in Ids
    PROVE  LET copy == KyuubiCluster(c, id)
           IN  /\ \A x \in DOMAIN copy.cells : x[1] = id
               /\ \A g : Holds(g, copy.cells) =>
                    /\ WellFormed(g, copy.out)
                    /\ DocumentIn(g, copy.out) = DocumentIn(heap, c)
                    /\ \A x \in Reached(g, copy.out) : x[1] = id
<1> DEFINE m == CopyMap(c.spec.kyuubiConf, <<id, 0, "kyuubiConf">>)
           r == ClusterRefs(c.spec.clusterRefs, id)
           i == CopyMap(c.status.exposedInfos, <<id, 0, "exposedInfos">>)
           m0 == ContentIn(heap, c.spec.kyuubiConf)
           r0 == RefsIn(heap, c.spec.clusterRefs)
           i0 == ContentIn(heap, c.status.exposedInfos)
           mr == Together({m.cells, r.cells})
           copy == KyuubiCluster(c, id)
<1>1. /\ IsNew(m, m0, <<id, 0, "kyuubiConf">>)
      /\ IsNewSlice(r, r0, id)
      /\ IsNew(i, i0, <<id, 0, "exposedInfos">>)
  <2>1. <<id, 0, "kyuubiConf">> # Nil /\ <<id, 0, "exposedInfos">> # Nil
    BY AddressIsNotNil DEF Addresses, Fields
  <2>2. IsNew(m, m0, <<id, 0, "kyuubiConf">>) /\ IsNew(i, i0, <<id, 0, "exposedInfos">>)
    BY <2>1, MapIsCopied
  <2>3. IsNewSlice(r, r0, id)
    BY SliceIsCopied DEF WellFormed
  <2> QED BY <2>2, <2>3
<1>2. /\ copy.out = [spec |-> [kyuubiConf |-> m.out, clusterRefs |-> r.out],
                     status |-> [exposedInfos |-> i.out]]
      /\ copy.cells = Together({mr, i.cells})
  <2>1. c \in Objects
    BY DEF WellFormed
  <2> HIDE DEF m, r, i
  <2> QED BY <2>1 DEF m, r, i, KyuubiCluster, KyuubiClusterSpec, KyuubiClusterStatus,
                      Objects, KyuubiClusterType
<1>3. DocumentIn(heap, c) = [spec |-> [kyuubiConf |-> m0, clusterRefs |-> r0],
                             status |-> [exposedInfos |-> i0]]
  BY DEF DocumentIn
<1> HIDE DEF m, r, i, m0, r0, i0, copy
<1>4. /\ DOMAIN mr = DOMAIN m.cells \cup DOMAIN r.cells
      /\ \A g : Holds(g, mr) => Holds(g, m.cells) /\ Holds(g, r.cells)
  <2>1. DOMAIN m.cells \cap DOMAIN r.cells = {}
    BY <1>1 DEF IsNew, IsNewSlice, RefFields
  <2> QED BY <2>1, TwoParts
<1> HIDE DEF mr
<1>5. /\ DOMAIN copy.cells = DOMAIN mr \cup DOMAIN i.cells
      /\ \A g : Holds(g, copy.cells) => Holds(g, mr) /\ Holds(g, i.cells)
  <2>1. DOMAIN mr \cap DOMAIN i.cells = {}
    BY <1>1, <1>4 DEF IsNew, IsNewSlice, RefFields
  <2> DEFINE all == Together({mr, i.cells})
  <2>2. /\ DOMAIN all = DOMAIN mr \cup DOMAIN i.cells
        /\ \A g : Holds(g, all) => Holds(g, mr) /\ Holds(g, i.cells)
    BY <2>1, TwoParts
  <2> HIDE DEF all
  <2> QED BY <1>2, <2>2 DEF all
<1>6. \A x \in DOMAIN copy.cells : x[1] = id
  BY <1>1, <1>4, <1>5 DEF IsNew, IsNewSlice
<1>7. ASSUME NEW g, Holds(g, copy.cells)
      PROVE  /\ WellFormed(g, copy.out)
             /\ DocumentIn(g, copy.out) = DocumentIn(heap, c)
             /\ \A x \in Reached(g, copy.out) : x[1] = id
  <2>1. Holds(g, m.cells) /\ Holds(g, r.cells) /\ Holds(g, i.cells)
    BY <1>4, <1>5, <1>7
  <2> QED BY <2>1, <1>1, <1>2, <1>3, PartsMakeCluster
<1> QED BY <1>6, <1>7 DEF copy

\* An object that is decoded says what was sent, in new memory.
LEMMA ClusterIsDecoded ==
    ASSUME NEW doc \in Documents, NEW id \in Ids
    PROVE  LET new == Decoded(doc, id)
           IN  /\ \A x \in DOMAIN new.cells : x[1] = id
               /\ \A g : Holds(g, new.cells) =>
                    /\ WellFormed(g, new.out)
                    /\ DocumentIn(g, new.out) = doc
                    /\ \A x \in Reached(g, new.out) : x[1] = id
<1> DEFINE m == Allocate(doc.spec.kyuubiConf, <<id, 0, "kyuubiConf">>)
           r == DecodedRefs(doc.spec.clusterRefs, id)
           i == Allocate(doc.status.exposedInfos, <<id, 0, "exposedInfos">>)
           new == Decoded(doc, id)
<1>0. /\ doc.spec.clusterRefs \in {Nil} \cup Seq(ClusterRefType(Maps \cup {Nil}))
      /\ doc = [spec |-> [kyuubiConf |-> doc.spec.kyuubiConf,
                          clusterRefs |-> doc.spec.clusterRefs],
                status |-> [exposedInfos |-> doc.status.exposedInfos]]
  <2> DEFINE R == {Nil} \cup Seq(ClusterRefType(Maps \cup {Nil}))
             N == Maps \cup {Nil}
             I == {Nil} \cup Infos
  <2>1. doc \in KyuubiClusterType(N, R, I)
    BY DocumentsAssumption
  <2> HIDE DEF R, N, I
  <2>2. /\ doc.spec.clusterRefs \in R
        /\ doc = [spec |-> [kyuubiConf |-> doc.spec.kyuubiConf,
                            clusterRefs |-> doc.spec.clusterRefs],
                  status |-> [exposedInfos |-> doc.status.exposedInfos]]
    BY <2>1 DEF KyuubiClusterType
  <2> QED BY <2>2 DEF R
<1>1. /\ IsNew(m, doc.spec.kyuubiConf, <<id, 0, "kyuubiConf">>)
      /\ IsNewSlice(r, doc.spec.clusterRefs, id)
      /\ IsNew(i, doc.status.exposedInfos, <<id, 0, "exposedInfos">>)
  <2>1. <<id, 0, "kyuubiConf">> # Nil /\ <<id, 0, "exposedInfos">> # Nil
    BY AddressIsNotNil DEF Addresses, Fields
  <2>2. /\ IsNew(m, doc.spec.kyuubiConf, <<id, 0, "kyuubiConf">>)
        /\ IsNew(i, doc.status.exposedInfos, <<id, 0, "exposedInfos">>)
    BY <2>1, ContentIsAllocated
  <2>3. IsNewSlice(r, doc.spec.clusterRefs, id)
    BY <1>0, SliceIsDecoded
  <2> QED BY <2>2, <2>3
<1>2. /\ new.out = [spec |-> [kyuubiConf |-> m.out, clusterRefs |-> r.out],
                    status |-> [exposedInfos |-> i.out]]
      /\ new.cells = Together({m.cells, r.cells, i.cells})
  <2> HIDE DEF m, r, i
  <2> QED BY DEF m, r, i, Decoded
<1> HIDE DEF m, r, i, new
<1>3. /\ DOMAIN new.cells = DOMAIN m.cells \cup DOMAIN r.cells \cup DOMAIN i.cells
      /\ \A g : Holds(g, new.cells) => Holds(g, m.cells) /\ Holds(g, r.cells) /\ Holds(g, i.cells)
  <2>1. /\ DOMAIN m.cells \cap DOMAIN r.cells = {} /\ DOMAIN m.cells \cap DOMAIN i.cells = {}
        /\ DOMAIN r.cells \cap DOMAIN i.cells = {}
    BY <1>1 DEF IsNew, IsNewSlice, RefFields
  <2> DEFINE all == Together({m.cells, r.cells, i.cells})
  <2>2. /\ DOMAIN all = DOMAIN m.cells \cup DOMAIN r.cells \cup DOMAIN i.cells
        /\ \A g : Holds(g, all) => Holds(g, m.cells) /\ Holds(g, r.cells) /\ Holds(g, i.cells)
    BY <2>1, ThreeParts
  <2> HIDE DEF all
  <2> QED BY <1>2, <2>2 DEF all
<1>4. \A x \in DOMAIN new.cells : x[1] = id
  BY <1>1, <1>3 DEF IsNew, IsNewSlice
<1>5. ASSUME NEW g, Holds(g, new.cells)
      PROVE  /\ WellFormed(g, new.out)
             /\ DocumentIn(g, new.out) = doc
             /\ \A x \in Reached(g, new.out) : x[1] = id
  <2>1. Holds(g, m.cells) /\ Holds(g, r.cells) /\ Holds(g, i.cells)
    BY <1>3, <1>5
  <2> DEFINE d == [spec |-> [kyuubiConf |-> doc.spec.kyuubiConf,
                             clusterRefs |-> doc.spec.clusterRefs],
                   status |-> [exposedInfos |-> doc.status.exposedInfos]]
  <2>2. /\ WellFormed(g, new.out)
        /\ DocumentIn(g, new.out) = d
        /\ \A x \in Reached(g, new.out) : x[1] = id
    BY SMTT(30), <2>1, <1>1, <1>2, PartsMakeCluster
  <2>3. doc = d
    BY <1>0
  <2> HIDE DEF d
  <2> QED BY <2>2, <2>3
<1> QED BY <1>4, <1>5 DEF new

-----------------------------------------------------------------------------
(***************************************************************************)
(* Lemmas about changes of the heap that do not touch an object.           *)
(***************************************************************************)
\* A heap that has the cells an object reaches shows the same object.
LEMMA SameObject ==
    ASSUME NEW h, NEW g, NEW c, WellFormed(h, c),
           \A x \in Reached(h, c) : x \in DOMAIN g /\ g[x] = h[x]
    PROVE  /\ WellFormed(g, c)
           /\ Reached(g, c) = Reached(h, c)
           /\ DocumentIn(g, c) = DocumentIn(h, c)
<1> DEFINE p == c.spec.clusterRefs
<1>1. c # Nil
  BY NilAssumption DEF WellFormed
<1>2. \A x \in {c.spec.kyuubiConf, p, c.status.exposedInfos} :
        x # Nil => x \in DOMAIN g /\ g[x] = h[x]
  BY <1>1 DEF Reached
<1>3. p # Nil => \A i \in DOMAIN h[p] : \A x \in RefPointers(h[p][i]) :
        x # Nil => x \in DOMAIN g /\ g[x] = h[x]
  BY <1>1 DEF Reached
<1>4. Reached(g, c) = Reached(h, c)
  BY <1>1, <1>2 DEF Reached
<1>5. WellFormed(g, c)
  BY <1>2, <1>4 DEF WellFormed
<1>6. RefsIn(g, p) = RefsIn(h, p)
  <2>1. ASSUME p # Nil, NEW i \in DOMAIN h[p]
        PROVE  RefIn(g, h[p][i]) = RefIn(h, h[p][i])
    BY <1>3, <2>1 DEF RefIn, RefPointers, ContentIn
  <2>2. CASE p = Nil
    BY <2>2 DEF RefsIn
  <2>3. CASE p # Nil
    BY <1>2, <2>1, <2>3 DEF RefsIn
  <2> QED BY <2>2, <2>3
<1>7. DocumentIn(g, c) = DocumentIn(h, c)
  BY <1>2, <1>6 DEF DocumentIn, ContentIn
<1> QED BY <1>4, <1>5, <1>7

\* What a root reaches is kept.
LEMMA RootsLive ==
    ASSUME NEW h, NEW roots, NEW c \in roots
    PROVE  \A x \in Reached(h, c) : x \in DOMAIN Live(h, roots) /\ Live(h, roots)[x] = h[x]
BY DEF Live

\* Nothing else is kept.
LEMMA OnlyRootsLive ==
    ASSUME NEW h, NEW roots, NEW x \in DOMAIN Live(h, roots)
    PROVE  \E c \in roots : x \in Reached(h, c)
BY DEF Live

\* The same for what may be nil.
LEMMA SameObjectOrNil ==
    ASSUME NEW h, NEW g, NEW c, c # Nil => WellFormed(h, c),
           \A x \in Reached(h, c) : x \in DOMAIN g /\ g[x] = h[x]
    PROVE  /\ c # Nil => WellFormed(g, c)
           /\ Reached(g, c) = Reached(h, c)
           /\ c # Nil => DocumentIn(g, c) = DocumentIn(h, c)
<1>1. CASE c = Nil
  BY <1>1 DEF Reached
<1>2. CASE c # Nil
  BY <1>2, SameObject
<1> QED BY <1>1, <1>2

\* An object reaches cells of the heap only.
LEMMA ReachedIsUsed ==
    ASSUME NEW h, NEW c, c # Nil => WellFormed(h, c)
    PROVE  Reached(h, c) \subseteq DOMAIN h
BY DEF WellFormed, Reached

\* The heap g is the heap h with these cells added to it.
Grown(g, h, cells) ==
    /\ DOMAIN g = DOMAIN h \cup DOMAIN cells
    /\ Holds(g, cells)
    /\ \A x \in DOMAIN h : x \in DOMAIN g /\ g[x] = h[x]

\* New cells, none of them in the heap, leave all that is in the heap as it is.
LEMMA HeapGrows ==
    ASSUME NEW h, NEW cells, DOMAIN h \cap DOMAIN cells = {}
    PROVE  Grown(Together({h, cells}), h, cells)
<1> DEFINE g == Together({h, cells})
<1>1. DOMAIN g = DOMAIN h \cup DOMAIN cells
  BY TwoParts
<1>2. Holds(g, g) => Holds(g, h) /\ Holds(g, cells)
  BY TwoParts
<1> HIDE DEF g
<1>3. Holds(g, h) /\ Holds(g, cells)
  BY <1>2 DEF Holds
<1>4. \A x \in DOMAIN h : x \in DOMAIN g /\ g[x] = h[x]
  BY <1>3 DEF Holds
<1>5. Grown(g, h, cells)
  BY <1>1, <1>3, <1>4 DEF Grown
<1> QED BY <1>5 DEF g

\* A pointer to another cell for the exposedInfos leaves the spec as it is.
LEMMA StatusIsReplaced ==
    ASSUME NEW h, NEW c, WellFormed(h, c), NEW a \in Addresses, a \in DOMAIN h
    PROVE  LET new == [c EXCEPT !.status.exposedInfos = a]
           IN  /\ WellFormed(h, new)
               /\ DocumentIn(h, new).spec = DocumentIn(h, c).spec
               /\ Reached(h, new) \subseteq Reached(h, c) \cup {a}
<1> DEFINE new == [c EXCEPT !.status.exposedInfos = a]
<1>1. c \in Objects /\ c # Nil
  BY NilAssumption DEF WellFormed
<1>2. new = [spec |-> c.spec, status |-> [exposedInfos |-> a]]
  BY <1>1 DEF Objects, KyuubiClusterType
<1>3. new \in Objects
  BY <1>1, <1>2 DEF Objects, KyuubiClusterType, Pointers
<1>4. new.spec = c.spec /\ new.status.exposedInfos = a /\ new # Nil
  BY <1>2, <1>3, NilAssumption
<1> HIDE DEF new
<1>5. Reached(h, new) \subseteq Reached(h, c) \cup {a}
  BY <1>1, <1>4 DEF Reached
<1>6. WellFormed(h, new)
  BY <1>3, <1>4, <1>5 DEF WellFormed
<1>7. DocumentIn(h, new).spec = DocumentIn(h, c).spec
  BY <1>4 DEF DocumentIn
<1> QED BY <1>5, <1>6, <1>7 DEF new

-----------------------------------------------------------------------------
(***************************************************************************)
(* The invariant, action by action.                                        *)
(***************************************************************************)
\* Four ids are enough: three are in use at most, so that an allocation gets
\* cells that nothing else points to.
LEMMA FreshIdExists ==
    ASSUME ThreeIds
    PROVE  FreshId \in Ids /\ \A x \in DOMAIN heap : x[1] # FreshId
<1>1. PICK a, b, c \in Ids : \A x \in DOMAIN heap : x[1] \in {a, b, c}
  BY DEF ThreeIds
<1>2. PICK d \in Ids : d \notin {a, b, c}
  BY IdsAssumption
<1>3. \A x \in DOMAIN heap : x[1] # d
  BY <1>1, <1>2
<1> QED BY <1>3 DEF FreshId

\* At first there is no memory in use.
LEMMA InitMemory ==
    Init => IInv
<1> SUFFICES ASSUME Init PROVE IInv
  OBVIOUS
<1>1. DOMAIN heap = {} /\ Reached(heap, store) = {} /\ Reached(heap, kyuubi) = {}
  BY DEF Init, Reached
<1>2. ThreeIds
  BY <1>1, IdsAssumption DEF ThreeIds
<1> QED BY <1>1, <1>2 DEF Init, IInv, SpecAsFetched

\* The informer puts an object in place of the one that it had.
LEMMA ReceiveKeepsMemory ==
    ASSUME IInv, NEW doc \in Documents, InformerReceives(doc)
    PROVE  IInv'
<1> DEFINE id == FreshId
           new == Decoded(doc, id)
           h == Together({heap, new.cells})
<1>1. id \in Ids /\ \A x \in DOMAIN heap : x[1] # id
  BY FreshIdExists DEF IInv
<1>2. /\ store' = new.out /\ heap' = Live(h, {new.out, kyuubi})
      /\ received' = doc /\ UNCHANGED <<kyuubi, fetched, pc>>
  BY DEF InformerReceives
<1> HIDE DEF id
<1>3. /\ \A x \in DOMAIN new.cells : x[1] = id
      /\ \A g : Holds(g, new.cells) =>
           /\ WellFormed(g, new.out)
           /\ DocumentIn(g, new.out) = doc
           /\ \A x \in Reached(g, new.out) : x[1] = id
  BY <1>1, ClusterIsDecoded
<1> HIDE DEF new
<1>4. /\ Holds(h, new.cells)
      /\ \A x \in DOMAIN heap : x \in DOMAIN h /\ h[x] = heap[x]
  <2>1. DOMAIN heap \cap DOMAIN new.cells = {}
    BY <1>1, <1>3
  <2>2. Grown(h, heap, new.cells)
    BY <2>1, HeapGrows
  <2> HIDE DEF h
  <2> QED BY <2>2 DEF Grown
<1> HIDE DEF h
<1>5. kyuubi # Nil => WellFormed(heap, kyuubi)
  BY DEF IInv
<1>6. Reached(heap, kyuubi) \subseteq DOMAIN heap
  BY <1>5, ReachedIsUsed
<1>7. /\ kyuubi # Nil => WellFormed(h, kyuubi)
      /\ Reached(h, kyuubi) = Reached(heap, kyuubi)
      /\ kyuubi # Nil => DocumentIn(h, kyuubi) = DocumentIn(heap, kyuubi)
  BY <1>4, <1>5, <1>6, SameObjectOrNil
<1>8. /\ kyuubi # Nil => WellFormed(heap', kyuubi)
      /\ Reached(heap', kyuubi) = Reached(heap, kyuubi)
      /\ kyuubi # Nil => DocumentIn(heap', kyuubi) = DocumentIn(heap, kyuubi)
  <2>1. \A x \in Reached(h, kyuubi) : x \in DOMAIN heap' /\ heap'[x] = h[x]
    BY <1>2, RootsLive
  <2> QED BY <1>7, <2>1, SameObjectOrNil
<1>9. /\ WellFormed(heap', store')
      /\ DocumentIn(heap', store') = doc
      /\ Reached(heap', store') = Reached(h, new.out)
      /\ \A x \in Reached(heap', store') : x[1] = id
  <2>1. /\ WellFormed(h, new.out)
        /\ DocumentIn(h, new.out) = doc
        /\ \A x \in Reached(h, new.out) : x[1] = id
    BY <1>3, <1>4
  <2>2. \A x \in Reached(h, new.out) : x \in DOMAIN heap' /\ heap'[x] = h[x]
    BY <1>2, RootsLive
  <2>3. /\ WellFormed(heap', new.out)
        /\ DocumentIn(heap', new.out) = DocumentIn(h, new.out)
        /\ Reached(heap', new.out) = Reached(h, new.out)
    BY <2>1, <2>2, SameObject
  <2> QED BY <1>2, <2>1, <2>3
<1>10. \A x \in DOMAIN heap' : x \in Reached(heap', store') \/ x \in Reached(heap, kyuubi)
  BY <1>2, <1>7, <1>9, OnlyRootsLive
<1>11. \A x \in Reached(heap', store'), y \in Reached(heap', kyuubi') : x[1] # y[1]
  BY <1>1, <1>2, <1>6, <1>8, <1>9
<1>12. ThreeIds'
  <2>1. PICK a, b, c \in Ids :
            \A x \in Reached(heap, kyuubi) : x[1] = b \/ (pc = "sent" /\ x[1] = c)
    BY DEF IInv, ThreeIds
  <2>2. pc = "idle" => Reached(heap, kyuubi) = {}
    BY DEF IInv, Reached
  <2>3. /\ \A x \in Reached(heap', store') : x[1] = id
        /\ \A x \in Reached(heap', kyuubi') : x[1] = b \/ (pc' = "sent" /\ x[1] = c)
        /\ \A x \in DOMAIN heap' : x[1] \in {id, b, c}
        /\ pc' = "idle" => \A x \in DOMAIN heap' : x[1] = id
        /\ pc' # "sent" => \A x \in DOMAIN heap' : x[1] \in {id, b}
    BY <1>2, <1>8, <1>9, <1>10, <2>1, <2>2
  <2> QED BY <1>1, <2>3 DEF ThreeIds
<1>13. SpecAsFetched'
  BY <1>2, <1>8 DEF IInv, SpecAsFetched
<1> QED BY <1>2, <1>8, <1>9, <1>11, <1>12, <1>13 DEF IInv

\* A pass begins with a copy of its own.
LEMMA ReconcileKeepsMemory ==
    ASSUME IInv, Reconcile
    PROVE  IInv'
<1> DEFINE id == FreshId
           copy == KyuubiCluster(store, id)
<1>1. id \in Ids /\ \A x \in DOMAIN heap : x[1] # id
  BY FreshIdExists DEF IInv
<1>2. /\ pc = "idle" /\ store # Nil /\ kyuubi' = copy.out
      /\ heap' = Together({heap, copy.cells})
      /\ fetched' = received /\ pc' = "refs" /\ UNCHANGED <<store, received>>
  BY DEF Reconcile
<1>3. WellFormed(heap, store) /\ DocumentIn(heap, store) = received
  BY <1>2 DEF IInv
<1> HIDE DEF id
<1>4. /\ \A x \in DOMAIN copy.cells : x[1] = id
      /\ \A g : Holds(g, copy.cells) =>
           /\ WellFormed(g, copy.out)
           /\ DocumentIn(g, copy.out) = DocumentIn(heap, store)
           /\ \A x \in Reached(g, copy.out) : x[1] = id
  BY <1>1, <1>3, ClusterIsCopied
<1> HIDE DEF copy
<1>5. /\ DOMAIN heap' = DOMAIN heap \cup DOMAIN copy.cells
      /\ Holds(heap', copy.cells)
      /\ \A x \in DOMAIN heap : x \in DOMAIN heap' /\ heap'[x] = heap[x]
  <2>1. DOMAIN heap \cap DOMAIN copy.cells = {}
    BY <1>1, <1>4
  <2>2. Grown(Together({heap, copy.cells}), heap, copy.cells)
    BY <2>1, HeapGrows
  <2>3. Grown(heap', heap, copy.cells)
    BY <1>2, <2>2
  <2> QED BY <2>3 DEF Grown
<1>6. Reached(heap, store) \subseteq DOMAIN heap
  BY <1>3, ReachedIsUsed
<1>7. /\ WellFormed(heap', store)
      /\ Reached(heap', store) = Reached(heap, store)
      /\ DocumentIn(heap', store) = received
  BY <1>3, <1>5, <1>6, SameObject
<1>8. /\ WellFormed(heap', kyuubi')
      /\ DocumentIn(heap', kyuubi') = received
      /\ \A x \in Reached(heap', kyuubi') : x[1] = id
  BY <1>2, <1>3, <1>4, <1>5
<1>9. kyuubi' # Nil
  BY <1>8, NilAssumption DEF WellFormed
<1>10. \A x \in Reached(heap', store'), y \in Reached(heap', kyuubi') : x[1] # y[1]
  BY <1>1, <1>2, <1>6, <1>7, <1>8
<1>11. ThreeIds'
  <2>1. PICK a \in Ids : \A x \in DOMAIN heap : x[1] = a
    BY <1>2 DEF IInv, ThreeIds
  <2>2. /\ \A x \in Reached(heap', store') : x[1] = a
        /\ \A x \in Reached(heap', kyuubi') : x[1] = id
        /\ \A x \in DOMAIN heap' : x[1] \in {a, id}
    BY <1>2, <1>4, <1>5, <1>6, <1>7, <1>8, <2>1
  <2> QED BY <1>1, <1>2, <2>2 DEF ThreeIds
<1>12. SpecAsFetched'
  BY <1>2, <1>8 DEF SpecAsFetched
<1> QED BY <1>2, <1>7, <1>8, <1>9, <1>10, <1>11, <1>12 DEF IInv

\* The pass writes the status of its own object.
LEMMA StatusKeepsMemory ==
    ASSUME IInv, NEW infos \in Infos, updateKyuubiClusterStatus(infos)
    PROVE  IInv'
<1>1. /\ pc = "status" /\ pc' = "sent" /\ UNCHANGED <<store, received, fetched>>
      /\ kyuubi # Nil
  BY DEF updateKyuubiClusterStatus, IInv
<1>2. CASE UNCHANGED <<heap, kyuubi>>
  <2>1. ThreeIds'
    BY <1>1, <1>2 DEF IInv, ThreeIds
  <2> QED BY <1>1, <1>2, <2>1 DEF IInv, SpecAsFetched
<1>3. CASE ~UNCHANGED <<heap, kyuubi>>
  <2> DEFINE id == FreshId
             a == <<id, 0, "exposedInfos">>
             new == [kyuubi EXCEPT !.status.exposedInfos = a]
             h == Together({heap, Cell(a, infos)})
  <2>1. kyuubi' = new /\ heap' = Live(h, {store, new})
    BY <1>3 DEF updateKyuubiClusterStatus
  <2>2. id \in Ids /\ \A x \in DOMAIN heap : x[1] # id
    BY FreshIdExists DEF IInv
  <2> HIDE DEF id
  <2>3. a \in Addresses /\ a[1] = id
    BY <2>2 DEF Addresses, Fields
  <2>4. DOMAIN Cell(a, infos) = {a}
    BY DEF Cell
  <2> HIDE DEF a
  <2>5. /\ DOMAIN h = DOMAIN heap \cup {a}
        /\ \A x \in DOMAIN heap : x \in DOMAIN h /\ h[x] = heap[x]
    <3>1. DOMAIN heap \cap DOMAIN Cell(a, infos) = {}
      BY <2>2, <2>3, <2>4
    <3>2. Grown(h, heap, Cell(a, infos))
      BY <3>1, HeapGrows
    <3> HIDE DEF h
    <3> QED BY <2>4, <3>2 DEF Grown
  <2> HIDE DEF h
  <2>6. /\ WellFormed(heap, kyuubi) /\ Reached(heap, kyuubi) \subseteq DOMAIN heap
        /\ store # Nil => WellFormed(heap, store)
        /\ Reached(heap, store) \subseteq DOMAIN heap
    BY <1>1, ReachedIsUsed DEF IInv
  <2>7. /\ WellFormed(h, kyuubi)
        /\ Reached(h, kyuubi) = Reached(heap, kyuubi)
        /\ DocumentIn(h, kyuubi) = DocumentIn(heap, kyuubi)
    BY <2>5, <2>6, SameObject
  <2>8. /\ WellFormed(h, new)
        /\ DocumentIn(h, new).spec = DocumentIn(heap, kyuubi).spec
        /\ Reached(h, new) \subseteq Reached(heap, kyuubi) \cup {a}
    BY <2>3, <2>5, <2>7, StatusIsReplaced
  <2> HIDE DEF new
  <2>9. /\ WellFormed(heap', new)
        /\ Reached(heap', new) = Reached(h, new)
        /\ DocumentIn(heap', new) = DocumentIn(h, new)
    <3>1. \A x \in Reached(h, new) : x \in DOMAIN heap' /\ heap'[x] = h[x]
      BY <2>1, RootsLive
    <3> QED BY <2>8, <3>1, SameObject
  <2>10. /\ store # Nil => WellFormed(h, store)
         /\ Reached(h, store) = Reached(heap, store)
         /\ store # Nil => DocumentIn(h, store) = DocumentIn(heap, store)
    BY <2>5, <2>6, SameObjectOrNil
  <2>11. /\ store # Nil => WellFormed(heap', store)
         /\ Reached(heap', store) = Reached(heap, store)
         /\ store # Nil => DocumentIn(heap', store) = DocumentIn(heap, store)
    <3>1. \A x \in Reached(h, store) : x \in DOMAIN heap' /\ heap'[x] = h[x]
      BY <2>1, RootsLive
    <3> QED BY <2>10, <3>1, SameObjectOrNil
  <2>12. \A x \in Reached(heap', store'), y \in Reached(heap', kyuubi') : x[1] # y[1]
    <3>1. \A x \in Reached(heap, store), y \in Reached(heap, kyuubi) : x[1] # y[1]
      BY DEF IInv
    <3> QED BY <1>1, <2>1, <2>2, <2>3, <2>6, <2>8, <2>9, <2>11, <3>1
  <2>13. \A x \in DOMAIN heap' : x \in Reached(heap, store) \/ x \in Reached(h, new)
    BY <2>1, <2>10, OnlyRootsLive
  <2>14. ThreeIds'
    <3>1. PICK r, s \in Ids : /\ \A x \in Reached(heap, store) : x[1] = r
                              /\ \A x \in Reached(heap, kyuubi) : x[1] = s
      BY <1>1 DEF IInv, ThreeIds
    <3>2. /\ \A x \in Reached(heap', store') : x[1] = r
          /\ \A x \in Reached(heap', kyuubi') : x[1] = s \/ x[1] = id
          /\ \A x \in DOMAIN heap' : x[1] \in {r, s, id}
      BY <1>1, <2>1, <2>3, <2>8, <2>9, <2>11, <2>13, <3>1
    <3> QED BY <1>1, <2>2, <3>2 DEF ThreeIds
  <2>15. new # Nil
    BY <2>8, NilAssumption DEF WellFormed
  <2>16. SpecAsFetched'
    BY <1>1, <2>1, <2>8, <2>9 DEF IInv, SpecAsFetched
  <2>17. store' # Nil => DocumentIn(heap', store') = received'
    BY <1>1, <2>11 DEF IInv
  <2> QED BY <1>1, <2>1, <2>9, <2>11, <2>12, <2>14, <2>15, <2>16, <2>17 DEF IInv
<1> QED BY <1>2, <1>3

\* The pass ends and gives its memory back.
LEMMA ReturnKeepsMemory ==
    ASSUME IInv, Return
    PROVE  IInv'
<1>1. /\ pc' = "idle" /\ kyuubi' = Nil /\ heap' = Live(heap, {store})
      /\ UNCHANGED <<store, received>>
  BY DEF Return
<1>2. /\ store # Nil => WellFormed(heap', store)
      /\ Reached(heap', store) = Reached(heap, store)
      /\ store # Nil => DocumentIn(heap', store) = DocumentIn(heap, store)
  <2>1. \A x \in Reached(heap, store) : x \in DOMAIN heap' /\ heap'[x] = heap[x]
    BY <1>1, RootsLive
  <2> QED BY <2>1, SameObjectOrNil DEF IInv
<1>3. Reached(heap', kyuubi') = {}
  BY <1>1 DEF Reached
<1>4. \A x \in DOMAIN heap' : x \in Reached(heap, store)
  BY <1>1, OnlyRootsLive
<1>5. ThreeIds'
  <2>1. PICK a \in Ids : \A x \in Reached(heap, store) : x[1] = a
    BY DEF IInv, ThreeIds
  <2>2. /\ \A x \in Reached(heap', store') : x[1] = a
        /\ \A x \in Reached(heap', kyuubi') : x[1] = a
        /\ \A x \in DOMAIN heap' : x[1] = a
    BY <1>1, <1>2, <1>3, <1>4, <2>1
  <2> QED BY <1>1, <2>1, <2>2 DEF ThreeIds
<1> QED BY <1>1, <1>2, <1>3, <1>5 DEF IInv, SpecAsFetched

\* The invariant is kept by every step.
LEMMA MemoryInvariance ==
    Spec => []IInv
<1>1. ASSUME IInv, [Next]_vars
      PROVE  IInv'
  <2>1. CASE \E doc \in Documents : InformerReceives(doc)
    BY <1>1, <2>1, ReceiveKeepsMemory
  <2>2. CASE Reconcile
    BY <1>1, <2>2, ReconcileKeepsMemory
  <2>3. CASE desiredClusterRefsConfigMap
    <3>1. pc = "refs" /\ pc' = "status" /\ UNCHANGED <<heap, store, received, kyuubi, fetched>>
      BY <2>3 DEF desiredClusterRefsConfigMap
    <3>2. ThreeIds'
      BY <1>1, <3>1 DEF IInv, ThreeIds
    <3> QED BY <1>1, <3>1, <3>2 DEF IInv, SpecAsFetched
  <2>4. CASE \E infos \in Infos : updateKyuubiClusterStatus(infos)
    BY <1>1, <2>4, StatusKeepsMemory
  <2>5. CASE Return
    BY <1>1, <2>5, ReturnKeepsMemory
  <2>6. CASE UNCHANGED vars
    <3>1. ThreeIds'
      BY <1>1, <2>6 DEF IInv, ThreeIds, vars
    <3> QED BY <1>1, <2>6, <3>1 DEF IInv, SpecAsFetched, vars
  <2> QED BY <1>1, <2>1, <2>2, <2>3, <2>4, <2>5, <2>6 DEF Next
<1> QED BY <1>1, InitMemory, PTL DEF Spec

\* For every set of documents, a pass and the informer's object share no map and
\* no slice at any time: the generated DeepCopyInto functions reach all of them.
THEOREM CopiesShareNothing == Spec => []NoSharing
<1>1. IInv => NoSharing
  BY DEF IInv, NoSharing
<1> QED BY <1>1, MemoryInvariance, PTL

\* For every set of documents, a pass sees from the Get to the end the spec that
\* the informer had at the Get, and until it writes it the status.
THEOREM PassSeesWhatItFetched == Spec => []SpecAsFetched
<1>1. IInv => SpecAsFetched
  BY DEF IInv
<1> QED BY <1>1, MemoryInvariance, PTL
=============================================================================
