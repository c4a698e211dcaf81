------------------------- MODULE SharedWorkerProofs -------------------------
(***************************************************************************)
(* QueueInv holds for any set of names, any names that always fail and any *)
(* number of changes: no request is lost or doubled and no change of a     *)
(* KyuubiCluster is forgotten, whatever the passes of other names do.      *)
(***************************************************************************)
EXTENDS SharedWorker, TLAPS

\* The names in a queue, and that none is there twice.
Line(q) == {q[i] : i \in 1..Len(q)}
Once(q) == \A i, j \in 1..Len(q) : q[i] = q[j] => i = j

-----------------------------------------------------------------------------
\* A name that joins at the end.
LEMMA AppendLine ==
    ASSUME NEW S, NEW q \in Seq(S), NEW e \in S
    PROVE  /\ Append(q, e) \in Seq(S)
           /\ Line(Append(q, e)) = Line(q) \cup {e}
           /\ Once(q) /\ e \notin Line(q) => Once(Append(q, e))
<1> DEFINE p == Append(q, e)
<1>1. /\ p \in Seq(S) /\ Len(q) \in Nat /\ Len(p) = Len(q) + 1
      /\ \A i \in 1..Len(q) : p[i] = q[i]
      /\ p[Len(q) + 1] = e
  OBVIOUS
<1> HIDE DEF p
<1>2. 1..Len(p) = 1..Len(q) \cup {Len(q) + 1}
  BY <1>1
<1>3. Line(p) = Line(q) \cup {e}
  BY <1>1, <1>2 DEF Line
<1>4. ASSUME Once(q), e \notin Line(q) PROVE Once(p)
  <2> SUFFICES ASSUME NEW i \in 1..Len(p), NEW j \in 1..Len(p), p[i] = p[j]
               PROVE  i = j
    BY DEF Once
  <2>1. \A k \in 1..Len(q) : q[k] # e
    BY <1>4 DEF Line
  <2>2. CASE i \in 1..Len(q) /\ j \in 1..Len(q)
    BY <1>1, <1>4, <2>2 DEF Once
  <2>3. CASE i = Len(q) + 1 \/ j = Len(q) + 1
    BY <1>1, <1>2, <2>1, <2>3
  <2> QED BY <1>2, <2>2, <2>3
<1> QED BY <1>1, <1>3, <1>4 DEF p

\* The first name leaves.
LEMMA TailLine ==
    ASSUME NEW S, NEW q \in Seq(S), q # <<>>, Once(q)
    PROVE  /\ Head(q) \in S /\ Head(q) \in Line(q)
           /\ Tail(q) \in Seq(S)
           /\ Line(Tail(q)) = Line(q) \ {Head(q)}
           /\ Once(Tail(q))
<1> DEFINE p == Tail(q)
<1>1. /\ p \in Seq(S) /\ Len(q) \in Nat \ {0} /\ Len(p) = Len(q) - 1
      /\ \A i \in 1..Len(p) : p[i] = q[i + 1]
      /\ Head(q) = q[1] /\ q[1] \in S
  OBVIOUS
<1> HIDE DEF p
<1>2. /\ 1 \in 1..Len(q)
      /\ \A i \in 1..Len(p) : i + 1 \in 1..Len(q) /\ i + 1 # 1
      /\ \A i \in 1..Len(q) \ {1} : i - 1 \in 1..Len(p) /\ (i - 1) + 1 = i
  BY <1>1
<1>3. Head(q) \in Line(q)
  BY <1>1, <1>2 DEF Line
<1>4. Line(p) = Line(q) \ {Head(q)}
  <2>1. Line(p) \subseteq Line(q) \ {Head(q)}
    BY <1>1, <1>2 DEF Line, Once
  <2>2. ASSUME NEW e \in Line(q), e # Head(q) PROVE e \in Line(p)
    <3>1. PICK i \in 1..Len(q) : q[i] = e
      BY DEF Line
    <3>2. i - 1 \in 1..Len(p) /\ p[i - 1] = e
      BY <1>1, <1>2, <2>2, <3>1
    <3> QED BY <3>2 DEF Line
  <2> QED BY <2>1, <2>2
<1>5. Once(p)
  BY <1>1, <1>2 DEF Once
<1> QED BY <1>1, <1>3, <1>4, <1>5 DEF p

\* QueueOK in these terms.
LEMMA QueueFacts ==
    /\ QueueOK <=> Line(queue) = dirty \ {processing} /\ Once(queue)
    /\ QueueOK' <=> Line(queue') = dirty' \ {processing'} /\ Once(queue')
  BY DEF QueueOK, InLine, Line, Once

\* A name is added, while a pass for it is running or not.
LEMMA AddStep ==
    ASSUME TypeOK, QueueOK, NEW n \in Names, Add(n), processing' = processing
    PROVE  QueueOK' /\ queue' \in Seq(Names) /\ dirty' = dirty \cup {n}
<1>1. queue \in Seq(Names) /\ Line(queue) = dirty \ {processing} /\ Once(queue)
  BY QueueFacts DEF TypeOK
<1>2. CASE n \in dirty \/ n = processing
  BY <1>1, <1>2, QueueFacts DEF Add
<1>3. CASE n \notin dirty /\ n # processing
  <2>1. queue' = Append(queue, n) /\ dirty' = dirty \cup {n} /\ n \notin Line(queue)
    BY <1>1, <1>3 DEF Add
  <2>2. /\ queue' \in Seq(Names) /\ Once(queue')
        /\ Line(queue') = Line(queue) \cup {n}
    BY <1>1, <2>1, AppendLine
  <2> QED BY <1>1, <1>3, <2>1, <2>2, QueueFacts
<1> QED BY <1>2, <1>3

\* A pass ends; its name goes back in line if it has become dirty.
LEMMA DoneStep ==
    ASSUME TypeOK, QueueOK, processing \in Names, Done
    PROVE  /\ QueueOK' /\ queue' \in Seq(Names)
           /\ dirty' = dirty /\ processing' = Nil
<1>1. /\ queue \in Seq(Names) /\ Line(queue) = dirty \ {processing}
      /\ Once(queue) /\ dirty \subseteq Names /\ dirty' = dirty
      /\ processing' = Nil /\ Nil \notin Names
  BY QueueFacts, NamesAssumption DEF TypeOK, Done
<1>2. CASE processing \in dirty
  <2>1. queue' = Append(queue, processing) /\ processing \notin Line(queue)
    BY <1>1, <1>2 DEF Done
  <2>2. /\ queue' \in Seq(Names) /\ Once(queue')
        /\ Line(queue') = Line(queue) \cup {processing}
    BY <1>1, <2>1, AppendLine
  <2>3. Line(queue') = dirty' \ {processing'}
    BY <1>1, <1>2, <2>2
  <2> QED BY <1>1, <2>2, <2>3, QueueFacts
<1>3. CASE processing \notin dirty
  <2>1. queue' = queue
    BY <1>3 DEF Done
  <2> QED BY <1>1, <1>3, <2>1, QueueFacts
<1> QED BY <1>2, <1>3

\* The worker takes the first name in line.
LEMMA GetStep ==
    ASSUME TypeOK, QueueOK, processing = Nil, NEW n, Get(n),
           processing' \in {n, Nil}
    PROVE  /\ QueueOK' /\ queue' \in Seq(Names) /\ n \in Names
           /\ dirty' = dirty \ {n}
<1>1. /\ queue \in Seq(Names) /\ Line(queue) = dirty \ {processing}
      /\ Once(queue) /\ dirty \subseteq Names /\ Nil \notin Names
      /\ queue # <<>> /\ n = Head(queue) /\ queue' = Tail(queue)
      /\ dirty' = dirty \ {n}
  BY QueueFacts, NamesAssumption DEF TypeOK, Get
<1>2. /\ n \in Names /\ queue' \in Seq(Names) /\ Once(queue')
      /\ Line(queue') = Line(queue) \ {n}
  BY <1>1, TailLine
<1>3. Line(queue') = dirty' \ {processing'}
  BY <1>1, <1>2
<1> QED BY <1>1, <1>2, <1>3, QueueFacts

-----------------------------------------------------------------------------
\* The user's actions, and those of the collector and of the ConfigMaps'
\* informer, leave the queue, the pass and what the informer knows alone.
LEMMA OutsideStep ==
    ASSUME QueueInv, TypeOK', UNCHANGED <<cached, queueVars, passVars, served>>
    PROVE  QueueInv'
  BY DEF QueueInv, QueueOK, InLine, PassIsCurrent, NothingForgotten, queueVars,
     passVars

\* The user creates, edits or deletes the KyuubiCluster of a name.
LEMMA UserStep ==
    ASSUME QueueInv, NEW n \in Names,
           UserCreates(n) \/ UserEdits(n) \/ UserDeletes(n)
    PROVE  QueueInv'
<1>1. /\ changes[n] \in 0..MaxChanges /\ MaxChanges \in Nat
      /\ cluster[n] \in Cluster \cup {Nil}
  BY ChangesAssumption DEF QueueInv, TypeOK
<1>2. PICK v \in Cluster \cup {Nil} : UserActs(n, v)
  <2>1. ASSUME changes[n] < MaxChanges PROVE changes[n] + 1 \in 1..MaxChanges
    BY <1>1, <2>1
  <2>2. CASE UserCreates(n)
    <3>1. [uid |-> changes[n] + 1, version |-> changes[n] + 1] \in Cluster
      BY <2>1, <2>2 DEF UserCreates, UserActs, Cluster
    <3> QED BY <2>2, <3>1 DEF UserCreates
  <2>3. CASE UserEdits(n)
    <3>1. cluster[n] \in Cluster
      BY <1>1, <2>3 DEF UserEdits
    <3>2. [cluster[n] EXCEPT !.version = changes[n] + 1] \in Cluster
      BY <2>1, <2>3, <3>1 DEF UserEdits, UserActs, Cluster
    <3> QED BY <2>3, <3>2 DEF UserEdits
  <2>4. CASE UserDeletes(n)
    BY <2>4 DEF UserDeletes
  <2> QED BY <2>2, <2>3, <2>4
<1>3. /\ changes' \in [Names -> 0..MaxChanges]
      /\ cluster' \in [Names -> Cluster \cup {Nil}]
  BY <1>1, <1>2 DEF UserActs, QueueInv, TypeOK
<1>4. TypeOK'
  BY <1>2, <1>3 DEF UserActs, QueueInv, TypeOK, storeVars, queueVars, passVars
<1> QED BY <1>2, <1>4, OutsideStep DEF UserActs, storeVars

\* A ConfigMap is collected, or the informer learns of it.
LEMMA CollectStep ==
    ASSUME QueueInv, NEW n \in Names, GarbageCollect(n) \/ DeliverConfigMap(n)
    PROVE  QueueInv'
<1>1. /\ cm' \in [Names -> 1..MaxChanges \cup {Nil}]
      /\ cmSeen' \in [Names -> BOOLEAN]
  BY DEF QueueInv, TypeOK, GarbageCollect, DeliverConfigMap
<1>2. UNCHANGED <<userVars, cached, queueVars, passVars, served>>
  BY DEF GarbageCollect, DeliverConfigMap
<1>3. TypeOK'
  BY <1>1, <1>2 DEF QueueInv, TypeOK, userVars, queueVars, passVars
<1> QED BY <1>2, <1>3, OutsideStep

\* News of a KyuubiCluster: its name is dirty afterwards, so neither the running
\* pass nor what was served need agree with it.
LEMMA DeliverStep ==
    ASSUME QueueInv, NEW n \in Names, DeliverEvent(n)
    PROVE  QueueInv'
<1>1. /\ UNCHANGED <<userVars, cm, cmSeen, processing, delayed, passVars, served>>
      /\ Add(n) /\ cached' = [cached EXCEPT ![n] = cluster[n]]
  BY DEF DeliverEvent
<1>2. /\ QueueOK' /\ queue' \in Seq(Names) /\ dirty' = dirty \cup {n}
  BY <1>1, AddStep DEF QueueInv
<1>3. TypeOK'
  BY <1>1, <1>2 DEF QueueInv, TypeOK, userVars, passVars
<1>4. \A m \in Names \ {n} : cached'[m] = cached[m]
  BY <1>1 DEF QueueInv, TypeOK
<1>5. PassIsCurrent' /\ NothingForgotten'
  BY <1>1, <1>2, <1>4 DEF QueueInv, TypeOK, PassIsCurrent, NothingForgotten,
     passVars
<1> QED BY <1>2, <1>3, <1>5 DEF QueueInv

\* A retry falls due and joins the queue unless the name is in it.
LEMMA RetryStep ==
    ASSUME QueueInv, NEW n \in Names, RetryExpires(n)
    PROVE  QueueInv'
<1>1. /\ UNCHANGED <<userVars, storeVars, processing, passVars, served>>
      /\ Add(n) /\ delayed' = delayed \ {n}
  BY DEF RetryExpires
<1>2. /\ QueueOK' /\ queue' \in Seq(Names) /\ dirty' = dirty \cup {n}
  BY <1>1, AddStep DEF QueueInv
<1>3. TypeOK'
  BY <1>1, <1>2 DEF QueueInv, TypeOK, userVars, storeVars, passVars
<1>4. PassIsCurrent' /\ NothingForgotten'
  BY <1>1, <1>2 DEF QueueInv, TypeOK, PassIsCurrent, NothingForgotten,
     passVars, storeVars
<1> QED BY <1>2, <1>3, <1>4 DEF QueueInv

-----------------------------------------------------------------------------
\* A pass begins with the KyuubiCluster the informer has, or its name is due
\* again.
LEMMA ReconcileStep ==
    ASSUME QueueInv, Reconcile
    PROVE  QueueInv'
<1>1. PICK n \in Names :
        /\ Get(n)
        /\ \/ /\ cached[n] = Nil
              /\ delayed' = delayed \cup {n}
              /\ UNCHANGED <<processing, passVars>>
           \/ /\ cached[n] # Nil
              /\ processing' = n
              /\ pc' = "configMap"
              /\ kyuubi' = cached[n]
              /\ UNCHANGED delayed
  BY DEF Reconcile
<1>2. /\ pc = "idle" /\ processing = Nil /\ Nil \notin Names
      /\ UNCHANGED <<userVars, storeVars, served>>
  BY NamesAssumption DEF Reconcile, QueueInv, PassIsCurrent
<1>3. /\ QueueOK' /\ queue' \in Seq(Names) /\ dirty' = dirty \ {n}
  BY <1>1, <1>2, GetStep DEF QueueInv
<1>4. TypeOK'
  BY <1>1, <1>2, <1>3 DEF QueueInv, TypeOK, userVars, storeVars, passVars
<1>5. PassIsCurrent' /\ NothingForgotten'
  BY <1>1, <1>2, <1>3 DEF QueueInv, TypeOK, PassIsCurrent, NothingForgotten,
     passVars, storeVars
<1> QED BY <1>3, <1>4, <1>5 DEF QueueInv

\* A pass that fails is due again.
LEMMA ErrorStep ==
    ASSUME QueueInv, processing \in Names, ReturnError,
           UNCHANGED <<userVars, storeVars>>
    PROVE  QueueInv'
<1>1. /\ Done /\ pc' = "idle" /\ kyuubi' = Nil /\ served' = served
      /\ delayed' = delayed \cup {processing}
  BY DEF ReturnError, Leave
<1>2. /\ QueueOK' /\ queue' \in Seq(Names) /\ dirty' = dirty
      /\ processing' = Nil
  BY <1>1, DoneStep DEF QueueInv
<1>3. TypeOK'
  BY <1>1, <1>2 DEF QueueInv, TypeOK, userVars, storeVars
<1>4. PassIsCurrent' /\ NothingForgotten'
  BY <1>1, <1>2 DEF QueueInv, TypeOK, PassIsCurrent, NothingForgotten, storeVars
<1> QED BY <1>2, <1>3, <1>4 DEF QueueInv

\* A pass that goes on does not touch the queue.
LEMMA GoOnStep ==
    ASSUME QueueInv, pc # "idle", NEW next \in {"wait", "rest"}, GoOn(next),
           cm' \in [Names -> 1..MaxChanges \cup {Nil}],
           UNCHANGED <<userVars, cached, cmSeen>>
    PROVE  QueueInv'
<1>1. UNCHANGED <<queueVars, kyuubi, served>> /\ pc' = next
  BY DEF GoOn
<1>2. TypeOK'
  BY <1>1 DEF QueueInv, TypeOK, userVars, queueVars
<1>3. QueueOK' /\ PassIsCurrent' /\ NothingForgotten'
  BY <1>1 DEF QueueInv, QueueOK, InLine, PassIsCurrent, NothingForgotten,
     queueVars
<1> QED BY <1>2, <1>3 DEF QueueInv

\* The ConfigMap is found, created or waited for, in the middle of a pass.
LEMMA ConfigMapStep ==
    ASSUME QueueInv, createOrUpdateKyuubiConfigmap \/ waitForKyuubiConfigmap
    PROVE  QueueInv'
<1>1. /\ pc # "idle" /\ processing \in Names /\ kyuubi \in Cluster
      /\ cm \in [Names -> 1..MaxChanges \cup {Nil}]
  BY DEF createOrUpdateKyuubiConfigmap, waitForKyuubiConfigmap, QueueInv, TypeOK,
     PassIsCurrent
<1>2. kyuubi.uid \in 1..MaxChanges
  BY <1>1 DEF Cluster
<1>3. CASE createOrUpdateKyuubiConfigmap
  <2>1. CASE ReturnError /\ UNCHANGED cm
    BY <1>1, <1>3, <2>1, ErrorStep DEF createOrUpdateKyuubiConfigmap, storeVars
  <2>2. CASE GoOn("rest") /\ UNCHANGED cm
    BY <1>1, <1>3, <2>2, GoOnStep DEF createOrUpdateKyuubiConfigmap
  <2>3. CASE GoOn("wait") /\ cm' = [cm EXCEPT ![processing] = kyuubi.uid]
    <3>1. cm' \in [Names -> 1..MaxChanges \cup {Nil}]
      BY <1>1, <1>2, <2>3
    <3> QED BY <1>1, <1>3, <2>3, <3>1, GoOnStep DEF createOrUpdateKyuubiConfigmap
  <2> QED BY <1>3, <2>1, <2>2, <2>3 DEF createOrUpdateKyuubiConfigmap
<1>4. CASE waitForKyuubiConfigmap
  BY <1>1, <1>4, GoOnStep DEF waitForKyuubiConfigmap, storeVars
<1> QED BY <1>3, <1>4

\* A pass that succeeds has served the KyuubiCluster the informer has, or its
\* name is dirty.
LEMMA EndStep ==
    ASSUME QueueInv, createOrUpdateClusters
    PROVE  QueueInv'
<1>1. /\ processing \in Names /\ kyuubi \in Cluster
      /\ UNCHANGED <<userVars, storeVars>>
  BY DEF createOrUpdateClusters, QueueInv, TypeOK, PassIsCurrent
<1>2. CASE ReturnError
  BY <1>1, <1>2, ErrorStep
<1>3. CASE /\ Leave
           /\ served' = [served EXCEPT ![processing] = kyuubi]
           /\ UNCHANGED delayed
  <2>1. Done /\ pc' = "idle" /\ kyuubi' = Nil
    BY <1>3 DEF Leave
  <2>2. /\ QueueOK' /\ queue' \in Seq(Names) /\ dirty' = dirty
        /\ processing' = Nil
    BY <1>1, <2>1, DoneStep DEF QueueInv
  <2>3. /\ served' \in [Names -> Cluster \cup {Nil}]
        /\ served'[processing] = kyuubi
        /\ \A m \in Names \ {processing} : served'[m] = served[m]
    BY <1>1, <1>3 DEF QueueInv, TypeOK
  <2>4. TypeOK'
    BY <1>1, <1>3, <2>1, <2>2, <2>3 DEF QueueInv, TypeOK, userVars, storeVars
  <2>5. PassIsCurrent' /\ NothingForgotten'
    BY <1>1, <1>3, <2>1, <2>2, <2>3 DEF QueueInv, TypeOK, PassIsCurrent,
       NothingForgotten, storeVars
  <2> QED BY <2>2, <2>4, <2>5 DEF QueueInv
<1> QED BY <1>2, <1>3 DEF createOrUpdateClusters

\* QueueInv is inductive.
LEMMA QueueInvStep ==
    ASSUME QueueInv, [Next]_vars
    PROVE  QueueInv'
<1>1. CASE Worker
  BY <1>1, ReconcileStep, ConfigMapStep, EndStep DEF Worker
<1>2. ASSUME NEW n \in Names, Environment(n) PROVE QueueInv'
  BY <1>2, UserStep, CollectStep, DeliverStep, RetryStep DEF Environment
<1>3. CASE UNCHANGED vars
  <2>1. TypeOK'
    BY <1>3 DEF vars, userVars, storeVars, queueVars, passVars, QueueInv, TypeOK
  <2> QED BY <1>3, <2>1, OutsideStep DEF vars, storeVars
<1> QED BY <1>1, <1>2, <1>3 DEF Next

\* The queue is empty at first and nothing has been asked for.
LEMMA QueueInvInit ==
    ASSUME Init
    PROVE  QueueInv
<1>1. TypeOK
  BY ChangesAssumption DEF Init, TypeOK
<1>2. QueueOK /\ PassIsCurrent /\ NothingForgotten
  BY NamesAssumption DEF Init, QueueOK, InLine, PassIsCurrent, NothingForgotten
<1> QED BY <1>1, <1>2 DEF QueueInv

\* The shared queue holds every dirty name once, a pass works on what the
\* informer has or is followed by another, and no change of any KyuubiCluster is
\* forgotten, for any number of names (Reconcile and controller-runtime's queue).
THEOREM QueueInvariance == Spec => []QueueInv
<1>1. Init => QueueInv
  BY QueueInvInit
<1>2. QueueInv /\ [Next]_vars => QueueInv'
  BY QueueInvStep
<1> QED BY <1>1, <1>2, PTL DEF Spec

-----------------------------------------------------------------------------
\* What a step does to the box of name n.
BoxStep(n) == Box(n)!Next \/ UNCHANGED Box(n)!vars

\* A step that leaves alone what name n has in the queue.
LEMMA OtherNameStep ==
    ASSUME NEW n \in Names, cached'[n] = cached[n],
           n \in dirty' <=> n \in dirty, n \in delayed' <=> n \in delayed,
           n = processing' <=> n = processing
    PROVE  BoxStep(n)
  BY DEF BoxStep, Box!vars

\* An event of the KyuubiCluster is a step of the box of its name.
LEMMA LearnBox ==
    ASSUME NEW n \in Names, QueueInv, NEW m \in Names, DeliverEvent(m)
    PROVE  BoxStep(n)
<1>1. /\ cached' = [cached EXCEPT ![m] = cluster[m]] /\ cached[m] # cluster[m]
      /\ dirty' = dirty \cup {m} /\ processing' = processing
      /\ delayed' = delayed /\ cached \in [Names -> Cluster \cup {Nil}]
  BY DEF DeliverEvent, Add, QueueInv, TypeOK
<1>2. CASE m = n
  <2>1. Box(n)!Learn
    BY <1>1, <1>2 DEF Box!Learn
  <2> QED BY <2>1 DEF BoxStep, Box!Next
<1>3. CASE m # n
  BY <1>1, <1>3, OtherNameStep
<1> QED BY <1>2, <1>3

\* A retry that falls due is a step of the box of its name.
LEMMA RetryBox ==
    ASSUME NEW n \in Names, NEW m \in Names, RetryExpires(m)
    PROVE  BoxStep(n)
<1>1. /\ cached' = cached /\ dirty' = dirty \cup {m} /\ m \in delayed
      /\ processing' = processing /\ delayed' = delayed \ {m}
  BY DEF RetryExpires, Add, storeVars
<1>2. CASE m = n
  <2>1. Box(n)!RetryExpires
    BY <1>1, <1>2 DEF Box!RetryExpires
  <2> QED BY <2>1 DEF BoxStep, Box!Next
<1>3. CASE m # n
  BY <1>1, <1>3, OtherNameStep
<1> QED BY <1>2, <1>3

\* The worker starts a pass, or finds nothing to work on.
LEMMA BeginBox ==
    ASSUME NEW n \in Names, QueueInv, Reconcile
    PROVE  BoxStep(n)
<1>1. PICK m \in Names :
        /\ Get(m)
        /\ \/ /\ cached[m] = Nil
              /\ delayed' = delayed \cup {m}
              /\ processing' = processing
           \/ /\ cached[m] # Nil
              /\ processing' = m
              /\ delayed' = delayed
  BY DEF Reconcile
<1>2. /\ processing = Nil /\ Nil \notin Names /\ cached' = cached
      /\ queue \in Seq(Names) /\ Line(queue) = dirty \ {processing} /\ Once(queue)
  BY NamesAssumption, QueueFacts DEF Reconcile, QueueInv, TypeOK, PassIsCurrent,
     storeVars
<1>3. m \in dirty /\ dirty' = dirty \ {m}
  <2>1. queue # <<>> /\ m = Head(queue) /\ dirty' = dirty \ {m}
    BY <1>1 DEF Get
  <2>2. m \in Line(queue)
    BY <1>2, <2>1, TailLine
  <2> QED BY <1>2, <2>1, <2>2
<1>4. CASE m = n /\ cached[m] = Nil
  <2>1. n \in delayed' /\ processing' = processing
    BY <1>1, <1>4
  <2>2. Box(n)!BeginInVain
    BY <1>2, <1>3, <1>4, <2>1 DEF Box!BeginInVain
  <2> QED BY <2>2 DEF BoxStep, Box!Next
<1>5. CASE m = n /\ cached[m] # Nil
  <2>1. processing' = n /\ delayed' = delayed
    BY <1>1, <1>5
  <2>2. Box(n)!Begin
    BY <1>2, <1>3, <1>5, <2>1 DEF Box!Begin
  <2> QED BY <2>2 DEF BoxStep, Box!Next
<1>6. CASE m # n
  BY <1>1, <1>2, <1>3, <1>6, OtherNameStep
<1> QED BY <1>4, <1>5, <1>6

\* A pass ends, well or not.
LEMMA EndBox ==
    ASSUME NEW n \in Names, QueueInv, pc # "idle", Leave, cached' = cached,
           delayed' = delayed \/ delayed' = delayed \cup {processing}
    PROVE  BoxStep(n)
<1>1. /\ processing \in Names /\ Nil \notin Names
      /\ processing' = Nil /\ dirty' = dirty
  BY NamesAssumption DEF QueueInv, TypeOK, PassIsCurrent, Leave, Done
<1>2. CASE n = processing /\ delayed' = delayed
  <2>1. Box(n)!Succeed
    BY <1>1, <1>2 DEF Box!Succeed
  <2> QED BY <2>1 DEF BoxStep, Box!Next
<1>3. CASE n = processing /\ delayed' = delayed \cup {processing}
  <2>1. Box(n)!Fail
    BY <1>1, <1>3 DEF Box!Fail
  <2> QED BY <2>1 DEF BoxStep, Box!Next
<1>4. CASE n # processing
  BY <1>1, <1>4, OtherNameStep
<1> QED BY <1>2, <1>3, <1>4

\* Every step of the shared worker is a step of every box, or leaves it alone.
LEMMA BoxesStep ==
    ASSUME QueueInv, [Next]_vars, NEW n \in Names
    PROVE  BoxStep(n)
<1>1. CASE Reconcile
  BY <1>1, BeginBox
<1>2. CASE createOrUpdateKyuubiConfigmap \/ waitForKyuubiConfigmap
           \/ createOrUpdateClusters
  <2>1. pc # "idle" /\ cached' = cached
    BY <1>2 DEF createOrUpdateKyuubiConfigmap, waitForKyuubiConfigmap,
       createOrUpdateClusters, storeVars
  <2>2. ASSUME NEW next, GoOn(next) PROVE BoxStep(n)
    BY <2>1, <2>2, OtherNameStep DEF GoOn, queueVars
  <2>3. CASE Leave /\ (delayed' = delayed \/ delayed' = delayed \cup {processing})
    BY <2>1, <2>3, EndBox
  <2> QED BY <1>2, <2>2, <2>3 DEF createOrUpdateKyuubiConfigmap,
       waitForKyuubiConfigmap, createOrUpdateClusters, ReturnError
<1>3. ASSUME NEW m \in Names, Environment(m) PROVE BoxStep(n)
  <2>1. CASE DeliverEvent(m)
    BY <2>1, LearnBox
  <2>2. CASE RetryExpires(m)
    BY <2>2, RetryBox
  <2>3. CASE UserCreates(m) \/ UserEdits(m) \/ UserDeletes(m)
             \/ GarbageCollect(m) \/ DeliverConfigMap(m)
    <3>1. UNCHANGED <<cached, queueVars>>
      BY <2>3 DEF UserCreates, UserEdits, UserDeletes, UserActs, GarbageCollect,
         DeliverConfigMap, storeVars
    <3> QED BY <3>1, OtherNameStep DEF queueVars
  <2> QED BY <1>3, <2>1, <2>2, <2>3 DEF Environment
<1>4. CASE UNCHANGED vars
  BY <1>4, OtherNameStep DEF vars, storeVars, queueVars
<1> QED BY <1>1, <1>2, <1>3, <1>4 DEF Next, Worker

\* For every name, and whatever the other names do, the shared queue is a
\* request box: no event, retry or end of a pass is lost (Reconcile,
\* SetupWithManager and controller-runtime's queue with one worker).
THEOREM BoxesAreImplemented == Spec => ImplementsBoxes
<1>1. Init => \A n \in Names : Box(n)!Init
  BY NamesAssumption DEF Init, Box!Init
<1>2. QueueInv /\ [Next]_vars
      => [\A n \in Names : Box(n)!Next \/ UNCHANGED Box(n)!vars]_vars
  BY BoxesStep DEF BoxStep
<1> QED BY <1>1, <1>2, QueueInvariance, PTL DEF Spec, ImplementsBoxes
=============================================================================
