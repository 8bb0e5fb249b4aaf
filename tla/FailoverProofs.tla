--------------------------- MODULE FailoverProofs ---------------------------
(***************************************************************************)
(* Proofs about Failover for every number of replicas and every number of  *)
(* crashes, failed calls and versions the informer is behind.              *)
(***************************************************************************)
EXTENDS Failover, FiniteSetTheorems, NaturalsInduction, WellFoundedInduction, TLAPS

-----------------------------------------------------------------------------
(* What the proofs keep of the status, and the parts of the state.         *)

\* A status that names every node and at most one master.
Known == {c \in Cluster : /\ \A n \in Ordinals : c.master[n] # "None"
                          /\ \A m, n \in Ordinals :
                               c.master[m] = "True" /\ c.master[n] = "True" => m = n}

ApiKnown == cluster \in Known /\ cache \in Known /\ stream \in Seq(Known)
OrcType == /\ orc \in [busy : BOOLEAN, hand : Cluster, fresh : BOOLEAN, view : View]
           /\ orc.busy => orc.hand \in Known
LabelType ==
  /\ label \in [busy : BOOLEAN, hand : Cluster, fresh : BOOLEAN,
                changed : BOOLEAN, todo : SUBSET Ordinals]
  /\ label.busy => label.hand \in Known
InitType == /\ init \in [node : Ordinals \cup {None}, master : Ordinals]
            /\ init = Idle \/ init.node \in Ordinals
ServerType ==
  /\ node \in [Ordinals -> Node]
  /\ role \in [Ordinals -> {"gone", "none", "master", "replica"}]
  /\ root \in Ordinals
  /\ recovery \in {"none", "detected", "pre", "go"}
Bounds == /\ crashes \in 0..MaxCrashes /\ hookFailures \in 0..MaxHookFailures
          /\ faults \in 0..MaxFaults

StatusInv == ApiKnown /\ OrcType /\ LabelType /\ InitType /\ ServerType /\ Bounds

LEMMA NoneIsNoOrdinal == None \notin Ordinals /\ 0 \in Ordinals /\ Ordinals \subseteq Nat
BY FailoverAssumption DEF None, Ordinals

LEMMA KnownType == Known \subseteq Cluster
BY DEF Known

LEMMA StatusTyped == StatusInv => TypeOK
<1> SUFFICES ASSUME StatusInv PROVE TypeOK
  OBVIOUS
<1>1. cluster \in Cluster /\ cache \in Cluster /\ stream \in Seq(Cluster)
  <2>1. stream \in Seq(Known)
    BY DEF StatusInv, ApiKnown
  <2>2. \A i \in 1..Len(stream) : stream[i] \in Cluster
    BY <2>1, KnownType
  <2>3. stream \in Seq(Cluster)
    BY <2>1, <2>2
  <2> QED BY <2>3, KnownType DEF StatusInv, ApiKnown
<1> QED BY <1>1 DEF StatusInv, OrcType, LabelType, InitType, ServerType, Bounds, TypeOK

LEMMA ReadyCount == ReadyReplicas \in 0..Replicas
<1> DEFINE S == {n \in Ordinals : PodReady(n)}
<1>1. /\ IsFiniteSet(0..(Replicas - 1))
      /\ Cardinality(0..(Replicas - 1)) = IF 0 > Replicas - 1 THEN 0 ELSE (Replicas - 1) - 0 + 1
  BY FS_Interval, FailoverAssumption
<1>2. IsFiniteSet(Ordinals) /\ Cardinality(Ordinals) = Replicas
  BY <1>1, FailoverAssumption DEF Ordinals
<1>3. S \in SUBSET Ordinals
  OBVIOUS
<1>4. IsFiniteSet(S) /\ Cardinality(S) <= Cardinality(Ordinals)
  BY <1>2, <1>3, FS_Subset
<1>5. Cardinality(S) \in Nat
  BY <1>4, FS_CardinalityType
<1> QED BY <1>2, <1>4, <1>5, FailoverAssumption DEF ReadyReplicas

\* With at most one master in the status, GetMasterHost finds it.
LEMMA MasterHost ==
  ASSUME NEW c \in Known
  PROVE  /\ GetMasterHost(c) \in Ordinals
         /\ \A n \in Ordinals : c.master[n] = "True" => GetMasterHost(c) = n
<1> DEFINE masters == {n \in Ordinals : c.master[n] = "True"}
<1>1. CASE masters = {}
  BY <1>1, NoneIsNoOrdinal DEF GetMasterHost
<1>2. CASE masters # {}
  <2>1. PICK n \in masters : TRUE
    BY <1>2
  <2>0. n \in Ordinals /\ n \in Nat /\ c.master[n] = "True"
    BY <2>1, NoneIsNoOrdinal
  <2>a. \A m \in masters : m = n
    BY <2>0 DEF Known
  <2>b. n <= n
    BY <2>0
  <2>2. masters = {n} /\ n \in Ordinals /\ n <= n
    BY <2>0, <2>1, <2>a, <2>b
  <2>3. (CHOOSE x \in masters : \A m \in masters : m <= x) = n
    BY <2>2
  <2>4. GetMasterHost(c) = n
    BY <1>2, <2>3 DEF GetMasterHost
  <2> QED BY <2>2, <2>4
<1> QED BY <1>1, <1>2

\* What updateNodesStatus leaves is a status with at most one master.
LEMMA UpdatedKnown ==
  ASSUME NEW c \in Known, NEW v \in View
  PROVE  UpdatedStatus(c, v) \in Known
<1> DEFINE u == UpdatedMaster(c, v)
<1>1. u \in [Ordinals -> {"None", "True", "False", "Unknown"}]
  BY DEF UpdatedMaster
<1>2. \A n \in Ordinals : c.master[n] # "None"
  BY DEF Known
<1>3. \A n \in Ordinals : u[n] # "None" /\ (u[n] = "True" => n = v.master)
  BY <1>2 DEF UpdatedMaster
<1>4. updateClusterReadyStatus(c, v) \in BOOLEAN /\ (c.fip /\ ~(v.master # None /\ v.seen)) \in BOOLEAN
  BY DEF updateClusterReadyStatus
<1>5. c.readyNodes \in 0..Replicas
  BY DEF Known, Cluster
<1> HIDE DEF u
<1>6. UpdatedStatus(c, v) \in Cluster /\ UpdatedStatus(c, v).master = u
  BY <1>1, <1>4, <1>5 DEF UpdatedStatus, Cluster, u
<1> QED BY <1>3, <1>6 DEF Known

LEMMA StoreKnown ==
  ASSUME ApiKnown, NEW c \in Known, Store(c)
  PROVE  ApiKnown'
BY DEF ApiKnown, Store

\* A change of the status other than of its Master conditions.
LEMMA KeepsKnown ==
  ASSUME NEW c \in Known
  PROVE  /\ [c EXCEPT !.fip = TRUE] \in Known
         /\ \A r \in 0..Replicas : [c EXCEPT !.readyNodes = r] \in Known
BY DEF Known, Cluster

LEMMA NoStatusType == NoStatus \in Cluster
BY FailoverAssumption DEF NoStatus, Cluster

LEMMA DoneType ==
  /\ OrcDone \in [busy : BOOLEAN, hand : Cluster, fresh : BOOLEAN, view : View] /\ ~OrcDone.busy
  /\ LabelDone \in [busy : BOOLEAN, hand : Cluster, fresh : BOOLEAN,
                    changed : BOOLEAN, todo : SUBSET Ordinals] /\ ~LabelDone.busy
<1>1. NoView \in View
  BY DEF NoView, View
<1> QED BY <1>1, NoStatusType DEF OrcDone, LabelDone

\* Orchestrator answers with a node or none.
LEMMA AnswerType == root \in Ordinals => getFromOrchestrator \in Ordinals \cup {None}
<1> SUFFICES ASSUME root \in Ordinals PROVE getFromOrchestrator \in Ordinals \cup {None}
  OBVIOUS
<1>1. DetermineMaster(AliasCluster) \in AliasCluster \cup {None}
  BY DEF DetermineMaster
<1>2. AliasCluster \subseteq Ordinals /\ AliasMaster \in {root, None}
  BY DEF AliasCluster, AliasMaster
<1> QED BY <1>1, <1>2 DEF getFromOrchestrator

-----------------------------------------------------------------------------
(* Every step keeps the parts of the state.                                *)

LEMMA OrcWriteKnown ==
  ASSUME StatusInv, orc.busy,
         OrcWrite(UpdatedStatus(orc.hand, orc.view)) \/ UNCHANGED <<api, label>>
  PROVE  /\ ApiKnown' /\ LabelType'
         /\ label' = label \/ label' = [label EXCEPT !.fresh = FALSE]
<1>0. ApiKnown /\ LabelType /\ orc.hand \in Known /\ orc.view \in View
  BY DEF StatusInv, OrcType
<1> DEFINE c == UpdatedStatus(orc.hand, orc.view)
<1>1. c \in Known
  BY <1>0, UpdatedKnown
<1> HIDE DEF c
<1>2. CASE UNCHANGED <<api, label>>
  BY <1>0, <1>2 DEF api, ApiKnown, LabelType
<1>3. CASE Store(c) /\ label' = [label EXCEPT !.fresh = FALSE]
  BY <1>0, <1>1, <1>3, StoreKnown DEF LabelType
<1> QED BY <1>2, <1>3 DEF OrcWrite, c

LEMMA LabelWriteKnown ==
  ASSUME StatusInv, label.busy, LabelWrite
  PROVE  ApiKnown' /\ OrcType'
<1>0. ApiKnown /\ OrcType /\ label.hand \in Known
  BY DEF StatusInv, LabelType
<1>1. CASE UNCHANGED <<api, orc>>
  BY <1>0, <1>1 DEF api, ApiKnown, OrcType
<1>2. CASE Store(label.hand) /\ orc' = [orc EXCEPT !.fresh = FALSE]
  BY <1>0, <1>2, StoreKnown DEF OrcType
<1> QED BY <1>1, <1>2 DEF LabelWrite

LEMMA CrashType ==
  ASSUME OrcType, NEW n \in Ordinals, orc' = [orc EXCEPT !.view.settled = @ \ {n}]
  PROVE  /\ OrcType'
         /\ orc'.busy = orc.busy /\ orc'.view.master = orc.view.master
         /\ orc'.view.settled = orc.view.settled \ {n}
BY DEF OrcType, View

\* What the writers of node leave of one server.
LEMMA MarkedType ==
  ASSUME node \in [Ordinals -> Node], NEW c \in Cluster, NEW v \in View, NEW n \in Ordinals
  PROVE  /\ [node[n] EXCEPT !.ro = MarkReadOnlyNodes(c, v, n)] \in Node
         /\ [node[n] EXCEPT !.ro = MarkReadOnlyNodes(c, v, n)].up = node[n].up
         /\ [node[n] EXCEPT !.ro = MarkReadOnlyNodes(c, v, n)].ro \/ ~node[n].ro \/ (n \in v.settled /\ n = v.master)
<1>0. node[n] \in Node
  OBVIOUS
<1>1. MarkReadOnlyNodes(c, v, n) \in BOOLEAN
  BY <1>0 DEF MarkReadOnlyNodes, Node
<1>2. MarkReadOnlyNodes(c, v, n) \/ ~node[n].ro \/ (n \in v.settled /\ n = v.master)
  BY <1>0 DEF MarkReadOnlyNodes, Node
<1> DEFINE mark == MarkReadOnlyNodes(c, v, n)
<1> HIDE DEF mark
<1>3. mark \in BOOLEAN
  BY <1>1 DEF mark
<1>4. [node[n] EXCEPT !.ro = mark] \in Node /\ [node[n] EXCEPT !.ro = mark].up = node[n].up
  BY <1>0, <1>3 DEF Node
<1>5. [node[n] EXCEPT !.ro = mark].ro = mark
  BY <1>0 DEF Node
<1> QED BY <1>2, <1>4, <1>5 DEF mark

LEMMA InitializedType ==
  ASSUME node \in [Ordinals -> Node], NEW n \in Ordinals, NEW m \in Ordinals, NEW k \in 0..4
  PROVE  /\ Initialized(n, m, k) \in Node
         /\ Initialized(n, m, k).up = node[n].up
         /\ node[n].ro => Initialized(n, m, k).ro
<1>0. node[n] \in Node
  OBVIOUS
<1> QED BY <1>0 DEF Initialized, Node

LEMMA OtherTypes ==
  ASSUME node \in [Ordinals -> Node], NEW n \in Ordinals
  PROVE  /\ Promoted(n) \in Node /\ Started(n) \in Node
         /\ \A b \in Ordinals : [node[n] EXCEPT !.src = b] \in Node
         /\ \A b \in Ordinals : /\ [node[n] EXCEPT !.src = b].up = node[n].up
                               /\ [node[n] EXCEPT !.src = b].ro = node[n].ro
<1>0. node[n] \in Node
  OBVIOUS
<1> QED BY <1>0 DEF Promoted, Started, Node

LEMMA FaultBounds == Bounds /\ Fault => Bounds'
BY FailoverAssumption DEF Bounds, Fault

\* The steps that neither write the status nor change a server's record: what
\* remains typed.
LEMMA SameApi == ApiKnown /\ UNCHANGED api => ApiKnown'
BY DEF ApiKnown, api

LEMMA SameBounds == Bounds /\ UNCHANGED bounds => Bounds'
BY DEF Bounds, bounds

LEMMA SameOrc == OrcType /\ UNCHANGED orc => OrcType'
BY DEF OrcType

LEMMA SameLabel == LabelType /\ UNCHANGED label => LabelType'
BY DEF LabelType

LEMMA SameInit == InitType /\ UNCHANGED init => InitType'
BY DEF InitType, Idle

LEMMA SameServer == ServerType /\ UNCHANGED <<node, role, root, recovery>> => ServerType'
BY DEF ServerType

LEMMA IdleType == Idle \in [node : Ordinals \cup {None}, master : Ordinals]
BY NoneIsNoOrdinal DEF Idle

LEMMA OperatorTyped ==
  ASSUME StatusInv, OperatorStep
  PROVE  StatusInv'
<1> USE SameApi, SameBounds, SameOrc, SameLabel, SameInit, SameServer
<1>0. ApiKnown /\ OrcType /\ LabelType /\ InitType /\ ServerType /\ Bounds
  BY DEF StatusInv
<1>1. CASE OrcRead
  <2>0. AliasCluster \subseteq Ordinals /\ getFromOrchestrator \in Ordinals \cup {None}
    BY <1>0, AnswerType DEF ServerType, AliasCluster
  <2>1. PICK seen \in MasterSeen(getFromOrchestrator), stale \in SUBSET {n \in AliasCluster : ~node[n].up} :
       orc' = [busy |-> TRUE, hand |-> cache, fresh |-> stream = <<>>,
               view |-> [insts |-> AliasCluster, stale |-> stale, master |-> getFromOrchestrator, seen |-> seen,
                         ro |-> {n \in AliasCluster : node[n].ro},
                         repl |-> {n \in AliasCluster : node[n].repl},
                         settled |-> {n \in AliasCluster : node[n].up /\ node[n].settled}]]
    BY <1>1 DEF OrcRead
  <2>2. seen \in BOOLEAN
    BY DEF MasterSeen
  <2> DEFINE v == [insts |-> AliasCluster, stale |-> stale, master |-> getFromOrchestrator, seen |-> seen,
                   ro |-> {n \in AliasCluster : node[n].ro},
                   repl |-> {n \in AliasCluster : node[n].repl},
                   settled |-> {n \in AliasCluster : node[n].up /\ node[n].settled}]
  <2>3. v \in View
    BY <2>0, <2>2 DEF View
  <2> HIDE DEF v
  <2>4. orc' = [busy |-> TRUE, hand |-> cache, fresh |-> stream = <<>>, view |-> v]
    BY <2>1 DEF v
  <2>5. cache \in Known /\ cache \in Cluster
    BY <1>0, KnownType DEF ApiKnown
  <2>6. OrcType'
    BY <2>3, <2>4, <2>5 DEF OrcType
  <2> QED BY <1>0, <1>1, <2>6 DEF OrcRead, StatusInv
<1>2. CASE OrcAct
  <2>1. orc.hand \in Cluster /\ orc.view \in View
    BY <1>0 DEF OrcType
  <2>2. node' \in [Ordinals -> Node]
    BY <1>0, <1>2, <2>1, MarkedType DEF OrcAct, ServerType
  <2>3. ServerType'
    BY <1>0, <1>2, <2>2 DEF OrcAct, ServerType
  <2>4. ApiKnown' /\ LabelType'
    BY <1>2, OrcWriteKnown DEF OrcAct
  <2>5. OrcType'
    BY <1>2, DoneType DEF OrcAct, OrcType
  <2> QED BY <1>0, <1>2, <2>3, <2>4, <2>5 DEF OrcAct, StatusInv
<1>3. CASE NodeInit
  <2>1. init.node \in Ordinals /\ init.master \in Ordinals
    BY <1>0, <1>3 DEF NodeInit, InitType
  <2>2. Initialized(init.node, init.master, 4) \in Node
    BY <1>0, <2>1, InitializedType DEF ServerType
  <2>3. ServerType'
    BY <1>0, <1>3, <2>1, <2>2 DEF NodeInit, ServerType
  <2>4. InitType'
    BY <1>3, IdleType DEF NodeInit, InitType, Idle
  <2> QED BY <1>0, <1>3, <2>3, <2>4 DEF NodeInit, StatusInv
<1>4. CASE LabelBegin
  <2> DEFINE c == [cache EXCEPT !.readyNodes = ReadyReplicas]
  <2>1. c \in Known /\ c \in Cluster
    BY <1>0, ReadyCount, KeepsKnown, KnownType DEF ApiKnown
  <2> HIDE DEF c
  <2>2. label' = [busy |-> TRUE, hand |-> c, fresh |-> stream = <<>>,
                  changed |-> cache.readyNodes # ReadyReplicas,
                  todo |-> {n \in Ordinals : cache.master[n] # "None"}]
    BY <1>4 DEF LabelBegin, c
  <2>3. LabelType'
    BY <2>1, <2>2 DEF LabelType
  <2> QED BY <1>0, <1>4, <2>3 DEF LabelBegin, StatusInv
<1>5. CASE LabelEnd
  <2>1. ApiKnown' /\ OrcType'
    BY <1>5, LabelWriteKnown DEF LabelEnd
  <2>2. LabelType'
    BY <1>5, DoneType DEF LabelEnd, LabelType
  <2> QED BY <1>0, <1>5, <2>1, <2>2 DEF LabelEnd, StatusInv
<1>6. ASSUME NEW n \in Ordinals, NodeRefresh(n)
      PROVE  StatusInv'
  <2>1. GetMasterHost(cluster) \in Ordinals
    BY <1>0, MasterHost DEF ApiKnown
  <2>2. InitType'
    BY <1>6, <2>1 DEF NodeRefresh, InitType, Idle
  <2> QED BY <1>0, <1>6, <2>2 DEF NodeRefresh, StatusInv
<1>7. ASSUME NEW n \in Ordinals, LabelPod(n)
      PROVE  StatusInv'
  <2>1. role' \in [Ordinals -> {"gone", "none", "master", "replica"}]
    BY <1>0, <1>7 DEF LabelPod, ServerType
  <2>2. ServerType'
    BY <1>0, <1>7, <2>1 DEF LabelPod, ServerType
  <2>3. LabelType'
    BY <1>0, <1>7 DEF LabelPod, LabelType
  <2> QED BY <1>0, <1>7, <2>2, <2>3 DEF LabelPod, StatusInv
<1> QED BY <1>1, <1>2, <1>3, <1>4, <1>5, <1>6, <1>7 DEF OperatorStep

LEMMA OrchestratorTyped ==
  ASSUME StatusInv, OrchestratorStep
  PROVE  StatusInv'
<1> USE SameApi, SameBounds, SameOrc, SameLabel, SameInit, SameServer
<1>0. ApiKnown /\ OrcType /\ LabelType /\ InitType /\ ServerType /\ Bounds
  BY DEF StatusInv
<1>1. CASE Detect
  <2>1. ServerType'
    BY <1>0, <1>1 DEF Detect, ServerType
  <2> QED BY <1>0, <1>1, <2>1 DEF Detect, StatusInv
<1>2. CASE Hook
  <2>1. ServerType'
    BY <1>0, <1>2 DEF Hook, Hooked, ServerType
  <2>2. ApiKnown' /\ OrcType' /\ LabelType'
    <3>1. CASE cluster.fip
      BY <1>0, <1>2, <3>1 DEF Hook
    <3>2. CASE ~cluster.fip
      <4> DEFINE c == [cluster EXCEPT !.fip = TRUE]
      <4>1. c \in Known
        BY <1>0, KeepsKnown DEF ApiKnown
      <4> HIDE DEF c
      <4>2. Store(c) /\ orc' = [orc EXCEPT !.fresh = FALSE] /\ label' = [label EXCEPT !.fresh = FALSE]
        BY <1>2, <3>2 DEF Hook, c
      <4>3. ApiKnown'
        BY <1>0, <4>1, <4>2, StoreKnown
      <4> QED BY <1>0, <4>2, <4>3 DEF OrcType, LabelType
    <3> QED BY <3>1, <3>2
  <2> QED BY <1>0, <1>2, <2>1, <2>2 DEF Hook, StatusInv
<1>3. ASSUME NEW b \in Ordinals, Promote(b)
      PROVE  StatusInv'
  <2>1. node' \in [Ordinals -> Node]
    BY <1>0, <1>3, OtherTypes DEF Promote, ServerType
  <2>2. ServerType'
    BY <1>0, <1>3, <2>1 DEF Promote, ServerType
  <2> QED BY <1>0, <1>3, <2>2 DEF Promote, StatusInv
<1> QED BY <1>1, <1>2, <1>3 DEF OrchestratorStep

LEMMA FaultTyped ==
  ASSUME StatusInv, FaultStep
  PROVE  StatusInv'
<1> USE SameApi, SameBounds, SameOrc, SameLabel, SameInit, SameServer
<1>0. ApiKnown /\ OrcType /\ LabelType /\ InitType /\ ServerType /\ Bounds
  BY DEF StatusInv
<1>1. CASE OrcFails
  <2>1. orc.hand \in Cluster /\ orc.view \in View
    BY <1>0 DEF OrcType
  <2>2. node' \in [Ordinals -> Node]
    BY <1>0, <1>1, <2>1, MarkedType DEF OrcFails, ServerType
  <2>3. ServerType'
    BY <1>0, <1>1, <2>2 DEF OrcFails, ServerType
  <2>4. ApiKnown' /\ LabelType'
    BY <1>1, OrcWriteKnown DEF OrcFails
  <2>5. OrcType'
    BY <1>1, DoneType DEF OrcFails, OrcType
  <2> QED BY <1>0, <1>1, <2>3, <2>4, <2>5, FaultBounds DEF OrcFails, StatusInv
<1>2. CASE NodeInitFails
  <2>1. init.node \in Ordinals /\ init.master \in Ordinals
    BY <1>0, <1>2 DEF NodeInitFails, InitType
  <2>2. \A k \in 0..3 : Initialized(init.node, init.master, k) \in Node
    BY <1>0, <2>1, InitializedType DEF ServerType
  <2>3. ServerType'
    BY <1>0, <1>2, <2>1, <2>2 DEF NodeInitFails, ServerType
  <2>4. InitType'
    BY <1>2, IdleType DEF NodeInitFails, InitType, Idle
  <2> QED BY <1>0, <1>2, <2>3, <2>4, FaultBounds DEF NodeInitFails, StatusInv
<1>3. CASE LabelFails
  <2>1. ApiKnown' /\ OrcType'
    BY <1>3, LabelWriteKnown DEF LabelFails
  <2>2. LabelType'
    BY <1>3, DoneType DEF LabelFails, LabelType
  <2> QED BY <1>0, <1>3, <2>1, <2>2, FaultBounds DEF LabelFails, StatusInv
<1>4. CASE HookFails
  <2>1. ServerType'
    BY <1>0, <1>4 DEF HookFails, Hooked, ServerType
  <2>2. Bounds'
    BY <1>0, <1>4, FailoverAssumption DEF HookFails, Bounds
  <2> QED BY <1>0, <1>4, <2>1, <2>2 DEF HookFails, StatusInv
<1>5. ASSUME NEW n \in Ordinals, Crash(n)
      PROVE  StatusInv'
  <2>0. node[n] \in Node
    BY <1>0 DEF ServerType
  <2>a. [node[n] EXCEPT !.up = FALSE] \in Node
    BY <2>0 DEF Node
  <2>1. node' \in [Ordinals -> Node]
    BY <1>0, <1>5, <2>a DEF Crash, ServerType
  <2>2. ServerType'
    BY <1>0, <1>5, <2>1 DEF Crash, ServerType
  <2>3. Bounds'
    BY <1>0, <1>5, FailoverAssumption DEF Crash, Bounds
  <2>4. OrcType'
    BY <1>0, <1>5, CrashType DEF Crash
  <2>5. InitType'
    BY <1>0, <1>5, IdleType DEF Crash, InitType, Idle
  <2> QED BY <1>0, <1>5, <2>2, <2>3, <2>4, <2>5 DEF Crash, StatusInv
<1> QED BY <1>1, <1>2, <1>3, <1>4, <1>5 DEF FaultStep

LEMMA StatusStep == StatusInv /\ [Next]_vars => StatusInv'
<1> USE SameApi, SameBounds, SameOrc, SameLabel, SameInit, SameServer
<1> SUFFICES ASSUME StatusInv, [Next]_vars PROVE StatusInv'
  OBVIOUS
<1>0. ApiKnown /\ OrcType /\ LabelType /\ InitType /\ ServerType /\ Bounds
  BY DEF StatusInv
<1>1. CASE Deliver
  <2>1. stream \in Seq(Known) /\ stream # <<>>
    BY <1>0, <1>1 DEF Deliver, ApiKnown
  <2>2. Head(stream) \in Known /\ Tail(stream) \in Seq(Known)
    BY <2>1
  <2>3. ApiKnown'
    BY <1>0, <1>1, <2>2 DEF Deliver, ApiKnown
  <2> QED BY <1>0, <1>1, <2>3 DEF Deliver, StatusInv
<1>2. ASSUME NEW n \in Ordinals, Start(n)
      PROVE  StatusInv'
  <2>1. node' \in [Ordinals -> Node]
    BY <1>0, <1>2, OtherTypes DEF Start, ServerType
  <2>2. ServerType'
    BY <1>0, <1>2, <2>1 DEF Start, ServerType
  <2> QED BY <1>0, <1>2, <2>2 DEF Start, StatusInv
<1>3. ASSUME NEW n \in Ordinals, Settle(n)
      PROVE  StatusInv'
  <2>0. node[n] \in Node
    BY <1>0 DEF ServerType
  <2>a. [node[n] EXCEPT !.settled = TRUE] \in Node
    BY <2>0 DEF Node
  <2>1. node' \in [Ordinals -> Node]
    BY <1>0, <1>3, <2>a DEF Settle, ServerType
  <2>2. ServerType'
    BY <1>0, <1>3, <2>1 DEF Settle, ServerType
  <2> QED BY <1>0, <1>3, <2>2 DEF Settle, StatusInv
<1>4. CASE UNCHANGED vars
  BY <1>0, <1>4 DEF vars, api, bounds, StatusInv
<1> QED BY <1>1, <1>2, <1>3, <1>4, OperatorTyped, OrchestratorTyped, FaultTyped DEF Next

LEMMA StatusStart == Init => StatusInv
<1> SUFFICES ASSUME Init PROVE StatusInv
  OBVIOUS
<1>1. cluster \in Cluster
  BY FailoverAssumption DEF Init, Cluster
<1>2. \A n \in Ordinals : cluster.master[n] = IF n = 0 THEN "True" ELSE "False"
  BY DEF Init
<1>3. ApiKnown
  BY <1>1, <1>2 DEF Init, ApiKnown, Known
<1>4. OrcType /\ LabelType
  BY DoneType DEF Init, OrcType, LabelType
<1>5. InitType
  BY IdleType DEF Init, InitType, Idle
<1>6. node \in [Ordinals -> Node]
  BY NoneIsNoOrdinal DEF Init, Node
<1>7. ServerType
  BY <1>6, NoneIsNoOrdinal DEF Init, ServerType
<1>8. Bounds
  BY FailoverAssumption DEF Init, Bounds
<1> QED BY <1>3, <1>4, <1>5, <1>7, <1>8 DEF StatusInv

\* The variables keep their types, and every version of the status names all
\* the nodes and at most one master, however many servers crash.
THEOREM TypeCorrect == Spec => []TypeOK
<1>1. Spec => []StatusInv
  BY StatusStart, StatusStep, PTL DEF Spec
<1> QED BY <1>1, StatusTyped, PTL

-----------------------------------------------------------------------------
(* One master label.                                                       *)

\* A pass of the pod syncers has taken the label from every pod it has done and
\* does not take for the master.
Relabelled == label.busy => \A n \in Ordinals \ label.todo :
                              label.hand.master[n] # "True" => role[n] # "master"
OneLabelled == \A m, n \in Ordinals : role[m] = "master" /\ role[n] = "master" => m = n

LabelInv == StatusInv /\ Relabelled /\ OneLabelled

\* The steps that touch neither the labels nor the pass, and those that only
\* take labels away.
LEMMA FewerLabels ==
  ASSUME LabelInv, label' = label \/ label' = [label EXCEPT !.fresh = FALSE],
         \A n \in Ordinals : role'[n] = "master" => role[n] = "master"
  PROVE  Relabelled' /\ OneLabelled'
<1>1. label'.busy = label.busy /\ label'.hand = label.hand /\ label'.todo = label.todo
  BY DEF LabelInv, StatusInv, LabelType
<1> QED BY <1>1 DEF LabelInv, Relabelled, OneLabelled

\* The end of a pass.
LEMMA PassEnds ==
  ASSUME LabelInv, label' = LabelDone, role' = role
  PROVE  Relabelled' /\ OneLabelled'
BY DEF LabelInv, Relabelled, OneLabelled, LabelDone

LEMMA LabelStep == LabelInv /\ [Next]_vars => LabelInv'
<1> SUFFICES ASSUME LabelInv, [Next]_vars PROVE Relabelled' /\ OneLabelled'
  BY StatusStep DEF LabelInv
<1>0. StatusInv
  BY DEF LabelInv
<1>1. CASE LabelBegin
  <2>1. \A n \in Ordinals : cache.master[n] # "None"
    BY <1>0 DEF StatusInv, ApiKnown, Known
  <2>2. label'.todo = Ordinals /\ role' = role
    BY <1>1, <2>1 DEF LabelBegin
  <2> QED BY <2>2 DEF LabelInv, Relabelled, OneLabelled
<1>2. ASSUME NEW n \in Ordinals, LabelPod(n)
      PROVE  Relabelled' /\ OneLabelled'
  <2>0. label.busy /\ NextPod(n) /\ n \in label.todo
    BY <1>2 DEF LabelPod, NextPod
  <2>1. /\ label'.busy = label.busy /\ label'.hand = label.hand
        /\ label'.todo = label.todo \ {n}
    BY <1>0, <1>2 DEF LabelPod, StatusInv, LabelType
  <2>2. \A m \in Ordinals : m # n => role'[m] = role[m]
    BY <1>0, <1>2 DEF LabelPod, StatusInv, ServerType
  <2>3. role'[n] = "master" => IsMaster(n)
    BY <1>0, <1>2 DEF LabelPod, StatusInv, ServerType
  <2>4. Relabelled'
    BY <2>0, <2>1, <2>2, <2>3 DEF LabelInv, Relabelled, IsMaster
  <2>5. ASSUME IsMaster(n), NEW m \in Ordinals, role[m] = "master" PROVE m = n
    <3>1. label.hand.master[m] = "True"
      BY <2>0, <2>5 DEF NextPod, IsMaster, LabelInv, Relabelled
    <3> QED BY <2>0, <2>5, <3>1, <1>0 DEF IsMaster, StatusInv, LabelType, Known
  <2>6. OneLabelled'
    BY <2>2, <2>3, <2>5 DEF LabelInv, OneLabelled
  <2> QED BY <2>4, <2>6
<1>3. CASE LabelEnd \/ LabelFails
  BY <1>3, PassEnds DEF LabelEnd, LabelFails
<1>4. CASE OrcAct \/ OrcFails
  <2>1. label' = label \/ label' = [label EXCEPT !.fresh = FALSE]
    BY <1>0, <1>4, OrcWriteKnown DEF OrcAct, OrcFails
  <2> QED BY <1>4, <2>1, FewerLabels DEF OrcAct, OrcFails
<1>5. CASE Hook
  <2>1. label' = label \/ label' = [label EXCEPT !.fresh = FALSE]
    BY <1>5 DEF Hook
  <2> QED BY <1>5, <2>1, FewerLabels DEF Hook
<1>6. ASSUME NEW n \in Ordinals, Crash(n)
      PROVE  Relabelled' /\ OneLabelled'
  <2>1. \A m \in Ordinals : role'[m] = "master" => role[m] = "master"
    BY <1>0, <1>6 DEF Crash, StatusInv, ServerType
  <2> QED BY <1>6, <2>1, FewerLabels DEF Crash
<1>7. ASSUME NEW n \in Ordinals, Start(n)
      PROVE  Relabelled' /\ OneLabelled'
  <2>1. \A m \in Ordinals : role'[m] = "master" => role[m] = "master"
    BY <1>0, <1>7 DEF Start, StatusInv, ServerType
  <2> QED BY <1>7, <2>1, FewerLabels DEF Start
<1>8. CASE UNCHANGED <<role, label>>
  BY <1>8, FewerLabels
<1>9. CASE OrcRead \/ NodeInit \/ NodeInitFails \/ Detect \/ HookFails \/ Deliver
  BY <1>8, <1>9 DEF OrcRead, NodeInit, NodeInitFails, Detect, HookFails, Deliver
<1>10. ASSUME NEW n \in Ordinals, NodeRefresh(n) \/ Promote(n) \/ Settle(n)
       PROVE  Relabelled' /\ OneLabelled'
  BY <1>8, <1>10 DEF NodeRefresh, Promote, Settle
<1>11. CASE UNCHANGED vars
  BY <1>8, <1>11 DEF vars
<1> QED
  BY <1>1, <1>2, <1>3, <1>4, <1>5, <1>6, <1>7, <1>9, <1>10, <1>11
  DEF Next, OperatorStep, OrchestratorStep, FaultStep

LEMMA LabelStart == Init => LabelInv
<1> SUFFICES ASSUME Init PROVE Relabelled /\ OneLabelled
  BY StatusStart DEF LabelInv
<1> QED BY DEF Init, LabelDone, Relabelled, OneLabelled

\* A set with at most one element, as the two properties count it.
LEMMA AtMostOne ==
  ASSUME NEW S, \A m, n \in S : m = n
  PROVE  Cardinality(S) <= 1
<1>1. CASE S = {}
  BY <1>1, FS_EmptySet
<1>2. CASE S # {}
  <2>1. PICK x \in S : TRUE
    BY <1>2
  <2>2. S = {x}
    BY <2>1
  <2> QED BY <2>2, FS_Singleton
<1> QED BY <1>1, <1>2

\* Never two pods with the master label (the comment at getPodSyncers), for any
\* number of replicas, crashes and failed passes: a pass takes the label from
\* the others before it gives it to the master of its copy.
THEOREM OneLabel == Spec => []OneMasterLabel
<1>1. Spec => []LabelInv
  BY LabelStart, LabelStep, PTL DEF Spec
<1>2. LabelInv => OneMasterLabel
  <2> SUFFICES ASSUME LabelInv PROVE OneMasterLabel
    OBVIOUS
  <2> DEFINE S == {n \in Ordinals : role[n] = "master"}
  <2>1. \A m, n \in S : m = n
    BY DEF LabelInv, OneLabelled
  <2> HIDE DEF S
  <2>2. Cardinality(S) <= 1
    BY <2>1, AtMostOne
  <2> QED BY <2>2 DEF S, OneMasterLabel
<1> QED BY <1>1, <1>2, PTL

-----------------------------------------------------------------------------
(* What orchestrator's answers amount to: the chain of sources.  The steps *)
(* of getMasterForNode are numbered, so the least number with a property   *)
(* stands for induction.                                                   *)

LEMMA LeastNumber ==
  ASSUME NEW T, T \subseteq Nat, T # {}
  PROVE  \E x \in T : \A y \in T : x <= y
<1>1. PICK x \in T : \A y \in T : ~(<<y, x>> \in OpToRel(<, Nat))
  BY NatLessThanWellFounded, WFMin
<1>2. \A y \in T : ~(y < x)
  BY <1>1 DEF OpToRel
<1> QED BY <1>2

LEMMA SetInduction ==
  ASSUME NEW P, 0 \in P, \A n \in Nat : n \in P => n + 1 \in P
  PROVE  Nat \subseteq P
<1> SUFFICES ASSUME Nat \ P # {} PROVE FALSE
  OBVIOUS
<1>1. PICK x \in Nat \ P : \A y \in Nat \ P : x <= y
  BY LeastNumber
<1>2. x # 0 /\ x - 1 \in Nat /\ x - 1 \in P
  BY <1>1
<1> QED BY <1>1, <1>2

\* One row of getMasterForNode, in terms of the rows before it.
Row(insts, g, k) ==
  [m \in Ordinals |->
     IF node[m].src = None THEN m
     ELSE IF k = 0 \/ node[m].src \notin insts THEN None
     ELSE IF IsCoMaster(m) THEN node[m].src
     ELSE g[k - 1][node[m].src]]

\* A row depends on the row before it only.
LEMMA RowLocal ==
  ASSUME NEW insts, NEW g, NEW h, NEW k \in Nat, k # 0 => g[k - 1] = h[k - 1]
  PROVE  Row(insts, g, k) = Row(insts, h, k)
<1>1. CASE k = 0
  BY <1>1 DEF Row
<1>2. CASE k # 0
  <2>1. g[k - 1] = h[k - 1]
    BY <1>2
  <2> QED BY <2>1 DEF Row
<1> QED BY <1>1, <1>2

\* The recursive definition defines a function.
LEMMA RowsExist ==
  ASSUME NEW insts
  PROVE  \A N \in Nat : \E f : f = [k \in 0..N |-> Row(insts, f, k)]
<1> DEFINE P == {N \in Nat : \E f : f = [k \in 0..N |-> Row(insts, f, k)]}
<1>1. 0 \in P
  <2> DEFINE h == [k \in 0..0 |-> Row(insts, [i \in {} |-> 0], k)]
  <2>1. \A k \in 0..0 : k \in Nat /\ k = 0
    OBVIOUS
  <2>2. \A k \in 0..0 : Row(insts, [i \in {} |-> 0], k) = Row(insts, h, k)
    BY <2>1, RowLocal
  <2>3. h = [k \in 0..0 |-> Row(insts, h, k)]
    BY <2>2
  <2> HIDE DEF h
  <2> QED BY <2>3
<1>2. ASSUME NEW N \in Nat, N \in P PROVE N + 1 \in P
  <2>1. PICK f : f = [k \in 0..N |-> Row(insts, f, k)]
    BY <1>2
  <2> DEFINE h == [k \in 0..(N + 1) |-> IF k <= N THEN f[k] ELSE Row(insts, f, k)]
  <2>2. ASSUME NEW k \in 0..(N + 1) PROVE h[k] = Row(insts, h, k)
    <3>1. \A j \in 0..N : h[j] = f[j]
      OBVIOUS
    <3>2. h[k] = Row(insts, f, k)
      <4>1. CASE k <= N
        <5>0. k \in 0..N
          BY <4>1
        <5>1. f[k] = Row(insts, f, k)
          BY ONLY <2>1, <5>0, Zenon
        <5> QED BY <5>1, <4>1
      <4>2. CASE ~(k <= N)
        BY <4>2
      <4> QED BY <4>1, <4>2
    <3>3. k \in Nat /\ (k # 0 => k - 1 \in 0..N)
      OBVIOUS
    <3> HIDE DEF h
    <3>4. k # 0 => f[k - 1] = h[k - 1]
      BY <3>1, <3>3
    <3>5. Row(insts, f, k) = Row(insts, h, k)
      BY <3>3, <3>4, RowLocal
    <3> QED BY <3>2, <3>5
  <2>3. h = [k \in 0..(N + 1) |-> Row(insts, h, k)]
    <3>1. h = [k \in 0..(N + 1) |-> h[k]]
      OBVIOUS
    <3> HIDE DEF h
    <3> QED BY <3>1, <2>2
  <2> HIDE DEF h
  <2> QED BY <2>3
<1>3. Nat \subseteq P
  <2> HIDE DEF P
  <2> QED BY <1>1, <1>2, SetInduction
<1> QED BY <1>3

LEMMA ChainRows ==
  ASSUME NEW insts
  PROVE  \E f : /\ \A k \in 0..Replicas : f[k] = Row(insts, f, k)
               /\ \A n : getMasterForNode(insts, n) = f[Replicas][n]
<1> DEFINE f == CHOOSE g : g = [k \in 0..Replicas |-> Row(insts, g, k)]
<1>1. \E g : g = [k \in 0..Replicas |-> Row(insts, g, k)]
  BY RowsExist, FailoverAssumption
<1>2. f = [k \in 0..Replicas |-> Row(insts, f, k)]
  BY <1>1
<1>3. \A n : getMasterForNode(insts, n) = f[Replicas][n]
  BY DEF getMasterForNode, Row
<1> HIDE DEF f
<1>4. ASSUME NEW k \in 0..Replicas PROVE f[k] = Row(insts, f, k)
  BY ONLY <1>2, <1>4, Zenon
<1> QED BY <1>3, <1>4

\* A chain ends at a server without a source or at a co-master.
LEMMA ChainEnds ==
  ASSUME ServerType, NEW insts, NEW n \in Ordinals
  PROVE  LET m == getMasterForNode(insts, n)
         IN m = None \/ (m \in Ordinals /\ (node[m].src = None \/ IsCoMaster(m)))
<1> DEFINE End(m) == m = None \/ (m \in Ordinals /\ (node[m].src = None \/ IsCoMaster(m)))
<1>1. PICK f : /\ \A k \in 0..Replicas : f[k] = Row(insts, f, k)
               /\ \A i : getMasterForNode(insts, i) = f[Replicas][i]
  BY ChainRows
<1>2. \A m \in Ordinals : node[m].src \in Ordinals \cup {None}
  BY DEF ServerType, Node
<1> DEFINE P == {k \in Nat : k \in 0..Replicas => \A m \in Ordinals : End(f[k][m])}
<1>3. ASSUME NEW k \in 0..Replicas, NEW m \in Ordinals,
             k # 0 => \A i \in Ordinals : End(f[k - 1][i])
      PROVE  End(f[k][m])
  <2>1. f[k][m] = IF node[m].src = None THEN m
                  ELSE IF k = 0 \/ node[m].src \notin insts THEN None
                  ELSE IF IsCoMaster(m) THEN node[m].src
                  ELSE f[k - 1][node[m].src]
    <3>1. f[k][m] = Row(insts, f, k)[m]
      BY <1>1
    <3> QED BY <3>1 DEF Row
  <2>2. CASE node[m].src = None
    BY <2>1, <2>2
  <2>3. CASE node[m].src # None /\ (k = 0 \/ node[m].src \notin insts)
    BY <2>1, <2>3
  <2>4. CASE node[m].src # None /\ k # 0 /\ node[m].src \in insts /\ IsCoMaster(m)
    <3>1. f[k][m] = node[m].src /\ node[m].src \in Ordinals
      BY <1>2, <2>1, <2>4
    <3>2. node[node[m].src].src = m /\ m # None
      BY <2>4, NoneIsNoOrdinal DEF IsCoMaster
    <3>3. IsCoMaster(node[m].src)
      BY <3>2 DEF IsCoMaster
    <3> QED BY <3>1, <3>3
  <2>5. CASE node[m].src # None /\ k # 0 /\ node[m].src \in insts /\ ~IsCoMaster(m)
    BY <1>2, <1>3, <2>1, <2>5
  <2> QED BY <2>2, <2>3, <2>4, <2>5
<1> HIDE DEF End
<1>4. 0 \in P
  BY <1>3
<1>5. ASSUME NEW k \in Nat, k \in P PROVE k + 1 \in P
  <2>1. CASE k + 1 \in 0..Replicas
    <3>1. k \in 0..Replicas /\ (k + 1) - 1 = k /\ k + 1 # 0
      BY <2>1, FailoverAssumption
    <3>2. \A i \in Ordinals : End(f[(k + 1) - 1][i])
      BY <1>5, <3>1
    <3>3. \A m \in Ordinals : End(f[k + 1][m])
      BY <1>3, <2>1, <3>2
    <3> QED BY <3>3
  <2>2. CASE k + 1 \notin 0..Replicas
    BY <2>2
  <2> QED BY <2>1, <2>2
<1>6. Nat \subseteq P
  <2> HIDE DEF P
  <2> QED BY <1>4, <1>5, SetInduction
<1>7. Replicas \in 0..Replicas /\ Replicas \in Nat
  BY FailoverAssumption
<1>8. End(f[Replicas][n])
  BY <1>6, <1>7
<1> QED BY <1>1, <1>8 DEF End

\* The first link of a chain.
LEMMA FirstLink ==
  ASSUME NEW insts, NEW n \in Ordinals
  PROVE  /\ node[n].src = None => getMasterForNode(insts, n) = n
         /\ IsCoMaster(n) =>
              getMasterForNode(insts, n) = IF node[n].src \in insts THEN node[n].src ELSE None
<1>1. PICK f : /\ \A k \in 0..Replicas : f[k] = Row(insts, f, k)
               /\ \A i : getMasterForNode(insts, i) = f[Replicas][i]
  BY ChainRows
<1>2. Replicas \in 0..Replicas /\ Replicas # 0
  BY FailoverAssumption
<1>3. getMasterForNode(insts, n) = Row(insts, f, Replicas)[n]
  BY <1>1, <1>2
<1> QED BY <1>2, <1>3 DEF Row, IsCoMaster

\* The master the instances of the alias agree on is the alias's.
LEMMA DeterminedIsRoot ==
  ASSUME ServerType, DetermineMaster(AliasCluster) # None
  PROVE  DetermineMaster(AliasCluster) = root
<1> DEFINE m == DetermineMaster(AliasCluster)
<1>1. m \in AliasCluster /\ getMasterForNode(AliasCluster, m) = m
  BY DEF DetermineMaster
<1> HIDE DEF m
<1>2. m \in Ordinals /\ getMasterForNode(Ordinals, m) = root
  BY <1>1 DEF AliasCluster
<1>3. node[m].src = None \/ IsCoMaster(m)
  BY <1>1, <1>2, ChainEnds, NoneIsNoOrdinal
<1>4. CASE node[m].src = None
  BY <1>2, <1>4, FirstLink DEF m
<1>5. CASE IsCoMaster(m)
  <2>1. node[m].src = m
    BY <1>1, <1>2, <1>5, FirstLink, NoneIsNoOrdinal
  <2> QED BY <1>2, <1>5, <2>1, FirstLink DEF m
<1> QED BY <1>3, <1>4, <1>5

\* Orchestrator's answers name the master of the alias's topology or none.
LEMMA AnswerIsRoot ==
  ASSUME ServerType
  PROVE  getFromOrchestrator \in {root, None}
<1> DEFINE m == DetermineMaster(AliasCluster)
<1>1. m # None => m = root
  BY DeterminedIsRoot
<1>2. AliasMaster \in {root, None}
  BY DEF AliasMaster
<1> HIDE DEF m
<1>3. getFromOrchestrator = IF AliasMaster # None /\ m # None /\ AliasMaster # m THEN None
                            ELSE IF AliasMaster # None THEN AliasMaster ELSE m
  BY DEF getFromOrchestrator, m
<1> QED BY <1>1, <1>2, <1>3

-----------------------------------------------------------------------------
(* One writable server.                                                    *)

\* Only the master of the topology runs and is writable.
RootWrites == \A n \in Ordinals : node[n].up /\ ~node[n].ro => n = root
\* The servers a synchronisation would still reach have run since it read them;
\* the master it found is among them only if it is the master still.
ViewCurrent == orc.busy =>
  /\ \A n \in orc.view.settled : node[n].up
  /\ orc.view.master \in orc.view.settled => orc.view.master = root
\* A recovery that is under way is of a master that is down.
RootDown == recovery # "none" => ~node[root].up

WriterInv == StatusInv /\ RootWrites /\ ViewCurrent /\ RootDown

\* The steps that leave every server as much up and at least as read-only.
LEMMA NoNewWriter ==
  ASSUME WriterInv, UNCHANGED <<root, recovery>>,
         \A n \in Ordinals : node'[n].up = node[n].up,
         \A n \in Ordinals : node'[n].up /\ ~node'[n].ro /\ node[n].ro => n = root,
         orc' = orc \/ orc' = OrcDone \/ orc' = [orc EXCEPT !.fresh = FALSE]
  PROVE  RootWrites' /\ ViewCurrent' /\ RootDown'
<1>1. RootWrites'
  BY DEF WriterInv, RootWrites
<1>2. RootDown'
  BY DEF WriterInv, RootDown, StatusInv, ServerType
<1>3. orc'.busy => orc'.view = orc.view /\ orc.busy
  BY DEF WriterInv, StatusInv, OrcType, OrcDone
<1>4. orc.view.settled \subseteq Ordinals
  BY DEF WriterInv, StatusInv, OrcType, View
<1>5. ViewCurrent'
  BY <1>3, <1>4 DEF WriterInv, ViewCurrent
<1> QED BY <1>1, <1>2, <1>5

\* markReadOnlyNodesInOrc makes none writable but the master of the topology.
LEMMA MarkedWriter ==
  ASSUME WriterInv, orc.busy, NEW n \in Ordinals,
         node'[n] = node[n] \/ node'[n] = [node[n] EXCEPT !.ro = MarkReadOnlyNodes(orc.hand, orc.view, n)]
  PROVE  node'[n].up = node[n].up /\ (~node'[n].ro /\ node[n].ro => n = root)
<1>1. node \in [Ordinals -> Node] /\ orc.hand \in Cluster /\ orc.view \in View
  BY DEF WriterInv, StatusInv, OrcType, ServerType
<1>2. n \in orc.view.settled /\ n = orc.view.master => n = root
  BY DEF WriterInv, ViewCurrent
<1>3. CASE node'[n] = node[n]
  BY <1>3
<1>4. CASE node'[n] = [node[n] EXCEPT !.ro = MarkReadOnlyNodes(orc.hand, orc.view, n)]
  BY <1>1, <1>2, <1>4, MarkedType
<1> QED BY <1>3, <1>4

LEMMA WriterStep == WriterInv /\ [Next]_vars => WriterInv'
<1> SUFFICES ASSUME WriterInv, [Next]_vars PROVE RootWrites' /\ ViewCurrent' /\ RootDown'
  BY StatusStep DEF WriterInv
<1>0. StatusInv /\ node \in [Ordinals -> Node] /\ root \in Ordinals
  BY DEF WriterInv, StatusInv, ServerType
<1>a. \A n \in Ordinals : node[n] \in Node
  BY <1>0
<1>1. CASE OrcRead
  <2>1. ServerType
    BY <1>0 DEF StatusInv
  <2>2. getFromOrchestrator \in {root, None}
    BY <2>1, AnswerIsRoot
  <2>3. AliasCluster \subseteq Ordinals
    BY DEF AliasCluster
  <2>4. /\ orc'.view.master = getFromOrchestrator
        /\ orc'.view.settled = {n \in AliasCluster : node[n].up /\ node[n].settled}
        /\ UNCHANGED <<node, root, recovery>>
    BY <1>1 DEF OrcRead
  <2>5. ViewCurrent'
    BY <2>2, <2>3, <2>4, NoneIsNoOrdinal DEF ViewCurrent
  <2> QED BY <2>4, <2>5 DEF WriterInv, RootWrites, RootDown
<1>2. CASE OrcAct
  <2>1. \A n \in Ordinals : node'[n].up = node[n].up /\ (~node'[n].ro /\ node[n].ro => n = root)
    BY <1>2, MarkedWriter DEF OrcAct
  <2> QED BY <1>2, <2>1, NoNewWriter DEF OrcAct
<1>3. CASE OrcFails
  <2>1. \A n \in Ordinals :
          node'[n] = node[n] \/ node'[n] = [node[n] EXCEPT !.ro = MarkReadOnlyNodes(orc.hand, orc.view, n)]
    BY <1>3 DEF OrcFails
  <2>2. \A n \in Ordinals : node'[n].up = node[n].up /\ (~node'[n].ro /\ node[n].ro => n = root)
    BY <1>3, <2>1, MarkedWriter DEF OrcFails
  <2> QED BY <1>3, <2>2, NoNewWriter DEF OrcFails
<1>4. CASE NodeInit \/ NodeInitFails
  <2>1. init.node \in Ordinals /\ init.master \in Ordinals
    BY <1>0, <1>4 DEF NodeInit, NodeInitFails, StatusInv, InitType
  <2>2. PICK k \in 0..4 : node' = [node EXCEPT ![init.node] = Initialized(init.node, init.master, k)]
    BY <1>4 DEF NodeInit, NodeInitFails
  <2>3. /\ Initialized(init.node, init.master, k).up = node[init.node].up
        /\ node[init.node].ro => Initialized(init.node, init.master, k).ro
    BY <1>0, <2>1, InitializedType
  <2>4. \A n \in Ordinals : node'[n].up = node[n].up /\ (~node'[n].ro /\ node[n].ro => n = root)
    BY <1>0, <2>1, <2>2, <2>3
  <2> QED BY <1>4, <2>4, NoNewWriter DEF NodeInit, NodeInitFails
<1>5. CASE LabelEnd \/ LabelFails
  <2>1. orc' = orc \/ orc' = [orc EXCEPT !.fresh = FALSE]
    BY <1>5 DEF LabelEnd, LabelFails, LabelWrite
  <2> QED BY <1>5, <2>1, NoNewWriter DEF LabelEnd, LabelFails
<1>6. CASE Detect
  BY <1>6 DEF Detect, WriterInv, RootWrites, ViewCurrent, RootDown
<1>7. CASE Hook
  <2>1. UNCHANGED <<node, root>> /\ ~node[root].up
    BY <1>7 DEF Hook, Hooked, WriterInv, RootDown
  <2>2. orc' = orc \/ orc' = [orc EXCEPT !.fresh = FALSE]
    BY <1>7 DEF Hook
  <2>3. orc'.busy = orc.busy /\ orc'.view = orc.view
    BY <1>0, <2>2 DEF StatusInv, OrcType
  <2> QED BY <2>1, <2>3 DEF WriterInv, RootWrites, ViewCurrent, RootDown
<1>8. CASE HookFails
  <2>1. UNCHANGED <<node, root, orc>> /\ ~node[root].up
    BY <1>8 DEF HookFails, Hooked, WriterInv, RootDown
  <2> QED BY <2>1 DEF WriterInv, RootWrites, ViewCurrent, RootDown
<1>9. ASSUME NEW b \in Ordinals, Promote(b)
      PROVE  RootWrites' /\ ViewCurrent' /\ RootDown'
  <2>1. ~node[root].up /\ root' = b /\ recovery' = "none" /\ orc' = orc /\ node[b].up
    BY <1>9 DEF Promote, WriterInv, RootDown
  <2>2. \A n \in Ordinals : n # b => node'[n].up = node[n].up /\ node'[n].ro = node[n].ro
    BY <1>0, <1>9, OtherTypes DEF Promote
  <2>3. node'[b].up
    BY <1>9 DEF Promote, Promoted
  <2>4. RootWrites'
    BY <2>1, <2>2 DEF WriterInv, RootWrites
  <2>5. ViewCurrent'
    <3>1. orc.view.settled \subseteq Ordinals
      BY <1>0 DEF StatusInv, OrcType, View
    <3> QED BY <2>1, <2>2, <2>3, <3>1 DEF WriterInv, ViewCurrent
  <2> QED BY <2>1, <2>4, <2>5 DEF RootDown
<1>10. ASSUME NEW n \in Ordinals, Crash(n)
       PROVE  RootWrites' /\ ViewCurrent' /\ RootDown'
  <2>1. UNCHANGED <<root, recovery>>
    BY <1>10 DEF Crash
  <2>2. /\ \A m \in Ordinals : node'[m].ro = node[m].ro
        /\ \A m \in Ordinals : node'[m].up <=> (node[m].up /\ m # n)
    BY <1>0, <1>a, <1>10 DEF Crash, Node
  <2>3. /\ orc'.busy = orc.busy /\ orc'.view.master = orc.view.master
        /\ orc'.view.settled = orc.view.settled \ {n}
    BY <1>0, <1>10, CrashType DEF Crash, StatusInv
  <2>4. orc.view.settled \subseteq Ordinals
    BY <1>0 DEF StatusInv, OrcType, View
  <2>5. ViewCurrent'
    BY <2>1, <2>2, <2>3, <2>4 DEF WriterInv, ViewCurrent
  <2> QED BY <1>0, <2>1, <2>2, <2>5 DEF WriterInv, RootWrites, RootDown
<1>11. ASSUME NEW n \in Ordinals, Start(n)
       PROVE  RootWrites' /\ ViewCurrent' /\ RootDown'
  <2>1. /\ UNCHANGED <<root, orc>>
        /\ recovery' = IF n = root THEN "none" ELSE recovery
    BY <1>11 DEF Start
  <2>2. /\ \A m \in Ordinals : m # n => node'[m] = node[m]
        /\ node'[n].up /\ node'[n].ro
    BY <1>0, <1>11 DEF Start, Started
  <2>3. orc.view.settled \subseteq Ordinals
    BY <1>0 DEF StatusInv, OrcType, View
  <2>4. RootWrites'
    BY <2>1, <2>2 DEF WriterInv, RootWrites
  <2>5. ViewCurrent'
    BY <2>1, <2>2, <2>3 DEF WriterInv, ViewCurrent
  <2>6. RootDown'
    BY <1>0, <2>1, <2>2 DEF WriterInv, RootDown
  <2> QED BY <2>4, <2>5, <2>6
<1>12. ASSUME NEW n \in Ordinals, Settle(n)
       PROVE  RootWrites' /\ ViewCurrent' /\ RootDown'
  <2>1. \A m \in Ordinals : node'[m].up = node[m].up /\ node'[m].ro = node[m].ro
    BY <1>0, <1>a, <1>12 DEF Settle, Node
  <2> QED BY <1>12, <2>1, NoNewWriter DEF Settle
<1>13. CASE UNCHANGED <<node, root, recovery, orc>>
  BY <1>13, NoNewWriter
<1>14. CASE LabelBegin \/ Deliver \/ UNCHANGED vars
  BY <1>13, <1>14 DEF LabelBegin, Deliver, vars
<1>15. ASSUME NEW n \in Ordinals, NodeRefresh(n) \/ LabelPod(n)
       PROVE  RootWrites' /\ ViewCurrent' /\ RootDown'
  BY <1>13, <1>15 DEF NodeRefresh, LabelPod
<1> QED
  BY <1>1, <1>2, <1>3, <1>4, <1>5, <1>6, <1>7, <1>8, <1>9, <1>10, <1>11, <1>12, <1>14, <1>15
  DEF Next, OperatorStep, OrchestratorStep, FaultStep

LEMMA WriterStart == Init => WriterInv
<1> SUFFICES ASSUME Init PROVE RootWrites /\ ViewCurrent /\ RootDown
  BY StatusStart DEF WriterInv
<1> QED BY DEF Init, OrcDone, RootWrites, ViewCurrent, RootDown

\* At no time two servers run writable, for any number of replicas, crashes and
\* failed hooks: orchestrator's answers name the master of the topology or
\* none, and a server that has crashed since is not reached by what was decided
\* on them.
THEOREM SingleWriter == Spec => []OneWriter
<1>1. Spec => []WriterInv
  BY WriterStart, WriterStep, PTL DEF Spec
<1>2. WriterInv => OneWriter
  <2> SUFFICES ASSUME WriterInv PROVE OneWriter
    OBVIOUS
  <2> DEFINE S == {n \in Ordinals : node[n].up /\ ~node[n].ro}
  <2>1. \A m, n \in S : m = n
    BY DEF WriterInv, RootWrites
  <2> HIDE DEF S
  <2>2. Cardinality(S) <= 1
    BY <2>1, AtMostOne
  <2> QED BY <2>2 DEF S, OneWriter
<1> QED BY <1>1, <1>2, PTL

-----------------------------------------------------------------------------
(* What a step may do to the status and to the copies of it.               *)

\* The status is written from the orchestrator controller's copy, from the
\* MysqlCluster controller's or by orc-helper; every other copy is then old.
LEMMA ClusterWrites ==
  ASSUME StatusInv, Next
  PROVE  \/ cluster' = cluster
         \/ /\ OrcAct \/ OrcFails
            /\ orc.busy /\ orc.fresh /\ ~orc'.busy /\ ~label'.fresh
            /\ cluster' = UpdatedStatus(orc.hand, orc.view)
         \/ /\ LabelEnd \/ LabelFails
            /\ label.busy /\ label.fresh /\ ~label'.busy /\ ~orc'.fresh
            /\ cluster' = label.hand
         \/ /\ Hook
            /\ ~orc'.fresh /\ ~label'.fresh
            /\ cluster' = [cluster EXCEPT !.fip = TRUE]
<1>0. OrcType /\ LabelType
  BY DEF StatusInv
<1>1. CASE OrcAct \/ OrcFails
  <2>1. orc.busy /\ ~orc'.busy
    BY <1>1, DoneType DEF OrcAct, OrcFails
  <2>2. CASE UNCHANGED <<api, label>>
    BY <2>2 DEF api
  <2>3. CASE OrcWrite(UpdatedStatus(orc.hand, orc.view))
    <3>1. CASE UNCHANGED <<api, label>>
      BY <3>1 DEF api
    <3>2. CASE /\ orc.fresh /\ Store(UpdatedStatus(orc.hand, orc.view))
               /\ label' = [label EXCEPT !.fresh = FALSE]
      <4>1. ~label'.fresh
        BY <1>0, <3>2 DEF LabelType
      <4>2. cluster' = UpdatedStatus(orc.hand, orc.view)
        BY <3>2 DEF Store
      <4> QED BY <1>1, <2>1, <3>2, <4>1, <4>2
    <3> QED BY <2>3, <3>1, <3>2 DEF OrcWrite
  <2> QED BY <1>1, <2>2, <2>3 DEF OrcAct, OrcFails
<1>2. CASE LabelEnd \/ LabelFails
  <2>1. label.busy /\ ~label'.busy /\ LabelWrite
    BY <1>2, DoneType DEF LabelEnd, LabelFails
  <2>2. CASE UNCHANGED <<api, orc>>
    BY <2>2 DEF api
  <2>3. CASE label.fresh /\ Store(label.hand) /\ orc' = [orc EXCEPT !.fresh = FALSE]
    <3>1. ~orc'.fresh
      BY <1>0, <2>3 DEF OrcType
    <3>2. cluster' = label.hand
      BY <2>3 DEF Store
    <3> QED BY <1>2, <2>1, <2>3, <3>1, <3>2
  <2> QED BY <2>1, <2>2, <2>3 DEF LabelWrite
<1>3. CASE Hook
  <2>1. CASE cluster.fip
    BY <1>3, <2>1 DEF Hook, api
  <2>2. CASE ~cluster.fip
    <3>1. ~orc'.fresh /\ ~label'.fresh
      BY <1>0, <1>3, <2>2 DEF Hook, OrcType, LabelType
    <3>2. cluster' = [cluster EXCEPT !.fip = TRUE]
      BY <1>3, <2>2 DEF Hook, Store
    <3> QED BY <1>3, <3>1, <3>2
  <2> QED BY <2>1, <2>2
<1>4. CASE OrcRead \/ NodeInit \/ NodeInitFails \/ LabelBegin \/ Detect \/ HookFails \/ Deliver
  BY <1>4 DEF OrcRead, NodeInit, NodeInitFails, LabelBegin, Detect, HookFails, Deliver, api
<1>5. ASSUME NEW n \in Ordinals,
             NodeRefresh(n) \/ LabelPod(n) \/ Promote(n) \/ Crash(n) \/ Start(n) \/ Settle(n)
      PROVE  cluster' = cluster
  BY <1>5 DEF NodeRefresh, LabelPod, Promote, Crash, Start, Settle, api
<1> QED BY <1>1, <1>2, <1>3, <1>4, <1>5 DEF Next, OperatorStep, OrchestratorStep, FaultStep

\* The informer and the versions on their way to it.
LEMMA StreamSteps ==
  ASSUME Next
  PROVE  \/ UNCHANGED api
         \/ cache' = cache /\ stream' = Append(stream, cluster')
         \/ /\ stream # <<>> /\ cluster' = cluster
            /\ cache' = Head(stream) /\ stream' = Tail(stream)
<1>1. CASE OrcAct \/ OrcFails
  BY <1>1 DEF OrcAct, OrcFails, OrcWrite, Store, api
<1>2. CASE LabelEnd \/ LabelFails
  BY <1>2 DEF LabelEnd, LabelFails, LabelWrite, Store, api
<1>3. CASE Hook
  BY <1>3 DEF Hook, Store, api
<1>4. CASE OrcRead \/ NodeInit \/ NodeInitFails \/ LabelBegin \/ Detect \/ HookFails \/ Deliver
  BY <1>4 DEF OrcRead, NodeInit, NodeInitFails, LabelBegin, Detect, HookFails, Deliver, api
<1>5. ASSUME NEW n \in Ordinals,
             NodeRefresh(n) \/ LabelPod(n) \/ Promote(n) \/ Crash(n) \/ Start(n) \/ Settle(n)
      PROVE  UNCHANGED api
  BY <1>5 DEF NodeRefresh, LabelPod, Promote, Crash, Start, Settle, api
<1> QED BY <1>1, <1>2, <1>3, <1>4, <1>5 DEF Next, OperatorStep, OrchestratorStep, FaultStep

\* The orchestrator controller's copy and view, and the MysqlCluster
\* controller's copy, stay as they were read; they only grow old.
OrcKept ==
  /\ orc'.busy = orc.busy /\ orc'.hand = orc.hand /\ (orc'.fresh => orc.fresh)
  /\ orc'.view.insts = orc.view.insts /\ orc'.view.stale = orc.view.stale
  /\ orc'.view.master = orc.view.master /\ orc'.view.seen = orc.view.seen
  /\ orc'.view.ro = orc.view.ro /\ orc'.view.settled \subseteq orc.view.settled
LabelKept == label'.busy = label.busy /\ label'.hand = label.hand /\ (label'.fresh => label.fresh)

LEMMA OlderOrc ==
  ASSUME OrcType, orc' = [orc EXCEPT !.fresh = FALSE] \/ orc' = orc
  PROVE  OrcKept
BY DEF OrcType, OrcKept

LEMMA OlderLabel ==
  ASSUME LabelType, label' = [label EXCEPT !.fresh = FALSE] \/ label' = label
  PROVE  LabelKept
BY DEF LabelType, LabelKept

LEMMA OrcSteps ==
  ASSUME StatusInv, Next
  PROVE  ~orc'.busy \/ OrcRead \/ OrcKept
<1>0. OrcType
  BY DEF StatusInv
<1>1. CASE OrcAct \/ OrcFails
  BY <1>1, DoneType DEF OrcAct, OrcFails
<1>2. CASE LabelEnd \/ LabelFails
  BY <1>0, <1>2, OlderOrc DEF LabelEnd, LabelFails, LabelWrite
<1>3. CASE Hook
  BY <1>0, <1>3, OlderOrc DEF Hook
<1>4. CASE NodeInit \/ NodeInitFails \/ LabelBegin \/ Detect \/ HookFails \/ Deliver
  BY <1>0, <1>4, OlderOrc DEF NodeInit, NodeInitFails, LabelBegin, Detect, HookFails, Deliver
<1>5. ASSUME NEW n \in Ordinals, NodeRefresh(n) \/ LabelPod(n) \/ Promote(n) \/ Start(n) \/ Settle(n)
      PROVE  OrcKept
  BY <1>0, <1>5, OlderOrc DEF NodeRefresh, LabelPod, Promote, Start, Settle
<1>6. ASSUME NEW n \in Ordinals, Crash(n)
      PROVE  OrcKept
  <2>1. orc' = [orc EXCEPT !.view.settled = @ \ {n}]
    BY <1>6 DEF Crash
  <2> QED BY <1>0, <2>1 DEF OrcType, View, OrcKept
<1> QED BY <1>1, <1>2, <1>3, <1>4, <1>5, <1>6 DEF Next, OperatorStep, OrchestratorStep, FaultStep

LEMMA LabelSteps ==
  ASSUME StatusInv, Next
  PROVE  ~label'.busy \/ LabelBegin \/ LabelKept
<1>0. LabelType
  BY DEF StatusInv
<1>1. CASE OrcAct \/ OrcFails
  <2>1. label' = label \/ label' = [label EXCEPT !.fresh = FALSE]
    BY <1>1, OrcWriteKnown DEF OrcAct, OrcFails
  <2> QED BY <1>0, <2>1, OlderLabel
<1>2. CASE LabelEnd \/ LabelFails
  BY <1>2, DoneType DEF LabelEnd, LabelFails
<1>3. CASE Hook
  BY <1>0, <1>3, OlderLabel DEF Hook
<1>4. CASE OrcRead \/ NodeInit \/ NodeInitFails \/ Detect \/ HookFails \/ Deliver
  BY <1>0, <1>4, OlderLabel DEF OrcRead, NodeInit, NodeInitFails, Detect, HookFails, Deliver
<1>5. ASSUME NEW n \in Ordinals, NodeRefresh(n) \/ Promote(n) \/ Crash(n) \/ Start(n) \/ Settle(n)
      PROVE  LabelKept
  BY <1>0, <1>5, OlderLabel DEF NodeRefresh, Promote, Crash, Start, Settle
<1>6. ASSUME NEW n \in Ordinals, LabelPod(n)
      PROVE  LabelKept
  <2>1. label' = [label EXCEPT !.todo = @ \ {n}]
    BY <1>6 DEF LabelPod
  <2> QED BY <1>0, <2>1 DEF LabelType, LabelKept
<1> QED BY <1>1, <1>2, <1>3, <1>4, <1>5, <1>6 DEF Next, OperatorStep, OrchestratorStep, FaultStep

\* Every copy of the status, stored, on its way or in hand, is in S.
Everywhere(S) ==
  /\ cluster \in S /\ cache \in S /\ stream \in Seq(S)
  /\ orc.busy => orc.hand \in S
  /\ label.busy => label.hand \in S

\* What is true of the stored status after every write, and does not depend on
\* readyNodes, comes to be true of no copy it was not true of.
LEMMA CopiesFollow ==
  ASSUME NEW CONSTANT S, \A c \in S : \A r \in 0..Replicas : [c EXCEPT !.readyNodes = r] \in S,
         StatusInv, Next, Everywhere(S), cluster' \in S
  PROVE  Everywhere(S)'
<1>1. cache' \in S /\ stream' \in Seq(S)
  <2>0. cache \in S /\ stream \in Seq(S)
    BY DEF Everywhere
  <2>1. CASE UNCHANGED api
    BY <2>0, <2>1 DEF api
  <2>2. CASE cache' = cache /\ stream' = Append(stream, cluster')
    BY <2>0, <2>2
  <2>3. CASE stream # <<>> /\ cache' = Head(stream) /\ stream' = Tail(stream)
    BY <2>0, <2>3
  <2> QED BY <2>1, <2>2, <2>3, StreamSteps
<1>2. orc'.busy => orc'.hand \in S
  <2>1. CASE OrcRead
    BY <2>1 DEF OrcRead, Everywhere
  <2>2. CASE OrcKept
    BY <2>2 DEF OrcKept, Everywhere
  <2> QED BY <2>1, <2>2, OrcSteps
<1>3. label'.busy => label'.hand \in S
  <2>1. CASE LabelBegin
    <3>1. label'.hand = [cache EXCEPT !.readyNodes = ReadyReplicas]
      BY <2>1 DEF LabelBegin
    <3> QED BY <3>1, ReadyCount DEF Everywhere
  <2>2. CASE LabelKept
    BY <2>2 DEF LabelKept, Everywhere
  <2> QED BY <2>1, <2>2, LabelSteps
<1> QED BY <1>1, <1>2, <1>3 DEF Everywhere

-----------------------------------------------------------------------------
(* Copies the API server would accept.                                     *)

\* The last version under way is the stored one; without one the informer has it.
StreamEnds == IF stream = <<>> THEN cache = cluster ELSE stream[Len(stream)] = cluster
\* A copy that may still be written back is the stored status.
CopiesCurrent ==
  /\ orc.busy /\ orc.fresh => orc.hand = cluster
  /\ label.busy /\ label.fresh => /\ label.hand.master = cluster.master
                                  /\ label.hand.fip = cluster.fip
\* The server found writable was the master then.
WriterSeen == orc.busy => \A n \in orc.view.settled \ orc.view.ro : n = orc.view.master

CopyInv == WriterInv /\ StreamEnds /\ CopiesCurrent /\ WriterSeen

\* Orchestrator's answer is the master of the topology if that is writable.
LEMMA AnswerWritable ==
  ASSUME ServerType, ~node[root].ro
  PROVE  getFromOrchestrator = root
<1>1. AliasMaster = root /\ root # None
  BY NoneIsNoOrdinal DEF AliasMaster, ServerType
<1> DEFINE m == DetermineMaster(AliasCluster)
<1>2. m # None => m = root
  BY DeterminedIsRoot
<1> HIDE DEF m
<1>3. getFromOrchestrator = IF AliasMaster # None /\ m # None /\ AliasMaster # m THEN None
                            ELSE IF AliasMaster # None THEN AliasMaster ELSE m
  BY DEF getFromOrchestrator, m
<1> QED BY <1>1, <1>2, <1>3

LEMMA StreamKept == StatusInv /\ StreamEnds /\ Next => StreamEnds'
<1> SUFFICES ASSUME StatusInv, StreamEnds, Next PROVE StreamEnds'
  OBVIOUS
<1>0. stream \in Seq(Known)
  BY DEF StatusInv, ApiKnown
<1>1. CASE UNCHANGED api
  BY <1>1 DEF api, StreamEnds
<1>2. CASE cache' = cache /\ stream' = Append(stream, cluster')
  <2>1. cluster' \in Known
    BY StatusStep DEF StatusInv, ApiKnown
  <2>2. stream' # <<>> /\ stream'[Len(stream')] = cluster'
    BY <1>0, <1>2, <2>1
  <2> QED BY <2>2 DEF StreamEnds
<1>3. CASE stream # <<>> /\ cluster' = cluster /\ cache' = Head(stream) /\ stream' = Tail(stream)
  <2>1. stream[Len(stream)] = cluster
    BY <1>3 DEF StreamEnds
  <2>2. CASE Len(stream) = 1
    <3>1. stream' = <<>> /\ cache' = cluster
      BY <1>0, <1>3, <2>1, <2>2
    <3> QED BY <1>3, <3>1 DEF StreamEnds
  <2>3. CASE Len(stream) # 1
    <3>1. /\ Len(stream) \in Nat \ {0} /\ Len(stream') = Len(stream) - 1
          /\ \A i \in 1..Len(stream') : stream'[i] = stream[i + 1]
      BY <1>0, <1>3
    <3>2. Len(stream') \in 1..Len(stream') /\ Len(stream') + 1 = Len(stream)
      BY <2>3, <3>1
    <3>3. stream'[Len(stream')] = cluster
      BY <2>1, <3>1, <3>2
    <3>4. stream' # <<>>
      BY <3>2
    <3> QED BY <1>3, <3>3, <3>4 DEF StreamEnds
  <2> QED BY <2>2, <2>3
<1> QED BY <1>1, <1>2, <1>3, StreamSteps

LEMMA CopyStep == CopyInv /\ [Next]_vars => CopyInv'
<1> SUFFICES ASSUME CopyInv, [Next]_vars PROVE StreamEnds' /\ CopiesCurrent' /\ WriterSeen'
  BY WriterStep DEF CopyInv
<1>1. CASE UNCHANGED vars
  BY <1>1 DEF vars, CopyInv, StreamEnds, CopiesCurrent, WriterSeen
<1>2. CASE Next
  <2>0. StatusInv /\ WriterInv /\ ServerType
    BY DEF CopyInv, WriterInv, StatusInv
  <2>1. StreamEnds'
    BY <1>2, <2>0, StreamKept DEF CopyInv
  <2>2. orc'.busy /\ orc'.fresh => orc'.hand = cluster'
    <3>1. CASE OrcRead
      <4>1. orc'.hand = cache /\ cluster' = cluster
        BY <3>1 DEF OrcRead, api
      <4>2. \E v : orc' = [busy |-> TRUE, hand |-> cache, fresh |-> stream = <<>>, view |-> v]
        BY <3>1 DEF OrcRead
      <4>3. ASSUME orc'.fresh PROVE stream = <<>>
        <5>1. SUFFICES ASSUME stream # <<>> PROVE ~orc'.fresh
          BY <4>3
        <5>2. (stream = <<>>) = FALSE
          BY <5>1
        <5>3. \E v : orc' = [busy |-> TRUE, hand |-> cache, fresh |-> FALSE, view |-> v]
          BY <4>2, <5>2
        <5> QED BY <5>3
      <4> QED BY <4>1, <4>3 DEF CopyInv, StreamEnds
    <3>2. CASE OrcKept
      <4>1. CASE cluster' = cluster
        BY <3>2, <4>1 DEF OrcKept, CopyInv, CopiesCurrent
      <4>2. CASE ~orc'.busy \/ ~orc'.fresh
        BY <4>2
      <4> QED BY <1>2, <2>0, <4>1, <4>2, ClusterWrites
    <3> QED BY <1>2, <2>0, <3>1, <3>2, OrcSteps
  <2>3. label'.busy /\ label'.fresh => /\ label'.hand.master = cluster'.master
                                       /\ label'.hand.fip = cluster'.fip
    <3>1. CASE LabelBegin
      <4>1. /\ label'.hand = [cache EXCEPT !.readyNodes = ReadyReplicas]
            /\ label'.fresh <=> stream = <<>>
            /\ cluster' = cluster
        BY <3>1 DEF LabelBegin, api
      <4>2. cache \in Cluster
        BY <2>0, KnownType DEF StatusInv, ApiKnown
      <4>3. label'.hand.master = cache.master /\ label'.hand.fip = cache.fip
        BY <4>1, <4>2 DEF Cluster
      <4> QED BY <4>1, <4>3 DEF CopyInv, StreamEnds
    <3>2. CASE LabelKept
      <4>1. CASE cluster' = cluster
        BY <3>2, <4>1 DEF LabelKept, CopyInv, CopiesCurrent
      <4>2. CASE ~label'.busy \/ ~label'.fresh
        BY <4>2
      <4> QED BY <1>2, <2>0, <4>1, <4>2, ClusterWrites
    <3> QED BY <1>2, <2>0, <3>1, <3>2, LabelSteps
  <2>4. WriterSeen'
    <3>1. CASE OrcRead
      <4>1. /\ orc'.view.settled = {n \in AliasCluster : node[n].up /\ node[n].settled}
            /\ orc'.view.ro = {n \in AliasCluster : node[n].ro}
            /\ orc'.view.master = getFromOrchestrator
        BY <3>1 DEF OrcRead
      <4>2. ASSUME NEW n \in AliasCluster, node[n].up, ~node[n].ro
            PROVE  n = getFromOrchestrator
        <5>1. n = root
          BY <2>0, <4>2 DEF AliasCluster, WriterInv, RootWrites
        <5> QED BY <2>0, <4>2, <5>1, AnswerWritable
      <4> QED BY <4>1, <4>2 DEF WriterSeen
    <3>2. CASE OrcKept
      BY <3>2 DEF OrcKept, CopyInv, WriterSeen
    <3> QED BY <1>2, <2>0, <3>1, <3>2, OrcSteps DEF WriterSeen
  <2> QED BY <2>1, <2>2, <2>3, <2>4 DEF CopiesCurrent
<1> QED BY <1>1, <1>2

LEMMA CopyStart == Init => CopyInv
<1> SUFFICES ASSUME Init PROVE StreamEnds /\ CopiesCurrent /\ WriterSeen
  BY WriterStart DEF CopyInv
<1> QED BY DoneType DEF Init, StreamEnds, CopiesCurrent, WriterSeen

-----------------------------------------------------------------------------
(* One failure: the servers.                                               *)

\* One server has crashed, no hook has failed, and a dead master is not taken
\* for one seen just now.
OneFailure == crashes <= 1 /\ hookFailures = 0 /\ ~LateSeen

\* Before the crash, and until the master is back or replaced, the other servers
\* run and are configured, and pod 0 is the master.
Unrecovered ==
  crashes = 0 \/ ~node[root].up =>
    /\ root = 0 /\ init = Idle
    /\ \A n \in Ordinals : n # root => node[n].up /\ node[n].configured
Unbroken == crashes = 0 => node[root].up /\ node[root].configured
\* A promoted master stays.
Promotion ==
  root # 0 => /\ node[root].up /\ node[root].configured /\ ~node[root].ro
              /\ node[root].src = None /\ init.node # root
\* A server that is being configured is told the master of the topology, which runs.
ToldMaster == init # Idle => init.master = root /\ node[root].up

Servers == Unrecovered /\ Unbroken /\ Promotion /\ ToldMaster /\ NoStrayMaster

\* No step undoes a crash or the failure of a hook.
LEMMA FailuresStay ==
  ASSUME StatusInv, Next, OneFailure'
  PROVE  /\ OneFailure /\ ~HookFails
         /\ \A n \in Ordinals : Crash(n) => crashes = 0
         /\ crashes' = 0 => crashes = 0
         /\ (\A n \in Ordinals : ~Crash(n)) => crashes' = crashes
<1>0. crashes \in Nat /\ hookFailures \in Nat
  BY FailoverAssumption DEF StatusInv, Bounds
<1>1. /\ \/ crashes' = crashes
         \/ crashes' = crashes + 1 /\ \E n \in Ordinals : Crash(n)
      /\ hookFailures' = hookFailures \/ hookFailures' = hookFailures + 1
  <2>1. CASE OrcFails \/ NodeInitFails \/ LabelFails
    BY <2>1 DEF OrcFails, NodeInitFails, LabelFails, Fault
  <2>2. CASE OrcAct \/ LabelEnd \/ Hook \/ OrcRead \/ NodeInit \/ LabelBegin \/ Detect \/ Deliver
    BY <2>2 DEF OrcAct, LabelEnd, Hook, OrcRead, NodeInit, LabelBegin, Detect, Deliver, bounds
  <2>3. CASE HookFails
    BY <2>3 DEF HookFails
  <2>4. ASSUME NEW n \in Ordinals, NodeRefresh(n) \/ LabelPod(n) \/ Promote(n) \/ Start(n) \/ Settle(n)
        PROVE  UNCHANGED bounds
    BY <2>4 DEF NodeRefresh, LabelPod, Promote, Start, Settle
  <2>5. ASSUME NEW n \in Ordinals, Crash(n)
        PROVE  crashes' = crashes + 1 /\ hookFailures' = hookFailures
    BY <2>5 DEF Crash
  <2> QED
    BY <2>1, <2>2, <2>3, <2>4, <2>5 DEF Next, OperatorStep, OrchestratorStep, FaultStep, bounds
<1>2. \A n \in Ordinals : Crash(n) => crashes' = crashes + 1
  BY DEF Crash
<1>3. HookFails => hookFailures' = hookFailures + 1
  BY DEF HookFails
<1> QED BY <1>0, <1>1, <1>2, <1>3 DEF OneFailure

\* markReadOnlyNodesInOrc makes no server read-only.
LEMMA MarkedWritable ==
  ASSUME CopyInv, orc.busy, NEW n \in Ordinals,
         node'[n] = node[n] \/ node'[n] = [node[n] EXCEPT !.ro = MarkReadOnlyNodes(orc.hand, orc.view, n)]
  PROVE  /\ node'[n].up = node[n].up /\ node'[n].configured = node[n].configured
         /\ node'[n].src = node[n].src /\ (node'[n].ro => node[n].ro)
<1>1. node[n] \in Node
  BY DEF CopyInv, WriterInv, StatusInv, ServerType
<1>2. MarkReadOnlyNodes(orc.hand, orc.view, n) => node[n].ro
  BY DEF MarkReadOnlyNodes, CopyInv, WriterSeen
<1> DEFINE mark == MarkReadOnlyNodes(orc.hand, orc.view, n)
<1>3. CASE node'[n] = node[n]
  BY <1>3
<1>4. CASE node'[n] = [node[n] EXCEPT !.ro = mark]
  <2> HIDE DEF mark
  <2>1. /\ node'[n].up = node[n].up /\ node'[n].configured = node[n].configured
        /\ node'[n].src = node[n].src
    BY <1>1, <1>4 DEF Node
  <2>2. node'[n].ro = mark
    BY <1>1, <1>4 DEF Node
  <2> QED BY <1>2, <2>1, <2>2 DEF mark
<1> QED BY <1>3, <1>4

\* The steps that leave the topology and what runs in it alone.
LEMMA SameServers ==
  ASSUME Servers, UNCHANGED <<root, crashes>>, init' = init \/ init' = Idle, root \in Ordinals,
         \A n \in Ordinals : /\ node'[n].up = node[n].up /\ node'[n].configured = node[n].configured
                             /\ node'[n].src = node[n].src /\ (node'[n].ro => node[n].ro)
  PROVE  Servers'
<1>0. Idle.node \notin Ordinals
  BY NoneIsNoOrdinal DEF Idle
<1>1. Unrecovered' /\ Unbroken'
  BY DEF Servers, Unrecovered, Unbroken, Idle
<1>2. Promotion'
  BY <1>0 DEF Servers, Promotion
<1>3. ToldMaster'
  BY DEF Servers, ToldMaster, Idle
<1>4. NoStrayMaster'
  BY DEF Servers, NoStrayMaster, PodReady
<1> QED BY <1>1, <1>2, <1>3, <1>4 DEF Servers

LEMMA ServersStep ==
  ASSUME CopyInv, Servers, OneFailure, OneFailure', Next,
         \A n \in Ordinals : NodeRefresh(n) => GetMasterHost(cluster) = root
  PROVE  Servers'
<1>0. /\ StatusInv /\ node \in [Ordinals -> Node] /\ root \in Ordinals /\ InitType
      /\ Unrecovered /\ Unbroken /\ Promotion /\ ToldMaster /\ NoStrayMaster
  BY DEF CopyInv, WriterInv, StatusInv, ServerType, Servers
<1>a. \A n \in Ordinals : node[n] \in Node
  BY <1>0
<1>b. Idle.node \notin Ordinals
  BY NoneIsNoOrdinal DEF Idle
<1>1. CASE OrcAct \/ OrcFails
  <2>1. \A n \in Ordinals :
          node'[n] = node[n] \/ node'[n] = [node[n] EXCEPT !.ro = MarkReadOnlyNodes(orc.hand, orc.view, n)]
    BY <1>1 DEF OrcAct, OrcFails
  <2>2. orc.busy /\ UNCHANGED <<root, crashes, init>>
    BY <1>1 DEF OrcAct, OrcFails, Fault, bounds
  <2> QED BY <1>0, <2>1, <2>2, MarkedWritable, SameServers
<1>2. CASE NodeInit \/ NodeInitFails
  <2> DEFINE i == init.node
  <2>1. /\ i \in Ordinals /\ init.master = root /\ node[root].up /\ init # Idle
        /\ init' = Idle /\ UNCHANGED <<root, crashes>>
    BY <1>0, <1>2 DEF NodeInit, NodeInitFails, InitType, ToldMaster, Fault, bounds
  <2>2. crashes # 0
    BY <1>0, <2>1 DEF Unrecovered
  <2>3. PICK k \in 0..4 : node' = [node EXCEPT ![i] = Initialized(i, root, k)]
    BY <1>2, <2>1 DEF NodeInit, NodeInitFails
  <2> HIDE DEF i
  <2>4. \A n \in Ordinals : n # i => node'[n] = node[n]
    BY <1>0, <2>3
  <2>5. node'[i] = Initialized(i, root, k)
    BY <1>0, <2>1, <2>3
  <2>6. node'[i].up = node[i].up
    BY <2>5 DEF Initialized
  <2>7. Unrecovered' /\ Unbroken'
    BY <1>0, <2>1, <2>2, <2>4, <2>6 DEF Unrecovered, Unbroken
  <2>8. Promotion'
    BY <1>0, <1>b, <2>1, <2>4 DEF Promotion, i
  <2>9. i # root /\ node'[i].up /\ node'[i].configured => node'[i].src # None
    <3>1. root # None
      BY <1>0, NoneIsNoOrdinal
    <3>a. node'[i].configured = (node[i].configured \/ k >= 4)
      BY <2>5 DEF Initialized
    <3>2. ASSUME i # root, k < 2, node'[i].up, node'[i].configured PROVE node[i].src # None
      <4>1. ~(k >= 4)
        BY <3>2
      <4>2. node[i].configured /\ node[i].up
        BY <2>6, <3>a, <3>2, <4>1
      <4> QED BY <1>0, <2>1, <3>2, <4>2 DEF NoStrayMaster, PodReady
    <3>3. i # root => node'[i].src = IF k >= 2 THEN root ELSE node[i].src
      BY <2>5 DEF Initialized
    <3> QED BY <3>1, <3>2, <3>3
  <2>10. NoStrayMaster'
    BY <1>0, <2>1, <2>4, <2>9 DEF NoStrayMaster, PodReady
  <2>11. ToldMaster'
    BY <2>1 DEF ToldMaster, Idle
  <2> QED BY <2>7, <2>8, <2>10, <2>11 DEF Servers
<1>3. ASSUME NEW n \in Ordinals, NodeRefresh(n)
      PROVE  Servers'
  <2>1. /\ node[n].up /\ ~node[n].configured /\ init' = [node |-> n, master |-> root]
        /\ UNCHANGED <<node, root, crashes>>
    BY <1>3 DEF NodeRefresh, bounds
  <2>2. node[root].up /\ crashes # 0
    BY <1>0, <2>1 DEF Unrecovered, Unbroken
  <2>3. Unrecovered' /\ Unbroken' /\ ToldMaster'
    BY <2>1, <2>2 DEF Unrecovered, Unbroken, ToldMaster
  <2>4. Promotion'
    BY <1>0, <2>1 DEF Promotion
  <2>5. NoStrayMaster'
    BY <1>0, <2>1 DEF NoStrayMaster, PodReady
  <2> QED BY <2>3, <2>4, <2>5 DEF Servers
<1>4. ASSUME NEW b \in Ordinals, Promote(b)
      PROVE  Servers'
  <2>1. /\ ~node[root].up /\ root' = b /\ node[b].up /\ UNCHANGED <<init, crashes>>
    BY <1>4 DEF Promote, CopyInv, WriterInv, RootDown, bounds
  <2>2. b # root /\ node[b].configured /\ init = Idle /\ crashes # 0
    BY <1>0, <2>1 DEF Unrecovered, Unbroken
  <2>3. node'[b] = Promoted(b)
    BY <1>4 DEF Promote
  <2>4. ASSUME NEW n \in Ordinals, n # b
        PROVE  /\ node'[n].up = node[n].up
               /\ node'[n].src = b \/ node'[n].src = node[n].src
               /\ node'[n].configured = node[n].configured
    <3>1. node'[n] = node[n] \/ node'[n] = [node[n] EXCEPT !.src = b]
      BY <1>4, <2>4 DEF Promote
    <3> QED BY <1>a, <3>1 DEF Node
  <2>5. Unrecovered' /\ Unbroken'
    BY <2>1, <2>2, <2>3 DEF Promoted, Unrecovered, Unbroken
  <2>6. Promotion'
    BY <1>b, <2>1, <2>2, <2>3 DEF Promoted, Promotion
  <2>7. ToldMaster'
    BY <2>1, <2>2 DEF ToldMaster, Idle
  <2>8. b # None
    BY NoneIsNoOrdinal
  <2>9. NoStrayMaster'
    BY <1>0, <2>1, <2>4, <2>8 DEF NoStrayMaster, PodReady
  <2> QED BY <2>5, <2>6, <2>7, <2>9 DEF Servers
<1>5. ASSUME NEW n \in Ordinals, Crash(n)
      PROVE  Servers'
  <2>0. crashes = 0
    BY <1>0, <1>5, FailuresStay
  <2>a. crashes' = crashes + 1 /\ root' = root
    BY <1>5 DEF Crash
  <2>1. crashes = 0 /\ crashes' = 1 /\ root' = root
    BY <2>0, <2>a
  <2>2. root = 0 /\ init = Idle /\ \A m \in Ordinals : node[m].up /\ node[m].configured
    BY <1>0, <2>1 DEF Unrecovered, Unbroken
  <2>3. init' = Idle
    BY <1>5, <2>2 DEF Crash
  <2>4. /\ \A m \in Ordinals : m # n => node'[m] = node[m]
        /\ node'[n].src = node[n].src /\ ~node'[n].up
    BY <1>0, <1>a, <1>5 DEF Crash, Node
  <2>5. Unrecovered' /\ Unbroken'
    <3>1. CASE n = root
      BY <2>1, <2>2, <2>3, <2>4, <3>1 DEF Unrecovered, Unbroken
    <3>2. CASE n # root
      <4>1. node'[root'].up /\ crashes' # 0
        BY <1>0, <2>1, <2>2, <2>4, <3>2
      <4> QED BY <4>1 DEF Unrecovered, Unbroken
    <3> QED BY <3>1, <3>2
  <2>6. Promotion' /\ ToldMaster'
    BY <2>1, <2>2, <2>3 DEF Promotion, ToldMaster, Idle
  <2>7. NoStrayMaster'
    BY <1>0, <2>1, <2>4 DEF NoStrayMaster, PodReady
  <2> QED BY <2>5, <2>6, <2>7 DEF Servers
<1>6. ASSUME NEW n \in Ordinals, Start(n)
      PROVE  Servers'
  <2>1. ~node[n].up /\ UNCHANGED <<root, crashes, init>>
    BY <1>6 DEF Start, bounds
  <2>2. /\ \A m \in Ordinals : m # n => node'[m] = node[m]
        /\ node'[n].up /\ ~node'[n].configured
    BY <1>0, <1>6 DEF Start, Started
  <2>3. crashes # 0 /\ (n # root => node[root].up)
    BY <1>0, <2>1 DEF Unrecovered, Unbroken
  <2>4. node'[root].up
    BY <1>0, <2>2, <2>3
  <2>5. Unrecovered' /\ Unbroken'
    BY <2>1, <2>3, <2>4 DEF Unrecovered, Unbroken
  <2>6. Promotion'
    BY <1>0, <2>1, <2>2 DEF Promotion
  <2>7. ToldMaster'
    BY <1>0, <2>1, <2>4 DEF ToldMaster, Idle
  <2>8. NoStrayMaster'
    BY <1>0, <2>1, <2>2 DEF NoStrayMaster, PodReady
  <2> QED BY <2>5, <2>6, <2>7, <2>8 DEF Servers
<1>7. ASSUME NEW n \in Ordinals, Settle(n)
      PROVE  Servers'
  <2>1. \A m \in Ordinals : /\ node'[m].up = node[m].up /\ node'[m].configured = node[m].configured
                            /\ node'[m].src = node[m].src /\ node'[m].ro = node[m].ro
    BY <1>0, <1>a, <1>7 DEF Settle, Node
  <2> QED BY <1>0, <1>7, <2>1, SameServers DEF Settle, bounds
<1>8. CASE UNCHANGED <<node, root, crashes, init>>
  BY <1>0, <1>8, SameServers
<1>9. CASE LabelEnd \/ LabelFails \/ OrcRead \/ LabelBegin \/ Detect \/ Hook \/ HookFails \/ Deliver
  BY <1>8, <1>9
  DEF LabelEnd, LabelFails, Fault, OrcRead, LabelBegin, Detect, Hook, HookFails, Deliver, bounds
<1>10. ASSUME NEW n \in Ordinals, LabelPod(n)
       PROVE  Servers'
  BY <1>8, <1>10 DEF LabelPod, bounds
<1> QED
  BY <1>1, <1>2, <1>3, <1>4, <1>5, <1>6, <1>7, <1>9, <1>10
  DEF Next, OperatorStep, OrchestratorStep, FaultStep

-----------------------------------------------------------------------------
(* One failure: the status.                                                *)

NotFailing == {c \in Known : ~c.fip}
ZeroMaster == {c \in Known : \A n \in Ordinals : c.master[n] = "True" => n = 0}

\* FailoverInProgress is cleared after a synchronisation with this view.
Clears(v) == v.master # None /\ v.seen

\* Before the failure is detected nobody has heard of a failover.
Undetected == recovery = "none" /\ (crashes = 0 \/ ~node[root].up)
NotYet == Undetected => Everywhere(NotFailing)
\* The hooks set the condition, and no synchronisation that would be stored
\* clears it while the recovery is under way.
HookSeen == recovery \in {"pre", "go"} => cluster.fip
NotCleared == orc.busy /\ orc.fresh /\ orc.hand.fip /\ recovery # "none" => ~Clears(orc.view)
\* As long as pod 0 is the master no copy names another.
ZeroOnly == root = 0 => /\ Everywhere(ZeroMaster)
                        /\ orc.busy => orc.view.master \in {0, None}
\* Once the failover is over in the status, the status has the promoted master, and
\* so has whatever is written next.
RootNamed == root # 0 /\ ~cluster.fip => cluster.master[root] = "True"
RootFound == root # 0 /\ orc.busy /\ orc.fresh =>
               \/ orc.view.master = root /\ root \in orc.view.insts \ orc.view.stale
               \/ orc.hand.fip /\ ~Clears(orc.view)

Status == NotYet /\ HookSeen /\ NotCleared /\ ZeroOnly /\ RootNamed /\ RootFound

FailureInv == CopyInv /\ (OneFailure => Servers /\ Status)

\* A node that is not marked is told the master of the topology.
LEMMA RightHost ==
  ASSUME StatusInv, Status, NEW n \in Ordinals, NodeRefresh(n)
  PROVE  GetMasterHost(cluster) = root
<1>1. cluster \in Known /\ root \in Ordinals /\ ~cluster.fip
  BY DEF StatusInv, ApiKnown, ServerType, NodeRefresh
<1>2. CASE root = 0
  <2>1. \A m \in Ordinals : cluster.master[m] = "True" => m = 0
    BY <1>2 DEF Status, ZeroOnly, Everywhere, ZeroMaster
  <2>2. CASE \E m \in Ordinals : cluster.master[m] = "True"
    BY <1>1, <1>2, <2>1, <2>2, MasterHost
  <2>3. CASE ~\E m \in Ordinals : cluster.master[m] = "True"
    <3>1. {m \in Ordinals : cluster.master[m] = "True"} = {}
      BY <2>3
    <3> QED BY <1>2, <3>1 DEF GetMasterHost
  <2> QED BY <2>2, <2>3
<1>3. CASE root # 0
  BY <1>1, <1>3, MasterHost DEF Status, RootNamed
<1> QED BY <1>2, <1>3

\* How orchestrator's recovery and its master change.
LEMMA RecoverySteps ==
  ASSUME Next
  PROVE  \/ recovery' = recovery /\ root' = root
         \/ Detect /\ root' = root
         \/ Hook /\ root' = root
         \/ HookFails
         \/ \E b \in Ordinals : Promote(b)
         \/ \E n \in Ordinals : Start(n) /\ n = root /\ recovery' = "none" /\ root' = root
<1>1. CASE OrcAct \/ OrcFails \/ LabelEnd \/ LabelFails
  BY <1>1 DEF OrcAct, OrcFails, LabelEnd, LabelFails
<1>2. CASE OrcRead \/ NodeInit \/ NodeInitFails \/ LabelBegin \/ Detect \/ HookFails \/ Deliver \/ Hook
  BY <1>2 DEF OrcRead, NodeInit, NodeInitFails, LabelBegin, Detect, HookFails, Deliver, Hook
<1>3. ASSUME NEW n \in Ordinals, NodeRefresh(n) \/ LabelPod(n) \/ Crash(n) \/ Settle(n)
      PROVE  recovery' = recovery /\ root' = root
  BY <1>3 DEF NodeRefresh, LabelPod, Crash, Settle
<1>4. ASSUME NEW n \in Ordinals, Start(n)
      PROVE  \/ recovery' = recovery /\ root' = root
             \/ n = root /\ recovery' = "none" /\ root' = root
  BY <1>4 DEF Start
<1> QED BY <1>1, <1>2, <1>3, <1>4 DEF Next, OperatorStep, OrchestratorStep, FaultStep

\* A server goes down in a crash only and comes up in a start only.
LEMMA UpSteps ==
  ASSUME CopyInv, Next, \A n \in Ordinals : ~Crash(n) /\ ~Start(n) /\ ~Promote(n)
  PROVE  \A n \in Ordinals : node'[n].up = node[n].up
<1>0. StatusInv /\ node \in [Ordinals -> Node] /\ InitType
  BY DEF CopyInv, WriterInv, StatusInv, ServerType
<1>1. CASE OrcAct \/ OrcFails
  <2>1. \A n \in Ordinals :
          node'[n] = node[n] \/ node'[n] = [node[n] EXCEPT !.ro = MarkReadOnlyNodes(orc.hand, orc.view, n)]
    BY <1>1 DEF OrcAct, OrcFails
  <2>2. orc.busy
    BY <1>1 DEF OrcAct, OrcFails
  <2> QED BY <2>1, <2>2, MarkedWritable
<1>2. CASE NodeInit \/ NodeInitFails
  <2>1. init.node \in Ordinals /\ init.master \in Ordinals
    BY <1>0, <1>2 DEF NodeInit, NodeInitFails, InitType
  <2>2. PICK k \in 0..4 : node' = [node EXCEPT ![init.node] = Initialized(init.node, init.master, k)]
    BY <1>2 DEF NodeInit, NodeInitFails
  <2>3. Initialized(init.node, init.master, k).up = node[init.node].up
    BY <1>0, <2>1, InitializedType
  <2> QED BY <1>0, <2>1, <2>2, <2>3
<1>3. ASSUME NEW n \in Ordinals, Settle(n)
      PROVE  \A m \in Ordinals : node'[m].up = node[m].up
  <2>1. node[n] \in Node
    BY <1>0
  <2> QED BY <1>0, <1>3, <2>1 DEF Settle, Node
<1>4. CASE LabelEnd \/ LabelFails \/ OrcRead \/ LabelBegin \/ Detect \/ Hook \/ HookFails \/ Deliver
  BY <1>4 DEF LabelEnd, LabelFails, OrcRead, LabelBegin, Detect, Hook, HookFails, Deliver
<1>5. ASSUME NEW n \in Ordinals, NodeRefresh(n) \/ LabelPod(n)
      PROVE  UNCHANGED node
  BY <1>5 DEF NodeRefresh, LabelPod
<1> QED BY <1>1, <1>2, <1>3, <1>4, <1>5 DEF Next, OperatorStep, OrchestratorStep, FaultStep

LEMMA UndetectedBefore ==
  ASSUME CopyInv, Servers, OneFailure, OneFailure', Next, Undetected'
  PROVE  Undetected
<1>0. /\ StatusInv /\ node \in [Ordinals -> Node] /\ root \in Ordinals
      /\ Unrecovered /\ Unbroken /\ RootDown
  BY DEF CopyInv, WriterInv, StatusInv, ServerType, Servers
<1>1. CASE crashes = 0
  BY <1>0, <1>1 DEF Undetected, Unbroken, RootDown
<1>2. CASE crashes # 0
  <2>1. crashes' # 0 /\ ~node'[root'].up /\ recovery' = "none"
    BY <1>0, <1>2, FailuresStay DEF Undetected
  <2>2. \A n \in Ordinals : ~Crash(n)
    BY <1>0, <1>2, FailuresStay
  <2>3. ASSUME NEW b \in Ordinals, Promote(b) PROVE FALSE
    <3>1. root' = b /\ node'[b].up
      BY <2>3 DEF Promote, Promoted
    <3> QED BY <2>1, <3>1
  <2>4. ASSUME NEW n \in Ordinals, Start(n) PROVE Undetected
    <3>1. node'[n].up /\ root' = root
      BY <1>0, <2>4 DEF Start, Started
    <3>2. n # root
      BY <2>1, <3>1
    <3>3. recovery' = recovery /\ node'[root] = node[root]
      BY <1>0, <2>4, <3>2 DEF Start
    <3> QED BY <2>1, <3>1, <3>3 DEF Undetected
  <2>5. CASE \A n \in Ordinals : ~Start(n)
    <3>1. \A n \in Ordinals : node'[n].up = node[n].up
      BY <2>2, <2>3, <2>5, UpSteps
    <3>2. recovery' = recovery /\ root' = root
      <4>1. ~Hook /\ ~Detect
        BY <2>1 DEF Hook, Hooked, Detect
      <4>2. ~HookFails
        BY <1>0, FailuresStay
      <4> QED BY <2>3, <2>5, <4>1, <4>2, RecoverySteps
    <3> QED BY <1>0, <2>1, <3>1, <3>2 DEF Undetected
  <2> QED BY <2>4, <2>5
<1> QED BY <1>1, <1>2

\* What a synchronisation writes of the condition and of the masters.
LEMMA Updated ==
  ASSUME NEW c, NEW v
  PROVE  /\ UpdatedStatus(c, v).fip <=> (c.fip /\ ~Clears(v))
         /\ \A n \in Ordinals : UpdatedStatus(c, v).master[n] = "True" => n = v.master
         /\ \A n \in Ordinals : n = v.master /\ n \in v.insts \ v.stale =>
                                 UpdatedStatus(c, v).master[n] = "True"
<1>1. UpdatedStatus(c, v).fip = (c.fip /\ ~Clears(v))
  BY DEF UpdatedStatus, Clears
<1>2. UpdatedStatus(c, v).master = UpdatedMaster(c, v)
  BY DEF UpdatedStatus
<1>3. \A n \in Ordinals : UpdatedMaster(c, v)[n] = "True" => n = v.master
  BY DEF UpdatedMaster
<1>4. \A n \in Ordinals : n = v.master /\ n \in v.insts \ v.stale => UpdatedMaster(c, v)[n] = "True"
  BY DEF UpdatedMaster
<1> QED BY <1>1, <1>2, <1>3, <1>4

\* The two sets of copies do not depend on readyNodes.
LEMMA SetsClosed ==
  /\ \A c \in NotFailing : \A r \in 0..Replicas : [c EXCEPT !.readyNodes = r] \in NotFailing
  /\ \A c \in ZeroMaster : \A r \in 0..Replicas : [c EXCEPT !.readyNodes = r] \in ZeroMaster
<1>1. ASSUME NEW c \in Known, NEW r \in 0..Replicas
      PROVE  /\ [c EXCEPT !.readyNodes = r] \in Known
             /\ [c EXCEPT !.readyNodes = r].fip = c.fip
             /\ [c EXCEPT !.readyNodes = r].master = c.master
  <2>1. c \in Cluster /\ [c EXCEPT !.readyNodes = r] \in Known
    BY KnownType, KeepsKnown
  <2> QED BY <2>1 DEF Cluster
<1> QED BY <1>1 DEF NotFailing, ZeroMaster

LEMMA NotYetStep ==
  ASSUME CopyInv, Servers, Status, OneFailure, OneFailure', Next
  PROVE  NotYet'
<1> SUFFICES ASSUME Undetected' PROVE Everywhere(NotFailing)'
  BY DEF NotYet
<1>0. StatusInv /\ Everywhere(NotFailing)
  BY UndetectedBefore DEF CopyInv, WriterInv, Status, NotYet
<1>1. cluster' \in Known
  BY <1>0, StatusStep DEF StatusInv, ApiKnown
<1>2. ~cluster'.fip
  <2>1. CASE cluster' = cluster
    BY <1>0, <2>1 DEF Everywhere, NotFailing
  <2>2. CASE orc.busy /\ cluster' = UpdatedStatus(orc.hand, orc.view)
    BY <1>0, <2>2, Updated DEF Everywhere, NotFailing
  <2>3. CASE label.busy /\ cluster' = label.hand
    BY <1>0, <2>3 DEF Everywhere, NotFailing
  <2>4. ~Hook
    BY DEF Undetected, Hook, Hooked
  <2> QED BY <1>0, <2>1, <2>2, <2>3, <2>4, ClusterWrites
<1>3. cluster' \in NotFailing
  BY <1>1, <1>2 DEF NotFailing
<1> QED BY <1>0, <1>3, SetsClosed, CopiesFollow

LEMMA HookSeenStep ==
  ASSUME CopyInv, Servers, Status, OneFailure, OneFailure', Next
  PROVE  HookSeen'
<1> SUFFICES ASSUME recovery' \in {"pre", "go"} PROVE cluster'.fip
  BY DEF HookSeen
<1>0. StatusInv /\ ApiKnown /\ ~HookFails
  BY FailuresStay DEF CopyInv, WriterInv, StatusInv
<1>1. CASE Hook
  <2>1. CASE cluster.fip
    BY <1>1, <2>1 DEF Hook, api
  <2>2. CASE ~cluster.fip
    <3>1. cluster' = [cluster EXCEPT !.fip = TRUE] /\ cluster \in Cluster
      BY <1>0, <1>1, <2>2, KnownType DEF Hook, Store, ApiKnown
    <3> QED BY <3>1 DEF Cluster
  <2> QED BY <2>1, <2>2
<1>2. CASE ~Hook
  <2>1. recovery' = recovery
    <3>1. ~Detect /\ \A b \in Ordinals : ~Promote(b)
      BY DEF Detect, Promote
    <3> QED BY <1>0, <1>2, <3>1, RecoverySteps
  <2>2. cluster.fip
    BY <2>1 DEF Status, HookSeen
  <2>3. CASE cluster' = cluster
    BY <2>2, <2>3
  <2>4. CASE orc.busy /\ orc.fresh /\ cluster' = UpdatedStatus(orc.hand, orc.view)
    <3>1. orc.hand.fip
      BY <2>2, <2>4 DEF CopyInv, CopiesCurrent
    <3>2. ~Clears(orc.view)
      BY <2>1, <2>4, <3>1 DEF Status, NotCleared
    <3> QED BY <2>4, <3>1, <3>2, Updated
  <2>5. CASE label.busy /\ label.fresh /\ cluster' = label.hand
    BY <2>2, <2>5 DEF CopyInv, CopiesCurrent
  <2> QED BY <1>0, <1>2, <2>3, <2>4, <2>5, ClusterWrites
<1> QED BY <1>1, <1>2

LEMMA NotClearedStep ==
  ASSUME CopyInv, Servers, Status, OneFailure, OneFailure', Next
  PROVE  NotCleared'
<1> SUFFICES ASSUME orc'.busy, orc'.fresh, orc'.hand.fip, recovery' # "none"
             PROVE  ~Clears(orc'.view)
  BY DEF NotCleared, Clears
<1>0. StatusInv /\ ServerType /\ RootDown /\ ~HookFails
  BY FailuresStay DEF CopyInv, WriterInv, StatusInv
<1>1. CASE OrcRead
  <2>1. ~node[root].up
    BY <1>0, <1>1 DEF OrcRead, RootDown
  <2>2. orc'.view.master = getFromOrchestrator /\ orc'.view.seen \in MasterSeen(getFromOrchestrator)
    BY <1>1 DEF OrcRead
  <2>3. MasterSeen(getFromOrchestrator) = {FALSE}
    BY <1>0, <2>1, AnswerIsRoot DEF MasterSeen, OneFailure
  <2> QED BY <2>2, <2>3 DEF Clears
<1>2. CASE OrcKept
  <2>1. CASE recovery # "none"
    BY <1>2, <2>1 DEF OrcKept, Status, NotCleared, Clears
  <2>2. CASE recovery = "none"
    <3>1. Detect
      <4>1. ~Hook /\ \A b \in Ordinals : ~Promote(b)
        BY <2>2 DEF Hook, Hooked, Promote
      <4> QED BY <1>0, <2>2, <4>1, RecoverySteps
    <3>2. Undetected
      BY <2>2, <3>1 DEF Detect, Undetected
    <3>3. ~orc.hand.fip
      BY <1>2, <3>2 DEF OrcKept, Status, NotYet, Everywhere, NotFailing
    <3> QED BY <1>2, <3>3 DEF OrcKept
  <2> QED BY <2>1, <2>2
<1> QED BY <1>0, <1>1, <1>2, OrcSteps

LEMMA ZeroOnlyStep ==
  ASSUME CopyInv, Servers, Status, OneFailure, OneFailure', Next
  PROVE  ZeroOnly'
<1> SUFFICES ASSUME root' = 0
             PROVE  Everywhere(ZeroMaster)' /\ (orc'.busy => orc'.view.master \in {0, None})
  BY DEF ZeroOnly
<1>0. StatusInv /\ ServerType /\ RootDown
  BY DEF CopyInv, WriterInv, StatusInv
<1>1. ASSUME NEW b \in Ordinals, Promote(b) PROVE FALSE
  <2>1. root' = b /\ node[b].up /\ ~node[root].up
    BY <1>0, <1>1 DEF Promote, RootDown
  <2>2. root = 0
    BY <2>1 DEF Servers, Unrecovered
  <2> QED BY <2>1, <2>2
<1>2. root = 0
  <2>1. HookFails => root' = root
    BY DEF HookFails
  <2> QED BY <1>1, <2>1, RecoverySteps
<1>3. Everywhere(ZeroMaster) /\ (orc.busy => orc.view.master \in {0, None})
  BY <1>2 DEF Status, ZeroOnly
<1>4. cluster' \in Known
  BY <1>0, StatusStep DEF StatusInv, ApiKnown
<1>5. \A n \in Ordinals : cluster'.master[n] = "True" => n = 0
  <2>1. CASE cluster' = cluster
    BY <1>3, <2>1 DEF Everywhere, ZeroMaster
  <2>2. CASE orc.busy /\ cluster' = UpdatedStatus(orc.hand, orc.view)
    BY <1>3, <2>2, Updated, NoneIsNoOrdinal
  <2>3. CASE label.busy /\ cluster' = label.hand
    BY <1>3, <2>3 DEF Everywhere, ZeroMaster
  <2>4. CASE cluster' = [cluster EXCEPT !.fip = TRUE]
    <3>1. cluster'.master = cluster.master
      BY <1>0, <2>4, KnownType DEF StatusInv, ApiKnown, Cluster
    <3> QED BY <1>3, <3>1 DEF Everywhere, ZeroMaster
  <2> QED BY <1>0, <2>1, <2>2, <2>3, <2>4, ClusterWrites
<1>6. cluster' \in ZeroMaster
  BY <1>4, <1>5 DEF ZeroMaster
<1>7. Everywhere(ZeroMaster)'
  BY <1>0, <1>3, <1>6, SetsClosed, CopiesFollow
<1>8. orc'.busy => orc'.view.master \in {0, None}
  <2>1. CASE OrcRead
    <3>1. orc'.view.master = getFromOrchestrator
      BY <2>1 DEF OrcRead
    <3> QED BY <1>0, <1>2, <3>1, AnswerIsRoot
  <2>2. CASE OrcKept
    BY <1>3, <2>2 DEF OrcKept
  <2> QED BY <1>0, <2>1, <2>2, OrcSteps
<1> QED BY <1>7, <1>8

LEMMA RootNamedStep ==
  ASSUME CopyInv, Servers, Status, OneFailure, OneFailure', Next
  PROVE  RootNamed' /\ RootFound'
<1>0. StatusInv /\ ServerType /\ ~HookFails /\ root \in Ordinals
  BY FailuresStay DEF CopyInv, WriterInv, StatusInv, ServerType
<1>1. ASSUME NEW b \in Ordinals, Promote(b)
      PROVE  RootNamed' /\ RootFound'
  <2>1. cluster' = cluster /\ orc' = orc /\ recovery = "go"
    BY <1>1 DEF Promote, api
  <2>2. cluster.fip
    BY <2>1 DEF Status, HookSeen
  <2>3. orc.busy /\ orc.fresh => orc.hand.fip /\ ~Clears(orc.view)
    BY <2>1, <2>2 DEF CopyInv, CopiesCurrent, Status, NotCleared
  <2> QED BY <2>1, <2>2, <2>3 DEF RootNamed, RootFound, Clears
<1>2. CASE root' = root
  <2>1. RootNamed'
    <3> SUFFICES ASSUME root # 0, ~cluster'.fip PROVE cluster'.master[root] = "True"
      BY <1>2 DEF RootNamed
    <3>1. CASE cluster' = cluster
      BY <3>1 DEF Status, RootNamed
    <3>2. CASE orc.busy /\ orc.fresh /\ cluster' = UpdatedStatus(orc.hand, orc.view)
      <4>1. ~(orc.hand.fip /\ ~Clears(orc.view))
        BY <3>2, Updated
      <4>2. orc.view.master = root /\ root \in orc.view.insts \ orc.view.stale
        BY <3>2, <4>1 DEF Status, RootFound
      <4> QED BY <1>0, <3>2, <4>2, Updated
    <3>3. CASE label.busy /\ label.fresh /\ cluster' = label.hand
      BY <3>3 DEF CopyInv, CopiesCurrent, Status, RootNamed
    <3>4. CASE cluster' = [cluster EXCEPT !.fip = TRUE]
      <4>1. cluster'.fip
        BY <1>0, <3>4, KnownType DEF StatusInv, ApiKnown, Cluster
      <4> QED BY <4>1
    <3> QED BY <1>0, <3>1, <3>2, <3>3, <3>4, ClusterWrites
  <2>2. RootFound'
    <3> SUFFICES ASSUME root # 0, orc'.busy, orc'.fresh
                 PROVE  \/ orc'.view.master = root /\ root \in orc'.view.insts \ orc'.view.stale
                        \/ orc'.hand.fip /\ ~Clears(orc'.view)
      BY <1>2 DEF RootFound, Clears
    <3>1. CASE OrcRead
      <4>1. node[root].up /\ ~node[root].ro /\ node[root].src = None
        BY DEF Servers, Promotion
      <4>2. getFromOrchestrator = root
        BY <1>0, <4>1, AnswerWritable
      <4>3. root \in AliasCluster
        BY <1>0, <4>1, FirstLink DEF AliasCluster
      <4>4. /\ orc'.view.master = getFromOrchestrator /\ orc'.view.insts = AliasCluster
            /\ orc'.view.stale \in SUBSET {n \in AliasCluster : ~node[n].up}
        BY <3>1 DEF OrcRead
      <4> QED BY <4>1, <4>2, <4>3, <4>4
    <3>2. CASE OrcKept
      BY <3>2 DEF OrcKept, Status, RootFound, Clears
    <3> QED BY <1>0, <3>1, <3>2, OrcSteps
  <2> QED BY <2>1, <2>2
<1> QED BY <1>0, <1>1, <1>2, RecoverySteps

LEMMA FailureStep == FailureInv /\ [Next]_vars => FailureInv'
<1> SUFFICES ASSUME FailureInv, [Next]_vars, OneFailure' PROVE Servers' /\ Status'
  BY CopyStep DEF FailureInv
<1>0. CopyInv /\ StatusInv
  BY DEF FailureInv, CopyInv, WriterInv
<1>1. CASE UNCHANGED vars
  <2>1. Servers /\ Status
    BY <1>1 DEF FailureInv, OneFailure, vars
  <2>2. Servers'
    BY <1>1, <2>1
    DEF vars, Servers, Unrecovered, Unbroken, Promotion, ToldMaster, NoStrayMaster, PodReady
  <2>3. Status'
    BY <1>1, <2>1
    DEF vars, Status, NotYet, Undetected, Everywhere, HookSeen, NotCleared, Clears, ZeroOnly, RootNamed, RootFound
  <2> QED BY <2>2, <2>3
<1>2. CASE Next
  <2>1. OneFailure
    BY <1>0, <1>2, FailuresStay
  <2>2. Servers /\ Status
    BY <2>1 DEF FailureInv
  <2>3. \A n \in Ordinals : NodeRefresh(n) => GetMasterHost(cluster) = root
    BY <1>0, <2>2, RightHost
  <2>4. Servers'
    BY <1>0, <1>2, <2>1, <2>2, <2>3, ServersStep
  <2>5. Status'
    BY <1>0, <1>2, <2>1, <2>2, NotYetStep, HookSeenStep, NotClearedStep, ZeroOnlyStep, RootNamedStep
    DEF Status
  <2> QED BY <2>4, <2>5
<1> QED BY <1>1, <1>2

LEMMA FailureStart == Init => FailureInv
<1> SUFFICES ASSUME Init PROVE Servers /\ Status
  BY CopyStart DEF FailureInv
<1>0. cluster \in Known /\ 0 \in Ordinals
  BY StatusStart, NoneIsNoOrdinal DEF StatusInv, ApiKnown
<1>1. Unrecovered /\ Unbroken
  BY <1>0 DEF Init, Unrecovered, Unbroken
<1>2. Promotion /\ ToldMaster
  BY DEF Init, Promotion, ToldMaster
<1>3. NoStrayMaster
  BY <1>0, NoneIsNoOrdinal DEF Init, NoStrayMaster, PodReady
<1>4. cluster \in NotFailing /\ cluster \in ZeroMaster
  BY <1>0 DEF Init, NotFailing, ZeroMaster
<1>5. Everywhere(NotFailing) /\ Everywhere(ZeroMaster)
  BY <1>4, DoneType DEF Init, Everywhere
<1>6. NotYet /\ HookSeen /\ NotCleared /\ ZeroOnly /\ RootNamed /\ RootFound
  BY <1>5, DoneType DEF Init, NotYet, HookSeen, NotCleared, ZeroOnly, RootNamed, RootFound
<1> QED BY <1>1, <1>2, <1>3, <1>6 DEF Servers, Status

LEMMA FailureHolds == Spec => []FailureInv
BY FailureStart, FailureStep, PTL DEF Spec

\* While orchestrator fails a master over, FailoverInProgress is set, for any number
\* of replicas, failed calls and versions the informer is behind, as long as one
\* server crashes, both hooks run and a dead master is not seen late: no
\* synchronisation or deferred update erases what orc-helper wrote.
THEOREM FailoverSeen == Spec /\ []OneFailure => []FailoverVisible
<1>1. FailureInv /\ OneFailure => FailoverVisible
  BY DEF FailureInv, Status, HookSeen, FailoverVisible
<1> QED BY <1>1, FailureHolds, PTL

\* After one failure the former master does not come back as a second one: a
\* configured server is the master or has a source.
THEOREM NoSecondMaster == Spec /\ []OneFailure => []NoStrayMaster
<1>1. FailureInv /\ OneFailure => NoStrayMaster
  BY DEF FailureInv, Servers
<1> QED BY <1>1, FailureHolds, PTL

\* After one failure the node controller tells a server that came up the master of
\* the topology, although the status is read while the topology changes.
THEOREM ToldRight == Spec /\ []OneFailure => ConfiguredFromMaster
<1> DEFINE Told == init = Idle /\ init' # Idle => init'.master = root
<1>1. FailureInv /\ OneFailure /\ [Next]_vars => [Told]_vars
  <2> SUFFICES ASSUME FailureInv, OneFailure, Next, init = Idle, init' # Idle PROVE init'.master = root
    OBVIOUS
  <2>0. StatusInv /\ Status
    BY DEF FailureInv, CopyInv, WriterInv
  <2>1. PICK n \in Ordinals : NodeRefresh(n)
    <3>1. CASE NodeInit \/ NodeInitFails
      BY <3>1 DEF NodeInit, NodeInitFails
    <3>2. CASE OrcAct \/ OrcFails \/ LabelEnd \/ LabelFails \/ Hook
      BY <3>2 DEF OrcAct, OrcFails, LabelEnd, LabelFails, Hook
    <3>3. CASE OrcRead \/ LabelBegin \/ Detect \/ HookFails \/ Deliver
      BY <3>3 DEF OrcRead, LabelBegin, Detect, HookFails, Deliver
    <3>4. ASSUME NEW n \in Ordinals, LabelPod(n) \/ Promote(n) \/ Crash(n) \/ Start(n) \/ Settle(n)
          PROVE  FALSE
      BY <3>4 DEF LabelPod, Promote, Crash, Start, Settle
    <3> QED BY <3>1, <3>2, <3>3, <3>4 DEF Next, OperatorStep, OrchestratorStep, FaultStep
  <2>2. GetMasterHost(cluster) = root
    BY <2>0, <2>1, RightHost
  <2> QED BY <2>1, <2>2 DEF NodeRefresh
<1> QED BY <1>1, FailureHolds, PTL DEF Spec, ConfiguredFromMaster
=============================================================================
