------------------------ MODULE VersionRolloutProofs ------------------------
(***************************************************************************)
(* Proofs about VersionRollout for every set of versions of the three      *)
(* supported lines, every number of replicas and every value of the        *)
(* bounds.                                                                 *)
(***************************************************************************)
EXTENDS VersionRollout, FiniteSetTheorems, TLAPS

-----------------------------------------------------------------------------
(* The version algebra.                                                    *)

\* profileUpgradeIndex is a position in an order of four profiles.
LEMMA LineType == ASSUME NEW v \in Version PROVE Line(v) \in 0..3
BY DEF Line, profileUpgradeIndex

\* The unset version belongs to no supported line, so no user asks for it.
LEMMA ZeroNotAsked == Zero \notin Versions /\ Zero \in Version
BY VersionsAssumption DEF Zero, V, Version, Line, profileUpgradeIndex, ProfileFor, AtLeastMySQL8,
   AtLeastMySQL84

\* Among the supported lines, a version that is not smaller is of no older line.
LEMMA LineMonotone ==
  ASSUME NEW v \in Versions, NEW w \in Versions, ~LT(w, v)
  PROVE  Line(v) <= Line(w)
BY VersionsAssumption DEF Version, LT, Line, profileUpgradeIndex, ProfileFor, AtLeastMySQL8,
   AtLeastMySQL84

\* Two versions match exactly when they are of one line.
LEMMA MatchIsLine ==
  ASSUME NEW v \in Version, NEW w \in Version
  PROVE  ProfilesMatch(v, w) <=> Line(v) = Line(w)
BY DEF ProfilesMatch, Line, profileUpgradeIndex, ProfileFor

\* A version of a supported line has one of the named profiles.
LEMMA Supported ==
  ASSUME NEW v \in Versions PROVE ProfileFor(v) # "fallback-unknown"
BY VersionsAssumption DEF Line, profileUpgradeIndex

\* Where RolloutMySQLVersion may put the template of a cluster whose applied
\* version is recorded.
LEMMA RolloutLine ==
  ASSUME NEW c \in Cluster, c.applied # Zero, NEW t
  PROVE  LET r == RolloutMySQLVersion(c, t)
         IN /\ r \in Versions
            /\ Line(r) \in {Line(c.applied), Line(c.applied) + 1}
            /\ Line(c.spec) = Line(c.applied) + 1 => r = c.spec
<1>1. c.applied \in Versions /\ c.spec \in Versions
  BY DEF Cluster
<1>2. /\ c.applied \in Version /\ c.spec \in Version
      /\ Line(c.applied) \in 0..2 /\ Line(c.spec) \in 0..2
  BY <1>1, VersionsAssumption
<1>3. Pending(c) <=> (Line(c.applied) # Line(c.spec) \/ LT(c.applied, c.spec))
  BY <1>2, MatchIsLine DEF Pending, VersionChangePending
<1>4. LT(c.applied, c.spec) \/ LT(c.spec, c.applied) \/ c.applied = c.spec
  BY <1>2 DEF LT, Version
<1>5. ~LT(c.spec, c.applied) => Line(c.applied) <= Line(c.spec)
  BY <1>1, LineMonotone
<1>6. ~LT(c.applied, c.spec) => Line(c.spec) <= Line(c.applied)
  BY <1>1, LineMonotone
<1>7. ValidateUpgradePath(c.applied, c.spec) <=>
        ~LT(c.spec, c.applied) /\ (c.spec = c.applied \/ Line(c.spec) <= Line(c.applied) + 1)
  BY <1>1, Supported DEF ValidateUpgradePath
<1>8. ~(LT(c.applied, c.spec) /\ LT(c.spec, c.applied))
  BY <1>2 DEF LT, Version
<1> QED
  BY <1>1, <1>2, <1>3, <1>4, <1>5, <1>6, <1>7, <1>8 DEF RolloutMySQLVersion, GT

-----------------------------------------------------------------------------
(* Type correctness.                                                       *)

LEMMA OrdinalsCount == IsFiniteSet(Ordinals) /\ Cardinality(Ordinals) = Replicas
<1>1. /\ IsFiniteSet(0..(Replicas - 1))
      /\ Cardinality(0..(Replicas - 1)) =
           IF 0 > Replicas - 1 THEN 0 ELSE (Replicas - 1) - 0 + 1
  BY FS_Interval, BoundsAssumption
<1> QED BY <1>1, BoundsAssumption DEF Ordinals

\* The number of ready pods is a possible status.readyReplicas.
LEMMA ReadyCount ==
  ASSUME TypeOK
  PROVE  Cardinality(ReadyPods) \in 0..Replicas
<1>1. IsFiniteSet(Ordinals) /\ Cardinality(Ordinals) = Replicas
  BY OrdinalsCount
<1>2. ReadyPods \subseteq Ordinals
  BY DEF ReadyPods
<1> QED BY <1>1, <1>2, FS_Subset, FS_CardinalityType, BoundsAssumption

\* A running cluster is well typed, with its version recorded or not.
LEMMA RunningType ==
  ASSUME NEW v \in Versions, NEW a \in Versions \cup {Zero}, Running(v, a), Quiet
  PROVE  TypeOK
<1> USE BoundsAssumption
<1>1. cluster \in Cluster
  BY DEF Running, Cluster
<1>2. sts \in Template /\ stsReady \in 0..Replicas
  BY DEF Running, Template
<1>3. pods \in [Ordinals -> Pod] /\ data \in [Ordinals -> Data]
  BY DEF Running, Pod, Phases, Data, MysqlUID
<1>4. /\ stream \in Seq(Cluster) /\ pc = "idle"
      /\ cache \in Cluster /\ hand \in Cluster /\ snapshot \in Cluster
  BY <1>1 DEF Quiet
<1>5. handFresh \in BOOLEAN /\ queued \in BOOLEAN
  BY DEF Quiet
<1>6. /\ changes \in 0..MaxSpecChanges /\ foreign \in 0..MaxForeignWrites
      /\ faults \in 0..MaxFaults
  BY DEF Quiet
<1> QED BY <1>1, <1>2, <1>3, <1>4, <1>5, <1>6 DEF TypeOK

LEMMA TypeInit == Init \/ LegacyInit => TypeOK
BY RunningType DEF Init, LegacyInit

\* The template Reconcile computes is a template.
LEMMA TemplateType ==
  ASSUME NEW c \in Cluster, NEW t \in Template
  PROVE  PodTemplate(c, t) \in Template
<1>1. RolloutMySQLVersion(c, t) \in Versions \cup {Zero}
  BY DEF RolloutMySQLVersion, Cluster, Template
<1>2. NeedsDatadirChownInit(c) \in BOOLEAN
  BY DEF NeedsDatadirChownInit
<1> QED BY <1>1, <1>2 DEF PodTemplate, Template

\* A pod that changes leaves the map of pods well typed.
LEMMA PodsType ==
  ASSUME pods \in [Ordinals -> Pod], NEW p \in Ordinals, NEW x \in Pod
  PROVE  [pods EXCEPT ![p] = x] \in [Ordinals -> Pod]
OBVIOUS

LEMMA StoreType ==
  ASSUME TypeOK, NEW c \in Cluster, Store(c) \/ Accepted(c)
  PROVE  cluster' \in Cluster /\ cache' \in Cluster /\ stream' \in Seq(Cluster)
<1>1. Store(c) \/ UNCHANGED api
  BY DEF Accepted
<1>2. Append(stream, c) \in Seq(Cluster)
  BY DEF TypeOK
<1> QED BY <1>1, <1>2 DEF TypeOK, Store, api

LEMMA TypeStep == TypeOK /\ [Next]_vars => TypeOK'
<1> SUFFICES ASSUME TypeOK, [Next]_vars PROVE TypeOK'
  OBVIOUS
<1> USE BoundsAssumption
<1>1. CASE UNCHANGED vars
  BY <1>1 DEF vars, TypeOK
<1>2. CASE Begin
  BY <1>2 DEF Begin, TypeOK, api, plane, bounds
<1>3. CASE SkipBackfill
  BY <1>3 DEF SkipBackfill, Goto, TypeOK, api, plane, bounds
<1>4. CASE BackfillHolds
  BY <1>4 DEF BackfillHolds, Goto, TypeOK, api, plane, bounds
<1>5. ASSUME NEW v \in Versions, Backfill(v) PROVE TypeOK'
  <2> DEFINE c == [hand EXCEPT !.applied = v]
  <2>1. c \in Cluster
    BY DEF TypeOK, Cluster
  <2>2. CASE Accepted(c) /\ hand' = c /\ Goto("check")
    BY <1>5, <2>1, <2>2, StoreType DEF Backfill, Goto, TypeOK, plane, bounds
  <2>3. CASE Conflict
    BY <1>5, <2>3 DEF Backfill, Conflict, Fail, TypeOK, api, plane, bounds
  <2> QED BY <1>5, <2>2, <2>3 DEF Backfill
<1>6. CASE CheckBlocked
  <2> DEFINE c == [hand EXCEPT !.blocked = TRUE]
  <2>1. c \in Cluster
    BY DEF TypeOK, Cluster
  <2>2. CASE Accepted(c) /\ hand' = c /\ Goto("hold")
    BY <1>6, <2>1, <2>2, StoreType DEF CheckBlocked, Goto, TypeOK, plane, bounds
  <2>3. CASE Conflict
    BY <1>6, <2>3 DEF CheckBlocked, Conflict, Fail, TypeOK, api, plane, bounds
  <2> QED BY <1>6, <2>2, <2>3 DEF CheckBlocked
<1>7. CASE CheckPasses
  <2>1. [hand EXCEPT !.blocked = FALSE] \in Cluster
    BY DEF TypeOK, Cluster
  <2> QED BY <1>7, <2>1 DEF CheckPasses, TypeOK, api, plane, bounds
<1>8. SyncStatefulSet => sts' \in Template /\ hand' \in Cluster /\ stsReady' \in 0..Replicas
        /\ pods' \in [Ordinals -> Pod] /\ data' \in [Ordinals -> Data]
  <2>1. [hand EXCEPT !.readyNodes = stsReady] \in Cluster
    BY DEF TypeOK, Cluster
  <2>2. PodTemplate(hand, sts) \in Template
    BY TemplateType DEF TypeOK
  <2> QED BY <2>1, <2>2 DEF SyncStatefulSet, TypeOK
<1>9. CASE Hold
  BY <1>8, <1>9 DEF Hold, TypeOK, api, bounds
<1>10. CASE Sync
  BY <1>8, <1>10 DEF Sync, TypeOK, api, bounds
<1>11. CASE SyncFails
  BY <1>8, <1>11 DEF SyncFails, Fault, TypeOK, api
<1>12. CASE AdvanceNothing
  BY <1>12 DEF AdvanceNothing, Goto, TypeOK, api, plane, bounds
<1>13. ASSUME NEW v \in Versions, Advance(v) PROVE TypeOK'
  <2>1. hand' \in Cluster
    BY <1>13 DEF Advance, TypeOK, Cluster
  <2>2. CASE Accepted(hand') /\ UNCHANGED queued
    <3>1. cluster' \in Cluster /\ cache' \in Cluster /\ stream' \in Seq(Cluster)
      BY <2>1, <2>2 DEF TypeOK, Store, Accepted, api
    <3> QED BY <1>13, <2>1, <2>2, <3>1 DEF Advance, TypeOK, plane, bounds
  <2>3. CASE ~handFresh /\ queued' = TRUE /\ UNCHANGED api
    BY <1>13, <2>1, <2>3 DEF Advance, TypeOK, api, plane, bounds
  <2> QED BY <1>13, <2>2, <2>3 DEF Advance
<1>14. CASE Finish
  <2>1. cluster' \in Cluster /\ cache' \in Cluster /\ stream' \in Seq(Cluster)
    BY <1>14, StoreType DEF Finish, TypeOK, api
  <2> QED BY <1>14, <2>1 DEF Finish, Goto, TypeOK, plane, bounds
<1>15. CASE Deliver
  BY <1>15 DEF Deliver, TypeOK, plane, bounds
<1>16. CASE Resync
  BY <1>16 DEF Resync, TypeOK, api, plane, bounds
<1>17. CASE ReportStatus
  BY <1>17, ReadyCount DEF ReportStatus, TypeOK, api, bounds
<1>18. ASSUME NEW p \in Ordinals, PodStep(p) \/ LosePod(p) PROVE TypeOK'
  <2>1. pods' \in [Ordinals -> Pod] /\ data' \in [Ordinals -> Data]
    <3>1. CASE CreatePod(p)
      BY <3>1, PodsType DEF CreatePod, TypeOK, Pod, Phases, Template
    <3>2. CASE RollPod(p)
      BY <3>2 DEF RollPod, TypeOK, Pod, Phases
    <3>3. CASE RemovePod(p) \/ LosePod(p)
      <4>1. Absent \in Pod
        BY DEF Absent, Pod, Phases
      <4> QED BY <3>3, <4>1 DEF RemovePod, LosePod, TypeOK
    <3>4. CASE StartMysqld(p)
      <4>1. OwnerAfterInit(p) \in {999, 1001}
        BY DEF OwnerAfterInit, MysqlUID, TypeOK, Data
      <4>2. [ver |-> pods[p].ver, owner |-> OwnerAfterInit(p)] \in Data
        BY <4>1 DEF TypeOK, Data, Pod
      <4> QED BY <3>4, <4>2 DEF StartMysqld, TypeOK, Pod, Phases
    <3>5. CASE BecomeReady(p)
      BY <3>5 DEF BecomeReady, TypeOK, Pod, Phases
    <3> QED BY <1>18, <3>1, <3>2, <3>3, <3>4, <3>5 DEF PodStep
  <2> QED BY <1>18, <2>1 DEF PodStep, CreatePod, RollPod, RemovePod, LosePod, StartMysqld,
     BecomeReady, Fault, TypeOK, api, control, bounds
<1>19. ASSUME NEW v \in Versions, SetVersion(v) PROVE TypeOK'
  <2>1. [cluster EXCEPT !.spec = v] \in Cluster
    BY DEF TypeOK, Cluster
  <2>2. cluster' \in Cluster /\ cache' \in Cluster /\ stream' \in Seq(Cluster)
    BY <1>19, <2>1, StoreType DEF SetVersion
  <2>3. changes' \in 0..MaxSpecChanges
    BY <1>19 DEF SetVersion, TypeOK
  <2>4. handFresh' \in BOOLEAN
    BY <1>19 DEF SetVersion
  <2> QED BY <1>19, <2>2, <2>3, <2>4 DEF SetVersion, TypeOK, plane
<1>20. CASE ForeignWrite
  <2>1. Store(cluster) /\ cluster \in Cluster
    BY <1>20 DEF ForeignWrite, TypeOK
  <2>2. cluster' \in Cluster /\ cache' \in Cluster /\ stream' \in Seq(Cluster)
    BY <2>1, StoreType
  <2>3. foreign' \in 0..MaxForeignWrites
    BY <1>20 DEF ForeignWrite, TypeOK
  <2>4. handFresh' \in BOOLEAN
    BY <1>20 DEF ForeignWrite
  <2> QED BY <1>20, <2>2, <2>3, <2>4 DEF ForeignWrite, TypeOK, plane
<1>21. CASE BackfillQueryFails \/ AdvanceQueryFails
  BY <1>21 DEF BackfillQueryFails, AdvanceQueryFails, Fault, Goto, TypeOK, api, plane
<1>22. CASE Restart
  BY <1>22 DEF Restart, Fault, Fail, TypeOK, plane
<1> QED
  BY <1>1, <1>2, <1>3, <1>4, <1>5, <1>6, <1>7, <1>9, <1>10, <1>11, <1>12, <1>13, <1>14, <1>15,
     <1>16, <1>17, <1>18, <1>19, <1>20, <1>21, <1>22
  DEF Next, ReconcileStep, FaultStep

\* Every variable keeps its type: no copy of the cluster, in flight, cached or
\* in hand, holds a version no user asked for, and status.readyReplicas never
\* exceeds the number of replicas.
THEOREM TypeCorrect == Spec => []TypeOK
BY TypeInit, TypeStep, PTL DEF Spec

-----------------------------------------------------------------------------
(* One LTS line at a time.                                                 *)

OneLineInv == TypeOK /\ TemplateOneLine /\ CopiesAgree

\* Every recorded version is of a supported line.
LEMMA LinesInRange ==
  ASSUME NEW v \in Versions PROVE Line(v) \in 0..2
BY VersionsAssumption

\* What storing a cluster adds to its copies.
LEMMA StoreCopies ==
  ASSUME TypeOK, NEW c \in Cluster, Store(c)
  PROVE  /\ Copies' = Copies \cup {c}
         /\ cluster' = c /\ StreamEndsAtCluster'
<1>1. stream \in Seq(Cluster) /\ stream' = Append(stream, c) /\ cluster' = c /\ cache' = cache
  BY DEF TypeOK, Store
<1>2. /\ Len(stream') = Len(stream) + 1 /\ Len(stream) \in Nat
      /\ stream'[Len(stream) + 1] = c
      /\ \A i \in 1..Len(stream) : stream'[i] = stream[i]
  BY <1>1
<1>3. {stream'[i] : i \in 1..Len(stream')} = {stream[i] : i \in 1..Len(stream)} \cup {c}
  BY <1>2
<1>4. stream' # <<>>
  BY <1>1
<1> QED BY <1>1, <1>2, <1>3, <1>4 DEF Copies, StreamEndsAtCluster

\* What delivering one leaves of them.
LEMMA DeliverCopies ==
  ASSUME TypeOK, StreamEndsAtCluster, Deliver
  PROVE  Copies' \subseteq Copies /\ StreamEndsAtCluster'
<1>1. /\ stream \in Seq(Cluster) /\ stream # <<>> /\ stream' = Tail(stream)
      /\ cache' = stream[1] /\ cluster' = cluster
  BY DEF TypeOK, Deliver
<1>2. /\ Len(stream) \in Nat \ {0} /\ Len(stream') = Len(stream) - 1
      /\ \A i \in 1..Len(stream') : stream'[i] = stream[i + 1]
  BY <1>1
<1>3. \A i \in 1..Len(stream') : stream'[i] \in {stream[j] : j \in 1..Len(stream)}
  BY <1>2
<1>4. cache' \in {stream[j] : j \in 1..Len(stream)}
  <2>1. 1 \in 1..Len(stream)
    BY <1>2
  <2>2. stream[1] \in {stream[j] : j \in 1..Len(stream)}
    BY <2>1, Zenon
  <2> QED BY <1>1, <2>2
<1>5. StreamEndsAtCluster'
  <2>1. CASE stream' = <<>>
    <3>0. Len(stream') = 0
      BY <2>1
    <3>1. Len(stream) = 1
      BY <1>2, <3>0
    <3> QED BY <1>1, <3>1, <2>1 DEF StreamEndsAtCluster
  <2>2. CASE stream' # <<>>
    <3>1. Len(stream') \in 1..Len(stream')
      BY <1>1, <1>2, <2>2
    <3> QED BY <1>1, <1>2, <3>1, <2>2 DEF StreamEndsAtCluster
  <2> QED BY <2>1, <2>2
<1> QED BY <1>3, <1>4, <1>5 DEF Copies

\* The stored cluster is one of the copies.
LEMMA StoredIsCopy == TypeOK /\ StreamEndsAtCluster => cluster \in Copies
<1> SUFFICES ASSUME TypeOK, StreamEndsAtCluster PROVE cluster \in Copies
  OBVIOUS
<1>1. CASE stream = <<>>
  BY <1>1 DEF StreamEndsAtCluster, Copies
<1>2. CASE stream # <<>>
  <2>1. Len(stream) \in 1..Len(stream)
    BY <1>2 DEF TypeOK
  <2> QED BY <1>2, <2>1 DEF StreamEndsAtCluster, Copies
<1> QED BY <1>1, <1>2

LEMMA OneLineInit == Init => OneLineInv
<1> SUFFICES ASSUME Init PROVE OneLineInv
  OBVIOUS
<1>1. TypeOK
  BY TypeInit
<1>2. PICK v \in Versions : Running(v, v)
  BY DEF Init
<1>3. cluster.applied = v /\ cluster.spec = v /\ sts.ver = v /\ v # Zero
  BY <1>2, ZeroNotAsked DEF Running
<1>4. TemplateOneLine
  BY <1>3 DEF TemplateOneLine
<1>5. stream = <<>> /\ cache = cluster /\ pc = "idle"
  BY DEF Init, Quiet
<1>6. Copies = {cluster}
  BY <1>5 DEF Copies
<1> QED BY <1>1, <1>3, <1>4, <1>5, <1>6
     DEF OneLineInv, CopiesAgree, StreamEndsAtCluster, NotBehind, SameVersions, Deciding

\* A write that keeps the applied version, by Reconcile or by another writer,
\* keeps every copy usable: it adds one that has the stored applied version.
LEMMA StoreAgrees ==
  ASSUME OneLineInv, NEW c \in Cluster, Store(c) \/ (c = cluster /\ UNCHANGED api),
         c.applied = cluster.applied
  PROVE  /\ cluster' = c /\ StreamEndsAtCluster'
         /\ \A d \in Copies' : NotBehind(d)'
         /\ \A d \in Copies' : d \in Copies \/ d = c
<1>1. CASE Store(c)
  <2>1. Copies' = Copies \cup {c} /\ cluster' = c /\ StreamEndsAtCluster'
    BY <1>1, StoreCopies DEF OneLineInv
  <2> QED BY <2>1 DEF OneLineInv, CopiesAgree, NotBehind
<1>2. CASE c = cluster /\ UNCHANGED api
  BY <1>2 DEF OneLineInv, CopiesAgree, NotBehind, Copies, StreamEndsAtCluster, api
<1> QED BY <1>1, <1>2

\* The path that EnsureChecked lets pass is one line at most.
LEMMA CheckedPath ==
  ASSUME NEW c, c.applied \in Versions, c.spec \in Versions, ~PathInvalid(c)
  PROVE  Line(c.spec) \in {Line(c.applied), Line(c.applied) + 1}
<1>1. c.applied # Zero
  BY ZeroNotAsked
<1>2. CASE ~Pending(c)
  BY <1>1, <1>2, MatchIsLine, VersionsAssumption DEF Pending, VersionChangePending
<1>3. CASE ValidateUpgradePath(c.applied, c.spec)
  <2>1. Line(c.applied) <= Line(c.spec)
    BY <1>3, LineMonotone DEF ValidateUpgradePath
  <2> QED BY <1>3, <2>1, LinesInRange DEF ValidateUpgradePath
<1> QED BY <1>1, <1>2, <1>3 DEF PathInvalid

\* A template computed from a copy that is not behind keeps to the two lines.
LEMMA SyncOneLine ==
  ASSUME hand \in Cluster, NotBehind(hand), SyncStatefulSet, cluster' = cluster
  PROVE  TemplateOneLine' /\ sts'.ver # Zero
<1> DEFINE r == RolloutMySQLVersion(hand, sts)
<1>1. sts'.ver = r
  BY DEF SyncStatefulSet, PodTemplate
<1>3. /\ r \in Versions
      /\ Line(r) \in {Line(hand.applied), Line(hand.applied) + 1}
      /\ Line(hand.spec) = Line(hand.applied) + 1 => r = hand.spec
  BY RolloutLine DEF NotBehind
<1> QED BY <1>1, <1>3, ZeroNotAsked DEF TemplateOneLine, NotBehind

LEMMA OneLineStep == OneLineInv /\ [Next]_vars => OneLineInv'
<1> SUFFICES ASSUME OneLineInv, [Next]_vars PROVE TemplateOneLine' /\ CopiesAgree'
  BY TypeStep DEF OneLineInv
<1> USE DEF Deciding
<1>0. /\ TypeOK /\ TemplateOneLine /\ CopiesAgree
      /\ cluster \in Cluster /\ hand \in Cluster /\ cluster.applied # Zero
      /\ pc \in Deciding => hand.applied # Zero
  BY DEF OneLineInv, TypeOK, CopiesAgree, NotBehind
<1>1. CASE UNCHANGED vars
  BY <1>0, <1>1 DEF vars, TemplateOneLine, CopiesAgree, StreamEndsAtCluster, NotBehind,
     SameVersions, Copies
<1>2. CASE Begin
  <2>1. cache \in Copies /\ (stream = <<>> => cache = cluster /\ Copies = {cluster})
    BY <1>0 DEF CopiesAgree, StreamEndsAtCluster, Copies
  <2> QED BY <1>0, <1>2, <2>1 DEF Begin, api, plane, TemplateOneLine, CopiesAgree,
     StreamEndsAtCluster, NotBehind, SameVersions, Copies
<1>3. CASE SkipBackfill
  BY <1>0, <1>3 DEF SkipBackfill, Goto, api, plane, TemplateOneLine, CopiesAgree,
     StreamEndsAtCluster, NotBehind, SameVersions, Copies
<1>4. ~BackfillHolds /\ ~BackfillQueryFails /\ \A v \in Versions : ~Backfill(v)
  BY <1>0 DEF BackfillHolds, BackfillQueryFails, Backfill, NeedsAppliedBackfill
<1>5. CASE CheckBlocked
  <2> DEFINE c == [hand EXCEPT !.blocked = TRUE]
  <2>1. CASE Accepted(c) /\ hand' = c /\ Goto("hold")
    <3>1. /\ c \in Cluster /\ c.applied = hand.applied /\ c.spec = hand.spec
          /\ handFresh /\ pc = "check"
      BY <1>0, <1>5, <2>1 DEF Cluster, Accepted, CheckBlocked
    <3>2. c.applied = cluster.applied /\ c.spec = cluster.spec
      BY <1>0, <3>1 DEF CopiesAgree, SameVersions
    <3>3. Store(c) \/ (c = cluster /\ UNCHANGED api)
      BY <2>1 DEF Accepted
    <3>4. /\ cluster' = c /\ StreamEndsAtCluster'
          /\ \A d \in Copies' : NotBehind(d)'
          /\ \A d \in Copies' : d \in Copies \/ d = c
      BY <3>1, <3>2, <3>3, StoreAgrees
    <3>5. \A d \in Copies' : SameVersions(d)'
      BY <1>0, <3>1, <3>2, <3>4 DEF CopiesAgree, SameVersions
    <3>6. NotBehind(hand)'
      BY <1>0, <2>1, <3>2, <3>4 DEF NotBehind
    <3> QED BY <1>0, <1>5, <2>1, <3>2, <3>4, <3>5, <3>6
         DEF CheckBlocked, Goto, plane, TemplateOneLine, CopiesAgree, SameVersions
  <2>2. CASE Conflict
    BY <1>0, <1>5, <2>2 DEF CheckBlocked, Conflict, Fail, api, plane, TemplateOneLine,
       CopiesAgree, StreamEndsAtCluster, NotBehind, SameVersions, Copies
  <2> QED BY <1>5, <2>1, <2>2 DEF CheckBlocked
<1>6. CASE CheckPasses
  <2>1. /\ pc = "check" /\ hand'.applied = hand.applied /\ hand'.spec = hand.spec
        /\ hand.applied \in Versions /\ hand.spec \in Versions
    BY <1>0, <1>6 DEF CheckPasses, Cluster
  <2>2. ~PathInvalid(hand)
    BY <1>6 DEF CheckPasses
  <2>3. Line(hand.spec) \in {Line(hand.applied), Line(hand.applied) + 1}
    BY <2>1, <2>2, CheckedPath
  <2> QED BY <1>0, <1>6, <2>1, <2>3 DEF CheckPasses, api, plane, TemplateOneLine, CopiesAgree,
     StreamEndsAtCluster, NotBehind, SameVersions, Copies
<1>7. ASSUME SyncStatefulSet, pc \in Deciding, UNCHANGED api
      PROVE  /\ TemplateOneLine' /\ sts'.ver # Zero
             /\ hand'.applied = hand.applied /\ hand'.spec = hand.spec
  BY <1>0, <1>7, SyncOneLine DEF SyncStatefulSet, Cluster, CopiesAgree, api
<1>8. CASE Hold
  BY <1>0, <1>7, <1>8 DEF Hold, api, CopiesAgree, StreamEndsAtCluster, NotBehind, SameVersions,
     Copies
<1>9. CASE Sync
  BY <1>0, <1>7, <1>9 DEF Sync, api, CopiesAgree, StreamEndsAtCluster, NotBehind, SameVersions,
     Copies
<1>10. CASE SyncFails
  <2>1. /\ TemplateOneLine' /\ sts'.ver # Zero
        /\ hand'.applied = hand.applied /\ hand'.spec = hand.spec
    BY <1>0, <1>7, <1>10 DEF SyncFails, api, TemplateOneLine, CopiesAgree
  <2> QED BY <1>0, <1>10, <2>1 DEF SyncFails, api, CopiesAgree, StreamEndsAtCluster, NotBehind,
     SameVersions, Copies
<1>11. CASE AdvanceNothing \/ AdvanceQueryFails
  BY <1>0, <1>11 DEF AdvanceNothing, AdvanceQueryFails, Goto, api, plane, TemplateOneLine,
     CopiesAgree, StreamEndsAtCluster, NotBehind, SameVersions, Copies
<1>12. ASSUME NEW v \in Versions, Advance(v) PROVE TemplateOneLine' /\ CopiesAgree'
  <2>1. /\ pc = "advance" /\ pc' = "finish" /\ sts' = sts
        /\ hand'.applied = v /\ hand'.spec = hand.spec /\ hand' \in Cluster
        /\ handFresh' = handFresh
    BY <1>0, <1>12 DEF Advance, Cluster, plane
  <2>2. sts.ver = hand.spec /\ Line(v) = Line(hand.spec) /\ v # Zero
    BY <1>0, <1>12, MatchIsLine, ZeroNotAsked, VersionsAssumption
       DEF Advance, SyncAppliedVersion, RolloutComplete, Cluster
  <2>3. CASE handFresh /\ Accepted(hand')
    <3>1. /\ hand.applied = cluster.applied /\ hand.spec = cluster.spec
          /\ \A d \in Copies : SameVersions(d)
      BY <1>0, <2>1, <2>3 DEF CopiesAgree, SameVersions
    <3>2. /\ cluster' = hand' /\ StreamEndsAtCluster'
          /\ \A d \in Copies' : d \in Copies \/ d = hand'
      <4>1. CASE Store(hand')
        BY <1>0, <2>1, <4>1, StoreCopies
      <4>2. CASE hand' = cluster /\ UNCHANGED api
        BY <1>0, <4>2 DEF CopiesAgree, StreamEndsAtCluster, Copies, api
      <4> QED BY <2>3, <4>1, <4>2 DEF Accepted
    <3>3. Line(v) \in {Line(hand.applied), Line(hand.applied) + 1}
      BY <1>0, <2>1, <2>2 DEF CopiesAgree
    <3>4. hand.applied # Zero
      BY <1>0, <2>1
    <3>5. \A d \in Copies' : NotBehind(d)'
      BY <2>1, <2>2, <3>1, <3>2, <3>3, <3>4 DEF NotBehind, SameVersions
    <3> QED BY <1>0, <2>1, <2>2, <3>2, <3>5
         DEF TemplateOneLine, CopiesAgree, SameVersions
  <2>4. CASE ~handFresh /\ UNCHANGED api
    BY <1>0, <2>1, <2>4 DEF api, TemplateOneLine, CopiesAgree, StreamEndsAtCluster, NotBehind,
       SameVersions, Copies
  <2> QED BY <1>12, <2>3, <2>4 DEF Advance, Accepted
<1>13. CASE Finish
  <2>1. pc' = "idle" /\ sts' = sts
    BY <1>13 DEF Finish, Goto, plane
  <2>2. CASE UNCHANGED api
    BY <1>0, <2>1, <2>2 DEF api, TemplateOneLine, CopiesAgree, StreamEndsAtCluster, NotBehind,
       SameVersions, Copies
  <2>3. CASE handFresh /\ Accepted(hand)
    <3>1. hand.applied = cluster.applied
      BY <1>0, <1>13, <2>3 DEF Finish, CopiesAgree, SameVersions
    <3>2. /\ cluster' = hand /\ StreamEndsAtCluster'
          /\ \A d \in Copies' : NotBehind(d)'
      BY <1>0, <2>3, <3>1, StoreAgrees DEF Accepted
    <3> QED BY <1>0, <2>1, <3>1, <3>2 DEF TemplateOneLine, CopiesAgree
  <2> QED BY <1>13, <2>2, <2>3 DEF Finish, Accepted
<1>14. CASE Deliver
  <2>1. Copies' \subseteq Copies /\ StreamEndsAtCluster'
    BY <1>0, <1>14, DeliverCopies DEF CopiesAgree
  <2> QED BY <1>0, <1>14, <2>1 DEF Deliver, plane, TemplateOneLine, CopiesAgree, NotBehind,
     SameVersions
<1>15. CASE Resync \/ ReportStatus
  BY <1>0, <1>15 DEF Resync, ReportStatus, api, plane, TemplateOneLine, CopiesAgree,
     StreamEndsAtCluster, NotBehind, SameVersions, Copies
<1>16. ASSUME NEW p \in Ordinals, PodStep(p) \/ LosePod(p)
       PROVE  TemplateOneLine' /\ CopiesAgree'
  <2>1. UNCHANGED <<sts, api, control>>
    BY <1>16 DEF PodStep, CreatePod, RollPod, RemovePod, LosePod, StartMysqld, BecomeReady
  <2> QED BY <1>0, <2>1 DEF api, control, TemplateOneLine, CopiesAgree, StreamEndsAtCluster,
     NotBehind, SameVersions, Copies
<1>17. ASSUME NEW c \in Cluster, Store(c), c.applied = cluster.applied, handFresh' = FALSE,
              pc' = pc, hand' = hand, sts' = sts
       PROVE  TemplateOneLine' /\ CopiesAgree'
  <2>1. /\ cluster' = c /\ StreamEndsAtCluster'
        /\ \A d \in Copies' : NotBehind(d)'
    BY <1>17, StoreAgrees
  <2> QED BY <1>0, <1>17, <2>1 DEF TemplateOneLine, CopiesAgree, NotBehind
<1>18. ASSUME NEW v \in Versions, SetVersion(v) PROVE TemplateOneLine' /\ CopiesAgree'
  <2>1. /\ [cluster EXCEPT !.spec = v] \in Cluster
        /\ [cluster EXCEPT !.spec = v].applied = cluster.applied
    BY <1>0 DEF Cluster
  <2> QED BY <1>17, <1>18, <2>1 DEF SetVersion, plane
<1>19. CASE ForeignWrite
  BY <1>0, <1>17, <1>19 DEF ForeignWrite, plane
<1>20. CASE Restart
  <2>1. cluster' = cluster /\ cache' = cluster /\ stream' = <<>> /\ pc' = "idle" /\ sts' = sts
    BY <1>20 DEF Restart, Fail, plane
  <2>2. Copies' = {cluster}
    BY <2>1 DEF Copies
  <2> QED BY <1>0, <2>1, <2>2 DEF TemplateOneLine, CopiesAgree, StreamEndsAtCluster, NotBehind
<1> QED
  BY <1>1, <1>2, <1>3, <1>4, <1>5, <1>6, <1>8, <1>9, <1>10, <1>11, <1>12, <1>13, <1>14, <1>15,
     <1>16, <1>18, <1>19, <1>20
  DEF Next, ReconcileStep, FaultStep

\* Whatever the user asks for and however stale Reconcile's copy of the cluster
\* is, the StatefulSet runs the LTS line SQL confirmed for the data or the next.
THEOREM OneLine == Spec => []TemplateOneLine
<1>1. OneLineInv => TemplateOneLine
  BY DEF OneLineInv
<1> QED BY <1>1, OneLineInit, OneLineStep, PTL DEF Spec

\* Every copy of the cluster Reconcile may still act on is at most one recorded
\* line behind the stored one, and one it may still write back agrees with it.
THEOREM CopiesKept == Spec => []CopiesAgree
<1>1. OneLineInv => CopiesAgree
  BY DEF OneLineInv
<1> QED BY <1>1, OneLineInit, OneLineStep, PTL DEF Spec

\* What a step may do to the recorded version: only Advance
\* changes it.
LEMMA AppliedSteps ==
  ASSUME OneLineInv, Next
  PROVE  cluster'.applied = cluster.applied \/ \E v \in Versions : Advance(v)
<1>0. /\ hand \in Cluster /\ cluster \in Cluster
      /\ pc \in Deciding => hand.applied # Zero
  BY DEF OneLineInv, TypeOK, CopiesAgree, NotBehind
<1> SUFFICES ASSUME cluster'.applied # cluster.applied PROVE \E v \in Versions : Advance(v)
  OBVIOUS
<1>1. \A v \in Versions : ~Backfill(v)
  BY <1>0 DEF Backfill, NeedsAppliedBackfill, Deciding
<1>2. ~CheckBlocked
  <2> SUFFICES ASSUME CheckBlocked PROVE FALSE
    OBVIOUS
  <2>1. handFresh /\ pc = "check" => hand.applied = cluster.applied
    BY DEF OneLineInv, CopiesAgree, SameVersions, Deciding
  <2> QED BY <1>0, <2>1 DEF CheckBlocked, Accepted, Store, Conflict, api, Cluster
<1>3. ~Finish
  <2> SUFFICES ASSUME Finish PROVE FALSE
    OBVIOUS
  <2>1. handFresh => hand.applied = cluster.applied
    BY DEF OneLineInv, CopiesAgree, SameVersions, Finish
  <2> QED BY <2>1 DEF Finish, Accepted, Store, api
<1>4. \A v \in Versions : ~SetVersion(v)
  BY <1>0 DEF SetVersion, Store, Cluster
<1>5. \A p \in Ordinals : ~PodStep(p) /\ ~LosePod(p)
  BY DEF PodStep, CreatePod, RollPod, RemovePod, LosePod, StartMysqld, BecomeReady, api
<1>6. /\ ~Begin /\ ~SkipBackfill /\ ~BackfillHolds /\ ~CheckPasses /\ ~Hold /\ ~Sync
      /\ ~AdvanceNothing /\ ~Deliver /\ ~Resync /\ ~ReportStatus
  BY DEF Begin, SkipBackfill, BackfillHolds, CheckPasses, Hold, Sync, AdvanceNothing, Deliver,
     Resync, ReportStatus, api
<1>7. /\ ~ForeignWrite /\ ~BackfillQueryFails /\ ~SyncFails /\ ~AdvanceQueryFails
      /\ ~Restart
  BY DEF ForeignWrite, Store, BackfillQueryFails, SyncFails, AdvanceQueryFails, Restart, api
<1> QED BY <1>1, <1>2, <1>3, <1>4, <1>5, <1>6, <1>7 DEF Next, ReconcileStep, FaultStep

\* Recording a version moves status.appliedMysqlVersion within its line or to
\* the next one, and nothing ever erases it.
THEOREM AppliedLine == Spec => AppliedOneLineAtATime
<1> DEFINE A == cluster.applied # Zero =>
                  /\ cluster'.applied # Zero
                  /\ Line(cluster'.applied) \in {Line(cluster.applied), Line(cluster.applied) + 1}
<1>1. ASSUME OneLineInv, [Next]_vars PROVE [A]_vars
  <2> SUFFICES ASSUME Next, cluster'.applied # cluster.applied PROVE A
    BY <1>1
  <2>0. /\ hand \in Cluster /\ cluster \in Cluster
        /\ pc \in Deciding => hand.applied # Zero
    BY <1>1 DEF OneLineInv, TypeOK, CopiesAgree, NotBehind
  <2>1. PICK v \in Versions : Advance(v)
    BY <1>1, AppliedSteps
  <2>2. /\ handFresh /\ pc = "advance" /\ cluster' = hand' /\ hand'.applied = v
    BY <2>0, <2>1 DEF Advance, Accepted, Store, api, Cluster
  <2>3. /\ hand.applied = cluster.applied
        /\ Line(hand.spec) \in {Line(hand.applied), Line(hand.applied) + 1}
    BY <1>1, <2>2 DEF OneLineInv, CopiesAgree, SameVersions, Deciding
  <2>4. Line(v) = Line(hand.spec) /\ v # Zero
    BY <2>0, <2>1, MatchIsLine, ZeroNotAsked, VersionsAssumption
       DEF Advance, SyncAppliedVersion, Cluster
  <2> QED BY <2>2, <2>3, <2>4
<1> QED BY <1>1, OneLineInit, OneLineStep, PTL DEF Spec, AppliedOneLineAtATime

-----------------------------------------------------------------------------
(* The contract.                                                           *)

\* What a step may do to the data plane.
LEMMA PlaneSteps ==
  ASSUME Next
  PROVE  \/ UNCHANGED <<sts, pods, data>>
         \/ SyncStatefulSet /\ UNCHANGED api /\ pc \in Deciding
         \/ \E p \in Ordinals : (PodStep(p) \/ LosePod(p)) /\ UNCHANGED <<sts, api>>
<1>1. CASE Hold \/ Sync \/ SyncFails
  BY <1>1 DEF Hold, Sync, SyncFails, Deciding
<1>2. ASSUME NEW p \in Ordinals, PodStep(p) \/ LosePod(p) PROVE UNCHANGED <<sts, api>>
  BY <1>2 DEF PodStep, CreatePod, RollPod, RemovePod, LosePod, StartMysqld, BecomeReady
<1>3. CASE ReconcileStep
  BY <1>1, <1>3 DEF ReconcileStep, Begin, SkipBackfill, BackfillHolds, Backfill, CheckBlocked,
     CheckPasses, AdvanceNothing, Advance, Finish, plane
<1>4. CASE FaultStep
  BY <1>1, <1>2, <1>4 DEF FaultStep, BackfillQueryFails, AdvanceQueryFails, Restart, plane
<1>5. CASE Deliver \/ Resync \/ ReportStatus \/ ForeignWrite \/ \E v \in Versions : SetVersion(v)
  BY <1>5 DEF Deliver, Resync, ReportStatus, ForeignWrite, SetVersion, plane
<1> QED BY <1>2, <1>3, <1>4, <1>5 DEF Next

LEMMA ContractInit == Init => Contract!Init
<1> SUFFICES ASSUME Init PROVE Contract!Init
  OBVIOUS
<1>1. PICK v \in Versions : Running(v, v)
  BY DEF Init
<1>2. cluster.applied = v /\ sts.ver = v
  BY <1>1 DEF Running
<1> QED BY <1>2, VersionsAssumption DEF Contract!Init, Contract!Lines

\* Recording a version is the contract's Record, writing the template its Offer,
\* and every other step leaves both lines alone.
LEMMA ContractStep == OneLineInv /\ [Next]_vars => [Contract!Next]_(Contract!vars)
<1> SUFFICES ASSUME OneLineInv, [Next]_vars PROVE [Contract!Next]_(Contract!vars)
  OBVIOUS
<1>0. OneLineInv'
  BY OneLineStep
<1>1. CASE UNCHANGED vars
  BY <1>1 DEF vars, Contract!vars
<1>2. CASE Next /\ cluster'.applied # cluster.applied
  <2>0. hand \in Cluster /\ cluster \in Cluster
    BY DEF OneLineInv, TypeOK
  <2>1. PICK v \in Versions : Advance(v)
    BY <1>2, AppliedSteps
  <2>2. cluster' = hand' /\ hand'.applied = v /\ sts' = sts
    BY <1>2, <2>0, <2>1 DEF Advance, Accepted, Store, api, plane, Cluster
  <2>3. sts.ver = hand.spec /\ ProfilesMatch(v, hand.spec)
    BY <2>1 DEF Advance, SyncAppliedVersion, RolloutComplete
  <2>4. Line(v) = Line(sts.ver)
    BY <2>0, <2>3, MatchIsLine, VersionsAssumption DEF Cluster
  <2>5. Contract!Record
    BY <2>2, <2>4 DEF Contract!Record
  <2> QED BY <2>5 DEF Contract!Next
<1>3. CASE Next /\ cluster'.applied = cluster.applied
  <2>1. CASE UNCHANGED sts
    BY <1>3, <2>1 DEF Contract!vars
  <2>2. CASE UNCHANGED cluster
    <3>1. sts'.ver \in Versions /\ cluster'.applied # Zero
      BY <1>0 DEF OneLineInv, CopiesAgree, TypeOK, Template
    <3>2. Line(sts'.ver) \in 0..2
      BY <3>1, VersionsAssumption
    <3>3. Line(sts'.ver) \in {Line(cluster.applied), Line(cluster.applied) + 1}
      BY <1>0, <2>2, <3>1 DEF OneLineInv, TemplateOneLine
    <3>4. Contract!Offer(Line(sts'.ver))
      BY <2>2, <3>3 DEF Contract!Offer
    <3> QED BY <3>2, <3>4 DEF Contract!Next, Contract!Lines
  <2> QED BY <1>3, <2>1, <2>2, PlaneSteps DEF api
<1> QED BY <1>1, <1>2, <1>3

\* Reconcile, however stale its copy, implements the rollout's contract: the
\* recorded line becomes the template's and nothing else, and the template takes
\* the recorded line or the next one.
THEOREM ContractKept == Spec => ImplementsContract
<1>1. Init => Contract!Init
  BY ContractInit
<1>2. OneLineInv /\ [Next]_vars => [Contract!Next]_(Contract!vars)
  BY ContractStep
<1> QED
  BY <1>1, <1>2, OneLineInit, OneLineStep, PTL DEF Spec, ImplementsContract, Contract!Spec

-----------------------------------------------------------------------------
(* The owner of the files.                                                 *)

\* Files are written by mysqld only, so none is without a version.
Written == \A p \in Ordinals : data[p].ver # Zero

\* Once 8.4 is recorded as applied, UID 1001 owns the files of every pod.
OwnedOnceApplied ==
  Line(cluster.applied) = 2 => \A p \in Ordinals : data[p].owner = 1001

\* An 8.4 template has the chown init container until no volume needs it.
TemplateChowns ==
  Line(sts.ver) = 2 => sts.chown \/ \A p \in Ordinals : data[p].owner = 1001

\* The same of a pod; once its init containers have run, the files are chowned.
PodChowns(p) ==
  /\ pods[p].phase = "init" /\ Line(pods[p].ver) = 2 => pods[p].chown \/ data[p].owner = 1001
  /\ pods[p].phase \in {"running", "ready", "terminating"} /\ pods[p].chown
       => data[p].owner = 1001

ChownInv ==
  /\ OneLineInv /\ Written /\ OwnedOnceApplied /\ TemplateChowns
  /\ \A p \in Ordinals : PodChowns(p)

\* The profile whose mysqld runs as UID 1001 is the newest line.
LEMMA NewestLine ==
  ASSUME NEW v \in Version
  PROVE  Line(v) = 2 <=> ProfileFor(v) = "percona-8.4"
BY DEF Line, profileUpgradeIndex, ProfileFor

\* Where every pod counts as initialised, every pod is.
LEMMA AllInitialised ==
  ASSUME Cardinality({p \in Ordinals : InitContainersSucceeded(p)}) >= Replicas
  PROVE  \A p \in Ordinals : InitContainersSucceeded(p)
<1> DEFINE S == {p \in Ordinals : InitContainersSucceeded(p)}
<1>1. IsFiniteSet(Ordinals) /\ Cardinality(Ordinals) = Replicas
  BY OrdinalsCount
<1>2. S \subseteq Ordinals
  OBVIOUS
<1>3. /\ IsFiniteSet(S) /\ Cardinality(S) <= Cardinality(Ordinals)
      /\ Cardinality(S) = Cardinality(Ordinals) => S = Ordinals
  BY <1>1, <1>2, FS_Subset
<1>4. Cardinality(S) \in Nat
  BY <1>3, FS_CardinalityType
<1>5. S = Ordinals
  BY <1>1, <1>3, <1>4, BoundsAssumption
<1> QED BY <1>5

\* The chown init container is in every 8.4 template that a usable copy of the
\* cluster leads to, until 8.4 is recorded.
LEMMA SyncChowns ==
  ASSUME OneLineInv, OwnedOnceApplied, pc \in Deciding, SyncStatefulSet
  PROVE  TemplateChowns'
<1> DEFINE r == RolloutMySQLVersion(hand, sts)
<1>1. sts'.ver = r /\ sts'.chown = NeedsDatadirChownInit(hand) /\ data' = data
  BY DEF SyncStatefulSet, PodTemplate
<1>2. /\ hand \in Cluster /\ cluster \in Cluster /\ NotBehind(hand)
      /\ hand.applied # Zero /\ cluster.applied # Zero
  BY DEF OneLineInv, TypeOK, CopiesAgree, NotBehind
<1>3. r \in {hand.applied, hand.spec} /\ Line(r) \in {Line(hand.applied), Line(hand.applied) + 1}
  BY <1>2, RolloutLine DEF RolloutMySQLVersion
<1>4. /\ hand.applied \in Versions /\ hand.spec \in Versions /\ cluster.applied \in Versions
  BY <1>2 DEF Cluster
<1>5. CASE Line(r) = 2 /\ Line(hand.applied) = 2
  <2>1. Line(cluster.applied) = 2
    BY <1>2, <1>4, <1>5, LinesInRange DEF NotBehind
  <2> QED BY <1>1, <2>1 DEF OwnedOnceApplied, TemplateChowns
<1>6. CASE Line(r) = 2 /\ Line(hand.applied) # 2
  <2>1. r = hand.spec /\ Line(hand.applied) = 1 /\ hand.applied # hand.spec
    BY <1>3, <1>4, <1>6, LinesInRange
  <2>2. ProfileFor(hand.applied) = "percona-8.0" /\ ProfileFor(hand.spec) = "percona-8.4"
    BY <1>4, <1>6, <2>1, VersionsAssumption DEF Line, profileUpgradeIndex
  <2> QED BY <1>1, <1>2, <2>1, <2>2 DEF NeedsDatadirChownInit, TemplateChowns
<1> QED BY <1>1, <1>5, <1>6 DEF TemplateChowns

LEMMA ChownInit == Init => ChownInv
<1> SUFFICES ASSUME Init PROVE ChownInv
  OBVIOUS
<1>1. PICK v \in Versions : Running(v, v)
  BY DEF Init
<1>2. v \in Version /\ v # Zero
  BY <1>1, VersionsAssumption, ZeroNotAsked
<1>3. /\ cluster.applied = v /\ sts.ver = v
      /\ \A p \in Ordinals : data[p].ver = v /\ data[p].owner = MysqlUID(v)
                             /\ pods[p].phase = "ready" /\ pods[p].chown = FALSE
  BY <1>1 DEF Running
<1>4. Line(v) = 2 => MysqlUID(v) = 1001
  BY <1>2, NewestLine DEF MysqlUID
<1> QED BY <1>2, <1>3, <1>4, OneLineInit
     DEF ChownInv, Written, OwnedOnceApplied, TemplateChowns, PodChowns

\* A step of one pod: its files keep a version, UID 1001 keeps what it owns.
LEMMA PodOwners ==
  ASSUME ChownInv, NEW p \in Ordinals, PodStep(p) \/ LosePod(p)
  PROVE  /\ Written' /\ \A q \in Ordinals : PodChowns(q)'
         /\ \A q \in Ordinals : data[q].owner = 1001 => data'[q].owner = 1001
<1>1. /\ pods \in [Ordinals -> Pod] /\ data \in [Ordinals -> Data] /\ sts \in Template
      /\ Written /\ TemplateChowns /\ \A q \in Ordinals : PodChowns(q)
  BY DEF ChownInv, OneLineInv, TypeOK
<1>2. CASE CreatePod(p)
  <2> DEFINE x == [phase |-> "init", ver |-> sts.ver, chown |-> sts.chown]
  <2>1. data' = data /\ pods' = [pods EXCEPT ![p] = x]
    BY <1>2 DEF CreatePod
  <2>2. pods'[p] = x /\ \A q \in Ordinals : q # p => pods'[q] = pods[q]
    BY <1>1, <2>1
  <2>3. x.phase = "init" /\ x.ver = sts.ver /\ x.chown = sts.chown
    OBVIOUS
  <2>4. PodChowns(p)'
    BY <1>1, <2>1, <2>2, <2>3 DEF PodChowns, TemplateChowns
  <2>5. \A q \in Ordinals : q # p => PodChowns(q)'
    BY <1>1, <2>1, <2>2 DEF PodChowns
  <2> QED BY <1>1, <2>1, <2>4, <2>5 DEF Written
<1>3. CASE RollPod(p)
  <2>1. /\ data' = data /\ pods[p].phase = "ready"
        /\ pods' = [pods EXCEPT ![p].phase = "terminating"]
    BY <1>3 DEF RollPod, ReadyPods, PodIsReady
  <2>2. /\ pods'[p].phase = "terminating" /\ pods'[p].chown = pods[p].chown
        /\ \A q \in Ordinals : q # p => pods'[q] = pods[q]
    BY <1>1, <2>1 DEF Pod
  <2>3. PodChowns(p)'
    BY <1>1, <2>1, <2>2 DEF PodChowns
  <2>4. \A q \in Ordinals : q # p => PodChowns(q)'
    BY <1>1, <2>1, <2>2 DEF PodChowns
  <2> QED BY <1>1, <2>1, <2>3, <2>4 DEF Written
<1>4. CASE RemovePod(p) \/ LosePod(p)
  <2>1. data' = data /\ pods' = [pods EXCEPT ![p] = Absent]
    BY <1>4 DEF RemovePod, LosePod
  <2>2. pods'[p].phase = "none" /\ \A q \in Ordinals : q # p => pods'[q] = pods[q]
    BY <1>1, <2>1 DEF Absent
  <2>3. PodChowns(p)'
    BY <2>2 DEF PodChowns
  <2>4. \A q \in Ordinals : q # p => PodChowns(q)'
    BY <1>1, <2>1, <2>2 DEF PodChowns
  <2> QED BY <1>1, <2>1, <2>3, <2>4 DEF Written
<1>5. CASE StartMysqld(p)
  <2> DEFINE d == [ver |-> pods[p].ver, owner |-> OwnerAfterInit(p)]
  <2>1. /\ pods[p].phase = "init" /\ CanOpen(p)
        /\ pods' = [pods EXCEPT ![p].phase = "running"] /\ data' = [data EXCEPT ![p] = d]
    BY <1>5 DEF StartMysqld
  <2>2. /\ pods'[p].phase = "running" /\ pods'[p].chown = pods[p].chown
        /\ \A q \in Ordinals : q # p => pods'[q] = pods[q] /\ data'[q] = data[q]
        /\ data'[p].ver = pods[p].ver /\ data'[p].owner = OwnerAfterInit(p)
    BY <1>1, <2>1 DEF Pod
  <2>3. OwnerAfterInit(p) = IF pods[p].chown THEN 1001 ELSE data[p].owner
    BY <1>1 DEF OwnerAfterInit, Written
  <2>4. pods[p].ver # Zero
    <3>1. pods[p].ver \in Versions \cup {Zero} /\ data[p].ver \in Versions
      BY <1>1 DEF Pod, Data, Written
    <3>2. data[p].ver \in Version /\ ~LT(pods[p].ver, data[p].ver)
      BY <1>1, <2>1, <3>1, VersionsAssumption DEF CanOpen, Written
    <3>3. data[p].ver.major # 0 \/ data[p].ver.minor # 0 \/ data[p].ver.patch # 0
      BY <1>1, <3>2 DEF Version, Zero, V, Written
    <3> QED BY <3>2, <3>3 DEF LT, Zero, V, Version
  <2>5. PodChowns(p)'
    BY <2>2, <2>3 DEF PodChowns
  <2>6. \A q \in Ordinals : q # p => PodChowns(q)'
    BY <1>1, <2>2 DEF PodChowns
  <2>7. Written'
    BY <1>1, <2>2, <2>4 DEF Written
  <2>8. \A q \in Ordinals : data[q].owner = 1001 => data'[q].owner = 1001
    BY <2>2, <2>3
  <2> QED BY <2>5, <2>6, <2>7, <2>8
<1>6. CASE BecomeReady(p)
  <2>1. /\ data' = data /\ pods[p].phase = "running"
        /\ pods' = [pods EXCEPT ![p].phase = "ready"]
    BY <1>6 DEF BecomeReady
  <2>2. /\ pods'[p].phase = "ready" /\ pods'[p].chown = pods[p].chown
        /\ \A q \in Ordinals : q # p => pods'[q] = pods[q]
    BY <1>1, <2>1 DEF Pod
  <2>3. PodChowns(p)'
    BY <1>1, <2>1, <2>2 DEF PodChowns
  <2>4. \A q \in Ordinals : q # p => PodChowns(q)'
    BY <1>1, <2>1, <2>2 DEF PodChowns
  <2> QED BY <1>1, <2>1, <2>3, <2>4 DEF Written
<1> QED BY <1>2, <1>3, <1>4, <1>5, <1>6 DEF PodStep

LEMMA ChownStep == ChownInv /\ [Next]_vars => ChownInv'
<1> SUFFICES ASSUME ChownInv, [Next]_vars PROVE ChownInv'
  OBVIOUS
<1>0. /\ OneLineInv /\ OneLineInv' /\ TypeOK /\ TypeOK' /\ Written
      /\ OwnedOnceApplied /\ TemplateChowns /\ \A p \in Ordinals : PodChowns(p)
  BY OneLineStep DEF ChownInv, OneLineInv
<1>1. CASE UNCHANGED vars
  BY <1>0, <1>1 DEF vars, ChownInv, Written, OwnedOnceApplied, TemplateChowns, PodChowns
<1>2. CASE Next
  <2>1. /\ Written' /\ TemplateChowns' /\ \A p \in Ordinals : PodChowns(p)'
        /\ \A p \in Ordinals : data[p].owner = 1001 => data'[p].owner = 1001
    <3>1. CASE UNCHANGED <<sts, pods, data>>
      BY <1>0, <3>1 DEF Written, TemplateChowns, PodChowns
    <3>2. CASE SyncStatefulSet /\ UNCHANGED api /\ pc \in Deciding
      BY <1>0, <3>2, SyncChowns DEF SyncStatefulSet, Written, PodChowns
    <3>3. ASSUME NEW p \in Ordinals, PodStep(p) \/ LosePod(p), UNCHANGED <<sts, api>>
          PROVE  /\ Written' /\ TemplateChowns' /\ \A q \in Ordinals : PodChowns(q)'
                 /\ \A q \in Ordinals : data[q].owner = 1001 => data'[q].owner = 1001
      <4>1. /\ Written' /\ \A q \in Ordinals : PodChowns(q)'
            /\ \A q \in Ordinals : data[q].owner = 1001 => data'[q].owner = 1001
        BY <3>3, PodOwners
      <4> QED BY <1>0, <3>3, <4>1 DEF TemplateChowns
    <3> QED BY <1>2, <3>1, <3>2, <3>3, PlaneSteps
  <2>2. OwnedOnceApplied'
    <3>1. CASE cluster'.applied = cluster.applied
      BY <1>0, <2>1, <3>1 DEF OwnedOnceApplied
    <3>2. ASSUME NEW v \in Versions, Advance(v) PROVE OwnedOnceApplied'
      <4>1. /\ sts.ver = hand.spec /\ data' = data /\ Line(v) = Line(hand.spec)
            /\ \A p \in Ordinals : InitContainersSucceeded(p)
        <5>1. SyncAppliedVersion(hand, v) /\ data' = data /\ hand.spec \in Versions
          BY <1>0, <3>2 DEF Advance, plane, TypeOK, Cluster
        <5> QED BY <5>1, AllInitialised, MatchIsLine, VersionsAssumption
             DEF SyncAppliedVersion, RolloutComplete
      <4>2. cluster'.applied \in {v, cluster.applied}
        BY <1>0, <3>2 DEF Advance, Accepted, Store, api, TypeOK, Cluster
      <4>3. CASE Line(v) = 2 /\ sts.chown
        <5>1. \A p \in Ordinals : data[p].owner = 1001
          BY <1>0, <4>1, <4>3 DEF InitContainersSucceeded, PodChowns
        <5> QED BY <4>1, <5>1 DEF OwnedOnceApplied
      <4>4. CASE Line(v) = 2 /\ ~sts.chown
        BY <1>0, <4>1, <4>4 DEF TemplateChowns, OwnedOnceApplied
      <4>5. CASE Line(v) # 2
        BY <1>0, <4>1, <4>2, <4>5 DEF OwnedOnceApplied
      <4> QED BY <4>3, <4>4, <4>5
    <3> QED BY <1>0, <1>2, <3>1, <3>2, AppliedSteps
  <2> QED BY <1>0, <2>1, <2>2 DEF ChownInv
<1> QED BY <1>1, <1>2

\* However early the chown init container leaves the template, no 8.4 mysqld
\* finds files of its cluster that UID 999 still owns.
THEOREM OwnersReady == Spec => []ChownBeforeStart
<1>1. ChownInv => ChownBeforeStart
  <2> SUFFICES ASSUME ChownInv, NEW p \in Ordinals, pods[p].phase = "init",
                      MysqlUID(pods[p].ver) = 1001
               PROVE  OwnerAfterInit(p) = 1001
    BY DEF ChownBeforeStart, CanWrite
  <2>1. pods[p].ver \in Version
    BY VersionsAssumption, ZeroNotAsked DEF ChownInv, OneLineInv, TypeOK, Pod
  <2>2. Line(pods[p].ver) = 2
    BY <2>1, NewestLine DEF MysqlUID
  <2>3. pods[p].chown \/ data[p].owner = 1001
    BY <2>2 DEF ChownInv, PodChowns
  <2>4. data[p].ver # Zero
    BY DEF ChownInv, Written
  <2> QED BY <2>3, <2>4 DEF OwnerAfterInit
<1> QED BY <1>1, ChownInit, ChownStep, PTL DEF Spec

-----------------------------------------------------------------------------
(* The legacy backfill.                                                    *)

\* A copy of a cluster that serves data whose version is not recorded.
Unrecorded(c) == c.applied = Zero /\ ClusterHasMySQLData(c)

\* Until the backfill, every copy says so, and Reconcile goes no further than
\* the backfill or the hold.
Waiting ==
  cluster.applied = Zero =>
    /\ sts.ver # Zero
    /\ \A c \in Copies : Unrecorded(c)
    /\ pc # "idle" => pc \in {"backfill", "hold"} /\ Unrecorded(hand)

\* A copy that may be written back has the recorded version.
HandRecorded == handFresh /\ pc # "idle" => hand.applied = cluster.applied

LegacyInv == TypeOK /\ StreamEndsAtCluster /\ Waiting /\ HandRecorded /\ CheckNeverHolds

LEMMA LegacyStart == LegacyInit => LegacyInv
<1> SUFFICES ASSUME LegacyInit PROVE LegacyInv
  OBVIOUS
<1>1. TypeOK
  BY TypeInit
<1>2. PICK v \in Versions : Running(v, Zero)
  BY DEF LegacyInit
<1>3. cluster.applied = Zero /\ cluster.readyNodes = Replicas /\ sts.ver # Zero
  BY <1>2, ZeroNotAsked DEF Running
<1>4. stream = <<>> /\ cache = cluster /\ pc = "idle"
  BY DEF LegacyInit, Quiet
<1>5. Copies = {cluster}
  BY <1>4 DEF Copies
<1> QED BY <1>1, <1>3, <1>4, <1>5, BoundsAssumption
     DEF LegacyInv, StreamEndsAtCluster, Waiting, HandRecorded, CheckNeverHolds, Unrecorded,
         ClusterHasMySQLData

\* What a write leaves of the stored cluster and of its copies.
LEMMA StoreWaits ==
  ASSUME LegacyInv, NEW c \in Cluster, Store(c) \/ (c = cluster /\ UNCHANGED api)
  PROVE  /\ cluster' = c /\ StreamEndsAtCluster'
         /\ \A d \in Copies' : d \in Copies \/ d = c
<1>1. CASE Store(c)
  BY <1>1, StoreCopies DEF LegacyInv
<1>2. CASE c = cluster /\ UNCHANGED api
  BY <1>2 DEF LegacyInv, Copies, StreamEndsAtCluster, api
<1> QED BY <1>1, <1>2

LEMMA LegacyStep == LegacyInv /\ [Next]_vars => LegacyInv'
<1> SUFFICES ASSUME LegacyInv, [Next]_vars
             PROVE  StreamEndsAtCluster' /\ Waiting' /\ HandRecorded' /\ CheckNeverHolds'
  BY TypeStep DEF LegacyInv
<1>0. /\ TypeOK /\ StreamEndsAtCluster /\ Waiting /\ HandRecorded /\ CheckNeverHolds
      /\ cluster \in Cluster /\ hand \in Cluster
  BY DEF LegacyInv, TypeOK
<1> DEFINE Q == StreamEndsAtCluster' /\ Waiting' /\ HandRecorded' /\ CheckNeverHolds'
<1> USE DEF Unrecorded
<1>1. CASE UNCHANGED vars
  BY <1>0, <1>1 DEF vars, StreamEndsAtCluster, Waiting, HandRecorded, CheckNeverHolds, Copies
<1>2. CASE Begin
  <2>1. cache \in Copies /\ (stream = <<>> => cache = cluster)
    BY <1>0 DEF StreamEndsAtCluster, Copies
  <2> QED BY <1>0, <1>2, <2>1 DEF Begin, api, plane, StreamEndsAtCluster, Waiting, HandRecorded,
     CheckNeverHolds, Copies
<1>3. CASE SkipBackfill
  <2>1. cluster.applied # Zero
    BY <1>0, <1>3 DEF SkipBackfill, Waiting, NeedsAppliedBackfill
  <2>2. ~CheckHolds(hand)
    BY <1>3 DEF SkipBackfill, CheckHolds, NeedsAppliedBackfill
  <2> QED BY <1>0, <1>3, <2>1, <2>2 DEF SkipBackfill, Goto, api, plane, StreamEndsAtCluster,
     Waiting, HandRecorded, CheckNeverHolds
<1>4. CASE BackfillHolds \/ BackfillQueryFails
  BY <1>0, <1>4 DEF BackfillHolds, BackfillQueryFails, Goto, api, plane, StreamEndsAtCluster,
     Waiting, HandRecorded, CheckNeverHolds, Copies
<1>5. ASSUME NEW v \in Versions, Backfill(v) PROVE Q
  <2> DEFINE c == [hand EXCEPT !.applied = v]
  <2>1. c \in Cluster /\ c.applied = v /\ v # Zero
    BY <1>0, ZeroNotAsked DEF Cluster
  <2>2. CASE Accepted(c) /\ hand' = c /\ Goto("check")
    <3>1. cluster' = c /\ StreamEndsAtCluster'
      BY <2>1, <2>2, StoreWaits DEF Accepted
    <3>2. ~CheckHolds(c)
      BY <2>1 DEF CheckHolds
    <3> QED BY <2>1, <2>2, <3>1, <3>2 DEF Goto, Waiting, HandRecorded, CheckNeverHolds, CheckHolds
  <2>3. CASE Conflict
    BY <1>0, <1>5, <2>3 DEF Backfill, Conflict, Fail, api, plane, StreamEndsAtCluster, Waiting,
       HandRecorded, CheckNeverHolds, Copies
  <2> QED BY <1>5, <2>2, <2>3 DEF Backfill
<1>6. CASE CheckBlocked
  <2> DEFINE c == [hand EXCEPT !.blocked = TRUE]
  <2>1. c \in Cluster /\ c.applied = hand.applied /\ hand.applied # Zero /\ pc = "check"
    BY <1>0, <1>6 DEF Cluster, CheckBlocked, PathInvalid
  <2>2. cluster.applied # Zero
    BY <1>0, <2>1 DEF Waiting
  <2>3. CASE Accepted(c) /\ hand' = c /\ Goto("hold")
    <3>1. cluster' = c /\ StreamEndsAtCluster'
      BY <2>1, <2>3, StoreWaits DEF Accepted
    <3> QED BY <2>1, <2>3, <3>1 DEF Goto, Waiting, HandRecorded, CheckNeverHolds
  <2>4. CASE Conflict
    BY <1>0, <2>2, <2>4 DEF Conflict, Fail, api, StreamEndsAtCluster, Waiting, HandRecorded,
       CheckNeverHolds
  <2> QED BY <1>6, <2>3, <2>4 DEF CheckBlocked
<1>7. CASE CheckPasses
  <2>1. cluster.applied # Zero /\ hand'.applied = hand.applied
    BY <1>0, <1>7 DEF CheckPasses, Waiting, Cluster
  <2> QED BY <1>0, <1>7, <2>1 DEF CheckPasses, api, StreamEndsAtCluster, Waiting, HandRecorded,
     CheckNeverHolds
<1>8. ASSUME SyncStatefulSet, pc # "idle", UNCHANGED api
      PROVE  /\ hand'.applied = hand.applied
             /\ cluster.applied = Zero => sts'.ver = sts.ver
  <2>1. hand'.applied = hand.applied
    BY <1>0, <1>8 DEF SyncStatefulSet, Cluster
  <2>2. ASSUME cluster.applied = Zero PROVE sts'.ver = sts.ver
    BY <1>0, <1>8, <2>2 DEF SyncStatefulSet, PodTemplate, RolloutMySQLVersion, Waiting, Pending,
       VersionChangePending
  <2> QED BY <2>1, <2>2
<1>9. CASE Hold
  BY <1>0, <1>8, <1>9 DEF Hold, api, StreamEndsAtCluster, Waiting, HandRecorded, CheckNeverHolds,
     Copies
<1>10. CASE Sync \/ SyncFails
  <2>1. cluster.applied # Zero /\ pc # "idle"
    BY <1>0, <1>10 DEF Sync, SyncFails, Waiting
  <2>2. hand'.applied = hand.applied
    BY <1>8, <1>10, <2>1 DEF Sync, SyncFails
  <2> QED BY <1>0, <1>10, <2>1, <2>2 DEF Sync, SyncFails, api, StreamEndsAtCluster, Waiting,
     HandRecorded, CheckNeverHolds
<1>11. CASE AdvanceNothing \/ AdvanceQueryFails
  BY <1>0, <1>11 DEF AdvanceNothing, AdvanceQueryFails, Goto, api, plane, StreamEndsAtCluster,
     Waiting, HandRecorded, CheckNeverHolds
<1>12. ASSUME NEW v \in Versions, Advance(v) PROVE Q
  <2>1. /\ pc = "advance" /\ pc' = "finish" /\ hand'.applied = v /\ hand' \in Cluster
        /\ handFresh' = handFresh /\ cluster.applied # Zero /\ v # Zero
    BY <1>0, <1>12, ZeroNotAsked DEF Advance, Cluster, Waiting
  <2>2. CASE Accepted(hand')
    <3>1. cluster' = hand' /\ StreamEndsAtCluster'
      BY <1>0, <2>1, <2>2, StoreCopies DEF Accepted, StreamEndsAtCluster, api
    <3> QED BY <2>1, <3>1 DEF Waiting, HandRecorded, CheckNeverHolds
  <2>3. CASE ~handFresh /\ UNCHANGED api
    BY <1>0, <2>1, <2>3 DEF api, StreamEndsAtCluster, Waiting, HandRecorded, CheckNeverHolds
  <2> QED BY <1>12, <2>2, <2>3 DEF Advance
<1>13. CASE Finish
  <2>1. pc' = "idle" /\ cluster.applied # Zero
    BY <1>0, <1>13 DEF Finish, Goto, Waiting
  <2>2. CASE UNCHANGED api
    BY <1>0, <2>1, <2>2 DEF api, StreamEndsAtCluster, Waiting, HandRecorded, CheckNeverHolds
  <2>3. CASE handFresh /\ Accepted(hand)
    <3>1. hand.applied # Zero
      BY <1>0, <1>13, <2>1, <2>3 DEF Finish, HandRecorded
    <3>2. cluster' = hand /\ StreamEndsAtCluster'
      BY <1>0, <2>3, StoreWaits DEF Accepted
    <3> QED BY <2>1, <3>1, <3>2 DEF Waiting, HandRecorded, CheckNeverHolds
  <2> QED BY <1>13, <2>2, <2>3 DEF Finish, Accepted
<1>14. CASE Deliver
  <2>1. Copies' \subseteq Copies /\ StreamEndsAtCluster'
    BY <1>0, <1>14, DeliverCopies
  <2> QED BY <1>0, <1>14, <2>1 DEF Deliver, plane, Waiting, HandRecorded, CheckNeverHolds
<1>15. CASE Resync \/ ReportStatus
  BY <1>0, <1>15 DEF Resync, ReportStatus, api, plane, StreamEndsAtCluster, Waiting, HandRecorded,
     CheckNeverHolds, Copies
<1>16. ASSUME NEW p \in Ordinals, PodStep(p) \/ LosePod(p) PROVE Q
  <2>1. UNCHANGED <<sts, api, control>>
    BY <1>16 DEF PodStep, CreatePod, RollPod, RemovePod, LosePod, StartMysqld, BecomeReady
  <2> QED BY <1>0, <2>1 DEF api, control, StreamEndsAtCluster, Waiting, HandRecorded,
     CheckNeverHolds, Copies
<1>17. ASSUME NEW c \in Cluster, Store(c), c.applied = cluster.applied,
              c.readyNodes = cluster.readyNodes, handFresh' = FALSE,
              pc' = pc, hand' = hand, sts' = sts
       PROVE  Q
  <2>1. /\ cluster' = c /\ StreamEndsAtCluster'
        /\ \A d \in Copies' : d \in Copies \/ d = c
    BY <1>17, StoreWaits
  <2>2. cluster \in Copies
    BY <1>0, StoredIsCopy
  <2>3. Unrecorded(cluster) => Unrecorded(c)
    BY <1>17 DEF ClusterHasMySQLData
  <2> QED BY <1>0, <1>17, <2>1, <2>2, <2>3 DEF Waiting, HandRecorded, CheckNeverHolds
<1>18. ASSUME NEW v \in Versions, SetVersion(v) PROVE Q
  <2>1. /\ [cluster EXCEPT !.spec = v] \in Cluster
        /\ [cluster EXCEPT !.spec = v].applied = cluster.applied
        /\ [cluster EXCEPT !.spec = v].readyNodes = cluster.readyNodes
    BY <1>0 DEF Cluster
  <2> QED BY <1>17, <1>18, <2>1 DEF SetVersion, plane
<1>19. CASE ForeignWrite
  BY <1>0, <1>17, <1>19 DEF ForeignWrite, plane
<1>20. CASE Restart
  <2>1. cluster' = cluster /\ cache' = cluster /\ stream' = <<>> /\ pc' = "idle" /\ sts' = sts
    BY <1>20 DEF Restart, Fail, plane
  <2>2. Copies' = {cluster}
    BY <2>1 DEF Copies
  <2>3. cluster \in Copies
    BY <1>0, StoredIsCopy
  <2> QED BY <1>0, <2>1, <2>2, <2>3 DEF StreamEndsAtCluster, Waiting, HandRecorded,
     CheckNeverHolds
<1> QED
  BY <1>1, <1>2, <1>3, <1>4, <1>5, <1>6, <1>7, <1>9, <1>10, <1>11, <1>12, <1>13, <1>14, <1>15,
     <1>16, <1>18, <1>19, <1>20
  DEF Next, ReconcileStep, FaultStep

\* The branch of EnsureChecked that waits for a version is dead code: the
\* backfill before it records one or holds the rollout itself.
THEOREM CheckedAfterBackfill == LegacySpec => []CheckNeverHolds
<1>1. LegacyInv => CheckNeverHolds
  BY DEF LegacyInv
<1> QED BY <1>1, LegacyStart, LegacyStep, PTL DEF LegacySpec

\* However many pods, queries and updates fail, the template of a cluster that
\* an older operator left is not moved before its version has been recorded.
THEOREM HeldForBackfill == LegacySpec => TemplateHeldForBackfill
<1>1. ASSUME LegacyInv, [Next]_vars PROVE [cluster.applied = Zero => sts'.ver = sts.ver]_vars
  <2> SUFFICES ASSUME Next, cluster.applied = Zero PROVE sts'.ver = sts.ver
    BY <1>1
  <2>1. CASE SyncStatefulSet /\ UNCHANGED api /\ pc \in Deciding
    <3>1. Unrecorded(hand) /\ sts.ver # Zero
      BY <1>1, <2>1 DEF LegacyInv, Waiting, Deciding
    <3> QED BY <2>1, <3>1 DEF SyncStatefulSet, PodTemplate, RolloutMySQLVersion, Pending,
       VersionChangePending, Unrecorded
  <2> QED BY <2>1, PlaneSteps
<1> QED BY <1>1, LegacyStart, LegacyStep, PTL DEF LegacySpec, TemplateHeldForBackfill

-----------------------------------------------------------------------------
(* One LTS line at a time after the backfill.                              *)

\* Until the backfill every pod and every volume has the template's version.
Uniform ==
  cluster.applied = Zero =>
    \A p \in Ordinals : /\ data[p].ver = sts.ver
                        /\ pods[p].phase # "none" => pods[p].ver = sts.ver

\* After it a copy may still be one of the unrecorded cluster, which is held.
Usable(c) == Unrecorded(c) \/ NotBehind(c)

RecordedCopies ==
  cluster.applied # Zero =>
    /\ sts.ver # Zero
    /\ \A c \in Copies : Usable(c)
    /\ pc \in Deciding => Usable(hand)
    /\ pc \in {"check", "sync", "advance"} => NotBehind(hand)
    /\ pc \in {"sync", "advance"} =>
         Line(hand.spec) \in {Line(hand.applied), Line(hand.applied) + 1}
    /\ handFresh /\ pc \in Deciding \cup {"finish"} => SameVersions(hand)
    /\ handFresh /\ pc \in Deciding => \A c \in Copies : Unrecorded(c) \/ SameVersions(c)

LegacyLineInv == LegacyInv /\ TemplateOneLine /\ Uniform /\ RecordedCopies

LEMMA LegacyLineStart == LegacyInit => LegacyLineInv
<1> SUFFICES ASSUME LegacyInit PROVE LegacyLineInv
  OBVIOUS
<1>1. PICK v \in Versions : Running(v, Zero)
  BY DEF LegacyInit
<1>2. /\ cluster.applied = Zero /\ sts.ver = v
      /\ \A p \in Ordinals : pods[p].ver = v /\ data[p].ver = v
  BY <1>1 DEF Running
<1> QED BY <1>2, LegacyStart DEF LegacyLineInv, TemplateOneLine, Uniform, RecordedCopies

\* What a step may do to the recorded version: only Advance changes it once
\* the backfill has recorded one.
LEMMA LegacyAppliedSteps ==
  ASSUME LegacyLineInv, Next
  PROVE  \/ cluster'.applied = cluster.applied
         \/ \E v \in Versions : Advance(v)
         \/ cluster.applied = Zero /\ \E v \in Versions : Backfill(v)
<1>0. /\ hand \in Cluster /\ cluster \in Cluster
      /\ handFresh /\ pc # "idle" => hand.applied = cluster.applied
  BY DEF LegacyLineInv, LegacyInv, TypeOK, HandRecorded
<1> SUFFICES ASSUME cluster'.applied # cluster.applied
             PROVE  \/ \E v \in Versions : Advance(v)
                    \/ cluster.applied = Zero /\ \E v \in Versions : Backfill(v)
  OBVIOUS
<1>1. ASSUME NEW v \in Versions, Backfill(v) PROVE cluster.applied = Zero
  BY <1>0, <1>1 DEF Backfill, NeedsAppliedBackfill, Accepted, Conflict, api
<1>2. ~CheckBlocked
  BY <1>0 DEF CheckBlocked, Accepted, Store, Conflict, api, Cluster
<1>3. ~Finish
  BY <1>0 DEF Finish, Accepted, Store, api
<1>4. \A v \in Versions : ~SetVersion(v)
  BY <1>0 DEF SetVersion, Store, Cluster
<1>5. \A p \in Ordinals : ~PodStep(p) /\ ~LosePod(p)
  BY DEF PodStep, CreatePod, RollPod, RemovePod, LosePod, StartMysqld, BecomeReady, api
<1>6. /\ ~Begin /\ ~SkipBackfill /\ ~BackfillHolds /\ ~CheckPasses /\ ~Hold /\ ~Sync
      /\ ~AdvanceNothing /\ ~Deliver /\ ~Resync /\ ~ReportStatus
  BY DEF Begin, SkipBackfill, BackfillHolds, CheckPasses, Hold, Sync, AdvanceNothing, Deliver,
     Resync, ReportStatus, api
<1>7. /\ ~ForeignWrite /\ ~BackfillQueryFails /\ ~SyncFails /\ ~AdvanceQueryFails
      /\ ~Restart
  BY DEF ForeignWrite, Store, BackfillQueryFails, SyncFails, AdvanceQueryFails, Restart, api
<1> QED BY <1>1, <1>2, <1>3, <1>4, <1>5, <1>6, <1>7 DEF Next, ReconcileStep, FaultStep

\* A version once recorded is not erased.
LEMMA StaysRecorded ==
  ASSUME LegacyLineInv, Next, cluster.applied # Zero
  PROVE  cluster'.applied # Zero
<1>1. ASSUME NEW v \in Versions, Advance(v) PROVE cluster'.applied \in {cluster.applied, v}
  BY <1>1 DEF LegacyLineInv, LegacyInv, TypeOK, Advance, Accepted, Store, api, Cluster
<1> QED BY <1>1, LegacyAppliedSteps, ZeroNotAsked

\* While nothing is recorded the template stays and pods come from it.
LEMMA UniformStep == LegacyLineInv /\ Next => Uniform'
<1> SUFFICES ASSUME LegacyLineInv, Next, cluster'.applied = Zero PROVE Uniform'
  BY DEF Uniform
<1>0. /\ cluster.applied = Zero
      /\ pods \in [Ordinals -> Pod] /\ data \in [Ordinals -> Data]
      /\ \A p \in Ordinals : data[p].ver = sts.ver /\ (pods[p].phase # "none" => pods[p].ver = sts.ver)
  BY StaysRecorded DEF LegacyLineInv, LegacyInv, TypeOK, Uniform
<1>1. CASE UNCHANGED <<sts, pods, data>>
  BY <1>0, <1>1 DEF Uniform
<1>2. CASE SyncStatefulSet /\ UNCHANGED api /\ pc \in Deciding
  <2>1. Unrecorded(hand) /\ sts.ver # Zero
    BY <1>0, <1>2 DEF LegacyLineInv, LegacyInv, Waiting, Deciding
  <2>2. sts'.ver = sts.ver
    BY <1>2, <2>1 DEF SyncStatefulSet, PodTemplate, RolloutMySQLVersion, Pending,
       VersionChangePending, Unrecorded
  <2> QED BY <1>0, <1>2, <2>2 DEF SyncStatefulSet, Uniform
<1>3. ASSUME NEW p \in Ordinals, PodStep(p) \/ LosePod(p), UNCHANGED sts PROVE Uniform'
  <2>1. CASE CreatePod(p)
    BY <1>0, <1>3, <2>1 DEF CreatePod, Pod, Uniform
  <2>2. CASE RollPod(p) \/ BecomeReady(p)
    <3>1. pods[p].phase # "none" /\ data' = data
      BY <1>0, <2>2 DEF RollPod, BecomeReady, ReadyPods, PodIsReady
    <3>2. \A q \in Ordinals : pods'[q].ver = pods[q].ver /\ (q # p => pods'[q] = pods[q])
      BY <1>0, <2>2 DEF RollPod, BecomeReady, Pod
    <3> QED BY <1>0, <1>3, <3>1, <3>2 DEF Uniform
  <2>3. CASE RemovePod(p) \/ LosePod(p)
    BY <1>0, <1>3, <2>3 DEF RemovePod, LosePod, Absent, Pod, Uniform
  <2>4. CASE StartMysqld(p)
    <3>1. pods[p].phase # "none" /\ pods[p].ver = sts.ver
      BY <1>0, <2>4 DEF StartMysqld
    <3>2. \A q \in Ordinals : pods'[q].ver = pods[q].ver /\ (q # p => pods'[q] = pods[q])
      BY <1>0, <2>4 DEF StartMysqld, Pod
    <3>3. \A q \in Ordinals : data'[q].ver = sts.ver
      BY <1>0, <2>4, <3>1 DEF StartMysqld, Data
    <3> QED BY <1>0, <1>3, <3>1, <3>2, <3>3 DEF Uniform
  <2> QED BY <1>3, <2>1, <2>2, <2>3, <2>4 DEF PodStep
<1> QED BY <1>1, <1>2, <1>3, PlaneSteps

\* What a write that keeps the applied version leaves of the copies.
LEMMA StoreUsable ==
  ASSUME LegacyLineInv, cluster.applied # Zero,
         NEW c \in Cluster, Store(c) \/ (c = cluster /\ UNCHANGED api),
         c.applied = cluster.applied
  PROVE  /\ cluster' = c
         /\ \A d \in Copies' : Usable(d)'
         /\ \A d \in Copies' : d \in Copies \/ d = c
<1>1. cluster' = c /\ \A d \in Copies' : d \in Copies \/ d = c
  BY StoreWaits DEF LegacyLineInv
<1>2. \A d \in Copies : Usable(d)
  BY DEF LegacyLineInv, RecordedCopies
<1>3. ASSUME NEW d \in Copies' PROVE Usable(d)'
  BY <1>1, <1>2 DEF Usable, Unrecorded, ClusterHasMySQLData, NotBehind
<1> QED BY <1>1, <1>3

\* The backfill records the version of the template, and every other copy is one
\* of the unrecorded cluster.
LEMMA BackfillRecords ==
  ASSUME LegacyLineInv, cluster.applied = Zero, NEW v \in Versions, Backfill(v),
         cluster'.applied # Zero
  PROVE  TemplateOneLine' /\ RecordedCopies'
<1> DEFINE c == [hand EXCEPT !.applied = v]
<1>0. /\ hand \in Cluster /\ cluster \in Cluster /\ v # Zero /\ sts.ver # Zero
      /\ \A d \in Copies : Unrecorded(d)
  BY ZeroNotAsked DEF LegacyLineInv, LegacyInv, TypeOK, Waiting
<1>1. c \in Cluster /\ c.applied = v /\ c.spec = hand.spec
  BY <1>0 DEF Cluster
<1>2. Accepted(c) /\ hand' = c /\ Goto("check")
  BY DEF Backfill, Conflict, api
<1>3. /\ cluster' = c
      /\ \A d \in Copies' : d \in Copies \/ d = c
  BY <1>1, <1>2, StoreWaits DEF Accepted, LegacyLineInv
<1>4. sts' = sts /\ v = sts.ver
  <2>1. PICK p \in Ordinals : data[p].ver = v
    BY DEF Backfill, Observed, ReadyPods
  <2> QED BY <2>1 DEF Backfill, plane, LegacyLineInv, Uniform
<1>5. hand' = cluster' /\ hand'.applied # Zero
  BY <1>0, <1>1, <1>2, <1>3
<1>6. \A d \in Copies' : Unrecorded(d) \/ d = cluster'
  BY <1>0, <1>3
<1>7. TemplateOneLine'
  BY <1>1, <1>3, <1>4 DEF TemplateOneLine
<1>8. \A d \in Copies' : Usable(d)' /\ (Unrecorded(d) \/ SameVersions(d))'
  BY <1>5, <1>6 DEF Usable, Unrecorded, ClusterHasMySQLData, NotBehind, SameVersions
<1>9. pc' = "check" /\ NotBehind(hand)' /\ SameVersions(hand)' /\ Usable(hand)'
  BY <1>2, <1>5 DEF Goto, Usable, NotBehind, SameVersions
<1> QED BY <1>0, <1>4, <1>7, <1>8, <1>9 DEF RecordedCopies

\* A recorded cluster: the template and the copies after a step.
LEMMA RecordedStep ==
  ASSUME LegacyLineInv, cluster.applied # Zero, Next
  PROVE  TemplateOneLine' /\ RecordedCopies'
<1> USE DEF Deciding
<1>0. /\ TypeOK /\ TemplateOneLine /\ StreamEndsAtCluster /\ HandRecorded /\ RecordedCopies
      /\ cluster \in Cluster /\ hand \in Cluster /\ CheckNeverHolds
      /\ sts.ver # Zero
  BY DEF LegacyLineInv, LegacyInv, TypeOK, RecordedCopies
<1> DEFINE Q == TemplateOneLine' /\ RecordedCopies'
<1>1. CASE Begin
  <2>1. cache \in Copies /\ (stream = <<>> => cache = cluster /\ Copies = {cluster})
    BY <1>0 DEF StreamEndsAtCluster, Copies
  <2>2. Copies' = Copies /\ cluster' = cluster /\ sts' = sts /\ hand' = cache /\ pc' = "backfill"
        /\ (handFresh' => stream = <<>>)
    BY <1>1 DEF Begin, api, plane, Copies
  <2>3. Usable(hand)' /\ \A d \in Copies' : Usable(d)'
    BY <1>0, <2>1, <2>2 DEF RecordedCopies, Usable, NotBehind, Unrecorded, ClusterHasMySQLData
  <2>4. handFresh' => SameVersions(hand)' /\ \A d \in Copies' : SameVersions(d)'
    BY <2>1, <2>2 DEF SameVersions
  <2> QED BY <1>0, <2>2, <2>3, <2>4 DEF TemplateOneLine, RecordedCopies
<1>2. CASE SkipBackfill
  <2>1. NotBehind(hand)
    BY <1>0, <1>2 DEF SkipBackfill, NeedsAppliedBackfill, RecordedCopies, Usable, Unrecorded
  <2> QED BY <1>0, <1>2, <2>1 DEF SkipBackfill, Goto, api, plane, TemplateOneLine, RecordedCopies,
     Usable, Unrecorded, ClusterHasMySQLData, NotBehind, SameVersions, Copies
<1>3. CASE BackfillHolds \/ BackfillQueryFails
  BY <1>0, <1>3 DEF BackfillHolds, BackfillQueryFails, Goto, api, plane, TemplateOneLine,
     RecordedCopies, Usable, Unrecorded, ClusterHasMySQLData, NotBehind, SameVersions, Copies
<1>4. ASSUME NEW v \in Versions, Backfill(v) PROVE Q
  <2>1. Conflict /\ sts' = sts
    BY <1>0, <1>4 DEF Backfill, NeedsAppliedBackfill, HandRecorded, Accepted, plane
  <2> QED BY <1>0, <2>1 DEF Conflict, Fail, api, TemplateOneLine, RecordedCopies, Usable,
     Unrecorded, ClusterHasMySQLData, NotBehind, Copies
<1>5. CASE CheckBlocked
  <2> DEFINE c == [hand EXCEPT !.blocked = TRUE]
  <2>1. CASE Accepted(c) /\ hand' = c /\ Goto("hold")
    <3>1. /\ c \in Cluster /\ c.applied = hand.applied /\ c.spec = hand.spec
          /\ handFresh /\ pc = "check" /\ sts' = sts
      BY <1>0, <1>5, <2>1 DEF Cluster, Accepted, CheckBlocked, plane
    <3>2. c.applied = cluster.applied /\ c.spec = cluster.spec
      BY <1>0, <3>1 DEF RecordedCopies, SameVersions
    <3>3. Store(c) \/ (c = cluster /\ UNCHANGED api)
      BY <2>1 DEF Accepted
    <3>4. /\ cluster' = c
          /\ \A d \in Copies' : Usable(d)'
          /\ \A d \in Copies' : d \in Copies \/ d = c
      BY <3>1, <3>2, <3>3, StoreUsable
    <3>5. \A d \in Copies' : (Unrecorded(d) \/ SameVersions(d))'
      BY <1>0, <3>1, <3>2, <3>4
         DEF RecordedCopies, SameVersions, Unrecorded, ClusterHasMySQLData
    <3>6. NotBehind(hand)'
      BY <1>0, <2>1, <3>2, <3>4 DEF NotBehind
    <3>7. SameVersions(hand)' /\ Usable(hand)'
      BY <2>1, <3>4, <3>6 DEF SameVersions, Usable
    <3>8. pc' = "hold" /\ TemplateOneLine'
      BY <1>0, <2>1, <3>1, <3>2, <3>4 DEF Goto, TemplateOneLine
    <3> QED BY <1>0, <3>1, <3>4, <3>5, <3>7, <3>8 DEF RecordedCopies
  <2>2. CASE Conflict
    BY <1>0, <1>5, <2>2 DEF CheckBlocked, Conflict, Fail, api, plane, TemplateOneLine,
       RecordedCopies, Usable, Unrecorded, ClusterHasMySQLData, NotBehind, Copies
  <2> QED BY <1>5, <2>1, <2>2 DEF CheckBlocked
<1>6. CASE CheckPasses
  <2>0. NotBehind(hand) /\ hand.applied # Zero
    BY <1>0, <1>6 DEF CheckPasses, RecordedCopies, NotBehind
  <2>1. /\ pc = "check" /\ hand'.applied = hand.applied /\ hand'.spec = hand.spec
        /\ hand.applied \in Versions /\ hand.spec \in Versions
    BY <1>0, <1>6, <2>0 DEF CheckPasses, Cluster
  <2>2. Line(hand.spec) \in {Line(hand.applied), Line(hand.applied) + 1}
    BY <1>6, <2>0, <2>1, CheckedPath DEF CheckPasses
  <2>3. pc' = "sync" /\ sts' = sts /\ cluster' = cluster /\ Copies' = Copies
        /\ handFresh' = handFresh
    BY <1>6 DEF CheckPasses, api, plane, Copies
  <2>4. NotBehind(hand)' /\ Usable(hand)'
    BY <2>0, <2>1, <2>3 DEF NotBehind, Usable
  <2>5. /\ \A d \in Copies' : Usable(d)'
        /\ handFresh' => SameVersions(hand)' /\ \A d \in Copies' : (Unrecorded(d) \/ SameVersions(d))'
    BY <1>0, <2>1, <2>3
       DEF RecordedCopies, Usable, Unrecorded, ClusterHasMySQLData, NotBehind, SameVersions
  <2> QED BY <1>0, <2>1, <2>2, <2>3, <2>4, <2>5 DEF TemplateOneLine, RecordedCopies
<1>7. ASSUME SyncStatefulSet, pc \in Deciding, UNCHANGED api
      PROVE  /\ TemplateOneLine' /\ sts'.ver # Zero
             /\ hand'.applied = hand.applied /\ hand'.spec = hand.spec
  <2>1. hand'.applied = hand.applied /\ hand'.spec = hand.spec
    BY <1>0, <1>7 DEF SyncStatefulSet, Cluster
  <2>2. CASE NotBehind(hand)
    BY <1>0, <1>7, <2>1, <2>2, SyncOneLine DEF api
  <2>3. CASE Unrecorded(hand)
    <3>1. sts'.ver = sts.ver
      BY <1>0, <1>7, <2>3 DEF SyncStatefulSet, PodTemplate, RolloutMySQLVersion, Pending,
         VersionChangePending, Unrecorded
    <3> QED BY <1>0, <1>7, <2>1, <3>1 DEF TemplateOneLine, api
  <2> QED BY <1>0, <1>7, <2>2, <2>3 DEF RecordedCopies, Usable
<1>8. CASE Hold
  BY <1>0, <1>7, <1>8 DEF Hold, api, RecordedCopies, Usable, Unrecorded, ClusterHasMySQLData,
     NotBehind, SameVersions, Copies
<1>9. CASE Sync
  <2>1. NotBehind(hand) /\ pc = "sync" /\ pc' = "advance" /\ cluster' = cluster /\ Copies' = Copies
        /\ handFresh' = handFresh
    BY <1>0, <1>9 DEF Sync, RecordedCopies, api, Copies
  <2>2. /\ TemplateOneLine' /\ sts'.ver # Zero
        /\ hand'.applied = hand.applied /\ hand'.spec = hand.spec
    BY <1>7, <1>9 DEF Sync
  <2>3. NotBehind(hand)' /\ Usable(hand)'
    BY <2>1, <2>2 DEF NotBehind, Usable
  <2>5. /\ \A d \in Copies' : Usable(d)'
        /\ handFresh' => SameVersions(hand)' /\ \A d \in Copies' : (Unrecorded(d) \/ SameVersions(d))'
    BY <1>0, <2>1, <2>2
       DEF RecordedCopies, Usable, Unrecorded, ClusterHasMySQLData, NotBehind, SameVersions
  <2>6. Line(hand'.spec) \in {Line(hand'.applied), Line(hand'.applied) + 1}
    BY <1>0, <2>1, <2>2 DEF RecordedCopies
  <2> QED BY <2>1, <2>2, <2>3, <2>5, <2>6 DEF RecordedCopies
<1>10. CASE SyncFails
  <2>1. /\ TemplateOneLine' /\ sts'.ver # Zero
        /\ hand'.applied = hand.applied /\ hand'.spec = hand.spec
    BY <1>0, <1>7, <1>10 DEF SyncFails, api, TemplateOneLine
  <2> QED BY <1>0, <1>10, <2>1 DEF SyncFails, api, RecordedCopies, Usable, Unrecorded,
     ClusterHasMySQLData, NotBehind, SameVersions, Copies
<1>11. CASE AdvanceNothing \/ AdvanceQueryFails
  BY <1>0, <1>11 DEF AdvanceNothing, AdvanceQueryFails, Goto, api, plane, TemplateOneLine,
     RecordedCopies, Usable, Unrecorded, ClusterHasMySQLData, NotBehind, SameVersions, Copies
<1>12. ASSUME NEW v \in Versions, Advance(v) PROVE Q
  <2>1. /\ pc = "advance" /\ pc' = "finish" /\ sts' = sts
        /\ hand'.applied = v /\ hand'.spec = hand.spec /\ hand' \in Cluster
        /\ handFresh' = handFresh
    BY <1>0, <1>12 DEF Advance, Cluster, plane
  <2>2. sts.ver = hand.spec /\ Line(v) = Line(hand.spec) /\ v # Zero
    BY <1>0, <1>12, MatchIsLine, ZeroNotAsked, VersionsAssumption
       DEF Advance, SyncAppliedVersion, RolloutComplete, Cluster
  <2>3. CASE handFresh /\ Accepted(hand')
    <3>1. /\ hand.applied = cluster.applied /\ hand.spec = cluster.spec
          /\ \A d \in Copies : Unrecorded(d) \/ SameVersions(d)
      BY <1>0, <2>1, <2>3 DEF RecordedCopies, SameVersions
    <3>2. /\ cluster' = hand'
          /\ \A d \in Copies' : d \in Copies \/ d = hand'
      BY <2>1, <2>3, StoreWaits DEF Accepted, LegacyLineInv
    <3>3. Line(v) \in {Line(hand.applied), Line(hand.applied) + 1}
      BY <1>0, <2>1, <2>2 DEF RecordedCopies
    <3>4. ASSUME NEW d \in Copies' PROVE Usable(d)'
      <4>1. CASE Unrecorded(d)
        BY <4>1 DEF Usable, Unrecorded, ClusterHasMySQLData
      <4>2. CASE SameVersions(d) \/ d = hand'
        BY <2>1, <2>2, <3>1, <3>2, <3>3, <4>2 DEF Usable, NotBehind, SameVersions
      <4> QED BY <3>1, <3>2, <4>1, <4>2
    <3> QED BY <1>0, <2>1, <2>2, <3>2, <3>4 DEF TemplateOneLine, RecordedCopies, SameVersions
  <2>4. CASE ~handFresh /\ UNCHANGED api
    BY <1>0, <2>1, <2>4 DEF api, TemplateOneLine, RecordedCopies, Usable, Unrecorded,
       ClusterHasMySQLData, NotBehind, Copies
  <2> QED BY <1>12, <2>3, <2>4 DEF Advance, Accepted
<1>13. CASE Finish
  <2>1. pc' = "idle" /\ sts' = sts
    BY <1>13 DEF Finish, Goto, plane
  <2>2. CASE UNCHANGED api
    BY <1>0, <2>1, <2>2 DEF api, TemplateOneLine, RecordedCopies, Usable, Unrecorded,
       ClusterHasMySQLData, NotBehind, Copies
  <2>3. CASE handFresh /\ Accepted(hand)
    <3>1. hand.applied = cluster.applied
      BY <1>0, <1>13, <2>3 DEF Finish, HandRecorded
    <3>2. cluster' = hand /\ \A d \in Copies' : Usable(d)'
      BY <1>0, <2>3, <3>1, StoreUsable DEF Accepted
    <3> QED BY <1>0, <2>1, <3>1, <3>2 DEF TemplateOneLine, RecordedCopies
  <2> QED BY <1>13, <2>2, <2>3 DEF Finish, Accepted
<1>14. CASE Deliver
  <2>1. Copies' \subseteq Copies
    BY <1>0, <1>14, DeliverCopies
  <2> QED BY <1>0, <1>14, <2>1 DEF Deliver, plane, TemplateOneLine, RecordedCopies, Usable,
     Unrecorded, ClusterHasMySQLData, NotBehind, SameVersions
<1>15. CASE Resync \/ ReportStatus
  BY <1>0, <1>15 DEF Resync, ReportStatus, api, plane, TemplateOneLine, RecordedCopies, Usable,
     Unrecorded, ClusterHasMySQLData, NotBehind, SameVersions, Copies
<1>16. ASSUME NEW p \in Ordinals, PodStep(p) \/ LosePod(p) PROVE Q
  <2>1. UNCHANGED <<sts, api, control>>
    BY <1>16 DEF PodStep, CreatePod, RollPod, RemovePod, LosePod, StartMysqld, BecomeReady
  <2> QED BY <1>0, <2>1 DEF api, control, TemplateOneLine, RecordedCopies, Usable, Unrecorded,
     ClusterHasMySQLData, NotBehind, SameVersions, Copies
<1>17. ASSUME NEW c \in Cluster, Store(c), c.applied = cluster.applied, handFresh' = FALSE,
              pc' = pc, hand' = hand, sts' = sts
       PROVE  Q
  <2>1. cluster' = c /\ \A d \in Copies' : Usable(d)'
    BY <1>17, StoreUsable
  <2> QED BY <1>0, <1>17, <2>1 DEF TemplateOneLine, RecordedCopies, Usable, Unrecorded,
     ClusterHasMySQLData, NotBehind
<1>18. ASSUME NEW v \in Versions, SetVersion(v) PROVE Q
  <2>1. /\ [cluster EXCEPT !.spec = v] \in Cluster
        /\ [cluster EXCEPT !.spec = v].applied = cluster.applied
    BY <1>0 DEF Cluster
  <2> QED BY <1>17, <1>18, <2>1 DEF SetVersion, plane
<1>19. CASE ForeignWrite
  BY <1>0, <1>17, <1>19 DEF ForeignWrite, plane
<1>20. CASE Restart
  <2>1. cluster' = cluster /\ cache' = cluster /\ stream' = <<>> /\ pc' = "idle" /\ sts' = sts
    BY <1>20 DEF Restart, Fail, plane
  <2>2. Copies' = {cluster}
    BY <2>1 DEF Copies
  <2> QED BY <1>0, <2>1, <2>2 DEF TemplateOneLine, RecordedCopies, Usable, NotBehind
<1> QED
  BY <1>1, <1>2, <1>3, <1>4, <1>5, <1>6, <1>8, <1>9, <1>10, <1>11, <1>12, <1>13, <1>14, <1>15,
     <1>16, <1>18, <1>19, <1>20
  DEF Next, ReconcileStep, FaultStep

LEMMA LegacyLineStep == LegacyLineInv /\ [Next]_vars => LegacyLineInv'
<1> SUFFICES ASSUME LegacyLineInv, [Next]_vars
             PROVE  TemplateOneLine' /\ Uniform' /\ RecordedCopies'
  BY LegacyStep DEF LegacyLineInv
<1>1. CASE UNCHANGED vars
  BY <1>1 DEF vars, LegacyLineInv, TemplateOneLine, Uniform, RecordedCopies, Usable, Unrecorded,
     ClusterHasMySQLData, NotBehind, SameVersions, Copies
<1>2. CASE Next /\ cluster.applied # Zero
  BY <1>2, RecordedStep, UniformStep
<1>3. CASE Next /\ cluster.applied = Zero
  <2>1. CASE cluster'.applied = Zero
    BY <1>3, <2>1, UniformStep DEF TemplateOneLine, RecordedCopies
  <2>2. CASE cluster'.applied # Zero
    <3>1. \A v \in Versions : ~Advance(v)
      BY <1>3 DEF Advance, LegacyLineInv, LegacyInv, Waiting
    <3>2. PICK v \in Versions : Backfill(v)
      BY <1>3, <2>2, <3>1, LegacyAppliedSteps
    <3> QED BY <1>3, <2>2, <3>2, BackfillRecords, UniformStep
  <2> QED BY <2>1, <2>2
<1> QED BY <1>1, <1>2, <1>3

\* For a cluster that an older operator left, too, the template keeps to the
\* line the backfill found and the next one, whatever copies of the unrecorded
\* cluster are still under way.
THEOREM LegacyOneLine == LegacySpec => []TemplateOneLine
<1>1. LegacyLineInv => TemplateOneLine
  BY DEF LegacyLineInv
<1> QED BY <1>1, LegacyLineStart, LegacyLineStep, PTL DEF LegacySpec

\* What the backfill records is neither erased by a status written from an older
\* copy nor moved by more than a line.
THEOREM LegacyAppliedLine == LegacySpec => AppliedOneLineAtATime
<1> DEFINE A == cluster.applied # Zero =>
                  /\ cluster'.applied # Zero
                  /\ Line(cluster'.applied) \in {Line(cluster.applied), Line(cluster.applied) + 1}
<1>1. ASSUME LegacyLineInv, [Next]_vars PROVE [A]_vars
  <2> SUFFICES ASSUME Next, cluster.applied # Zero, cluster'.applied # cluster.applied PROVE A
    BY <1>1
  <2>0. hand \in Cluster /\ cluster \in Cluster
    BY <1>1 DEF LegacyLineInv, LegacyInv, TypeOK
  <2>1. PICK v \in Versions : Advance(v)
    BY <1>1, LegacyAppliedSteps
  <2>2. handFresh /\ pc = "advance" /\ cluster' = hand' /\ hand'.applied = v
    BY <2>0, <2>1 DEF Advance, Accepted, Store, api, Cluster
  <2>3. /\ hand.applied = cluster.applied
        /\ Line(hand.spec) \in {Line(hand.applied), Line(hand.applied) + 1}
    BY <1>1, <2>2 DEF LegacyLineInv, RecordedCopies, SameVersions, Deciding
  <2>4. Line(v) = Line(hand.spec) /\ v # Zero
    BY <2>0, <2>1, MatchIsLine, ZeroNotAsked, VersionsAssumption
       DEF Advance, SyncAppliedVersion, Cluster
  <2> QED BY <2>2, <2>3, <2>4
<1> QED BY <1>1, LegacyLineStart, LegacyLineStep, PTL DEF LegacySpec, AppliedOneLineAtATime
=============================================================================
