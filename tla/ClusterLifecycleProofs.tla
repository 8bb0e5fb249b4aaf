----------------------- MODULE ClusterLifecycleProofs -----------------------
(***************************************************************************)
(* Proofs about ClusterLifecycle for every number of replicas, every size  *)
(* of the volumes and every value of the bounds.                           *)
(***************************************************************************)
EXTENDS ClusterLifecycle, FiniteSetTheorems, TLAPS

-----------------------------------------------------------------------------
(* What a step does to the stored cluster, its copies and the cluster      *)
(* controller.                                                             *)

\* An update of the cluster controller: what the upgrade and the finalizer
\* depend on is as in its copy.
SameLife(c, d) ==
  /\ c.exists = d.exists /\ c.deleting = d.deleting
  /\ c.finalizer = d.finalizer /\ c.nodes = d.nodes
ControllerStores ==
  cpc # "idle" /\ \E c \in Cluster, pc \in CSteps : CStore(c, pc) /\ SameLife(c, ccopy)

\* It goes on, or returns, without one.
ControllerMoves ==
  /\ cpc # "idle" /\ UNCHANGED api
  /\ \/ CReturn
     \/ \E pc \in CSteps \ {"idle"} : CGoto(pc)

\* The orchestrator controller stores the cluster with its finalizer.
OrcStores ==
  cache.exists /\ \E c \in Cluster : OStore(c) /\ c.exists /\ c.finalizer

LEMMA OrdinalsCount == IsFiniteSet(Ordinals) /\ Cardinality(Ordinals) = MaxReplicas
<1>1. /\ IsFiniteSet(0..(MaxReplicas - 1))
      /\ Cardinality(0..(MaxReplicas - 1)) =
           IF 0 > MaxReplicas - 1 THEN 0 ELSE (MaxReplicas - 1) - 0 + 1
  BY FS_Interval, LifecycleAssumption
<1> QED BY <1>1, LifecycleAssumption DEF Ordinals

LEMMA HostShape ==
  ASSUME NEW h \in Hosts
  PROVE  h = <<h[1], h[2]>> /\ h[1] \in Ordinals /\ h[2] \in {"new", "old"}
BY DEF Hosts

\* A StatefulSet has at most one pod of an ordinal.
LEMMA OwnedCount ==
  ASSUME pods \in SUBSET Hosts
  PROVE  IsFiniteSet(Owned) /\ Cardinality(Owned) \in 0..MaxReplicas
<1> DEFINE f == [h \in Owned |-> h[1]]
<1>1. \A h \in Owned : h \in Hosts /\ h[2] = sts.kind
  BY DEF Owned
<1>2. \A h \in Owned : h = <<h[1], sts.kind>> /\ h[1] \in Ordinals
  BY <1>1, HostShape
<1>3. f \in [Owned -> Ordinals]
  BY <1>2
<1>4. \A g, h \in Owned : f[g] = f[h] => g = h
  BY <1>2
<1>5. f \in Injection(Owned, Ordinals)
  BY <1>3, <1>4 DEF Injection, IsInjective
<1>6. IsFiniteSet(Owned) /\ Cardinality(Owned) <= Cardinality(Ordinals)
  BY <1>5, OrdinalsCount, FS_Injection
<1>7. Cardinality(Owned) \in Nat
  BY <1>6, FS_CardinalityType
<1> QED BY <1>6, <1>7, OrdinalsCount, LifecycleAssumption

LEMMA CountedType ==
  ASSUME TypeOK PROVE Counted \in Cluster /\ SameLife(Counted, ccopy)
BY OwnedCount DEF TypeOK, Counted, Cluster, SameLife

LEMMA SeenType ==
  ASSUME TypeOK, cache.exists
  PROVE  Seen \in Cluster /\ Seen.exists /\ Seen.finalizer
<1>1. NodesAfter \in SUBSET Hosts
  BY DEF TypeOK, NodesAfter, Kept, Instances, LookedUp, Wanted, Cluster, Host, Hosts
<1>2. NowReady \in BOOLEAN
  BY DEF NowReady
<1> QED BY <1>1, <1>2 DEF TypeOK, Seen, Cluster

LEMMA GoneType == Gone \in Cluster /\ ~Gone.exists /\ Gone.deleting /\ ~Gone.finalizer /\ Gone.nodes = {}
BY LifecycleAssumption DEF Gone, Cluster

LEMMA UpgradeStores ==
  ASSUME TypeOK, Upgrade
  PROVE  ControllerStores \/ ControllerMoves
<1> USE DEF CSteps
<1>1. CASE CLook
  <2>1. ASSUME NEW S, Look(S), cpc = "look" PROVE ControllerStores \/ ControllerMoves
    <3> DEFINE c == [ccopy EXCEPT !.readyNodes = 0]
    <3>1. ccopy \in Cluster /\ 0 \in 0..MaxReplicas
      BY LifecycleAssumption DEF TypeOK
    <3>2. c \in Cluster /\ SameLife(c, ccopy)
      BY <3>1 DEF Cluster, SameLife
    <3>3. CASE CStore(c, "forget") \/ CStore(c, "idle")
      BY <2>1, <3>2, <3>3 DEF ControllerStores
    <3>4. CASE UNCHANGED api /\ (CReturn \/ CGoto("forget"))
      BY <2>1, <3>4 DEF ControllerMoves
    <3> QED BY <2>1, <3>3, <3>4 DEF Look
  <2>2. CASE cpc = "look" /\ CGoto("mark") /\ UNCHANGED api
    BY <2>2 DEF ControllerMoves
  <2> QED BY <1>1, <2>1, <2>2 DEF CLook
<1>2. CASE CForget
  BY <1>2 DEF CForget, ControllerMoves
<1>3. CASE CDelete
  BY <1>3 DEF CDelete, ControllerMoves
<1>4. CASE CMark
  <2> DEFINE c == [ccopy EXCEPT !.upgraded = TRUE]
  <2>1. c \in Cluster /\ SameLife(c, ccopy)
    BY DEF TypeOK, Cluster, SameLife
  <2>2. CASE CStore(c, "sync")
    BY <1>4, <2>1, <2>2 DEF CMark, ControllerStores
  <2>3. CASE CReturn /\ UNCHANGED api
    BY <1>4, <2>3 DEF CMark, ControllerMoves
  <2> QED BY <1>4, <2>2, <2>3 DEF CMark
<1> QED BY <1>1, <1>2, <1>3, <1>4 DEF Upgrade

LEMMA ApiSteps ==
  ASSUME TypeOK, Next
  PROVE  \/ UNCHANGED <<api, control>>
         \/ Deliver \/ UserEdits \/ CBegin
         \/ ControllerStores \/ ControllerMoves \/ OrcStores \/ ORelease
<1>1. CASE External
  BY <1>1 DEF External, GracePasses, PodStarts, PodStops, ClaimGoes, Collect, Rediscover, Promote
<1>2. CASE CSync \/ CSyncFails
  <2>1. cpc = "sync" /\ (StoreStatus \/ (CReturn /\ UNCHANGED api))
    BY <1>2 DEF CSync, CSyncFails
  <2>2. CStore(Counted, "idle") \/ (CReturn /\ UNCHANGED api)
    BY <2>1 DEF StoreStatus
  <2>3. CASE CStore(Counted, "idle")
    BY <2>1, <2>3, CountedType DEF ControllerStores, CSteps
  <2> QED BY <2>1, <2>2, <2>3 DEF ControllerMoves
<1>3. ASSUME NEW D, NEW F, Orchestrate(D, F) PROVE UNCHANGED <<api, control>> \/ OrcStores
  <2>1. CASE ~cache.deleting /\ OStore(Seen)
    <3>1. cache.exists
      BY <1>3 DEF Orchestrate
    <3>2. Seen \in Cluster /\ Seen.exists /\ Seen.finalizer
      BY <3>1, SeenType
    <3> QED BY <2>1, <3>1, <3>2 DEF OrcStores
  <2> QED BY <1>3, <2>1 DEF Orchestrate
<1>4. CASE OSync \/ OSyncFails
  BY <1>3, <1>4 DEF OSync, OSyncFails
<1>5. CASE OStatusFails
  <2> DEFINE c == [cache EXCEPT !.finalizer = TRUE]
  <2>1. c \in Cluster /\ c.exists = cache.exists /\ c.finalizer
    BY DEF TypeOK, Cluster
  <2>2. cache.exists /\ OStore(c)
    BY <1>5 DEF OStatusFails
  <2> QED BY <2>1, <2>2 DEF OrcStores
<1> QED BY <1>1, <1>2, <1>4, <1>5, UpgradeStores DEF Next, Controller, OrcLoop

-----------------------------------------------------------------------------
(* Type correctness.                                                       *)

\* The stored cluster is the last version on its way to the informer.
StreamEnds == IF stream = <<>> THEN cache = obj ELSE stream[Len(stream)] = obj

Copies == {cache} \cup {stream[i] : i \in 1..Len(stream)}

\* The cluster and its copies, the Kubernetes objects and orchestrator.
ApiType == /\ obj \in Cluster /\ cache \in Cluster /\ ccopy \in Cluster
           /\ stream \in Seq(Cluster) /\ cpc \in CSteps
PlaneType ==
  /\ sts \in StatefulSet /\ pods \in SUBSET Hosts /\ claims \in [Ordinals -> Claim]
  /\ \A o \in Ordinals : ~({Host(o), OldHost(o)} \subseteq pods)
  /\ master \in Ordinals /\ registered \in SUBSET Hosts
Flags == grace \in BOOLEAN /\ cfresh \in BOOLEAN /\ excused \in BOOLEAN
Bounds == changes \in 0..MaxSpecChanges /\ faults \in 0..MaxFaults

LEMMA TypeParts == TypeOK <=> ApiType /\ PlaneType /\ Flags /\ Bounds
BY DEF TypeOK, ApiType, PlaneType, Flags, Bounds

\* A write makes the new version the stored one and the last under way.
LEMMA WriteStream ==
  ASSUME TypeOK, StreamEnds, NEW c \in Cluster, Write(c)
  PROVE  /\ obj' = c /\ cache' = cache /\ stream' \in Seq(Cluster)
         /\ StreamEnds' /\ \A d \in Copies' : d \in Copies \/ d = c
<1>0. stream \in Seq(Cluster) /\ cache' = cache
  BY DEF TypeOK, Write
<1>1. CASE c = obj /\ UNCHANGED <<obj, stream>>
  BY <1>0, <1>1 DEF StreamEnds, Copies
<1>2. CASE obj' = c /\ stream' = Append(stream, c)
  <2>1. /\ Len(stream') = Len(stream) + 1 /\ Len(stream) \in Nat
        /\ stream'[Len(stream) + 1] = c /\ stream' \in Seq(Cluster) /\ stream' # <<>>
        /\ \A i \in 1..Len(stream) : stream'[i] = stream[i]
    BY <1>0, <1>2
  <2>2. StreamEnds'
    BY <1>2, <2>1 DEF StreamEnds
  <2>3. \A i \in 1..Len(stream') : stream'[i] \in {stream[j] : j \in 1..Len(stream)} \cup {c}
    BY <2>1
  <2> QED BY <1>0, <1>2, <2>1, <2>2, <2>3 DEF Copies
<1> QED BY <1>1, <1>2 DEF Write

LEMMA DeliverStream ==
  ASSUME TypeOK, StreamEnds, Deliver
  PROVE  /\ Copies' \subseteq Copies /\ StreamEnds'
         /\ cache' \in Cluster /\ stream' \in Seq(Cluster)
<1>1. /\ stream \in Seq(Cluster) /\ stream # <<>> /\ stream' = Tail(stream)
      /\ cache' = stream[1] /\ obj' = obj
  BY DEF TypeOK, Deliver
<1>2. /\ Len(stream) \in Nat \ {0} /\ Len(stream') = Len(stream) - 1
      /\ \A i \in 1..Len(stream') : stream'[i] = stream[i + 1]
      /\ stream' \in Seq(Cluster)
  BY <1>1
<1>3. \A i \in 1..Len(stream') : stream'[i] \in {stream[j] : j \in 1..Len(stream)}
  BY <1>2
<1>4. 1 \in 1..Len(stream)
  BY <1>2
<1>5. cache' \in {stream[j] : j \in 1..Len(stream)} /\ cache' \in Cluster
  BY <1>1, <1>4
<1>6. StreamEnds'
  <2>1. CASE stream' = <<>>
    <3>1. Len(stream') = 0
      BY <2>1
    <3>2. Len(stream) = 1
      BY <1>2, <3>1
    <3> QED BY <1>1, <2>1, <3>2 DEF StreamEnds
  <2>2. CASE stream' # <<>>
    <3>1. Len(stream') \in 1..Len(stream')
      BY <1>1, <1>2, <2>2
    <3> QED BY <1>1, <1>2, <2>2, <3>1 DEF StreamEnds
  <2> QED BY <2>1, <2>2
<1> QED BY <1>2, <1>3, <1>5, <1>6 DEF Copies

\* What a user may store.
LEMMA EditStores ==
  ASSUME TypeOK, UserEdits
  PROVE  \E c \in Cluster :
           /\ Write(c)
           /\ \/ c = Gone /\ ~obj.finalizer
              \/ c.exists /\ c.finalizer = obj.finalizer /\ c.nodes = obj.nodes
<1>0. obj \in Cluster /\ obj.exists
  BY DEF TypeOK, UserEdits
<1>1. ASSUME NEW n \in 0..MaxReplicas
      PROVE  LET c == [obj EXCEPT !.replicas = n]
             IN c \in Cluster /\ c.exists /\ c.finalizer = obj.finalizer /\ c.nodes = obj.nodes
  BY <1>0 DEF Cluster
<1>2. ASSUME NEW z \in 1..MaxSize
      PROVE  LET c == [obj EXCEPT !.size = z]
             IN c \in Cluster /\ c.exists /\ c.finalizer = obj.finalizer /\ c.nodes = obj.nodes
  BY <1>0 DEF Cluster
<1>3. LET c == [obj EXCEPT !.deleting = TRUE]
      IN c \in Cluster /\ c.exists /\ c.finalizer = obj.finalizer /\ c.nodes = obj.nodes
  BY <1>0 DEF Cluster
<1>4. \/ \E n \in 0..MaxReplicas : Write([obj EXCEPT !.replicas = n])
      \/ \E z \in 1..MaxSize : Write([obj EXCEPT !.size = z])
      \/ obj.finalizer /\ Write([obj EXCEPT !.deleting = TRUE])
      \/ ~obj.finalizer /\ Write(Gone)
  BY DEF UserEdits
<1>5. CASE \E n \in 0..MaxReplicas : Write([obj EXCEPT !.replicas = n])
  BY <1>1, <1>5
<1>6. CASE \E z \in 1..MaxSize : Write([obj EXCEPT !.size = z])
  BY <1>2, <1>6
<1>7. CASE obj.finalizer /\ Write([obj EXCEPT !.deleting = TRUE])
  BY <1>3, <1>7
<1>8. CASE ~obj.finalizer /\ Write(Gone)
  BY <1>8, GoneType
<1> QED BY <1>4, <1>5, <1>6, <1>7, <1>8

\* The cluster controller's copy is of a cluster that existed, and the stored
\* one as long as an update with it would be accepted.
CopyCurrent == /\ cpc # "idle" => ccopy.exists
               /\ cfresh => cpc # "idle" /\ ccopy = obj

BaseInv == TypeOK /\ StreamEnds /\ CopyCurrent

LEMMA FlagsStep == TypeOK /\ Next => Flags'
<1> SUFFICES ASSUME TypeOK, Next PROVE Flags'
  OBVIOUS
<1>0. grace \in BOOLEAN /\ cfresh \in BOOLEAN /\ excused \in BOOLEAN
  BY DEF TypeOK
<1>1. ASSUME NEW c, Write(c) PROVE grace' \in BOOLEAN
  BY <1>1, Zenon DEF Write
<1>2. ASSUME NEW c, NEW pc, CStore(c, pc) PROVE grace' \in BOOLEAN /\ cfresh' \in BOOLEAN
  <2>1. Write(c) /\ (cfresh' = FALSE \/ cfresh' = cfresh)
    BY <1>2 DEF CStore, CReturn
  <2> QED BY <1>0, <1>1, <2>1, Zenon
<1>3. ASSUME NEW c, OStore(c) PROVE grace' \in BOOLEAN /\ cfresh' \in BOOLEAN
  <2>1. Write(c)
    BY <1>3 DEF OStore
  <2>2. cfresh' = (cfresh /\ c = obj)
    BY <1>3 DEF OStore
  <2>3. cfresh' \in BOOLEAN
    BY <2>2, Zenon
  <2> QED BY <1>1, <2>1, <2>3, Zenon
<1>4. CReturn => cfresh' \in BOOLEAN
  BY DEF CReturn
<1>5. ASSUME NEW pc, CGoto(pc) PROVE cfresh' \in BOOLEAN
  BY <1>0, <1>5 DEF CGoto
<1> USE DEF Flags
<1>6. CASE UserEdits
  <2>1. grace' \in BOOLEAN
    BY <1>1, <1>6, Zenon DEF UserEdits
  <2>2. cfresh' = FALSE /\ excused' = excused
    BY <1>6 DEF UserEdits
  <2> QED BY <1>0, <2>1, <2>2
<1>7. CASE GracePasses
  BY <1>0, <1>7, Zenon DEF GracePasses, control
<1>8. CASE PodStarts \/ PodStops \/ ClaimGoes \/ Collect
  BY <1>0, <1>8, Zenon DEF PodStarts, PodStops, ClaimGoes, Collect, control, orc
<1>9. CASE Rediscover \/ Promote \/ Deliver
  BY <1>0, <1>9, Zenon DEF Rediscover, Promote, Deliver, control, orc
<1>10. CASE CBegin
  <2>1. cfresh' = (stream = <<>>) /\ grace' = grace /\ excused' = excused
    BY <1>10 DEF CBegin, orc
  <2>2. cfresh' \in BOOLEAN
    BY <2>1
  <2> QED BY <1>0, <2>1, <2>2
<1>11. ASSUME NEW S, Look(S) PROVE Flags'
  <2>1. excused' = (excused \/ (S # {} /\ (obj.deleting \/ ~obj.exists)))
    BY <1>11 DEF Look
  <2>2. excused' \in BOOLEAN
    BY <2>1, Zenon
  <2>3. \/ \E c, pc : CStore(c, pc)
        \/ grace' = grace /\ (CReturn \/ \E pc : CGoto(pc))
    BY <1>11 DEF Look
  <2> QED BY <1>0, <1>2, <1>4, <1>5, <2>2, <2>3
<1>12. CASE CLook
  <2>1. \/ \E S : Look(S)
        \/ CGoto("mark") /\ grace' = grace /\ excused' = excused
    BY <1>12 DEF CLook, orc
  <2> QED BY <1>0, <1>5, <1>11, <2>1
<1>13. CASE CForget
  BY <1>0, <1>4, <1>5, <1>13 DEF CForget
<1>14. CASE CDelete
  BY <1>0, <1>4, <1>5, <1>14 DEF CDelete, orc
<1>15. CASE CMark
  <2>1. excused' = excused
    BY <1>15 DEF CMark
  <2>2. (\E c : CStore(c, "sync")) \/ (CReturn /\ grace' = grace)
    BY <1>15 DEF CMark
  <2> QED BY <1>0, <1>2, <1>4, <2>1, <2>2
<1>16. CASE CSync \/ CSyncFails
  <2>1. excused' = excused
    BY <1>16 DEF CSync, CSyncFails
  <2>2. CStore(Counted, "idle") \/ (CReturn /\ grace' = grace)
    BY <1>16 DEF CSync, CSyncFails, StoreStatus
  <2> QED BY <1>0, <1>2, <1>4, <2>1, <2>2
<1>17. CASE ORelease
  <2>1. OStore(Gone) /\ (excused' = excused \/ excused' = TRUE)
    BY <1>17 DEF ORelease
  <2> QED BY <1>0, <1>3, <2>1, Zenon
<1>18. ASSUME NEW D, NEW F, Orchestrate(D, F) PROVE Flags'
  <2>1. excused' = excused
    BY <1>18 DEF Orchestrate
  <2>2. OStore(Seen) \/ UNCHANGED <<grace, control>>
    BY <1>18 DEF Orchestrate
  <2> QED BY <1>0, <1>3, <2>1, <2>2, Zenon DEF control
<1>19. CASE OSync \/ OSyncFails
  BY <1>18, <1>19 DEF OSync, OSyncFails
<1>20. CASE OStatusFails
  BY <1>0, <1>3, <1>20 DEF OStatusFails
<1> QED BY <1>6, <1>7, <1>8, <1>9, <1>10, <1>12, <1>13, <1>14, <1>15, <1>16, <1>17, <1>19, <1>20
     DEF Next, External, Controller, Upgrade, OrcLoop

LEMMA BoundsStep == TypeOK /\ Next => Bounds'
<1> SUFFICES ASSUME TypeOK, Next PROVE Bounds'
  OBVIOUS
<1>0. changes \in 0..MaxSpecChanges /\ faults \in 0..MaxFaults
  BY DEF TypeOK
<1>1. \/ UNCHANGED bounds
      \/ Fault
      \/ changes < MaxSpecChanges /\ changes' = changes + 1 /\ UNCHANGED faults
  <2>1. CASE External
    BY <2>1 DEF External, UserEdits, GracePasses, PodStarts, PodStops, ClaimGoes, Collect,
       Rediscover, Promote, Deliver
  <2>2. CASE Controller
    BY <2>2 DEF Controller, Upgrade, CBegin, CLook, CForget, CDelete, CMark, CSync, CSyncFails
  <2>3. CASE OrcLoop
    BY <2>3 DEF OrcLoop, ORelease, OSync, OSyncFails, OStatusFails
  <2> QED BY <2>1, <2>2, <2>3 DEF Next
<1> QED BY <1>0, <1>1, LifecycleAssumption DEF Fault, bounds, Bounds

-----------------------------------------------------------------------------
(* The Kubernetes objects.                                                 *)

LEMMA ChangeType ==
  ASSUME TypeOK, NEW G, NEW R, Change(G, R)
  PROVE  claims' \in [Ordinals -> Claim]
<1>1. ASSUME NEW o \in Ordinals
      PROVE  /\ (IF o \in G THEN ccopy.size ELSE claims[o].size) \in 0..MaxSize
             /\ (claims[o].dying \/ o \in R) \in BOOLEAN
  <2>1. claims[o].size \in 0..MaxSize /\ ccopy.size \in 1..MaxSize
    BY DEF TypeOK, Claim, Cluster
  <2> QED BY <2>1, LifecycleAssumption
<1> QED BY <1>1 DEF Change, Claim

LEMMA SyncedType == TypeOK => Synced \in StatefulSet
BY DEF TypeOK, Synced, StatefulSet, Cluster

LEMMA HostsIn == \A o \in Ordinals : Host(o) \in Hosts /\ OldHost(o) \in Hosts
BY DEF Host, OldHost, Hosts

LEMMA PlaneStep == TypeOK /\ Next => PlaneType'
<1> SUFFICES ASSUME TypeOK, Next PROVE PlaneType'
  OBVIOUS
<1>0. PlaneType
  BY TypeParts
<1> USE DEF PlaneType
<1>1. CASE UserEdits \/ GracePasses \/ Deliver \/ CBegin \/ CMark \/ ORelease
  BY <1>0, <1>1 DEF UserEdits, GracePasses, Deliver, CBegin, CMark, ORelease, k8s, orc
<1>2. CASE PodStarts
  <2>1. PICK o \in Ordinals :
          /\ ~Runs(o) /\ pods' = pods \cup {<<o, sts.kind>>}
          /\ claims' = (IF claims[o] = NoClaim
                        THEN [claims EXCEPT ![o] = [size |-> sts.size, dying |-> FALSE]] ELSE claims)
    BY <1>2 DEF PodStarts
  <2>2. [size |-> sts.size, dying |-> FALSE] \in Claim
    BY <1>0, LifecycleAssumption DEF StatefulSet, Claim
  <2>3. claims' \in [Ordinals -> Claim]
    BY <1>0, <2>1, <2>2
  <2>4. sts.kind \in {"new", "old"} /\ <<o, sts.kind>> \in Hosts
    BY <1>0 DEF StatefulSet, Hosts
  <2>5. \A p \in Ordinals : ~({Host(p), OldHost(p)} \subseteq pods')
    BY <1>0, <2>1, <2>4 DEF Host, OldHost, Runs
  <2> QED BY <1>0, <1>2, <2>1, <2>3, <2>4, <2>5 DEF PodStarts, orc
<1>3. CASE PodStops
  BY <1>0, <1>3 DEF PodStops, orc
<1>4. CASE ClaimGoes
  <2>1. NoClaim \in Claim
    BY LifecycleAssumption DEF NoClaim, Claim
  <2> QED BY <1>0, <1>4, <2>1 DEF ClaimGoes, orc
<1>5. NoSts \in StatefulSet
  BY LifecycleAssumption DEF NoSts, StatefulSet
<1>6. CASE Collect
  <2>1. claims' \in [Ordinals -> Claim]
    BY <1>0, <1>6 DEF Collect, Claim
  <2> QED BY <1>0, <1>5, <1>6, <2>1 DEF Collect, orc
<1>7. CASE Rediscover
  BY <1>0, <1>7 DEF Rediscover, k8s
<1>8. CASE Promote
  BY <1>0, <1>8, HostShape DEF Promote, k8s
<1>9. ASSUME NEW S \in SUBSET pods, Look(S) PROVE PlaneType'
  <2>1. sts.replicas > 1 => [sts EXCEPT !.replicas = 1] \in StatefulSet
    BY <1>0, LifecycleAssumption DEF StatefulSet
  <2>2. sts' \in StatefulSet
    BY <1>0, <1>9, <2>1 DEF Look
  <2> QED BY <1>0, <1>9, <2>2 DEF Look
<1>10. CASE CLook
  <2>1. \/ UNCHANGED <<k8s, orc>>
        \/ \E S \in SUBSET pods : Look(S)
    BY <1>10 DEF CLook
  <2> QED BY <1>0, <1>9, <2>1 DEF k8s, orc
<1>11. CASE CForget
  BY <1>0, <1>11 DEF CForget, k8s
<1>12. CASE CDelete
  BY <1>0, <1>5, <1>12 DEF CDelete, orc
<1>13. CASE CSync \/ CSyncFails
  <2>1. sts' \in StatefulSet
    BY <1>0, <1>13, SyncedType DEF CSync, CSyncFails
  <2>2. claims' = claims \/ \E G, R : Change(G, R)
    BY <1>13 DEF CSync, CSyncFails
  <2>3. claims' \in [Ordinals -> Claim]
    BY <1>0, <2>2, ChangeType
  <2> QED BY <1>0, <1>13, <2>1, <2>3 DEF CSync, CSyncFails
<1>14. ASSUME NEW D \in SUBSET pods, NEW F, registered' = (registered \cup D) \ F,
              UNCHANGED <<k8s, master>>
       PROVE  PlaneType'
  BY <1>0, <1>14 DEF k8s
<1>15. CASE OSync
  BY <1>14, <1>15 DEF OSync, Orchestrate
<1>16. CASE OSyncFails
  BY <1>14, <1>16 DEF OSyncFails, Orchestrate
<1>17. CASE OStatusFails
  BY <1>14, <1>17 DEF OStatusFails
<1> QED BY <1>1, <1>2, <1>3, <1>4, <1>6, <1>7, <1>8, <1>10, <1>11, <1>12, <1>13, <1>15, <1>16,
   <1>17
     DEF Next, External, Controller, Upgrade, OrcLoop

-----------------------------------------------------------------------------
LEMMA BaseInit == Init => BaseInv
<1> SUFFICES ASSUME Init PROVE BaseInv
  OBVIOUS
<1> USE LifecycleAssumption
<1>1. \A r \in 1..MaxReplicas : Created(r) \in Cluster
  BY DEF Created, Cluster
<1>2. {OldHost(i) : i \in Ordinals} \in SUBSET Hosts
  BY HostsIn
<1>3. Inherited \in Cluster /\ Inherited.nodes = {OldHost(i) : i \in Ordinals}
  BY <1>2 DEF Inherited, Cluster
<1>4. ApiType /\ StreamEnds /\ CopyCurrent
  <2>1. /\ obj \in Cluster /\ cache = obj /\ ccopy = Gone /\ stream = <<>> /\ cpc = "idle"
        /\ cfresh = FALSE
    BY <1>1, <1>3 DEF Init
  <2> QED BY <2>1, GoneType DEF ApiType, StreamEnds, CopyCurrent, CSteps
<1>5. Flags /\ Bounds
  <2>1. grace = FALSE /\ excused = FALSE /\ cfresh = FALSE /\ changes = 0 /\ faults = 0
    BY DEF Init
  <2>2. Flags
    BY <2>1, Zenon DEF Flags
  <2> QED BY <2>1, <2>2 DEF Bounds
<1>6. NoSts \in StatefulSet /\ NoClaim \in Claim /\ [size |-> 1, dying |-> FALSE] \in Claim
      /\ [exists |-> TRUE, kind |-> "old", replicas |-> MaxReplicas, size |-> 1] \in StatefulSet
      /\ 0 \in Ordinals
  BY DEF NoSts, StatefulSet, NoClaim, Claim, Ordinals
<1>7. \A o \in Ordinals : Host(o) \notin {OldHost(i) : i \in Ordinals}
  BY DEF Host, OldHost
<1>8. PlaneType
  <2>1. CASE /\ registered = {} /\ master = 0
             /\ sts = NoSts /\ pods = {} /\ claims = [o \in Ordinals |-> NoClaim]
    BY <1>6, <2>1 DEF PlaneType
  <2>2. CASE /\ obj = Inherited /\ registered \in {{}, obj.nodes} /\ master \in Ordinals
             /\ sts = [exists |-> TRUE, kind |-> "old", replicas |-> MaxReplicas, size |-> 1]
             /\ pods = obj.nodes /\ claims = [o \in Ordinals |-> [size |-> 1, dying |-> FALSE]]
    BY <1>2, <1>3, <1>6, <1>7, <2>2 DEF PlaneType
  <2> QED BY <2>1, <2>2 DEF Init
<1> QED BY <1>4, <1>5, <1>8, TypeParts DEF BaseInv

\* The cluster and its copies stay well typed; nobody's update is accepted with
\* a copy that is not the stored cluster.
LEMMA BaseStep == BaseInv /\ [Next]_vars => BaseInv'
<1> SUFFICES ASSUME BaseInv, [Next]_vars PROVE BaseInv'
  OBVIOUS
<1>0. TypeOK /\ StreamEnds /\ CopyCurrent /\ ApiType
  BY TypeParts DEF BaseInv
<1>1. CASE UNCHANGED vars
  BY <1>0, <1>1 DEF vars, api, k8s, orc, control, bounds, BaseInv, TypeOK, StreamEnds,
     CopyCurrent, Runs
<1>2. CASE Next
  <2>1. ApiType' /\ StreamEnds' /\ CopyCurrent'
    <3> USE <1>0 DEF ApiType
    <3>1. CASE UNCHANGED <<api, control>>
      BY <3>1 DEF api, control, StreamEnds, CopyCurrent
    <3>2. CASE Deliver
      <4>1. StreamEnds' /\ cache' \in Cluster /\ stream' \in Seq(Cluster)
        BY <3>2, DeliverStream
      <4> QED BY <3>2, <4>1 DEF Deliver, control, CopyCurrent
    <3>3. CASE UserEdits
      <4>1. PICK c \in Cluster : Write(c)
        BY <3>3, EditStores
      <4>2. obj' = c /\ cache' = cache /\ stream' \in Seq(Cluster) /\ StreamEnds'
        BY <4>1, WriteStream
      <4>3. cpc' = cpc /\ ccopy' = ccopy /\ cfresh' = FALSE
        BY <3>3 DEF UserEdits
      <4> QED BY <4>2, <4>3 DEF CopyCurrent
    <3>4. CASE CBegin
      <4>1. /\ UNCHANGED api /\ ccopy' = cache /\ cache.exists
            /\ cfresh' = (stream = <<>>) /\ cpc' \in {"sync", "look"}
        BY <3>4 DEF CBegin
      <4> QED BY <4>1 DEF api, StreamEnds, CopyCurrent, CSteps
    <3>5. CASE ControllerStores
      <4>1. PICK c \in Cluster, pc \in CSteps : CStore(c, pc) /\ SameLife(c, ccopy)
        BY <3>5 DEF ControllerStores
      <4>2. obj' = c /\ cache' = cache /\ stream' \in Seq(Cluster) /\ StreamEnds' /\ c.exists
        BY <3>5, <4>1, WriteStream DEF CStore, ControllerStores, SameLife, CopyCurrent
      <4>3. \/ cpc' = "idle" /\ ccopy' = Gone /\ cfresh' = FALSE
            \/ pc # "idle" /\ cpc' = pc /\ ccopy' = c
        BY <4>1 DEF CStore, CReturn
      <4> QED BY <4>1, <4>2, <4>3, GoneType DEF CopyCurrent, CSteps
    <3>6. CASE ControllerMoves
      <4>1. UNCHANGED api /\ cpc # "idle"
        BY <3>6 DEF ControllerMoves
      <4>2. \/ cpc' = "idle" /\ ccopy' = Gone /\ cfresh' = FALSE
            \/ cpc' \in CSteps \ {"idle"} /\ ccopy' = ccopy /\ cfresh' = cfresh
        BY <3>6 DEF ControllerMoves, CReturn, CGoto
      <4> QED BY <4>1, <4>2, GoneType DEF api, StreamEnds, CopyCurrent, CSteps
    <3>7. CASE OrcStores \/ ORelease
      <4>1. PICK c \in Cluster : OStore(c)
        BY <3>7, GoneType DEF OrcStores, ORelease
      <4>2. obj' = c /\ cache' = cache /\ stream' \in Seq(Cluster) /\ StreamEnds'
        BY <4>1, WriteStream DEF OStore
      <4>3. cpc' = cpc /\ ccopy' = ccopy /\ (cfresh' => cfresh /\ c = obj)
        BY <4>1 DEF OStore
      <4> QED BY <4>2, <4>3 DEF CopyCurrent
    <3> QED BY <1>2, <3>1, <3>2, <3>3, <3>4, <3>5, <3>6, <3>7, ApiSteps
  <2>2. PlaneType' /\ Flags' /\ Bounds'
    BY <1>0, <1>2, PlaneStep, FlagsStep, BoundsStep
  <2>3. (ApiType /\ PlaneType /\ Flags /\ Bounds)' => TypeOK'
    BY TypeParts, PTL
  <2> QED BY <2>1, <2>2, <2>3 DEF BaseInv
<1> QED BY <1>1, <1>2

\* The state stays well typed, and a pod never runs under its old and its new
\* name at once, whatever the upgrade interrupts.
THEOREM TypeCorrect == Spec => []TypeOK
<1>1. BaseInv => TypeOK
  BY DEF BaseInv
<1> QED BY <1>1, BaseInit, BaseStep, PTL DEF Spec

-----------------------------------------------------------------------------
(* Claims.                                                                 *)

\* What the resizer and the cleaner do to the claims they are given.
LEMMA ChangeKeeps ==
  ASSUME TypeOK, NEW G \in SUBSET TooSmall, NEW R \in SUBSET Orphaned, Change(G, R),
         sts' = Synced, NEW o \in Ordinals
  PROVE  /\ claims'[o].dying /\ ~claims[o].dying => o # 0 /\ o >= sts'.replicas
         /\ claims'[o].size >= claims[o].size
<1>1. /\ claims'[o].size = IF o \in G THEN ccopy.size ELSE claims[o].size
      /\ claims'[o].dying = (claims[o].dying \/ o \in R)
  BY DEF Change
<1>2. claims[o].size \in 0..MaxSize /\ ccopy.size \in 1..MaxSize
  BY DEF TypeOK, Claim, Cluster
<1>3. claims'[o].size >= claims[o].size
  BY <1>1, <1>2 DEF TooSmall
<1>4. ASSUME o \in R PROVE o # 0 /\ o >= sts'.replicas
  <2>1. o # 0 /\ o >= ccopy.replicas /\ ~ccopy.deleting
    BY <1>4 DEF Orphaned, Managed
  <2>2. sts'.replicas = ccopy.replicas
    BY <2>1 DEF Synced, TypeOK, StatefulSet
  <2> QED BY <2>1, <2>2
<1> QED BY <1>1, <1>3, <1>4

\* PVCCleaner and PVCResizer work from a copy of the cluster that may be
\* behind; they still never take a claim the StatefulSet wants, nor shrink one.
THEOREM ClaimsSafe == Spec => ClaimsKept
<1> DEFINE A == \A o \in Ordinals :
                  /\ claims'[o].dying /\ ~claims[o].dying /\ obj.exists =>
                       o # 0 /\ o >= sts'.replicas
                  /\ claims'[o] # NoClaim => claims'[o].size >= claims[o].size
<1>1. ASSUME TypeOK, [Next]_vars PROVE [A]_vars
  <2> SUFFICES ASSUME Next PROVE A
    BY <1>1
  <2>0. claims \in [Ordinals -> Claim] /\ \A o \in Ordinals : claims[o].size \in 0..MaxSize
    BY <1>1 DEF TypeOK, Claim
  <2>1. CASE claims' = claims
    BY <2>0, <2>1
  <2>2. CASE PodStarts
    <3>1. PICK o \in Ordinals :
            claims' = (IF claims[o] = NoClaim
                       THEN [claims EXCEPT ![o] = [size |-> sts.size, dying |-> FALSE]] ELSE claims)
      BY <2>2 DEF PodStarts
    <3>2. sts.size \in 1..MaxSize
      BY <1>1 DEF TypeOK, StatefulSet
    <3>3. CASE claims[o] = NoClaim
      <4>1. /\ claims'[o].size = sts.size /\ claims'[o].dying = FALSE /\ claims[o].size = 0
            /\ \A p \in Ordinals : p # o => claims'[p] = claims[p]
        BY <2>0, <3>1, <3>3 DEF NoClaim
      <4> QED BY <2>0, <3>2, <4>1
    <3> QED BY <2>1, <3>1, <3>3
  <2>3. CASE ClaimGoes
    <3>1. PICK o \in Ordinals : claims' = [claims EXCEPT ![o] = NoClaim]
      BY <2>3 DEF ClaimGoes
    <3>2. claims'[o] = NoClaim /\ \A p \in Ordinals : p # o => claims'[p] = claims[p]
      BY <2>0, <3>1
    <3> QED BY <2>0, <3>2 DEF NoClaim
  <2>4. CASE Collect
    <3>1. ~obj.exists
      BY <2>4 DEF Collect
    <3>2. \A o \in Ordinals : claims'[o].size = claims[o].size
      BY <2>0, <2>4 DEF Collect, Claim
    <3> QED BY <2>0, <3>1, <3>2
  <2>5. CASE CSync \/ CSyncFails
    <3>1. \/ claims' = claims
          \/ /\ sts' = Synced
             /\ \E G \in SUBSET TooSmall, R \in SUBSET Orphaned : Change(G, R)
      BY <2>5 DEF CSync, CSyncFails
    <3> QED BY <1>1, <2>1, <3>1, ChangeKeeps
  <2>6. CASE External
    BY <2>1, <2>2, <2>3, <2>4, <2>6 DEF External, UserEdits, GracePasses, PodStops, Rediscover,
       Promote, Deliver, k8s
  <2>7. CASE CBegin \/ Upgrade
    BY <2>1, <2>7 DEF Upgrade, CBegin, CLook, Look, CForget, CDelete, CMark, k8s
  <2>8. CASE OrcLoop
    BY <2>1, <2>8 DEF OrcLoop, ORelease, OSync, OSyncFails, OStatusFails, Orchestrate, k8s
  <2> QED BY <2>5, <2>6, <2>7, <2>8 DEF Next, Controller
<1>2. BaseInv => TypeOK
  BY DEF BaseInv
<1> QED BY <1>1, <1>2, BaseInit, BaseStep, PTL DEF Spec, ClaimsKept

-----------------------------------------------------------------------------
(* The finalizer.                                                          *)

\* Before orchestrator's controller has put its finalizer on the cluster, no
\* copy of it names a host, and orchestrator knows none.
Unheld(c) == ~c.finalizer /\ c.nodes = {}
NotHeldYet ==
  obj.exists /\ ~obj.finalizer =>
    Unheld(obj) /\ Unheld(ccopy) /\ \A c \in Copies : Unheld(c)
Unregistered == obj.exists /\ ~obj.finalizer => registered = {}

\* No copy of a cluster that is gone makes the controller discover a host.
LateCopies == ~obj.exists => \A c \in Copies : c.deleting \/ ~c.finalizer

HeldInv == BaseInv /\ NotHeldYet /\ LateCopies
GoneInv == HeldInv /\ Unregistered /\ GoneMeansForgotten

\* Nothing is stored of a cluster that is gone; the finalizer, once there, stays
\* until orchestrator's controller takes it from a cluster under deletion.
LEMMA ObjSteps ==
  ASSUME BaseInv, Next
  PROVE  \/ obj' = obj
         \/ /\ obj.exists /\ obj'.exists
            /\ obj'.finalizer = obj.finalizer /\ obj'.nodes = obj.nodes
         \/ obj.exists /\ obj'.exists /\ obj'.finalizer
         \/ obj.exists /\ obj' = Gone /\ ~obj.finalizer /\ UserEdits
         \/ obj.exists /\ obj' = Gone /\ obj.deleting /\ ORelease
<1>0. TypeOK /\ StreamEnds /\ CopyCurrent
  BY DEF BaseInv
<1>1. CASE UNCHANGED <<api, control>> \/ Deliver \/ CBegin \/ ControllerMoves
  BY <1>1 DEF api, Deliver, CBegin, ControllerMoves
<1>2. CASE UserEdits
  <2>1. PICK c \in Cluster :
          /\ Write(c)
          /\ \/ c = Gone /\ ~obj.finalizer
             \/ c.exists /\ c.finalizer = obj.finalizer /\ c.nodes = obj.nodes
    BY <1>0, <1>2, EditStores
  <2>2. obj' = c
    BY <1>0, <2>1, WriteStream
  <2> QED BY <1>2, <2>1, <2>2 DEF UserEdits
<1>3. CASE ControllerStores
  <2>1. PICK c \in Cluster, pc \in CSteps : CStore(c, pc) /\ SameLife(c, ccopy)
    BY <1>3 DEF ControllerStores
  <2>2. obj' = c
    BY <1>0, <2>1, WriteStream DEF CStore
  <2>3. ccopy = obj /\ obj.exists
    BY <1>0, <2>1 DEF CStore, CopyCurrent
  <2> QED BY <2>1, <2>2, <2>3 DEF SameLife
<1>4. ASSUME OrcStores \/ ORelease PROVE cache = obj /\ obj.exists
  BY <1>0, <1>4 DEF OrcStores, ORelease, OStore, Current, StreamEnds
<1>5. CASE OrcStores
  <2>1. PICK c \in Cluster : OStore(c) /\ c.exists /\ c.finalizer
    BY <1>5 DEF OrcStores
  <2>2. obj' = c
    BY <1>0, <2>1, WriteStream DEF OStore
  <2> QED BY <1>4, <1>5, <2>1, <2>2
<1>6. CASE ORelease
  <2>1. obj' = Gone
    BY <1>0, <1>6, WriteStream, GoneType DEF ORelease, OStore
  <2> QED BY <1>4, <1>6, <2>1 DEF ORelease, Released
<1> QED BY <1>0, <1>1, <1>2, <1>3, <1>5, <1>6, ApiSteps

\* What becomes of the copies in a step.
LEMMA CopySteps ==
  ASSUME BaseInv, Next
  PROVE  /\ \A c \in Copies' : c \in Copies \/ c = obj'
         /\ ccopy' \in Copies \cup {ccopy, obj', Gone}
<1>0. TypeOK /\ StreamEnds /\ CopyCurrent
  BY DEF BaseInv
<1>1. CASE UNCHANGED <<api, control>>
  BY <1>1 DEF api, control, Copies
<1>2. CASE Deliver
  BY <1>0, <1>2, DeliverStream DEF Deliver, control
<1>3. CASE UserEdits
  <2>1. PICK c \in Cluster : Write(c)
    BY <1>0, <1>3, EditStores
  <2> QED BY <1>0, <1>3, <2>1, WriteStream DEF UserEdits
<1>4. CASE CBegin
  BY <1>4 DEF CBegin, api, Copies
<1>5. CASE ControllerStores
  <2>1. PICK c \in Cluster, pc \in CSteps : CStore(c, pc)
    BY <1>5 DEF ControllerStores
  <2>2. obj' = c /\ \A d \in Copies' : d \in Copies \/ d = c
    BY <1>0, <2>1, WriteStream DEF CStore
  <2>3. ccopy' \in {c, Gone}
    BY <2>1 DEF CStore, CReturn
  <2> QED BY <2>2, <2>3
<1>6. CASE ControllerMoves
  BY <1>6 DEF ControllerMoves, CReturn, CGoto, api, Copies
<1>7. CASE OrcStores \/ ORelease
  <2>1. PICK c \in Cluster : OStore(c)
    BY <1>7, GoneType DEF OrcStores, ORelease
  <2> QED BY <1>0, <2>1, WriteStream DEF OStore
<1> QED BY <1>0, <1>1, <1>2, <1>3, <1>4, <1>5, <1>6, <1>7, ApiSteps

LEMMA HeldInit == Init => HeldInv /\ Unregistered /\ GoneMeansForgotten
<1> SUFFICES ASSUME Init PROVE HeldInv /\ Unregistered /\ GoneMeansForgotten
  OBVIOUS
<1>1. /\ cache = obj /\ ccopy = Gone /\ stream = <<>>
      /\ \/ (\E r \in 1..MaxReplicas : obj = Created(r)) /\ registered = {}
         \/ obj = Inherited
  BY DEF Init
<1>2. Copies = {obj}
  BY <1>1 DEF Copies
<1>3. obj.exists /\ (obj.finalizer \/ (Unheld(obj) /\ registered = {}))
  BY <1>1 DEF Created, Inherited, Unheld
<1> QED BY <1>1, <1>2, <1>3, BaseInit, GoneType
     DEF HeldInv, NotHeldYet, LateCopies, Unregistered, GoneMeansForgotten, Unheld

LEMMA HeldStep == HeldInv /\ [Next]_vars => HeldInv'
<1> SUFFICES ASSUME HeldInv, [Next]_vars PROVE NotHeldYet' /\ LateCopies'
  BY BaseStep DEF HeldInv
<1>0. BaseInv /\ StreamEnds /\ NotHeldYet /\ LateCopies
  BY DEF HeldInv, BaseInv
<1>1. CASE UNCHANGED vars
  BY <1>0, <1>1 DEF vars, api, control, NotHeldYet, LateCopies, Copies
<1>2. CASE Next
  <2>1. /\ \A c \in Copies' : c \in Copies \/ c = obj'
        /\ ccopy' \in Copies \cup {ccopy, obj', Gone}
    BY <1>0, <1>2, CopySteps
  <2>2. Unheld(Gone) /\ Gone.deleting /\ ~Gone.exists
    BY GoneType DEF Unheld
  <2>3. CASE obj' = obj
    <3>1. NotHeldYet'
      BY <1>0, <2>1, <2>2, <2>3 DEF NotHeldYet, Unheld
    <3>2. LateCopies'
      <4>1. ~obj.exists => obj.deleting \/ ~obj.finalizer
        <5>1. obj \in Copies
          <6>1. CASE stream = <<>>
            BY <1>0, <6>1 DEF StreamEnds, Copies
          <6>2. CASE stream # <<>>
            <7>1. Len(stream) \in 1..Len(stream)
              BY <1>0, <6>2 DEF BaseInv, TypeOK
            <7> QED BY <1>0, <6>2, <7>1 DEF StreamEnds, Copies
          <6> QED BY <6>1, <6>2
        <5> QED BY <1>0, <5>1 DEF LateCopies
      <4> QED BY <1>0, <2>1, <2>3, <4>1 DEF LateCopies
    <3> QED BY <3>1, <3>2
  <2>4. CASE /\ obj.exists /\ obj'.exists
             /\ obj'.finalizer = obj.finalizer /\ obj'.nodes = obj.nodes
    BY <1>0, <2>1, <2>2, <2>4 DEF NotHeldYet, LateCopies, Unheld
  <2>5. CASE obj'.exists /\ obj'.finalizer
    BY <2>5 DEF NotHeldYet, LateCopies
  <2>6. CASE obj.exists /\ obj' = Gone /\ ~obj.finalizer
    BY <1>0, <2>1, <2>2, <2>6 DEF NotHeldYet, LateCopies, Unheld
  <2>7. CASE obj.exists /\ obj' = Gone /\ obj.deleting /\ ORelease
    <3>1. Copies = {obj}
      BY <1>0, <2>7 DEF ORelease, OStore, Current, StreamEnds, Copies
    <3> QED BY <2>1, <2>2, <2>7, <3>1 DEF NotHeldYet, LateCopies
  <2> QED BY <1>0, <1>2, <2>3, <2>4, <2>5, <2>6, <2>7, ObjSteps
<1> QED BY <1>1, <1>2

\* Orchestrator's controller discovers a host only for a cluster that exists,
\* with its finalizer.
LEMMA DiscoverHeld ==
  ASSUME HeldInv, NEW D \in SUBSET ToDiscover, NEW F,
         Orchestrate(D, F) \/ (OStatusFails /\ D = ToDiscover \cap pods)
  PROVE  D = {} \/ (obj'.exists /\ obj'.finalizer)
<1> SUFFICES ASSUME D # {} PROVE obj'.exists /\ obj'.finalizer
  OBVIOUS
<1>0. TypeOK /\ StreamEnds /\ NotHeldYet /\ LateCopies /\ cache \in Copies
  BY DEF HeldInv, BaseInv, Copies
<1>1. ~cache.deleting /\ cache.exists
  BY DEF ToDiscover, Orchestrate, OStatusFails
<1>2. ASSUME NEW c \in Cluster, OStore(c), c.exists, c.finalizer
      PROVE  obj'.exists /\ obj'.finalizer
  BY <1>0, <1>2, WriteStream DEF OStore
<1>3. CASE Orchestrate(D, F)
  <2>1. CASE OStore(Seen)
    BY <1>0, <1>1, <1>2, <2>1, SeenType
  <2>2. CASE ~Current /\ UNCHANGED api
    <3>1. cache.finalizer
      BY <1>3, <2>2 DEF Orchestrate
    <3> QED BY <1>0, <1>1, <2>2, <3>1 DEF NotHeldYet, LateCopies, Unheld, api
  <2> QED BY <1>1, <1>3, <2>1, <2>2 DEF Orchestrate
<1>4. CASE OStatusFails
  <2> DEFINE c == [cache EXCEPT !.finalizer = TRUE]
  <2>1. c \in Cluster /\ c.exists /\ c.finalizer
    BY <1>0, <1>1 DEF TypeOK, Cluster
  <2> QED BY <1>2, <1>4, <2>1 DEF OStatusFails
<1> QED BY <1>3, <1>4

LEMMA GoneStep == GoneInv /\ [Next]_vars => GoneInv'
<1> SUFFICES ASSUME GoneInv, [Next]_vars PROVE Unregistered' /\ GoneMeansForgotten'
  BY HeldStep DEF GoneInv
<1>0. /\ HeldInv /\ BaseInv /\ TypeOK /\ StreamEnds /\ CopyCurrent /\ NotHeldYet /\ LateCopies
      /\ Unregistered /\ GoneMeansForgotten
  BY DEF GoneInv, HeldInv, BaseInv
<1> USE DEF Unregistered, GoneMeansForgotten
<1>1. CASE UNCHANGED vars
  BY <1>0, <1>1 DEF vars, api, orc
<1>2. CASE ORelease
  <2>1. obj' = Gone /\ registered' = registered /\ (registered = {} \/ excused' = TRUE)
    BY <1>0, <1>2, WriteStream, GoneType DEF ORelease, OStore, Released
  <2> QED BY <2>1, GoneType
<1>3. CASE Next /\ ~ORelease
  <2>1. ASSUME registered' \subseteq registered, excused => excused'
        PROVE  Unregistered' /\ GoneMeansForgotten'
    <3>1. CASE obj' = obj
      BY <1>0, <2>1, <3>1
    <3>2. CASE obj.exists /\ obj'.exists /\ obj'.finalizer = obj.finalizer
      BY <1>0, <2>1, <3>2
    <3>3. CASE obj'.exists /\ obj'.finalizer
      BY <3>3
    <3>4. CASE obj.exists /\ obj' = Gone /\ ~obj.finalizer
      BY <1>0, <2>1, <3>4, GoneType
    <3> QED BY <1>0, <1>3, <3>1, <3>2, <3>3, <3>4, ObjSteps
  <2>2. CASE Rediscover
    BY <1>0, <2>2 DEF Rediscover, api
  <2>3. ASSUME NEW S \in SUBSET ccopy.nodes, Look(S), CLook
        PROVE  Unregistered' /\ GoneMeansForgotten'
    <3>1. /\ registered' = registered \cup S
          /\ S # {} /\ (obj.deleting \/ ~obj.exists) => excused'
          /\ excused => excused'
      BY <2>3 DEF Look
    <3>2. CASE S = {}
      BY <2>1, <3>1, <3>2
    <3>3. CASE S # {}
      <4>1. ControllerStores \/ ControllerMoves
        BY <1>0, <2>3, UpgradeStores DEF Upgrade
      <4>2. obj'.exists = obj.exists /\ obj'.finalizer = obj.finalizer
        <5>1. CASE ControllerStores
          <6>1. PICK c \in Cluster, pc \in CSteps : CStore(c, pc) /\ SameLife(c, ccopy)
            BY <5>1 DEF ControllerStores
          <6>2. obj' = c /\ ccopy = obj
            BY <1>0, <6>1, WriteStream DEF CStore, CopyCurrent
          <6> QED BY <6>1, <6>2 DEF SameLife
        <5>2. CASE ControllerMoves
          BY <5>2 DEF ControllerMoves, api
        <5> QED BY <4>1, <5>1, <5>2
      <4>3. obj.exists => obj.finalizer
        BY <1>0, <3>3 DEF NotHeldYet, Unheld
      <4> QED BY <3>1, <3>3, <4>2, <4>3
    <3> QED BY <3>2, <3>3
  <2>4. ASSUME NEW D \in SUBSET ToDiscover, NEW F,
               Orchestrate(D, F) \/ (OStatusFails /\ D = ToDiscover \cap pods),
               registered' = (registered \cup D) \ F, excused' = excused
        PROVE  Unregistered' /\ GoneMeansForgotten'
    BY <1>0, <2>1, <2>4, DiscoverHeld
  <2>5. CASE External
    <3>1. CASE UserEdits \/ GracePasses \/ Deliver
      BY <2>1, <3>1 DEF UserEdits, GracePasses, Deliver, orc
    <3>2. CASE PodStarts \/ PodStops \/ ClaimGoes \/ Collect \/ Promote
      BY <2>1, <3>2 DEF PodStarts, PodStops, ClaimGoes, Collect, Promote, orc
    <3> QED BY <2>2, <2>5, <3>1, <3>2 DEF External
  <2>6. CASE CLook
    <3>1. \/ registered' = registered /\ excused' = excused
          \/ \E S \in SUBSET ccopy.nodes : Look(S)
      BY <2>6 DEF CLook, orc
    <3> QED BY <2>1, <2>3, <2>6, <3>1
  <2>7. CASE CBegin \/ CForget \/ CDelete \/ CMark
    BY <2>1, <2>7 DEF CBegin, CForget, CDelete, CMark, orc
  <2>8. CASE CSync \/ CSyncFails
    BY <2>1, <2>8 DEF CSync, CSyncFails
  <2>9. CASE OSync \/ OSyncFails
    <3>1. \E D \in SUBSET ToDiscover, F \in SUBSET ToForget : Orchestrate(D, F)
      BY <2>9 DEF OSync, OSyncFails
    <3> QED BY <2>4, <3>1 DEF Orchestrate
  <2>10. CASE OStatusFails
    BY <2>4, <2>10 DEF OStatusFails
  <2> QED BY <1>3, <2>5, <2>6, <2>7, <2>8, <2>9, <2>10
       DEF Next, Controller, Upgrade, OrcLoop
<1> QED BY <1>1, <1>2, <1>3

\* However deletion, late copies, rediscovery and restarts of a reconcile
\* interleave, the finalizer goes only when orchestrator knows no host, and no
\* host is registered once the cluster is gone.
THEOREM GoneForgotten == Spec => []GoneMeansForgotten
<1>1. GoneInv => GoneMeansForgotten
  BY DEF GoneInv
<1>2. Init => GoneInv
  BY HeldInit DEF GoneInv
<1> QED BY <1>1, <1>2, GoneStep, PTL DEF Spec

-----------------------------------------------------------------------------
(* The upgrade.                                                            *)

\* Pods of a kind run on the lowest ordinals.
FirstOrdinals == \A h \in pods : \A p \in 0..(h[1] - 1) : <<p, h[2]>> \in pods

\* Past the look at node 0, nothing runs of the StatefulSet but node 0, and it
\* is the master.
Node0Left ==
  cpc \in {"forget", "delete"} /\ sts.exists =>
    master = 0 /\ sts.replicas <= 1 /\ \A h \in Owned : h[1] = 0

UpgradeInv == BaseInv /\ FirstOrdinals /\ Node0Left

\* When node 0 does not run, nothing does.
LEMMA NothingRuns ==
  ASSUME TypeOK, FirstOrdinals, pods # {} PROVE Runs(0)
<1>1. PICK h \in pods : TRUE
  OBVIOUS
<1>2. h = <<h[1], h[2]>> /\ h[1] \in Ordinals /\ h[2] \in {"new", "old"}
  BY <1>1, HostShape DEF TypeOK
<1>3. <<0, h[2]>> \in pods
  <2>1. CASE h[1] = 0
    BY <1>1, <1>2, <2>1
  <2>2. CASE h[1] # 0
    <3>1. 0 \in 0..(h[1] - 1)
      BY <1>2, <2>2, LifecycleAssumption DEF Ordinals
    <3> QED BY <1>1, <3>1 DEF FirstOrdinals
  <2> QED BY <2>1, <2>2
<1> QED BY <1>2, <1>3 DEF Runs, Host, OldHost

\* A StatefulSet with one pod has it on ordinal 0.
LEMMA OneIsNode0 ==
  ASSUME TypeOK, FirstOrdinals, Cardinality(Owned) <= 1, NEW h \in Owned
  PROVE  h[1] = 0
<1> SUFFICES ASSUME h[1] # 0 PROVE FALSE
  OBVIOUS
<1>1. h \in pods /\ sts.exists /\ h[2] = sts.kind
  BY DEF Owned
<1>2. h[1] \in Ordinals
  BY <1>1, HostShape DEF TypeOK
<1>3. 0 \in 0..(h[1] - 1)
  BY <1>2, LifecycleAssumption DEF Ordinals
<1>4. <<0, sts.kind>> \in pods
  BY <1>1, <1>3 DEF FirstOrdinals
<1>5. <<0, sts.kind>> \in Owned /\ <<0, sts.kind>> # h
  BY <1>1, <1>4 DEF Owned
<1>6. IsFiniteSet(Owned) /\ Cardinality(Owned) \in Nat
  BY OwnedCount DEF TypeOK
<1>7. Cardinality(Owned) = 0 => Owned = {}
  BY <1>6, FS_EmptySet
<1>8. Cardinality(Owned) = 1 => \E x : Owned = {x}
  BY <1>6, FS_Singleton
<1> QED BY <1>5, <1>6, <1>7, <1>8

LEMMA UpgradeInit == Init => UpgradeInv
<1> SUFFICES ASSUME Init PROVE FirstOrdinals /\ Node0Left
  BY BaseInit DEF UpgradeInv
<1>1. pods = {} \/ pods = {OldHost(i) : i \in Ordinals}
  BY DEF Init, Inherited
<1>2. FirstOrdinals
  BY <1>1, LifecycleAssumption DEF FirstOrdinals, OldHost, Ordinals
<1>3. Node0Left
  BY DEF Init, Node0Left
<1> QED BY <1>2, <1>3

LEMMA FirstStep == UpgradeInv /\ Next => FirstOrdinals'
<1> SUFFICES ASSUME UpgradeInv, Next PROVE FirstOrdinals'
  OBVIOUS
<1>0. TypeOK /\ FirstOrdinals /\ pods \in SUBSET Hosts
  BY DEF UpgradeInv, BaseInv, TypeOK
<1>1. CASE pods' = pods
  BY <1>0, <1>1 DEF FirstOrdinals
<1>2. CASE PodStarts
  <2>1. PICK o \in Ordinals :
          /\ \A p \in 0..(o - 1) : <<p, sts.kind>> \in pods
          /\ pods' = pods \cup {<<o, sts.kind>>}
    BY <1>2 DEF PodStarts
  <2>2. \A g \in pods' : g \in pods \/ (g[1] = o /\ g[2] = sts.kind)
    BY <2>1
  <2>3. \A g \in pods : g \in pods'
    BY <2>1
  <2>4. ASSUME NEW g \in pods', NEW p \in 0..(g[1] - 1) PROVE <<p, g[2]>> \in pods
    BY <1>0, <2>1, <2>2, <2>4 DEF FirstOrdinals
  <2> QED BY <2>3, <2>4 DEF FirstOrdinals
<1>3. CASE PodStops
  <2>1. PICK h \in pods : (\A g \in pods : g[1] <= h[1]) /\ pods' = pods \ {h}
    BY <1>3 DEF PodStops
  <2>2. h[1] \in Nat /\ \A g \in pods : g[1] \in Nat
    BY <1>0, <2>1, HostShape, LifecycleAssumption DEF Ordinals
  <2>3. ASSUME NEW g \in pods, NEW p \in 0..(g[1] - 1) PROVE <<p, g[2]>> # h
    BY <2>1, <2>2, <2>3
  <2> QED BY <1>0, <2>1, <2>3 DEF FirstOrdinals
<1>4. CASE External
  BY <1>1, <1>2, <1>3, <1>4 DEF External, UserEdits, GracePasses, ClaimGoes, Collect, Rediscover,
     Promote, Deliver, k8s
<1>5. CASE Controller
  BY <1>1, <1>5 DEF Controller, Upgrade, CBegin, CLook, Look, CForget, CDelete, CMark, CSync,
     CSyncFails, k8s
<1>6. CASE OrcLoop
  BY <1>1, <1>6 DEF OrcLoop, ORelease, OSync, OSyncFails, OStatusFails, Orchestrate, k8s
<1> QED BY <1>4, <1>5, <1>6 DEF Next

LEMMA UpgradeStep == UpgradeInv /\ [Next]_vars => UpgradeInv'
<1> SUFFICES ASSUME UpgradeInv, [Next]_vars PROVE FirstOrdinals' /\ Node0Left'
  BY BaseStep DEF UpgradeInv
<1>0. TypeOK /\ FirstOrdinals /\ Node0Left /\ pods \in SUBSET Hosts /\ sts \in StatefulSet
  BY DEF UpgradeInv, BaseInv, TypeOK
<1>1. CASE UNCHANGED vars
  BY <1>0, <1>1 DEF vars, k8s, control, orc, FirstOrdinals, Node0Left, Owned
<1>2. CASE Next
  <2>1. FirstOrdinals'
    BY <1>2, FirstStep
  <2> SUFFICES Node0Left'
    BY <2>1
  <2>2. ASSUME UNCHANGED <<sts, master, cpc>>, pods' \subseteq pods PROVE Node0Left'
    BY <1>0, <2>2 DEF Node0Left, Owned
  <2>3. ASSUME cpc' \notin {"forget", "delete"} PROVE Node0Left'
    BY <2>3 DEF Node0Left
  <2>4. CASE PodStarts
    <3>1. PICK o \in Ordinals :
            o < sts.replicas /\ pods' = pods \cup {<<o, sts.kind>>}
      BY <1>2, <2>4 DEF PodStarts
    <3>2. UNCHANGED <<sts, master, cpc>>
      BY <2>4 DEF PodStarts, orc, control
    <3>3. sts.replicas <= 1 => o = 0
      BY <1>0, <3>1, LifecycleAssumption DEF Ordinals, StatefulSet
    <3> QED BY <1>0, <3>1, <3>2, <3>3 DEF Node0Left, Owned
  <2>5. CASE Collect
    <3>1. sts' = sts \/ ~sts'.exists
      BY <2>5 DEF Collect, NoSts
    <3>2. UNCHANGED <<pods, master, cpc>>
      BY <2>5 DEF Collect, orc, control
    <3> QED BY <1>0, <3>1, <3>2 DEF Node0Left, Owned
  <2>6. CASE Promote
    <3>1. ~Runs(master) /\ pods # {} /\ UNCHANGED <<sts, pods, cpc>>
      BY <2>6 DEF Promote, k8s, control
    <3>2. master # 0
      BY <1>0, <3>1, NothingRuns
    <3> QED BY <1>0, <3>1, <3>2 DEF Node0Left
  <2>7. CASE External
    <3>1. CASE UserEdits \/ GracePasses \/ PodStops \/ ClaimGoes
      BY <2>2, <3>1 DEF UserEdits, GracePasses, PodStops, ClaimGoes, k8s, orc, control
    <3>2. CASE Rediscover \/ Deliver
      BY <2>2, <3>2 DEF Rediscover, Deliver, k8s, orc, control
    <3> QED BY <2>4, <2>5, <2>6, <2>7, <3>1, <3>2 DEF External
  <2>8. ASSUME NEW S, Look(S) PROVE Node0Left'
    <3>1. CASE Node0Alone(registered')
      <4>1. \A h \in Owned : h[1] = 0
        BY <1>0, <3>1, OneIsNode0 DEF Node0Alone
      <4>2. master' = master /\ pods' = pods /\ master = 0
        BY <2>8, <3>1 DEF Look, Node0Alone
      <4>3. sts'.exists = sts.exists /\ sts'.kind = sts.kind /\ sts'.replicas <= 1
        BY <1>0, <2>8 DEF Look, StatefulSet
      <4> QED BY <4>1, <4>2, <4>3 DEF Node0Left, Owned
    <3>2. CASE ~Node0Alone(registered')
      <4>1. cpc' = "idle"
        BY <2>8, <3>2 DEF Look, CStore, CReturn
      <4> QED BY <2>3, <4>1
    <3> QED BY <3>1, <3>2
  <2>9. CASE CLook
    <3>1. (\E S : Look(S)) \/ CGoto("mark")
      BY <2>9 DEF CLook
    <3> QED BY <2>3, <2>8, <3>1 DEF CGoto
  <2>10. CASE CForget
    <3>1. cpc = "forget" /\ UNCHANGED <<sts, pods, master>>
      BY <2>10 DEF CForget, k8s
    <3> QED BY <1>0, <3>1 DEF Node0Left, Owned
  <2>11. CASE CBegin \/ CDelete \/ CMark
    <3>1. cpc' \in {"sync", "look", "mark", "idle"}
      BY <2>11 DEF CBegin, CDelete, CMark, CStore, CGoto, CReturn
    <3> QED BY <2>3, <3>1
  <2>12. CASE CSync \/ CSyncFails
    <3>1. cpc' = "idle"
      BY <2>12 DEF CSync, CSyncFails, StoreStatus, CStore, CReturn
    <3> QED BY <2>3, <3>1
  <2>13. CASE OrcLoop
    <3>1. UNCHANGED <<sts, pods, master, cpc>>
      BY <2>13 DEF OrcLoop, ORelease, OSync, OSyncFails, OStatusFails, Orchestrate, OStore, k8s,
         control
    <3> QED BY <2>2, <3>1
  <2> QED BY <1>2, <2>1, <2>7, <2>9, <2>10, <2>11, <2>12, <2>13 DEF Next, Controller, Upgrade
<1> QED BY <1>1, <1>2

\* The upgrade from an operator before 0.3 deletes the StatefulSet only when the
\* master is the one pod left, however stale the copy it works from and
\* whatever was promoted, started or stopped since it looked.
THEOREM UpgradeKeepsData == Spec => UpgradeSafe
<1> DEFINE A == sts.exists /\ ~sts'.exists /\ obj.exists =>
                  master = 0 /\ \A h \in Owned : h[1] = 0
<1>1. ASSUME UpgradeInv, [Next]_vars PROVE [A]_vars
  <2> SUFFICES ASSUME Next, sts.exists, ~sts'.exists, obj.exists
               PROVE  master = 0 /\ \A h \in Owned : h[1] = 0
    BY <1>1
  <2>0. Node0Left /\ sts \in StatefulSet
    BY <1>1 DEF UpgradeInv, BaseInv, TypeOK
  <2>1. ~External
    BY DEF External, UserEdits, GracePasses, PodStarts, PodStops, ClaimGoes, Collect, Rediscover,
       Promote, Deliver, k8s
  <2>2. ~OrcLoop
    BY DEF OrcLoop, ORelease, OSync, OSyncFails, OStatusFails, Orchestrate, k8s
  <2>3. ~CBegin /\ ~CForget /\ ~CMark
    BY DEF CBegin, CForget, CMark, k8s
  <2>4. ~CLook
    BY <2>0 DEF CLook, Look, StatefulSet, k8s
  <2>5. ~CSync /\ ~CSyncFails
    BY <2>0 DEF CSync, CSyncFails, Synced, StatefulSet
  <2>6. CDelete
    BY <2>1, <2>2, <2>3, <2>4, <2>5 DEF Next, Controller, Upgrade
  <2> QED BY <2>0, <2>6 DEF CDelete, Node0Left
<1> QED BY <1>1, UpgradeInit, UpgradeStep, PTL DEF Spec, UpgradeSafe
=============================================================================
