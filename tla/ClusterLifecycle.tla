-------------------------- MODULE ClusterLifecycle --------------------------
(***************************************************************************)
(* The life of one cluster: it is created, or taken over from an operator  *)
(* before 0.3, scaled, given larger volumes and deleted.                   *)
(*   - The cluster controller (mysqlcluster_controller.go) upgrades an old *)
(*     cluster (upgrades.go), syncs the StatefulSet, resizes and removes   *)
(*     the data claims (cleaner/).                                         *)
(*   - The orchestrator controller (orchestrator_syncers.go and            *)
(*     orchestrator_reconcile.go) keeps the cluster's finalizer and the    *)
(*     hosts that orchestrator knows.                                      *)
(*                                                                         *)
(* Both work on copies of the MysqlCluster from the same informer, which   *)
(* may be behind, and lose their updates when somebody else has written.   *)
(* Versions, conditions and failovers are the subject of VersionRollout    *)
(* and Failover: here a pod that runs is ready, and the only thing that    *)
(* stops one is a smaller or missing StatefulSet.                          *)
(***************************************************************************)
EXTENDS Naturals, Sequences, FiniteSets

CONSTANTS
  MaxReplicas,    \* bound: replicas a user may ask for
  MaxSize,        \* bound: storage a user may ask for
  MaxSpecChanges, \* bound: edits of the cluster
  MaxFaults,      \* bound: failed calls
  MaxLag          \* bound: versions of the cluster the informer may be behind

ASSUME LifecycleAssumption ==
  /\ MaxReplicas \in Nat \ {0} /\ MaxSize \in Nat \ {0}
  /\ MaxSpecChanges \in Nat /\ MaxFaults \in Nat /\ MaxLag \in Nat \ {0}

VARIABLES
  obj, stream, cache,     \* the stored MysqlCluster, its versions under way, the informer's
  sts, pods, claims,      \* the StatefulSet, the hosts that run, the data claims
  master,                 \* the ordinal of the master
  registered,             \* the hosts in orchestrator
  grace,                  \* Ready has been true for longer than forgetGraceTime
  cpc, ccopy, cfresh,     \* the cluster controller: place, copy, is the copy current
  excused,                \* history: see GoneMeansForgotten
  changes, faults         \* how much of each bound is used

api     == <<obj, stream, cache>>
k8s     == <<sts, pods, claims>>
control == <<cpc, ccopy, cfresh>>
orc     == <<registered, master, grace>>
bounds  == <<changes, faults>>
vars == <<api, k8s, orc, control, excused, bounds>>

Ordinals == 0..(MaxReplicas - 1)
\* A pod's host has another name since 0.3.
Host(i) == <<i, "new">>
OldHost(i) == <<i, "old">>
Hosts == Ordinals \X {"new", "old"}
Wanted(c) == {Host(i) : i \in {i \in Ordinals : i < c.replicas}}

\* upgraded: the version annotation; readyNodes, nodes and ready: the status.
Cluster == [exists : BOOLEAN, deleting : BOOLEAN, finalizer : BOOLEAN, upgraded : BOOLEAN,
            replicas : 0..MaxReplicas, size : 1..MaxSize,
            readyNodes : 0..MaxReplicas, nodes : SUBSET Hosts, ready : BOOLEAN]
\* kind: which of a pod's names the StatefulSet gives it; size: of its claim template.
StatefulSet == [exists : BOOLEAN, kind : {"new", "old"}, replicas : 0..MaxReplicas, size : 1..MaxSize]
\* What is left of a cluster that is gone, and of a copy when its reader returns.
Gone == [exists |-> FALSE, deleting |-> TRUE, finalizer |-> FALSE, upgraded |-> FALSE,
         replicas |-> 0, size |-> 1, readyNodes |-> 0, nodes |-> {}, ready |-> FALSE]
NoSts == [exists |-> FALSE, kind |-> "new", replicas |-> 0, size |-> 1]
\* A claim that is being deleted lasts as long as its pod runs.
Claim == [size : 0..MaxSize, dying : BOOLEAN]
NoClaim == [size |-> 0, dying |-> FALSE]

CSteps == {"idle", "look", "forget", "delete", "mark", "sync"}

\* The state is well typed and a pod has one host name at a time.
TypeOK ==
  /\ obj \in Cluster /\ cache \in Cluster /\ ccopy \in Cluster /\ stream \in Seq(Cluster)
  /\ sts \in StatefulSet /\ pods \in SUBSET Hosts /\ claims \in [Ordinals -> Claim]
  /\ \A o \in Ordinals : ~({Host(o), OldHost(o)} \subseteq pods)
  /\ master \in Ordinals /\ registered \in SUBSET Hosts
  /\ cpc \in CSteps
  /\ grace \in BOOLEAN /\ cfresh \in BOOLEAN /\ excused \in BOOLEAN
  /\ changes \in 0..MaxSpecChanges /\ faults \in 0..MaxFaults

Fault == faults < MaxFaults /\ faults' = faults + 1 /\ UNCHANGED changes

-----------------------------------------------------------------------------
(* The API server, the user and time.                                      *)

\* An update that changes nothing makes no version. LastTransitionTime starts
\* again when Ready becomes true.
Write(c) ==
  /\ IF c = obj THEN UNCHANGED <<obj, stream>>
     ELSE Len(stream) < MaxLag /\ obj' = c /\ stream' = Append(stream, c)
  /\ grace' = (grace /\ c.ready)
  /\ UNCHANGED cache

Deliver ==
  /\ stream # <<>>
  /\ cache' = Head(stream) /\ stream' = Tail(stream)
  /\ UNCHANGED <<obj, k8s, orc, control, excused, bounds>>

\* An old cluster is not scaled to nothing before it is upgraded: its node 0
\* would be dropped from the status and the upgrade would look for it for ever.
UserEdits ==
  /\ changes < MaxSpecChanges /\ changes' = changes + 1 /\ UNCHANGED faults
  /\ obj.exists /\ ~obj.deleting
  /\ \/ \E n \in 0..MaxReplicas \ {obj.replicas} :
          (n > 0 \/ obj.upgraded) /\ Write([obj EXCEPT !.replicas = n])
     \/ \E s \in 1..MaxSize \ {obj.size} : Write([obj EXCEPT !.size = s])
     \/ Write(IF obj.finalizer THEN [obj EXCEPT !.deleting = TRUE] ELSE Gone)
  /\ cfresh' = FALSE
  /\ UNCHANGED <<k8s, registered, master, cpc, ccopy, excused>>

GracePasses ==
  /\ obj.ready /\ ~grace /\ grace' = TRUE
  /\ UNCHANGED <<api, k8s, registered, master, control, excused, bounds>>

-----------------------------------------------------------------------------
(* The StatefulSet controller, the garbage collector and orchestrator.     *)

Runs(o) == pods \cap {Host(o), OldHost(o)} # {}
Owned == {h \in pods : sts.exists /\ h[2] = sts.kind}

\* Pods start in order, on a claim of the template's size.
PodStarts ==
  /\ \E o \in Ordinals :
       /\ sts.exists /\ o < sts.replicas /\ ~Runs(o) /\ \A p \in 0..(o - 1) : <<p, sts.kind>> \in pods
       /\ ~claims[o].dying
       /\ pods' = pods \cup {<<o, sts.kind>>}
       /\ claims' = (IF claims[o] = NoClaim
                     THEN [claims EXCEPT ![o] = [size |-> sts.size, dying |-> FALSE]] ELSE claims)
  /\ UNCHANGED <<api, sts, orc, control, excused, bounds>>

PodStops ==
  /\ \E h \in pods :
       /\ h \notin Owned \/ h[1] >= sts.replicas
       /\ \A g \in pods : g[1] <= h[1]
       /\ pods' = pods \ {h}
  /\ UNCHANGED <<api, sts, claims, orc, control, excused, bounds>>

ClaimGoes ==
  /\ \E o \in Ordinals : claims[o].dying /\ ~Runs(o) /\ claims' = [claims EXCEPT ![o] = NoClaim]
  /\ UNCHANGED <<api, sts, pods, orc, control, excused, bounds>>

\* What the cluster owned goes with it.
Collect ==
  /\ ~obj.exists
  /\ \/ sts.exists /\ sts' = NoSts /\ UNCHANGED claims
     \/ /\ UNCHANGED sts
        /\ \E o \in Ordinals :
             /\ claims[o] # NoClaim /\ ~claims[o].dying
             /\ claims' = [claims EXCEPT ![o].dying = TRUE]
  /\ UNCHANGED <<api, pods, orc, control, excused, bounds>>

\* A host that is registered leads orchestrator to the rest of its topology.
Rediscover ==
  /\ registered # {} /\ ~(pods \subseteq registered)
  /\ registered' = registered \cup pods
  /\ UNCHANGED <<api, k8s, master, grace, control, excused, bounds>>

Promote ==
  /\ ~Runs(master) /\ \E h \in pods : master' = h[1]
  /\ UNCHANGED <<api, k8s, registered, grace, control, excused, bounds>>

-----------------------------------------------------------------------------
(* The cluster controller. It is called when the cluster or what it owns   *)
(* changes, again after an error, and at every resync.                     *)

CGoto(pc) == cpc' = pc /\ UNCHANGED <<ccopy, cfresh>>
CReturn == cpc' = "idle" /\ ccopy' = Gone /\ cfresh' = FALSE

\* An update with a copy that is behind is refused.
CStore(c, pc) ==
  /\ cfresh /\ Write(c) /\ (IF pc = "idle" THEN CReturn ELSE cpc' = pc /\ ccopy' = c /\ UNCHANGED cfresh)

CBegin ==
  /\ cpc = "idle" /\ cache.exists
  /\ ccopy' = cache /\ cfresh' = (stream = <<>>)
  /\ cpc' = (IF cache.upgraded THEN "sync" ELSE "look")
  /\ UNCHANGED <<api, k8s, orc, excused, bounds>>

\* Mutant: node 0 may still be a replica.
Node0Known(known) == Cardinality(Owned) <= 1 /\ OldHost(0) \in known

\* Run registers the old nodes, scales the StatefulSet down to node 0 and goes
\* on once that is the only pod and the master. A failed registration is ignored.
Node0Alone(known) == Cardinality(Owned) <= 1 /\ OldHost(0) \in known /\ master = 0

Look(found) ==
  /\ registered' = registered \cup found /\ UNCHANGED <<master, pods, claims>>
  /\ excused' = (excused \/ (found # {} /\ (obj.deleting \/ ~obj.exists)))
  /\ \/ /\ sts.replicas > 1 /\ sts' = [sts EXCEPT !.replicas = 1]
        /\ \/ CStore([ccopy EXCEPT !.readyNodes = 0], IF Node0Alone(registered') THEN "forget" ELSE "idle")
           \/ ~cfresh /\ CReturn /\ UNCHANGED <<api, grace>>
     \/ /\ sts.replicas <= 1 /\ UNCHANGED <<sts, api, grace>>
        /\ IF Node0Alone(registered') THEN CGoto("forget") ELSE CReturn

CLook ==
  /\ cpc = "look"
  /\ \/ ~sts.exists /\ CGoto("mark") /\ UNCHANGED <<api, k8s, orc, excused, bounds>>
     \/ sts.exists /\ Look(ccopy.nodes \cap pods) /\ UNCHANGED bounds
     \/ sts.exists /\ Fault /\ \E S \in SUBSET (ccopy.nodes \cap pods) : Look(S)

OldHosts(c) == {OldHost(i) : i \in {i \in Ordinals : i < c.replicas}}

CForget ==
  /\ cpc = "forget"
  /\ \/ registered' = registered \ OldHosts(ccopy) /\ CGoto("delete") /\ UNCHANGED bounds
     \/ /\ Fault /\ CReturn
        /\ \E S \in SUBSET OldHosts(ccopy) : registered' = registered \ S
  /\ UNCHANGED <<api, k8s, master, grace, excused>>

\* The old headless service goes after the StatefulSet. After an error the next
\* run finds no StatefulSet, is done and leaves the service.
CDelete ==
  /\ cpc = "delete"
  /\ \/ sts' = NoSts /\ CGoto("mark") /\ UNCHANGED bounds
     \/ Fault /\ CReturn /\ sts' \in {sts, NoSts}
  /\ UNCHANGED <<api, pods, claims, orc, excused>>

CMark ==
  /\ cpc = "mark"
  /\ \/ /\ CStore([ccopy EXCEPT !.upgraded = TRUE], "sync") /\ UNCHANGED bounds
     \/ ~cfresh /\ CReturn /\ UNCHANGED <<api, grace, bounds>>
     \/ Fault /\ CReturn /\ UNCHANGED <<api, grace>>
  /\ UNCHANGED <<k8s, registered, master, excused>>

\* Mutant: one replica more than asked for.
SyncedOneMore ==
  IF sts.exists THEN [sts EXCEPT !.replicas = ccopy.replicas]
  ELSE [exists |-> TRUE, kind |-> "new", replicas |-> ccopy.replicas + 1, size |-> ccopy.size]

\* What the StatefulSet syncer stores: the claim template is set once, and a
\* cluster under deletion gets no new StatefulSet.
Synced ==
  IF sts.exists THEN [sts EXCEPT !.replicas = ccopy.replicas]
  ELSE IF ccopy.deleting THEN sts
  ELSE [exists |-> TRUE, kind |-> "new", replicas |-> ccopy.replicas, size |-> ccopy.size]

Counted == [ccopy EXCEPT !.readyNodes = Cardinality(Owned)]

\* listOwnedClusterPVCs, and what PVCResizer and PVCCleaner take from it. Claims
\* of a cluster with keepAfterDelete have no owner and are left alone.
Managed == {o \in Ordinals : claims[o] # NoClaim /\ ~claims[o].dying /\ ~ccopy.deleting}
TooSmall == {o \in Managed : claims[o].size < ccopy.size}
\* Mutant: scaled to nothing, the cluster loses its last claim.
OrphanedAll == {o \in Managed : o >= ccopy.replicas}
Orphaned == {o \in Managed : o >= ccopy.replicas /\ o # 0}

\* Larger claims for G, then R removed.
Change(G, R) ==
  claims' = [o \in Ordinals |-> [size |-> IF o \in G THEN ccopy.size ELSE claims[o].size,
                                 dying |-> claims[o].dying \/ o \in R]]

\* The status is stored on every way out of the syncers; when that is refused or
\* fails it is only logged.
StoreStatus == CStore(Counted, "idle") \/ (~cfresh /\ CReturn /\ UNCHANGED <<api, grace>>)

CSync ==
  /\ cpc = "sync" /\ sts' = Synced /\ Change(TooSmall, Orphaned) /\ StoreStatus
  /\ UNCHANGED <<pods, registered, master, excused, bounds>>

\* A failure of the syncers, of the resizer, of the cleaner or of the last update.
CSyncFails ==
  /\ cpc = "sync" /\ Fault
  /\ \/ StoreStatus /\ UNCHANGED <<sts, claims>>
     \/ /\ StoreStatus /\ sts' = Synced
        /\ \/ \E G \in SUBSET TooSmall : Change(G, {})
           \/ \E R \in SUBSET Orphaned : Change(TooSmall, R)
     \/ sts' = Synced /\ Change(TooSmall, Orphaned) /\ CReturn /\ UNCHANGED <<api, grace>>
  /\ UNCHANGED <<pods, registered, master, excused>>

-----------------------------------------------------------------------------
(* The orchestrator controller, every five seconds. A reconcile is one     *)
(* step: another's step in the middle of it only shows as a cache that is  *)
(* behind, and its two updates of the cluster as one.                      *)

\* An update with what the cache holds is refused when that is behind.
Current == stream = <<>>
OStore(c) == Current /\ Write(c) /\ cfresh' = (cfresh /\ c = obj) /\ UNCHANGED <<cpc, ccopy>>

\* updateNodesInOrc: the instances that are wanted, those to discover, those to forget.
Instances == Wanted(cache) \cap registered
ToDiscover == IF cache.deleting THEN {} ELSE {h \in Wanted(cache) \ registered : h[1] < cache.readyNodes}
Healthy == Instances \cap pods
NowReady ==
  /\ cache.readyNodes = cache.replicas /\ Wanted(cache) \subseteq Healthy
  /\ cache.replicas > 0 => Host(master) \in Healthy
\* Mutant: hosts are forgotten only on deletion.
MayForgetDeleted == cache.deleting
\* The time of Ready's last transition is unknown when the cache is behind.
MayForget == cache.deleting \/ (NowReady /\ cache.ready /\ (grace \/ ~Current))
\* Mutant: deletion forgets what a scale-down would.
ToForgetUnwanted == IF ~MayForget THEN {} ELSE registered \ Wanted(cache)
ToForget ==
  IF ~MayForget THEN {} ELSE IF cache.deleting THEN registered ELSE registered \ Wanted(cache)

\* GetNodeStatusFor adds the node it is asked for: Ready looks the nodes up in
\* order until one is not healthy.
LookedUp == {h \in Wanted(cache) : cache.readyNodes = cache.replicas
                                   /\ \A i \in 0..(h[1] - 1) : Host(i) \in Healthy}

\* removeNodeConditionNotInOrc drops what was scaled down and, once upgraded,
\* the old names.
Kept == {h \in cache.nodes : h[1] < cache.replicas /\ ~(cache.upgraded /\ h[2] = "old")}
NodesAfter == Kept \cup Instances \cup LookedUp
Seen ==
  [exists |-> cache.exists, deleting |-> cache.deleting, finalizer |-> TRUE,
   upgraded |-> cache.upgraded, replicas |-> cache.replicas, size |-> cache.size,
   readyNodes |-> cache.readyNodes, nodes |-> NodesAfter, ready |-> NowReady]

\* Mutant: deletion is not held back.
ReleasedAtOnce(instances) == cache.deleting

\* The finalizer goes when orchestrator has no host of a cluster under
\* deletion, and the object with it; no answer counts as no host.
Released(instances) == cache.deleting /\ instances = {}

ORelease ==
  /\ cache.exists /\ OStore(Gone)
  /\ \/ Released(registered) /\ UNCHANGED <<bounds, excused>>
     \/ Released({}) /\ Fault /\ excused' = TRUE
  /\ UNCHANGED <<k8s, registered, master>>

\* Failed calls to discover or to forget a host are only logged; the status of
\* a cluster under deletion is not stored.
Orchestrate(D, F) ==
  /\ cache.exists /\ ~Released(registered) /\ (cache.finalizer \/ Current)
  /\ registered' = (registered \cup D) \ F
  /\ \/ ~cache.deleting /\ OStore(Seen)
     \/ (cache.deleting \/ ~Current) /\ UNCHANGED <<api, grace, control>>
  /\ UNCHANGED <<k8s, master, excused>>

OSync == Orchestrate(ToDiscover \cap pods, ToForget) /\ UNCHANGED bounds
OSyncFails ==
  /\ Fault
  /\ \E D \in SUBSET (ToDiscover \cap pods), F \in SUBSET ToForget : Orchestrate(D, F)

\* The last update fails; the finalizer is stored by then.
OStatusFails ==
  /\ cache.exists /\ ~cache.deleting /\ Fault
  /\ OStore([cache EXCEPT !.finalizer = TRUE])
  /\ registered' = (registered \cup (ToDiscover \cap pods)) \ ToForget
  /\ UNCHANGED <<k8s, master, excused>>

-----------------------------------------------------------------------------
Created(r) == [exists |-> TRUE, deleting |-> FALSE, finalizer |-> FALSE, upgraded |-> FALSE,
               replicas |-> r, size |-> 1, readyNodes |-> 0, nodes |-> {}, ready |-> FALSE]
\* A cluster an older operator left, with that operator's finalizer.
Inherited ==
  [exists |-> TRUE, deleting |-> FALSE, finalizer |-> TRUE, upgraded |-> FALSE,
   replicas |-> MaxReplicas, size |-> 1, readyNodes |-> MaxReplicas,
   nodes |-> {OldHost(i) : i \in Ordinals}, ready |-> TRUE]

Init ==
  /\ \/ /\ obj \in {Created(r) : r \in 1..MaxReplicas} /\ registered = {} /\ master = 0
        /\ sts = NoSts /\ pods = {} /\ claims = [o \in Ordinals |-> NoClaim]
     \/ /\ obj = Inherited /\ registered \in {{}, obj.nodes} /\ master \in Ordinals
        /\ sts = [exists |-> TRUE, kind |-> "old", replicas |-> MaxReplicas, size |-> 1]
        /\ pods = obj.nodes /\ claims = [o \in Ordinals |-> [size |-> 1, dying |-> FALSE]]
  /\ cache = obj /\ ccopy = Gone /\ stream = <<>>
  /\ grace = FALSE /\ excused = FALSE /\ cfresh = FALSE
  /\ cpc = "idle"
  /\ changes = 0 /\ faults = 0

External == UserEdits \/ GracePasses \/ PodStarts \/ PodStops \/ ClaimGoes \/ Collect
            \/ Rediscover \/ Promote \/ Deliver
Upgrade == CLook \/ CForget \/ CDelete \/ CMark
Controller == CBegin \/ Upgrade \/ CSync \/ CSyncFails
OrcLoop == ORelease \/ OSync \/ OSyncFails \/ OStatusFails
Next == External \/ Controller \/ OrcLoop

\* The controllers keep running, the informer catches up, Kubernetes and
\* orchestrator do their part and time passes. Edits, failed calls and
\* rediscovery need never happen.
Fairness ==
  /\ WF_vars(Deliver) /\ WF_vars(GracePasses) /\ WF_vars(PodStarts)
  /\ WF_vars(PodStops) /\ WF_vars(ClaimGoes) /\ WF_vars(Collect) /\ WF_vars(Promote)
  /\ WF_vars(Controller) /\ WF_vars(OrcLoop)

Spec == Init /\ [][Next]_vars /\ Fairness

-----------------------------------------------------------------------------
(* Properties.                                                             *)

\* A cluster that is gone leaves no host in orchestrator, however deletion,
\* late copies and rediscovery interleave (newFinalizerSyncer). Two ways out
\* are in the code: orchestrator's error is taken for "no instances", and the
\* upgrade registers the nodes of a cluster that is being deleted.
GoneMeansForgotten == ~obj.exists /\ ~excused => registered = {}

\* The claim of a pod that the StatefulSet wants at that moment is never
\* removed, nor is the claim of ordinal 0 while the cluster exists, and no
\* claim shrinks (PVCCleaner, PVCResizer), though both work from a copy that
\* may be behind.
ClaimsKept ==
  [][\A o \in Ordinals :
       /\ claims'[o].dying /\ ~claims[o].dying /\ obj.exists =>
            o # 0 /\ o >= sts'.replicas
       /\ claims'[o] # NoClaim => claims'[o].size >= claims[o].size]_vars

\* The upgrade deletes the StatefulSet of a living cluster only when the
\* master, alone, is left on ordinal 0: no pod with newer data is stopped
\* and none of a smaller ordinal's data is served in its place (upgrades.go).
UpgradeSafe ==
  [][sts.exists /\ ~sts'.exists /\ obj.exists =>
       master = 0 /\ \A h \in Owned : h[1] = 0]_vars

\* Whatever was interrupted, lost or out of date, in the end orchestrator and
\* the status name the pods that were asked for, claims are large enough and
\* surplus ones are gone.
Settled ==
  obj.exists /\ ~obj.deleting =>
    /\ pods = Wanted(obj) /\ registered = Wanted(obj) /\ obj.nodes = Wanted(obj) /\ obj.ready
    /\ \A o \in Ordinals : IF o < obj.replicas THEN claims[o].size >= obj.size
                           ELSE o # 0 => claims[o] = NoClaim
Converges == <>[]Settled

\* A cluster under deletion loses its finalizer in the end, and its pods go.
ClusterGoes == obj.deleting ~> (~obj.exists /\ pods = {})
====
