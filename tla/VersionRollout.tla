--------------------------- MODULE VersionRollout ---------------------------
(***************************************************************************)
(* The MySQL version rollout of one MysqlCluster: the version part of the  *)
(* MysqlCluster controller's Reconcile (mysqlcluster_controller.go) with   *)
(* the versionupgrade package, the StatefulSet syncer that writes the pod  *)
(* template, and, as its environment, the API server with the controller's *)
(* informer cache, the StatefulSet controller, the kubelets and the other  *)
(* writers of the MysqlCluster object.                                     *)
(*                                                                         *)
(* The cluster is a Percona image with its data on PVCs; spec.replicas is  *)
(* fixed.  A Status().Update succeeds only when the object in hand has the *)
(* resource version the API server holds; one that changes nothing does    *)
(* not produce a new resource version.                                     *)
(***************************************************************************)
EXTENDS MysqlVersioning, Sequences, FiniteSets

CONSTANTS
  Versions,          \* the server versions a user may ask for
  Replicas,          \* spec.replicas
  MaxSpecChanges,    \* bound: edits of spec.mysqlVersion
  MaxForeignWrites,  \* bound: status writes by other controllers
  MaxFaults,         \* bound: API errors, failed queries, restarts, lost pods
  MaxLag             \* bound: cluster versions the informer may be behind

ASSUME VersionsAssumption == /\ Versions \subseteq Version
                             /\ \A v \in Versions : Line(v) \in 0..2
ASSUME BoundsAssumption ==
  /\ Replicas \in Nat \ {0}
  /\ MaxSpecChanges \in Nat /\ MaxForeignWrites \in Nat /\ MaxFaults \in Nat
  /\ MaxLag \in Nat \ {0}

VARIABLES
  cluster,   \* the MysqlCluster the API server holds
  stream,    \* its later versions, on their way to the informer
  cache,     \* the version in the controller's informer cache
  pc,        \* where Reconcile is
  hand,      \* Reconcile's copy of the cluster
  handFresh, \* its resource version is the API server's
  snapshot,  \* the copy the deferred status update compares with
  queued,    \* the cluster is in the controller's work queue
  sts,       \* the StatefulSet's pod template: version and chown init container
  stsReady,  \* the StatefulSet's status.readyReplicas
  pods,      \* the pods, by ordinal
  data,      \* the data volumes, by ordinal
  changes, foreign, faults \* how much of each bound is used

vars == <<cluster, stream, cache, pc, hand, handFresh, snapshot, queued,
          sts, stsReady, pods, data, changes, foreign, faults>>
api     == <<cluster, stream, cache>>
control == <<pc, hand, handFresh, snapshot, queued>>
plane   == <<sts, stsReady, pods, data>>
bounds  == <<changes, foreign, faults>>

Ordinals == 0..(Replicas - 1)

Cluster == [spec : Versions, applied : Versions \cup {Zero},
            blocked : BOOLEAN, readyNodes : 0..Replicas]
Template == [ver : Versions \cup {Zero}, chown : BOOLEAN]
Phases == {"none", "init", "running", "ready", "terminating"}
Pod == [phase : Phases, ver : Versions \cup {Zero}, chown : BOOLEAN]
Data == [ver : Versions \cup {Zero}, owner : {999, 1001}]

Absent == [phase |-> "none", ver |-> Zero, chown |-> FALSE]

TypeOK ==
  /\ cluster \in Cluster /\ cache \in Cluster
  /\ stream \in Seq(Cluster)
  /\ pc \in {"idle", "backfill", "check", "hold", "sync", "advance", "finish"}
  /\ hand \in Cluster /\ snapshot \in Cluster
  /\ handFresh \in BOOLEAN /\ queued \in BOOLEAN
  /\ sts \in Template /\ stsReady \in 0..Replicas
  /\ pods \in [Ordinals -> Pod] /\ data \in [Ordinals -> Data]
  /\ changes \in 0..MaxSpecChanges /\ foreign \in 0..MaxForeignWrites
  /\ faults \in 0..MaxFaults

-----------------------------------------------------------------------------
(* versionupgrade: decisions taken from a copy of the cluster.             *)

ClusterHasMySQLData(c) == c.readyNodes > 0

NeedsAppliedBackfill(c) == c.applied = Zero /\ ClusterHasMySQLData(c)

Pending(c) == VersionChangePending(c.spec, c.applied, ClusterHasMySQLData(c))

\* EnsureChecked returns UpgradeBlockedError.
PathInvalid(c) ==
  Pending(c) /\ c.applied # Zero /\ ~ValidateUpgradePath(c.applied, c.spec)

\* EnsureChecked returns HoldRolloutError.
CheckHolds(c) == Pending(c) /\ c.applied = Zero /\ ClusterHasMySQLData(c)

\* Mutants of RolloutMySQLVersion: the path is not validated; a cluster whose
\* version is not recorded is not held.
RolloutUnvalidated(c, template) ==
  IF c.applied # Zero /\ GT(c.applied, c.spec) THEN c.applied
  ELSE IF c.applied = Zero /\ Pending(c) /\ template.ver # Zero THEN template.ver
  ELSE c.spec
RolloutNotHeld(c, template) ==
  IF c.applied # Zero /\ (GT(c.applied, c.spec) \/ ~ValidateUpgradePath(c.applied, c.spec))
  THEN c.applied ELSE c.spec

RolloutMySQLVersion(c, template) ==
  IF c.applied # Zero /\ GT(c.applied, c.spec) THEN c.applied
  ELSE IF ~Pending(c) THEN c.spec
  ELSE IF c.applied = Zero /\ template.ver # Zero THEN template.ver
  ELSE IF c.applied # Zero /\ ~ValidateUpgradePath(c.applied, c.spec) THEN c.applied
  ELSE c.spec

\* stepRequired(StepDatadirChown): only the 8.0 -> 8.4 path lists the step.
NeedsDatadirChownInit(c) ==
  /\ c.applied # Zero /\ c.applied # c.spec
  /\ ProfileFor(c.applied) = "percona-8.0" /\ ProfileFor(c.spec) = "percona-8.4"

PodTemplate(c, template) ==
  [ver |-> RolloutMySQLVersion(c, template), chown |-> NeedsDatadirChownInit(c)]

PodIsReady(p) == pods[p].phase = "ready"
ReadyPods == {p \in Ordinals : PodIsReady(p)}

\* ObserveDataPlaneVersionSQL succeeds: every ready pod answers, with one version.
Observed(v) == ReadyPods # {} /\ \A p \in ReadyPods : data[p].ver = v
Unanimous == \E v \in Versions : Observed(v)

\* Mutant: the names of the init containers are not compared.
InitContainersOfAnyTemplate(p) == pods[p].phase \in {"running", "ready", "terminating"}

\* podTemplateInitContainersSucceeded counts a pod whose own init containers
\* include, by name, all those of the current template and have completed.
InitContainersSucceeded(p) ==
  /\ pods[p].phase \in {"running", "ready", "terminating"}
  /\ sts.chown => pods[p].chown
  /\ WantsPerconaInitContainer(sts.ver) => WantsPerconaInitContainer(pods[p].ver)

\* Mutant: off by one.
RolloutNeverComplete(c) == sts.ver = c.spec /\ stsReady > Replicas

RolloutComplete(c) ==
  /\ sts.ver = c.spec
  /\ stsReady >= Replicas
  /\ Cardinality({p \in Ordinals : InitContainersSucceeded(p)}) >= Replicas

\* SyncAppliedVersion returns (v, true).
SyncAppliedVersion(c, v) ==
  /\ ~(ProfilesMatch(c.applied, c.spec) /\ ~LT(c.applied, c.spec))
  /\ RolloutComplete(c)
  /\ Observed(v)
  /\ ProfilesMatch(v, c.spec)

-----------------------------------------------------------------------------
(* Writes of the MysqlCluster object.                                      *)

\* The API server stores c: a new version, sent to the informer.
Store(c) ==
  /\ Len(stream) < MaxLag
  /\ cluster' = c /\ stream' = Append(stream, c)
  /\ UNCHANGED cache

\* r.Status().Update(c) by Reconcile accepted.
Accepted(c) ==
  /\ handFresh
  /\ IF c = cluster THEN UNCHANGED api ELSE Store(c)

\* Reconcile returns an error: the cluster is put back on the queue.
Fail == pc' = "idle" /\ queued' = TRUE /\ UNCHANGED <<hand, handFresh, snapshot>>

\* r.Status().Update refused: another writer was faster.
Conflict == ~handFresh /\ Fail /\ UNCHANGED api

Goto(label) == pc' = label /\ UNCHANGED <<handFresh, snapshot, queued>>

Fault == faults < MaxFaults /\ faults' = faults + 1 /\ UNCHANGED <<changes, foreign>>

-----------------------------------------------------------------------------
(* ReconcileMysqlCluster.Reconcile.                                        *)

\* r.Get reads the informer cache.
Begin ==
  /\ pc = "idle" /\ queued
  /\ pc' = "backfill" /\ queued' = FALSE
  /\ hand' = cache /\ handFresh' = (stream = <<>>)
  /\ UNCHANGED <<snapshot, api, plane, bounds>>

SkipBackfill ==
  /\ pc = "backfill" /\ ~NeedsAppliedBackfill(hand)
  /\ Goto("check") /\ UNCHANGED <<hand, api, plane, bounds>>

\* Mutant: the reconciliation goes on without a version.
BackfillGoesOn ==
  /\ pc = "backfill" /\ NeedsAppliedBackfill(hand) /\ ~Unanimous
  /\ Goto("check") /\ UNCHANGED <<hand, api, plane, bounds>>

\* The version cannot be observed: no ready pod, or the pods disagree.
BackfillHolds ==
  /\ pc = "backfill" /\ NeedsAppliedBackfill(hand) /\ ~Unanimous
  /\ Goto("hold") /\ UNCHANGED <<hand, api, plane, bounds>>

\* The same, because a query failed.
BackfillQueryFails ==
  /\ pc = "backfill" /\ NeedsAppliedBackfill(hand) /\ Fault
  /\ Goto("hold") /\ UNCHANGED <<hand, api, plane>>

\* Mutant: the version is marked on the copy and never saved.
BackfillUnsaved(v) ==
  /\ pc = "backfill" /\ NeedsAppliedBackfill(hand) /\ Observed(v)
  /\ hand' = [hand EXCEPT !.applied = v]
  /\ Goto("check") /\ UNCHANGED <<api, plane, bounds>>

Backfill(v) ==
  /\ pc = "backfill" /\ NeedsAppliedBackfill(hand) /\ Observed(v)
  /\ LET c == [hand EXCEPT !.applied = v]
     IN \/ Accepted(c) /\ hand' = c /\ Goto("check")
        \/ Conflict
  /\ UNCHANGED <<plane, bounds>>

\* Mutant: the condition is not saved.
CheckBlockedUnsaved ==
  /\ pc = "check" /\ PathInvalid(hand)
  /\ hand' = [hand EXCEPT !.blocked = TRUE]
  /\ Goto("hold") /\ UNCHANGED <<api, plane, bounds>>

\* EnsureChecked fails: UpgradeBlocked is set and saved, then the rollout held.
CheckBlocked ==
  /\ pc = "check" /\ PathInvalid(hand)
  /\ LET c == [hand EXCEPT !.blocked = TRUE]
     IN \/ Accepted(c) /\ hand' = c /\ Goto("hold")
        \/ Conflict
  /\ UNCHANGED <<plane, bounds>>

\* Mutant: the result of EnsureChecked is ignored.
CheckIgnored ==
  /\ pc = "check"
  /\ hand' = [hand EXCEPT !.blocked = FALSE] /\ snapshot' = hand'
  /\ pc' = "sync"
  /\ UNCHANGED <<handFresh, queued, api, plane, bounds>>

\* EnsureChecked passes: UpgradeBlocked is cleared in the copy, and the copy's
\* status is what the deferred update will compare with.
CheckPasses ==
  /\ pc = "check" /\ ~PathInvalid(hand) /\ ~CheckHolds(hand)
  /\ hand' = [hand EXCEPT !.blocked = FALSE] /\ snapshot' = hand'
  /\ pc' = "sync"
  /\ UNCHANGED <<handFresh, queued, api, plane, bounds>>

\* Mutant: the ready replicas are added to those of the last synchronisation.
SyncStatefulSetAdds ==
  /\ sts' = PodTemplate(hand, sts)
  /\ hand' = [hand EXCEPT !.readyNodes = @ + stsReady]
  /\ UNCHANGED <<stsReady, pods, data>>

\* The StatefulSet syncer: the template is computed before the copy's
\* readyNodes is refreshed from the StatefulSet's status.
SyncStatefulSet ==
  /\ sts' = PodTemplate(hand, sts)
  /\ hand' = [hand EXCEPT !.readyNodes = stsReady]
  /\ UNCHANGED <<stsReady, pods, data>>

\* syncRolloutHold, then RequeueAfter.
Hold ==
  /\ pc = "hold"
  /\ SyncStatefulSet
  /\ pc' = "idle" /\ queued' = TRUE
  /\ UNCHANGED <<handFresh, snapshot, api, bounds>>

Sync ==
  /\ pc = "sync"
  /\ SyncStatefulSet
  /\ pc' = "advance" /\ queued' = (queued \/ sts' # sts)
  /\ UNCHANGED <<handFresh, snapshot, api, bounds>>

\* A syncer, or a later step before SyncAppliedVersion, returns an error: the
\* deferred status update still runs and the cluster is put back on the queue.
SyncFails ==
  /\ pc = "sync" /\ Fault
  /\ SyncStatefulSet \/ UNCHANGED <<sts, stsReady, pods, data, hand>>
  /\ pc' = "finish" /\ queued' = TRUE
  /\ UNCHANGED <<handFresh, snapshot, api>>

\* The rollout is not complete, or nothing is to be recorded.
AdvanceNothing ==
  /\ pc = "advance" /\ \A v \in Versions : ~SyncAppliedVersion(hand, v)
  /\ Goto("finish") /\ UNCHANGED <<hand, api, plane, bounds>>

\* A query fails; nothing is requeued.
AdvanceQueryFails ==
  /\ pc = "advance" /\ RolloutComplete(hand) /\ Fault
  /\ Goto("finish") /\ UNCHANGED <<hand, api, plane>>

Advance(v) ==
  /\ pc = "advance" /\ SyncAppliedVersion(hand, v)
  /\ hand' = [hand EXCEPT !.applied = v]
  /\ pc' = "finish"
  /\ \/ Accepted(hand') /\ UNCHANGED queued
     \/ ~handFresh /\ queued' = TRUE /\ UNCHANGED api
  /\ UNCHANGED <<handFresh, snapshot, plane, bounds>>

\* Mutant: the deferred update does not carry the resource version.
FinishBlindly ==
  /\ pc = "finish"
  /\ IF hand = snapshot \/ hand = cluster THEN UNCHANGED api ELSE Store(hand)
  /\ Goto("idle") /\ UNCHANGED <<hand, plane, bounds>>

\* The deferred status update; a conflict is only logged.
Finish ==
  /\ pc = "finish"
  /\ \/ hand = snapshot /\ UNCHANGED api
     \/ hand # snapshot /\ Accepted(hand)
     \/ hand # snapshot /\ ~handFresh /\ UNCHANGED api
  /\ Goto("idle") /\ UNCHANGED <<hand, plane, bounds>>

-----------------------------------------------------------------------------
(* The environment.                                                        *)

\* The informer delivers the next version of the cluster and queues it.
Deliver ==
  /\ stream # <<>>
  /\ cache' = Head(stream) /\ stream' = Tail(stream) /\ queued' = TRUE
  /\ UNCHANGED <<cluster, pc, hand, handFresh, snapshot, plane, bounds>>

\* The informer's periodic resync.
Resync ==
  /\ ~queued /\ queued' = TRUE
  /\ UNCHANGED <<pc, hand, handFresh, snapshot, api, plane, bounds>>

\* The user edits spec.mysqlVersion.
SetVersion(v) ==
  /\ changes < MaxSpecChanges /\ changes' = changes + 1
  /\ v # cluster.spec
  /\ Store([cluster EXCEPT !.spec = v]) /\ handFresh' = FALSE
  /\ UNCHANGED <<pc, hand, snapshot, queued, plane, foreign, faults>>

\* Another controller writes a part of the object this module leaves out.
ForeignWrite ==
  /\ foreign < MaxForeignWrites /\ foreign' = foreign + 1
  /\ Store(cluster) /\ handFresh' = FALSE
  /\ UNCHANGED <<pc, hand, snapshot, queued, plane, changes, faults>>

\* The operator restarts: the informer lists, and every object is queued.
Restart ==
  /\ pc # "idle" /\ Fault
  /\ cache' = cluster /\ stream' = <<>> /\ UNCHANGED cluster
  /\ Fail /\ UNCHANGED plane

\* The StatefulSet controller, OrderedReady: a missing pod is created from the
\* template once its predecessors are ready.
CreatePod(p) ==
  /\ sts.ver # Zero /\ pods[p].phase = "none"
  /\ \A q \in Ordinals : q < p => PodIsReady(q)
  /\ pods' = [pods EXCEPT ![p] = [phase |-> "init", ver |-> sts.ver, chown |-> sts.chown]]
  /\ UNCHANGED <<sts, stsReady, data, api, control, bounds>>

Outdated(p) == pods[p].ver # sts.ver \/ pods[p].chown # sts.chown

\* RollingUpdate: with every pod ready, the outdated one of highest ordinal goes.
RollPod(p) ==
  /\ ReadyPods = Ordinals /\ Outdated(p)
  /\ \A q \in Ordinals : q > p => ~Outdated(q)
  /\ pods' = [pods EXCEPT ![p].phase = "terminating"]
  /\ UNCHANGED <<sts, stsReady, data, api, control, bounds>>

RemovePod(p) ==
  /\ pods[p].phase = "terminating"
  /\ pods' = [pods EXCEPT ![p] = Absent]
  /\ UNCHANGED <<sts, stsReady, data, api, control, bounds>>

\* The pod's node is lost; its volume is not.
LosePod(p) ==
  /\ pods[p].phase \in {"running", "ready"} /\ Fault
  /\ pods' = [pods EXCEPT ![p] = Absent]
  /\ UNCHANGED <<sts, stsReady, data, api, control>>

\* The owner of the files once the init containers of pod p have run.
OwnerAfterInit(p) ==
  IF data[p].ver = Zero THEN MysqlUID(pods[p].ver)
  ELSE IF pods[p].chown THEN 1001 ELSE data[p].owner

\* mysqld opens files of its own line or upgrades those of the line below.
CanOpen(p) ==
  \/ data[p].ver = Zero
  \/ ~LT(pods[p].ver, data[p].ver) /\ Line(pods[p].ver) <= Line(data[p].ver) + 1

\* A mysqld running as UID 1001 cannot write files owned by UID 999.
CanWrite(p) == MysqlUID(pods[p].ver) = 1001 => OwnerAfterInit(p) = 1001

\* The init containers complete and mysqld comes up, upgrading its files.
StartMysqld(p) ==
  /\ pods[p].phase = "init" /\ CanOpen(p) /\ CanWrite(p)
  /\ pods' = [pods EXCEPT ![p].phase = "running"]
  /\ data' = [data EXCEPT ![p] = [ver |-> pods[p].ver, owner |-> OwnerAfterInit(p)]]
  /\ UNCHANGED <<sts, stsReady, api, control, bounds>>

\* The node is configured and its readiness probe passes.
BecomeReady(p) ==
  /\ pods[p].phase = "running"
  /\ pods' = [pods EXCEPT ![p].phase = "ready"]
  /\ UNCHANGED <<sts, stsReady, data, api, control, bounds>>

\* The StatefulSet controller reports; the change is a watch event.
ReportStatus ==
  /\ stsReady # Cardinality(ReadyPods)
  /\ stsReady' = Cardinality(ReadyPods) /\ queued' = TRUE
  /\ UNCHANGED <<sts, pods, data, api, pc, hand, handFresh, snapshot, bounds>>

-----------------------------------------------------------------------------
ReconcileStep ==
  \/ Begin \/ SkipBackfill \/ BackfillHolds \/ (\E v \in Versions : Backfill(v))
  \/ CheckBlocked \/ CheckPasses \/ Hold \/ Sync
  \/ AdvanceNothing \/ (\E v \in Versions : Advance(v)) \/ Finish

PodStep(p) ==
  CreatePod(p) \/ RollPod(p) \/ RemovePod(p) \/ StartMysqld(p) \/ BecomeReady(p)

FaultStep ==
  \/ BackfillQueryFails \/ SyncFails \/ AdvanceQueryFails \/ Restart
  \/ \E p \in Ordinals : LosePod(p)

Next ==
  \/ ReconcileStep \/ Deliver \/ Resync \/ ReportStatus
  \/ \E p \in Ordinals : PodStep(p)
  \/ \E v \in Versions : SetVersion(v)
  \/ ForeignWrite \/ FaultStep

\* A cluster that runs version v everywhere, with its applied version recorded
\* as a or, before the operator recorded any, as Zero.
Running(v, a) ==
  /\ cluster = [spec |-> v, applied |-> a, blocked |-> FALSE, readyNodes |-> Replicas]
  /\ sts = [ver |-> v, chown |-> FALSE] /\ stsReady = Replicas
  /\ pods = [p \in Ordinals |-> [phase |-> "ready", ver |-> v, chown |-> FALSE]]
  /\ data = [p \in Ordinals |-> [ver |-> v, owner |-> MysqlUID(v)]]

Quiet ==
  /\ stream = <<>> /\ cache = cluster
  /\ pc = "idle" /\ hand = cluster /\ snapshot = cluster
  /\ handFresh = FALSE /\ queued = TRUE
  /\ changes = 0 /\ foreign = 0 /\ faults = 0

Init == (\E v \in Versions : Running(v, v)) /\ Quiet
LegacyInit == (\E v \in Versions : Running(v, Zero)) /\ Quiet

\* Every component keeps running; the user, the other writers and the faults
\* owe nothing.
Fairness ==
  /\ WF_vars(ReconcileStep) /\ WF_vars(Deliver) /\ WF_vars(Resync)
  /\ WF_vars(ReportStatus) /\ \A p \in Ordinals : WF_vars(PodStep(p))

Spec == Init /\ [][Next]_vars /\ Fairness
LegacySpec == LegacyInit /\ [][Next]_vars /\ Fairness
-----------------------------------------------------------------------------
(* Properties.                                                             *)

\* The pod template never runs a version outside the LTS line SQL confirmed
\* for the data (status.appliedMysqlVersion) and the next one, although
\* Reconcile computes it from a copy of the cluster that may be stale.
TemplateOneLine ==
  cluster.applied # Zero =>
    Line(sts.ver) \in {Line(cluster.applied), Line(cluster.applied) + 1}

\* Why TemplateOneLine holds: a copy of the cluster, cached, in flight or in
\* Reconcile's hands, is at most one recorded line behind, and then asks for
\* exactly the line recorded since; and a copy that may still be written back
\* agrees with every other copy on the versions.
Copies == {cache} \cup {stream[i] : i \in 1..Len(stream)}
NotBehind(c) ==
  /\ c.applied # Zero
  /\ \/ Line(c.applied) = Line(cluster.applied)
     \/ Line(c.applied) + 1 = Line(cluster.applied) /\ Line(c.spec) = Line(cluster.applied)
SameVersions(c) == c.spec = cluster.spec /\ c.applied = cluster.applied
Deciding == {"backfill", "check", "hold", "sync", "advance"}

\* The stored cluster is the last version on its way to the informer.
StreamEndsAtCluster ==
  IF stream = <<>> THEN cache = cluster ELSE stream[Len(stream)] = cluster

CopiesAgree ==
  /\ cluster.applied # Zero /\ sts.ver # Zero
  /\ StreamEndsAtCluster
  /\ \A c \in Copies : NotBehind(c)
  /\ pc \in Deciding => NotBehind(hand)
  /\ pc \in {"sync", "advance"} =>
       Line(hand.spec) \in {Line(hand.applied), Line(hand.applied) + 1}
  /\ handFresh /\ pc \in Deciding \cup {"finish"} => SameVersions(hand)
  /\ handFresh /\ pc \in Deciding => \A c \in Copies : SameVersions(c)

\* mysql-datadir-chown is dropped from the template as soon as 8.4 is recorded
\* as applied; even so no 8.4 mysqld is started on files still owned by UID 999.
ChownBeforeStart ==
  \A p \in Ordinals : pods[p].phase = "init" /\ CanOpen(p) => CanWrite(p)

\* EnsureChecked's "waiting for MySQL data-plane version" branch is never
\* taken: the backfill before it has recorded a version or held the rollout.
CheckNeverHolds == pc = "check" => ~CheckHolds(hand)

\* status.appliedMysqlVersion, once recorded, is never erased, never goes back
\* to an older LTS line and never jumps over one.
AppliedOneLineAtATime ==
  [][cluster.applied # Zero =>
       /\ cluster'.applied # Zero
       /\ Line(cluster'.applied) \in {Line(cluster.applied), Line(cluster.applied) + 1}]_vars

\* The rollout implements RolloutContract: the line recorded as applied only ever
\* becomes the line the template has at that moment, and the template only takes
\* the recorded line or the next, although both are decided on a copy.
Contract == INSTANCE RolloutContract
              WITH recorded <- Line(cluster.applied), offered <- Line(sts.ver)
ImplementsContract == Contract!Spec

\* The template of a cluster that already serves data is not moved before the
\* version of that data has been recorded (the legacy backfill).
TemplateHeldForBackfill ==
  [][cluster.applied = Zero => sts'.ver = sts.ver]_vars

\* A version change along a valid path is recorded as applied, unless the user
\* changes the version again.
UpgradeCompletes ==
  \A v \in Versions :
    (cluster.spec = v /\ cluster.applied # Zero /\ ValidateUpgradePath(cluster.applied, v))
      ~> (cluster.applied = v \/ cluster.spec # v)

\* A skipped line or a move to an older line is reported as UpgradeBlocked and
\* the template settles on the applied version, unless the user corrects it.
InvalidPathHeld ==
  PathInvalid(cluster)
    ~> (~PathInvalid(cluster) \/ (cluster.blocked /\ sts.ver = cluster.applied))

\* A legacy cluster gets its applied version recorded.
AppliedRecorded == <>(cluster.applied # Zero)
=============================================================================
