------------------------------ MODULE Failover ------------------------------
(***************************************************************************)
(* Master failover of one MysqlCluster with a fixed number of replicas:    *)
(*   - the orchestrator controller, which every 5 s copies orchestrator's  *)
(*     topology into the cluster's status and sets nodes read-only or      *)
(*     writable (orchestrator_reconcile.go);                               *)
(*   - the node controller, which configures a mysqld that has come up     *)
(*     (node_controller.go);                                               *)
(*   - the pod syncers of the MysqlCluster controller, which label the     *)
(*     pods the services select by;                                        *)
(*   - orc-helper, which orchestrator runs before it recovers a master.    *)
(* Orchestrator itself, the kubelet and mysqld are the environment.        *)
(*                                                                         *)
(* Orchestrator answers with the current state of a server that is up and  *)
(* the last known state of one that is down, and gives up a recovery only  *)
(* when the failed master is back.  A call to a server that has crashed    *)
(* since it was decided on fails: a restart takes longer.  Left out: lag,  *)
(* maintenance, spec.readOnly, scaling, deletion, network partitions.      *)
(***************************************************************************)
EXTENDS Naturals, FiniteSets, Sequences

CONSTANTS
  Replicas,        \* spec.replicas
  LateSeen,        \* a dead master may have been seen less than 5 s ago
  MaxCrashes,      \* bound: mysqld crashes and pod deletions
  MaxHookFailures, \* bound: orc-helper calls that fail
  MaxFaults,       \* bound: other failed calls
  MaxLag           \* bound: cluster versions the informer may be behind

ASSUME FailoverAssumption ==
  /\ Replicas \in Nat \ {0} /\ LateSeen \in BOOLEAN
  /\ MaxCrashes \in Nat /\ MaxHookFailures \in Nat /\ MaxFaults \in Nat
  /\ MaxLag \in Nat \ {0}

VARIABLES
  cluster, stream, cache,  \* the stored cluster, its versions under way, the informer's
  node,      \* the mysqlds
  role,      \* the role label of each pod
  root,      \* the master of the topology orchestrator knows by the cluster's alias
  recovery,  \* how far orchestrator's recovery of a failed master is
  orc,       \* the orchestrator controller's Reconcile
  init,      \* the node controller's Reconcile
  label,     \* the pod syncers of the MysqlCluster controller's Reconcile
  crashes, hookFailures, faults \* how much of each bound is used

vars == <<cluster, stream, cache, node, role, root, recovery, orc, init, label,
          crashes, hookFailures, faults>>
api    == <<cluster, stream, cache>>
bounds == <<crashes, hookFailures, faults>>

Ordinals == 0..(Replicas - 1)
None == Replicas   \* no ordinal

\* status: the Master condition of each node ("None": not in status.nodes), the
\* FailoverInProgress and Ready conditions, readyNodes.
Cluster == [master : [Ordinals -> {"None", "True", "False", "Unknown"}],
            fip : BOOLEAN, ready : BOOLEAN, readyNodes : 0..Replicas]

NoStatus == [master |-> [n \in Ordinals |-> "None"], fip |-> FALSE, ready |-> FALSE, readyNodes |-> 0]

\* src: the configured replication source; repl: the replication threads run;
\* configured: the value in the operator's status table; settled: up long
\* enough (uptimeGraceTime) for its read-only flag to be touched.
Node == [up : BOOLEAN, src : Ordinals \cup {None}, repl : BOOLEAN, ro : BOOLEAN,
         configured : BOOLEAN, settled : BOOLEAN]

\* What one synchronisation has read from orchestrator; stale: neither recently
\* nor successfully checked.
View == [insts : SUBSET Ordinals, stale : SUBSET Ordinals, master : Ordinals \cup {None}, seen : BOOLEAN,
         ro : SUBSET Ordinals, repl : SUBSET Ordinals, settled : SUBSET Ordinals]
NoView == [insts |-> {}, stale |-> {}, master |-> None, seen |-> FALSE, ro |-> {}, repl |-> {},
           settled |-> {}]

TypeOK ==
  /\ cluster \in Cluster /\ cache \in Cluster /\ stream \in Seq(Cluster)
  /\ node \in [Ordinals -> Node]
  /\ role \in [Ordinals -> {"gone", "none", "master", "replica"}]
  /\ root \in Ordinals
  /\ recovery \in {"none", "detected", "pre", "go"}
  /\ orc \in [busy : BOOLEAN, hand : Cluster, fresh : BOOLEAN, view : View]
  /\ init \in [node : Ordinals \cup {None}, master : Ordinals]
  /\ label \in [busy : BOOLEAN, hand : Cluster, fresh : BOOLEAN,
                changed : BOOLEAN, todo : SUBSET Ordinals]
  /\ crashes \in 0..MaxCrashes /\ hookFailures \in 0..MaxHookFailures
  /\ faults \in 0..MaxFaults

-----------------------------------------------------------------------------
(* Writes of the MysqlCluster object.                                      *)

\* The API server stores c.  A copy read before is no longer current; the
\* writer's own copy is.
Store(c) ==
  /\ Len(stream) < MaxLag
  /\ cluster' = c /\ stream' = Append(stream, c)
  /\ UNCHANGED cache

Fault == faults < MaxFaults /\ faults' = faults + 1 /\ UNCHANGED <<crashes, hookFailures>>

Deliver ==
  /\ stream # <<>>
  /\ cache' = Head(stream) /\ stream' = Tail(stream)
  /\ UNCHANGED <<cluster, node, role, root, recovery, orc, init, label, bounds>>

PodReady(n) == node[n].up /\ node[n].configured
ReadyReplicas == Cardinality({n \in Ordinals : PodReady(n)})

\* Mutant: no host when no node is known to be the master.
GetMasterHostOrNone(c) ==
  IF \E n \in Ordinals : c.master[n] = "True"
  THEN CHOOSE n \in Ordinals : c.master[n] = "True" ELSE None

\* The last node whose Master condition is true, pod 0 when there is none.
GetMasterHost(c) ==
  LET masters == {n \in Ordinals : c.master[n] = "True"}
  IN IF masters = {} THEN 0 ELSE CHOOSE n \in masters : \A m \in masters : m <= n

-----------------------------------------------------------------------------
(* The orchestrator controller.                                            *)

IsCoMaster(n) == node[n].src # None /\ node[node[n].src].src = n

\* The end of the chain of sources from n, the other one for a co-master; None
\* when the chain leaves insts or comes back to a node it has visited.
getMasterForNode(insts, n) ==
  LET follow[k \in 0..Replicas] ==
        [m \in Ordinals |->
           IF node[m].src = None THEN m
           ELSE IF k = 0 \/ node[m].src \notin insts THEN None
           ELSE IF IsCoMaster(m) THEN node[m].src
           ELSE follow[k - 1][node[m].src]]
  IN follow[Replicas][n]

DetermineMaster(insts) ==
  IF \E m \in insts : \A n \in insts : getMasterForNode(insts, n) = m
  THEN CHOOSE m \in insts : \A n \in insts : getMasterForNode(insts, n) = m
  ELSE None

\* Orchestrator's answers: the instances of the topology under the alias, and
\* its writable master.
AliasCluster == {n \in Ordinals : getMasterForNode(Ordinals, n) = root}
AliasMaster == IF node[root].ro THEN None ELSE root

getFromOrchestrator ==
  LET m == DetermineMaster(AliasCluster)
  IN IF AliasMaster # None /\ m # None /\ AliasMaster # m THEN None
     ELSE IF AliasMaster # None THEN AliasMaster ELSE m

\* SecondsSinceLastSeen < 5 for the master.
MasterSeen(m) ==
  IF m = None THEN {FALSE}
  ELSE IF node[m].up THEN {TRUE}
  ELSE IF LateSeen THEN BOOLEAN ELSE {FALSE}

\* r.Get from the cache, then the queries of getFromOrchestrator.
OrcRead ==
  /\ ~orc.busy
  /\ \E seen \in MasterSeen(getFromOrchestrator), stale \in SUBSET {n \in AliasCluster : ~node[n].up} :
       orc' = [busy |-> TRUE, hand |-> cache, fresh |-> stream = <<>>,
               view |-> [insts |-> AliasCluster, stale |-> stale, master |-> getFromOrchestrator, seen |-> seen,
                         ro |-> {n \in AliasCluster : node[n].ro},
                         repl |-> {n \in AliasCluster : node[n].repl},
                         settled |-> {n \in AliasCluster : node[n].up /\ node[n].settled}]]
  /\ UNCHANGED <<api, node, role, root, recovery, init, label, bounds>>

\* markReadOnlyNodesInOrc: the nodes after the calls to orchestrator.
MarkReadOnlyNodes(c, v, n) ==
  IF c.fip \/ n \notin v.settled THEN node[n].ro
  ELSE IF n = v.master THEN (IF n \in v.ro THEN FALSE ELSE node[n].ro)
  ELSE (IF n \in v.ro THEN node[n].ro ELSE TRUE)

\* removeNodeConditionNotInOrc and updateNodesStatus.
UpdatedMaster(c, v) ==
  [n \in Ordinals |->
     IF n \in v.insts \ v.stale THEN (IF n = v.master THEN "True" ELSE "False")
     ELSE IF n \notin v.insts /\ c.master[n] = "None" THEN "None" ELSE "Unknown"]

updateClusterReadyStatus(c, v) ==
  /\ c.readyNodes = Replicas
  /\ \A n \in Ordinals : n \in v.insts \ v.stale /\ (n = v.master \/ n \in v.repl)
  /\ v.master # None

\* Mutant: the failover is taken for over as soon as a master is known.
UpdatedStatusHasty(c, v) ==
  [c EXCEPT !.master = UpdatedMaster(c, v), !.fip = @ /\ v.master = None,
            !.ready = updateClusterReadyStatus(c, v)]

\* Mutant: FailoverInProgress is never cleared.
UpdatedStatusKeepsFailover(c, v) ==
  [c EXCEPT !.master = UpdatedMaster(c, v), !.ready = updateClusterReadyStatus(c, v)]

\* FailoverInProgress is cleared once the master has been seen of late.
UpdatedStatus(c, v) ==
  [master |-> UpdatedMaster(c, v), fip |-> c.fip /\ ~(v.master # None /\ v.seen),
   ready |-> updateClusterReadyStatus(c, v), readyNodes |-> c.readyNodes]

\* Mutant: the status is written whatever the resource version.
OrcWriteBlindly(c) ==
  IF c = orc.hand THEN UNCHANGED <<api, label>>
  ELSE Store(c) /\ label' = [label EXCEPT !.fresh = FALSE]

\* The status is written when it has changed; a conflict is an error.
OrcWrite(c) ==
  \/ c = orc.hand /\ UNCHANGED <<api, label>>
  \/ c # orc.hand /\ orc.fresh /\ Store(c) /\ label' = [label EXCEPT !.fresh = FALSE]
  \/ c # orc.hand /\ ~orc.fresh /\ UNCHANGED <<api, label>>

OrcDone == [busy |-> FALSE, hand |-> NoStatus, fresh |-> FALSE, view |-> NoView]

\* The rest of Sync and the status update.  Discover changes nothing here:
\* orchestrator keeps every instance it has seen.
OrcAct ==
  /\ orc.busy
  /\ node' = [n \in Ordinals |->
                [node[n] EXCEPT !.ro = MarkReadOnlyNodes(orc.hand, orc.view, n)]]
  /\ OrcWrite(UpdatedStatus(orc.hand, orc.view))
  /\ orc' = OrcDone
  /\ UNCHANGED <<role, root, recovery, init, bounds>>

\* Calls to orchestrator fail (they are only logged), or the status update
\* does, or the operator restarts: some of the effects are missing.
OrcFails ==
  /\ orc.busy /\ Fault
  /\ \E failed \in SUBSET Ordinals :
       node' = [n \in Ordinals |->
                  IF n \in failed THEN node[n]
                  ELSE [node[n] EXCEPT !.ro = MarkReadOnlyNodes(orc.hand, orc.view, n)]]
  /\ OrcWrite(UpdatedStatus(orc.hand, orc.view)) \/ UNCHANGED <<api, label>>
  /\ orc' = OrcDone
  /\ UNCHANGED <<role, root, recovery, init>>

-----------------------------------------------------------------------------
(* The node controller, one pod at a time.                                 *)

Idle == [node |-> None, master |-> 0]

\* Mutant: a failover in progress does not delay the node.
NodeRefreshInFailover(n) ==
  /\ init = Idle /\ node[n].up /\ ~node[n].configured
  /\ init' = [node |-> n, master |-> GetMasterHost(cluster)]
  /\ UNCHANGED <<api, node, role, root, recovery, orc, label, bounds>>

\* A pod that runs and is not ready: once its mysqld answers, the cluster is
\* read from the API server; the node waits while a failover is in progress.
NodeRefresh(n) ==
  /\ init = Idle /\ node[n].up /\ ~node[n].configured
  /\ ~cluster.fip
  /\ init' = [node |-> n, master |-> GetMasterHost(cluster)]
  /\ UNCHANGED <<api, node, role, root, recovery, orc, label, bounds>>

\* The statements of initializeMySQL, in order: read-only, CHANGE MASTER TO and
\* START on a replica, the configured mark.
Initialized(n, m, steps) ==
  [up |-> node[n].up, settled |-> node[n].settled,
   ro |-> node[n].ro \/ steps >= 1,
   src |-> IF steps >= 2 /\ m # n THEN m ELSE node[n].src,
   repl |-> node[n].repl \/ (steps >= 3 /\ m # n),
   configured |-> node[n].configured \/ steps >= 4]

NodeInit ==
  /\ init # Idle
  /\ node' = [node EXCEPT ![init.node] = Initialized(init.node, init.master, 4)]
  /\ init' = Idle
  /\ UNCHANGED <<api, role, root, recovery, orc, label, bounds>>

\* A statement fails: the earlier ones have been executed.
NodeInitFails ==
  /\ init # Idle /\ Fault
  /\ \E done \in 0..3 :
       node' = [node EXCEPT ![init.node] = Initialized(init.node, init.master, done)]
  /\ init' = Idle
  /\ UNCHANGED <<api, role, root, recovery, orc, label>>

-----------------------------------------------------------------------------
(* The MysqlCluster controller: readyNodes and the role labels.            *)

\* The StatefulSet syncer has refreshed readyNodes; a pod syncer for every node
\* in the status follows.
LabelBegin ==
  /\ ~label.busy
  /\ label' = [busy |-> TRUE, hand |-> [cache EXCEPT !.readyNodes = ReadyReplicas],
               fresh |-> stream = <<>>, changed |-> cache.readyNodes # ReadyReplicas,
               todo |-> {n \in Ordinals : cache.master[n] # "None"}]
  /\ UNCHANGED <<api, node, role, root, recovery, orc, init, bounds>>

IsMaster(n) == label.hand.master[n] = "True"

\* Mutant: the pods are labelled in any order.
NextPodAny(n) == n \in label.todo

\* getPodSyncers: the replicas first, the master last.
NextPod(n) == n \in label.todo /\ (IsMaster(n) => \A m \in label.todo : IsMaster(m))

\* A pod that does not exist is passed over.
LabelPod(n) ==
  /\ label.busy /\ NextPod(n)
  /\ role' = [role EXCEPT ![n] = IF @ = "gone" THEN @
                                 ELSE IF IsMaster(n) THEN "master" ELSE "replica"]
  /\ label' = [label EXCEPT !.todo = @ \ {n}]
  /\ UNCHANGED <<api, node, root, recovery, orc, init, bounds>>

\* The deferred status update; a conflict is only logged.
LabelWrite ==
  \/ ~(label.changed /\ label.fresh) /\ UNCHANGED <<api, orc>>
  \/ label.changed /\ label.fresh /\ Store(label.hand) /\ orc' = [orc EXCEPT !.fresh = FALSE]

LabelDone == [busy |-> FALSE, hand |-> NoStatus, fresh |-> FALSE, changed |-> FALSE, todo |-> {}]

LabelEnd ==
  /\ label.busy /\ label.todo = {}
  /\ LabelWrite /\ label' = LabelDone
  /\ UNCHANGED <<node, role, root, recovery, init, bounds>>

\* A pod syncer returns an error.
LabelFails ==
  /\ label.busy /\ label.todo # {} /\ Fault
  /\ LabelWrite /\ label' = LabelDone
  /\ UNCHANGED <<node, role, root, recovery, init>>

-----------------------------------------------------------------------------
(* Orchestrator's recovery and orc-helper.                                 *)

\* The master is down and a replica saw it go.
Detect ==
  /\ recovery = "none" /\ ~node[root].up
  /\ \E n \in Ordinals : node[n].up /\ node[n].src = root /\ node[n].repl
  /\ recovery' = "detected"
  /\ UNCHANGED <<api, node, role, root, orc, init, label, bounds>>

Hooked == [detected |-> "pre", pre |-> "go"]

\* The OnFailureDetection and the PreFailover hook: UpdateClusterFailoverCond.
Hook ==
  /\ recovery \in DOMAIN Hooked
  /\ recovery' = Hooked[recovery]
  /\ IF cluster.fip THEN UNCHANGED <<api, orc, label>>
     ELSE /\ Store([cluster EXCEPT !.fip = TRUE])
          /\ orc' = [orc EXCEPT !.fresh = FALSE] /\ label' = [label EXCEPT !.fresh = FALSE]
  /\ UNCHANGED <<node, role, root, init, bounds>>

\* Its update is refused, or it cannot run: "|| true".
HookFails ==
  /\ recovery \in DOMAIN Hooked
  /\ hookFailures < MaxHookFailures /\ hookFailures' = hookFailures + 1
  /\ recovery' = Hooked[recovery]
  /\ UNCHANGED <<api, node, role, root, orc, init, label, crashes, faults>>

\* A replica is made a writable master and the others are put below it.
Promoted(n) ==
  [up |-> TRUE, src |-> None, repl |-> FALSE, ro |-> FALSE,
   configured |-> node[n].configured, settled |-> node[n].settled]

Promote(b) ==
  /\ recovery = "go"
  /\ node[b].up /\ node[b].src = root /\ node[b].repl
  /\ node' = [n \in Ordinals |->
                IF n = b THEN Promoted(n)
                ELSE IF node[n].up /\ node[n].src = root THEN [node[n] EXCEPT !.src = b]
                ELSE node[n]]
  /\ root' = b /\ recovery' = "none"
  /\ UNCHANGED <<api, role, orc, init, label, bounds>>

-----------------------------------------------------------------------------
(* The kubelet and mysqld.                                                 *)

\* mysqld dies, alone or with its pod; calls under way to it fail.
Crash(n) ==
  /\ node[n].up /\ crashes < MaxCrashes /\ crashes' = crashes + 1
  /\ node' = [node EXCEPT ![n].up = FALSE]
  /\ role' \in {role, [role EXCEPT ![n] = "gone"]}
  /\ orc' = [orc EXCEPT !.view.settled = @ \ {n}]
  /\ init' = IF init.node = n THEN Idle ELSE init
  /\ UNCHANGED <<api, root, recovery, label, hookFailures, faults>>

\* Mutant: the init-file does not set the server read-only.
StartedWritable(n) ==
  [node[n] EXCEPT !.up = TRUE, !.repl = FALSE, !.configured = FALSE, !.settled = FALSE]

\* mysqld comes up with skip-slave-start and runs the init-file.
Started(n) ==
  [up |-> TRUE, src |-> node[n].src, repl |-> FALSE, ro |-> TRUE,
   configured |-> FALSE, settled |-> FALSE]

Start(n) ==
  /\ ~node[n].up
  /\ node' = [node EXCEPT ![n] = Started(n)]
  /\ role' = [role EXCEPT ![n] = IF @ = "gone" THEN "none" ELSE @]
  /\ recovery' = IF n = root THEN "none" ELSE recovery
  /\ UNCHANGED <<api, root, orc, init, label, bounds>>

Settle(n) ==
  /\ node[n].up /\ ~node[n].settled
  /\ node' = [node EXCEPT ![n].settled = TRUE]
  /\ UNCHANGED <<api, role, root, recovery, orc, init, label, bounds>>

-----------------------------------------------------------------------------
OperatorStep ==
  \/ OrcRead \/ OrcAct \/ NodeInit \/ LabelBegin \/ LabelEnd
  \/ \E n \in Ordinals : NodeRefresh(n) \/ LabelPod(n)
OrchestratorStep == Detect \/ Hook \/ \E b \in Ordinals : Promote(b)
FaultStep == OrcFails \/ NodeInitFails \/ LabelFails \/ HookFails \/ \E n \in Ordinals : Crash(n)

Next ==
  \/ OperatorStep \/ OrchestratorStep \/ FaultStep \/ Deliver
  \/ \E n \in Ordinals : Start(n) \/ Settle(n)

\* A cluster that runs, with pod 0 its master.
Init ==
  /\ cluster = [master |-> [n \in Ordinals |-> IF n = 0 THEN "True" ELSE "False"],
                fip |-> FALSE, ready |-> TRUE, readyNodes |-> Replicas]
  /\ stream = <<>> /\ cache = cluster
  /\ node = [n \in Ordinals |->
               [up |-> TRUE, src |-> IF n = 0 THEN None ELSE 0, repl |-> n # 0, ro |-> n # 0,
                configured |-> TRUE, settled |-> TRUE]]
  /\ role = [n \in Ordinals |-> IF n = 0 THEN "master" ELSE "replica"]
  /\ root = 0 /\ recovery = "none"
  /\ orc = OrcDone /\ init = Idle
  /\ label = LabelDone
  /\ crashes = 0 /\ hookFailures = 0 /\ faults = 0

\* Every controller, the informer, orchestrator and the kubelet keep running.
Fairness ==
  /\ WF_vars(OrcRead \/ OrcAct) /\ WF_vars(Deliver)
  /\ WF_vars(NodeInit) /\ \A n \in Ordinals : SF_vars(NodeRefresh(n))
  /\ WF_vars(LabelBegin \/ LabelEnd \/ \E n \in Ordinals : LabelPod(n))
  /\ WF_vars(OrchestratorStep)
  /\ \A n \in Ordinals : WF_vars(Start(n)) /\ WF_vars(Settle(n))

Spec == Init /\ [][Next]_vars /\ Fairness

-----------------------------------------------------------------------------
(* Properties.                                                             *)

\* The comment at getPodSyncers: never two pods with the master label, although
\* the labels are written one by one, from copies of the status that may be
\* stale, and a pass may stop half way.
OneMasterLabel == Cardinality({n \in Ordinals : role[n] = "master"}) <= 1

\* A server that returns after a failover is not made writable beside the new
\* master by an operator that still takes it for the master.
OneWriter == Cardinality({n \in Ordinals : node[n].up /\ ~node[n].ro}) <= 1

\* While orchestrator fails a master over, FailoverInProgress is set: no writer
\* of the status erases what orc-helper wrote.
FailoverVisible == recovery = "go" => cluster.fip

\* What GetMasterHost says it returns, where it matters most: a server that came
\* up is told to follow the master of the topology, not a former one or the
\* pod 0 that stands for "not known".
ConfiguredFromMaster == [][init = Idle /\ init' # Idle => init'.master = root]_vars

\* A configured server is the master or has a source: the former master does not
\* come back as a second, independent one.
NoStrayMaster ==
  \A n \in Ordinals : PodReady(n) /\ n # root => node[n].src # None

\* After the last failure the cluster is whole again: the master writable,
\* labelled and the only one, the replicas replicating, and Ready reported.
Whole ==
  /\ node[root].up /\ ~node[root].ro /\ role[root] = "master"
  /\ \A n \in Ordinals : node[n].up /\ node[n].configured /\ (n # root => node[n].repl)
  /\ cluster.ready /\ ~cluster.fip
Recovers == <>[]Whole
=============================================================================
