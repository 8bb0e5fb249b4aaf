------------------------------ MODULE NodeData ------------------------------
(***************************************************************************)
(* One pod of the StatefulSet and its volume, from an empty disk to a      *)
(* configured server:                                                      *)
(*   - the init container clone-and-init (appclone.go, appconf.go), which  *)
(*     fills the volume and writes the init-file;                          *)
(*   - mysqld, which runs the init-file at every start and keeps the       *)
(*     operator's status table on the volume;                              *)
(*   - the node controller (node_controller.go, sql.go), which sets        *)
(*     GTID_PURGED and the replication source and marks the node ready.    *)
(*                                                                         *)
(* Each may stop between any two steps: the kubelet restarts a container,  *)
(* with the conf directory kept, or the pod, with a new one.  As sql.go    *)
(* says, mysqld answers while the init-file is still running, once the     *)
(* status table is there.  Who may write (READ_ONLY, SUPER_READ_ONLY) is   *)
(* the subject of the module Failover, as is a change of the master.       *)
(***************************************************************************)
EXTENDS Naturals

CONSTANTS
  MaxFaults \* bound: failed commands and calls, containers and pods that stop, services and
            \* failovers that come or go

ASSUME NodeDataAssumption == MaxFaults \in Nat

VARIABLES
  first, bucket,      \* is it pod 0, and is there an initBucketURL
  master, skip,       \* is it the cluster's master, and has the cluster the skip annotation
  services, failover, \* the services that answer; a failover is in progress
  data, cloned,       \* what the volume holds; the whole of a backup has been received on it
  status,             \* the status table on it
  source, gtids,      \* whom the server replicates from; "whole" or "cleared" executed GTIDs
  ipc, existed,       \* the init container: place, cfg.ExistsMySQLData
  initFile,           \* operator-init.sql, in the pod's conf directory
  mysqld,             \* "down", "init" while the init-file runs, "up"
  npc, queued,        \* the node controller: place, the pod waits for it
  initialized,        \* the pod's NodeInitialized condition
  uncleaned,          \* history: an attempt to clone left its files behind
  spanned,            \* history: mysqld has stopped between two calls that configure it
  served,             \* history: a server on this volume has been marked configured ("yes") and
                      \* its status table dropped since ("dropped")
  faults              \* how much of the bound is used

settings == <<first, bucket, master, skip>>
world    == <<services, failover>>
volume   == <<data, cloned, status, source, gtids>>
init     == <<ipc, existed, initFile, uncleaned>>
node     == <<npc, queued, initialized, served, spanned>>
vars == <<settings, world, volume, init, mysqld, node, faults>>

\* "debris" is what a clone leaves before the directory mysql appears, "partial" after it.
Data == {"empty", "debris", "partial", "unprepared", "complete"}
\* The rows configured, init_file_complete, backup_gtid_purged and set_gtid_purged.
Status == [configured : {"none", "pending", "done"}, complete : BOOLEAN,
           backup : BOOLEAN, purged : {"none", "set", "skipped"}]
NoStatus == [configured |-> "none", complete |-> FALSE, backup |-> FALSE, purged |-> "none"]
\* Does the file drop the status table, reset replication, record the backup's GTIDs?
InitFile == [drop : BOOLEAN, reset : BOOLEAN, gtid : BOOLEAN]
NoInitFile == [drop |-> FALSE, reset |-> FALSE, gtid |-> FALSE]

TypeOK ==
  /\ first \in BOOLEAN /\ bucket \in BOOLEAN /\ master \in BOOLEAN /\ skip \in BOOLEAN
  /\ failover \in BOOLEAN /\ cloned \in BOOLEAN /\ existed \in BOOLEAN /\ uncleaned \in BOOLEAN
  /\ queued \in BOOLEAN /\ initialized \in BOOLEAN /\ spanned \in BOOLEAN
  /\ served \in {"no", "yes", "dropped"} /\ services \subseteq {"replicas", "master"}
  /\ data \in Data /\ status \in Status /\ initFile \in InitFile
  /\ source \in {"none", "inherited", "cluster"} /\ gtids \in {"whole", "cleared"}
  /\ ipc \in {"start", "replicas", "master", "last", "stream", "bucket", "prepare", "config", "done"}
  /\ mysqld \in {"down", "init", "up"}
  /\ npc \in {"idle", "wait", "complete", "refresh", "check", "skip", "reset", "purge", "record",
              "source", "mark", "failed", "report"}
  /\ faults \in 0..MaxFaults

Fault == faults < MaxFaults /\ faults' = faults + 1

-----------------------------------------------------------------------------
(* The init container.  A failure ends the process and the kubelet starts  *)
(* it again.                                                               *)

InitStep(from, to) ==
  /\ ipc = from /\ ipc' = to
  /\ UNCHANGED <<settings, world, mysqld, npc, initialized, served, spanned>>

\* checkIfDataExists: the directory mysql is there.
checkIfDataExists == data \notin {"empty", "debris"}

\* NewConfig: the one look at the volume that the whole process goes by.
NewConfig ==
  /\ existed' = checkIfDataExists
  /\ InitStep("start", IF existed' THEN "config" ELSE "replicas")
  /\ UNCHANGED <<volume, initFile, uncleaned, queued, faults>>

ShouldCloneFromBucket == ~existed /\ first /\ bucket

\* isServiceAvailable, for the replicas and then for the master.
Probe(service, next) ==
  /\ InitStep(service, IF service \in services THEN "stream" ELSE next)
  /\ UNCHANGED <<volume, existed, initFile, uncleaned, queued, faults>>

\* No service answers: the bucket, an empty instance on pod 0, or an error.
LastResort ==
  /\ InitStep("last", IF ShouldCloneFromBucket THEN "bucket"
                      ELSE IF first THEN "config" ELSE "start")
  /\ UNCHANGED <<volume, existed, initFile, uncleaned, queued, faults>>

\* A whole stream is received and extracted.  What was a replica brings its
\* replication settings along.
Received(from) ==
  /\ InitStep(from, "prepare")
  /\ data' = "unprepared" /\ cloned' = TRUE /\ source' \in {"none", "inherited"}
  /\ UNCHANGED <<gtids, status, existed, initFile, uncleaned, queued, faults>>

\* Mutant: a failed clone leaves what it has received.
CloneFailsUncleaned ==
  /\ Fault /\ InitStep("stream", "start") /\ data' = "partial"
  /\ UNCHANGED <<cloned, status, source, gtids, existed, initFile, uncleaned, queued>>

\* cloneFromSource fails and cleans the data directory.
CloneFails ==
  /\ Fault /\ InitStep("stream", "start") /\ data' = "empty"
  /\ UNCHANGED <<cloned, status, source, gtids, existed, initFile, uncleaned, queued>>

\* The process is killed while it receives, or a clone from the bucket fails.
CloneInterrupted ==
  /\ Fault
  /\ InitStep("stream", "start") \/ InitStep("bucket", "start")
  /\ data' \in {"debris", "partial"} /\ uncleaned' = TRUE
  /\ UNCHANGED <<cloned, status, source, gtids, existed, initFile, queued>>

xtrabackupPrepare ==
  /\ InitStep("prepare", "config") /\ data' = "complete"
  /\ UNCHANGED <<cloned, status, source, gtids, existed, initFile, uncleaned, queued, faults>>

xtrabackupPrepareFails ==
  /\ Fault /\ InitStep("prepare", "start") /\ uncleaned' = TRUE
  /\ UNCHANGED <<volume, existed, initFile, queued>>

\* The status table is not part of a clone (--tables-exclude), so its file is
\* missing until mysqld has run on the volume.
StatusFileExists == status.configured # "none"

\* xtrabackup_binlog_info, which the GTIDs are read from, is part of every clone
\* and stays.
readPurgedGTID == cloned

initFileQuery ==
  [drop  |-> ~StatusFileExists,
   reset |-> ShouldCloneFromBucket,
   gtid  |-> readPurgedGTID]

\* RunConfigCommand; the pod is running when the init containers are done.
RunConfigCommand ==
  /\ InitStep("config", "done") /\ initFile' = initFileQuery /\ queued' = TRUE
  /\ UNCHANGED <<volume, existed, uncleaned, faults>>

RunConfigCommandFails ==
  /\ Fault /\ InitStep("config", "start")
  /\ UNCHANGED <<volume, existed, initFile, uncleaned, queued>>

Initializing == {"check", "skip", "reset", "purge", "record", "source", "mark"}

\* The calls of initializeMySQL connect one by one; the statements that set
\* GTID_PURGED have one connection, which breaks.
Stopped ==
  /\ mysqld' = "down"
  /\ IF npc \in {"purge", "record"}
     THEN npc' = "failed" /\ UNCHANGED spanned
     ELSE UNCHANGED npc /\ spanned' = (spanned \/ npc \in {"refresh"} \cup Initializing)

\* The pod is deleted and created again: the volume stays, the conf directory
\* and what runs in the pod do not.
PodRestarts ==
  /\ Fault
  /\ ipc' = "start" /\ existed' = FALSE /\ initFile' = NoInitFile
  /\ IF ipc = "stream" \/ ipc = "bucket"
     THEN data' \in {"debris", "partial"} /\ uncleaned' = TRUE
     ELSE data' = data /\ uncleaned' = (uncleaned \/ ipc = "prepare")
  /\ Stopped
  /\ UNCHANGED <<settings, world, cloned, status, source, gtids, queued, initialized, served>>

-----------------------------------------------------------------------------
(* mysqld and what surrounds the pod.                                      *)

\* The entrypoint makes an empty instance of an empty directory; the first
\* statements of the init-file leave a status table with a pending row.
MysqldStarts ==
  /\ ipc = "done" /\ mysqld = "down" /\ mysqld' = "init"
  /\ data # "debris" /\ data' = (IF data = "empty" THEN "complete" ELSE data)
  /\ status' = (IF initFile.drop THEN [NoStatus EXCEPT !.configured = "pending"]
                ELSE [status EXCEPT !.configured = "pending"])
  /\ served' = (IF initFile.drop /\ served = "yes" THEN "dropped" ELSE served)
  /\ queued' = TRUE
  /\ UNCHANGED <<settings, world, cloned, source, gtids, init, npc, initialized, spanned, faults>>

\* The rest of the init-file.
InitFileEnds ==
  /\ mysqld = "init" /\ mysqld' = "up"
  /\ status' = [configured |-> status.configured, complete |-> TRUE,
                backup |-> status.backup \/ initFile.gtid, purged |-> status.purged]
  /\ source' = (IF initFile.reset THEN "none" ELSE source)
  /\ UNCHANGED <<settings, world, data, cloned, gtids, init, node, faults>>

\* The container stops, the kubelet sees it and starts it again.
MysqldStops ==
  /\ mysqld # "down" /\ Fault
  /\ Stopped /\ queued' = TRUE
  /\ UNCHANGED <<settings, world, volume, init, initialized, served>>

\* Other pods come and go, and so do failovers.
WorldChanges ==
  /\ Fault
  /\ services' \in SUBSET {"replicas", "master"} /\ failover' \in BOOLEAN
  /\ UNCHANGED <<settings, volume, init, mysqld, node>>

-----------------------------------------------------------------------------
(* The node controller: Reconcile, one statement after the other.          *)

Up == mysqld # "down"

NodeStep(from, to) ==
  /\ npc = from /\ npc' = to
  /\ UNCHANGED <<settings, world, data, cloned, init, mysqld, faults>>

Begin ==
  /\ queued /\ queued' = FALSE /\ NodeStep("idle", "wait")
  /\ UNCHANGED <<status, source, gtids, initialized, served, spanned>>

Wait ==
  /\ Up /\ NodeStep("wait", "complete")
  /\ UNCHANGED <<status, source, gtids, queued, initialized, served, spanned>>

\* Mutant: the status table is enough.
TableExists == status.configured # "none"

Configured == status.configured = "done"
isInitFileComplete == status.complete \/ Configured

WaitForOperatorStatusTable ==
  /\ Up /\ isInitFileComplete /\ NodeStep("complete", "refresh")
  /\ UNCHANGED <<status, source, gtids, queued, initialized, served, spanned>>

\* The two minutes are over, or a call fails that leaves no trace.
TimesOut ==
  /\ ~Up \/ (npc = "complete" /\ ~isInitFileComplete)
  /\ NodeStep("wait", "idle") \/ NodeStep("complete", "idle")
  /\ queued' = TRUE
  /\ UNCHANGED <<status, source, gtids, initialized, served, spanned>>

\* Mutant: a failover is waited out without asking to come back.
RefreshQuietly ==
  /\ NodeStep("refresh", IF failover THEN "idle" ELSE "check")
  /\ UNCHANGED <<status, source, gtids, queued, initialized, served, spanned>>

\* refreshCluster: a failover in progress is an error, to be retried.
Refresh ==
  /\ NodeStep("refresh", IF failover THEN "idle" ELSE "check")
  /\ queued' = (queued \/ failover)
  /\ UNCHANGED <<status, source, gtids, initialized, served, spanned>>

\* initializeMySQL: IsConfigured.
IsConfigured ==
  /\ Up /\ NodeStep("check", IF Configured THEN "report" ELSE "skip")
  /\ UNCHANGED <<status, source, gtids, queued, initialized, served, spanned>>

MarkSetGTIDPurged ==
  /\ Up /\ NodeStep("skip", "reset")
  /\ status' = (IF skip THEN [status EXCEPT !.purged = "skipped"] ELSE status)
  /\ UNCHANGED <<source, gtids, queued, initialized, served, spanned>>

\* Mutant: whether it was set before does not matter.
AlwaysPurge == status.backup

\* SetPurgedGTID: nothing is done twice, or without a backup.
ShouldPurge == status.purged = "none" /\ status.backup

\* Mutant: the row is written first.
RecordThenReset ==
  /\ Up /\ NodeStep("reset", IF ShouldPurge THEN "purge" ELSE "source")
  /\ gtids' = (IF ShouldPurge THEN "cleared" ELSE gtids)
  /\ status' = (IF ShouldPurge THEN [status EXCEPT !.purged = "set"] ELSE status)
  /\ UNCHANGED <<source, queued, initialized, served, spanned>>

\* RESET MASTER, SET GTID_PURGED and the row that records it: three statements,
\* of which only the last is transactional.
ResetMaster ==
  /\ Up /\ NodeStep("reset", IF ShouldPurge THEN "purge" ELSE "source")
  /\ gtids' = (IF ShouldPurge THEN "cleared" ELSE gtids)
  /\ UNCHANGED <<status, source, queued, initialized, served, spanned>>

SetGTIDPurged ==
  /\ Up /\ NodeStep("purge", "record") /\ gtids' = "whole"
  /\ UNCHANGED <<status, source, queued, initialized, served, spanned>>

RecordSetGTIDPurged ==
  /\ Up /\ NodeStep("record", "source") /\ status' = [status EXCEPT !.purged = "set"]
  /\ UNCHANGED <<source, gtids, queued, initialized, served, spanned>>

ChangeMasterTo ==
  /\ Up /\ NodeStep("source", "mark") /\ source' = (IF master THEN source ELSE "cluster")
  /\ UNCHANGED <<status, gtids, queued, initialized, served, spanned>>

MarkConfigurationDone ==
  /\ Up /\ NodeStep("mark", "report")
  /\ status' = [status EXCEPT !.configured = "done"] /\ served' = (IF served = "no" THEN "yes" ELSE served)
  /\ UNCHANGED <<source, gtids, queued, initialized, spanned>>

\* A statement fails.
InitializeFails ==
  /\ npc \in Initializing /\ npc' = "failed"
  /\ \/ ~Up /\ UNCHANGED faults
     \/ Fault
  /\ UNCHANGED <<settings, world, volume, init, mysqld, queued, initialized, served, spanned>>

\* updatePodStatusCondition, updatePod: a failure is reported and retried.  A
\* changed condition of a pod that is not ready is an event.
Report ==
  /\ NodeStep("failed", "idle") \/ NodeStep("report", "idle")
  /\ initialized' = (npc = "report")
  /\ queued' = (queued \/ npc = "failed")
  /\ UNCHANGED <<status, source, gtids, served, spanned>>

\* The pod has changed since it was read, the API server fails, or the operator
\* is restarted.
ReconcileFails ==
  /\ npc # "idle" /\ npc' = "idle" /\ queued' = TRUE /\ Fault
  /\ UNCHANGED <<settings, world, volume, init, mysqld, initialized, served, spanned>>

-----------------------------------------------------------------------------
\* A pod with an empty volume.  Pod 0 is the master of a new cluster, and need not
\* be when its volume was lost; no other pod is the master.
Init ==
  /\ first \in BOOLEAN /\ bucket \in BOOLEAN /\ skip \in BOOLEAN
  /\ master \in BOOLEAN /\ (master => first)
  /\ services \in SUBSET {"replicas", "master"} /\ failover = FALSE
  /\ data = "empty" /\ cloned = FALSE /\ status = NoStatus
  /\ source = "none" /\ gtids = "whole"
  /\ ipc = "start" /\ existed = FALSE /\ initFile = NoInitFile
  /\ mysqld = "down" /\ npc = "idle" /\ queued = FALSE /\ initialized = FALSE
  /\ uncleaned = FALSE /\ spanned = FALSE /\ served = "no"
  /\ faults = 0

InitContainer ==
  \/ NewConfig \/ Probe("replicas", "master") \/ Probe("master", "last") \/ LastResort
  \/ Received("stream") \/ Received("bucket") \/ xtrabackupPrepare \/ RunConfigCommand

Reconcile ==
  \/ Begin \/ Wait \/ WaitForOperatorStatusTable \/ TimesOut \/ Refresh
  \/ IsConfigured \/ MarkSetGTIDPurged \/ ResetMaster \/ SetGTIDPurged \/ RecordSetGTIDPurged
  \/ ChangeMasterTo \/ MarkConfigurationDone \/ Report
  \/ (~Up /\ InitializeFails)

Mysqld == MysqldStarts \/ InitFileEnds

Faults ==
  \/ CloneFails \/ CloneInterrupted \/ xtrabackupPrepareFails \/ RunConfigCommandFails
  \/ PodRestarts \/ MysqldStops \/ InitializeFails \/ ReconcileFails

Next == InitContainer \/ Mysqld \/ Reconcile \/ Faults \/ WorldChanges

\* The kubelet restarts containers and the controller works through its queue.
Fairness == WF_vars(InitContainer) /\ WF_vars(Mysqld) /\ WF_vars(Reconcile)

Spec == Init /\ [][Next]_vars /\ Fairness

-----------------------------------------------------------------------------
(* Properties.                                                             *)

\* A configured server has all of its data: a clone that failed is never taken
\* for data that was there before, and only pod 0 starts empty.  What is exempt
\* is what the code leaves behind: a clone that was killed, one from the bucket
\* that failed, and one whose preparation failed.
ServesWhole == Configured => uncleaned \/ (data = "complete" /\ (first \/ cloned))

\* RESET MASTER and SET GTID_PURGED are not atomic, yet no crash between them
\* leaves a configured server without its GTIDs.  Exempt, here and below, is a
\* server that was restarted while it was being configured and answers again in
\* time for the next call.
GtidsWhole == Configured /\ ~spanned => gtids = "whole"

\* A configured replica has the cluster's master as its source, though a server
\* that has not finished its init-file answers, and may reset it again.
ReplicaConfigured == Configured /\ ~master /\ ~spanned => source = "cluster"

\* A volume that has been in service keeps its GTIDs, unless its status table has
\* been dropped since.
KeepsHistory == [][gtids = "whole" /\ gtids' = "cleared" => served # "yes" \/ spanned]_vars

\* Whatever fails or restarts, a pod that has somewhere to get its data from comes
\* to serve.  Exempt is a volume with files on it that are not a database: nothing
\* removes them, and mysqld does not start on them.
ComesUp ==
  <>[](~failover /\ (first \/ services # {})) =>
    <>[](data = "debris" \/ (mysqld = "up" /\ Configured /\ initialized))

-----------------------------------------------------------------------------
(* What comments of the code say and the code does not do.                 *)

\* "first check if the GTID was set before": GTID_PURGED is set once on a volume.
PurgedOnce == [][gtids = "whole" /\ gtids' = "cleared" => served = "no"]_vars
=============================================================================
