--------------------------- MODULE NodeDataProofs ---------------------------
(***************************************************************************)
(* Proofs about NodeData for any number of faults: containers, pods and    *)
(* processes may stop as often as they like.                               *)
(***************************************************************************)
EXTENDS NodeData, TLAPS

Cloning == {"replicas", "master", "last", "stream", "bucket"}

-----------------------------------------------------------------------------
(* The parts of the inductive invariant.                                   *)

\* mysqld only runs when the init containers are done, and has then written its
\* status table; a volume that was never served has none.
Stages ==
  /\ ipc # "done" => mysqld = "down"
  /\ mysqld # "down" => status.configured # "none"
  /\ data \in {"empty", "debris"} => status = NoStatus
  /\ ipc \in Cloning \cup {"prepare"} => status = NoStatus /\ ~existed
  /\ ipc = "config" /\ ~existed => status = NoStatus
  /\ served = "yes" => status.configured # "none"

\* What the volume holds as long as every failed clone has been cleaned up.
Cleaned ==
  /\ ipc = "prepare" => cloned
  /\ ~uncleaned =>
       /\ data \in {"empty", "unprepared", "complete"}
       /\ ipc = "prepare" <=> data = "unprepared"
       /\ ipc \in Cloning => data = "empty"
       /\ ipc \in {"config", "done"} /\ data = "empty" => first
       /\ data = "complete" => first \/ cloned
       /\ mysqld # "down" => data = "complete"
       /\ Configured => data = "complete"

\* The init-file records the GTIDs of a clone before it marks itself complete,
\* and one that resets replication also drops the table, and with it the mark.
Marked ==
  /\ ipc = "done" => initFile.gtid = cloned
  /\ initFile.reset => initFile.drop
  /\ status.complete /\ cloned => status.backup
  /\ status.backup => cloned
  /\ mysqld = "init" /\ initFile.drop => ~status.complete

\* A server that is being configured is not marked yet, and has run its init-file
\* unless it has been restarted meanwhile.
Awaited ==
  /\ npc \in Initializing \ {"check"} => ~Configured
  /\ npc \in Initializing \cup {"refresh"} /\ ~spanned => Up /\ status.complete
  /\ Configured /\ ~spanned => status.complete

\* Whoever finds the GTIDs cleared will set them before it goes on.
Purging ==
  /\ npc = "reset" /\ skip /\ ~spanned => status.purged = "skipped"
  /\ gtids = "cleared" /\ ~spanned =>
       /\ ~skip /\ cloned /\ status.purged = "none" /\ ~Configured
       /\ npc \notin {"record", "source", "mark"}

\* A server that has been configured will not be purged again.
Settled == npc \in {"source", "mark"} \/ served = "yes" => spanned \/ status.purged # "none" \/ ~cloned

\* The source is set before the node is marked, and nothing resets it after.
Sourced ==
  npc = "mark" \/ Configured => master \/ spanned \/ source = "cluster"

NodeInv == TypeOK /\ Stages /\ Cleaned /\ Marked /\ Awaited /\ Purging /\ Settled /\ Sourced

-----------------------------------------------------------------------------
(* Types, in the parts that a prover takes at once.                        *)

Flags ==
  /\ first \in BOOLEAN /\ bucket \in BOOLEAN /\ master \in BOOLEAN /\ skip \in BOOLEAN
  /\ failover \in BOOLEAN /\ cloned \in BOOLEAN /\ existed \in BOOLEAN /\ uncleaned \in BOOLEAN
  /\ queued \in BOOLEAN /\ initialized \in BOOLEAN /\ spanned \in BOOLEAN

Places ==
  /\ served \in {"no", "yes", "dropped"} /\ services \subseteq {"replicas", "master"}
  /\ source \in {"none", "inherited", "cluster"} /\ gtids \in {"whole", "cleared"}
  /\ ipc \in {"start", "replicas", "master", "last", "stream", "bucket", "prepare", "config", "done"}
  /\ mysqld \in {"down", "init", "up"}
  /\ npc \in {"idle", "wait", "complete", "refresh", "check", "skip", "reset", "purge", "record",
              "source", "mark", "failed", "report"}

Files == data \in Data /\ status \in Status /\ initFile \in InitFile

LEMMA TypeParts == TypeOK <=> Flags /\ Places /\ Files /\ faults \in 0..MaxFaults
BY Zenon DEF TypeOK, Flags, Places, Files

\* Both init-files the code can leave behind are of the type.
LEMMA InitFileTyped ==
  ASSUME Flags
  PROVE  initFileQuery \in InitFile /\ NoInitFile \in InitFile
BY DEF Flags, initFileQuery, InitFile, NoInitFile, StatusFileExists, ShouldCloneFromBucket,
   readPurgedGTID

LEMMA FlagsNext ==
  ASSUME Flags, Next
  PROVE  Flags'
<1> USE DEF Flags, settings, world, volume, init, node
<1>1. CASE InitContainer
  <2>1. CASE NewConfig
    BY <2>1, Zenon DEF NewConfig, checkIfDataExists, InitStep
  <2>2. CASE Probe("replicas", "master") \/ Probe("master", "last")
    BY <2>2, Zenon DEF Probe, InitStep
  <2>3. CASE LastResort
    BY <2>3, Zenon DEF LastResort, InitStep
  <2>4. CASE Received("stream") \/ Received("bucket")
    BY <2>4, Zenon DEF Received, InitStep
  <2>5. CASE xtrabackupPrepare
    BY <2>5, Zenon DEF xtrabackupPrepare, InitStep
  <2>6. CASE RunConfigCommand
    BY <2>6, Zenon DEF RunConfigCommand, InitStep
  <2> QED
    BY <1>1, <2>1, <2>2, <2>3, <2>4, <2>5, <2>6 DEF InitContainer
<1>2. CASE Mysqld
  BY <1>2, Zenon DEF Mysqld, MysqldStarts, InitFileEnds
<1>3. CASE Reconcile
  <2>1. CASE Begin
    BY <2>1, Zenon DEF Begin, NodeStep
  <2>2. CASE Wait
    BY <2>2, Zenon DEF Wait, NodeStep
  <2>3. CASE WaitForOperatorStatusTable
    BY <2>3, Zenon DEF WaitForOperatorStatusTable, NodeStep
  <2>4. CASE TimesOut
    BY <2>4, Zenon DEF TimesOut, NodeStep
  <2>5. CASE Refresh
    BY <2>5, Zenon DEF Refresh, NodeStep
  <2>6. CASE IsConfigured
    BY <2>6, Zenon DEF IsConfigured, NodeStep
  <2>7. CASE MarkSetGTIDPurged
    BY <2>7, Zenon DEF MarkSetGTIDPurged, NodeStep
  <2>8. CASE ResetMaster
    BY <2>8, Zenon DEF ResetMaster, NodeStep
  <2>9. CASE SetGTIDPurged
    BY <2>9, Zenon DEF SetGTIDPurged, NodeStep
  <2>10. CASE RecordSetGTIDPurged
    BY <2>10, Zenon DEF RecordSetGTIDPurged, NodeStep
  <2>11. CASE ChangeMasterTo
    BY <2>11, Zenon DEF ChangeMasterTo, NodeStep
  <2>12. CASE MarkConfigurationDone
    BY <2>12, Zenon DEF MarkConfigurationDone, NodeStep
  <2>13. CASE Report
    BY <2>13, Zenon DEF Report, NodeStep
  <2>14. CASE InitializeFails
    BY <2>14, Zenon DEF InitializeFails
  <2> QED
    BY <1>3, <2>1, <2>2, <2>3, <2>4, <2>5, <2>6, <2>7, <2>8, <2>9, <2>10, <2>11, <2>12, <2>13,
       <2>14 DEF Reconcile
<1>4. CASE Faults
  <2>1. CASE CloneFails
    BY <2>1, Zenon DEF CloneFails, InitStep
  <2>2. CASE CloneInterrupted
    BY <2>2, Zenon DEF CloneInterrupted, InitStep
  <2>3. CASE xtrabackupPrepareFails
    BY <2>3, Zenon DEF xtrabackupPrepareFails, InitStep
  <2>4. CASE RunConfigCommandFails
    BY <2>4, Zenon DEF RunConfigCommandFails, InitStep
  <2>5. CASE PodRestarts
    BY <2>5, Zenon DEF PodRestarts, Stopped
  <2>6. CASE MysqldStops
    BY <2>6, Zenon DEF MysqldStops, Stopped
  <2>7. CASE InitializeFails
    BY <2>7, Zenon DEF InitializeFails
  <2>8. CASE ReconcileFails
    BY <2>8, Zenon DEF ReconcileFails
  <2> QED
    BY <1>4, <2>1, <2>2, <2>3, <2>4, <2>5, <2>6, <2>7, <2>8 DEF Faults
<1>5. CASE WorldChanges
  BY <1>5, Zenon DEF WorldChanges
<1> QED
  BY <1>1, <1>2, <1>3, <1>4, <1>5 DEF Next

LEMMA PlacesNext ==
  ASSUME Places, Next
  PROVE  Places'
<1> USE DEF Places, settings, world, volume, init, node
<1>1. CASE InitContainer
  BY <1>1 DEF InitContainer, NewConfig, checkIfDataExists, Probe, LastResort, Received,
     xtrabackupPrepare, RunConfigCommand, InitStep
<1>2. CASE Mysqld
  BY <1>2 DEF Mysqld, MysqldStarts, InitFileEnds
<1>3. CASE Reconcile
  BY <1>3 DEF Reconcile, Begin, Wait, WaitForOperatorStatusTable, TimesOut, Refresh, IsConfigured,
     MarkSetGTIDPurged, ResetMaster, SetGTIDPurged, RecordSetGTIDPurged, ChangeMasterTo,
     MarkConfigurationDone, Report, InitializeFails, NodeStep
<1>4. CASE Faults
  BY <1>4 DEF Faults, CloneFails, CloneInterrupted, xtrabackupPrepareFails, RunConfigCommandFails,
     PodRestarts, MysqldStops, InitializeFails, ReconcileFails, InitStep, Stopped
<1>5. CASE WorldChanges
  BY <1>5 DEF WorldChanges
<1> QED
  BY <1>1, <1>2, <1>3, <1>4, <1>5 DEF Next

LEMMA FilesNext ==
  ASSUME Flags, Files, Next
  PROVE  Files'
<1> USE DEF Files, Data, settings, world, volume, init, node
<1>1. CASE InitContainer
  BY <1>1, InitFileTyped DEF InitContainer, NewConfig, checkIfDataExists, Probe, LastResort,
     Received, xtrabackupPrepare, RunConfigCommand, InitStep
<1>2. CASE Mysqld
  <2>1. CASE MysqldStarts
    BY <2>1 DEF MysqldStarts, Status, NoStatus
  <2>2. CASE InitFileEnds
    BY <2>2 DEF InitFileEnds, Status, InitFile
  <2> QED
    BY <1>2, <2>1, <2>2 DEF Mysqld
<1>3. CASE Reconcile
  BY <1>3 DEF Status, Reconcile, Begin, Wait, WaitForOperatorStatusTable, TimesOut, Refresh,
     IsConfigured, MarkSetGTIDPurged, ResetMaster, SetGTIDPurged, RecordSetGTIDPurged,
     ChangeMasterTo, MarkConfigurationDone, Report, InitializeFails, NodeStep
<1>4. CASE Faults
  BY <1>4, InitFileTyped DEF Faults, CloneFails, CloneInterrupted, xtrabackupPrepareFails,
     RunConfigCommandFails, PodRestarts, MysqldStops, InitializeFails, ReconcileFails, InitStep,
     Stopped
<1>5. CASE WorldChanges
  BY <1>5 DEF WorldChanges
<1> QED
  BY <1>1, <1>2, <1>3, <1>4, <1>5 DEF Next

LEMMA TypeNext ==
  ASSUME TypeOK, Next
  PROVE  TypeOK'
<1>1. Flags' /\ Places' /\ Files'
  BY TypeParts, FlagsNext, PlacesNext, FilesNext
<1>2. Fault \/ UNCHANGED faults
  BY DEF Next, Mysqld, MysqldStarts, InitFileEnds, WorldChanges, InitContainer, NewConfig,
     checkIfDataExists, Probe, LastResort, Received, xtrabackupPrepare, RunConfigCommand,
     InitStep, Reconcile, Begin, Wait, WaitForOperatorStatusTable, TimesOut, Refresh,
     IsConfigured, MarkSetGTIDPurged, ResetMaster, SetGTIDPurged, RecordSetGTIDPurged,
     ChangeMasterTo, MarkConfigurationDone, Report, InitializeFails, NodeStep, Faults, CloneFails,
     CloneInterrupted, xtrabackupPrepareFails, RunConfigCommandFails, PodRestarts, MysqldStops,
     InitializeFails, ReconcileFails, InitStep, Stopped
<1>3. faults' \in 0..MaxFaults
  BY <1>2, NodeDataAssumption DEF TypeOK, Fault
<1> QED
  BY <1>1, <1>3, Zenon DEF TypeOK, Flags, Places, Files

-----------------------------------------------------------------------------
(* Every step keeps every part.                                            *)

\* mysqld starts when the init containers are done and writes its table first; a
\* process that looked at the volume finds it as it was.
LEMMA StagesNext ==
  ASSUME TypeOK, Stages, Next
  PROVE  Stages'
<1> USE DEF Stages, Cloning, Initializing, Configured, Up, NoStatus, settings, world, volume,
   init, node
<1>1. CASE InitContainer
  <2>1. CASE NewConfig
    BY <2>1 DEF NewConfig, checkIfDataExists, InitStep
  <2>2. CASE Probe("replicas", "master") \/ Probe("master", "last") \/ LastResort
    BY <2>2 DEF Probe, LastResort, InitStep
  <2>3. CASE Received("stream") \/ Received("bucket") \/ xtrabackupPrepare \/ RunConfigCommand
    BY <2>3 DEF Received, xtrabackupPrepare, RunConfigCommand, InitStep
  <2> QED
    BY <1>1, <2>1, <2>2, <2>3 DEF InitContainer
<1>2. CASE MysqldStarts
  BY <1>2 DEF MysqldStarts, TypeOK, Status
<1>3. CASE InitFileEnds
  BY <1>3 DEF InitFileEnds
<1>4. CASE Reconcile
  BY <1>4 DEF TypeOK, Status, Reconcile, Begin, Wait, WaitForOperatorStatusTable, TimesOut,
     Refresh, IsConfigured, MarkSetGTIDPurged, ResetMaster, SetGTIDPurged, RecordSetGTIDPurged,
     ChangeMasterTo, MarkConfigurationDone, Report, InitializeFails, NodeStep, isInitFileComplete,
     ShouldPurge
<1>5. CASE CloneFails \/ CloneInterrupted \/ xtrabackupPrepareFails \/ RunConfigCommandFails
  BY <1>5 DEF CloneFails, CloneInterrupted, xtrabackupPrepareFails, RunConfigCommandFails,
     InitStep
<1>6. CASE PodRestarts \/ MysqldStops
  BY <1>6 DEF TypeOK, PodRestarts, MysqldStops, Stopped, NoInitFile
<1>7. CASE InitializeFails \/ ReconcileFails \/ WorldChanges
  BY <1>7 DEF InitializeFails, ReconcileFails, WorldChanges
<1> QED
  BY <1>1, <1>2, <1>3, <1>4, <1>5, <1>6, <1>7 DEF Next, Mysqld, Faults

\* A clone that fails without a trace leaves an empty volume, any other is recorded.
LEMMA CleanedNext ==
  ASSUME TypeOK, Stages, Cleaned, Next
  PROVE  Cleaned'
<1> USE DEF Stages, Cleaned, Cloning, Initializing, Configured, Up, NoStatus, settings, world,
   volume, init, node
<1>1. CASE InitContainer
  BY <1>1 DEF TypeOK, Status, InitContainer, NewConfig, checkIfDataExists, Probe, LastResort,
     Received, xtrabackupPrepare, RunConfigCommand, InitStep, ShouldCloneFromBucket,
     initFileQuery, StatusFileExists, readPurgedGTID
<1>2. CASE MysqldStarts
  BY <1>2 DEF MysqldStarts, TypeOK, Status
<1>3. CASE InitFileEnds
  BY <1>3 DEF InitFileEnds
<1>4. CASE Reconcile
  BY <1>4 DEF TypeOK, Status, Reconcile, Begin, Wait, WaitForOperatorStatusTable, TimesOut,
     Refresh, IsConfigured, MarkSetGTIDPurged, ResetMaster, SetGTIDPurged, RecordSetGTIDPurged,
     ChangeMasterTo, MarkConfigurationDone, Report, InitializeFails, NodeStep, isInitFileComplete,
     ShouldPurge
<1>5. CASE CloneFails \/ CloneInterrupted \/ xtrabackupPrepareFails \/ RunConfigCommandFails
  BY <1>5 DEF CloneFails, CloneInterrupted, xtrabackupPrepareFails, RunConfigCommandFails,
     InitStep
<1>6. CASE PodRestarts \/ MysqldStops
  BY <1>6 DEF TypeOK, PodRestarts, MysqldStops, Stopped, NoInitFile
<1>7. CASE InitializeFails \/ ReconcileFails \/ WorldChanges
  BY <1>7 DEF InitializeFails, ReconcileFails, WorldChanges
<1> QED
  BY <1>1, <1>2, <1>3, <1>4, <1>5, <1>6, <1>7 DEF Next, Mysqld, Faults

\* A clone is only received on a volume without a status table.
LEMMA MarkedNext ==
  ASSUME TypeOK, Stages, Marked, Next
  PROVE  Marked'
<1> USE DEF Stages, Marked, Cloning, Initializing, Configured, Up, NoStatus, settings, world,
   volume, init, node
<1>1. CASE InitContainer
  BY <1>1 DEF TypeOK, Status, InitContainer, NewConfig, checkIfDataExists, Probe, LastResort,
     Received, xtrabackupPrepare, RunConfigCommand, InitStep, ShouldCloneFromBucket,
     initFileQuery, StatusFileExists, readPurgedGTID
<1>2. CASE MysqldStarts
  BY <1>2 DEF MysqldStarts, TypeOK, Status
<1>3. CASE InitFileEnds
  BY <1>3 DEF InitFileEnds
<1>4. CASE Reconcile
  BY <1>4 DEF TypeOK, Status, Reconcile, Begin, Wait, WaitForOperatorStatusTable, TimesOut,
     Refresh, IsConfigured, MarkSetGTIDPurged, ResetMaster, SetGTIDPurged, RecordSetGTIDPurged,
     ChangeMasterTo, MarkConfigurationDone, Report, InitializeFails, NodeStep, isInitFileComplete,
     ShouldPurge
<1>5. CASE CloneFails \/ CloneInterrupted \/ xtrabackupPrepareFails \/ RunConfigCommandFails
  BY <1>5 DEF CloneFails, CloneInterrupted, xtrabackupPrepareFails, RunConfigCommandFails,
     InitStep
<1>6. CASE PodRestarts \/ MysqldStops
  BY <1>6 DEF TypeOK, PodRestarts, MysqldStops, Stopped, NoInitFile
<1>7. CASE InitializeFails \/ ReconcileFails \/ WorldChanges
  BY <1>7 DEF InitializeFails, ReconcileFails, WorldChanges
<1> QED
  BY <1>1, <1>2, <1>3, <1>4, <1>5, <1>6, <1>7 DEF Next, Mysqld, Faults

\* Whoever restarts a server that is being configured is recorded as such.
LEMMA AwaitedNext ==
  ASSUME TypeOK, Stages, Marked, Awaited, Next
  PROVE  Awaited'
<1> USE DEF Stages, Marked, Awaited, Cloning, Initializing, Configured, Up, NoStatus, settings,
   world, volume, init, node
<1>1. CASE InitContainer
  BY <1>1 DEF TypeOK, Status, InitContainer, NewConfig, checkIfDataExists, Probe, LastResort,
     Received, xtrabackupPrepare, RunConfigCommand, InitStep, ShouldCloneFromBucket,
     initFileQuery, StatusFileExists, readPurgedGTID
<1>2. CASE MysqldStarts
  BY <1>2 DEF MysqldStarts, TypeOK, Status
<1>3. CASE InitFileEnds
  BY <1>3 DEF InitFileEnds
<1>4. CASE Reconcile
  BY <1>4 DEF TypeOK, Status, Reconcile, Begin, Wait, WaitForOperatorStatusTable, TimesOut,
     Refresh, IsConfigured, MarkSetGTIDPurged, ResetMaster, SetGTIDPurged, RecordSetGTIDPurged,
     ChangeMasterTo, MarkConfigurationDone, Report, InitializeFails, NodeStep, isInitFileComplete,
     ShouldPurge
<1>5. CASE CloneFails \/ CloneInterrupted \/ xtrabackupPrepareFails \/ RunConfigCommandFails
  BY <1>5 DEF CloneFails, CloneInterrupted, xtrabackupPrepareFails, RunConfigCommandFails,
     InitStep
<1>6. CASE PodRestarts \/ MysqldStops
  BY <1>6 DEF TypeOK, PodRestarts, MysqldStops, Stopped, NoInitFile
<1>7. CASE InitializeFails \/ ReconcileFails \/ WorldChanges
  BY <1>7 DEF InitializeFails, ReconcileFails, WorldChanges
<1> QED
  BY <1>1, <1>2, <1>3, <1>4, <1>5, <1>6, <1>7 DEF Next, Mysqld, Faults

\* GTIDs are cleared with the skip annotation unset and the row not written yet, and
\* every way on from there leads through SetGTIDPurged.
LEMMA PurgingNext ==
  ASSUME TypeOK, Stages, Marked, Awaited, Purging, Next
  PROVE  Purging'
<1> USE DEF Stages, Marked, Awaited, Purging, Cloning, Initializing, Configured, Up, NoStatus,
   settings, world, volume, init, node
<1>1. CASE InitContainer
  BY <1>1 DEF TypeOK, Status, InitContainer, NewConfig, checkIfDataExists, Probe, LastResort,
     Received, xtrabackupPrepare, RunConfigCommand, InitStep, ShouldCloneFromBucket,
     initFileQuery, StatusFileExists, readPurgedGTID
<1>2. CASE MysqldStarts
  BY <1>2 DEF MysqldStarts, TypeOK, Status
<1>3. CASE InitFileEnds
  BY <1>3 DEF InitFileEnds
<1>4. CASE Reconcile
  BY <1>4 DEF TypeOK, Status, Reconcile, Begin, Wait, WaitForOperatorStatusTable, TimesOut,
     Refresh, IsConfigured, MarkSetGTIDPurged, ResetMaster, SetGTIDPurged, RecordSetGTIDPurged,
     ChangeMasterTo, MarkConfigurationDone, Report, InitializeFails, NodeStep, isInitFileComplete,
     ShouldPurge
<1>5. CASE CloneFails \/ CloneInterrupted \/ xtrabackupPrepareFails \/ RunConfigCommandFails
  BY <1>5 DEF CloneFails, CloneInterrupted, xtrabackupPrepareFails, RunConfigCommandFails,
     InitStep
<1>6. CASE PodRestarts \/ MysqldStops
  BY <1>6 DEF TypeOK, PodRestarts, MysqldStops, Stopped, NoInitFile
<1>7. CASE InitializeFails \/ ReconcileFails \/ WorldChanges
  BY <1>7 DEF InitializeFails, ReconcileFails, WorldChanges
<1> QED
  BY <1>1, <1>2, <1>3, <1>4, <1>5, <1>6, <1>7 DEF Next, Mysqld, Faults

\* The step to the source is taken with the row written, or without a clone.
LEMMA SettledNext ==
  ASSUME TypeOK, Stages, Marked, Awaited, Settled, Next
  PROVE  Settled'
<1> USE DEF Stages, Marked, Awaited, Settled, Cloning, Initializing, Configured, Up, NoStatus,
   settings, world, volume, init, node
<1>1. CASE InitContainer
  BY <1>1 DEF TypeOK, Status, InitContainer, NewConfig, checkIfDataExists, Probe, LastResort,
     Received, xtrabackupPrepare, RunConfigCommand, InitStep, ShouldCloneFromBucket,
     initFileQuery, StatusFileExists, readPurgedGTID
<1>2. CASE MysqldStarts
  BY <1>2 DEF MysqldStarts, TypeOK, Status
<1>3. CASE InitFileEnds
  BY <1>3 DEF InitFileEnds
<1>4. CASE Reconcile
  BY <1>4 DEF TypeOK, Status, Reconcile, Begin, Wait, WaitForOperatorStatusTable, TimesOut,
     Refresh, IsConfigured, MarkSetGTIDPurged, ResetMaster, SetGTIDPurged, RecordSetGTIDPurged,
     ChangeMasterTo, MarkConfigurationDone, Report, InitializeFails, NodeStep, isInitFileComplete,
     ShouldPurge
<1>5. CASE CloneFails \/ CloneInterrupted \/ xtrabackupPrepareFails \/ RunConfigCommandFails
  BY <1>5 DEF CloneFails, CloneInterrupted, xtrabackupPrepareFails, RunConfigCommandFails,
     InitStep
<1>6. CASE PodRestarts \/ MysqldStops
  BY <1>6 DEF TypeOK, PodRestarts, MysqldStops, Stopped, NoInitFile
<1>7. CASE InitializeFails \/ ReconcileFails \/ WorldChanges
  BY <1>7 DEF InitializeFails, ReconcileFails, WorldChanges
<1> QED
  BY <1>1, <1>2, <1>3, <1>4, <1>5, <1>6, <1>7 DEF Next, Mysqld, Faults

\* Only an init-file resets replication, and it does so before it is complete.
LEMMA SourcedNext ==
  ASSUME TypeOK, Stages, Marked, Awaited, Sourced, Next
  PROVE  Sourced'
<1> USE DEF Stages, Marked, Awaited, Sourced, Cloning, Initializing, Configured, Up, NoStatus,
   settings, world, volume, init, node
<1>1. CASE InitContainer
  BY <1>1 DEF TypeOK, Status, InitContainer, NewConfig, checkIfDataExists, Probe, LastResort,
     Received, xtrabackupPrepare, RunConfigCommand, InitStep, ShouldCloneFromBucket,
     initFileQuery, StatusFileExists, readPurgedGTID
<1>2. CASE MysqldStarts
  BY <1>2 DEF MysqldStarts, TypeOK, Status
<1>3. CASE InitFileEnds
  BY <1>3 DEF InitFileEnds
<1>4. CASE Reconcile
  BY <1>4 DEF TypeOK, Status, Reconcile, Begin, Wait, WaitForOperatorStatusTable, TimesOut,
     Refresh, IsConfigured, MarkSetGTIDPurged, ResetMaster, SetGTIDPurged, RecordSetGTIDPurged,
     ChangeMasterTo, MarkConfigurationDone, Report, InitializeFails, NodeStep, isInitFileComplete,
     ShouldPurge
<1>5. CASE CloneFails \/ CloneInterrupted \/ xtrabackupPrepareFails \/ RunConfigCommandFails
  BY <1>5 DEF CloneFails, CloneInterrupted, xtrabackupPrepareFails, RunConfigCommandFails,
     InitStep
<1>6. CASE PodRestarts \/ MysqldStops
  BY <1>6 DEF TypeOK, PodRestarts, MysqldStops, Stopped, NoInitFile
<1>7. CASE InitializeFails \/ ReconcileFails \/ WorldChanges
  BY <1>7 DEF InitializeFails, ReconcileFails, WorldChanges
<1> QED
  BY <1>1, <1>2, <1>3, <1>4, <1>5, <1>6, <1>7 DEF Next, Mysqld, Faults

LEMMA NodeInvInit == Init => NodeInv
<1> SUFFICES ASSUME Init PROVE NodeInv
  OBVIOUS
<1>1. Flags
  BY Zenon DEF Init, Flags
<1>2. Places /\ Files
  BY DEF Init, Places, Files, Data, Status, NoStatus, InitFile, NoInitFile
<1>3. TypeOK
  BY <1>1, <1>2, TypeParts, NodeDataAssumption DEF Init
<1>4. Stages /\ Cleaned /\ Marked /\ Awaited /\ Purging /\ Settled /\ Sourced
  BY DEF Init, Stages, Cleaned, Marked, Awaited, Purging, Settled, Sourced, Cloning, Initializing,
     Configured, NoStatus, NoInitFile
<1> QED
  BY <1>3, <1>4 DEF NodeInv

LEMMA NodeInvNext == NodeInv /\ [Next]_vars => NodeInv'
<1> SUFFICES ASSUME NodeInv, [Next]_vars PROVE NodeInv'
  OBVIOUS
<1>1. CASE UNCHANGED vars
  BY <1>1 DEF NodeInv, TypeOK, Stages, Cleaned, Marked, Awaited, Purging, Settled, Sourced,
     Configured, Up, vars, settings, world, volume, init, node
<1>2. CASE Next
  BY <1>2, TypeNext, StagesNext, CleanedNext, MarkedNext, AwaitedNext, PurgingNext, SettledNext,
     SourcedNext DEF NodeInv
<1> QED
  BY <1>1, <1>2

LEMMA NodeInvAlways == Spec => []NodeInv
BY NodeInvInit, NodeInvNext, PTL DEF Spec

-----------------------------------------------------------------------------
(* The theorems.                                                           *)

\* Every reachable state of the pod, its volume and its controller is well typed.
THEOREM TypeCorrect == Spec => []TypeOK
<1>1. NodeInv => TypeOK
  BY DEF NodeInv
<1> QED
  BY <1>1, NodeInvAlways, PTL

\* However often the init container, the pod or mysqld stops, a server is only
\* marked configured on a volume that holds a whole clone, or the new database of
\* pod 0, unless an attempt to clone left files that cloneFromSource did not remove.
THEOREM WholeDataServed == Spec => []ServesWhole
<1>1. NodeInv => ServesWhole
  BY DEF NodeInv, Cleaned, ServesWhole
<1> QED
  BY <1>1, NodeInvAlways, PTL

\* A server that was not restarted while it was being configured is only marked
\* configured with its GTIDs in place, though RESET MASTER and SET GTID_PURGED are
\* two statements and any number of reconciliations may stop between them.
THEOREM GtidsInPlace == Spec => []GtidsWhole
<1>1. NodeInv => GtidsWhole
  BY Zenon DEF NodeInv, TypeOK, Purging, GtidsWhole
<1> QED
  BY <1>1, NodeInvAlways, PTL

\* A configured replica that was not restarted meanwhile replicates from the
\* cluster's master: the reset in the init-file never comes after CHANGE MASTER TO.
THEOREM ReplicaFollows == Spec => []ReplicaConfigured
<1>1. NodeInv => ReplicaConfigured
  BY DEF NodeInv, Sourced, ReplicaConfigured
<1> QED
  BY <1>1, NodeInvAlways, PTL

\* RESET MASTER is never run on a volume that has been in service, unless its status
\* table has been dropped or its server restarted between two calls.
THEOREM HistoryKept == Spec => KeepsHistory
<1>1. NodeInv /\ [Next]_vars => [gtids = "whole" /\ gtids' = "cleared" => served # "yes" \/ spanned]_vars
  <2> SUFFICES ASSUME NodeInv, Next, gtids = "whole", gtids' = "cleared"
               PROVE  served # "yes" \/ spanned
    BY Zenon
  <2>1. ResetMaster /\ ShouldPurge
    BY DEF Next, Mysqld, MysqldStarts, InitFileEnds, WorldChanges, volume, InitContainer,
       NewConfig, checkIfDataExists, Probe, LastResort, Received, xtrabackupPrepare,
       RunConfigCommand, InitStep, Reconcile, Begin, Wait, WaitForOperatorStatusTable, TimesOut,
       Refresh, IsConfigured, MarkSetGTIDPurged, ResetMaster, SetGTIDPurged, RecordSetGTIDPurged,
       ChangeMasterTo, MarkConfigurationDone, Report, InitializeFails, NodeStep, Faults,
       CloneFails, CloneInterrupted, xtrabackupPrepareFails, RunConfigCommandFails, PodRestarts,
       MysqldStops, InitializeFails, ReconcileFails, InitStep, Stopped
  <2>2. status.purged = "none" /\ cloned
    BY <2>1 DEF NodeInv, Marked, ShouldPurge
  <2> QED
    BY <2>2 DEF NodeInv, Settled
<1> QED
  BY <1>1, NodeInvAlways, PTL DEF Spec, KeepsHistory
=============================================================================
