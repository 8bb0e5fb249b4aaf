--------------------------- MODULE BackupSchedule ---------------------------
(***************************************************************************)
(* Scheduled backups of one cluster: the controller that keeps the cron    *)
(* entry in step with the cluster's spec (mysqlbackupcron_controller.go)   *)
(* and the runs of the entry, each in a goroutine of its own, which create *)
(* a backup and collect old ones (job_backup.go).  Both read the API       *)
(* through informers that may be behind.  Of a deleted backup that waits   *)
(* for its finalizer the informer may still know; its name is gone.        *)
(***************************************************************************)
EXTENDS Naturals, FiniteSets

CONSTANTS
  Schedules,      \* the valid schedules a user may ask for
  Limits,         \* the values of spec.backupScheduleJobsHistoryLimit
  MaxBackups,     \* bound: backups created
  MaxRuns,        \* bound: runs of the entry under way at once
  MaxSpecChanges, \* bound: changes of the cluster
  MaxFaults       \* bound: failed API calls and restarts of the operator

ASSUME ScheduleAssumption ==
  /\ Limits \subseteq Nat \ {0}
  /\ MaxBackups \in Nat /\ MaxRuns \in Nat \ {0} /\ MaxSpecChanges \in Nat /\ MaxFaults \in Nat

VARIABLES
  spec, seen, queued, \* the cluster's schedule, what the informer knows, a request waits
  entries,            \* the cluster's entries in the cron table
  backup, known,      \* the backups, numbered as created, and what the informer knows
  run,                \* the runs under way
  prompt,             \* history: no run has decided on an outdated list
  changes, faults     \* how much of each bound is used

vars == <<spec, seen, queued, entries, backup, known, run, prompt, changes, faults>>
control == <<spec, seen, queued, entries, changes>>

Backups == 1..MaxBackups
Runs == 1..MaxRuns
NoLimit == 0   \* nil; a limit of zero would keep nothing

\* The schedule is empty (or the cluster is gone), does not parse, or is valid;
\* limit stands for all the settings an entry copies (the policy is another).
None == [schedule |-> "none", limit |-> NoLimit]
Bad  == [schedule |-> "bad", limit |-> NoLimit]
Valid == [schedule : Schedules, limit : Limits \cup {NoLimit}]
Settings == Valid \cup {None, Bad}
States == {"absent", "running", "ended", "removed", "collected"}
Idle == [pc |-> "idle", limit |-> NoLimit, doomed |-> {}]

TypeOK ==
  /\ spec \in Settings /\ seen \in Settings /\ queued \in BOOLEAN
  /\ entries \in SUBSET Valid
  /\ backup \in [Backups -> States] /\ known \in [Backups -> States]
  /\ run \in [Runs -> [pc : {"idle", "create", "list", "delete"},
                       limit : Limits \cup {NoLimit}, doomed : SUBSET Backups]]
  /\ prompt \in BOOLEAN /\ changes \in 0..MaxSpecChanges /\ faults \in 0..MaxFaults

Created(view) == {b \in Backups : view[b] # "absent"}
Listed(view) == {b \in Backups : view[b] \in {"running", "ended"}}
Running(view) == {b \in Backups : view[b] = "running"}
Newer(b, set) == {c \in set : c > b}

-----------------------------------------------------------------------------
(* The cluster and the controller of the cron table.                       *)

UserChanges ==
  /\ changes < MaxSpecChanges /\ changes' = changes + 1
  /\ \E s \in Settings : s # spec /\ spec' = s
  /\ UNCHANGED <<seen, queued, entries, backup, known, run, prompt, faults>>

DeliverCluster ==
  /\ seen # spec /\ seen' = spec /\ queued' = TRUE
  /\ UNCHANGED <<spec, entries, backup, known, run, prompt, changes, faults>>

\* Mutant: a changed limit or policy does not replace the entry.
UpdatedIfRescheduled(old, s) ==
  IF \E e \in old : e.schedule = s.schedule THEN old ELSE {s}

\* updateClusterSchedule: the entry is replaced when its schedule, its limit or
\* its policy differs from the cluster's.
updateClusterSchedule(old, s) == IF s \in old THEN old ELSE {s}

\* Mutant: the error of the parser is ignored.
ReconcileUnparsed ==
  /\ queued /\ queued' = FALSE
  /\ entries' = (IF seen = None THEN {} ELSE updateClusterSchedule(entries, seen))
  /\ UNCHANGED <<spec, seen, backup, known, run, prompt, changes, faults>>

\* A cluster without a schedule, or without an object, is unregistered.  A
\* schedule that does not parse is an error: the old entry stays.
Reconcile ==
  /\ queued
  /\ entries' = (IF seen = None THEN {} ELSE IF seen = Bad THEN entries
                 ELSE updateClusterSchedule(entries, seen))
  /\ queued' = (seen = Bad)
  /\ UNCHANGED <<spec, seen, backup, known, run, prompt, changes, faults>>

\* A new process lists the clusters and the backups anew; its cron table is
\* empty.
OperatorRestarts ==
  /\ faults < MaxFaults /\ faults' = faults + 1
  /\ seen' = spec /\ queued' = TRUE /\ entries' = {} /\ known' = backup
  /\ run' = [r \in Runs |-> Idle]
  /\ UNCHANGED <<spec, backup, prompt, changes>>

-----------------------------------------------------------------------------
(* One run of the entry.                                                   *)

\* Run returns, or goes on with the deferred backupGC.
AtEnd(limit) ==
  IF limit = NoLimit THEN Idle ELSE [pc |-> "list", limit |-> limit, doomed |-> {}]

\* The informer has all the backups, and no other run is about to create one.
UpToDate ==
  /\ Created(known) = Created(backup)
  /\ \A r \in Runs : run[r].pc # "create"

\* Mutant: a run does not look for running backups.
NoneRunning(view) == TRUE

\* scheduledBackupsRunningCount is zero.
scheduledBackupsRunningCountIsZero(view) == Running(view) = {}

\* The start of Run: it goes on to create a backup when it finds none running.
Fire(r) ==
  /\ run[r].pc = "idle"
  /\ \E e \in entries :
       run' = [run EXCEPT ![r] =
         IF scheduledBackupsRunningCountIsZero(known)
         THEN [pc |-> "create", limit |-> e.limit, doomed |-> {}] ELSE AtEnd(e.limit)]
  /\ prompt' = (prompt /\ UpToDate)
  /\ UNCHANGED <<control, backup, known, faults>>

\* A failed list counts as no running backup.
FireBlind(r) ==
  /\ run[r].pc = "idle" /\ faults < MaxFaults /\ faults' = faults + 1
  /\ \E e \in entries :
       run' = [run EXCEPT ![r] = [pc |-> "create", limit |-> e.limit, doomed |-> {}]]
  /\ prompt' = FALSE
  /\ UNCHANGED <<control, backup, known>>

\* createBackup.
Create(r) ==
  /\ run[r].pc = "create"
  /\ \E b \in Backups : /\ Created(backup) = 1..(b - 1)
                        /\ backup' = [backup EXCEPT ![b] = "running"]
  /\ run' = [run EXCEPT ![r] = AtEnd(@.limit)] /\ UNCHANGED <<control, known, prompt, faults>>

\* The API server refuses, for one because the name of this second is taken.
CreateFails(r) ==
  /\ run[r].pc = "create" /\ faults < MaxFaults /\ faults' = faults + 1
  /\ run' = [run EXCEPT ![r] = AtEnd(@.limit)] /\ UNCHANGED <<control, backup, known, prompt>>

\* Mutant: the newest backup is not counted.
DoomedOneMore(view, limit) ==
  {b \in Listed(view) : Cardinality(Newer(b, Listed(view))) + 1 >= limit}

\* The backups from index limit on in the list sorted by age, newest first.
Doomed(view, limit) ==
  {b \in Listed(view) : Cardinality(Newer(b, Listed(view))) >= limit}

\* What is left of the loop over the list.
Collecting(limit, doomed) ==
  IF doomed = {} THEN Idle ELSE [pc |-> "delete", limit |-> limit, doomed |-> doomed]

\* backupGC: the list is read once ...
List(r) ==
  /\ run[r].pc = "list"
  /\ run' = [run EXCEPT ![r] = Collecting(@.limit, Doomed(known, @.limit))]
  /\ UNCHANGED <<control, backup, known, prompt, faults>>

\* A list that fails ends the collection.
ListFails(r) ==
  /\ run[r].pc = "list" /\ faults < MaxFaults /\ faults' = faults + 1
  /\ run' = [run EXCEPT ![r] = Idle] /\ UNCHANGED <<control, backup, known, prompt>>

Rest(r, b) == run' = [run EXCEPT ![r] = Collecting(@.limit, @.doomed \ {b})]

\* ... and its tail deleted one by one, newest first; one that is gone already
\* is an error that is only logged.
Delete(r) ==
  /\ run[r].pc = "delete"
  /\ \E b \in run[r].doomed :
       /\ Newer(b, run[r].doomed) = {}
       /\ backup' = (IF b \in Listed(backup) THEN [backup EXCEPT ![b] = "collected"] ELSE backup)
       /\ Rest(r, b)
  /\ UNCHANGED <<control, known, prompt, faults>>

DeleteFails(r) ==
  /\ run[r].pc = "delete" /\ faults < MaxFaults /\ faults' = faults + 1
  /\ \E b \in run[r].doomed : Newer(b, run[r].doomed) = {} /\ Rest(r, b)
  /\ UNCHANGED <<control, backup, known, prompt>>

-----------------------------------------------------------------------------
(* The backups.                                                            *)

BackupEnds(b) ==
  /\ backup[b] = "running" /\ backup' = [backup EXCEPT ![b] = "ended"]
  /\ UNCHANGED <<control, known, run, prompt, faults>>

UserRemoves(b) ==
  /\ b \in Listed(backup) /\ backup' = [backup EXCEPT ![b] = "removed"]
  /\ UNCHANGED <<control, known, run, prompt, faults>>

\* The informer learns of one backup at a time.
DeliverBackup(b) ==
  /\ known[b] # backup[b] /\ known' = [known EXCEPT ![b] = backup[b]]
  /\ UNCHANGED <<control, backup, run, prompt, faults>>

-----------------------------------------------------------------------------
Init ==
  /\ spec \in Settings /\ seen = spec /\ queued = TRUE /\ entries = {}
  /\ backup = [b \in Backups |-> "absent"] /\ known = backup
  /\ run = [r \in Runs |-> Idle]
  /\ prompt = TRUE /\ changes = 0 /\ faults = 0

RunStep(r) == Create(r) \/ List(r) \/ Delete(r)
RunFails(r) == FireBlind(r) \/ CreateFails(r) \/ ListFails(r) \/ DeleteFails(r)

Next ==
  \/ UserChanges \/ DeliverCluster \/ Reconcile \/ OperatorRestarts
  \/ \E r \in Runs : Fire(r) \/ RunStep(r) \/ RunFails(r)
  \/ \E b \in Backups : BackupEnds(b) \/ UserRemoves(b) \/ DeliverBackup(b)

\* The informer and the controller keep running.
Fairness == WF_vars(DeliverCluster) /\ WF_vars(Reconcile)

Spec == Init /\ [][Next]_vars /\ Fairness

-----------------------------------------------------------------------------
(* Properties.                                                             *)

\* "If set keeps last BackupScheduleJobsHistoryLimit Backups": the last ones
\* created are never collected, though runs overlap, their lists are outdated,
\* users remove backups and the limit changes.
KeepsLast ==
  \A b \in Backups :
    backup[b] = "collected" =>
      \E limit \in Limits : Cardinality(Newer(b, Created(backup))) >= limit

\* As long as every run decides on a list that has all the backups created, one
\* scheduled backup runs at a time.
OneRunning == prompt => Cardinality(Running(backup)) <= 1

\* The cron table follows the cluster, across changes and restarts: in the end
\* it has exactly the entry the spec asks for, and none for a cluster without a
\* schedule.
ScheduleFollowed ==
  \A s \in Valid \cup {None} :
    spec = s ~> (spec # s \/ entries = IF s = None THEN {} ELSE {s})
=============================================================================
