------------------------------- MODULE Backup -------------------------------
(***************************************************************************)
(* One MysqlBackup, from its creation to the removal of its file:          *)
(*   - the backup controller's Reconcile, which creates the job that takes *)
(*     the backup, copies the job's outcome into the status, and, under    *)
(*     the "delete" policy, keeps a finalizer until a cleanup job has      *)
(*     removed the file (mysqlbackup_controller.go, job.go,                *)
(*     deletionjob.go);                                                    *)
(*   - the take-backup command of the job's pods (apptakebackup.go);       *)
(*   - the backup server of the sidecar, which serves one client at a time *)
(*     (server.go).                                                        *)
(* The API server, the job controller, rclone and the garbage collector    *)
(* are the environment.  The MysqlBackup resource has no status            *)
(* subresource: Update stores the status too, and Status().Update fails.   *)
(* One pod of a job runs at a time, and a job is not deleted by hand.      *)
(***************************************************************************)
EXTENDS Naturals, Sequences

CONSTANTS
  Urls,        \* what spec.backupURL may say at creation
  MaxAttempts, \* bound: pods a job may use (its back-off limit)
  MaxClones,   \* bound: replicas that clone from the same server
  MaxRequests, \* bound: requests the server holds
  MaxFaults,   \* bound: failed API calls, lost pods, restarts of a process
  MaxLag       \* bound: versions of the backup the informer may be behind

ASSUME BackupAssumption ==
  /\ Urls \subseteq {"none", "base", "file"}
  /\ MaxAttempts \in Nat \ {0} /\ MaxClones \in Nat /\ MaxRequests \in Nat \ {0} /\ MaxFaults \in Nat
  /\ MaxLag \in Nat \ {0}

VARIABLES
  obj, stream, cache,  \* the stored backup, its versions under way, the informer's
  due,                 \* history: it was complete when the user deleted it
  cluster,             \* the cluster: gone, or with or without spec.backupURL
  job, jobSeen,        \* the backup job and what the informer knows of it
  clean, cleanSeen,    \* the same for the cleanup job
  target,              \* the URL the cleanup job deletes
  pc, withCluster,     \* Reconcile: its place, whether it has found the cluster,
  saved, hand, fresh,  \* the backup as read, as changed, whether it is current,
  queued,              \* and whether a request for it waits
  pod,                 \* the pod of the backup job
  server,              \* the requests the backup server has accepted, oldest first
  remote,              \* the remote storage
  attempts, clones, faults \* how much of each bound is used

vars == <<obj, stream, cache, due, cluster, job, jobSeen, clean, cleanSeen, target, pc,
          withCluster, saved, hand, fresh, queued, pod, server, remote, attempts, clones, faults>>
api     == <<obj, stream, cache, due>>
jobs    == <<job, jobSeen, clean, cleanSeen, target>>
copies  == <<withCluster, saved, hand>>
loop    == <<pc, copies, fresh, queued>>
worker  == <<pod, server, remote, attempts, clones>>

\* url: empty, the directory to put the file in, or the file's own URL.
MysqlBackup == [exists : BOOLEAN, deleting : BOOLEAN, finalizer : BOOLEAN,
                policy : {"retain", "delete"}, url : {"none", "base", "file"},
                status : {"no", "complete", "failed"}]
NoBackup == [exists |-> FALSE, deleting |-> FALSE, finalizer |-> FALSE, policy |-> "retain",
             url |-> "none", status |-> "no"]
JobStates == {"none", "active", "complete", "failed"}

TypeOK ==
  /\ obj \in MysqlBackup /\ cache \in MysqlBackup
  /\ saved \in MysqlBackup /\ hand \in MysqlBackup /\ withCluster \in BOOLEAN
  /\ due \in BOOLEAN /\ stream \in Seq(MysqlBackup) /\ Len(stream) <= MaxLag
  /\ cluster \in {"gone", "none", "base"}
  /\ {job, jobSeen, clean, cleanSeen} \subseteq JobStates
  /\ target \in {"none", "base", "file"}
  /\ pc \in {"idle", "cleanup", "job", "update"} /\ fresh \in BOOLEAN /\ queued \in BOOLEAN
  /\ pod \in {"none", "requested", "streamed", "spoiled", "moved"}
  /\ server \in Seq([client : {"job", "clone"}, alive : BOOLEAN])
  /\ remote \in [tmp : {"none", "partial", "whole"}, file : {"none", "partial", "whole"}]
  /\ attempts \in 0..MaxAttempts /\ clones \in 0..MaxClones /\ faults \in 0..MaxFaults

Fault == faults < MaxFaults /\ faults' = faults + 1

-----------------------------------------------------------------------------
(* The API server, its watches and the user.                               *)

\* A new version of the backup is stored and on its way to the informer.
Store(o) ==
  /\ Len(stream) < MaxLag
  /\ obj' = o /\ stream' = Append(stream, o) /\ UNCHANGED cache

Deliver ==
  /\ stream # <<>>
  /\ cache' = Head(stream) /\ stream' = Tail(stream) /\ queued' = TRUE
  /\ UNCHANGED <<obj, due, cluster, jobs, pc, copies, fresh, worker, faults>>

\* Mutant: the controller does not watch the jobs.
DeliverJobsUnwatched ==
  /\ <<job, clean>> # <<jobSeen, cleanSeen>>
  /\ jobSeen' = job /\ cleanSeen' = clean
  /\ UNCHANGED <<api, cluster, job, clean, target, loop, worker, faults>>

\* An event of a job the backup controls is an event of the backup.
DeliverJobs ==
  /\ <<job, clean>> # <<jobSeen, cleanSeen>>
  /\ jobSeen' = job /\ cleanSeen' = clean /\ queued' = TRUE
  /\ UNCHANGED <<api, cluster, job, clean, target, pc, copies, fresh, worker, faults>>

UserWrites(o) ==
  /\ Store(o) /\ fresh' = FALSE
  /\ UNCHANGED <<cluster, jobs, pc, copies, queued, worker, faults>>

\* Without a finalizer the object is removed at once.
UserDeletes ==
  /\ obj.exists /\ ~obj.deleting
  /\ UserWrites(IF obj.finalizer THEN [obj EXCEPT !.deleting = TRUE]
                                 ELSE [obj EXCEPT !.exists = FALSE])
  /\ due' = (obj.status = "complete")

UserRetains ==
  /\ obj.exists /\ obj.policy = "delete"
  /\ UserWrites([obj EXCEPT !.policy = "retain"]) /\ UNCHANGED due

UserDeletesCluster ==
  /\ cluster # "gone" /\ cluster' = "gone"
  /\ UNCHANGED <<api, jobs, loop, worker, faults>>

\* The requests of a client that is no longer there stay with the server.
Abandoned(client) ==
  [i \in DOMAIN server |->
     IF server[i].client = client THEN [server[i] EXCEPT !.alive = FALSE] ELSE server[i]]

\* The jobs of a removed backup are collected, their pods killed.
CollectJobs ==
  /\ ~obj.exists /\ {job, clean} # {"none"}
  /\ job' = "none" /\ clean' = "none" /\ target' = "none" /\ pod' = "none"
  /\ server' = Abandoned("job") /\ attempts' = 0
  /\ UNCHANGED <<api, cluster, jobSeen, cleanSeen, loop, remote, clones, faults>>

-----------------------------------------------------------------------------
(* The backup controller.                                                  *)

\* The backup's own URL, completed with its file name, or one made from the
\* cluster's.
GetBackupURL(b, cl) == IF b.url # "none" \/ cl = "base" THEN "file" ELSE "none"

SetDefaults(b, cl) == [b EXCEPT !.url = GetBackupURL(b, cl)]

Return == /\ pc' = "idle" /\ fresh' = FALSE
          /\ withCluster' = FALSE /\ saved' = NoBackup /\ hand' = NoBackup

\* The error of a failed step puts the request back in the queue.
Requeue == Return /\ queued' = TRUE

\* Without its cluster a backup gets no defaults.
Begin ==
  /\ pc = "idle" /\ queued /\ queued' = FALSE
  /\ IF cache.exists
     THEN /\ saved' = cache /\ withCluster' = (cluster # "gone")
          /\ hand' = (IF cluster = "gone" THEN cache ELSE SetDefaults(cache, cluster))
          /\ pc' = "cleanup" /\ fresh' = (stream = <<>>)
     ELSE UNCHANGED <<copies, pc, fresh>>
  /\ UNCHANGED <<api, cluster, jobs, worker, faults>>

CleanupSkipped(b) == b.policy = "retain" \/ ~b.deleting \/ b.status = "failed"

\* Mutant: the finalizer is dropped as soon as the cleanup job exists.
FinalizerUntilStarted(b, seen) ==
  b.policy = "delete" /\ ~(b.deleting /\ (b.status = "failed" \/ seen # "none"))

\* Mutant: a failed backup keeps its finalizer.
FinalizerUntilCleaned(b, seen) ==
  IF b.policy = "retain" THEN b.finalizer ELSE ~(b.deleting /\ seen = "complete")

\* The finalizer the deletion syncer leaves on its copy of the backup.  Under
\* the "retain" policy one that is there is left alone.
FinalizerAfter(b, seen) ==
  IF b.policy = "retain" THEN b.finalizer
  ELSE ~(b.deleting /\ (b.status = "failed" \/ seen = "complete"))

\* Without a cluster there is no backup job to synchronise.
AfterCleanup == pc' = (IF withCluster THEN "job" ELSE "update")

\* deletionJobSyncer.SyncFn, and the creation of the cleanup job.  It fails
\* without a URL, or when the job exists and the informer does not know it.
SyncCleanup ==
  /\ pc = "cleanup"
  /\ \/ /\ CleanupSkipped(hand) \/ (hand.url # "none" /\ cleanSeen # "none")
        /\ hand' = [hand EXCEPT !.finalizer = FinalizerAfter(hand, cleanSeen)]
        /\ AfterCleanup /\ UNCHANGED <<clean, target, withCluster, saved, fresh, queued>>
     \/ /\ ~CleanupSkipped(hand) /\ hand.url # "none" /\ cleanSeen = "none" /\ clean = "none"
        /\ clean' = "active" /\ target' = hand.url
        /\ hand' = [hand EXCEPT !.finalizer = TRUE]
        /\ AfterCleanup /\ UNCHANGED <<withCluster, saved, fresh, queued>>
     \/ /\ ~CleanupSkipped(hand)
        /\ hand.url = "none" \/ (cleanSeen = "none" /\ clean # "none")
        /\ Requeue /\ UNCHANGED <<clean, target>>
  /\ UNCHANGED <<api, cluster, job, jobSeen, cleanSeen, worker, faults>>

\* The conditions of the status: a backup that is complete or failed is Completed.
UpdateStatusCondition(b, result) == [b EXCEPT !.status = result]

\* jobSyncer.updateStatus.
updateStatus(b, seen) ==
  IF seen \in {"complete", "failed"} THEN UpdateStatusCondition(b, seen) ELSE b

\* The job with its pods, which ask the server of one candidate; its name is
\* the backup's, so there is at most one.
CreateJob == job = "none" /\ job' = "active"

\* jobSyncer.SyncFn, and the creation of the job; the job of a backup that is
\* being deleted is not created.  It fails without a URL, or when the job
\* exists and the informer does not know it.
SyncJob ==
  /\ pc = "job"
  /\ \/ /\ hand.status # "no" \/ (hand.url # "none" /\ (jobSeen # "none" \/ hand.deleting))
        /\ hand' = (IF hand.status = "no" THEN updateStatus(hand, jobSeen) ELSE hand)
        /\ pc' = "update" /\ UNCHANGED <<job, withCluster, saved, fresh, queued>>
     \/ /\ hand.status = "no" /\ hand.url # "none" /\ jobSeen = "none" /\ ~hand.deleting
        /\ CreateJob
        /\ pc' = "update" /\ UNCHANGED <<copies, fresh, queued>>
     \/ /\ hand.status = "no"
        /\ hand.url = "none" \/ (jobSeen = "none" /\ ~hand.deleting /\ job # "none")
        /\ Requeue /\ UNCHANGED job
  /\ UNCHANGED <<api, cluster, jobSeen, clean, cleanSeen, target, worker, faults>>

\* updateBackup: a changed copy is stored with its status unless it is stale,
\* and a deleted backup without its finalizer is removed.  Reconcile fails when
\* the copy is stale, after a changed status (Status().Update) and without a
\* cluster.
updateBackup ==
  /\ pc = "update"
  /\ IF hand # saved /\ fresh
     THEN Store([hand EXCEPT !.exists = ~hand.deleting \/ hand.finalizer]) /\ UNCHANGED due
     ELSE UNCHANGED api
  /\ Return
  /\ queued' = (queued \/ hand.status # saved.status \/ (hand # saved /\ ~fresh) \/ ~withCluster)
  /\ UNCHANGED <<cluster, jobs, worker, faults>>

\* A call to the API server fails, or the operator is restarted: the copy in
\* memory is lost and the request comes back.
ReconcileFails ==
  /\ pc # "idle" /\ Fault /\ Requeue
  /\ UNCHANGED <<api, cluster, jobs, worker>>

-----------------------------------------------------------------------------
(* The pods of the two jobs.                                               *)

\* requestABackup in a new pod: the server answers its health check; the
\* request waits for the requests before it.
Request ==
  /\ job = "active" /\ pod = "none" /\ Len(server) < MaxRequests
  /\ pod' = "requested" /\ server' = Append(server, [client |-> "job", alive |-> TRUE])
  /\ UNCHANGED <<api, cluster, jobs, loop, remote, attempts, clones, faults>>

\* A pod that ends with an error; the last one allowed fails the job.
PodFails ==
  /\ pod' = "none" /\ attempts' = attempts + 1
  /\ job' = (IF attempts + 1 = MaxAttempts THEN "failed" ELSE job)
  /\ UNCHANGED <<api, cluster, jobSeen, clean, cleanSeen, target, loop, clones>>

\* Mutant: the trailer is not looked at.
NoTrailerCheck == pod \in {"streamed", "spoiled"}

\* checkBackupTrailers: only a stream that ended with "Success" is kept.
checkBackupTrailers == pod = "streamed"

\* The move from the .tmp name to the final one.
Move ==
  /\ checkBackupTrailers
  /\ pod' = "moved" /\ remote' = [tmp |-> "none", file |-> remote.tmp]
  /\ UNCHANGED <<api, cluster, jobs, loop, server, attempts, clones, faults>>

\* The .tmp file of a spoiled stream is left behind.
Spoiled ==
  /\ pod = "spoiled" /\ PodFails
  /\ UNCHANGED <<server, remote, faults>>

\* No server within five minutes, a broken connection, a failed upload or move,
\* a pod lost: the .tmp file may be left behind.
PodLost ==
  /\ job = "active" /\ pod # "spoiled" /\ Fault /\ PodFails
  /\ server' = Abandoned("job")
  /\ \E left \in {remote.tmp} \cup (IF pod = "requested" THEN {"partial"} ELSE {}) :
       remote' = [remote EXCEPT !.tmp = left]

JobComplete ==
  /\ pod = "moved" /\ job' = "complete" /\ pod' = "none"
  /\ UNCHANGED <<api, cluster, jobSeen, clean, cleanSeen, target, loop, server, remote,
                 attempts, clones, faults>>

\* rclone delete: with the URL of a directory it removes all that is in it.
CleanupRuns ==
  /\ clean = "active" /\ clean' = "complete" /\ target' = "none"
  /\ remote' = [tmp |-> IF target = "base" THEN "none" ELSE remote.tmp, file |-> "none"]
  /\ UNCHANGED <<api, cluster, job, jobSeen, cleanSeen, loop, pod, server, attempts, clones,
                 faults>>

CleanupFails ==
  /\ clean = "active" /\ Fault /\ clean' = "failed"
  /\ UNCHANGED <<api, cluster, job, jobSeen, cleanSeen, target, loop, worker>>

-----------------------------------------------------------------------------
(* The backup server.                                                      *)

Clone ==
  /\ clones < MaxClones /\ Len(server) < MaxRequests /\ clones' = clones + 1
  /\ server' = Append(server, [client |-> "clone", alive |-> TRUE])
  /\ UNCHANGED <<api, cluster, jobs, loop, pod, remote, attempts, faults>>

\* Mutant: the slot is not given back when the client has gone.
ReleasedOnSuccess == IF Head(server).alive THEN Tail(server) ELSE server

\* maxClients: the slot is given back however the handler returns.
Released == Tail(server)

\* backupHandler for the oldest request: xtrabackup ends well (trailer
\* "Success") or not ("Failed"); a client that has gone ends it too.
Serve(ok) ==
  /\ server # <<>> /\ server' = Released
  /\ IF Head(server) = [client |-> "job", alive |-> TRUE]
     THEN /\ pod' = (IF ok THEN "streamed" ELSE "spoiled")
          /\ remote' = [remote EXCEPT !.tmp = IF ok THEN "whole" ELSE "partial"]
     ELSE UNCHANGED <<pod, remote>>
  /\ UNCHANGED <<api, cluster, jobs, loop, attempts, clones>>

ServeWell == Serve(TRUE) /\ UNCHANGED faults
ServeBadly == Serve(FALSE) /\ Fault

\* The sidecar is restarted: its connections break.
ServerRestarts ==
  /\ server # <<>> /\ Fault /\ server' = <<>>
  /\ IF pod = "requested"
     THEN PodFails /\ remote' = [remote EXCEPT !.tmp = "partial"]
     ELSE UNCHANGED <<api, cluster, jobs, loop, pod, remote, attempts, clones>>

-----------------------------------------------------------------------------
Init ==
  /\ \E p \in {"retain", "delete"}, u \in Urls :
       obj = [exists |-> TRUE, deleting |-> FALSE, finalizer |-> FALSE, policy |-> p,
              url |-> u, status |-> "no"]
  /\ cache = obj /\ saved = NoBackup /\ hand = NoBackup /\ stream = <<>> /\ due = FALSE
  /\ cluster \in {"gone", "none", "base"} /\ withCluster = FALSE
  /\ job = "none" /\ jobSeen = "none" /\ clean = "none" /\ cleanSeen = "none"
  /\ target = "none" /\ pc = "idle" /\ fresh = FALSE /\ queued = TRUE
  /\ pod = "none" /\ server = <<>> /\ remote = [tmp |-> "none", file |-> "none"]
  /\ attempts = 0 /\ clones = 0 /\ faults = 0

ReconcileStep == Begin \/ SyncCleanup \/ SyncJob \/ updateBackup
PodStep == Request \/ Move \/ Spoiled \/ JobComplete
ServerStep == ServeWell \/ ServeBadly

Next ==
  \/ ReconcileStep \/ ReconcileFails \/ Deliver \/ DeliverJobs
  \/ UserDeletes \/ UserRetains \/ UserDeletesCluster \/ CollectJobs
  \/ PodStep \/ PodLost \/ CleanupRuns \/ CleanupFails
  \/ Clone \/ ServerStep \/ ServerRestarts

\* Every component keeps running; the user, the clones and the faults owe nothing.
Fairness ==
  /\ WF_vars(ReconcileStep) /\ WF_vars(Deliver) /\ WF_vars(DeliverJobs)
  /\ WF_vars(PodStep) /\ WF_vars(ServerStep) /\ WF_vars(CleanupRuns \/ CleanupFails)

Spec == Init /\ [][Next]_vars /\ Fairness

-----------------------------------------------------------------------------
(* Properties.                                                             *)

\* The contract: a backup reported complete is in the storage, whole, and is
\* not touched before the user deletes it.
Contract == INSTANCE BackupContract WITH
  wanted <- obj.exists /\ ~obj.deleting, reported <- obj.status, stored <- remote.file
Implements == Contract!Spec

\* A backup that has been reported complete and is then deleted under the
\* "delete" policy takes its file with it: the finalizer was stored in time and
\* was kept until the cleanup job had succeeded.
GoneMeansRemoved == due /\ ~obj.exists /\ obj.policy = "delete" => remote.file = "none"

\* A backup whose cluster exists and that has a URL reaches a final state: no
\* event is lost between jobs, informers and stale copies.
Settles ==
  (cluster # "gone" /\ GetBackupURL(obj, cluster) = "file")
    ~> (obj.status # "no" \/ obj.deleting \/ ~obj.exists \/ cluster = "gone")

\* A deleted backup goes away, unless its cleanup failed, its URL was never
\* known or its policy was changed to "retain" under the finalizer.
DeletionSettles ==
  obj.deleting ~> (~obj.exists \/ clean = "failed" \/ obj.url = "none" \/ obj.policy = "retain")

\* A replica that clones from the server gets its turn, whatever clients before
\* it did.
EveryClientServed == (clones > 0 /\ server # <<>>) ~> server = <<>>
=============================================================================
