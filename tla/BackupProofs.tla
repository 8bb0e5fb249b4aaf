---------------------------- MODULE BackupProofs ----------------------------
(***************************************************************************)
(* Proofs about Backup for every number of pods, clones, requests, faults  *)
(* and versions the informer is behind: Backup implements BackupContract,  *)
(* and a deleted backup takes its file with it.                            *)
(***************************************************************************)
EXTENDS Backup, SequenceTheorems, TLAPS

Wanted == obj.exists /\ ~obj.deleting

\* A backup that was complete when it was deleted, and is gone under the "delete"
\* policy.
Gone == due /\ ~obj.exists /\ obj.policy = "delete"

-----------------------------------------------------------------------------
(* The parts of the inductive invariant.                                   *)

\* The last version under way is the stored one; without one the informer has it.
StreamEnds == IF stream = <<>> THEN cache = obj ELSE stream[Len(stream)] = obj

\* What every copy c of the backup, however old, says that is still true of the
\* stored backup o and of the job j.
SoundFor(c, o, j) ==
  /\ c.deleting => o.deleting
  /\ o.exists /\ c.status # "no" => c.status = j
  /\ c.status # "no" /\ c.policy = "delete" /\ ~c.deleting => c.finalizer

SoundCopies ==
  /\ SoundFor(obj, obj, job) /\ SoundFor(cache, obj, job) /\ SoundFor(hand, obj, job)
  /\ \A i \in 1..Len(stream) : SoundFor(stream[i], obj, job)

\* A current copy has what the user has said, and at most a first report more.
Current ==
  fresh => /\ pc # "idle" /\ obj.exists /\ stream = <<>>
           /\ hand.deleting = obj.deleting /\ hand.policy = obj.policy
           /\ hand.status = obj.status \/ obj.status = "no"

\* The finalizer of the copy in hand, once the deletion syncer has seen it.
Guarded ==
  pc \in {"job", "update"} /\ hand.policy = "delete" /\ ~hand.finalizer =>
    hand.deleting /\ (~obj.exists \/ hand.status = "failed" \/ clean = "complete")

\* The jobs go forward, and what the informer has seen of them has happened.
Jobs ==
  /\ clean # "none" => obj.deleting
  /\ obj.exists => /\ jobSeen \in {"complete", "failed"} => job = jobSeen
                   /\ cleanSeen = "complete" => clean = "complete"
  /\ job = "active" => attempts < MaxAttempts
  /\ job = "none" => attempts = 0

\* A request of the job's pod that is still there.
Mine == [client |-> "job", alive |-> TRUE]

\* The pod that takes the backup is the one the server answers.
Pods ==
  /\ pod # "none" => job = "active"
  /\ \A i \in 1..Len(server) : server[i] = Mine => pod = "requested"
  /\ \A i, j \in 1..Len(server) : server[i] = Mine /\ server[j] = Mine => i = j

\* What is in the storage.
Files ==
  /\ remote.file # "partial"
  /\ pod = "streamed" => remote.tmp # "partial" /\ (Wanted => remote.tmp = "whole")
  /\ Wanted /\ (job = "complete" \/ pod = "moved") => remote.file = "whole"
  /\ due /\ obj.exists /\ clean = "complete" => remote.file = "none"

\* A backup that was deleted complete stays complete; when it is gone, nobody has a
\* copy left from which a new job would be made.
Deleted ==
  /\ due => obj.status = "complete" /\ (obj.exists => obj.deleting)
  /\ Gone => /\ job # "active" /\ cache.status = "complete"
             /\ pc # "idle" => hand.status = "complete"
             /\ \A i \in 1..Len(stream) : stream[i].status = "complete"

BackupInv ==
  /\ TypeOK /\ StreamEnds /\ SoundCopies /\ Current /\ Guarded /\ Jobs /\ Pods /\ Files /\ Deleted
  /\ GoneMeansRemoved
-----------------------------------------------------------------------------
(* The versions under way, and the requests of the server.                 *)

LEMMA StoreStream ==
  ASSUME TypeOK, NEW o \in MysqlBackup, Store(o)
  PROVE  /\ obj' = o /\ cache' = cache /\ StreamEnds'
         /\ stream' \in Seq(MysqlBackup) /\ Len(stream') <= MaxLag
         /\ \A i \in 1..Len(stream') :
              stream'[i] = o \/ \E j \in 1..Len(stream) : stream'[i] = stream[j]
<1>1. /\ stream \in Seq(MysqlBackup) /\ stream' = Append(stream, o) /\ obj' = o /\ cache' = cache
      /\ Len(stream) < MaxLag
  BY DEF TypeOK, Store
<1>2. /\ Len(stream') = Len(stream) + 1 /\ Len(stream) \in Nat
      /\ stream'[Len(stream) + 1] = o /\ stream' \in Seq(MysqlBackup)
      /\ \A i \in 1..Len(stream) : stream'[i] = stream[i]
  BY <1>1
<1>3. stream' # <<>>
  BY <1>1
<1>4. Len(stream') <= MaxLag
  BY <1>1, <1>2, BackupAssumption
<1> QED
  BY <1>1, <1>2, <1>3, <1>4 DEF StreamEnds

LEMMA DeliverStream ==
  ASSUME TypeOK, StreamEnds, Deliver
  PROVE  /\ obj' = obj /\ cache' \in MysqlBackup /\ StreamEnds'
         /\ stream' \in Seq(MysqlBackup) /\ Len(stream') <= MaxLag
         /\ \E j \in 1..Len(stream) : cache' = stream[j]
         /\ \A i \in 1..Len(stream') : \E j \in 1..Len(stream) : stream'[i] = stream[j]
<1>1. /\ stream \in Seq(MysqlBackup) /\ stream # <<>> /\ stream' = Tail(stream)
      /\ cache' = stream[1] /\ obj' = obj /\ Len(stream) <= MaxLag
  BY DEF TypeOK, Deliver
<1>2. /\ Len(stream) \in Nat \ {0} /\ Len(stream') = Len(stream) - 1 /\ stream' \in Seq(MysqlBackup)
      /\ \A i \in 1..Len(stream') : stream'[i] = stream[i + 1]
  BY <1>1
<1>3. 1 \in 1..Len(stream) /\ \A i \in 1..Len(stream') : i + 1 \in 1..Len(stream)
  BY <1>2
<1>4. cache' \in MysqlBackup /\ Len(stream') <= MaxLag
  BY <1>1, <1>2, <1>3, BackupAssumption
<1>5. StreamEnds'
  <2>1. CASE stream' = <<>>
    <3>1. Len(stream') = 0
      BY <2>1
    <3>2. Len(stream) = 1
      BY <1>2, <3>1
    <3> QED
      BY <1>1, <2>1, <3>2 DEF StreamEnds
  <2>2. CASE stream' # <<>>
    <3>1. Len(stream') \in 1..Len(stream')
      BY <1>2, <2>2
    <3> QED
      BY <1>1, <1>2, <2>2, <3>1 DEF StreamEnds
  <2> QED
    BY <2>1, <2>2
<1> QED
  BY <1>1, <1>2, <1>3, <1>4, <1>5

Requests == [client : {"job", "clone"}, alive : BOOLEAN]

\* Requests that are given up stay where they are, and none of them is answered.
LEMMA AbandonedRequests ==
  ASSUME server \in Seq(Requests)
  PROVE  /\ Abandoned("job") \in Seq(Requests) /\ Len(Abandoned("job")) = Len(server)
         /\ \A i \in 1..Len(server) : Abandoned("job")[i] # Mine
<1> DEFINE f(i) == IF server[i].client = "job" THEN [server[i] EXCEPT !.alive = FALSE] ELSE server[i]
<1>1. Len(server) \in Nat /\ DOMAIN server = 1..Len(server)
  OBVIOUS
<1>2. ASSUME NEW i \in 1..Len(server) PROVE f(i) \in Requests /\ f(i) # Mine
  <2>1. server[i] \in Requests
    BY <1>1
  <2>2. ASSUME NEW r \in Requests
        PROVE  /\ [r EXCEPT !.alive = FALSE] \in Requests /\ ~[r EXCEPT !.alive = FALSE].alive
               /\ Mine.client = "job" /\ Mine.alive
    BY DEF Requests, Mine
  <2>3. CASE server[i].client = "job"
    BY <2>1, <2>2, <2>3
  <2>4. CASE server[i].client # "job"
    BY <2>1, <2>2, <2>4
  <2> QED
    BY <2>3, <2>4
<1>3. Abandoned("job") = [i \in 1..Len(server) |-> f(i)]
  BY <1>1 DEF Abandoned
<1> HIDE DEF f
<1>4. Abandoned("job") \in [1..Len(server) -> Requests]
  BY <1>2, <1>3
<1>5. Abandoned("job") \in Seq(Requests)
  BY <1>1, <1>4, SeqDef
<1>6. Len(Abandoned("job")) = Len(server)
  BY <1>1, <1>4, <1>5
<1> QED
  BY <1>2, <1>3, <1>5, <1>6

\* What is true of every request stays true when one is answered.
LEMMA ReleasedRequests ==
  ASSUME server \in Seq(Requests), server # <<>>
  PROVE  /\ Released \in Seq(Requests) /\ Len(server) \in Nat \ {0}
         /\ Len(Released) = Len(server) - 1 /\ Head(server) = server[1]
         /\ \A i \in 1..Len(Released) : Released[i] = server[i + 1] /\ i + 1 \in 1..Len(server)
BY DEF Released

LEMMA NewRequest ==
  ASSUME server \in Seq(Requests), NEW r \in Requests
  PROVE  /\ Append(server, r) \in Seq(Requests) /\ Len(server) \in Nat
         /\ Len(Append(server, r)) = Len(server) + 1 /\ Append(server, r)[Len(server) + 1] = r
         /\ \A i \in 1..Len(server) : Append(server, r)[i] = server[i]
OBVIOUS
-----------------------------------------------------------------------------
(* Types.                                                                  *)

\* What the controller makes of a copy keeps what the user has said.
LEMMA CopyTypes ==
  ASSUME NEW b \in MysqlBackup
  PROVE  /\ \A cl : /\ SetDefaults(b, cl) \in MysqlBackup
                    /\ SetDefaults(b, cl).deleting = b.deleting
                    /\ SetDefaults(b, cl).policy = b.policy
                    /\ SetDefaults(b, cl).status = b.status
                    /\ SetDefaults(b, cl).finalizer = b.finalizer
         /\ \A f \in BOOLEAN : /\ [b EXCEPT !.finalizer = f] \in MysqlBackup
                               /\ [b EXCEPT !.finalizer = f].deleting = b.deleting
                               /\ [b EXCEPT !.finalizer = f].policy = b.policy
                               /\ [b EXCEPT !.finalizer = f].status = b.status
                               /\ [b EXCEPT !.finalizer = f].finalizer = f
         /\ \A x \in BOOLEAN : /\ [b EXCEPT !.exists = x] \in MysqlBackup
                               /\ [b EXCEPT !.exists = x].exists = x
                               /\ [b EXCEPT !.exists = x].deleting = b.deleting
                               /\ [b EXCEPT !.exists = x].policy = b.policy
                               /\ [b EXCEPT !.exists = x].status = b.status
                               /\ [b EXCEPT !.exists = x].finalizer = b.finalizer
         /\ \A seen : /\ updateStatus(b, seen) \in MysqlBackup
                      /\ updateStatus(b, seen).deleting = b.deleting
                      /\ updateStatus(b, seen).policy = b.policy
                      /\ updateStatus(b, seen).finalizer = b.finalizer
                      /\ \/ updateStatus(b, seen).status = b.status
                         \/ updateStatus(b, seen).status = seen /\ seen \in {"complete", "failed"}
<1>1. ASSUME NEW cl PROVE GetBackupURL(b, cl) \in {"none", "base", "file"}
  BY DEF GetBackupURL
<1> QED
  BY <1>1 DEF MysqlBackup, SetDefaults, updateStatus, UpdateStatusCondition

\* Every field is what it should be.
LEMMA FieldTypes ==
  ASSUME NEW b \in MysqlBackup
  PROVE  /\ b.exists \in BOOLEAN /\ b.deleting \in BOOLEAN /\ b.finalizer \in BOOLEAN
         /\ b.policy \in {"retain", "delete"} /\ b.url \in {"none", "base", "file"}
         /\ b.status \in {"no", "complete", "failed"}
         /\ \A seen : FinalizerAfter(b, seen) \in BOOLEAN
BY DEF MysqlBackup, FinalizerAfter

LEMMA NoBackupType ==
  NoBackup \in MysqlBackup /\ NoBackup.status = "no" /\ ~NoBackup.deleting
BY DEF NoBackup, MysqlBackup

\* The stored backup changes in three ways: the controller stores its copy, the user
\* deletes or the user changes the policy.
LEMMA ApiSteps ==
  ASSUME TypeOK, Next
  PROVE  \/ UNCHANGED <<obj, stream, cache>> \/ Deliver
         \/ (fresh \/ obj.exists) /\ \E o \in MysqlBackup : Store(o)
<1>0. obj \in MysqlBackup /\ hand \in MysqlBackup
  BY DEF TypeOK
<1>1. CASE updateBackup
  <2>1. [hand EXCEPT !.exists = ~hand.deleting \/ hand.finalizer] \in MysqlBackup
    BY <1>0, CopyTypes
  <2> QED
    BY <1>1, <2>1 DEF updateBackup, api
<1>2. CASE UserDeletes \/ UserRetains
  <2>1. /\ [obj EXCEPT !.deleting = TRUE] \in MysqlBackup
        /\ [obj EXCEPT !.exists = FALSE] \in MysqlBackup
        /\ [obj EXCEPT !.policy = "retain"] \in MysqlBackup
    BY <1>0 DEF MysqlBackup
  <2> QED
    BY <1>2, <2>1 DEF UserDeletes, UserRetains, UserWrites
<1>3. CASE Begin \/ SyncCleanup \/ SyncJob \/ ReconcileFails \/ DeliverJobs \/ UserDeletesCluster
           \/ CollectJobs
  BY <1>3 DEF Begin, SyncCleanup, SyncJob, ReconcileFails, DeliverJobs, UserDeletesCluster,
     CollectJobs, api
<1>4. CASE PodStep \/ PodLost \/ CleanupRuns \/ CleanupFails \/ Clone \/ ServerStep \/ ServerRestarts
  BY <1>4 DEF PodStep, Request, Move, Spoiled, JobComplete, PodLost, PodFails, CleanupRuns,
     CleanupFails, Clone, ServerStep, ServeWell, ServeBadly, Serve, ServerRestarts, api
<1> QED
  BY <1>1, <1>2, <1>3, <1>4 DEF Next, ReconcileStep

LEMMA ApiNext ==
  ASSUME TypeOK, StreamEnds, Next
  PROVE  /\ obj' \in MysqlBackup /\ cache' \in MysqlBackup /\ stream' \in Seq(MysqlBackup)
         /\ Len(stream') <= MaxLag /\ StreamEnds'
<1>1. CASE UNCHANGED <<obj, stream, cache>>
  BY <1>1 DEF TypeOK, StreamEnds
<1>2. CASE Deliver
  BY <1>2, DeliverStream DEF TypeOK
<1>3. ASSUME NEW o \in MysqlBackup, Store(o)
      PROVE  /\ obj' \in MysqlBackup /\ cache' \in MysqlBackup /\ stream' \in Seq(MysqlBackup)
             /\ Len(stream') <= MaxLag /\ StreamEnds'
  BY <1>3, StoreStream DEF TypeOK
<1> QED
  BY <1>1, <1>2, <1>3, ApiSteps

\* The steps that do not belong to Reconcile leave its copies alone.
LEMMA LoopSteps ==
  ASSUME Next
  PROVE  \/ ReconcileStep \/ ReconcileFails
         \/ UNCHANGED <<pc, withCluster, saved, hand>> /\ (fresh' = fresh \/ fresh' = FALSE)
BY DEF Next, Deliver, DeliverJobs, UserDeletes, UserRetains, UserWrites, UserDeletesCluster,
   CollectJobs, PodStep, Request, Move, Spoiled, JobComplete, PodLost, PodFails, CleanupRuns,
   CleanupFails, Clone, ServerStep, ServeWell, ServeBadly, Serve, ServerRestarts, loop, copies

LEMMA CopiesNext ==
  ASSUME TypeOK, Next
  PROVE  saved' \in MysqlBackup /\ hand' \in MysqlBackup
<1>0. cache \in MysqlBackup /\ saved \in MysqlBackup /\ hand \in MysqlBackup
  BY DEF TypeOK
<1>1. CASE Begin
  BY <1>0, <1>1, CopyTypes DEF Begin, copies
<1>2. CASE SyncCleanup
  <2>1. ASSUME NEW f \in BOOLEAN PROVE [hand EXCEPT !.finalizer = f] \in MysqlBackup
    BY <1>0, CopyTypes
  <2>2. FinalizerAfter(hand, cleanSeen) \in BOOLEAN
    BY <1>0, FieldTypes
  <2> QED
    BY <1>0, <1>2, <2>1, <2>2, NoBackupType DEF SyncCleanup, Requeue, Return
<1>3. CASE SyncJob
  BY <1>0, <1>3, CopyTypes, NoBackupType DEF SyncJob, Requeue, Return, copies
<1>4. CASE updateBackup \/ ReconcileFails
  BY <1>4, NoBackupType DEF updateBackup, ReconcileFails, Requeue, Return
<1> QED
  BY <1>0, <1>1, <1>2, <1>3, <1>4, LoopSteps DEF ReconcileStep

LEMMA FlagsNext ==
  ASSUME TypeOK, Next
  PROVE  /\ fresh' \in BOOLEAN /\ queued' \in BOOLEAN /\ due' \in BOOLEAN
         /\ withCluster' \in BOOLEAN
<1> USE DEF TypeOK, Requeue, Return, api, loop, copies
<1>1. CASE Begin
  BY <1>1, Zenon DEF Begin
<1>2. CASE SyncCleanup
  BY <1>2, Zenon DEF SyncCleanup
<1>3. CASE SyncJob
  BY <1>3, Zenon DEF SyncJob
<1>4. CASE updateBackup
  BY <1>4, Zenon DEF updateBackup
<1>5. CASE ReconcileFails \/ Deliver \/ DeliverJobs
  BY <1>5, Zenon DEF ReconcileFails, Deliver, DeliverJobs
<1>6. CASE UserDeletes \/ UserRetains \/ UserDeletesCluster \/ CollectJobs
  BY <1>6, Zenon DEF UserDeletes, UserRetains, UserWrites, UserDeletesCluster, CollectJobs
<1>7. CASE PodStep \/ PodLost
  BY <1>7, Zenon DEF PodStep, Request, Move, Spoiled, JobComplete, PodLost, PodFails
<1>8. CASE CleanupRuns \/ CleanupFails \/ Clone \/ ServerStep
  BY <1>8, Zenon DEF CleanupRuns, CleanupFails, Clone, ServerStep, ServeWell, ServeBadly, Serve
<1>9. CASE ServerRestarts
  BY <1>9, Zenon DEF ServerRestarts, PodFails
<1> QED
  BY <1>1, <1>2, <1>3, <1>4, <1>5, <1>6, <1>7, <1>8, <1>9 DEF Next, ReconcileStep

LEMMA PlacesNext ==
  ASSUME TypeOK, Next
  PROVE  /\ cluster' \in {"gone", "none", "base"} /\ target' \in {"none", "base", "file"}
         /\ job' \in JobStates /\ jobSeen' \in JobStates
         /\ clean' \in JobStates /\ cleanSeen' \in JobStates
         /\ pc' \in {"idle", "cleanup", "job", "update"}
         /\ pod' \in {"none", "requested", "streamed", "spoiled", "moved"}
<1>0. /\ hand.url \in {"none", "base", "file"}
      /\ job \in JobStates /\ jobSeen \in JobStates /\ clean \in JobStates /\ cleanSeen \in JobStates
  BY FieldTypes DEF TypeOK
<1> USE <1>0 DEF TypeOK, JobStates, Requeue, Return, jobs, loop, copies, worker
<1>1. CASE ReconcileStep
  BY <1>1 DEF ReconcileStep, Begin, SyncCleanup, AfterCleanup, SyncJob, CreateJob, updateBackup
<1>2. CASE ReconcileFails \/ Deliver \/ DeliverJobs \/ UserDeletes \/ UserRetains
           \/ UserDeletesCluster \/ CollectJobs
  BY <1>2 DEF ReconcileFails, Deliver, DeliverJobs, UserDeletes, UserRetains, UserWrites,
     UserDeletesCluster, CollectJobs
<1>3. CASE PodStep \/ PodLost \/ CleanupRuns \/ CleanupFails
  BY <1>3 DEF PodStep, Request, Move, Spoiled, JobComplete, PodLost, PodFails, CleanupRuns,
     CleanupFails
<1>4. CASE Clone \/ ServerStep \/ ServerRestarts
  BY <1>4 DEF Clone, ServerStep, ServeWell, ServeBadly, Serve, ServerRestarts, PodFails
<1> QED
  BY <1>1, <1>2, <1>3, <1>4 DEF Next

\* The server's requests change in five ways.
LEMMA ServerSteps ==
  ASSUME Next
  PROVE  \/ server' = server /\ (pod' = pod \/ pod # "requested")
         \/ server' = <<>> /\ ServerRestarts
         \/ server' = Abandoned("job") /\ (CollectJobs \/ PodLost)
         \/ server' = Append(server, Mine) /\ Request
         \/ server' = Append(server, [client |-> "clone", alive |-> TRUE]) /\ Clone
         \/ server # <<>> /\ server' = Released /\ ServerStep
<1>1. CASE ReconcileStep \/ ReconcileFails \/ Deliver \/ DeliverJobs \/ UserDeletes \/ UserRetains
           \/ UserDeletesCluster \/ CleanupRuns \/ CleanupFails
  <2>1. server' = server /\ pod' = pod
    BY <1>1 DEF ReconcileStep, Begin, SyncCleanup, SyncJob, updateBackup, ReconcileFails, Deliver,
       DeliverJobs, UserDeletes, UserRetains, UserWrites, UserDeletesCluster, CleanupRuns,
       CleanupFails, worker
  <2> QED
    BY <2>1
<1>2. CASE CollectJobs
  BY <1>2 DEF CollectJobs
<1>3. CASE PodStep \/ PodLost
  <2>1. CASE Move \/ Spoiled \/ JobComplete
    BY <2>1 DEF Move, Spoiled, JobComplete, checkBackupTrailers
  <2>2. CASE Request
    BY <2>2 DEF Request, Mine
  <2>3. CASE PodLost
    BY <2>3 DEF PodLost
  <2> QED
    BY <1>3, <2>1, <2>2, <2>3 DEF PodStep
<1>4. CASE Clone \/ ServerRestarts
  BY <1>4 DEF Clone, ServerRestarts
<1>5. CASE ServerStep
  BY <1>5 DEF ServerStep, ServeWell, ServeBadly, Serve
<1> QED
  BY <1>1, <1>2, <1>3, <1>4, <1>5 DEF Next

LEMMA ServerNext ==
  ASSUME TypeOK, Next
  PROVE  server' \in Seq(Requests)
<1>1. server \in Seq(Requests) /\ <<>> \in Seq(Requests)
  BY DEF TypeOK, Requests
<1>2. Mine \in Requests /\ [client |-> "clone", alive |-> TRUE] \in Requests
  BY DEF Mine, Requests
<1> QED
  BY <1>1, <1>2, ServerSteps, AbandonedRequests, NewRequest, ReleasedRequests

Storage == [tmp : {"none", "partial", "whole"}, file : {"none", "partial", "whole"}]

LEMMA RemoteNext ==
  ASSUME TypeOK, Next
  PROVE  remote' \in Storage
<1>0. remote \in Storage
  BY DEF TypeOK, Storage
<1>1. CASE Move \/ CleanupRuns
  BY <1>0, <1>1 DEF Move, CleanupRuns, Storage
<1>2. CASE PodLost
  <2>1. PICK left \in {"none", "partial", "whole"} : remote' = [remote EXCEPT !.tmp = left]
    BY <1>0, <1>2 DEF PodLost, Storage
  <2> QED
    BY <1>0, <2>1 DEF Storage
<1>3. CASE ServerStep \/ ServerRestarts
  BY <1>0, <1>3 DEF ServerStep, ServeWell, ServeBadly, Serve, ServerRestarts, Storage
<1>4. CASE UNCHANGED remote
  BY <1>0, <1>4
<1> QED
  BY <1>1, <1>2, <1>3, <1>4 DEF Next, ReconcileStep, Begin, SyncCleanup, SyncJob, updateBackup,
     ReconcileFails, Deliver, DeliverJobs, UserDeletes, UserRetains, UserWrites,
     UserDeletesCluster, CollectJobs, PodStep, Request, Spoiled, JobComplete, CleanupFails, Clone,
     worker

LEMMA BoundsNext ==
  ASSUME TypeOK, Jobs, Pods, Next
  PROVE  attempts' \in 0..MaxAttempts /\ clones' \in 0..MaxClones /\ faults' \in 0..MaxFaults
<1> USE BackupAssumption
<1>1. UNCHANGED faults \/ Fault
  BY DEF Next, ReconcileStep, Begin, SyncCleanup, SyncJob, updateBackup, ReconcileFails, Deliver,
     DeliverJobs, UserDeletes, UserRetains, UserWrites, UserDeletesCluster, CollectJobs, PodStep,
     Request, Move, Spoiled, JobComplete, PodLost, CleanupRuns, CleanupFails, Clone, ServerStep,
     ServeWell, ServeBadly, ServerRestarts
<1>2. UNCHANGED clones \/ (clones < MaxClones /\ clones' = clones + 1)
  BY DEF Next, ReconcileStep, Begin, SyncCleanup, SyncJob, updateBackup, ReconcileFails, Deliver,
     DeliverJobs, UserDeletes, UserRetains, UserWrites, UserDeletesCluster, CollectJobs, PodStep,
     Request, Move, Spoiled, JobComplete, PodLost, PodFails, CleanupRuns, CleanupFails, Clone,
     ServerStep, ServeWell, ServeBadly, Serve, ServerRestarts, worker
<1>3. UNCHANGED attempts \/ attempts' = 0 \/ (job = "active" /\ attempts' = attempts + 1)
  BY DEF Pods, Next, ReconcileStep, Begin, SyncCleanup, SyncJob, updateBackup, ReconcileFails,
     Deliver, DeliverJobs, UserDeletes, UserRetains, UserWrites, UserDeletesCluster, CollectJobs,
     PodStep, Request, Move, Spoiled, JobComplete, PodLost, PodFails, CleanupRuns, CleanupFails,
     Clone, ServerStep, ServeWell, ServeBadly, Serve, ServerRestarts, worker
<1>4. faults' \in 0..MaxFaults /\ clones' \in 0..MaxClones
  BY <1>1, <1>2 DEF TypeOK, Fault
<1>5. attempts' \in 0..MaxAttempts
  BY <1>3 DEF TypeOK, Jobs
<1> QED
  BY <1>4, <1>5

LEMMA TypeNext ==
  ASSUME TypeOK, StreamEnds, Jobs, Pods, Next
  PROVE  TypeOK'
BY ApiNext, CopiesNext, FlagsNext, PlacesNext, ServerNext, RemoteNext, BoundsNext
   DEF TypeOK, Requests, Storage
-----------------------------------------------------------------------------
(* Every step keeps every part.                                            *)

\* Only updateBackup writes what Reconcile has in hand.
LEMMA CurrentNext ==
  ASSUME TypeOK, StreamEnds, Current, Next
  PROVE  Current'
<1>0. cache \in MysqlBackup /\ hand \in MysqlBackup /\ FinalizerAfter(hand, cleanSeen) \in BOOLEAN
  BY FieldTypes DEF TypeOK
<1> USE DEF Current
<1>1. CASE Begin
  <2>1. CASE fresh'
    <3>1. PICK cl : hand' = cache \/ hand' = SetDefaults(cache, cl)
      BY <1>1, <2>1 DEF Begin, copies
    <3>2. /\ pc' = "cleanup" /\ stream = <<>> /\ cache.exists
          /\ UNCHANGED <<obj, stream>>
      BY <1>1, <2>1 DEF Begin, copies, api
    <3>3. cache = obj
      BY <3>2 DEF StreamEnds
    <3> QED
      BY <1>0, <3>1, <3>2, <3>3, CopyTypes
  <2>2. CASE ~fresh'
    BY <2>2
  <2> QED
    BY <2>1, <2>2
<1>2. CASE SyncCleanup
  <2>1. CASE fresh'
    <3>1. PICK f \in BOOLEAN : hand' = [hand EXCEPT !.finalizer = f]
      BY <1>0, <1>2, <2>1 DEF SyncCleanup, Requeue, Return
    <3>2. pc' \in {"job", "update"} /\ fresh /\ UNCHANGED <<obj, stream>>
      BY <1>2, <2>1 DEF SyncCleanup, AfterCleanup, Requeue, Return, api
    <3> QED
      BY <1>0, <3>1, <3>2, CopyTypes
  <2>2. CASE ~fresh'
    BY <2>2
  <2> QED
    BY <2>1, <2>2
<1>3. CASE SyncJob
  <2>1. CASE fresh'
    <3>1. /\ hand' = hand \/ (hand.status = "no" /\ hand' = updateStatus(hand, jobSeen))
          /\ pc' = "update" /\ fresh /\ UNCHANGED <<obj, stream>>
      BY <1>3, <2>1 DEF SyncJob, Requeue, Return, copies, api
    <3> QED
      BY <1>0, <3>1, CopyTypes
  <2>2. CASE ~fresh'
    BY <2>2
  <2> QED
    BY <2>1, <2>2
<1>4. CASE updateBackup \/ ReconcileFails
  BY <1>4 DEF updateBackup, ReconcileFails, Requeue, Return
<1>5. CASE UserDeletes \/ UserRetains
  BY <1>5 DEF UserDeletes, UserRetains, UserWrites
<1>6. CASE Deliver \/ DeliverJobs \/ UserDeletesCluster \/ CollectJobs
  BY <1>6 DEF Deliver, DeliverJobs, UserDeletesCluster, CollectJobs, api, loop, copies
<1>7. CASE PodStep \/ PodLost \/ CleanupRuns \/ CleanupFails \/ Clone \/ ServerStep \/ ServerRestarts
  BY <1>7 DEF PodStep, Request, Move, Spoiled, JobComplete, PodLost, PodFails, CleanupRuns,
     CleanupFails, Clone, ServerStep, ServeWell, ServeBadly, Serve, ServerRestarts, api, loop,
     copies
<1> QED
  BY <1>1, <1>2, <1>3, <1>4, <1>5, <1>6, <1>7 DEF Next, ReconcileStep

\* The backup is deleted for good, and its job, once ended, stays as it is.
LEMMA Progress ==
  ASSUME TypeOK, Current, Pods, Next
  PROVE  /\ obj.deleting => obj'.deleting
         /\ obj'.exists => obj.exists /\ (job' = job \/ job \in {"none", "active"})
<1>0. obj \in MysqlBackup /\ hand \in MysqlBackup
  BY DEF TypeOK
<1>1. CASE updateBackup
  <2> DEFINE o == [hand EXCEPT !.exists = ~hand.deleting \/ hand.finalizer]
  <2>1. o.deleting = hand.deleting
    BY <1>0, CopyTypes
  <2>2. ((obj' = o /\ fresh) \/ obj' = obj) /\ job' = job
    BY <1>1 DEF updateBackup, Store, api, jobs
  <2> HIDE DEF o
  <2> QED
    BY <2>1, <2>2 DEF Current
<1>2. CASE UserDeletes \/ UserRetains
  BY <1>0, <1>2 DEF UserDeletes, UserRetains, UserWrites, Store, jobs, MysqlBackup
<1>3. CASE Begin \/ SyncCleanup \/ SyncJob \/ ReconcileFails \/ Deliver \/ DeliverJobs
           \/ UserDeletesCluster \/ CollectJobs
  BY <1>3 DEF Begin, SyncCleanup, SyncJob, CreateJob, ReconcileFails, Deliver, DeliverJobs,
     UserDeletesCluster, CollectJobs, api, jobs
<1>4. CASE PodStep \/ PodLost \/ CleanupRuns \/ CleanupFails \/ Clone \/ ServerStep \/ ServerRestarts
  BY <1>4 DEF Pods, PodStep, Request, Move, Spoiled, JobComplete, PodLost, PodFails, CleanupRuns,
     CleanupFails, Clone, ServerStep, ServeWell, ServeBadly, Serve, ServerRestarts, api, jobs
<1> QED
  BY <1>1, <1>2, <1>3, <1>4 DEF Next, ReconcileStep

\* So what a copy says stays true.
LEMMA SoundStays ==
  ASSUME NEW c \in MysqlBackup, NEW o, NEW p, NEW j, NEW k, SoundFor(c, o, j),
         o.deleting => p.deleting, p.exists => o.exists /\ (k = j \/ j \in {"none", "active"})
  PROVE  SoundFor(c, p, k)
BY FieldTypes DEF SoundFor

LEMMA SoundNext ==
  ASSUME TypeOK, StreamEnds, SoundCopies, Current, Guarded, Jobs, Pods, Next
  PROVE  SoundCopies'
<1>0. /\ obj \in MysqlBackup /\ cache \in MysqlBackup /\ hand \in MysqlBackup
      /\ stream \in Seq(MysqlBackup) /\ \A i \in 1..Len(stream) : stream[i] \in MysqlBackup
  BY DEF TypeOK
<1>1. /\ obj.deleting => obj'.deleting
      /\ obj'.exists => obj.exists /\ (job' = job \/ job \in {"none", "active"})
  BY Progress
<1>2. /\ SoundFor(obj, obj', job') /\ SoundFor(cache, obj', job') /\ SoundFor(hand, obj', job')
      /\ \A i \in 1..Len(stream) : SoundFor(stream[i], obj', job')
  BY <1>0, <1>1, SoundStays DEF SoundCopies
<1>3. SoundFor(obj', obj', job')
  <2>1. CASE updateBackup
    <3> DEFINE o == [hand EXCEPT !.exists = ~hand.deleting \/ hand.finalizer]
    <3>1. /\ o.deleting = hand.deleting /\ o.status = hand.status /\ o.policy = hand.policy
          /\ o.finalizer = hand.finalizer
      BY <1>0, CopyTypes
    <3>2. obj' = o \/ obj' = obj
      BY <2>1 DEF updateBackup, Store, api
    <3> HIDE DEF o
    <3> QED
      BY <1>2, <3>1, <3>2 DEF SoundFor
  <2>2. CASE UserDeletes \/ UserRetains
    BY <1>0, <1>2, <2>2 DEF UserDeletes, UserRetains, UserWrites, Store, SoundFor, MysqlBackup
  <2>3. CASE ~updateBackup /\ ~UserDeletes /\ ~UserRetains
    <3>1. obj' = obj
      BY <2>3 DEF Next, ReconcileStep, Begin, SyncCleanup, SyncJob, ReconcileFails, Deliver,
         DeliverJobs, UserDeletesCluster, CollectJobs, PodStep, Request, Move, Spoiled,
         JobComplete, PodLost, PodFails, CleanupRuns, CleanupFails, Clone, ServerStep, ServeWell,
         ServeBadly, Serve, ServerRestarts, api
    <3> QED
      BY <1>2, <3>1
  <2> QED
    BY <2>1, <2>2, <2>3
<1>4. SoundFor(cache', obj', job') /\ \A i \in 1..Len(stream') : SoundFor(stream'[i], obj', job')
  <2>1. CASE UNCHANGED <<obj, stream, cache>>
    BY <1>2, <2>1
  <2>2. CASE Deliver
    BY <1>2, <2>2, DeliverStream
  <2>3. ASSUME NEW o \in MysqlBackup, Store(o)
        PROVE  SoundFor(cache', obj', job') /\ \A i \in 1..Len(stream') : SoundFor(stream'[i], obj', job')
    BY <1>2, <1>3, <2>3, StoreStream
  <2> QED
    BY <2>1, <2>2, <2>3, ApiSteps
<1>5. SoundFor(hand', obj', job')
  <2>0. SoundFor(NoBackup, obj', job')
    BY NoBackupType DEF SoundFor
  <2>1. CASE Begin
    <3>1. PICK cl : hand' = hand \/ hand' = cache \/ hand' = SetDefaults(cache, cl)
      BY <2>1 DEF Begin, copies
    <3> QED
      BY <1>0, <1>2, <3>1, CopyTypes DEF SoundFor
  <2>2. CASE SyncCleanup
    <3>1. FinalizerAfter(hand, cleanSeen) \in BOOLEAN
      BY <1>0, FieldTypes
    <3>2. PICK f \in BOOLEAN : /\ hand' = NoBackup \/ hand' = [hand EXCEPT !.finalizer = f]
                               /\ f = TRUE \/ f = FinalizerAfter(hand, cleanSeen)
      BY <2>2, <3>1 DEF SyncCleanup, Requeue, Return
    <3>3. hand.policy = "delete" /\ ~hand.deleting => f
      BY <3>2 DEF FinalizerAfter
    <3> DEFINE h == [hand EXCEPT !.finalizer = f]
    <3>4. /\ h.deleting = hand.deleting /\ h.policy = hand.policy /\ h.status = hand.status
          /\ h.finalizer = f
      BY <1>0, CopyTypes
    <3>5. hand' = NoBackup \/ hand' = h
      BY <3>2
    <3> HIDE DEF h
    <3> QED
      BY <1>2, <2>0, <3>3, <3>4, <3>5 DEF SoundFor
  <2>3. CASE SyncJob
    <3>1. \/ hand' = NoBackup \/ hand' = hand
          \/ hand' = updateStatus(hand, jobSeen) /\ pc = "job" /\ job' = job /\ obj' = obj
      BY <2>3 DEF SyncJob, Requeue, Return, copies, api
    <3> QED
      BY <1>0, <1>2, <2>0, <3>1, CopyTypes DEF SoundFor, Guarded, Jobs
  <2>4. CASE updateBackup \/ ReconcileFails
    BY <2>0, <2>4 DEF updateBackup, ReconcileFails, Requeue, Return
  <2> QED
    BY <1>2, <2>1, <2>2, <2>3, <2>4, LoopSteps DEF ReconcileStep
<1> QED
  BY <1>3, <1>4, <1>5 DEF SoundCopies

\* The cleanup job, once complete, stays so as long as the backup exists.
LEMMA CleanSteps ==
  ASSUME Next
  PROVE  \/ clean' = clean
         \/ clean \in {"none", "active"}
         \/ ~obj.exists
BY DEF Next, ReconcileStep, Begin, SyncCleanup, SyncJob, updateBackup, ReconcileFails, Deliver,
   DeliverJobs, UserDeletes, UserRetains, UserWrites, UserDeletesCluster, CollectJobs, PodStep,
   Request, Move, Spoiled, JobComplete, PodLost, PodFails, CleanupRuns, CleanupFails, Clone,
   ServerStep, ServeWell, ServeBadly, Serve, ServerRestarts, jobs

LEMMA GuardedNext ==
  ASSUME TypeOK, Current, Guarded, Jobs, Pods, Next
  PROVE  Guarded'
<1>0. hand \in MysqlBackup /\ FinalizerAfter(hand, cleanSeen) \in BOOLEAN
  BY FieldTypes DEF TypeOK
<1>1. /\ obj'.exists => obj.exists
      /\ clean = "complete" => clean' = "complete" \/ ~obj.exists
  BY Progress, CleanSteps
<1> USE DEF Guarded
<1>2. CASE SyncCleanup
  <2> SUFFICES ASSUME pc' \in {"job", "update"}, hand'.policy = "delete", ~hand'.finalizer
               PROVE  hand'.deleting /\ (~obj'.exists \/ hand'.status = "failed" \/ clean' = "complete")
    OBVIOUS
  <2>1. PICK f \in BOOLEAN : /\ hand' = [hand EXCEPT !.finalizer = f]
                             /\ f = TRUE \/ (f = FinalizerAfter(hand, cleanSeen) /\ clean' = clean)
    BY <1>0, <1>2 DEF SyncCleanup, Requeue, Return
  <2>2. ~f /\ hand'.deleting = hand.deleting /\ hand'.status = hand.status /\ hand.policy = "delete"
    BY <1>0, <2>1, CopyTypes
  <2>3. hand.deleting /\ (hand.status = "failed" \/ cleanSeen = "complete") /\ clean' = clean
    BY <2>1, <2>2 DEF FinalizerAfter
  <2> QED
    BY <1>1, <2>2, <2>3 DEF Jobs
<1>3. CASE SyncJob
  <2>1. CASE pc' = "idle"
    BY <2>1
  <2>2. CASE pc' # "idle"
    <3>1. /\ hand' = hand \/ (hand.status = "no" /\ hand' = updateStatus(hand, jobSeen))
          /\ pc = "job" /\ clean' = clean /\ obj' = obj
      BY <1>3, <2>2 DEF SyncJob, Requeue, Return, copies, api
    <3>2. /\ hand'.policy = hand.policy /\ hand'.finalizer = hand.finalizer
          /\ hand'.deleting = hand.deleting /\ (hand.status = "failed" => hand'.status = "failed")
      BY <1>0, <3>1, CopyTypes
    <3> QED
      BY <3>1, <3>2
  <2> QED
    BY <2>1, <2>2
<1>4. CASE Begin
  BY <1>1, <1>4 DEF Begin, copies, api, jobs
<1>5. CASE updateBackup \/ ReconcileFails
  BY <1>5 DEF updateBackup, ReconcileFails, Requeue, Return
<1> QED
  BY <1>1, <1>2, <1>3, <1>4, <1>5, LoopSteps DEF ReconcileStep

LEMMA JobsNext ==
  ASSUME TypeOK, SoundCopies, Current, Jobs, Pods, Next
  PROVE  Jobs'
<1>1. /\ obj.deleting => obj'.deleting
      /\ obj'.exists => obj.exists /\ (job' = job \/ job \in {"none", "active"})
  BY Progress
<1>2. clean' # "none" => obj'.deleting
  <2>1. clean' = clean \/ clean # "none" \/ hand.deleting
    BY DEF Next, ReconcileStep, Begin, SyncCleanup, CleanupSkipped, SyncJob, updateBackup,
       ReconcileFails, Deliver, DeliverJobs, UserDeletes, UserRetains, UserWrites,
       UserDeletesCluster, CollectJobs, PodStep, Request, Move, Spoiled, JobComplete, PodLost,
       PodFails, CleanupRuns, CleanupFails, Clone, ServerStep, ServeWell, ServeBadly, Serve,
       ServerRestarts, jobs
  <2> QED
    BY <1>1, <2>1 DEF Jobs, SoundCopies, SoundFor
<1>3. \/ jobSeen' = jobSeen /\ cleanSeen' = cleanSeen
      \/ jobSeen' = job' /\ cleanSeen' = clean'
  BY DEF Next, ReconcileStep, Begin, SyncCleanup, SyncJob, updateBackup, ReconcileFails, Deliver,
     DeliverJobs, UserDeletes, UserRetains, UserWrites, UserDeletesCluster, CollectJobs, PodStep,
     Request, Move, Spoiled, JobComplete, PodLost, PodFails, CleanupRuns, CleanupFails, Clone,
     ServerStep, ServeWell, ServeBadly, Serve, ServerRestarts, jobs
<1>4. obj'.exists => /\ jobSeen' \in {"complete", "failed"} => job' = jobSeen'
                     /\ cleanSeen' = "complete" => clean' = "complete"
  BY <1>1, <1>3, CleanSteps DEF Jobs
<1>5. /\ job' = "active" => attempts' < MaxAttempts
      /\ job' = "none" => attempts' = 0
  <2>1. \/ job' = job /\ attempts' = attempts
        \/ job = "none" /\ attempts' = attempts
        \/ job' = "none" /\ attempts' = 0
        \/ job' \in {"complete", "failed"}
        \/ job = "active" /\ job' = job /\ attempts' = attempts + 1 /\ attempts + 1 # MaxAttempts
    BY DEF Pods, Next, ReconcileStep, Begin, SyncCleanup, SyncJob, CreateJob, updateBackup,
       ReconcileFails, Deliver, DeliverJobs, UserDeletes, UserRetains, UserWrites,
       UserDeletesCluster, CollectJobs, PodStep, Request, Move, Spoiled, JobComplete, PodLost,
       PodFails, CleanupRuns, CleanupFails, Clone, ServerStep, ServeWell, ServeBadly, Serve,
       ServerRestarts, jobs, worker
  <2> QED
    BY <2>1, BackupAssumption DEF TypeOK, Jobs
<1> QED
  BY <1>2, <1>4, <1>5 DEF Jobs

\* The pod and its job move together.
LEMMA PodJobNext ==
  ASSUME TypeOK, Pods, Next
  PROVE  pod' # "none" => job' = "active"
<1>0. /\ server \in Seq(Requests)
      /\ server # <<>> => Head(server) = server[1] /\ 1 \in 1..Len(server)
  BY ReleasedRequests DEF TypeOK, Requests
<1> USE DEF jobs, worker
<1>1. CASE ReconcileStep
  BY <1>1 DEF Pods, ReconcileStep, Begin, SyncCleanup, SyncJob, CreateJob, updateBackup
<1>2. CASE ReconcileFails \/ Deliver \/ DeliverJobs \/ UserDeletes \/ UserRetains
           \/ UserDeletesCluster \/ CollectJobs
  BY <1>2 DEF Pods, ReconcileFails, Deliver, DeliverJobs, UserDeletes, UserRetains, UserWrites,
     UserDeletesCluster, CollectJobs
<1>3. CASE PodStep \/ PodLost \/ CleanupRuns \/ CleanupFails \/ Clone \/ ServerRestarts
  BY <1>3 DEF Pods, PodStep, Request, Move, Spoiled, JobComplete, PodLost, PodFails, CleanupRuns,
     CleanupFails, Clone, ServerRestarts, checkBackupTrailers
<1>4. CASE ServerStep
  <2>1. /\ job' = job /\ (pod' = pod \/ server[1] = Mine) /\ server # <<>>
    BY <1>0, <1>4 DEF ServerStep, ServeWell, ServeBadly, Serve, Mine
  <2> QED
    BY <1>0, <2>1 DEF Pods
<1> QED
  BY <1>1, <1>2, <1>3, <1>4 DEF Next

LEMMA PodsNext ==
  ASSUME TypeOK, Pods, Next
  PROVE  Pods'
<1>0. server \in Seq(Requests)
  BY DEF TypeOK, Requests
<1> SUFFICES /\ \A i \in 1..Len(server') : server'[i] = Mine => pod' = "requested"
             /\ \A i, j \in 1..Len(server') : server'[i] = Mine /\ server'[j] = Mine => i = j
  BY PodJobNext DEF Pods
<1>1. CASE server' = server /\ (pod' = pod \/ pod # "requested")
  BY <1>1 DEF Pods
<1>2. CASE server' = <<>>
  BY <1>2
<1>3. CASE server' = Abandoned("job")
  BY <1>0, <1>3, AbandonedRequests
<1>4. CASE server' = Append(server, Mine) /\ Request
  <2>1. \A i \in 1..Len(server) : server[i] # Mine
    BY <1>4 DEF Pods, Request
  <2>2. pod' = "requested" /\ Mine \in Requests
    BY <1>4 DEF Request, Mine, Requests
  <2>3. \A i \in 1..Len(server') : server'[i] = Mine => i = Len(server')
    BY <1>0, <1>4, <2>1, <2>2, NewRequest
  <2> QED
    BY <2>2, <2>3
<1>5. CASE server' = Append(server, [client |-> "clone", alive |-> TRUE]) /\ Clone
  <2>1. [client |-> "clone", alive |-> TRUE] \in Requests /\ [client |-> "clone", alive |-> TRUE] # Mine
    BY DEF Mine, Requests
  <2>2. \A i \in 1..Len(server') : server'[i] = Mine => i \in 1..Len(server) /\ server[i] = Mine
    BY <1>0, <1>5, <2>1, NewRequest
  <2>3. pod' = pod
    BY <1>5 DEF Clone
  <2> QED
    BY <2>2, <2>3 DEF Pods
<1>6. CASE server # <<>> /\ server' = Released /\ ServerStep
  <2>1. /\ Len(server) \in Nat \ {0} /\ Len(server') = Len(server) - 1 /\ Head(server) = server[1]
        /\ 1 \in 1..Len(server)
        /\ \A i \in 1..Len(server') : server'[i] = server[i + 1] /\ i + 1 \in 1..Len(server)
    BY <1>0, <1>6, ReleasedRequests
  <2>2. pod' = pod \/ server[1] = Mine
    BY <1>6, <2>1 DEF ServerStep, ServeWell, ServeBadly, Serve, Mine
  <2>3. server[1] = Mine => \A i \in 1..Len(server') : server'[i] # Mine
    BY <2>1 DEF Pods
  <2>4. \A i, j \in 1..Len(server') : server'[i] = Mine /\ server'[j] = Mine => i = j
    BY <2>1 DEF Pods
  <2> QED
    BY <2>1, <2>2, <2>3, <2>4 DEF Pods
<1> QED
  BY <1>1, <1>2, <1>3, <1>4, <1>5, <1>6, ServerSteps

\* A step that changes the storage is one of the pod, the server or the cleanup.
LEMMA RemoteSteps ==
  ASSUME TypeOK, Pods, Next
  PROVE  \/ remote' = remote /\ pod' = pod /\ (job' = job \/ job' \in {"none", "active"})
         \/ remote' = remote /\ CollectJobs
         \/ remote' = remote /\ Request
         \/ remote' = remote /\ JobComplete
         \/ remote'.file = remote.file /\ pod' = "none" /\ (job' = job \/ job' = "failed")
         \/ /\ remote'.file = remote.file /\ job' = job /\ pod = "requested"
            /\ pod' = "spoiled" \/ (pod' = "streamed" /\ remote'.tmp = "whole")
         \/ Move
         \/ CleanupRuns
<1>0. /\ server \in Seq(Requests) /\ remote \in Storage
      /\ server # <<>> => Head(server) = server[1] /\ 1 \in 1..Len(server)
  BY ReleasedRequests DEF TypeOK, Requests, Storage
<1>1. ASSUME NEW x \in {"none", "partial", "whole"}
      PROVE  /\ [remote EXCEPT !.tmp = x].file = remote.file
             /\ [remote EXCEPT !.tmp = x].tmp = x
  BY <1>0 DEF Storage
<1> USE DEF jobs, worker
<1>2. CASE ReconcileStep
  BY <1>2 DEF ReconcileStep, Begin, SyncCleanup, SyncJob, CreateJob, updateBackup
<1>3. CASE ReconcileFails \/ Deliver \/ DeliverJobs \/ UserDeletes \/ UserRetains
           \/ UserDeletesCluster \/ CleanupFails \/ Clone
  BY <1>3 DEF ReconcileFails, Deliver, DeliverJobs, UserDeletes, UserRetains, UserWrites,
     UserDeletesCluster, CleanupFails, Clone
<1>4. CASE CollectJobs \/ Request \/ JobComplete
  BY <1>4 DEF CollectJobs, Request, JobComplete
<1>5. CASE Spoiled
  BY <1>5 DEF Spoiled, PodFails
<1>6. CASE PodLost
  <2>1. PICK left \in {"none", "partial", "whole"} : remote' = [remote EXCEPT !.tmp = left]
    BY <1>0, <1>6 DEF PodLost, Storage
  <2> QED
    BY <1>1, <1>6, <2>1 DEF PodLost, PodFails
<1>7. CASE ServerStep
  <2>1. CASE server[1] = Mine
    <3>1. pod = "requested" /\ job' = job
      BY <1>0, <1>7, <2>1 DEF Pods, ServerStep, ServeWell, ServeBadly, Serve
    <3>2. \/ pod' = "spoiled" /\ remote' = [remote EXCEPT !.tmp = "partial"]
          \/ pod' = "streamed" /\ remote' = [remote EXCEPT !.tmp = "whole"]
      BY <1>0, <1>7, <2>1 DEF ServerStep, ServeWell, ServeBadly, Serve, Mine
    <3> QED
      BY <1>1, <3>1, <3>2
  <2>2. CASE server[1] # Mine
    BY <1>0, <1>7, <2>2 DEF ServerStep, ServeWell, ServeBadly, Serve, Mine
  <2> QED
    BY <2>1, <2>2
<1>8. CASE ServerRestarts
  <2>1. CASE pod = "requested"
    BY <1>1, <1>8, <2>1 DEF ServerRestarts, PodFails
  <2>2. CASE pod # "requested"
    BY <1>8, <2>2 DEF ServerRestarts
  <2> QED
    BY <2>1, <2>2
<1> QED
  BY <1>2, <1>3, <1>4, <1>5, <1>6, <1>7, <1>8 DEF Next, PodStep

\* Only the user's deletion makes the file due for removal.
LEMMA DueSteps ==
  ASSUME Next
  PROVE  due' = due \/ UserDeletes
BY DEF Next, ReconcileStep, Begin, SyncCleanup, SyncJob, updateBackup, ReconcileFails, Deliver,
   DeliverJobs, UserRetains, UserWrites, UserDeletesCluster, CollectJobs, PodStep, Request, Move,
   Spoiled, JobComplete, PodLost, PodFails, CleanupRuns, CleanupFails, Clone, ServerStep,
   ServeWell, ServeBadly, Serve, ServerRestarts, api

\* What is uploaded while the backup is wanted is whole and stays; what is due for
\* removal is not uploaded again, since its job has ended.
LEMMA FilesNext ==
  ASSUME TypeOK, SoundCopies, Current, Jobs, Pods, Files, Deleted, Next
  PROVE  Files'
<1>1. /\ obj.deleting => obj'.deleting
      /\ obj'.exists => obj.exists /\ (job' = job \/ job \in {"none", "active"})
  BY Progress
<1>2. Wanted' => Wanted
  BY <1>1 DEF Wanted
<1>3. Wanted => clean = "none"
  BY DEF Wanted, Jobs
<1>4. Move => pod = "streamed" /\ remote' = [tmp |-> "none", file |-> remote.tmp] /\ pod' = "moved" /\ job' = job
  BY DEF Move, checkBackupTrailers, jobs
<1>5. CleanupRuns => /\ clean = "active" /\ remote'.file = "none"
                     /\ remote'.tmp \in {"none", remote.tmp} /\ pod' = pod /\ job' = job
  BY DEF CleanupRuns
<1>6. (JobComplete => pod = "moved" /\ pod' = "none") /\ (CollectJobs => job' = "none" /\ pod' = "none")
      /\ (Request => job' = job /\ pod' = "requested" /\ pod = "none")
  BY DEF JobComplete, CollectJobs, Request, jobs
<1>7. remote'.file # "partial"
  BY <1>4, <1>5, RemoteSteps DEF Files
<1>8. pod' = "streamed" => remote'.tmp # "partial" /\ (Wanted' => remote'.tmp = "whole")
  BY <1>2, <1>3, <1>4, <1>5, <1>6, RemoteSteps DEF Files
<1>9. Wanted' /\ (job' = "complete" \/ pod' = "moved") => remote'.file = "whole"
  BY <1>2, <1>3, <1>4, <1>5, <1>6, RemoteSteps DEF Files
<1>10. due' /\ obj'.exists /\ clean' = "complete" => remote'.file = "none"
  <2> SUFFICES ASSUME due', obj'.exists, clean' = "complete" PROVE remote'.file = "none"
    OBVIOUS
  <2>1. CASE CleanupRuns
    BY <1>5, <2>1
  <2>2. CASE ~CleanupRuns
    <3>1. clean = "complete"
      BY <2>2 DEF Next, ReconcileStep, Begin, SyncCleanup, SyncJob, updateBackup, ReconcileFails,
         Deliver, DeliverJobs, UserDeletes, UserRetains, UserWrites, UserDeletesCluster,
         CollectJobs, PodStep, Request, Move, Spoiled, JobComplete, PodLost, PodFails,
         CleanupFails, Clone, ServerStep, ServeWell, ServeBadly, Serve, ServerRestarts, jobs
    <3>2. due
      BY <3>1, DueSteps DEF UserDeletes, Jobs
    <3>3. obj.exists /\ job = "complete"
      BY <1>1, <3>2 DEF Deleted, SoundCopies, SoundFor
    <3>4. pod = "none" /\ remote.file = "none"
      BY <3>1, <3>2, <3>3 DEF Pods, Files
    <3> QED
      BY <1>4, <1>5, <2>2, <3>4, RemoteSteps
  <2> QED
    BY <2>1, <2>2
<1> QED
  BY <1>7, <1>8, <1>9, <1>10 DEF Files

\* A complete backup under the "delete" policy only goes when Reconcile has found
\* its cleanup complete, with a copy that is current.
LEMMA GoneSteps ==
  ASSUME TypeOK, StreamEnds, SoundCopies, Current, Guarded, Deleted, Next, Gone'
  PROVE  \/ Gone /\ obj' = obj
         \/ /\ updateBackup /\ fresh /\ due /\ obj.exists /\ obj.status = "complete"
            /\ hand.status = "complete" /\ stream = <<>> /\ cache = obj /\ clean = "complete"
            /\ obj' \in MysqlBackup /\ obj'.status = "complete" /\ Store(obj')
<1>0. obj \in MysqlBackup /\ hand \in MysqlBackup
  BY DEF TypeOK
<1>1. CASE updateBackup
  <2> DEFINE o == [hand EXCEPT !.exists = ~hand.deleting \/ hand.finalizer]
  <2>1. CASE hand # saved /\ fresh
    <3>1. Store(o) /\ obj' = o /\ due' = due /\ pc = "update"
      BY <1>1, <2>1 DEF updateBackup, Store
    <3>2. o \in MysqlBackup /\ o.policy = hand.policy /\ o.status = hand.status
      BY <1>0 DEF MysqlBackup
    <3>3. ~o.exists => ~hand.finalizer
      BY <1>0 DEF MysqlBackup
    <3> HIDE DEF o
    <3>4. due /\ ~hand.finalizer /\ hand.policy = "delete"
      BY <3>1, <3>2, <3>3 DEF Gone
    <3>5. obj.status = "complete" /\ hand.status = "complete" /\ obj.exists /\ stream = <<>>
      BY <2>1, <3>4 DEF Deleted, Current
    <3>6. clean = "complete" /\ cache = obj
      BY <3>1, <3>4, <3>5 DEF Guarded, StreamEnds
    <3> QED
      BY <1>1, <2>1, <3>1, <3>2, <3>4, <3>5, <3>6
  <2>2. CASE ~(hand # saved /\ fresh)
    BY <1>1, <2>2 DEF updateBackup, api, Gone
  <2> QED
    BY <2>1, <2>2
<1>2. CASE UserDeletes
  BY <1>0, <1>2 DEF UserDeletes, UserWrites, Store, Gone, SoundCopies, SoundFor, MysqlBackup
<1>3. CASE UserRetains
  BY <1>0, <1>3 DEF UserRetains, UserWrites, Store, Gone, MysqlBackup
<1>4. CASE Begin \/ SyncCleanup \/ SyncJob \/ ReconcileFails \/ Deliver \/ DeliverJobs
           \/ UserDeletesCluster \/ CollectJobs
  BY <1>4 DEF Begin, SyncCleanup, SyncJob, ReconcileFails, Deliver, DeliverJobs,
     UserDeletesCluster, CollectJobs, api, Gone
<1>5. CASE PodStep \/ PodLost \/ CleanupRuns \/ CleanupFails \/ Clone \/ ServerStep \/ ServerRestarts
  BY <1>5 DEF PodStep, Request, Move, Spoiled, JobComplete, PodLost, PodFails, CleanupRuns,
     CleanupFails, Clone, ServerStep, ServeWell, ServeBadly, Serve, ServerRestarts, api, Gone
<1> QED
  BY <1>1, <1>2, <1>3, <1>4, <1>5 DEF Next, ReconcileStep

LEMMA DeletedNext ==
  ASSUME TypeOK, StreamEnds, SoundCopies, Current, Guarded, Jobs, Pods, Files, Deleted,
         GoneMeansRemoved, Next
  PROVE  Deleted' /\ GoneMeansRemoved'
<1>0. /\ obj \in MysqlBackup /\ hand \in MysqlBackup /\ cache \in MysqlBackup
      /\ FinalizerAfter(hand, cleanSeen) \in BOOLEAN
  BY FieldTypes DEF TypeOK
<1>1. due' => obj'.status = "complete" /\ (obj'.exists => obj'.deleting)
  <2>1. CASE UserDeletes
    BY <1>0, <2>1 DEF UserDeletes, UserWrites, Store, MysqlBackup
  <2>2. CASE due' = due
    <3>1. CASE updateBackup
      <4> DEFINE o == [hand EXCEPT !.exists = ~hand.deleting \/ hand.finalizer]
      <4>1. o.deleting = hand.deleting /\ o.status = hand.status
        BY <1>0, CopyTypes
      <4>2. (obj' = o /\ fresh) \/ obj' = obj
        BY <3>1 DEF updateBackup, Store, api
      <4> HIDE DEF o
      <4> QED
        BY <2>2, <4>1, <4>2 DEF Deleted, Current
    <3>2. CASE UserRetains \/ UserDeletes
      BY <1>0, <2>1, <2>2, <3>2 DEF UserRetains, UserWrites, Store, Deleted, MysqlBackup
    <3>3. CASE ~updateBackup /\ ~UserRetains /\ ~UserDeletes
      <4>1. obj' = obj
        BY <3>3 DEF Next, ReconcileStep, Begin, SyncCleanup, SyncJob, ReconcileFails, Deliver,
           DeliverJobs, UserDeletesCluster, CollectJobs, PodStep, Request, Move, Spoiled,
           JobComplete, PodLost, PodFails, CleanupRuns, CleanupFails, Clone, ServerStep,
           ServeWell, ServeBadly, Serve, ServerRestarts, api
      <4> QED
        BY <2>2, <4>1 DEF Deleted
    <3> QED
      BY <3>1, <3>2, <3>3
  <2> QED
    BY <2>1, <2>2, DueSteps
<1>2. SUFFICES ASSUME Gone'
               PROVE  /\ job' # "active" /\ cache'.status = "complete"
                      /\ pc' # "idle" => hand'.status = "complete"
                      /\ \A i \in 1..Len(stream') : stream'[i].status = "complete"
                      /\ remote'.file = "none"
  BY <1>1 DEF Deleted, GoneMeansRemoved, Gone
<1>3. CASE updateBackup /\ ~Gone
  <2>1. /\ fresh /\ due /\ obj.exists /\ obj.status = "complete"
        /\ stream = <<>> /\ cache = obj /\ clean = "complete"
        /\ obj' \in MysqlBackup /\ obj'.status = "complete" /\ Store(obj')
    BY <1>2, <1>3, GoneSteps
  <2>2. job = "complete" /\ remote.file = "none"
    BY <2>1 DEF SoundCopies, SoundFor, Files
  <2>3. job' = job /\ remote' = remote /\ pc' = "idle"
    BY <1>3 DEF updateBackup, jobs, worker, Return
  <2>4. cache' = cache /\ stream' = Append(<<>>, obj')
    BY <2>1 DEF Store
  <2>5. \A i \in 1..Len(stream') : stream'[i] = obj'
    BY <2>1, <2>4
  <2> QED
    BY <2>1, <2>2, <2>3, <2>4, <2>5
<1>4. CASE Gone /\ obj' = obj
  <2>1. /\ job # "active" /\ cache.status = "complete" /\ ~fresh /\ ~obj.exists
        /\ pc # "idle" => hand.status = "complete"
        /\ \A i \in 1..Len(stream) : stream[i].status = "complete"
        /\ remote.file = "none" /\ pod = "none"
    BY <1>4 DEF Deleted, Gone, Current, GoneMeansRemoved, Pods
  <2>2. job' # "active"
    BY <2>1, NoBackupType DEF TypeOK, JobStates, Next, ReconcileStep, Begin, SyncCleanup, SyncJob,
       CreateJob, updateBackup, ReconcileFails, Deliver, DeliverJobs, UserDeletes, UserRetains,
       UserWrites, UserDeletesCluster, CollectJobs, PodStep, Request, Move, Spoiled, JobComplete,
       PodLost, PodFails, CleanupRuns, CleanupFails, Clone, ServerStep, ServeWell, ServeBadly,
       Serve, ServerRestarts, jobs
  <2>3. cache'.status = "complete" /\ \A i \in 1..Len(stream') : stream'[i].status = "complete"
    <3>1. CASE UNCHANGED <<obj, stream, cache>>
      BY <2>1, <3>1
    <3>2. CASE Deliver
      BY <2>1, <3>2, DeliverStream
    <3> QED
      BY <2>1, <3>1, <3>2, ApiSteps
  <2>4. pc' # "idle" => hand'.status = "complete"
    <3>1. CASE Begin
      <4>1. PICK cl : (hand' = hand /\ pc' = pc) \/ hand' = cache \/ hand' = SetDefaults(cache, cl)
        BY <3>1 DEF Begin, copies
      <4> QED
        BY <1>0, <2>1, <4>1, CopyTypes
    <3>2. CASE SyncCleanup /\ pc' # "idle"
      <4>1. pc # "idle" /\ \E f \in BOOLEAN : hand' = [hand EXCEPT !.finalizer = f]
        BY <1>0, <3>2 DEF SyncCleanup, Requeue, Return
      <4> QED
        BY <1>0, <2>1, <4>1, CopyTypes
    <3>3. CASE SyncJob /\ pc' # "idle"
      BY <2>1, <3>3 DEF SyncJob, Requeue, Return, copies
    <3>4. CASE updateBackup \/ ReconcileFails
      BY <3>4 DEF updateBackup, ReconcileFails, Requeue, Return
    <3> QED
      BY <2>1, <3>1, <3>2, <3>3, <3>4, LoopSteps DEF ReconcileStep
  <2>5. remote'.file = "none"
    BY <2>1, RemoteSteps DEF Move, checkBackupTrailers, CleanupRuns
  <2> QED
    BY <2>2, <2>3, <2>4, <2>5
<1> QED
  BY <1>2, <1>3, <1>4, GoneSteps DEF Gone

LEMMA BackupInvInit == Init => BackupInv
<1> SUFFICES ASSUME Init PROVE BackupInv
  OBVIOUS
<1>1. /\ obj \in MysqlBackup /\ obj.exists /\ ~obj.deleting /\ obj.status = "no"
  <2>1. PICK p \in {"retain", "delete"}, u \in {"none", "base", "file"} :
          obj = [exists |-> TRUE, deleting |-> FALSE, finalizer |-> FALSE, policy |-> p,
                 url |-> u, status |-> "no"]
    BY BackupAssumption DEF Init
  <2> QED
    BY <2>1 DEF MysqlBackup
<1>2. TypeOK
  <2>1. /\ fresh \in BOOLEAN /\ queued \in BOOLEAN /\ due \in BOOLEAN /\ withCluster \in BOOLEAN
    BY Zenon DEF Init
  <2>2. attempts \in 0..MaxAttempts /\ clones \in 0..MaxClones /\ faults \in 0..MaxFaults
    BY BackupAssumption DEF Init
  <2>3. stream \in Seq(MysqlBackup) /\ Len(stream) <= MaxLag
    BY BackupAssumption DEF Init
  <2>4. remote \in [tmp : {"none", "partial", "whole"}, file : {"none", "partial", "whole"}]
    BY DEF Init
  <2> QED
    BY <1>1, <2>1, <2>2, <2>3, <2>4, NoBackupType DEF Init, TypeOK, JobStates
<1>3. StreamEnds /\ SoundCopies
  BY <1>1, NoBackupType DEF Init, StreamEnds, SoundCopies, SoundFor
<1>4. Current /\ Guarded /\ Jobs /\ Pods
  BY BackupAssumption DEF Init, Current, Guarded, Jobs, Pods
<1>5. Files /\ Deleted /\ GoneMeansRemoved
  BY DEF Init, Files, Deleted, Gone, GoneMeansRemoved
<1> QED
  BY <1>2, <1>3, <1>4, <1>5 DEF BackupInv

LEMMA BackupInvNext == BackupInv /\ [Next]_vars => BackupInv'
<1> SUFFICES ASSUME BackupInv, [Next]_vars PROVE BackupInv'
  OBVIOUS
<1>1. CASE UNCHANGED vars
  BY <1>1 DEF BackupInv, TypeOK, StreamEnds, SoundCopies, Current, Guarded, Jobs, Pods, Files,
     Deleted, Gone, Wanted, GoneMeansRemoved, vars
<1>2. CASE Next
  BY <1>2, TypeNext, ApiNext, SoundNext, CurrentNext, GuardedNext, JobsNext, PodsNext, FilesNext,
     DeletedNext DEF BackupInv
<1> QED
  BY <1>1, <1>2

LEMMA BackupInvAlways == Spec => []BackupInv
BY BackupInvInit, BackupInvNext, PTL DEF Spec

-----------------------------------------------------------------------------
(* The theorems.                                                           *)

\* Every reachable state of the backup, its jobs, its pod and the server is well
\* typed: no job uses more pods than its back-off limit.
THEOREM TypeCorrect == Spec => []TypeOK
<1>1. BackupInv => TypeOK
  BY DEF BackupInv
<1> QED
  BY <1>1, BackupInvAlways, PTL

\* Whatever fails and however stale the copies are, a backup that was complete when
\* it was deleted under the "delete" policy is only gone with its file removed: the
\* finalizer is on it before it is reported, and stays until the cleanup is done.
THEOREM GoneRemoved == Spec => []GoneMeansRemoved
<1>1. BackupInv => GoneMeansRemoved
  BY DEF BackupInv
<1> QED
  BY <1>1, BackupInvAlways, PTL

\* The initial states are initial states of the contract.
LEMMA ContractInit == Init => Contract!Init
<1> SUFFICES ASSUME Init PROVE Contract!Init
  OBVIOUS
<1>1. PICK p, u : obj = [exists |-> TRUE, deleting |-> FALSE, finalizer |-> FALSE, policy |-> p,
                         url |-> u, status |-> "no"]
  BY DEF Init
<1>2. obj.exists = TRUE /\ obj.deleting = FALSE /\ obj.status = "no"
  BY <1>1
<1>3. remote.file = "none"
  BY DEF Init
<1> QED
  BY <1>2, <1>3 DEF Contract!Init

\* A step that writes the backup reports it, gives it up or changes nothing the
\* contract speaks of.
LEMMA WritesMap ==
  ASSUME BackupInv, Next, remote'.file = remote.file
  PROVE  Contract!Next \/ UNCHANGED Contract!vars
<1>0. /\ obj \in MysqlBackup /\ hand \in MysqlBackup
      /\ hand.status \in {"no", "complete", "failed"}
  BY FieldTypes DEF BackupInv, TypeOK
<1> USE DEF Contract!Next, Contract!Report, Contract!GiveUp, Contract!vars
<1>1. CASE updateBackup /\ obj' # obj
  <2> DEFINE o == [hand EXCEPT !.exists = ~hand.deleting \/ hand.finalizer]
  <2>1. /\ o.deleting = hand.deleting /\ o.status = hand.status
        /\ ~hand.deleting => o.exists
    BY <1>0 DEF MysqlBackup
  <2>2. obj' = o /\ fresh
    BY <1>1 DEF updateBackup, Store, api
  <2> HIDE DEF o
  <2>3. (obj'.exists /\ ~obj'.deleting) = (obj.exists /\ ~obj.deleting)
    BY <2>1, <2>2 DEF BackupInv, Current
  <2>4. \/ obj'.status = obj.status
        \/ /\ obj.status = "no" /\ obj'.status \in {"complete", "failed"}
           /\ obj'.status = "complete" => remote.file = "whole" \/ ~(obj.exists /\ ~obj.deleting)
    BY <1>0, <2>1, <2>2 DEF BackupInv, Current, SoundCopies, SoundFor, Files, Wanted
  <2> QED
    BY <2>3, <2>4
<1>2. CASE UserDeletes
  BY <1>0, <1>2 DEF UserDeletes, UserWrites, Store, MysqlBackup
<1>3. CASE UserRetains
  BY <1>0, <1>3 DEF UserRetains, UserWrites, Store, MysqlBackup
<1>4. CASE obj' = obj
  BY <1>4
<1>5. obj' = obj \/ updateBackup \/ UserDeletes \/ UserRetains
  BY DEF Next, ReconcileStep, Begin, SyncCleanup, SyncJob, ReconcileFails, Deliver, DeliverJobs,
     UserDeletesCluster, CollectJobs, PodStep, Request, Move, Spoiled, JobComplete, PodLost,
     PodFails, CleanupRuns, CleanupFails, Clone, ServerStep, ServeWell, ServeBadly, Serve,
     ServerRestarts, api
<1> QED
  BY <1>1, <1>2, <1>3, <1>4, <1>5

\* The move of a whole stream is the contract's Upload, the cleanup its Remove.
LEMMA MoveMaps ==
  ASSUME BackupInv, Move \/ CleanupRuns
  PROVE  Contract!Next \/ UNCHANGED Contract!vars
<1> USE DEF Contract!Next, Contract!Upload, Contract!Remove, Contract!vars
<1>0. obj' = obj
  BY DEF Move, CleanupRuns, api
<1>1. CASE Move
  <2>1. remote'.file = remote.tmp /\ pod = "streamed"
    BY <1>1 DEF Move, checkBackupTrailers
  <2>2. job = "active" /\ remote.tmp \in {"none", "whole"}
    BY <2>1 DEF BackupInv, TypeOK, Pods, Files
  <2>3. obj.exists => obj.status = "no"
    BY <2>2, FieldTypes DEF BackupInv, TypeOK, SoundCopies, SoundFor
  <2>4. obj.exists /\ ~obj.deleting => remote.tmp = "whole"
    BY <2>1 DEF BackupInv, Files, Wanted
  <2> QED
    BY <1>0, <2>1, <2>2, <2>3, <2>4
<1>2. CASE CleanupRuns
  <2>1. remote'.file = "none" /\ obj.deleting
    BY <1>2 DEF CleanupRuns, BackupInv, Jobs
  <2> QED
    BY <1>0, <2>1
<1> QED
  BY <1>1, <1>2

LEMMA ContractStep == BackupInv /\ [Next]_vars => [Contract!Next]_(Contract!vars)
<1> SUFFICES ASSUME BackupInv, [Next]_vars PROVE Contract!Next \/ UNCHANGED Contract!vars
  OBVIOUS
<1>1. CASE UNCHANGED vars
  BY <1>1 DEF vars, Contract!vars
<1>2. CASE Next
  <2>1. remote'.file = remote.file \/ Move \/ CleanupRuns
    BY <1>2, RemoteSteps DEF BackupInv
  <2> QED
    BY <1>2, <2>1, WritesMap, MoveMaps
<1> QED
  BY <1>1, <1>2

\* The controller, its jobs, the take-backup command and the backup server together
\* implement the contract: a backup reported complete is in the storage, whole, and
\* is not touched before the user deletes it.
THEOREM ContractKept == Spec => Implements
<1>1. Init => Contract!Init
  BY ContractInit
<1>2. BackupInv /\ [Next]_vars => [Contract!Next]_(Contract!vars)
  BY ContractStep
<1> QED
  BY <1>1, <1>2, BackupInvAlways, PTL DEF Spec, Implements, Contract!Spec
=============================================================================
