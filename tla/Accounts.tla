------------------------------ MODULE Accounts ------------------------------
(***************************************************************************)
(* One MysqlUser or one MysqlDatabase and what exists of it in MySQL: the  *)
(* user controller (mysqluser_controller.go) and the database controller   *)
(* (db_controller.go).  A user is one account for each allowed host; a     *)
(* database is the one member of {Db}.  The informer, the API server with  *)
(* its conflicts and the MySQL server with its failures are the            *)
(* environment.                                                            *)
(*                                                                         *)
(* The resource's name in MySQL is its own: no other resource has it, and  *)
(* as the API asks it does not change.  Passwords and grants are left out. *)
(***************************************************************************)
EXTENDS Naturals, Sequences

CONSTANTS
  Hosts,          \* the hosts a user may be allowed from
  Db,             \* stands for a database
  MaxSpecChanges, \* bound: edits of the resource
  MaxDrops,       \* bound: accounts dropped behind the operator's back
  MaxFaults,      \* bound: failed calls and restarts of the operator
  MaxLag          \* bound: versions of the resource the informer may be behind

ASSUME AccountsAssumption ==
  /\ Db \notin Hosts
  /\ MaxSpecChanges \in Nat /\ MaxDrops \in Nat /\ MaxFaults \in Nat /\ MaxLag \in Nat \ {0}

VARIABLES
  kind,                    \* "user" or "database"
  obj, stream, cache,      \* the stored resource, its versions under way, the informer's
  cluster,                 \* the cluster: "ready", "unready" or "gone"
  mysql,                   \* the accounts, or the database, that exist in MySQL
  pc, saved, hand, fresh,  \* Reconcile: place, the copy as read and as changed, is it current
  queued, timer,           \* a request waits now, or will after a delay
  changes, drops, faults   \* how much of each bound is used

vars == <<kind, obj, stream, cache, cluster, mysql, pc, saved, hand, fresh, queued, timer,
          changes, drops, faults>>
api    == <<obj, stream, cache>>
loop   == <<pc, saved, hand, fresh, queued, timer>>
bounds == <<changes, drops, faults>>

Names == Hosts \cup {Db}

\* spec: spec.allowedHosts, {Db} for a database; recorded: status.allowedHosts; retain: the deletion
\* policy annotation.
Resource == [exists : BOOLEAN, deleting : BOOLEAN, finalizer : BOOLEAN, retain : BOOLEAN,
             spec : SUBSET Names, recorded : SUBSET Names, ready : {"none", "true", "false"}]
NoResource == [exists |-> FALSE, deleting |-> FALSE, finalizer |-> FALSE, retain |-> FALSE,
               spec |-> {}, recorded |-> {}, ready |-> "none"]

TypeOK ==
  /\ kind \in {"user", "database"}
  /\ {obj, cache, saved, hand} \subseteq Resource /\ stream \in Seq(Resource)
  /\ cluster \in {"ready", "unready", "gone"} /\ mysql \in SUBSET Names
  /\ pc \in {"idle", "create", "remove", "finalize", "status", "unready", "drop", "release"}
  /\ fresh \in BOOLEAN /\ queued \in BOOLEAN /\ timer \in BOOLEAN
  /\ changes \in 0..MaxSpecChanges /\ drops \in 0..MaxDrops /\ faults \in 0..MaxFaults

Fault == faults < MaxFaults /\ faults' = faults + 1 /\ UNCHANGED <<changes, drops>>

-----------------------------------------------------------------------------
(* The API server, the user, the cluster and MySQL.                        *)

Store(o) ==
  /\ Len(stream) < MaxLag
  /\ obj' = o /\ stream' = Append(stream, o) /\ UNCHANGED cache

Deliver ==
  /\ stream # <<>>
  /\ cache' = Head(stream) /\ stream' = Tail(stream) /\ queued' = TRUE
  /\ UNCHANGED <<kind, obj, cluster, mysql, pc, saved, hand, fresh, timer, bounds>>

UserWrites(o) ==
  /\ obj.exists /\ o # obj /\ Store(o) /\ fresh' = FALSE
  /\ UNCHANGED <<kind, cluster, mysql, pc, saved, hand, queued, timer>>

UserEdits ==
  /\ changes < MaxSpecChanges /\ changes' = changes + 1
  /\ \/ \E hosts \in SUBSET Hosts : kind = "user" /\ UserWrites([obj EXCEPT !.spec = hosts])
     \/ UserWrites([obj EXCEPT !.retain = ~obj.retain])
  /\ UNCHANGED <<drops, faults>>

\* Without a finalizer the object is removed at once.
UserDeletes ==
  /\ ~obj.deleting
  /\ UserWrites(IF obj.finalizer THEN [obj EXCEPT !.deleting = TRUE]
                                 ELSE [obj EXCEPT !.exists = FALSE])
  /\ UNCHANGED bounds

ClusterChanges ==
  /\ \/ cluster = "unready" /\ cluster' = "ready"
     \/ cluster # "gone" /\ cluster' = "gone"
  /\ UNCHANGED <<kind, api, mysql, loop, bounds>>

\* Somebody drops an account by hand.  (A database dropped by hand is not
\* created again: its controller does not come back on its own.)
DroppedByHand ==
  /\ kind = "user" /\ drops < MaxDrops /\ drops' = drops + 1
  /\ \E h \in mysql : mysql' = mysql \ {h}
  /\ UNCHANGED <<kind, api, cluster, loop, changes, faults>>

-----------------------------------------------------------------------------
(* Reconcile.                                                              *)

\* The request comes back at once (after an error), after a delay, or with the
\* next event.
Return(now, later) ==
  /\ pc' = "idle" /\ saved' = NoResource /\ hand' = NoResource /\ fresh' = FALSE
  /\ queued' = (queued \/ now) /\ timer' = (timer \/ later)

Goto(next, o) ==
  /\ pc' = next /\ hand' = o /\ UNCHANGED <<saved, fresh, queued, timer>>

\* The status after success: Ready, and for a user the hosts there are now.
Provisioned(o) == [o EXCEPT !.ready = "true",
                            !.recorded = IF kind = "user" THEN o.spec ELSE {}]

\* The status after a failure.
Failed(o) == [o EXCEPT !.ready = "false"]

\* A resource that is being deleted is dropped, whatever its cluster does; a
\* cluster that is not ready is waited for, and one that is missing is an error,
\* which only the database controller puts into the status.
Begin ==
  /\ pc = "idle" /\ queued /\ queued' = FALSE /\ UNCHANGED timer
  /\ \/ ~cache.exists /\ UNCHANGED <<pc, saved, hand, fresh>>
     \/ /\ cache.exists /\ saved' = cache /\ fresh' = (stream = <<>>)
        /\ \/ cache.deleting /\ pc' = "drop" /\ hand' = cache
           \/ ~cache.deleting /\ cluster = "ready" /\ pc' = "create" /\ hand' = cache
           \/ ~cache.deleting /\ cluster = "unready" /\ pc' = "unready" /\ hand' = Failed(cache)
           \/ /\ ~cache.deleting /\ cluster = "gone" /\ pc' = "status"
              /\ hand' = (IF kind = "user" THEN cache ELSE Failed(cache))
  /\ UNCHANGED <<kind, api, cluster, mysql, bounds>>

\* Reconcile's answer for a cluster that is not ready: again in 30 seconds,
\* whether or not the status could be stored.
Unready ==
  /\ pc = "unready"
  /\ IF hand # saved /\ fresh THEN Store(hand) ELSE UNCHANGED api
  /\ Return(FALSE, TRUE)
  /\ UNCHANGED <<kind, cluster, mysql, bounds>>

\* CreateUserIfNotExists: a user needs a host.
CreateUser ==
  /\ pc = "create" /\ kind = "user"
  /\ IF hand.spec = {}
     THEN Goto("status", Failed(hand)) /\ UNCHANGED mysql
     ELSE Goto("remove", hand) /\ mysql' = mysql \cup hand.spec
  /\ UNCHANGED <<kind, api, cluster, bounds>>

CreateDatabase ==
  /\ pc = "create" /\ kind = "database"
  /\ mysql' = mysql \cup hand.spec /\ Goto("remove", hand)
  /\ UNCHANGED <<kind, api, cluster, bounds>>

\* BEGIN and COMMIT do not make account statements atomic: some may be done.
CreateFails ==
  /\ pc = "create" /\ Fault
  /\ \E done \in {{}, hand.spec} : mysql' = mysql \cup done
  /\ Goto("status", Failed(hand))
  /\ UNCHANGED <<kind, api, cluster>>

\* stringDiffIn: the accounts recorded that are no longer wanted.
Unwanted(o) == o.recorded \ o.spec

Remove ==
  /\ pc = "remove" /\ mysql' = mysql \ Unwanted(hand)
  /\ Goto("finalize", hand)
  /\ UNCHANGED <<kind, api, cluster, bounds>>

RemoveFails ==
  /\ pc = "remove" /\ Fault
  /\ \E done \in SUBSET Unwanted(hand) : done # Unwanted(hand) /\ mysql' = mysql \ done
  /\ Goto("status", Failed(hand))
  /\ UNCHANGED <<kind, api, cluster>>

\* The finalizer is stored after the account has been created.  The answer of
\* the API server is the new copy.  A conflict is an error.
AddFinalizer ==
  /\ pc = "finalize"
  /\ \/ hand.finalizer /\ Goto("status", Provisioned(hand)) /\ UNCHANGED api
     \/ /\ ~hand.finalizer /\ fresh /\ Store([hand EXCEPT !.finalizer = TRUE])
        /\ saved' = [saved EXCEPT !.finalizer = TRUE]
        /\ hand' = Provisioned([hand EXCEPT !.finalizer = TRUE])
        /\ pc' = "status" /\ UNCHANGED <<fresh, queued, timer>>
     \/ ~hand.finalizer /\ ~fresh /\ Return(TRUE, FALSE) /\ UNCHANGED api
  /\ UNCHANGED <<kind, cluster, mysql, bounds>>

\* The user controller reports a failed update of the finalizer.
AddFinalizerFails ==
  /\ pc = "finalize" /\ kind = "user" /\ ~hand.finalizer /\ Fault
  /\ Goto("status", Failed(hand))
  /\ UNCHANGED <<kind, api, cluster, mysql>>

\* Mutant: a user that is provisioned is not looked at again.
NoRecheck == FALSE

\* A user that is provisioned is looked at again after two minutes.
Recheck == kind = "user" /\ hand.ready = "true"

\* updateStatusAndErr, updateReadyCondition: a changed status is stored unless
\* the copy is stale; an error, this one or the one before, is retried.
UpdateStatus ==
  /\ pc = "status"
  /\ \/ hand = saved /\ UNCHANGED api /\ Return(hand.ready # "true" \/ cluster = "gone", Recheck)
     \/ hand # saved /\ fresh /\ Store(hand) /\ Return(hand.ready # "true", Recheck)
     \/ hand # saved /\ ~fresh /\ UNCHANGED api /\ Return(TRUE, FALSE)
  /\ UNCHANGED <<kind, cluster, mysql, bounds>>

\* dropUserFromDB drops what the status records; deleteDatabase the database.
Dropped(o) == IF kind = "user" THEN o.recorded ELSE o.spec

\* Nothing is dropped for a retained resource or a cluster that is gone.
Drop ==
  /\ pc = "drop"
  /\ mysql' = (IF hand.retain \/ cluster = "gone" THEN mysql ELSE mysql \ Dropped(hand))
  /\ Goto("release", [hand EXCEPT !.finalizer = FALSE])
  /\ UNCHANGED <<kind, api, cluster, bounds>>

\* Mutant: the error of a failed drop is swallowed.
DropFailsQuietly ==
  /\ pc = "drop" /\ Fault /\ Return(FALSE, FALSE)
  /\ UNCHANGED <<kind, api, cluster, mysql>>

\* Mutant: a failed drop does not stop the removal of the finalizer.
DropFailsReleases ==
  /\ pc = "drop" /\ Fault /\ UNCHANGED mysql
  /\ Goto("release", [hand EXCEPT !.finalizer = FALSE])
  /\ UNCHANGED <<kind, api, cluster>>

\* A failed drop, some accounts of which may be gone, leaves the finalizer.
DropFails ==
  /\ pc = "drop" /\ ~hand.retain /\ cluster # "gone" /\ Fault
  /\ \E done \in SUBSET Dropped(hand) : done # Dropped(hand) /\ mysql' = mysql \ done
  /\ Return(TRUE, FALSE)
  /\ UNCHANGED <<kind, api, cluster>>

\* The update that removes the finalizer removes the object.
RemoveFinalizer ==
  /\ pc = "release"
  /\ IF fresh THEN Store([hand EXCEPT !.exists = FALSE]) ELSE UNCHANGED api
  /\ Return(~fresh, FALSE)
  /\ UNCHANGED <<kind, cluster, mysql, bounds>>

\* The API server cannot be reached, or the operator is restarted.
ReconcileFails ==
  /\ pc # "idle" /\ Fault /\ Return(TRUE, FALSE)
  /\ UNCHANGED <<kind, api, cluster, mysql>>

Timer ==
  /\ timer /\ timer' = FALSE /\ queued' = TRUE
  /\ UNCHANGED <<kind, api, cluster, mysql, pc, saved, hand, fresh, bounds>>

-----------------------------------------------------------------------------
Init ==
  /\ kind \in {"user", "database"}
  /\ \E hosts \in (IF kind = "user" THEN SUBSET Hosts ELSE {{Db}}), r \in BOOLEAN :
          obj = [exists |-> TRUE, deleting |-> FALSE, finalizer |-> FALSE, retain |-> r,
                 spec |-> hosts, recorded |-> {}, ready |-> "none"]
  /\ cache = obj /\ stream = <<>>
  /\ cluster \in {"ready", "unready"} /\ mysql = {}
  /\ pc = "idle" /\ saved = NoResource /\ hand = NoResource /\ fresh = FALSE
  /\ queued = TRUE /\ timer = FALSE
  /\ changes = 0 /\ drops = 0 /\ faults = 0

ReconcileStep ==
  \/ Begin \/ Unready \/ CreateUser \/ CreateDatabase \/ Remove \/ AddFinalizer \/ UpdateStatus
  \/ Drop \/ RemoveFinalizer
Failures == CreateFails \/ RemoveFails \/ AddFinalizerFails \/ DropFails \/ ReconcileFails

Next ==
  \/ ReconcileStep \/ Failures \/ Deliver \/ Timer
  \/ UserEdits \/ UserDeletes \/ ClusterChanges \/ DroppedByHand

\* The informer, the controller and its delayed requests keep going.
Fairness == WF_vars(ReconcileStep) /\ WF_vars(Deliver) /\ WF_vars(Timer)

Spec == Init /\ [][Next]_vars /\ Fairness

-----------------------------------------------------------------------------
(* Properties.                                                             *)

\* A resource that is gone without "retain" has left nothing behind of what its
\* status recorded, and no database at all, unless its cluster has gone.
RecordedDropped ==
  ~obj.exists /\ obj.deleting /\ ~obj.retain /\ cluster # "gone" =>
    mysql \cap Dropped(obj) = {}

\* What a resource asks for comes to exist, whatever calls fail and however
\* stale the copies are, and comes back when somebody drops it by hand; and the
\* status comes to record it, which is what a deletion drops.
Provides ==
  \A s \in SUBSET Names \ {{}} :
    (obj.exists /\ ~obj.deleting /\ obj.spec = s /\ cluster = "ready")
      ~> \/ s \subseteq mysql /\ s = (IF kind = "user" THEN obj.recorded ELSE {Db})
         \/ obj.spec # s \/ obj.deleting \/ ~obj.exists \/ cluster # "ready"

\* A deleted resource goes away.
DeletionCompletes == obj.deleting ~> ~obj.exists
=============================================================================
