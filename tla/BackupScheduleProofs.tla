------------------------ MODULE BackupScheduleProofs ------------------------
(***************************************************************************)
(* Proofs about BackupSchedule for every set of schedules and limits, any  *)
(* number of backups and of overlapping runs, and every value of the       *)
(* bounds.                                                                 *)
(***************************************************************************)
EXTENDS BackupSchedule, FiniteSetTheorems, TLAPS

-----------------------------------------------------------------------------
(* Counting backups.                                                       *)

\* Every set of backups is finite, and a larger one has no fewer members.
LEMMA BackupsCounted ==
  ASSUME NEW T \in SUBSET Backups, NEW S \in SUBSET T
  PROVE  /\ Cardinality(S) \in Nat /\ Cardinality(T) \in Nat
         /\ Cardinality(S) <= Cardinality(T)
<1>1. IsFiniteSet(Backups)
  BY FS_Interval, ScheduleAssumption DEF Backups
<1>2. IsFiniteSet(T) /\ IsFiniteSet(S)
  BY <1>1, FS_Subset
<1>3. Cardinality(S) <= Cardinality(T)
  BY <1>2, FS_Subset
<1> QED
  BY <1>2, <1>3, FS_CardinalityType

\* A backup is old when the history limit may give it up.
Old(b, view) == \E limit \in Limits : Cardinality(Newer(b, Created(view))) >= limit

\* An old backup stays old when further ones are created.
LEMMA OldStays ==
  ASSUME NEW v, NEW w, NEW b, Created(v) \subseteq Created(w), Old(b, v)
  PROVE  Old(b, w)
<1>1. PICK limit \in Limits : Cardinality(Newer(b, Created(v))) >= limit
  BY DEF Old
<1>2. /\ Newer(b, Created(w)) \in SUBSET Backups
      /\ Newer(b, Created(v)) \in SUBSET Newer(b, Created(w))
  BY DEF Newer, Created
<1>3. /\ Cardinality(Newer(b, Created(v))) \in Nat /\ Cardinality(Newer(b, Created(w))) \in Nat
      /\ Cardinality(Newer(b, Created(v))) <= Cardinality(Newer(b, Created(w)))
  BY <1>2, BackupsCounted
<1>4. limit \in Nat
  BY ScheduleAssumption
<1>5. Cardinality(Newer(b, Created(w))) >= limit
  BY <1>1, <1>3, <1>4
<1> QED
  BY <1>5 DEF Old

\* What backupGC takes from a list is old in the list, and so it is in any view
\* that has every listed backup.
LEMMA DoomedOld ==
  ASSUME NEW v, NEW limit \in Limits, NEW b \in Doomed(v, limit)
  PROVE  Old(b, v)
<1>1. Cardinality(Newer(b, Listed(v))) >= limit
  BY DEF Doomed
<1>2. /\ Newer(b, Created(v)) \in SUBSET Backups
      /\ Newer(b, Listed(v)) \in SUBSET Newer(b, Created(v))
  BY DEF Newer, Created, Listed
<1>3. /\ Cardinality(Newer(b, Listed(v))) \in Nat /\ Cardinality(Newer(b, Created(v))) \in Nat
      /\ Cardinality(Newer(b, Listed(v))) <= Cardinality(Newer(b, Created(v)))
  BY <1>2, BackupsCounted
<1>4. limit \in Nat
  BY ScheduleAssumption
<1>5. Cardinality(Newer(b, Created(v))) >= limit
  BY <1>1, <1>3, <1>4
<1> QED
  BY <1>5 DEF Old

-----------------------------------------------------------------------------
(* Types.                                                                  *)

\* A run's record, alone.
Run == [pc : {"idle", "create", "list", "delete"},
        limit : Limits \cup {NoLimit}, doomed : SUBSET Backups]

LEMMA RunTypes ==
  /\ Idle \in Run
  /\ \A limit \in Limits \cup {NoLimit} :
       /\ AtEnd(limit) \in Run /\ [pc |-> "create", limit |-> limit, doomed |-> {}] \in Run
       /\ \A doomed \in SUBSET Backups : Collecting(limit, doomed) \in Run
BY DEF Run, Idle, AtEnd, Collecting

\* A new settings record of the cluster is the entry of a valid schedule.
LEMMA EntryTypes ==
  ASSUME NEW s \in Settings, s # None, s # Bad, NEW old \in SUBSET Valid
  PROVE  updateClusterSchedule(old, s) \in SUBSET Valid
BY DEF Settings, updateClusterSchedule

LEMMA TypeInit == Init => TypeOK
<1> SUFFICES ASSUME Init PROVE TypeOK
  OBVIOUS
<1>1. run \in [Runs -> Run]
  BY RunTypes DEF Init
<1>2. backup \in [Backups -> States] /\ known \in [Backups -> States]
  BY DEF Init, States
<1>3. changes \in 0..MaxSpecChanges /\ faults \in 0..MaxFaults
  BY ScheduleAssumption DEF Init
<1> QED
  BY <1>1, <1>2, <1>3 DEF Init, TypeOK, Run

\* The steps of the cluster and of the controller of the cron table.
LEMMA TypeControl ==
  ASSUME TypeOK, UserChanges \/ DeliverCluster \/ Reconcile \/ OperatorRestarts
  PROVE  TypeOK'
<1>1. CASE UserChanges
  BY <1>1, ScheduleAssumption DEF TypeOK, UserChanges
<1>2. CASE DeliverCluster
  BY <1>2 DEF TypeOK, DeliverCluster
<1>3. CASE Reconcile
  <2>1. entries' \in SUBSET Valid
    BY <1>3, EntryTypes DEF TypeOK, Reconcile
  <2>2. queued' \in BOOLEAN
    BY <1>3 DEF Reconcile
  <2> QED
    BY <1>3, <2>1, <2>2 DEF TypeOK, Reconcile
<1>4. CASE OperatorRestarts
  <2>1. run' \in [Runs -> Run]
    BY <1>4, RunTypes DEF OperatorRestarts
  <2>2. faults' \in 0..MaxFaults
    BY <1>4, ScheduleAssumption DEF TypeOK, OperatorRestarts
  <2> QED
    BY <1>4, <2>1, <2>2 DEF TypeOK, OperatorRestarts, Run
<1> QED
  BY <1>1, <1>2, <1>3, <1>4

\* The steps of the backups and of their informer.
LEMMA TypeBackups ==
  ASSUME TypeOK, NEW b \in Backups, BackupEnds(b) \/ UserRemoves(b) \/ DeliverBackup(b)
  PROVE  TypeOK'
BY DEF TypeOK, BackupEnds, UserRemoves, DeliverBackup, States, control

\* The steps of a run change its own record and one backup at most.
LEMMA TypeRun ==
  ASSUME TypeOK, NEW r \in Runs, Fire(r) \/ RunStep(r) \/ RunFails(r)
  PROVE  TypeOK'
<1>0. run \in [Runs -> Run] /\ entries \subseteq Valid
  BY DEF TypeOK, Run
<1>1. CASE Fire(r)
  <2>1. PICK e \in entries : run' = [run EXCEPT ![r] =
          IF scheduledBackupsRunningCountIsZero(known)
          THEN [pc |-> "create", limit |-> e.limit, doomed |-> {}] ELSE AtEnd(e.limit)]
    BY <1>1 DEF Fire
  <2>2. run' \in [Runs -> Run]
    BY <1>0, <2>1, RunTypes DEF Valid
  <2>3. prompt' \in BOOLEAN
    BY <1>1 DEF Fire, TypeOK
  <2> QED
    BY <1>1, <2>2, <2>3 DEF TypeOK, Run, Fire, control
<1>2. CASE Create(r)
  <2>1. run' \in [Runs -> Run]
    BY <1>0, <1>2, RunTypes DEF Create, Run
  <2>2. backup' \in [Backups -> States]
    BY <1>2 DEF Create, TypeOK, States
  <2> QED
    BY <1>2, <2>1, <2>2 DEF TypeOK, Run, Create, control
<1>3. CASE List(r)
  <2>1. Doomed(known, run[r].limit) \in SUBSET Backups
    BY DEF Doomed, Listed
  <2>2. run' \in [Runs -> Run]
    BY <1>0, <1>3, <2>1, RunTypes DEF List, Run
  <2> QED
    BY <1>3, <2>2 DEF TypeOK, Run, List, control
<1>4. ASSUME NEW b, Rest(r, b) PROVE run' \in [Runs -> Run]
  BY <1>0, <1>4, RunTypes DEF Rest, Run
<1>5. CASE Delete(r)
  <2>1. run' \in [Runs -> Run]
    BY <1>4, <1>5 DEF Delete
  <2>2. backup' \in [Backups -> States]
    BY <1>5 DEF Delete, TypeOK, States
  <2> QED
    BY <1>5, <2>1, <2>2 DEF TypeOK, Run, Delete, control
<1>6. CASE RunFails(r)
  <2>1. run' \in [Runs -> Run]
    <3>1. CASE FireBlind(r)
      BY <1>0, <3>1, RunTypes DEF FireBlind, Valid
    <3>2. CASE CreateFails(r)
      BY <1>0, <3>2, RunTypes DEF CreateFails, Run
    <3>3. CASE DeleteFails(r)
      BY <1>4, <3>3 DEF DeleteFails
    <3>4. CASE ListFails(r)
      BY <1>0, <3>4, RunTypes DEF ListFails
    <3> QED
      BY <1>6, <3>1, <3>2, <3>3, <3>4 DEF RunFails
  <2>2. faults' \in 0..MaxFaults
    BY <1>6, ScheduleAssumption DEF TypeOK, RunFails, FireBlind, CreateFails, ListFails,
       DeleteFails
  <2> QED
    BY <1>6, <2>1, <2>2 DEF TypeOK, Run, RunFails, FireBlind, CreateFails, ListFails,
       DeleteFails, control
<1> QED
  BY <1>1, <1>2, <1>3, <1>5, <1>6 DEF RunStep

LEMMA TypeNext == TypeOK /\ [Next]_vars => TypeOK'
<1> SUFFICES ASSUME TypeOK, [Next]_vars PROVE TypeOK'
  OBVIOUS
<1>1. CASE UNCHANGED vars
  BY <1>1 DEF TypeOK, vars
<1>2. CASE Next
  BY <1>2, TypeControl, TypeRun, TypeBackups DEF Next
<1> QED
  BY <1>1, <1>2

\* Every reachable state of the schedule is well typed: the cron table holds
\* entries of valid schedules only, whatever the spec says.
THEOREM TypeCorrect == Spec => []TypeOK
BY TypeInit, TypeNext, PTL DEF Spec

-----------------------------------------------------------------------------
(* The newest backups are kept.                                            *)

\* The informer knows of no backup that was never created, and of none as ended
\* that still runs.
SeenLags ==
  \A b \in Backups : /\ known[b] # "absent" => backup[b] # "absent"
                     /\ backup[b] = "running" => known[b] \in {"absent", "running"}

\* A run only collects under a limit, and only what is old, however long ago it
\* read its list.
RunsAim ==
  \A r \in Runs : /\ run[r].pc = "list" => run[r].limit # NoLimit
                  /\ \A b \in run[r].doomed : Old(b, backup)

KeepsInv == TypeOK /\ SeenLags /\ RunsAim /\ KeepsLast

\* A step changes no backup, makes a new one run or moves one on; none is
\* forgotten.
LEMMA BackupsGrow ==
  ASSUME TypeOK, Next
  PROVE  Created(backup) \subseteq Created(backup')
<1>1. ASSUME NEW r \in Runs, Create(r) PROVE Created(backup) \subseteq Created(backup')
  BY <1>1 DEF TypeOK, Create, Created
<1>2. ASSUME NEW r \in Runs, Delete(r) PROVE Created(backup) \subseteq Created(backup')
  BY <1>2 DEF TypeOK, Delete, Created, Listed
<1>3. ASSUME NEW b \in Backups, BackupEnds(b) \/ UserRemoves(b)
      PROVE  Created(backup) \subseteq Created(backup')
  BY <1>3 DEF TypeOK, BackupEnds, UserRemoves, Created, Listed
<1>4. \/ backup' = backup
      \/ \E r \in Runs : Create(r) \/ Delete(r)
      \/ \E b \in Backups : BackupEnds(b) \/ UserRemoves(b)
  BY DEF Next, UserChanges, DeliverCluster, Reconcile, OperatorRestarts, Fire, RunStep, List,
     RunFails, FireBlind, CreateFails, ListFails, DeleteFails, DeliverBackup
<1> QED
  BY <1>1, <1>2, <1>3, <1>4

LEMMA SeenLagsNext ==
  ASSUME TypeOK, SeenLags, Next
  PROVE  SeenLags'
<1>1. ASSUME NEW r \in Runs, Create(r) PROVE SeenLags'
  BY <1>1 DEF TypeOK, SeenLags, Create, Created
<1>2. ASSUME NEW r \in Runs, Delete(r) PROVE SeenLags'
  BY <1>2 DEF TypeOK, SeenLags, Delete, Listed
<1>3. ASSUME NEW b \in Backups, BackupEnds(b) \/ UserRemoves(b) \/ DeliverBackup(b)
      PROVE  SeenLags'
  BY <1>3 DEF TypeOK, SeenLags, BackupEnds, UserRemoves, DeliverBackup, Listed
<1>4. ASSUME OperatorRestarts PROVE SeenLags'
  BY <1>4 DEF TypeOK, SeenLags, OperatorRestarts
<1>5. \/ backup' = backup /\ known' = known
      \/ \E r \in Runs : Create(r) \/ Delete(r)
      \/ \E b \in Backups : BackupEnds(b) \/ UserRemoves(b) \/ DeliverBackup(b)
      \/ OperatorRestarts
  BY DEF Next, UserChanges, DeliverCluster, Reconcile, Fire, RunStep, List,
     RunFails, FireBlind, CreateFails, ListFails, DeleteFails
<1> QED
  BY <1>1, <1>2, <1>3, <1>4, <1>5 DEF SeenLags

\* A run keeps its list or a part of it, drops it, or reads a new one.
LEMMA RunsAimNext ==
  ASSUME TypeOK, SeenLags, RunsAim, Next
  PROVE  RunsAim'
<1>0. run \in [Runs -> Run]
  BY DEF TypeOK, Run
<1>1. \A b : Old(b, backup) => Old(b, backup')
  BY BackupsGrow, OldStays
<1>2. ASSUME NEW r \in Runs, NEW new,
             run' = [run EXCEPT ![r] = new],
             new.pc = "list" => new.limit # NoLimit,
             \A b \in new.doomed : Old(b, backup)
      PROVE  RunsAim'
  BY <1>0, <1>1, <1>2 DEF RunsAim
<1>3. /\ Idle.pc # "list" /\ Idle.doomed = {}
      /\ \A limit : /\ AtEnd(limit).doomed = {}
                    /\ AtEnd(limit).pc = "list" => AtEnd(limit).limit # NoLimit
      /\ \A limit, doomed : /\ Collecting(limit, doomed).pc # "list"
                            /\ Collecting(limit, doomed).doomed = doomed
  BY DEF Idle, AtEnd, Collecting
<1>4. ASSUME NEW r \in Runs, List(r) PROVE RunsAim'
  <2>1. run[r].limit \in Limits
    BY <1>0, <1>4 DEF RunsAim, List, Run
  <2>2. ASSUME NEW b \in Doomed(known, run[r].limit) PROVE Old(b, backup)
    <3>1. Old(b, known)
      BY <2>1, DoomedOld
    <3>2. Created(known) \subseteq Created(backup)
      BY DEF SeenLags, Created
    <3> QED
      BY <3>1, <3>2, OldStays
  <2> DEFINE new == Collecting(run[r].limit, Doomed(known, run[r].limit))
  <2>3. run' = [run EXCEPT ![r] = new]
    BY <1>4 DEF List
  <2>4. new.pc # "list" /\ new.doomed = Doomed(known, run[r].limit)
    BY <1>3
  <2> HIDE DEF new
  <2> QED
    BY <1>2, <2>2, <2>3, <2>4
<1>5. ASSUME NEW r \in Runs, NEW b, Rest(r, b) PROVE RunsAim'
  <2> DEFINE new == Collecting(run[r].limit, run[r].doomed \ {b})
  <2>1. run' = [run EXCEPT ![r] = new]
    BY <1>5 DEF Rest
  <2>2. new.pc # "list" /\ new.doomed = run[r].doomed \ {b}
    BY <1>3
  <2> HIDE DEF new
  <2> QED
    BY <1>2, <2>1, <2>2 DEF RunsAim
<1>6. ASSUME NEW r \in Runs, Delete(r) \/ DeleteFails(r) PROVE RunsAim'
  BY <1>5, <1>6 DEF Delete, DeleteFails
<1>7. ASSUME NEW r \in Runs, Create(r) \/ CreateFails(r) PROVE RunsAim'
  <2>1. run' = [run EXCEPT ![r] = AtEnd(run[r].limit)]
    BY <1>7 DEF Create, CreateFails
  <2> QED
    BY <1>2, <1>3, <2>1
<1>8. ASSUME NEW r \in Runs, ListFails(r) PROVE RunsAim'
  BY <1>2, <1>3, <1>8 DEF ListFails
<1>9. ASSUME NEW r \in Runs, Fire(r) \/ FireBlind(r) PROVE RunsAim'
  <2>1. PICK e \in entries :
          \/ run' = [run EXCEPT ![r] = [pc |-> "create", limit |-> e.limit, doomed |-> {}]]
          \/ run' = [run EXCEPT ![r] = AtEnd(e.limit)]
    BY <1>9 DEF Fire, FireBlind
  <2> QED
    BY <1>2, <1>3, <2>1
<1>10. CASE OperatorRestarts
  BY <1>3, <1>10 DEF OperatorRestarts, RunsAim
<1>11. CASE run' = run
  BY <1>1, <1>11 DEF RunsAim
<1>12. \/ run' = run \/ OperatorRestarts
       \/ \E r \in Runs : \/ List(r) \/ Delete(r) \/ DeleteFails(r) \/ Create(r) \/ CreateFails(r)
                          \/ ListFails(r) \/ Fire(r) \/ FireBlind(r)
  BY DEF Next, UserChanges, DeliverCluster, Reconcile, RunStep, RunFails,
     BackupEnds, UserRemoves, DeliverBackup
<1> QED
  BY <1>4, <1>6, <1>7, <1>8, <1>9, <1>10, <1>11, <1>12

LEMMA KeepsLastNext ==
  ASSUME TypeOK, RunsAim, KeepsLast, Next
  PROVE  KeepsLast'
<1>0. KeepsLast <=> \A b \in Backups : backup[b] = "collected" => Old(b, backup)
  BY DEF KeepsLast, Old
<1>1. KeepsLast' <=> \A b \in Backups : backup'[b] = "collected" => Old(b, backup')
  BY DEF KeepsLast, Old
<1>2. \A b : Old(b, backup) => Old(b, backup')
  BY BackupsGrow, OldStays
<1>3. ASSUME NEW b \in Backups, backup'[b] = "collected", backup[b] # "collected"
      PROVE  Old(b, backup)
  <2>1. \E r \in Runs : Delete(r)
    BY <1>3 DEF TypeOK, Next, UserChanges, DeliverCluster, Reconcile, OperatorRestarts, Fire,
       RunStep, Create, List, RunFails, FireBlind, CreateFails, ListFails, DeleteFails,
       BackupEnds, UserRemoves, DeliverBackup
  <2>2. PICK r \in Runs : b \in run[r].doomed
    BY <1>3, <2>1 DEF TypeOK, Delete
  <2> QED
    BY <2>2 DEF RunsAim
<1> QED
  BY <1>0, <1>1, <1>2, <1>3

LEMMA KeepsInvInit == Init => KeepsInv
<1> SUFFICES ASSUME Init PROVE SeenLags /\ RunsAim /\ KeepsLast
  BY TypeInit DEF KeepsInv
<1> QED
  BY DEF Init, SeenLags, RunsAim, KeepsLast, Idle

LEMMA KeepsInvNext == KeepsInv /\ [Next]_vars => KeepsInv'
<1> SUFFICES ASSUME KeepsInv, [Next]_vars PROVE KeepsInv'
  OBVIOUS
<1>1. CASE UNCHANGED vars
  BY <1>1 DEF KeepsInv, TypeOK, SeenLags, RunsAim, KeepsLast, Old, vars
<1>2. CASE Next
  BY <1>2, TypeNext, SeenLagsNext, RunsAimNext, KeepsLastNext DEF KeepsInv
<1> QED
  BY <1>1, <1>2

\* backupGC never deletes one of the last backups the smallest limit keeps,
\* though any number of runs overlap, with lists of any age.
THEOREM NewestKept == Spec => []KeepsLast
<1>1. Spec => []KeepsInv
  BY KeepsInvInit, KeepsInvNext, PTL DEF Spec
<1>2. KeepsInv => KeepsLast
  BY DEF KeepsInv
<1> QED
  BY <1>1, <1>2, PTL

-----------------------------------------------------------------------------
(* One scheduled backup runs at a time.                                    *)

Creating == {r \in Runs : run[r].pc = "create"}

\* As long as no run has decided on an outdated list, at most one run is about
\* to create a backup, and then none runs.
Exclusive ==
  prompt => /\ \A q, r \in Creating : q = r
            /\ Creating # {} => Running(backup) = {}
            /\ \A a, b \in Running(backup) : a = b

OneInv == TypeOK /\ SeenLags /\ Exclusive

\* Two different members are what a larger set has.
LEMMA AtMostOne ==
  ASSUME NEW S \in SUBSET Backups, \A a, b \in S : a = b
  PROVE  Cardinality(S) <= 1
<1>1. CASE S = {}
  BY <1>1, FS_EmptySet
<1>2. CASE S # {}
  <2>1. PICK a : S = {a}
    BY <1>2
  <2> QED
    BY <2>1, FS_Singleton
<1> QED
  BY <1>1, <1>2

\* A list with every backup that was created shows every one that runs.
LEMMA NothingHidden ==
  ASSUME TypeOK, SeenLags, Created(known) = Created(backup)
  PROVE  Running(backup) \subseteq Running(known)
BY DEF TypeOK, SeenLags, Created, Running

\* Only Fire brings a run to the point of creating, and only Create makes a
\* backup run.
LEMMA ExclusiveNext ==
  ASSUME TypeOK, SeenLags, Exclusive, Next
  PROVE  Exclusive'
<1>0. run \in [Runs -> Run]
  BY DEF TypeOK, Run
<1>1. SUFFICES ASSUME prompt' PROVE /\ \A q, r \in Creating' : q = r
                                    /\ Creating' # {} => Running(backup') = {}
                                    /\ \A a, b \in Running(backup') : a = b
  BY DEF Exclusive
<1>2. prompt /\ ~\E r \in Runs : FireBlind(r)
  BY <1>1 DEF Next, UserChanges, DeliverCluster, Reconcile, OperatorRestarts, Fire, RunStep, Create,
     List, Delete, RunFails, FireBlind, CreateFails, ListFails, DeleteFails, BackupEnds,
     UserRemoves, DeliverBackup
<1>3. /\ \A q, r \in Creating : q = r
      /\ Creating # {} => Running(backup) = {}
      /\ \A a, b \in Running(backup) : a = b
  BY <1>2 DEF Exclusive
<1>4. ASSUME Creating' \subseteq Creating, Running(backup') \subseteq Running(backup)
      PROVE  /\ \A q, r \in Creating' : q = r
             /\ Creating' # {} => Running(backup') = {}
             /\ \A a, b \in Running(backup') : a = b
  BY <1>3, <1>4
<1>5. ASSUME NEW r \in Runs, Fire(r)
      PROVE  /\ \A q, p \in Creating' : q = p
             /\ Creating' # {} => Running(backup') = {}
             /\ \A a, b \in Running(backup') : a = b
  <2>1. UpToDate /\ Creating = {} /\ backup' = backup
    BY <1>1, <1>5 DEF Fire, UpToDate, Creating
  <2>2. PICK new : run' = [run EXCEPT ![r] = new]
                   /\ (new.pc = "create" => scheduledBackupsRunningCountIsZero(known))
    <3>1. PICK e \in entries : run' = [run EXCEPT ![r] =
            IF scheduledBackupsRunningCountIsZero(known)
            THEN [pc |-> "create", limit |-> e.limit, doomed |-> {}] ELSE AtEnd(e.limit)]
      BY <1>5 DEF Fire
    <3>2. AtEnd(e.limit).pc # "create"
      BY DEF AtEnd, Idle
    <3> QED
      BY <3>1, <3>2
  <2>3. Creating' \subseteq {r} /\ (Creating' # {} => new.pc = "create")
    BY <1>0, <2>1, <2>2 DEF Creating
  <2>4. new.pc = "create" => Running(backup) = {}
    BY <2>1, <2>2, NothingHidden DEF UpToDate, scheduledBackupsRunningCountIsZero
  <2> QED
    BY <1>3, <2>1, <2>3, <2>4
<1>6. ASSUME NEW r \in Runs, Create(r)
      PROVE  /\ \A q, p \in Creating' : q = p
             /\ Creating' # {} => Running(backup') = {}
             /\ \A a, b \in Running(backup') : a = b
  <2>1. Creating = {r} /\ Running(backup) = {}
    BY <1>3, <1>6 DEF Create, Creating
  <2>2. AtEnd(run[r].limit).pc # "create"
    BY DEF AtEnd, Idle
  <2>3. Creating' = {}
    BY <1>0, <1>6, <2>1, <2>2 DEF Create, Creating
  <2>4. PICK b \in Backups : Running(backup') \subseteq {b}
    BY <1>6, <2>1 DEF TypeOK, Create, Running
  <2> QED
    BY <2>3, <2>4
<1>7. ASSUME NEW r \in Runs, NEW new, run' = [run EXCEPT ![r] = new], new.pc # "create"
      PROVE  Creating' \subseteq Creating
  BY <1>0, <1>7 DEF Creating
<1>8. /\ Idle.pc # "create" /\ \A limit : AtEnd(limit).pc # "create"
      /\ \A limit, doomed : Collecting(limit, doomed).pc # "create"
  BY DEF Idle, AtEnd, Collecting
<1>9. ASSUME NEW r \in Runs, List(r) \/ Delete(r) \/ RunFails(r)
      PROVE  Creating' \subseteq Creating
  <2>1. PICK new : run' = [run EXCEPT ![r] = new] /\ new.pc # "create"
    <3>1. CASE List(r)
      BY <1>8, <3>1 DEF List
    <3>2. CASE Delete(r) \/ DeleteFails(r)
      <4>1. PICK b : Rest(r, b)
        BY <3>2 DEF Delete, DeleteFails
      <4> QED
        BY <1>8, <4>1 DEF Rest
    <3>3. CASE CreateFails(r) \/ ListFails(r)
      BY <1>8, <3>3 DEF CreateFails, ListFails
    <3> QED
      BY <1>2, <1>9, <3>1, <3>2, <3>3 DEF RunFails
  <2> QED
    BY <1>7, <2>1
<1>10. ASSUME NEW r \in Runs, List(r) \/ Delete(r) \/ RunFails(r)
       PROVE  Running(backup') \subseteq Running(backup)
  BY <1>2, <1>10 DEF TypeOK, List, Delete, RunFails, CreateFails, ListFails, DeleteFails, Running
<1>11. ASSUME NEW b \in Backups, BackupEnds(b) \/ UserRemoves(b) \/ DeliverBackup(b)
       PROVE  Creating' \subseteq Creating /\ Running(backup') \subseteq Running(backup)
  BY <1>11 DEF TypeOK, BackupEnds, UserRemoves, DeliverBackup, Creating, Running
<1>12. ASSUME UserChanges \/ DeliverCluster \/ Reconcile \/ OperatorRestarts
       PROVE  Creating' \subseteq Creating /\ Running(backup') \subseteq Running(backup)
  BY <1>8, <1>12 DEF UserChanges, DeliverCluster, Reconcile, OperatorRestarts, Creating, Running
<1> QED
  BY <1>4, <1>5, <1>6, <1>9, <1>10, <1>11, <1>12 DEF Next, RunStep

LEMMA OneInvInit == Init => OneInv
<1> SUFFICES ASSUME Init PROVE SeenLags /\ Exclusive
  BY TypeInit DEF OneInv
<1> QED
  BY DEF Init, SeenLags, Exclusive, Creating, Running, Idle

LEMMA OneInvNext == OneInv /\ [Next]_vars => OneInv'
<1> SUFFICES ASSUME OneInv, [Next]_vars PROVE OneInv'
  OBVIOUS
<1>1. CASE UNCHANGED vars
  BY <1>1 DEF OneInv, TypeOK, SeenLags, Exclusive, Creating, Running, vars
<1>2. CASE Next
  BY <1>2, TypeNext, SeenLagsNext, ExclusiveNext DEF OneInv
<1> QED
  BY <1>1, <1>2

\* While every run decides on a list with all the backups created, no two
\* scheduled backups run at once: the check in Run is enough then, and only then.
THEOREM OneAtATime == Spec => []OneRunning
<1>1. Spec => []OneInv
  BY OneInvInit, OneInvNext, PTL DEF Spec
<1>2. OneInv => OneRunning
  <2> SUFFICES ASSUME OneInv, prompt PROVE Cardinality(Running(backup)) <= 1
    BY DEF OneRunning
  <2>1. Running(backup) \in SUBSET Backups
    BY DEF Running
  <2> QED
    BY <2>1, AtMostOne DEF OneInv, Exclusive
<1> QED
  BY <1>1, <1>2, PTL
=============================================================================
