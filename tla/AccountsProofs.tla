--------------------------- MODULE AccountsProofs ---------------------------
(***************************************************************************)
(* Proofs about Accounts for every set of hosts and every value of the     *)
(* bounds.                                                                 *)
(***************************************************************************)
EXTENDS Accounts, TLAPS

-----------------------------------------------------------------------------
(* The resource.                                                           *)

\* What the controllers make of a copy is a copy that exists, or is being deleted,
\* as much as the old one.
LEMMA ResourceTypes ==
  ASSUME NEW o \in Resource
  PROVE  /\ Provisioned(o) \in Resource /\ Failed(o) \in Resource
         /\ Provisioned(o).exists = o.exists /\ Failed(o).exists = o.exists
         /\ Provisioned(o).deleting = o.deleting /\ Failed(o).deleting = o.deleting
<1> DEFINE new == IF kind = "user" THEN o.spec ELSE {}
<1> DEFINE r == [o EXCEPT !.ready = "true"]
<1>1. r \in Resource /\ r.exists = o.exists /\ r.deleting = o.deleting
  BY DEF Resource
<1>2. new \in SUBSET Names
  BY DEF Resource
<1>3. Provisioned(o) = [r EXCEPT !.recorded = new]
  BY Zenon DEF Provisioned
<1> HIDE DEF r, new
<1>4. /\ [r EXCEPT !.recorded = new] \in Resource
      /\ [r EXCEPT !.recorded = new].exists = r.exists
      /\ [r EXCEPT !.recorded = new].deleting = r.deleting
  BY <1>1, <1>2 DEF Resource
<1>5. Failed(o) \in Resource /\ Failed(o).exists = o.exists /\ Failed(o).deleting = o.deleting
  BY DEF Failed, Resource
<1> QED
  BY <1>1, <1>3, <1>4, <1>5

LEMMA NoResourceTyped == NoResource \in Resource
BY DEF NoResource, Resource

\* The last version under way is the stored one; without one the informer has it.
StreamEnds == IF stream = <<>> THEN cache = obj ELSE stream[Len(stream)] = obj

\* What a step adds to the versions under way.
LEMMA StoreStream ==
  ASSUME TypeOK, NEW o \in Resource, Store(o)
  PROVE  /\ obj' = o /\ cache' = cache /\ stream' \in Seq(Resource) /\ StreamEnds'
         /\ \A i \in 1..Len(stream') : stream'[i] = o \/ \E j \in 1..Len(stream) : stream'[i] = stream[j]
         /\ stream = <<>> => \A i \in 1..Len(stream') : stream'[i] = o
<1>1. stream \in Seq(Resource) /\ stream' = Append(stream, o) /\ obj' = o /\ cache' = cache
  BY DEF TypeOK, Store
<1>2. /\ Len(stream') = Len(stream) + 1 /\ Len(stream) \in Nat
      /\ stream'[Len(stream) + 1] = o /\ stream' \in Seq(Resource)
      /\ \A i \in 1..Len(stream) : stream'[i] = stream[i]
  BY <1>1
<1>3. stream' # <<>>
  BY <1>1
<1>4. stream = <<>> => Len(stream) = 0
  BY <1>1
<1> QED
  BY <1>1, <1>2, <1>3, <1>4 DEF StreamEnds

\* What delivering one leaves of them.
LEMMA DeliverStream ==
  ASSUME TypeOK, StreamEnds, Deliver
  PROVE  /\ obj' = obj /\ cache' \in Resource /\ stream' \in Seq(Resource) /\ StreamEnds'
         /\ \E j \in 1..Len(stream) : cache' = stream[j]
         /\ \A i \in 1..Len(stream') : \E j \in 1..Len(stream) : stream'[i] = stream[j]
<1>1. /\ stream \in Seq(Resource) /\ stream # <<>> /\ stream' = Tail(stream)
      /\ cache' = stream[1] /\ obj' = obj
  BY DEF TypeOK, Deliver
<1>2. /\ Len(stream) \in Nat \ {0} /\ Len(stream') = Len(stream) - 1 /\ stream' \in Seq(Resource)
      /\ \A i \in 1..Len(stream') : stream'[i] = stream[i + 1]
  BY <1>1
<1>3. 1 \in 1..Len(stream) /\ \A i \in 1..Len(stream') : i + 1 \in 1..Len(stream)
  BY <1>2
<1>4. cache' \in Resource
  BY <1>1, <1>3
<1>5. StreamEnds'
  <2>1. CASE stream' = <<>>
    <3>1. Len(stream') = 0
      BY <2>1
    <3>2. Len(stream) = 1
      BY <1>2, <3>1
    <3> QED
      BY <1>1, <2>1, <3>2 DEF StreamEnds
  <2>2. CASE stream' # <<>>
    <3>1. Len(stream') \in 1..Len(stream')
      BY <1>2, <2>2
    <3> QED
      BY <1>1, <1>2, <2>2, <3>1 DEF StreamEnds
  <2> QED
    BY <2>1, <2>2
<1> QED
  BY <1>1, <1>2, <1>3, <1>4, <1>5

\* Every step leaves the API server and the informer alone, delivers a version or
\* stores one.
LEMMA ApiSteps ==
  ASSUME TypeOK, Next
  PROVE  UNCHANGED api \/ Deliver \/ \E o \in Resource : Store(o)
<1>0. obj \in Resource /\ hand \in Resource
  BY DEF TypeOK
<1>1. CASE Begin \/ CreateUser \/ CreateDatabase \/ Remove \/ Drop
  BY <1>1 DEF Begin, CreateUser, CreateDatabase, Remove, Drop
<1>2. CASE Failures \/ Timer \/ ClusterChanges \/ DroppedByHand
  BY <1>2 DEF Failures, CreateFails, RemoveFails, AddFinalizerFails, DropFails, ReconcileFails,
     Timer, ClusterChanges, DroppedByHand
<1>3. CASE Unready \/ UpdateStatus
  BY <1>0, <1>3 DEF Unready, UpdateStatus
<1>4. CASE AddFinalizer
  <2>1. [hand EXCEPT !.finalizer = TRUE] \in Resource
    BY <1>0 DEF Resource
  <2> QED
    BY <1>4, <2>1 DEF AddFinalizer
<1>5. CASE RemoveFinalizer
  <2>1. [hand EXCEPT !.exists = FALSE] \in Resource
    BY <1>0 DEF Resource
  <2> QED
    BY <1>5, <2>1 DEF RemoveFinalizer
<1>6. CASE UserEdits
  <2>1. ASSUME NEW hosts \in SUBSET Hosts PROVE [obj EXCEPT !.spec = hosts] \in Resource
    BY <1>0 DEF Resource, Names
  <2>2. [obj EXCEPT !.retain = ~obj.retain] \in Resource
    BY <1>0 DEF Resource
  <2>3. PICK o \in Resource : UserWrites(o)
    BY <1>6, <2>1, <2>2 DEF UserEdits
  <2> QED
    BY <2>3 DEF UserWrites
<1>7. CASE UserDeletes
  <2>1. [obj EXCEPT !.deleting = TRUE] \in Resource /\ [obj EXCEPT !.exists = FALSE] \in Resource
    BY <1>0 DEF Resource
  <2> QED
    BY <1>7, <2>1 DEF UserDeletes, UserWrites
<1> QED
  BY <1>1, <1>2, <1>3, <1>4, <1>5, <1>6, <1>7 DEF Next, ReconcileStep

LEMMA ApiNext ==
  ASSUME TypeOK, StreamEnds, Next
  PROVE  /\ obj' \in Resource /\ cache' \in Resource /\ stream' \in Seq(Resource)
         /\ StreamEnds'
<1>1. CASE UNCHANGED api
  BY <1>1 DEF TypeOK, StreamEnds, api
<1>2. CASE Deliver
  BY <1>2, DeliverStream DEF TypeOK
<1>3. ASSUME NEW o \in Resource, Store(o)
      PROVE  /\ obj' \in Resource /\ cache' \in Resource /\ stream' \in Seq(Resource)
             /\ StreamEnds'
  BY <1>3, StoreStream DEF TypeOK
<1> QED
  BY <1>1, <1>2, <1>3, ApiSteps

LEMMA CopiesNext ==
  ASSUME TypeOK, Next
  PROVE  saved' \in Resource /\ hand' \in Resource
<1>0. cache \in Resource /\ saved \in Resource /\ hand \in Resource /\ NoResource \in Resource
  BY NoResourceTyped DEF TypeOK
<1>1. CASE Begin
  BY <1>0, <1>1, ResourceTypes DEF Begin
<1>2. CASE CreateUser \/ CreateDatabase \/ CreateFails \/ Remove \/ RemoveFails \/ AddFinalizerFails
  BY <1>0, <1>2, ResourceTypes DEF CreateUser, CreateDatabase, CreateFails, Remove, RemoveFails,
     AddFinalizerFails, Goto
<1>3. CASE AddFinalizer
  <2>1. [hand EXCEPT !.finalizer = TRUE] \in Resource /\ [saved EXCEPT !.finalizer = TRUE] \in Resource
    BY <1>0 DEF Resource
  <2> QED
    BY <1>0, <1>3, <2>1, ResourceTypes DEF AddFinalizer, Goto, Return
<1>4. CASE Drop
  <2>1. [hand EXCEPT !.finalizer = FALSE] \in Resource
    BY <1>0 DEF Resource
  <2> QED
    BY <1>0, <1>4, <2>1 DEF Drop, Goto
<1>5. CASE Unready \/ UpdateStatus \/ RemoveFinalizer \/ DropFails \/ ReconcileFails
  BY <1>0, <1>5 DEF Unready, UpdateStatus, RemoveFinalizer, DropFails, ReconcileFails, Return
<1>6. CASE Deliver \/ Timer \/ UserEdits \/ UserDeletes \/ ClusterChanges \/ DroppedByHand
  BY <1>0, <1>6 DEF Deliver, Timer, UserEdits, UserDeletes, UserWrites, ClusterChanges,
     DroppedByHand, loop
<1> QED
  BY <1>1, <1>2, <1>3, <1>4, <1>5, <1>6 DEF Next, ReconcileStep, Failures

LEMMA FlagsNext ==
  ASSUME TypeOK, Next
  PROVE  fresh' \in BOOLEAN /\ queued' \in BOOLEAN /\ timer' \in BOOLEAN
<1> USE DEF TypeOK, Goto, Return
<1>1. CASE Begin
  BY <1>1, Zenon DEF Begin
<1>2. CASE Unready
  BY <1>2, Zenon DEF Unready
<1>3. CASE CreateUser
  BY <1>3, Zenon DEF CreateUser
<1>4. CASE CreateDatabase \/ Remove \/ CreateFails \/ RemoveFails \/ AddFinalizerFails
  BY <1>4, Zenon DEF CreateDatabase, Remove, CreateFails, RemoveFails, AddFinalizerFails
<1>5. CASE AddFinalizer
  BY <1>5, Zenon DEF AddFinalizer
<1>6. CASE UpdateStatus
  BY <1>6, Zenon DEF UpdateStatus, Recheck
<1>7. CASE Drop \/ DropFails \/ RemoveFinalizer \/ ReconcileFails
  BY <1>7, Zenon DEF Drop, DropFails, RemoveFinalizer, ReconcileFails
<1>8. CASE Deliver \/ Timer \/ UserEdits \/ UserDeletes \/ ClusterChanges \/ DroppedByHand
  BY <1>8, Zenon DEF Deliver, Timer, UserEdits, UserDeletes, UserWrites, ClusterChanges,
     DroppedByHand, loop
<1> QED
  BY <1>1, <1>2, <1>3, <1>4, <1>5, <1>6, <1>7, <1>8 DEF Next, ReconcileStep, Failures

LEMMA OthersNext ==
  ASSUME TypeOK, Next
  PROVE  /\ kind' \in {"user", "database"} /\ cluster' \in {"ready", "unready", "gone"}
         /\ pc' \in {"idle", "create", "remove", "finalize", "status", "unready", "drop", "release"}
         /\ mysql' \in SUBSET Names
<1>0. hand.spec \in SUBSET Names
  BY DEF TypeOK, Resource
<1> USE <1>0 DEF TypeOK, Goto, Return
<1>1. CASE ReconcileStep
  BY <1>1 DEF ReconcileStep, Begin, Unready, CreateUser, CreateDatabase, Remove, AddFinalizer,
     UpdateStatus, Drop, RemoveFinalizer
<1>2. CASE Failures
  BY <1>2 DEF Failures, CreateFails, RemoveFails, AddFinalizerFails, DropFails, ReconcileFails
<1>3. CASE Deliver \/ Timer \/ UserEdits \/ UserDeletes \/ ClusterChanges \/ DroppedByHand
  BY <1>3 DEF Deliver, Timer, UserEdits, UserDeletes, UserWrites, ClusterChanges, DroppedByHand,
     loop
<1> QED
  BY <1>1, <1>2, <1>3 DEF Next

LEMMA BoundsNext ==
  ASSUME TypeOK, Next
  PROVE  changes' \in 0..MaxSpecChanges /\ drops' \in 0..MaxDrops /\ faults' \in 0..MaxFaults
<1>1. \/ UNCHANGED bounds \/ Fault
      \/ changes < MaxSpecChanges /\ changes' = changes + 1 /\ UNCHANGED <<drops, faults>>
      \/ drops < MaxDrops /\ drops' = drops + 1 /\ UNCHANGED <<changes, faults>>
  BY DEF Next, ReconcileStep, Failures, Begin, Unready, CreateUser, CreateDatabase, Remove,
     AddFinalizer, UpdateStatus, Drop, RemoveFinalizer, CreateFails, RemoveFails,
     AddFinalizerFails, DropFails, ReconcileFails, Deliver, Timer, UserEdits, UserDeletes,
     ClusterChanges, DroppedByHand
<1> QED
  BY <1>1, AccountsAssumption DEF TypeOK, Fault, bounds

LEMMA TypeNext ==
  ASSUME TypeOK, StreamEnds, Next
  PROVE  TypeOK'
BY ApiNext, CopiesNext, FlagsNext, OthersNext, BoundsNext DEF TypeOK
-----------------------------------------------------------------------------
(* What a deletion leaves behind.                                          *)

Deleting == {"drop", "release"}

\* Reconcile's copy exists, and decides between providing and dropping.
Held == pc # "idle" => hand.exists /\ (hand.deleting <=> pc \in Deleting)

\* A copy that is still current when its finalizer is removed is the stored
\* resource, and what that records has been dropped.
Current ==
  fresh => /\ pc # "idle" /\ obj.exists
           /\ pc \in Deleting => stream = <<>>
           /\ pc = "drop" => hand = obj
           /\ pc = "release" =>
                /\ hand = [obj EXCEPT !.finalizer = FALSE]
                /\ obj.retain \/ cluster = "gone" \/ mysql \cap Dropped(obj) = {}

\* When the resource is gone nobody has a copy of it left that is not being deleted,
\* so no reconciliation creates its accounts again.
GoneForGood ==
  obj.deleting /\ ~obj.exists =>
    /\ pc \in Deleting \cup {"idle"} /\ cache.deleting
    /\ \A i \in 1..Len(stream) : stream[i].deleting

AccountsInv == TypeOK /\ StreamEnds /\ Held /\ Current /\ GoneForGood /\ RecordedDropped

LEMMA HeldNext ==
  ASSUME TypeOK, Held, Next
  PROVE  Held'
<1>0. cache \in Resource /\ hand \in Resource
  BY DEF TypeOK
<1> USE DEF Held, Deleting
<1>1. CASE Begin
  BY <1>0, <1>1, ResourceTypes DEF Begin
<1>2. CASE CreateUser \/ CreateDatabase \/ CreateFails \/ Remove \/ RemoveFails \/ AddFinalizerFails
  BY <1>0, <1>2, ResourceTypes DEF CreateUser, CreateDatabase, CreateFails, Remove, RemoveFails,
     AddFinalizerFails, Goto
<1>3. CASE AddFinalizer
  <2> DEFINE h == [hand EXCEPT !.finalizer = TRUE]
  <2>1. h \in Resource /\ h.exists = hand.exists /\ h.deleting = hand.deleting
    BY <1>0 DEF Resource
  <2>2. \/ pc' = "idle"
        \/ pc' = "status" /\ pc = "finalize" /\ (hand' = Provisioned(hand) \/ hand' = Provisioned(h))
    BY <1>3 DEF AddFinalizer, Goto, Return
  <2> HIDE DEF h
  <2> QED
    BY <1>0, <2>1, <2>2, ResourceTypes
<1>4. CASE Drop
  <2>1. /\ [hand EXCEPT !.finalizer = FALSE].exists = hand.exists
        /\ [hand EXCEPT !.finalizer = FALSE].deleting = hand.deleting
    BY <1>0 DEF Resource
  <2> QED
    BY <1>4, <2>1 DEF Drop, Goto
<1>5. CASE Unready \/ UpdateStatus \/ RemoveFinalizer \/ DropFails \/ ReconcileFails
  BY <1>5 DEF Unready, UpdateStatus, RemoveFinalizer, DropFails, ReconcileFails, Return
<1>6. CASE Deliver \/ Timer \/ UserEdits \/ UserDeletes \/ ClusterChanges \/ DroppedByHand
  BY <1>6 DEF Deliver, Timer, UserEdits, UserDeletes, UserWrites, ClusterChanges, DroppedByHand,
     loop
<1> QED
  BY <1>1, <1>2, <1>3, <1>4, <1>5, <1>6 DEF Next, ReconcileStep, Failures

LEMMA KindNext == Next => kind' = kind
BY DEF Next, ReconcileStep, Failures, Begin, Unready, CreateUser, CreateDatabase, Remove,
   AddFinalizer, UpdateStatus, Drop, RemoveFinalizer, CreateFails, RemoveFails, AddFinalizerFails,
   DropFails, ReconcileFails, Deliver, Timer, UserEdits, UserWrites, UserDeletes, ClusterChanges,
   DroppedByHand

LEMMA CurrentNext ==
  ASSUME TypeOK, StreamEnds, Held, Current, Next
  PROVE  Current'
<1>0. obj \in Resource /\ hand \in Resource /\ kind' = kind
  BY KindNext DEF TypeOK
<1> USE DEF Current, Deleting
<1>1. CASE Begin
  BY <1>1 DEF Begin, StreamEnds, api
<1>2. CASE CreateUser \/ CreateDatabase \/ CreateFails \/ Remove \/ RemoveFails \/ AddFinalizerFails
  BY <1>2 DEF CreateUser, CreateDatabase, CreateFails, Remove, RemoveFails, AddFinalizerFails,
     Goto, api
<1>3. CASE AddFinalizer
  <2>1. fresh' => pc' = "status"
    BY <1>3 DEF AddFinalizer, Goto, Return
  <2>2. obj'.exists = obj.exists \/ obj'.exists = hand.exists
    BY <1>0, <1>3 DEF AddFinalizer, Store, Resource, api
  <2>3. fresh' => fresh
    BY <1>3 DEF AddFinalizer, Goto, Return
  <2>4. pc = "finalize"
    BY <1>3 DEF AddFinalizer
  <2> QED
    BY <2>1, <2>2, <2>3, <2>4 DEF Held
<1>4. CASE Drop
  <2>1. /\ obj' = obj /\ stream' = stream /\ fresh' = fresh /\ pc = "drop" /\ pc' = "release"
        /\ hand' = [hand EXCEPT !.finalizer = FALSE] /\ cluster' = cluster
        /\ hand.retain \/ cluster = "gone" \/ mysql' = mysql \ Dropped(hand)
    BY <1>4 DEF Drop, Goto, api
  <2>2. fresh => obj.retain \/ cluster' = "gone" \/ mysql' \cap Dropped(obj) = {}
    BY <2>1
  <2>3. Dropped(obj)' = Dropped(obj)
    BY <1>0, <2>1 DEF Dropped
  <2> QED
    BY <2>1, <2>2, <2>3
<1>5. CASE Unready \/ UpdateStatus \/ RemoveFinalizer \/ DropFails \/ ReconcileFails
  BY <1>5 DEF Unready, UpdateStatus, RemoveFinalizer, DropFails, ReconcileFails, Return
<1>6. CASE UserEdits \/ UserDeletes
  BY <1>6 DEF UserEdits, UserDeletes, UserWrites
<1>7. CASE Deliver
  <2>1. ~(fresh /\ pc \in Deleting)
    BY <1>7 DEF Deliver
  <2> QED
    BY <1>7, <2>1 DEF Deliver
<1>8. CASE Timer \/ ClusterChanges \/ DroppedByHand
  <2>1. /\ UNCHANGED <<obj, stream, pc, hand, fresh>> /\ mysql' \subseteq mysql
        /\ cluster = "gone" => cluster' = "gone"
    BY <1>8 DEF Timer, ClusterChanges, DroppedByHand, api, loop
  <2>2. Dropped(obj)' = Dropped(obj)
    BY <1>0, <2>1 DEF Dropped
  <2> QED
    BY <2>1, <2>2
<1> QED
  BY <1>1, <1>2, <1>3, <1>4, <1>5, <1>6, <1>7, <1>8 DEF Next, ReconcileStep, Failures

\* Only the removal of the finalizer makes a resource go that is being deleted; it
\* was current then, and nothing is under way.
LEMMA GoneSteps ==
  ASSUME TypeOK, Held, Current, Next, obj'.deleting, ~obj'.exists
  PROVE  \/ obj' = obj /\ obj.deleting /\ ~obj.exists /\ (UNCHANGED api \/ Deliver)
         \/ RemoveFinalizer /\ fresh /\ obj' = [hand EXCEPT !.exists = FALSE]
<1>0. obj \in Resource /\ hand \in Resource
  BY DEF TypeOK
<1>1. CASE UNCHANGED api \/ Deliver
  BY <1>1 DEF api, Deliver
<1>2. CASE RemoveFinalizer
  BY <1>2 DEF RemoveFinalizer, Store, api
<1>3. CASE Unready \/ UpdateStatus
  BY <1>3 DEF Unready, UpdateStatus, Store, api, Held, Deleting
<1>4. CASE AddFinalizer
  BY <1>0, <1>4 DEF AddFinalizer, Store, api, Held, Resource
<1>5. CASE UserEdits
  BY <1>0, <1>5 DEF UserEdits, UserWrites, Store, Resource
<1>6. CASE UserDeletes
  BY <1>0, <1>6 DEF UserDeletes, UserWrites, Store, Resource
<1>7. CASE Begin \/ CreateUser \/ CreateDatabase \/ Remove \/ Drop \/ Failures \/ Timer
           \/ ClusterChanges \/ DroppedByHand
  BY <1>1, <1>7 DEF Begin, CreateUser, CreateDatabase, Remove, Drop, Failures, CreateFails,
     RemoveFails, AddFinalizerFails, DropFails, ReconcileFails, Timer, ClusterChanges,
     DroppedByHand
<1> QED
  BY <1>1, <1>2, <1>3, <1>4, <1>5, <1>6, <1>7 DEF Next, ReconcileStep

LEMMA GoneNext ==
  ASSUME TypeOK, StreamEnds, Held, Current, GoneForGood, RecordedDropped, Next
  PROVE  GoneForGood' /\ RecordedDropped'
<1> SUFFICES ASSUME obj'.deleting, ~obj'.exists
             PROVE  /\ pc' \in Deleting \cup {"idle"} /\ cache'.deleting
                    /\ \A i \in 1..Len(stream') : stream'[i].deleting
                    /\ ~obj'.retain /\ cluster' # "gone" => mysql' \cap Dropped(obj)' = {}
  BY DEF GoneForGood, RecordedDropped
<1>0. obj \in Resource /\ hand \in Resource /\ kind' = kind
  BY KindNext DEF TypeOK
<1>1. CASE RemoveFinalizer /\ fresh /\ obj' = [hand EXCEPT !.exists = FALSE]
  <2>1. /\ stream = <<>> /\ cache = obj /\ hand = [obj EXCEPT !.finalizer = FALSE] /\ hand.deleting
        /\ obj.retain \/ cluster = "gone" \/ mysql \cap Dropped(obj) = {}
    BY <1>1 DEF RemoveFinalizer, StreamEnds, Current, Held, Deleting
  <2>2. [hand EXCEPT !.exists = FALSE] \in Resource /\ Store(obj')
    BY <1>0, <1>1 DEF RemoveFinalizer, Resource
  <2>3. cache' = cache /\ \A i \in 1..Len(stream') : stream'[i] = obj'
    BY <1>1, <2>1, <2>2, StoreStream
  <2>4. obj.deleting /\ obj'.deleting /\ obj'.retain = obj.retain
    BY <1>0, <1>1, <2>1 DEF Resource
  <2>5. Dropped(obj)' = Dropped(obj)
    BY <1>0, <1>1, <2>1 DEF Dropped, Resource
  <2>6. pc' = "idle" /\ mysql' = mysql /\ cluster' = cluster
    BY <1>1 DEF RemoveFinalizer, Return
  <2> QED
    BY <2>1, <2>3, <2>4, <2>5, <2>6
<1>2. CASE obj' = obj /\ obj.deleting /\ ~obj.exists /\ (UNCHANGED api \/ Deliver)
  <2>1. /\ pc \in Deleting \cup {"idle"} /\ cache.deleting
        /\ \A i \in 1..Len(stream) : stream[i].deleting
        /\ ~obj.retain /\ cluster # "gone" => mysql \cap Dropped(obj) = {}
    BY <1>2 DEF GoneForGood, RecordedDropped
  <2>2. cache'.deleting /\ \A i \in 1..Len(stream') : stream'[i].deleting
    BY <1>2, <2>1, DeliverStream DEF api
  <2>3. Dropped(obj)' = Dropped(obj)
    BY <1>0, <1>2 DEF Dropped
  <2>4. /\ pc' \in Deleting \cup {"idle"} /\ mysql' \subseteq mysql
        /\ cluster = "gone" => cluster' = "gone"
    BY <2>1 DEF Deleting, Next, ReconcileStep, Failures, Begin, Unready, CreateUser,
       CreateDatabase, Remove, AddFinalizer, UpdateStatus, Drop, RemoveFinalizer, CreateFails,
       RemoveFails, AddFinalizerFails, DropFails, ReconcileFails, Deliver, Timer, UserEdits,
       UserWrites, UserDeletes, ClusterChanges, DroppedByHand, Goto, Return, loop
  <2> QED
    BY <1>2, <2>1, <2>2, <2>3, <2>4
<1> QED
  BY <1>1, <1>2, GoneSteps

LEMMA AccountsInvInit == Init => AccountsInv
<1> SUFFICES ASSUME Init PROVE AccountsInv
  OBVIOUS
<1>1. obj \in Resource /\ obj.exists
  <2>1. PICK hosts \in SUBSET Names, r \in BOOLEAN :
          obj = [exists |-> TRUE, deleting |-> FALSE, finalizer |-> FALSE, retain |-> r,
                 spec |-> hosts, recorded |-> {}, ready |-> "none"]
    BY DEF Init, Names
  <2> QED
    BY <2>1 DEF Resource
<1>2. TypeOK
  <2>1. fresh \in BOOLEAN /\ queued \in BOOLEAN /\ timer \in BOOLEAN
    BY Zenon DEF Init
  <2>2. changes \in 0..MaxSpecChanges /\ drops \in 0..MaxDrops /\ faults \in 0..MaxFaults
    BY AccountsAssumption DEF Init
  <2> QED
    BY <1>1, <2>1, <2>2, NoResourceTyped DEF Init, TypeOK
<1> QED
  BY <1>1, <1>2 DEF Init, AccountsInv, StreamEnds, Held, Current, GoneForGood, RecordedDropped

LEMMA AccountsInvNext == AccountsInv /\ [Next]_vars => AccountsInv'
<1> SUFFICES ASSUME AccountsInv, [Next]_vars PROVE AccountsInv'
  OBVIOUS
<1>1. CASE UNCHANGED vars
  BY <1>1 DEF AccountsInv, TypeOK, StreamEnds, Held, Current, GoneForGood, RecordedDropped,
     Dropped, vars
<1>2. CASE Next
  BY <1>2, TypeNext, ApiNext, HeldNext, CurrentNext, GoneNext DEF AccountsInv
<1> QED
  BY <1>1, <1>2

LEMMA AccountsInvAlways == Spec => []AccountsInv
BY AccountsInvInit, AccountsInvNext, PTL DEF Spec

\* Every copy of a resource, stored, under way, cached or in hand, is well typed.
THEOREM TypeCorrect == Spec => []TypeOK
<1>1. AccountsInv => TypeOK
  BY DEF AccountsInv
<1> QED
  BY <1>1, AccountsInvAlways, PTL

\* A MysqlUser or MysqlDatabase whose finalizer was removed has left nothing of what
\* its status recorded in MySQL, however stale the copies were that the controller
\* worked with and whatever failed, unless it was to be retained or the cluster is gone.
THEOREM RecordedGone == Spec => []RecordedDropped
<1>1. AccountsInv => RecordedDropped
  BY DEF AccountsInv
<1> QED
  BY <1>1, AccountsInvAlways, PTL
=============================================================================
