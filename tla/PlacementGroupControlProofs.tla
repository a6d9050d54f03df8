--------------------- MODULE PlacementGroupControlProofs ---------------------
(***************************************************************************)
(* Proofs of the two action properties of the AWSPlacementGroup controller *)
(* model, for every value of its constants: Unmanaged is final             *)
(* (UnmanagedIsFinal), and a placement group is deleted only for an object *)
(* that is being deleted (GroupDeletedOnlyForItsObject), the latter when   *)
(* no two objects share a name.  Both rest on ReconcileGuard, which says   *)
(* what a running Reconcile keeps of the object it read.                   *)
(***************************************************************************)
EXTENDS PlacementGroupGuardProofs

(***************************************************************************)
(* The fields of an object the guard reads: the stored management state   *)
(* and the deletion mark.  Each single-field update keeps them, except     *)
(* the one it sets.                                                        *)
(***************************************************************************)
LEMMA WithFinalizerKeeps ==
    ASSUME NEW w \in Objects, NEW f
    PROVE  /\ WithFinalizer(w, f).status.mgmt = w.status.mgmt
           /\ WithFinalizer(w, f).status = w.status
           /\ WithFinalizer(w, f).deleting = w.deleting
BY Zenon DEF WithFinalizer, Objects

LEMMA WithReadyKeeps ==
    ASSUME NEW w \in Objects, NEW r
    PROVE  /\ WithReady(w, r).status.mgmt = w.status.mgmt
           /\ WithReady(w, r).deleting = w.deleting
BY Zenon DEF WithReady, Objects, Statuses

LEMMA WithFreshKeeps ==
    ASSUME NEW w \in Objects, NEW b
    PROVE  /\ WithFresh(w, b).status.mgmt = w.status.mgmt
           /\ WithFresh(w, b).deleting = w.deleting
           /\ WithFresh(w, b).finalizer = w.finalizer
BY Zenon DEF WithFresh, Objects, Statuses

LEMMA SetObservedKeeps ==
    ASSUME NEW w \in Objects, NEW g
    PROVE  /\ SetObserved(w, g).status.mgmt = w.status.mgmt
           /\ SetObserved(w, g).deleting = w.deleting
BY Zenon DEF SetObserved, Objects, Statuses

LEMMA WithMgmtSets ==
    ASSUME NEW w \in Objects, NEW m
    PROVE  /\ WithMgmt(w, m).status.mgmt = m
           /\ WithMgmt(w, m).deleting = w.deleting
           /\ WithMgmt(w, m).finalizer = w.finalizer
           /\ WithMgmt(w, m).spec = w.spec
BY Zenon DEF WithMgmt, Objects, Statuses

LEMMA WithStatusSets ==
    ASSUME NEW w \in Objects, NEW st
    PROVE  /\ WithStatus(w, st).status = st
           /\ WithStatus(w, st).deleting = w.deleting
BY Zenon DEF WithStatus, Objects

LEMMA WithSpecKeeps ==
    ASSUME NEW w \in Objects, NEW sp
    PROVE  /\ WithSpec(w, sp).status = w.status
           /\ WithSpec(w, sp).deleting = w.deleting
BY Zenon DEF WithSpec, Objects

LEMMA DeletionKeeps ==
    ASSUME NEW w \in Objects
    PROVE  /\ WithDeleting(w).status = w.status /\ WithDeleting(w).deleting
           /\ Stored(w).status = w.status /\ Stored(w).deleting = w.deleting
<1>1. WithDeleting(w).status = w.status /\ WithDeleting(w).deleting
  BY Zenon DEF WithDeleting, Objects
<1>2. Stored(w).status = w.status /\ Stored(w).deleting = w.deleting
  BY Zenon DEF Stored, Objects
<1>3. QED
  BY <1>1, <1>2

(* The status merge patch keeps the stored management state unless the   *)
(* copy changed it.                                                       *)
LEMMA MergeStatusMgmt ==
    ASSUME NEW c, NEW b, NEW w
    PROVE  MergeStatus(c, b, w).mgmt = Merged(c.mgmt, b.mgmt, w.mgmt)
BY DEF MergeStatus

(***************************************************************************)
(* The guard of one object reads only that object's own state.            *)
(***************************************************************************)
Own(x) == obj'[x] = obj[x] /\ snap'[x] = snap[x] /\ work'[x] = work[x]
          /\ pc'[x] = pc[x]

LEMMA ControlFrame ==
    ASSUME NEW x \in Objs, UnmanagedGuard(x), DeleteGuard(x), Own(x)
    PROVE  UnmanagedGuard(x)' /\ DeleteGuard(x)'
BY DEF UnmanagedGuard, DeleteGuard, Own

(* The initial objects are not being reconciled, carry no finalizer and   *)
(* an empty status.                                                       *)
LEMMA ControlInit == Init => ReconcileGuard
<1> SUFFICES ASSUME Init, NEW o \in Objs PROVE UnmanagedGuard(o) /\ DeleteGuard(o)
  BY DEF ReconcileGuard
<1>1. /\ obj[o].status = EmptyStatus /\ ~obj[o].finalizer /\ ~obj[o].deleting
      /\ snap[o] = obj[o] /\ work[o] = obj[o] /\ pc[o] = "Idle"
  <2>1. obj[o] \in [phase : {"Present"}, spec : Specs, finalizer : {FALSE},
                    deleting : {FALSE}, status : {EmptyStatus}]
    BY DEF Init
  <2>2. obj[o].status = EmptyStatus /\ ~obj[o].finalizer /\ ~obj[o].deleting
    BY <2>1, Zenon
  <2>3. QED
    BY <2>2 DEF Init
<1>2. obj[o].status.mgmt = ""
  <2>1. EmptyStatus.mgmt = ""
    BY DEF EmptyStatus
  <2>2. QED
    BY <1>1, <2>1, Zenon
<1>3. QED
  BY <1>1, <1>2 DEF UnmanagedGuard, DeleteGuard

(* What a step must show: the guard again, and no stored Unmanaged status *)
(* left behind.                                                           *)
MgmtStays == \A x \in Objs : obj[x].status.mgmt = "Unmanaged"
                               => obj'[x].status.mgmt = "Unmanaged"

(* A step that changes the state of object o alone only needs o's guard.  *)
LEMMA ControlStep ==
    ASSUME ReconcileGuard, NEW o \in Objs,
           UnmanagedGuard(o)', DeleteGuard(o)',
           obj[o].status.mgmt = "Unmanaged" => obj'[o].status.mgmt = "Unmanaged",
           \A x \in Objs \ {o} : Own(x)
    PROVE  ReconcileGuard' /\ MgmtStays
<1>1. ASSUME NEW x \in Objs \ {o} PROVE UnmanagedGuard(x)' /\ DeleteGuard(x)'
  BY <1>1, ControlFrame DEF ReconcileGuard
<1>2. \A x \in Objs \ {o} : obj'[x] = obj[x]
  BY DEF Own
<1>3. QED
  BY <1>1, <1>2 DEF ReconcileGuard, MgmtStays

(* The copy's fields the guard reads.                                     *)
KeptBy(v, w) ==
    /\ v.status.mgmt = w.status.mgmt
    /\ v.finalizer = w.finalizer \/ ~v.finalizer
    /\ v.spec = w.spec
    /\ v.deleting = w.deleting
WorkKept(o) == KeptBy(work'[o], work[o])

(* The updates of the copy on the Managed branches keep what the guard     *)
(* reads, and may drop the finalizer.                                      *)
LEMMA ManagedUpdatesKept ==
    ASSUME NEW w \in Objects
    PROVE  /\ KeptBy(w, w)
           /\ \A g : KeptBy(SetObserved(w, g), w)
           /\ \A r : KeptBy(WithReady(w, r), w)
           /\ KeptBy(WithFinalizer(w, FALSE), w)
<1>1. \A g : KeptBy(SetObserved(w, g), w)
  BY SetObservedKeeps, SetObservedFields DEF KeptBy
<1>2. \A r : KeptBy(WithReady(w, r), w)
  BY WithReadyKeeps, WithReadyFields DEF KeptBy
<1>3. KeptBy(WithFinalizer(w, FALSE), w)
  BY WithFinalizerKeeps, WithFinalizerFields DEF KeptBy
<1>4. QED
  BY <1>1, <1>2, <1>3 DEF KeptBy

DeletePCs == {"DelDescribe", "DelInstances", "DelCall"}

(* A step of a Managed branch: it changes neither the stored object nor   *)
(* the base, keeps the copy's management state, spec and deletion mark,   *)
(* and may only drop the copy's finalizer; it stays in the branch or goes *)
(* to the metadata Patch.                                                  *)
LEMMA ManagedStep ==
    ASSUME NEW o \in Objs, UnmanagedGuard(o), DeleteGuard(o),
           pc[o] \in HoldPCs, pc'[o] \in HoldPCs \cup {"PatchMeta"},
           pc'[o] \in DeletePCs => pc[o] \in DeletePCs,
           obj'[o] = obj[o], snap'[o] = snap[o], WorkKept(o)
    PROVE  UnmanagedGuard(o)' /\ DeleteGuard(o)'
<1>1. work[o].status.mgmt = "Managed" /\ snap[o].status.mgmt # "Unmanaged"
  BY DEF UnmanagedGuard, HoldPCs
<1>2. UnmanagedGuard(o)'
  BY <1>1 DEF UnmanagedGuard, WorkKept, KeptBy, HoldPCs
<1>3. DeleteGuard(o)'
  BY DEF DeleteGuard, WorkKept, KeptBy, DeletePCs, HoldPCs
<1>4. QED
  BY <1>2, <1>3

(* A change of the stored object by the user or the API server: it keeps  *)
(* the stored management state and finalizer, and never clears the        *)
(* deletion mark.                                                         *)
LEMMA ObjectKept ==
    ASSUME NEW o \in Objs, UnmanagedGuard(o), DeleteGuard(o),
           obj'[o].status.mgmt = obj[o].status.mgmt,
           obj'[o].finalizer = obj[o].finalizer,
           obj[o].deleting => obj'[o].deleting,
           snap'[o] = snap[o], work'[o] = work[o], pc'[o] = pc[o]
    PROVE  UnmanagedGuard(o)' /\ DeleteGuard(o)'
BY DEF UnmanagedGuard, DeleteGuard
-----------------------------------------------------------------------------
(* Reconcile reads the object: validateAWSPlacementGroup has accepted it, *)
(* so an Unmanaged status comes with an Unmanaged spec.                   *)
LEMMA StartControl ==
    ASSUME TypeOK, ReconcileGuard, NEW o \in Objs, Start(o)
    PROVE  ReconcileGuard' /\ MgmtStays
<1>1. \A x \in Objs \ {o} : Own(x)
  BY DEF Start, Own, SetWork, Goto, TypeOK
<1>2. UnmanagedGuard(o) /\ DeleteGuard(o) /\ UNCHANGED obj
  BY DEF ReconcileGuard, Start
<1>3. CASE UNCHANGED <<pc, snap, work>>
  BY <1>1, <1>2, <1>3, ControlFrame, ControlStep DEF Own
<1>4. CASE ~UNCHANGED <<pc, snap, work>>
  <2>1. /\ snap'[o] = obj[o] /\ work'[o] = obj[o] /\ Valid(obj[o])
        /\ pc'[o] \in {"Decide", "Reflect"}
    BY <1>4 DEF Start, SetWork, Goto, TypeOK
  <2>2. obj[o].spec.mgmt \in {"Managed", "Unmanaged"}
    BY DEF TypeOK, Objects, Specs
  <2>3. obj[o].status.mgmt = "Unmanaged" => obj[o].spec.mgmt = "Unmanaged"
    BY <2>1, <2>2 DEF Valid
  <2>4. UnmanagedGuard(o)' /\ DeleteGuard(o)'
    BY <1>2, <2>1, <2>3 DEF UnmanagedGuard, DeleteGuard
  <2>5. QED
    BY <1>1, <1>2, <2>4, ControlStep
<1>5. QED
  BY <1>3, <1>4

(* reflectObservedConfiguration renews the cache and the observed         *)
(* configuration of the copy only.                                       *)
LEMMA ReflectControl ==
    ASSUME TypeOK, ReconcileGuard, NEW o \in Objs, Reflect(o)
    PROVE  ReconcileGuard' /\ MgmtStays
<1>1. \A x \in Objs \ {o} : Own(x)
  BY DEF Reflect, Own, SetWork, Goto, TypeOK
<1>2. /\ UnmanagedGuard(o) /\ DeleteGuard(o) /\ pc[o] = "Reflect"
      /\ UNCHANGED <<obj, snap>>
  BY DEF ReconcileGuard, Reflect
<1>3. PICK r \in DescribeOutcomes :
        IF r = "Server"
        THEN Fault /\ Again(o) /\ Goto(o, "PatchMeta") /\ UNCHANGED work
        ELSE /\ Tally(r)
             /\ LET w == WithFresh(work[o], TRUE)
                IN  SetWork(o, IF Seen(NameOf[o], r) = {} THEN w
                               ELSE SetObserved(w, cloud[NameOf[o]]))
             /\ Goto(o, "Decide") /\ UNCHANGED requeue
  BY DEF Reflect
<1>4. CASE r = "Server"
  <2>1. pc'[o] = "PatchMeta" /\ work' = work
    BY <1>3, <1>4 DEF Goto, TypeOK
  <2>2. UnmanagedGuard(o)' /\ DeleteGuard(o)'
    BY <1>2, <2>1 DEF UnmanagedGuard, DeleteGuard
  <2>3. QED
    BY <1>1, <1>2, <2>2, ControlStep
<1>5. CASE r # "Server"
  <2> DEFINE w == WithFresh(work[o], TRUE)
  <2>1. work[o] \in Objects /\ w \in Objects
    BY ObjectUpdateTypes DEF TypeOK
  <2>2. work'[o] = IF Seen(NameOf[o], r) = {} THEN w
                   ELSE SetObserved(w, cloud[NameOf[o]])
    BY <1>3, <1>5 DEF SetWork, TypeOK
  <2>3. /\ w.status.mgmt = work[o].status.mgmt /\ w.deleting = work[o].deleting
        /\ w.finalizer = work[o].finalizer /\ w.spec = work[o].spec
    BY <2>1, WithFreshKeeps, WithFreshFields
  <2>4. /\ SetObserved(w, cloud[NameOf[o]]).status.mgmt = w.status.mgmt
        /\ SetObserved(w, cloud[NameOf[o]]).deleting = w.deleting
        /\ SetObserved(w, cloud[NameOf[o]]).finalizer = w.finalizer
        /\ SetObserved(w, cloud[NameOf[o]]).spec = w.spec
    BY <2>1, SetObservedKeeps, SetObservedFields
  <2> HIDE DEF w
  <2>5. /\ work'[o].status.mgmt = work[o].status.mgmt
        /\ work'[o].deleting = work[o].deleting
        /\ work'[o].finalizer = work[o].finalizer /\ work'[o].spec = work[o].spec
    BY <2>2, <2>3, <2>4
  <2>6. pc'[o] = "Decide"
    BY <1>3, <1>5 DEF Goto, TypeOK
  <2>7. UnmanagedGuard(o)' /\ DeleteGuard(o)'
    BY <1>2, <2>5, <2>6 DEF UnmanagedGuard, DeleteGuard
  <2>8. QED
    BY <1>1, <1>2, <2>7, ControlStep
<1>6. QED
  BY <1>4, <1>5

(* reconcile's branch choice copies the spec's management state into the  *)
(* copy's status; with an Unmanaged status read, only the Unmanaged       *)
(* branch is open, and it drops the copy's finalizer.                     *)
LEMMA DecideControl ==
    ASSUME TypeOK, ReconcileGuard, NEW o \in Objs, NEW cond,
           NEW w \in Objects, NEW p \in {"PatchMeta", "Check", "DelDescribe"},
           DecideStep(o, cond, w, p),
           w.spec = work[o].spec, w.deleting = work[o].deleting,
           w.spec.mgmt = "Unmanaged" => p = "PatchMeta" /\ ~w.finalizer,
           p = "DelDescribe" => w.deleting
    PROVE  ReconcileGuard' /\ MgmtStays
<1>1. \A x \in Objs \ {o} : Own(x)
  BY DEF DecideStep, Own, SetWork, Goto, TypeOK
<1>2. /\ UnmanagedGuard(o) /\ DeleteGuard(o) /\ pc[o] = "Decide"
      /\ UNCHANGED <<obj, snap>>
  BY DEF ReconcileGuard, DecideStep
<1>3. work'[o] = WithMgmt(w, w.spec.mgmt) /\ pc'[o] = p
  BY DEF DecideStep, SetWork, Goto, TypeOK
<1>4. /\ work'[o].status.mgmt = w.spec.mgmt /\ work'[o].deleting = w.deleting
      /\ work'[o].finalizer = w.finalizer /\ work'[o].spec = w.spec
  BY <1>3, WithMgmtSets
<1>5. w.spec.mgmt \in {"Managed", "Unmanaged"}
  BY DEF Objects, Specs
<1>6. UnmanagedGuard(o)'
  BY <1>2, <1>3, <1>4, <1>5 DEF UnmanagedGuard
<1>7. DeleteGuard(o)'
  BY <1>2, <1>3, <1>4 DEF DeleteGuard
<1>8. QED
  BY <1>1, <1>2, <1>6, <1>7, ControlStep

LEMMA DecideStepsControl ==
    ASSUME TypeOK, ReconcileGuard, NEW o \in Objs,
           DecideUnmanaged(o) \/ DecideAddFinalizer(o) \/ DecideDelete(o)
             \/ DecideCheck(o)
    PROVE  ReconcileGuard' /\ MgmtStays
<1>1. work[o] \in Objects
  BY DEF TypeOK
<1>2. CASE DecideUnmanaged(o)
  <2>1. /\ WithFinalizer(work[o], FALSE) \in Objects
        /\ WithFinalizer(work[o], FALSE).spec = work[o].spec
        /\ WithFinalizer(work[o], FALSE).deleting = work[o].deleting
        /\ ~WithFinalizer(work[o], FALSE).finalizer
    BY <1>1, ObjectUpdateTypes, WithFinalizerFields, WithFinalizerKeeps
  <2>2. QED
    BY <1>2, <2>1, DecideControl DEF DecideUnmanaged
<1>3. CASE DecideAddFinalizer(o)
  <2>1. /\ WithFinalizer(work[o], TRUE) \in Objects
        /\ WithFinalizer(work[o], TRUE).spec = work[o].spec
        /\ WithFinalizer(work[o], TRUE).deleting = work[o].deleting
    BY <1>1, ObjectUpdateTypes, WithFinalizerFields, WithFinalizerKeeps
  <2>2. QED
    BY <1>3, <2>1, DecideControl DEF DecideAddFinalizer, DecideStep
<1>4. CASE DecideDelete(o)
  BY <1>1, <1>4, DecideControl DEF DecideDelete, DecideStep
<1>5. CASE DecideCheck(o)
  BY <1>1, <1>5, DecideControl DEF DecideCheck, DecideStep
<1>6. QED
  BY <1>2, <1>3, <1>4, <1>5
-----------------------------------------------------------------------------
(* The Managed branches: checkOrCreatePlacementGroup and                  *)
(* deletePlacementGroup.  None changes the stored object or the base.     *)
LEMMA CheckControl ==
    ASSUME TypeOK, ReconcileGuard, NEW o \in Objs, Check(o)
    PROVE  ReconcileGuard' /\ MgmtStays
<1>1. \A x \in Objs \ {o} : Own(x)
  BY DEF Check, Own, SetWork, Goto, TypeOK
<1>2. /\ UnmanagedGuard(o) /\ DeleteGuard(o) /\ UNCHANGED <<obj, snap>>
      /\ pc[o] = "Check" /\ pc'[o] \in {"Create", "PatchMeta"}
  BY DEF ReconcileGuard, Check, Goto, TypeOK
<1>3. WorkKept(o)
  <2>1. work[o] \in Objects
    BY DEF TypeOK
  <2>2. \/ work'[o] = work[o]
        \/ work'[o] = SetObserved(work[o], cloud[NameOf[o]])
        \/ work'[o] = WithReady(work[o], "ConfigurationMismatch")
    BY DEF Check, SetWork, TypeOK
  <2>3. QED
    BY <2>1, <2>2, ManagedUpdatesKept DEF WorkKept
<1>4. QED
  BY <1>1, <1>2, <1>3, ManagedStep, ControlStep DEF HoldPCs, DeletePCs

LEMMA CreateControl ==
    ASSUME TypeOK, ReconcileGuard, NEW o \in Objs, Create(o)
    PROVE  ReconcileGuard' /\ MgmtStays
<1>1. \A x \in Objs \ {o} : Own(x)
  BY DEF Create, Own, SetWork, Goto, TypeOK
<1>2. /\ UnmanagedGuard(o) /\ DeleteGuard(o) /\ UNCHANGED <<obj, snap>>
      /\ pc[o] = "Create" /\ pc'[o] = "PatchMeta"
  BY DEF ReconcileGuard, Create, Goto, TypeOK
<1>3. WorkKept(o)
  <2>1. work[o] \in Objects
    BY DEF TypeOK
  <2>2. \/ work'[o] = WithReady(work[o], "CreationFailed")
        \/ work'[o] = WithReady(work[o], "CreationSucceeded")
    BY DEF Create, SetWork, TypeOK
  <2>3. QED
    BY <2>1, <2>2, ManagedUpdatesKept DEF WorkKept
<1>4. QED
  BY <1>1, <1>2, <1>3, ManagedStep, ControlStep DEF HoldPCs, DeletePCs

LEMMA DelDescribeControl ==
    ASSUME TypeOK, ReconcileGuard, NEW o \in Objs, DelDescribe(o)
    PROVE  ReconcileGuard' /\ MgmtStays
<1>1. \A x \in Objs \ {o} : Own(x)
  BY DEF DelDescribe, Own, SetWork, Goto, TypeOK
<1>2. /\ UnmanagedGuard(o) /\ DeleteGuard(o) /\ UNCHANGED <<obj, snap>>
      /\ pc[o] = "DelDescribe" /\ pc'[o] \in {"DelInstances", "PatchMeta"}
  BY DEF ReconcileGuard, DelDescribe, Goto, TypeOK
<1>3. WorkKept(o)
  <2>1. work[o] \in Objects
    BY DEF TypeOK
  <2>2. work'[o] = work[o] \/ work'[o] = WithFinalizer(work[o], FALSE)
    BY DEF DelDescribe, SetWork, TypeOK
  <2>3. QED
    BY <2>1, <2>2, ManagedUpdatesKept DEF WorkKept
<1>4. QED
  BY <1>1, <1>2, <1>3, ManagedStep, ControlStep DEF HoldPCs, DeletePCs

LEMMA DelInstancesControl ==
    ASSUME TypeOK, ReconcileGuard, NEW o \in Objs, DelInstances(o)
    PROVE  ReconcileGuard' /\ MgmtStays
<1>1. \A x \in Objs \ {o} : Own(x)
  BY DEF DelInstances, Own, Goto, TypeOK
<1>2. /\ UnmanagedGuard(o) /\ DeleteGuard(o) /\ UNCHANGED <<obj, snap, work>>
      /\ pc[o] = "DelInstances" /\ pc'[o] \in {"DelCall", "PatchMeta"}
  BY DEF ReconcileGuard, DelInstances, Goto, TypeOK
<1>3. WorkKept(o)
  BY <1>2, ManagedUpdatesKept DEF WorkKept, TypeOK
<1>4. QED
  BY <1>1, <1>2, <1>3, ManagedStep, ControlStep DEF HoldPCs, DeletePCs

LEMMA DelCallControl ==
    ASSUME TypeOK, ReconcileGuard, NEW o \in Objs, DelCall(o)
    PROVE  ReconcileGuard' /\ MgmtStays
<1>1. \A x \in Objs \ {o} : Own(x)
  BY DEF DelCall, Own, SetWork, Goto, TypeOK
<1>2. /\ UnmanagedGuard(o) /\ DeleteGuard(o) /\ UNCHANGED <<obj, snap>>
      /\ pc[o] = "DelCall" /\ pc'[o] = "PatchMeta"
  BY DEF ReconcileGuard, DelCall, Goto, TypeOK
<1>3. WorkKept(o)
  <2>1. work[o] \in Objects
    BY DEF TypeOK
  <2>2. work'[o] = work[o] \/ work'[o] = WithFinalizer(work[o], FALSE)
    BY DEF DelCall, SetWork, TypeOK
  <2>3. QED
    BY <2>1, <2>2, ManagedUpdatesKept DEF WorkKept
<1>4. QED
  BY <1>1, <1>2, <1>3, ManagedStep, ControlStep DEF HoldPCs, DeletePCs
-----------------------------------------------------------------------------
(* The metadata Patch: the merged finalizer is FALSE whenever the status  *)
(* or the copy says Unmanaged, since the Unmanaged branch dropped it.     *)
LEMMA PatchMetaControl ==
    ASSUME TypeOK, ReconcileGuard, NEW o \in Objs, PatchMeta(o)
    PROVE  ReconcileGuard' /\ MgmtStays
<1>1. \A x \in Objs \ {o} : Own(x)
  BY DEF PatchMeta, Own, Goto, TypeOK
<1>2. /\ UnmanagedGuard(o) /\ DeleteGuard(o) /\ pc[o] = "PatchMeta"
      /\ UNCHANGED <<snap, work>>
  BY DEF ReconcileGuard, PatchMeta
<1>3. CASE pc'[o] = "Idle"
  <2>1. obj' = obj
    BY <1>3 DEF PatchMeta, Goto, TypeOK
  <2>2. QED
    BY <1>1, <1>2, <1>3, <2>1, ControlStep DEF UnmanagedGuard, DeleteGuard
<1>4. CASE pc'[o] # "Idle"
  <2> DEFINE fin == Merged(obj[o].finalizer, snap[o].finalizer, work[o].finalizer)
  <2>1. obj'[o] = Stored(WithFinalizer(obj[o], fin)) /\ pc'[o] = "PatchStatus"
    BY <1>4 DEF PatchMeta, Goto, TypeOK
  <2>2. obj[o] \in Objects /\ fin \in BOOLEAN
    BY DEF TypeOK, Objects, Merged
  <2>3. WithFinalizer(obj[o], fin) \in Objects
    BY <2>2, ObjectUpdateTypes
  <2>4. /\ WithFinalizer(obj[o], fin).finalizer = fin
        /\ WithFinalizer(obj[o], fin).status = obj[o].status
        /\ WithFinalizer(obj[o], fin).deleting = obj[o].deleting
    BY <2>2, WithFinalizerFields, WithFinalizerKeeps
  <2>5. /\ obj'[o].finalizer = fin /\ obj'[o].status = obj[o].status
        /\ obj'[o].deleting = obj[o].deleting
    BY <2>1, <2>3, <2>4, DeletionKeeps, DeletionFields
  <2>6. obj[o].status.mgmt = "Unmanaged" \/ work[o].status.mgmt = "Unmanaged" => ~fin
    BY <1>2 DEF UnmanagedGuard, Merged
  <2>7. UnmanagedGuard(o)' /\ DeleteGuard(o)'
    BY <1>2, <2>1, <2>5, <2>6 DEF UnmanagedGuard, DeleteGuard
  <2>8. QED
    BY <1>1, <2>5, <2>7, ControlStep
<1>5. QED
  BY <1>3, <1>4

(* The Status Patch stores the merged status: it brings Unmanaged only    *)
(* from a copy that says so, and then the stored finalizer is gone.       *)
LEMMA PatchStatusControl ==
    ASSUME TypeOK, ReconcileGuard, NEW o \in Objs, PatchStatus(o)
    PROVE  ReconcileGuard' /\ MgmtStays
<1>1. \A x \in Objs \ {o} : Own(x)
  BY DEF PatchStatus, Own, Goto, TypeOK
<1>2. /\ UnmanagedGuard(o) /\ DeleteGuard(o) /\ pc[o] = "PatchStatus"
      /\ pc'[o] = "Idle" /\ UNCHANGED <<snap, work>>
  BY DEF ReconcileGuard, PatchStatus, Goto, TypeOK
<1>3. CASE obj' = obj
  BY <1>1, <1>2, <1>3, ControlStep DEF UnmanagedGuard, DeleteGuard
<1>4. CASE obj' # obj
  <2> DEFINE st == MergeStatus(obj[o].status, snap[o].status, work[o].status)
  <2>1. obj'[o] = WithStatus(obj[o], st)
    BY <1>4 DEF PatchStatus, TypeOK
  <2>2. obj[o] \in Objects
    BY DEF TypeOK
  <2>3. /\ obj'[o].status.mgmt
             = Merged(obj[o].status.mgmt, snap[o].status.mgmt, work[o].status.mgmt)
        /\ obj'[o].finalizer = obj[o].finalizer
        /\ obj'[o].deleting = obj[o].deleting
    BY <2>1, <2>2, WithStatusSets, WithStatusFields, MergeStatusMgmt
  <2>4. obj'[o].status.mgmt = "Unmanaged" => ~obj[o].finalizer
    <3>1. CASE work[o].status.mgmt # snap[o].status.mgmt
      BY <1>2, <2>3, <3>1 DEF UnmanagedGuard, Merged
    <3>2. CASE work[o].status.mgmt = snap[o].status.mgmt
      BY <1>2, <2>3, <3>2 DEF UnmanagedGuard, Merged
    <3>3. QED
      BY <3>1, <3>2
  <2>5. obj[o].status.mgmt = "Unmanaged" => obj'[o].status.mgmt = "Unmanaged"
    BY <1>2, <2>3 DEF UnmanagedGuard, Merged
  <2>6. UnmanagedGuard(o)' /\ DeleteGuard(o)'
    BY <1>2, <2>3, <2>4 DEF UnmanagedGuard, DeleteGuard
  <2>7. QED
    BY <1>1, <2>5, <2>6, ControlStep
<1>5. QED
  BY <1>3, <1>4
-----------------------------------------------------------------------------
(* The user's edits, the deletion request and the expiry of the cached   *)
(* configuration change the spec, the deletion mark or the freshness of  *)
(* the stored object: never its management state or finalizer.           *)
LEMMA UserControl ==
    ASSUME TypeOK, ReconcileGuard, NEW o \in Objs,
           UserSetManagement(o) \/ UserEditConfig(o) \/ UserDelete(o) \/ Expire(o)
    PROVE  ReconcileGuard' /\ MgmtStays
<1>1. /\ \A x \in Objs \ {o} : Own(x)
      /\ UNCHANGED <<pc, snap, work>>
  BY DEF UserSetManagement, UserEditConfig, UserDelete, Expire, Own, TypeOK
<1>2. obj[o] \in Objects /\ UnmanagedGuard(o) /\ DeleteGuard(o)
  BY DEF TypeOK, ReconcileGuard
<1>3. /\ obj'[o].status.mgmt = obj[o].status.mgmt
      /\ obj'[o].finalizer = obj[o].finalizer
      /\ obj[o].deleting => obj'[o].deleting
  <2>1. CASE UserSetManagement(o) \/ UserEditConfig(o)
    <3>1. PICK sp : obj'[o] = WithSpec(obj[o], sp)
      <4>1. CASE UserSetManagement(o)
        <5>1. PICK sp : obj' = [obj EXCEPT ![o] = WithSpec(obj[o], sp)]
          BY <4>1, Zenon DEF UserSetManagement
        <5>2. QED
          BY <5>1 DEF TypeOK
      <4>2. CASE UserEditConfig(o)
        <5>1. PICK sp : obj' = [obj EXCEPT ![o] = WithSpec(obj[o], sp)]
          BY <4>2, Zenon DEF UserEditConfig
        <5>2. QED
          BY <5>1 DEF TypeOK
      <4>3. QED
        BY <2>1, <4>1, <4>2
    <3>2. QED
      BY <1>2, <3>1, WithSpecKeeps, WithSpecFields
  <2>2. CASE UserDelete(o)
    <3>1. obj'[o] = Stored(WithDeleting(obj[o]))
      BY <2>2 DEF UserDelete, TypeOK
    <3>2. WithDeleting(obj[o]) \in Objects
      BY <1>2, ObjectUpdateTypes
    <3>3. QED
      BY <1>2, <3>1, <3>2, DeletionKeeps, DeletionFields
  <2>3. CASE Expire(o)
    <3>1. obj'[o] = WithFresh(obj[o], FALSE)
      BY <2>3 DEF Expire, TypeOK
    <3>2. /\ WithFresh(obj[o], FALSE).status.mgmt = obj[o].status.mgmt
          /\ WithFresh(obj[o], FALSE).deleting = obj[o].deleting
          /\ WithFresh(obj[o], FALSE).finalizer = obj[o].finalizer
      BY <1>2, WithFreshKeeps
    <3>3. QED
      BY <3>1, <3>2
  <2>4. QED
    BY <2>1, <2>2, <2>3
<1>4. UnmanagedGuard(o)' /\ DeleteGuard(o)'
  BY <1>1, <1>2, <1>3, ObjectKept
<1>5. QED
  BY <1>1, <1>3, <1>4, ControlStep

(* EC2's own changes leave every object, copy and base alone.            *)
LEMMA GroupControl ==
    ASSUME ReconcileGuard, NEW n \in Names,
           Propagate(n) \/ LaunchMember(n) \/ TerminateMember(n)
    PROVE  ReconcileGuard' /\ MgmtStays
<1>1. UNCHANGED <<obj, pc, snap, work>>
  BY DEF Propagate, LaunchMember, TerminateMember
<1>2. QED
  BY <1>1 DEF ReconcileGuard, UnmanagedGuard, DeleteGuard, MgmtStays
-----------------------------------------------------------------------------
(* Every step of Reconcile, of the user and of EC2 keeps ReconcileGuard   *)
(* and leaves a stored Unmanaged status in place.                         *)
LEMMA ControlNext ==
    ASSUME TypeOK, ReconcileGuard, [Next]_vars
    PROVE  ReconcileGuard' /\ MgmtStays
<1>1. ASSUME NEW o \in Objs, Reconcile(o) PROVE ReconcileGuard' /\ MgmtStays
  BY <1>1, StartControl, ReflectControl, DecideStepsControl, CheckControl,
     CreateControl, DelDescribeControl, DelInstancesControl, DelCallControl,
     PatchMetaControl, PatchStatusControl DEF Reconcile
<1>2. CASE Environment
  BY <1>2, UserControl, GroupControl DEF Environment
<1>3. CASE UNCHANGED vars
  BY <1>3 DEF vars, ReconcileGuard, UnmanagedGuard, DeleteGuard, MgmtStays
<1>4. QED
  BY <1>1, <1>2, <1>3 DEF Next

(* ReconcileGuard is an invariant: whatever the user, EC2 and the         *)
(* interleaving of Reconcile calls do, a running Reconcile keeps the      *)
(* stored management state and finalizer it read, an Unmanaged status     *)
(* comes with no finalizer, and the delete branch runs only for an object *)
(* marked for deletion.  No assumption on the constants is needed.        *)
THEOREM ReconcileGuardInvariant == Spec => []ReconcileGuard
<1>1. Init => ReconcileGuard
  BY ControlInit
<1>2. TypeOK /\ ReconcileGuard /\ [Next]_vars => ReconcileGuard'
  BY ControlNext
<1>3. QED
  BY <1>1, <1>2, TypeCorrect, PTL DEF Spec

(* What ReconcileGuard says of one step: a stored Unmanaged status stays, *)
(* with no finalizer, and the branches that create or delete the EC2     *)
(* group are not running for such an object.                             *)
LEMMA UnmanagedStep ==
    ASSUME ReconcileGuard, ReconcileGuard', MgmtStays
    PROVE  \A o \in Objs :
             obj[o].phase = "Present" /\ obj[o].status.mgmt = "Unmanaged"
               => /\ obj'[o].status.mgmt = "Unmanaged"
                  /\ ~obj'[o].finalizer
                  /\ (pc[o] \in {"Create", "DelCall"} => cloud' = cloud)
<1> SUFFICES ASSUME NEW o \in Objs, obj[o].status.mgmt = "Unmanaged"
             PROVE  /\ obj'[o].status.mgmt = "Unmanaged"
                    /\ ~obj'[o].finalizer
                    /\ pc[o] \notin {"Create", "DelCall"}
  OBVIOUS
<1>1. obj'[o].status.mgmt = "Unmanaged"
  BY DEF MgmtStays
<1>2. ~obj'[o].finalizer
  BY <1>1 DEF ReconcileGuard, UnmanagedGuard
<1>3. pc[o] \notin {"Create", "DelCall"}
  BY DEF ReconcileGuard, UnmanagedGuard
<1>4. QED
  BY <1>1, <1>2, <1>3

(* Unmanaged is final (UnmanagedIsFinal), for every number of objects,    *)
(* groups, faults and edits: validateAWSPlacementGroup's refusal to go    *)
(* back from Unmanaged holds of the stored status, and no Reconcile that  *)
(* read an Unmanaged object adds the finalizer back or calls EC2's Create *)
(* or Delete.                                                             *)
THEOREM UnmanagedFinal == Spec => UnmanagedIsFinal
<1>1. TypeOK /\ ReconcileGuard /\ [Next]_vars
        => [\A o \in Objs :
              obj[o].phase = "Present" /\ obj[o].status.mgmt = "Unmanaged"
                => /\ obj'[o].status.mgmt = "Unmanaged"
                   /\ ~obj'[o].finalizer
                   /\ (pc[o] \in {"Create", "DelCall"} => cloud' = cloud)]_vars
  BY ControlNext, UnmanagedStep
<1>2. QED
  BY <1>1, ReconcileGuardInvariant, TypeCorrect, PTL DEF Spec, UnmanagedIsFinal
-----------------------------------------------------------------------------
(* A group that exists still exists after the step.                       *)
ExistsKept == \A m \in Names : cloud[m].exists => cloud'[m].exists

(* Only DeletePlacementGroup removes a group: CreatePlacementGroup adds  *)
(* one, and EC2's own changes keep every group existing.                  *)
LEMMA NoRemoval ==
    ASSUME TypeOK, NEW o \in Objs,
           \/ Start(o) \/ Reflect(o)
           \/ DecideUnmanaged(o) \/ DecideAddFinalizer(o) \/ DecideDelete(o)
           \/ DecideCheck(o) \/ Check(o) \/ Create(o) \/ DelDescribe(o)
           \/ DelInstances(o) \/ PatchMeta(o) \/ PatchStatus(o)
           \/ UserSetManagement(o) \/ UserEditConfig(o) \/ UserDelete(o)
           \/ Expire(o)
    PROVE  ExistsKept
<1>1. CASE Create(o)
  BY <1>1 DEF Create, ExistsKept, TypeOK
<1>2. CASE ~Create(o)
  <2>1. UNCHANGED cloud
    BY <1>2 DEF Start, Reflect, DecideUnmanaged, DecideAddFinalizer, DecideDelete,
       DecideCheck, DecideStep, Check, DelDescribe, DelInstances, PatchMeta,
       PatchStatus, UserSetManagement, UserEditConfig, UserDelete, Expire
  <2>2. QED
    BY <2>1 DEF ExistsKept
<1>3. QED
  BY <1>1, <1>2

LEMMA GroupNoRemoval ==
    ASSUME TypeOK, NEW n \in Names,
           Propagate(n) \/ LaunchMember(n) \/ TerminateMember(n)
    PROVE  ExistsKept
<1>1. cloud[n] \in Groups
  BY DEF TypeOK
<1>2. \E g : /\ cloud' = [cloud EXCEPT ![n] = g]
             /\ g.exists = cloud[n].exists
  BY <1>1, GroupUpdateFields DEF Propagate, LaunchMember, TerminateMember
<1>3. QED
  BY <1>2 DEF ExistsKept, TypeOK

(* DeletePlacementGroup removes the group of its own object's name only,  *)
(* and the delete branch runs only for an object marked for deletion.     *)
LEMMA DelCallRemoval ==
    ASSUME TypeOK, ReconcileGuard, NEW o \in Objs, DelCall(o),
           NEW n \in Names, cloud[n].exists, ~cloud'[n].exists
    PROVE  n = NameOf[o] /\ obj[o].deleting
<1>1. n = NameOf[o]
  BY DEF DelCall, TypeOK
<1>2. obj[o].deleting
  BY DEF DelCall, ReconcileGuard, DeleteGuard
<1>3. QED
  BY <1>1, <1>2

(* A step that removes a group does so on behalf of a marked object, and  *)
(* when names are distinct no other object has that name.                 *)
LEMMA DeletionStep ==
    ASSUME TypeOK, ReconcileGuard, [Next]_vars,
           \A a, b \in Objs : NameOf[a] = NameOf[b] => a = b
    PROVE  \A n \in Names :
             cloud[n].exists /\ ~cloud'[n].exists =>
               \A x \in Objs : NameOf[x] = n /\ obj[x].phase = "Present"
                               /\ obj[x].finalizer => obj[x].deleting
<1> SUFFICES ASSUME NEW n \in Names, cloud[n].exists, ~cloud'[n].exists,
                    NEW x \in Objs, NameOf[x] = n
             PROVE  obj[x].deleting
  OBVIOUS
<1>1. ~ExistsKept
  BY DEF ExistsKept
<1>2. CASE UNCHANGED vars
  BY <1>1, <1>2 DEF vars, ExistsKept
<1>3. CASE Environment
  BY <1>1, <1>3, NoRemoval, GroupNoRemoval DEF Environment
<1>4. ASSUME NEW o \in Objs, Reconcile(o) PROVE obj[x].deleting
  <2>1. CASE DelCall(o)
    <3>1. n = NameOf[o] /\ obj[o].deleting
      BY <2>1, DelCallRemoval
    <3>2. x = o
      BY <3>1
    <3>3. QED
      BY <3>1, <3>2
  <2>2. CASE ~DelCall(o)
    BY <1>1, <1>4, <2>2, NoRemoval DEF Reconcile
  <2>3. QED
    BY <2>1, <2>2
<1>5. QED
  BY <1>2, <1>3, <1>4 DEF Next

(* A placement group is deleted only for its object                       *)
(* (GroupDeletedOnlyForItsObject), when no two AWSPlacementGroup objects  *)
(* share a name: deletePlacementGroup, which finds the group by name      *)
(* alone, never removes the group of a present object that holds its     *)
(* finalizer and is not being deleted.  The condition on names is needed: *)
(* run pg_shared_name shows the step that breaks it otherwise.            *)
THEOREM GroupDeletedOnlyForOwner ==
    ASSUME \A a, b \in Objs : NameOf[a] = NameOf[b] => a = b
    PROVE  Spec => GroupDeletedOnlyForItsObject
<1>1. TypeOK /\ ReconcileGuard /\ [Next]_vars
        => [\A n \in Names :
              cloud[n].exists /\ ~cloud'[n].exists =>
                 \A o \in Objs : NameOf[o] = n /\ obj[o].phase = "Present"
                                /\ obj[o].finalizer => obj[o].deleting]_vars
  BY DeletionStep
<1>2. QED
  BY <1>1, ReconcileGuardInvariant, TypeCorrect, PTL
     DEF Spec, GroupDeletedOnlyForItsObject
=============================================================================
