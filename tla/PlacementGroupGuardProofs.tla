--------------------- MODULE PlacementGroupGuardProofs ---------------------
(***************************************************************************)
(* Proof that the finalizer protocol of the AWSPlacementGroup controller  *)
(* keeps every owned EC2 placement group guarded by a finalizer, hence    *)
(* that no group is leaked, for every number of objects and groups, when  *)
(* Describe is consistent, reports a missing group as an empty answer,    *)
(* and no two objects share a group name.                                 *)
(***************************************************************************)
EXTENDS PlacementGroupProofs

(* The conditions under which deletion cannot leak a group.              *)
LeakFreeConditions ==
    /\ \A a, b \in Objs : NameOf[a] = NameOf[b] => a = b
    /\ ~EventualConsistency
    /\ "Client" \notin DescribeErrors

(* The single-field updates of an object leave the fields the protocol   *)
(* reads as they were, except the one they set.                           *)
LEMMA WithFinalizerFields ==
    ASSUME NEW w \in Objects, NEW f
    PROVE  /\ WithFinalizer(w, f).finalizer = f /\ WithFinalizer(w, f).spec = w.spec
           /\ WithFinalizer(w, f).phase = w.phase
           /\ WithFinalizer(w, f).deleting = w.deleting
BY Zenon DEF WithFinalizer, Objects

LEMMA WithReadyFields ==
    ASSUME NEW w \in Objects, NEW r
    PROVE  WithReady(w, r).finalizer = w.finalizer /\ WithReady(w, r).spec = w.spec
BY Zenon DEF WithReady, Objects

LEMMA WithFreshFields ==
    ASSUME NEW w \in Objects, NEW b
    PROVE  /\ WithFresh(w, b).finalizer = w.finalizer /\ WithFresh(w, b).spec = w.spec
           /\ WithFresh(w, b).phase = w.phase
BY Zenon DEF WithFresh, Objects

LEMMA WithMgmtFields ==
    ASSUME NEW w \in Objects, NEW m
    PROVE  WithMgmt(w, m).finalizer = w.finalizer /\ WithMgmt(w, m).spec = w.spec
BY Zenon DEF WithMgmt, Objects

LEMMA SetObservedFields ==
    ASSUME NEW w \in Objects, NEW g
    PROVE  SetObserved(w, g).finalizer = w.finalizer /\ SetObserved(w, g).spec = w.spec
BY Zenon DEF SetObserved, Objects

LEMMA WithStatusFields ==
    ASSUME NEW w \in Objects, NEW st
    PROVE  /\ WithStatus(w, st).finalizer = w.finalizer
           /\ WithStatus(w, st).spec = w.spec /\ WithStatus(w, st).phase = w.phase
BY Zenon DEF WithStatus, Objects

LEMMA WithSpecFields ==
    ASSUME NEW w \in Objects, NEW sp
    PROVE  /\ WithSpec(w, sp).finalizer = w.finalizer /\ WithSpec(w, sp).spec = sp
           /\ WithSpec(w, sp).phase = w.phase
BY Zenon DEF WithSpec, Objects

(* The API server removes only an object without finalizer.              *)
LEMMA DeletionFields ==
    ASSUME NEW w \in Objects
    PROVE  /\ WithDeleting(w).finalizer = w.finalizer
           /\ WithDeleting(w).spec = w.spec
           /\ Stored(w).finalizer = w.finalizer /\ Stored(w).spec = w.spec
           /\ Stored(w).phase = "Gone" => ~w.finalizer
<1>1. WithDeleting(w).finalizer = w.finalizer /\ WithDeleting(w).spec = w.spec
  BY Zenon DEF WithDeleting, Objects
<1>2. Stored(w).finalizer = w.finalizer /\ Stored(w).spec = w.spec
      /\ (Stored(w).phase = "Gone" => ~w.finalizer)
  BY Zenon DEF Stored, Objects
<1>3. QED
  BY <1>1, <1>2

(* EC2's updates of a group's members or visibility keep it existing and *)
(* owned as it was.                                                       *)
LEMMA GroupUpdateFields ==
    ASSUME NEW g \in Groups
    PROVE  /\ \A k : WithMembers(g, k).exists = g.exists
                     /\ WithMembers(g, k).owned = g.owned
                     /\ WithMembers(g, k).visible = g.visible
           /\ Visible(g).exists = g.exists /\ Visible(g).owned = g.owned
           /\ Visible(g).visible
<1>1. \A k : WithMembers(g, k).exists = g.exists /\ WithMembers(g, k).owned = g.owned
             /\ WithMembers(g, k).visible = g.visible
  BY Zenon DEF WithMembers, Groups
<1>2. Visible(g).exists = g.exists /\ Visible(g).owned = g.owned /\ Visible(g).visible
  BY Zenon DEF Visible, Groups
<1>3. QED
  BY <1>1, <1>2

(* A spec edit by the user changes the management state only through    *)
(* UserSetManagement.                                                    *)
LEMMA SpecUpdateFields ==
    ASSUME NEW sp \in Specs
    PROVE  /\ \A m : [sp EXCEPT !.mgmt = m].mgmt = m
           /\ \A t, h, c : [sp EXCEPT !.type = t, !.hasPart = h, !.part = c].mgmt
                             = sp.mgmt
BY Zenon DEF Specs
(* A step that leaves an object's own state and its group's existence and *)
(* ownership alone.                                                        *)
Untouched(x) ==
    /\ obj'[x] = obj[x] /\ snap'[x] = snap[x] /\ work'[x] = work[x]
    /\ pc'[x] = pc[x] /\ everUnmanaged'[x] = everUnmanaged[x]
    /\ cloud'[NameOf[x]].exists = cloud[NameOf[x]].exists
    /\ cloud'[NameOf[x]].owned = cloud[NameOf[x]].owned

(* The protocol of an object holds across a step that leaves it alone.   *)
LEMMA GuardFrame ==
    ASSUME NEW x \in Objs, ObjectGuard(x), Untouched(x)
    PROVE  ObjectGuard(x)'
BY DEF ObjectGuard, OwnedGroup, Untouched

(* Distinct objects name distinct groups.                                 *)
LEMMA NamesDistinct ==
    ASSUME LeakFreeConditions, NEW o \in Objs, NEW x \in Objs \ {o}
    PROVE  NameOf[x] # NameOf[o]
BY DEF LeakFreeConditions

(* A Describe answer that is not a server error is a success.            *)
LEMMA DescribeAnswer ==
    ASSUME LeakFreeConditions, NEW r \in DescribeOutcomes, r # "Server"
    PROVE  r = "ok"
BY DescribeErrorsAssumption DEF LeakFreeConditions, DescribeOutcomes

(* The initial states satisfy the protocol: no object holds a finalizer  *)
(* or is being reconciled, and EC2 holds only visible foreign groups.     *)
LEMMA GuardInit ==
    ASSUME Init PROVE FinalizerGuardsGroup
<1>1. ASSUME NEW n \in Names
      PROVE  cloud[n] = NoGroup \/ (cloud[n].visible /\ ~cloud[n].owned)
  <2>1. CASE ForeignGroups
    BY <2>1 DEF Init
  <2>2. CASE ~ForeignGroups
    BY <2>2 DEF Init
  <2>3. QED
    BY <2>1, <2>2
<1>2. \A n \in Names : ~OwnedGroup(n) /\ (cloud[n].exists => cloud[n].visible)
  BY <1>1 DEF OwnedGroup, NoGroup
<1>3. ASSUME NEW o \in Objs PROVE ObjectGuard(o)
  <2>1. ~obj[o].finalizer /\ snap[o] = obj[o] /\ work[o] = obj[o] /\ pc[o] = "Idle"
        /\ everUnmanaged[o] = (obj[o].spec.mgmt = "Unmanaged")
    BY DEF Init
  <2>2. QED
    BY <1>2, <2>1, NameOfType DEF ObjectGuard
<1>4. QED
  BY <1>2, <1>3 DEF FinalizerGuardsGroup, DescribeConsistent
(* A step keeps the protocol when Describe stays consistent, the acting  *)
(* object keeps its protocol and every other object is left alone.       *)
LEMMA GuardStep ==
    ASSUME FinalizerGuardsGroup, NEW o \in Objs, DescribeConsistent',
           ObjectGuard(o)', \A x \in Objs \ {o} : Untouched(x)
    PROVE  FinalizerGuardsGroup'
BY GuardFrame DEF FinalizerGuardsGroup

-----------------------------------------------------------------------------
(* Reconcile reads the object: the copy and the MergeFrom base are the    *)
(* object as read, finalizer included.                                    *)
LEMMA StartGuard ==
    ASSUME TypeOK, FinalizerGuardsGroup, NEW o \in Objs, Start(o)
    PROVE  FinalizerGuardsGroup'
<1>1. \A x \in Objs \ {o} : Untouched(x)
  BY DEF Start, Untouched, SetWork, Goto, TypeOK
<1>2. DescribeConsistent'
  BY DEF Start, DescribeConsistent, FinalizerGuardsGroup
<1>3. ObjectGuard(o)'
  <2>1. CASE UNCHANGED <<pc, snap, work>>
    BY <2>1, GuardFrame DEF Start, Untouched, FinalizerGuardsGroup
  <2>2. CASE ~UNCHANGED <<pc, snap, work>>
    <3>1. /\ snap'[o] = obj[o] /\ work'[o] = obj[o]
          /\ pc'[o] \in {"Decide", "Reflect"}
          /\ UNCHANGED <<obj, cloud, everUnmanaged>>
      BY <2>2 DEF Start, SetWork, Goto, TypeOK
    <3>2. ObjectGuard(o)
      BY DEF FinalizerGuardsGroup
    <3>3. QED
      BY <3>1, <3>2 DEF ObjectGuard, OwnedGroup
  <2>3. QED
    BY <2>1, <2>2
<1>4. QED
  BY <1>1, <1>2, <1>3, GuardStep

(* reflectObservedConfiguration renews the status only.                  *)
LEMMA ReflectGuard ==
    ASSUME TypeOK, FinalizerGuardsGroup, NEW o \in Objs, Reflect(o)
    PROVE  FinalizerGuardsGroup'
<1>1. \A x \in Objs \ {o} : Untouched(x)
  BY DEF Reflect, Untouched, SetWork, Goto, TypeOK
<1>2. DescribeConsistent'
  BY DEF Reflect, DescribeConsistent, FinalizerGuardsGroup
<1>3. ObjectGuard(o)'
  <2>1. ObjectGuard(o) /\ pc[o] = "Reflect"
    BY DEF FinalizerGuardsGroup, Reflect
  <2>2. PICK r \in DescribeOutcomes :
          IF r = "Server"
          THEN Fault /\ Again(o) /\ Goto(o, "PatchMeta") /\ UNCHANGED work
          ELSE /\ Tally(r)
               /\ LET w == WithFresh(work[o], TRUE)
                  IN  SetWork(o, IF Seen(NameOf[o], r) = {} THEN w
                                 ELSE SetObserved(w, cloud[NameOf[o]]))
               /\ Goto(o, "Decide") /\ UNCHANGED requeue
    BY DEF Reflect
  <2>3. UNCHANGED <<obj, cloud, snap, everUnmanaged>>
    BY DEF Reflect
  <2>4. CASE r = "Server"
    <3>1. pc'[o] = "PatchMeta" /\ work' = work
      BY <2>2, <2>4 DEF Goto, TypeOK
    <3>2. QED
      BY <2>1, <2>3, <3>1 DEF ObjectGuard, OwnedGroup
  <2>5. CASE r # "Server"
    <3>1. WithFresh(work[o], TRUE) \in Objects
      BY ObjectUpdateTypes DEF TypeOK
    <3>2. work'[o].finalizer = work[o].finalizer /\ work'[o].spec = work[o].spec
      <4>1. work'[o] = IF Seen(NameOf[o], r) = {} THEN WithFresh(work[o], TRUE)
                       ELSE SetObserved(WithFresh(work[o], TRUE), cloud[NameOf[o]])
        BY <2>2, <2>5 DEF SetWork, TypeOK
      <4>0. work[o] \in Objects
        BY DEF TypeOK
      <4>2. WithFresh(work[o], TRUE).finalizer = work[o].finalizer
            /\ WithFresh(work[o], TRUE).spec = work[o].spec
        BY <4>0, WithFreshFields
      <4>3. SetObserved(WithFresh(work[o], TRUE), cloud[NameOf[o]]).finalizer
              = WithFresh(work[o], TRUE).finalizer
            /\ SetObserved(WithFresh(work[o], TRUE), cloud[NameOf[o]]).spec
              = WithFresh(work[o], TRUE).spec
        BY <3>1, SetObservedFields
      <4>4. QED
        BY <4>1, <4>2, <4>3
    <3>3. pc'[o] = "Decide"
      BY <2>2, <2>5 DEF Goto, TypeOK
    <3>4. QED
      BY <2>1, <2>3, <3>2, <3>3 DEF ObjectGuard, OwnedGroup
  <2>6. QED
    BY <2>4, <2>5
<1>4. QED
  BY <1>1, <1>2, <1>3, GuardStep
(* reconcile's branch choice: the copy keeps its spec; a branch that goes *)
(* on to EC2 holds the finalizer, and one that patches without it is the  *)
(* Unmanaged branch.                                                      *)
LEMMA DecideGuard ==
    ASSUME TypeOK, FinalizerGuardsGroup, NEW o \in Objs, NEW cond,
           NEW w \in Objects, NEW p \in {"PatchMeta", "Check", "DelDescribe"},
           DecideStep(o, cond, w, p),
           w.spec = work[o].spec,
           p # "PatchMeta" => w.finalizer /\ work[o].finalizer,
           p = "PatchMeta" => w.finalizer \/ everUnmanaged[o]
    PROVE  FinalizerGuardsGroup'
<1>1. \A x \in Objs \ {o} : Untouched(x)
  BY DEF DecideStep, Untouched, SetWork, Goto, TypeOK
<1>2. DescribeConsistent'
  BY DEF DecideStep, DescribeConsistent, FinalizerGuardsGroup
<1>3. ObjectGuard(o)'
  <2>1. ObjectGuard(o) /\ pc[o] = "Decide"
    BY DEF FinalizerGuardsGroup, DecideStep
  <2>2. /\ work'[o] = WithMgmt(w, w.spec.mgmt) /\ pc'[o] = p
        /\ UNCHANGED <<obj, cloud, snap, everUnmanaged>>
    BY DEF DecideStep, SetWork, Goto, TypeOK
  <2>3. work'[o].finalizer = w.finalizer /\ work'[o].spec = w.spec
    BY <2>2, WithMgmtFields
  <2>4. QED
    BY <2>1, <2>2, <2>3 DEF ObjectGuard, OwnedGroup
<1>4. QED
  BY <1>1, <1>2, <1>3, GuardStep

LEMMA DecideStepsGuard ==
    ASSUME TypeOK, FinalizerGuardsGroup, NEW o \in Objs,
           DecideUnmanaged(o) \/ DecideAddFinalizer(o) \/ DecideDelete(o)
             \/ DecideCheck(o)
    PROVE  FinalizerGuardsGroup'
<1>1. work[o] \in Objects /\ ObjectGuard(o)
  BY DEF TypeOK, FinalizerGuardsGroup
<1>2. CASE DecideUnmanaged(o)
  <2>1. everUnmanaged[o]
    BY <1>1, <1>2 DEF DecideUnmanaged, DecideStep, ObjectGuard
  <2>2. WithFinalizer(work[o], FALSE) \in Objects
        /\ WithFinalizer(work[o], FALSE).spec = work[o].spec
    BY <1>1, ObjectUpdateTypes, WithFinalizerFields
  <2>3. QED
    BY <1>2, <2>1, <2>2, DecideGuard DEF DecideUnmanaged
<1>3. CASE DecideAddFinalizer(o)
  <2>1. WithFinalizer(work[o], TRUE) \in Objects
        /\ WithFinalizer(work[o], TRUE).spec = work[o].spec
        /\ WithFinalizer(work[o], TRUE).finalizer
    BY <1>1, ObjectUpdateTypes, WithFinalizerFields
  <2>2. QED
    BY <1>3, <2>1, DecideGuard DEF DecideAddFinalizer
<1>4. CASE DecideDelete(o)
  BY <1>1, <1>4, DecideGuard DEF DecideDelete, DecideStep
<1>5. CASE DecideCheck(o)
  BY <1>1, <1>5, DecideGuard DEF DecideCheck, DecideStep
<1>6. QED
  BY <1>2, <1>3, <1>4, <1>5
-----------------------------------------------------------------------------
(* The steps of reconcile that reach EC2.                                 *)
HoldPCs == {"Check", "Create", "DelDescribe", "DelInstances", "DelCall"}

(* A step between EC2 calls, or from one to the patches, that keeps the   *)
(* copy's finalizer: the object still holds the finalizer, so any group   *)
(* of its name is guarded.                                                *)
LEMMA HeldStep ==
    ASSUME TypeOK, FinalizerGuardsGroup, NEW o \in Objs,
           pc[o] \in HoldPCs, pc'[o] \in HoldPCs \cup {"PatchMeta"},
           work'[o].finalizer = work[o].finalizer, work'[o].spec = work[o].spec,
           UNCHANGED <<obj, snap, everUnmanaged>>,
           DescribeConsistent', \A x \in Objs \ {o} : Untouched(x)
    PROVE  FinalizerGuardsGroup'
<1>1. ObjectGuard(o)
  BY DEF FinalizerGuardsGroup
<1>2. ObjectGuard(o)'
  BY <1>1 DEF ObjectGuard, OwnedGroup, HoldPCs
<1>3. QED
  BY <1>2, GuardStep

(* The step that drops the copy's finalizer after EC2 answered without    *)
(* the group, or deleted it.                                               *)
LEMMA ReleaseStep ==
    ASSUME TypeOK, FinalizerGuardsGroup, NEW o \in Objs,
           pc[o] \in HoldPCs, pc'[o] = "PatchMeta",
           work'[o].spec = work[o].spec, ~OwnedGroup(NameOf[o])',
           UNCHANGED <<obj, snap, everUnmanaged>>,
           DescribeConsistent', \A x \in Objs \ {o} : Untouched(x)
    PROVE  FinalizerGuardsGroup'
<1>1. ObjectGuard(o)
  BY DEF FinalizerGuardsGroup
<1>2. ObjectGuard(o)'
  BY <1>1 DEF ObjectGuard, HoldPCs
<1>3. QED
  BY <1>2, GuardStep

(* checkOrCreatePlacementGroup's describe and validation.                 *)
LEMMA CheckGuard ==
    ASSUME TypeOK, FinalizerGuardsGroup, NEW o \in Objs, Check(o)
    PROVE  FinalizerGuardsGroup'
<1>1. \A x \in Objs \ {o} : Untouched(x)
  BY DEF Check, Untouched, SetWork, Goto, TypeOK
<1>2. DescribeConsistent'
  BY DEF Check, DescribeConsistent, FinalizerGuardsGroup
<1>3. pc'[o] \in {"Create", "PatchMeta"} /\ pc[o] = "Check"
  BY DEF Check, Goto, TypeOK
<1>4. work'[o].finalizer = work[o].finalizer /\ work'[o].spec = work[o].spec
  <2>1. CASE work' = work
    BY <2>1
  <2>2. CASE work' # work
    <3>1. work[o] \in Objects
      BY DEF TypeOK
    <3>2. \/ work'[o] = SetObserved(work[o], cloud[NameOf[o]])
          \/ work'[o] = WithReady(work[o], "ConfigurationMismatch")
      BY <2>2 DEF Check, SetWork, TypeOK
    <3>3. QED
      BY <3>1, <3>2, SetObservedFields, WithReadyFields
  <2>3. QED
    BY <2>1, <2>2
<1>5. QED
  BY <1>1, <1>2, <1>3, <1>4, HeldStep DEF Check, HoldPCs

(* CreatePlacementGroup: the new group carries the owned tag, and without *)
(* eventual consistency Describe shows it at once.                        *)
LEMMA CreateGuard ==
    ASSUME TypeOK, FinalizerGuardsGroup, LeakFreeConditions, NEW o \in Objs,
           Create(o)
    PROVE  FinalizerGuardsGroup'
<1>0. \/ UNCHANGED cloud
      \/ \E c \in Nat :
           cloud' = [cloud EXCEPT ![NameOf[o]] =
                      [exists |-> TRUE, visible |-> ~EventualConsistency,
                       owned |-> TRUE, type |-> work[o].spec.type, part |-> c,
                       members |-> 0]]
  <2>1. work[o].spec \in Specs
    BY DEF TypeOK, Objects
  <2>2. (IF work[o].spec.type # "Partition" THEN {0}
         ELSE IF work[o].spec.hasPart THEN {work[o].spec.part} ELSE Counts)
          \subseteq Nat
    BY <2>1 DEF Specs, Counts
  <2>3. QED
    BY <2>2, Zenon DEF Create
<1>1. \A x \in Objs \ {o} : Untouched(x)
  <2> SUFFICES ASSUME NEW x \in Objs \ {o} PROVE Untouched(x)
    OBVIOUS
  <2>1. NameOf[x] # NameOf[o] /\ NameOf[x] \in Names
    BY NamesDistinct, NameOfType
  <2>2. cloud'[NameOf[x]] = cloud[NameOf[x]]
    BY <1>0, <2>1 DEF TypeOK
  <2>3. QED
    BY <2>2 DEF Create, Untouched, SetWork, Goto, TypeOK
<1>2. DescribeConsistent'
  <2>1. CASE UNCHANGED cloud
    BY <2>1 DEF DescribeConsistent, FinalizerGuardsGroup
  <2>2. CASE ~UNCHANGED cloud
    <3>1. PICK c \in Nat :
            cloud' = [cloud EXCEPT ![NameOf[o]] =
                       [exists |-> TRUE, visible |-> ~EventualConsistency,
                        owned |-> TRUE, type |-> work[o].spec.type, part |-> c,
                        members |-> 0]]
      BY <1>0, <2>2
    <3>2. ~EventualConsistency
      BY DEF LeakFreeConditions
    <3>3. ASSUME NEW n \in Names PROVE cloud'[n].exists => cloud'[n].visible
      BY <3>1, <3>2, NameOfType DEF DescribeConsistent, FinalizerGuardsGroup, TypeOK
    <3>4. QED
      BY <3>3 DEF DescribeConsistent
  <2>3. QED
    BY <2>1, <2>2
<1>3. pc'[o] = "PatchMeta" /\ pc[o] = "Create"
  BY DEF Create, Goto, TypeOK
<1>4. work'[o].finalizer = work[o].finalizer /\ work'[o].spec = work[o].spec
  <2>1. work[o] \in Objects
    BY DEF TypeOK
  <2>2. \/ work'[o] = WithReady(work[o], "CreationFailed")
        \/ work'[o] = WithReady(work[o], "CreationSucceeded")
    BY DEF Create, SetWork, TypeOK
  <2>3. QED
    BY <2>1, <2>2, WithReadyFields
<1>5. QED
  BY <1>1, <1>2, <1>3, <1>4, HeldStep DEF Create, HoldPCs
(* deletePlacementGroup's describe: the finalizer is dropped only when    *)
(* Describe answered, without error, that there is no group; consistent  *)
(* Describe then means EC2 holds none.                                    *)
LEMMA DelDescribeGuard ==
    ASSUME TypeOK, FinalizerGuardsGroup, LeakFreeConditions, NEW o \in Objs,
           DelDescribe(o)
    PROVE  FinalizerGuardsGroup'
<1>1. \A x \in Objs \ {o} : Untouched(x)
  BY DEF DelDescribe, Untouched, SetWork, Goto, TypeOK
<1>2. DescribeConsistent'
  BY DEF DelDescribe, DescribeConsistent, FinalizerGuardsGroup
<1>3. pc[o] = "DelDescribe" /\ UNCHANGED <<obj, snap, everUnmanaged, cloud>>
  BY DEF DelDescribe
<1>4. CASE work' = work
  <2>1. pc'[o] \in {"PatchMeta", "DelInstances"}
    BY DEF DelDescribe, Goto, TypeOK
  <2>2. QED
    BY <1>1, <1>2, <1>3, <1>4, <2>1, HeldStep DEF HoldPCs
<1>5. CASE work' # work
  <2>1. PICK r \in DescribeOutcomes :
          /\ r # "Server" /\ Seen(NameOf[o], r) = {}
          /\ work'[o] = WithFinalizer(work[o], FALSE)
          /\ pc'[o] = "PatchMeta"
    BY <1>5 DEF DelDescribe, SetWork, Goto, TypeOK
  <2>2. r = "ok"
    BY <2>1, DescribeAnswer
  <2>3. ~(cloud[NameOf[o]].exists /\ cloud[NameOf[o]].visible)
    BY <2>1, <2>2 DEF Seen
  <2>4. ~OwnedGroup(NameOf[o])'
    BY <1>3, <2>3, NameOfType
       DEF DescribeConsistent, FinalizerGuardsGroup, LeakFreeConditions, OwnedGroup
  <2>5. work'[o].spec = work[o].spec
    <3>1. work[o] \in Objects
      BY DEF TypeOK
    <3>2. WithFinalizer(work[o], FALSE).spec = work[o].spec
      BY <3>1, WithFinalizerFields
    <3>3. QED
      BY <2>1, <3>2
  <2>6. QED
    BY <1>1, <1>2, <1>3, <2>1, <2>4, <2>5, ReleaseStep DEF HoldPCs
<1>6. QED
  BY <1>4, <1>5

(* deletePlacementGroup's count of the group's instances.               *)
LEMMA DelInstancesGuard ==
    ASSUME TypeOK, FinalizerGuardsGroup, NEW o \in Objs, DelInstances(o)
    PROVE  FinalizerGuardsGroup'
<1>1. \A x \in Objs \ {o} : Untouched(x)
  BY DEF DelInstances, Untouched, Goto, TypeOK
<1>2. DescribeConsistent'
  BY DEF DelInstances, DescribeConsistent, FinalizerGuardsGroup
<1>3. pc[o] = "DelInstances" /\ pc'[o] \in {"PatchMeta", "DelCall"}
  BY DEF DelInstances, Goto, TypeOK
<1>4. QED
  BY <1>1, <1>2, <1>3, HeldStep DEF DelInstances, HoldPCs

(* DeletePlacementGroup: the finalizer goes only with the group.        *)
LEMMA DelCallGuard ==
    ASSUME TypeOK, FinalizerGuardsGroup, LeakFreeConditions, NEW o \in Objs,
           DelCall(o)
    PROVE  FinalizerGuardsGroup'
<1>1. pc[o] = "DelCall" /\ pc'[o] = "PatchMeta"
      /\ UNCHANGED <<obj, snap, everUnmanaged>>
  BY DEF DelCall, Goto, TypeOK
<1>2. \A x \in Objs \ {o} : Untouched(x)
  <2> SUFFICES ASSUME NEW x \in Objs \ {o} PROVE Untouched(x)
    OBVIOUS
  <2>1. NameOf[x] # NameOf[o] /\ NameOf[x] \in Names
    BY NamesDistinct, NameOfType
  <2>2. cloud'[NameOf[x]] = cloud[NameOf[x]]
    BY <2>1 DEF DelCall, TypeOK
  <2>3. QED
    BY <2>2 DEF DelCall, Untouched, SetWork, Goto, TypeOK
<1>3. CASE UNCHANGED <<cloud, work>>
  <2>1. DescribeConsistent'
    BY <1>3 DEF DescribeConsistent, FinalizerGuardsGroup
  <2>2. QED
    BY <1>1, <1>2, <1>3, <2>1, HeldStep DEF HoldPCs
<1>4. CASE ~UNCHANGED <<cloud, work>>
  <2>1. /\ cloud' = [cloud EXCEPT ![NameOf[o]] = NoGroup]
        /\ work'[o] = WithFinalizer(work[o], FALSE)
    BY <1>4 DEF DelCall, SetWork, TypeOK
  <2>2. \A n \in Names : cloud'[n] = cloud[n] \/ cloud'[n] = NoGroup
    BY <2>1 DEF TypeOK
  <2>3. DescribeConsistent'
    BY <2>2 DEF DescribeConsistent, FinalizerGuardsGroup, NoGroup
  <2>4. ~OwnedGroup(NameOf[o])'
    BY <2>1, NameOfType DEF OwnedGroup, NoGroup, TypeOK
  <2>5. work'[o].spec = work[o].spec
    <3>1. work[o] \in Objects
      BY DEF TypeOK
    <3>2. WithFinalizer(work[o], FALSE).spec = work[o].spec
      BY <3>1, WithFinalizerFields
    <3>3. QED
      BY <2>1, <3>2
  <2>6. QED
    BY <1>1, <1>2, <2>3, <2>4, <2>5, ReleaseStep DEF HoldPCs
<1>5. QED
  BY <1>3, <1>4
-----------------------------------------------------------------------------
(* Reconcile's metadata Patch: the merge patch changes the stored         *)
(* finalizer only where the copy changed it; a removal was preceded by an *)
(* EC2 answer without the group, or by the Unmanaged branch.              *)
LEMMA PatchMetaGuard ==
    ASSUME TypeOK, FinalizerGuardsGroup, NEW o \in Objs, PatchMeta(o)
    PROVE  FinalizerGuardsGroup'
<1>1. \A x \in Objs \ {o} : Untouched(x)
  BY DEF PatchMeta, Untouched, Goto, TypeOK
<1>2. DescribeConsistent'
  BY DEF PatchMeta, DescribeConsistent, FinalizerGuardsGroup
<1>3. /\ ObjectGuard(o) /\ pc[o] = "PatchMeta"
      /\ UNCHANGED <<cloud, snap, work, everUnmanaged>>
  BY DEF PatchMeta, FinalizerGuardsGroup
<1>4. CASE obj' = obj
  <2>1. pc'[o] \in {"Idle", "PatchStatus"}
    BY <1>4 DEF PatchMeta, Goto, TypeOK
  <2>2. ObjectGuard(o)'
    BY <1>3, <1>4, <2>1 DEF ObjectGuard, OwnedGroup
  <2>3. QED
    BY <1>1, <1>2, <2>2, GuardStep
<1>5. CASE obj' # obj
  <2> DEFINE fin == Merged(obj[o].finalizer, snap[o].finalizer, work[o].finalizer)
  <2>1. obj'[o] = Stored(WithFinalizer(obj[o], fin)) /\ pc'[o] = "PatchStatus"
    BY <1>5 DEF PatchMeta, Goto, TypeOK
  <2>2. obj[o] \in Objects /\ WithFinalizer(obj[o], fin) \in Objects
    <3>1. obj[o] \in Objects /\ fin \in BOOLEAN
      BY DEF TypeOK, Objects, Merged
    <3>2. QED
      BY <3>1, ObjectUpdateTypes
  <2>3. /\ obj'[o].finalizer = fin /\ obj'[o].spec = obj[o].spec
        /\ obj'[o].phase = "Gone" => ~fin
    BY <2>1, <2>2, WithFinalizerFields, DeletionFields
  <2>4. OwnedGroup(NameOf[o]) /\ ~everUnmanaged[o] => fin
    BY <1>3 DEF ObjectGuard, Merged, Objects, TypeOK
  <2>5. ObjectGuard(o)'
    BY <1>3, <2>1, <2>3, <2>4 DEF ObjectGuard, OwnedGroup
  <2>6. QED
    BY <1>1, <1>2, <2>5, GuardStep
<1>6. QED
  BY <1>4, <1>5

(* Reconcile's Status Patch leaves the finalizer, the spec and the phase. *)
LEMMA PatchStatusGuard ==
    ASSUME TypeOK, FinalizerGuardsGroup, NEW o \in Objs, PatchStatus(o)
    PROVE  FinalizerGuardsGroup'
<1>1. \A x \in Objs \ {o} : Untouched(x)
  BY DEF PatchStatus, Untouched, Goto, TypeOK
<1>2. DescribeConsistent'
  BY DEF PatchStatus, DescribeConsistent, FinalizerGuardsGroup
<1>3. /\ ObjectGuard(o) /\ pc'[o] = "Idle"
      /\ UNCHANGED <<cloud, snap, work, everUnmanaged>>
  BY DEF PatchStatus, FinalizerGuardsGroup, Goto, TypeOK
<1>4. /\ obj'[o].finalizer = obj[o].finalizer /\ obj'[o].spec = obj[o].spec
      /\ obj'[o].phase = obj[o].phase
  <2>1. CASE obj' = obj
    BY <2>1
  <2>2. CASE obj' # obj
    <3>1. PICK st : obj'[o] = WithStatus(obj[o], st)
      BY <2>2 DEF PatchStatus, TypeOK
    <3>2. obj[o] \in Objects
      BY DEF TypeOK
    <3>3. QED
      BY <3>1, <3>2, WithStatusFields
  <2>3. QED
    BY <2>1, <2>2
<1>5. ObjectGuard(o)'
  BY <1>3, <1>4 DEF ObjectGuard, OwnedGroup
<1>6. QED
  BY <1>1, <1>2, <1>5, GuardStep
-----------------------------------------------------------------------------
(* The user's and the API server's changes of an object keep its         *)
(* finalizer; the history variable records every move to Unmanaged.      *)
LEMMA ObjectEditStep ==
    ASSUME TypeOK, FinalizerGuardsGroup, NEW o \in Objs,
           obj'[o].finalizer = obj[o].finalizer,
           obj'[o].phase = "Gone" => ~obj'[o].finalizer,
           obj'[o].spec.mgmt = "Unmanaged" => everUnmanaged'[o],
           everUnmanaged[o] => everUnmanaged'[o],
           UNCHANGED <<cloud, pc, snap, work>>,
           \A x \in Objs \ {o} : obj'[x] = obj[x] /\ everUnmanaged'[x] = everUnmanaged[x]
    PROVE  FinalizerGuardsGroup'
<1>1. \A x \in Objs \ {o} : Untouched(x)
  BY DEF Untouched
<1>2. DescribeConsistent'
  BY DEF DescribeConsistent, FinalizerGuardsGroup
<1>3. ObjectGuard(o)'
  <2>1. ObjectGuard(o)
    BY DEF FinalizerGuardsGroup
  <2>2. QED
    BY <2>1 DEF ObjectGuard, OwnedGroup
<1>4. QED
  BY <1>1, <1>2, <1>3, GuardStep

LEMMA UserGuard ==
    ASSUME TypeOK, FinalizerGuardsGroup, NEW o \in Objs,
           UserSetManagement(o) \/ UserEditConfig(o) \/ UserDelete(o) \/ Expire(o)
    PROVE  FinalizerGuardsGroup'
<1>1. obj[o] \in Objects /\ obj[o].spec \in Specs /\ ObjectGuard(o)
  BY DEF TypeOK, Objects, FinalizerGuardsGroup
<1>2. CASE UserSetManagement(o)
  <2> DEFINE m == IF obj[o].spec.mgmt = "Managed" THEN "Unmanaged" ELSE "Managed"
             sp == [obj[o].spec EXCEPT !.mgmt = m]
  <2>1. /\ obj' = [obj EXCEPT ![o] = WithSpec(obj[o], sp)]
        /\ everUnmanaged' = [everUnmanaged EXCEPT ![o] = @ \/ m = "Unmanaged"]
    BY <1>2, Zenon DEF UserSetManagement
  <2>2. obj'[o] = WithSpec(obj[o], sp)
        /\ everUnmanaged'[o] = (everUnmanaged[o] \/ m = "Unmanaged")
    BY <2>1, Zenon DEF TypeOK
  <2>3. /\ WithSpec(obj[o], sp).finalizer = obj[o].finalizer
        /\ WithSpec(obj[o], sp).phase = obj[o].phase
        /\ WithSpec(obj[o], sp).spec = sp
    BY <1>1, WithSpecFields
  <2>4. sp.mgmt = m
    BY <1>1, SpecUpdateFields
  <2>5. QED
    <3>1. UNCHANGED <<cloud, pc, snap, work>>
      BY <1>2, Zenon DEF UserSetManagement
    <3> HIDE DEF sp
    <3>2. \A x \in Objs \ {o} : obj'[x] = obj[x] /\ everUnmanaged'[x] = everUnmanaged[x]
      BY <2>1 DEF TypeOK
    <3>3. QED
      BY <1>1, <2>2, <2>3, <2>4, <3>1, <3>2, ObjectEditStep DEF ObjectGuard
<1>3. CASE UserEditConfig(o)
  <2>1. PICK t, h, c :
          obj' = [obj EXCEPT ![o] = WithSpec(obj[o],
                    [obj[o].spec EXCEPT !.type = t, !.hasPart = h, !.part = c])]
    BY <1>3, Zenon DEF UserEditConfig
  <2> DEFINE sp == [obj[o].spec EXCEPT !.type = t, !.hasPart = h, !.part = c]
  <2>2. obj'[o] = WithSpec(obj[o], sp)
    BY <2>1, Zenon DEF TypeOK
  <2>3. /\ WithSpec(obj[o], sp).finalizer = obj[o].finalizer
        /\ WithSpec(obj[o], sp).phase = obj[o].phase
        /\ WithSpec(obj[o], sp).spec = sp
    BY <1>1, WithSpecFields
  <2>4. sp.mgmt = obj[o].spec.mgmt
    BY <1>1, SpecUpdateFields
  <2>5. QED
    <3>1. UNCHANGED <<cloud, pc, snap, work, everUnmanaged>>
      BY <1>3, Zenon DEF UserEditConfig
    <3> HIDE DEF sp
    <3>2. \A x \in Objs \ {o} : obj'[x] = obj[x]
      BY <2>1 DEF TypeOK
    <3>3. QED
      BY <1>1, <2>2, <2>3, <2>4, <3>1, <3>2, ObjectEditStep DEF ObjectGuard
<1>4. CASE UserDelete(o)
  <2>1. obj'[o] = Stored(WithDeleting(obj[o]))
    BY <1>4 DEF UserDelete, TypeOK
  <2>2. WithDeleting(obj[o]) \in Objects
    BY <1>1, ObjectUpdateTypes
  <2>3. /\ obj'[o].finalizer = obj[o].finalizer /\ obj'[o].spec = obj[o].spec
        /\ obj'[o].phase = "Gone" => ~obj'[o].finalizer
    BY <1>1, <2>1, <2>2, DeletionFields
  <2>4. QED
    BY <1>1, <1>4, <2>3, ObjectEditStep DEF UserDelete, ObjectGuard, TypeOK
<1>5. CASE Expire(o)
  <2>1. obj'[o] = WithFresh(obj[o], FALSE)
    BY <1>5 DEF Expire, TypeOK
  <2>2. /\ WithFresh(obj[o], FALSE).finalizer = obj[o].finalizer
        /\ WithFresh(obj[o], FALSE).spec = obj[o].spec
        /\ WithFresh(obj[o], FALSE).phase = obj[o].phase
    BY <1>1, WithFreshFields
  <2>3. QED
    BY <1>1, <1>5, <2>1, <2>2, ObjectEditStep DEF Expire, ObjectGuard, TypeOK
<1>6. QED
  BY <1>2, <1>3, <1>4, <1>5

(* EC2 making a group visible, and instances entering or leaving it,     *)
(* leave every group existing and owned as it was.                        *)
LEMMA GroupFrame ==
    ASSUME TypeOK, FinalizerGuardsGroup, NEW n \in Names, NEW g \in Groups,
           g.exists = cloud[n].exists, g.owned = cloud[n].owned,
           cloud[n].visible => g.visible,
           cloud' = [cloud EXCEPT ![n] = g],
           UNCHANGED <<obj, pc, snap, work, everUnmanaged>>
    PROVE  FinalizerGuardsGroup'
<1>1. \A m \in Names : /\ cloud'[m].exists = cloud[m].exists
                       /\ cloud'[m].owned = cloud[m].owned
                       /\ cloud[m].visible => cloud'[m].visible
  BY DEF TypeOK
<1>2. DescribeConsistent'
  BY <1>1 DEF DescribeConsistent, FinalizerGuardsGroup
<1>3. \A x \in Objs : Untouched(x)
  BY <1>1, NameOfType DEF Untouched
<1>4. QED
  BY <1>2, <1>3, GuardFrame DEF FinalizerGuardsGroup

LEMMA GroupGuard ==
    ASSUME TypeOK, FinalizerGuardsGroup, NEW n \in Names,
           Propagate(n) \/ LaunchMember(n) \/ TerminateMember(n)
    PROVE  FinalizerGuardsGroup'
<1>1. cloud[n] \in Groups
  BY DEF TypeOK
<1>2. CASE Propagate(n)
  <2>1. Visible(cloud[n]) \in Groups
    BY <1>1, GroupUpdateTypes
  <2>2. QED
    BY <1>1, <1>2, <2>1, GroupUpdateFields, GroupFrame DEF Propagate
<1>3. CASE LaunchMember(n) \/ TerminateMember(n)
  <2>0. cloud[n].members \in 0..MaxMembers
    BY <1>1 DEF Groups
  <2>1. PICK k \in 0..MaxMembers :
          cloud' = [cloud EXCEPT ![n] = WithMembers(cloud[n], k)]
    <3>1. CASE LaunchMember(n)
      <4>1. cloud[n].members + 1 \in 0..MaxMembers
        BY <2>0, <3>1, ConstantFacts DEF LaunchMember
      <4>2. QED
        BY <4>1, <3>1, Zenon DEF LaunchMember
    <3>2. CASE TerminateMember(n)
      <4>1. cloud[n].members - 1 \in 0..MaxMembers
        BY <2>0, <3>2, ConstantFacts DEF TerminateMember
      <4>2. QED
        BY <4>1, <3>2, Zenon DEF TerminateMember
    <3>3. QED
      BY <1>3, <3>1, <3>2
  <2>2. WithMembers(cloud[n], k) \in Groups
    BY <1>1, GroupUpdateTypes
  <2>3. QED
    BY <1>1, <1>3, <2>1, <2>2, GroupUpdateFields, GroupFrame
       DEF LaunchMember, TerminateMember
<1>4. QED
  BY <1>2, <1>3
-----------------------------------------------------------------------------
(* The finalizer protocol is an invariant of the controller, the user and *)
(* EC2 together: every step of Reconcile, of the user's edits and         *)
(* deletes, and of EC2 keeps it, for any number of objects and groups.    *)
THEOREM GuardInvariant ==
    ASSUME LeakFreeConditions PROVE Spec => []FinalizerGuardsGroup
<1>1. Init => FinalizerGuardsGroup
  BY GuardInit
<1>2. TypeOK /\ FinalizerGuardsGroup /\ [Next]_vars => FinalizerGuardsGroup'
  <2> SUFFICES ASSUME TypeOK, FinalizerGuardsGroup, [Next]_vars
               PROVE  FinalizerGuardsGroup'
    OBVIOUS
  <2>1. ASSUME NEW o \in Objs, Reconcile(o) PROVE FinalizerGuardsGroup'
    BY <2>1, StartGuard, ReflectGuard, DecideStepsGuard, CheckGuard, CreateGuard,
       DelDescribeGuard, DelInstancesGuard, DelCallGuard, PatchMetaGuard,
       PatchStatusGuard DEF Reconcile
  <2>2. CASE Environment
    BY <2>2, UserGuard, GroupGuard DEF Environment
  <2>3. CASE UNCHANGED vars
    BY <2>3 DEF vars, FinalizerGuardsGroup, ObjectGuard, DescribeConsistent,
       OwnedGroup
  <2>4. QED
    BY <2>1, <2>2, <2>3 DEF Next
<1>3. QED
  BY <1>1, <1>2, TypeCorrect, PTL DEF Spec

(* No leaked group (NoOrphanedGroup): when Describe is read-after-write   *)
(* consistent, a missing group is an empty answer rather than a 4xx, and  *)
(* no two AWSPlacementGroup objects share a name, no object that was      *)
(* never Unmanaged is removed from the API server while EC2 still holds   *)
(* the owned placement group it reconciled.                               *)
THEOREM NoOrphanTheorem ==
    ASSUME LeakFreeConditions PROVE Spec => []NoOrphanedGroup
<1>1. FinalizerGuardsGroup => NoOrphanedGroup
  BY DEF FinalizerGuardsGroup, ObjectGuard, OwnedGroup, NoOrphanedGroup
<1>2. QED
  BY <1>1, GuardInvariant, PTL
=============================================================================
