------------------------ MODULE PlacementGroupProofs ------------------------
(***************************************************************************)
(* Proofs about the AWSPlacementGroup controller model, for every value   *)
(* of its constants.                                                      *)
(***************************************************************************)
EXTENDS PlacementGroup, TLAPS

(* The constants' assumptions, one fact per constant.                     *)
LEMMA ConstantFacts ==
    /\ MaxMembers \in Nat /\ MaxFaults \in Nat /\ MaxEdits \in Nat
    /\ EventualConsistency \in BOOLEAN /\ ForeignGroups \in BOOLEAN
BY BoundsAssumption, FlagsAssumption

USE NameOfType, MaxPartitionAssumption, ConstantFacts, DescribeErrorsAssumption
USE DEF GroupTypes, ReadyReasons, PCs

(* The values every reconcile step writes are well typed.                 *)
LEMMA EmptyStatusType == EmptyStatus \in Statuses
BY DEF EmptyStatus, Statuses, Observed

LEMMA NoGroupType == NoGroup \in Groups
BY DEF NoGroup, Groups

(* setObservedConfiguration keeps an object well typed.                   *)
LEMMA SetObservedType ==
    ASSUME NEW w \in Objects, NEW g \in Groups
    PROVE  SetObserved(w, g) \in Objects
<1>1. g.type \in GroupTypes /\ g.part \in 0..MaxPartition
  BY DEF Groups
<1>2. QED
  BY <1>1, Zenon DEF SetObserved, Objects, Statuses, Observed, ReadyReasons

(* Each single-field update of an object keeps it well typed.            *)
LEMMA ObjectUpdateTypes ==
    ASSUME NEW w \in Objects
    PROVE  /\ \A f \in BOOLEAN : WithFinalizer(w, f) \in Objects
           /\ \A r \in ReadyReasons : WithReady(w, r) \in Objects
           /\ \A b \in BOOLEAN : WithFresh(w, b) \in Objects
           /\ \A m \in {"Managed", "Unmanaged"} : WithMgmt(w, m) \in Objects
           /\ \A st \in Statuses : WithStatus(w, st) \in Objects
           /\ \A sp \in Specs : WithSpec(w, sp) \in Objects
           /\ WithDeleting(w) \in Objects
           /\ Stored(w) \in Objects
<1>1. \A f \in BOOLEAN : WithFinalizer(w, f) \in Objects
  BY Zenon DEF WithFinalizer, Objects
<1>2. \A r \in ReadyReasons : WithReady(w, r) \in Objects
  BY Zenon DEF WithReady, Objects, Statuses
<1>3. \A b \in BOOLEAN : WithFresh(w, b) \in Objects
  BY Zenon DEF WithFresh, Objects, Statuses
<1>4. \A m \in {"Managed", "Unmanaged"} : WithMgmt(w, m) \in Objects
  BY Zenon DEF WithMgmt, Objects, Statuses
<1>5. \A st \in Statuses : WithStatus(w, st) \in Objects
  BY Zenon DEF WithStatus, Objects
<1>6. \A sp \in Specs : WithSpec(w, sp) \in Objects
  BY Zenon DEF WithSpec, Objects
<1>7. WithDeleting(w) \in Objects
  BY Zenon DEF WithDeleting, Objects
<1>8. Stored(w) \in Objects
  BY Zenon DEF Stored, Objects
<1>9. QED
  BY <1>1, <1>2, <1>3, <1>4, <1>5, <1>6, <1>7, <1>8

(* The user's edits of a spec keep it well typed.                         *)
LEMMA SpecUpdateTypes ==
    ASSUME NEW sp \in Specs
    PROVE  /\ \A m \in {"Managed", "Unmanaged"} : [sp EXCEPT !.mgmt = m] \in Specs
           /\ \A t \in GroupTypes, h \in BOOLEAN, c \in Counts :
                 [sp EXCEPT !.type = t, !.hasPart = h, !.part = c] \in Specs
<1>1. \A m \in {"Managed", "Unmanaged"} : [sp EXCEPT !.mgmt = m] \in Specs
  BY Zenon DEF Specs
<1>2. \A t \in GroupTypes, h \in BOOLEAN, c \in Counts :
         [sp EXCEPT !.type = t, !.hasPart = h, !.part = c] \in Specs
  BY Zenon DEF Specs
<1>3. QED
  BY <1>1, <1>2

(* EC2's updates of a group keep it well typed.                           *)
LEMMA GroupUpdateTypes ==
    ASSUME NEW g \in Groups
    PROVE  /\ \A k \in 0..MaxMembers : WithMembers(g, k) \in Groups
           /\ Visible(g) \in Groups
<1>1. \A k \in 0..MaxMembers : WithMembers(g, k) \in Groups
  BY Zenon DEF WithMembers, Groups
<1>2. Visible(g) \in Groups
  BY Zenon DEF Visible, Groups
<1>3. QED
  BY <1>1, <1>2

(* The status Merge Patch yields a well-typed status.                     *)
LEMMA MergeStatusType ==
    ASSUME NEW c \in Statuses, NEW b \in Statuses, NEW w \in Statuses
    PROVE  MergeStatus(c, b, w) \in Statuses
BY DEF MergeStatus, Merged, Statuses

(* A Describe outcome other than "ok" is only drawn while faults remain.  *)
LEMMA TallyType ==
    ASSUME faults \in 0..MaxFaults, NEW r \in DescribeOutcomes, Tally(r)
    PROVE  faults' \in 0..MaxFaults
BY DEF DescribeOutcomes, Tally

(* The bookkeeping updates of a reconcile step keep their variables well  *)
(* typed.                                                                 *)
LEMMA StepTypes ==
    ASSUME TypeOK, NEW o \in Objs
    PROVE  /\ Fault => faults' \in 0..MaxFaults
           /\ \A r \in DescribeOutcomes : Tally(r) => faults' \in 0..MaxFaults
           /\ Again(o) => requeue' \in [Objs -> BOOLEAN]
           /\ \A p \in PCs : Goto(o, p) => pc' \in [Objs -> PCs]
           /\ \A w \in Objects : SetWork(o, w) => work' \in [Objs -> Objects]
<1>1. Fault => faults' \in 0..MaxFaults
  BY DEF TypeOK, Fault
<1>2. \A r \in DescribeOutcomes : Tally(r) => faults' \in 0..MaxFaults
  BY TallyType DEF TypeOK
<1>3. Again(o) => requeue' \in [Objs -> BOOLEAN]
  BY DEF TypeOK, Again
<1>4. \A p \in PCs : Goto(o, p) => pc' \in [Objs -> PCs]
  BY DEF TypeOK, Goto
<1>5. \A w \in Objects : SetWork(o, w) => work' \in [Objs -> Objects]
  BY DEF TypeOK, SetWork
<1>6. QED
  BY <1>1, <1>2, <1>3, <1>4, <1>5

-----------------------------------------------------------------------------
(* Type correctness: every state the controller, the user and EC2 can     *)
(* reach gives each variable a value of its declared type.                *)
THEOREM TypeCorrect == Spec => []TypeOK
<1>1. Init => TypeOK
  <2> SUFFICES ASSUME Init PROVE TypeOK
    OBVIOUS
  <2>1. [phase : {"Present"}, spec : Specs, finalizer : {FALSE},
         deleting : {FALSE}, status : {EmptyStatus}] \subseteq Objects
    BY EmptyStatusType, Zenon DEF Objects
  <2>2. obj \in [Objs -> Objects]
    BY <2>1 DEF Init
  <2>3. ({NoGroup} \cup
           IF ForeignGroups
           THEN {g \in Groups : g.exists /\ g.visible /\ ~g.owned
                                /\ g.members = 0
                                /\ (g.type = "Partition") = (g.part > 0)}
           ELSE {}) \subseteq Groups
    BY NoGroupType
  <2>4. cloud \in [Names -> Groups]
    BY <2>3 DEF Init
  <2>5. QED
    BY <2>2, <2>4 DEF Init, TypeOK
<1>2. TypeOK /\ [Next]_vars => TypeOK'
  <2> SUFFICES ASSUME TypeOK, [Next]_vars PROVE TypeOK'
    OBVIOUS
  <2> USE DEF TypeOK
  <2>1. ASSUME NEW o \in Objs, Start(o) PROVE TypeOK'
    <3>1. obj[o] \in Objects
      OBVIOUS
    <3>2. CASE /\ obj[o].phase = "Gone" \/ ~Valid(obj[o])
               /\ queue' = [queue EXCEPT ![o] = FALSE]
               /\ UNCHANGED <<pc, snap, work, requeue, faults>>
               /\ UNCHANGED <<obj, cloud, edits, everUnmanaged>>
      BY <3>2
    <3>3. CASE /\ Fault
               /\ UNCHANGED <<pc, snap, work, requeue, queue>>
               /\ UNCHANGED <<obj, cloud, edits, everUnmanaged>>
      BY <3>3 DEF Fault
    <3>4. CASE /\ queue' = [queue EXCEPT ![o] = FALSE]
               /\ snap' = [snap EXCEPT ![o] = obj[o]]
               /\ SetWork(o, obj[o])
               /\ requeue' = [requeue EXCEPT ![o] = FALSE]
               /\ Goto(o, IF obj[o].status.fresh THEN "Decide" ELSE "Reflect")
               /\ UNCHANGED <<faults, obj, cloud, edits, everUnmanaged>>
      BY <3>1, <3>4 DEF SetWork, Goto
    <3>5. QED
      BY <2>1, <3>2, <3>3, <3>4, Zenon DEF Start
  <2>2. ASSUME NEW o \in Objs, Reflect(o) PROVE TypeOK'
    <3>1. WithFresh(work[o], TRUE) \in Objects
      BY ObjectUpdateTypes
    <3>2. SetObserved(WithFresh(work[o], TRUE), cloud[NameOf[o]]) \in Objects
      BY <3>1, SetObservedType
    <3>3. PICK r \in DescribeOutcomes :
            IF r = "Server"
            THEN Fault /\ Again(o) /\ Goto(o, "PatchMeta") /\ UNCHANGED work
            ELSE /\ Tally(r)
                 /\ SetWork(o, IF Seen(NameOf[o], r) = {} THEN WithFresh(work[o], TRUE)
                               ELSE SetObserved(WithFresh(work[o], TRUE), cloud[NameOf[o]]))
                 /\ Goto(o, "Decide") /\ UNCHANGED requeue
      BY <2>2, Zenon DEF Reflect
    <3>0. UNCHANGED <<obj, cloud, snap, queue, edits, everUnmanaged>>
      BY <2>2 DEF Reflect
    <3>4. CASE r = "Server"
      <4>1. Fault /\ Again(o) /\ Goto(o, "PatchMeta") /\ UNCHANGED work
        BY <3>3, <3>4
      <4>2. faults' \in 0..MaxFaults
        BY <4>1 DEF Fault
      <4>3. requeue' \in [Objs -> BOOLEAN] /\ pc' \in [Objs -> PCs]
        BY <4>1 DEF Again, Goto
      <4>4. QED
        BY <3>0, <4>1, <4>2, <4>3
    <3>5. CASE r # "Server"
      <4>1. faults' \in 0..MaxFaults
        BY <3>3, <3>5, TallyType
      <4>2. (IF Seen(NameOf[o], r) = {} THEN WithFresh(work[o], TRUE)
             ELSE SetObserved(WithFresh(work[o], TRUE), cloud[NameOf[o]])) \in Objects
        BY <3>1, <3>2
      <4>3. QED
        BY <3>0, <3>3, <3>5, <4>1, <4>2 DEF SetWork, Goto
    <3>6. QED
      BY <3>4, <3>5
  <2>3. ASSUME NEW o \in Objs,
               DecideUnmanaged(o) \/ DecideAddFinalizer(o) \/ DecideDelete(o)
               \/ DecideCheck(o)
        PROVE  TypeOK'
    <3>1. ASSUME NEW w \in Objects PROVE WithMgmt(w, w.spec.mgmt) \in Objects
      <4>1. w.spec.mgmt \in {"Managed", "Unmanaged"}
        BY DEF Objects, Specs
      <4>2. QED
        BY <4>1, ObjectUpdateTypes
    <3>2. \A f \in BOOLEAN : WithFinalizer(work[o], f) \in Objects
      BY ObjectUpdateTypes
    <3>3. QED
      BY <2>3, <3>1, <3>2, StepTypes, Zenon
      DEF DecideUnmanaged, DecideAddFinalizer, DecideDelete, DecideCheck, DecideStep
  <2>4. ASSUME NEW o \in Objs, Check(o) PROVE TypeOK'
    <3>1. SetObserved(work[o], cloud[NameOf[o]]) \in Objects
      BY SetObservedType
    <3>2. WithReady(work[o], "ConfigurationMismatch") \in Objects
      BY ObjectUpdateTypes
    <3>3. (IF ConfigMatches(work[o].spec, cloud[NameOf[o]])
           THEN SetObserved(work[o], cloud[NameOf[o]])
           ELSE WithReady(work[o], "ConfigurationMismatch")) \in Objects
      BY <3>1, <3>2
    <3>4. QED
      BY <2>4, <3>3, StepTypes, Zenon DEF Check
  <2>5. ASSUME NEW o \in Objs, Create(o) PROVE TypeOK'
    <3> DEFINE sp == work[o].spec
    <3>1. sp \in Specs
      BY DEF Objects
    <3>2. \A c \in IF sp.type # "Partition" THEN {0}
                   ELSE IF sp.hasPart THEN {sp.part} ELSE Counts :
            [exists |-> TRUE, visible |-> ~EventualConsistency,
             owned |-> TRUE, type |-> sp.type, part |-> c, members |-> 0] \in Groups
      BY <3>1 DEF Specs, Groups, Counts
    <3>3. \A g \in Groups : [cloud EXCEPT ![NameOf[o]] = g] \in [Names -> Groups]
      OBVIOUS
    <3>4. WithReady(work[o], "CreationFailed") \in Objects
          /\ WithReady(work[o], "CreationSucceeded") \in Objects
      BY ObjectUpdateTypes
    <3>5. faults' \in 0..MaxFaults
      BY <2>5, StepTypes, Zenon DEF Create
    <3>6. cloud' \in [Names -> Groups]
      <4>1. \/ cloud' = cloud
            \/ \E c \in IF sp.type # "Partition" THEN {0}
                      ELSE IF sp.hasPart THEN {sp.part} ELSE Counts :
                  cloud' = [cloud EXCEPT ![NameOf[o]] =
                             [exists |-> TRUE, visible |-> ~EventualConsistency,
                              owned |-> TRUE, type |-> sp.type, part |-> c,
                              members |-> 0]]
        BY <2>5, Zenon DEF Create
      <4>2. QED
        BY <4>1, <3>2, <3>3
    <3>7. work' \in [Objs -> Objects]
      BY <2>5, <3>4, StepTypes, Zenon DEF Create
    <3>8. QED
      BY <2>5, <3>5, <3>6, <3>7, StepTypes, Zenon DEF Create
  <2>6. ASSUME NEW o \in Objs, DelDescribe(o) PROVE TypeOK'
    <3>1. WithFinalizer(work[o], FALSE) \in Objects
      BY ObjectUpdateTypes
    <3>2. QED
      BY <2>6, <3>1, StepTypes, Zenon DEF DelDescribe
  <2>7. ASSUME NEW o \in Objs, DelInstances(o) PROVE TypeOK'
    BY <2>7, StepTypes, Zenon DEF DelInstances
  <2>8. ASSUME NEW o \in Objs, DelCall(o) PROVE TypeOK'
    <3>1. WithFinalizer(work[o], FALSE) \in Objects
      BY ObjectUpdateTypes
    <3>2. [cloud EXCEPT ![NameOf[o]] = NoGroup] \in [Names -> Groups]
      BY NoGroupType
    <3>3. QED
      BY <2>8, <3>1, <3>2, StepTypes, Zenon DEF DelCall
  <2>9. ASSUME NEW o \in Objs, PatchMeta(o) PROVE TypeOK'
    <3> DEFINE new == Stored(WithFinalizer(obj[o],
                         Merged(obj[o].finalizer, snap[o].finalizer, work[o].finalizer)))
    <3>1. Merged(obj[o].finalizer, snap[o].finalizer, work[o].finalizer) \in BOOLEAN
      BY DEF Merged, Objects
    <3>2. new \in Objects
      BY <3>1, ObjectUpdateTypes
    <3>3. [obj EXCEPT ![o] = new] \in [Objs -> Objects]
          /\ [queue EXCEPT ![o] = queue[o] \/ new # obj[o]] \in [Objs -> BOOLEAN]
          /\ [queue EXCEPT ![o] = TRUE] \in [Objs -> BOOLEAN]
      BY <3>2
    <3>4. QED
      BY <2>9, <3>3, StepTypes, Zenon DEF PatchMeta
  <2>10. ASSUME NEW o \in Objs, PatchStatus(o) PROVE TypeOK'
    <3> DEFINE new == WithStatus(obj[o],
                         MergeStatus(obj[o].status, snap[o].status, work[o].status))
    <3>1. MergeStatus(obj[o].status, snap[o].status, work[o].status) \in Statuses
      BY MergeStatusType DEF Objects
    <3>2. new \in Objects
      BY <3>1, ObjectUpdateTypes
    <3>3. [obj EXCEPT ![o] = new] \in [Objs -> Objects]
          /\ [queue EXCEPT ![o] = queue[o] \/ requeue[o] \/ new # obj[o]]
               \in [Objs -> BOOLEAN]
          /\ [queue EXCEPT ![o] = TRUE] \in [Objs -> BOOLEAN]
      BY <3>2
    <3>4. QED
      BY <2>10, <3>3, StepTypes, Zenon DEF PatchStatus
  <2>11. ASSUME NEW o \in Objs, UserSetManagement(o) PROVE TypeOK'
    <3>1. \A m \in {"Managed", "Unmanaged"} :
             WithSpec(obj[o], [obj[o].spec EXCEPT !.mgmt = m]) \in Objects
      BY SpecUpdateTypes, ObjectUpdateTypes DEF Objects
    <3>2. LET m == IF obj[o].spec.mgmt = "Managed" THEN "Unmanaged" ELSE "Managed"
          IN  /\ [obj EXCEPT ![o] = WithSpec(obj[o], [obj[o].spec EXCEPT !.mgmt = m])]
                   \in [Objs -> Objects]
              /\ [everUnmanaged EXCEPT ![o] = everUnmanaged[o] \/ m = "Unmanaged"]
                   \in [Objs -> BOOLEAN]
      BY <3>1
    <3>3. edits' = edits + 1 /\ edits < MaxEdits => edits' \in 0..MaxEdits
      OBVIOUS
    <3>4. [queue EXCEPT ![o] = TRUE] \in [Objs -> BOOLEAN]
      OBVIOUS
    <3>5. QED
      BY <2>11, <3>2, <3>3, <3>4, Zenon DEF UserSetManagement
  <2>12. ASSUME NEW o \in Objs, UserEditConfig(o) PROVE TypeOK'
    <3>1. \A t \in GroupTypes, h \in BOOLEAN, c \in Counts :
             [obj EXCEPT ![o] = WithSpec(obj[o],
                  [obj[o].spec EXCEPT !.type = t, !.hasPart = h, !.part = c])]
               \in [Objs -> Objects]
      BY SpecUpdateTypes, ObjectUpdateTypes DEF Objects
    <3>2. edits' = edits + 1 /\ edits < MaxEdits => edits' \in 0..MaxEdits
      OBVIOUS
    <3>3. [queue EXCEPT ![o] = TRUE] \in [Objs -> BOOLEAN]
      OBVIOUS
    <3>4. PICK t \in GroupTypes, h \in BOOLEAN, c \in Counts :
            obj' = [obj EXCEPT ![o] = WithSpec(obj[o],
                      [obj[o].spec EXCEPT !.type = t, !.hasPart = h, !.part = c])]
      BY <2>12, Zenon DEF UserEditConfig
    <3>5. QED
      BY <2>12, <3>1, <3>2, <3>3, <3>4, Zenon DEF UserEditConfig
  <2>13. ASSUME NEW o \in Objs, UserDelete(o) \/ Expire(o) PROVE TypeOK'
    <3>1. [obj EXCEPT ![o] = Stored(WithDeleting(obj[o]))] \in [Objs -> Objects]
          /\ [obj EXCEPT ![o] = WithFresh(obj[o], FALSE)] \in [Objs -> Objects]
      BY ObjectUpdateTypes
    <3>2. [queue EXCEPT ![o] = TRUE] \in [Objs -> BOOLEAN]
      OBVIOUS
    <3>3. QED
      BY <2>13, <3>1, <3>2, Zenon DEF UserDelete, Expire
  <2>14. ASSUME NEW n \in Names,
                Propagate(n) \/ LaunchMember(n) \/ TerminateMember(n)
         PROVE  TypeOK'
    <3>1. cloud[n].members \in 0..MaxMembers
      BY DEF Groups
    <3>2. cloud[n].members < MaxMembers => cloud[n].members + 1 \in 0..MaxMembers
      BY <3>1
    <3>3. cloud[n].members > 0 => cloud[n].members - 1 \in 0..MaxMembers
      BY <3>1
    <3>4. \A k \in 0..MaxMembers :
             [cloud EXCEPT ![n] = WithMembers(cloud[n], k)] \in [Names -> Groups]
      BY GroupUpdateTypes
    <3>5. [cloud EXCEPT ![n] = Visible(cloud[n])] \in [Names -> Groups]
      BY GroupUpdateTypes
    <3>6. CASE Propagate(n)
      BY <3>6, <3>5 DEF Propagate
    <3>7. CASE LaunchMember(n)
      BY <3>7, <3>2, <3>4 DEF LaunchMember
    <3>8. CASE TerminateMember(n)
      BY <3>8, <3>3, <3>4 DEF TerminateMember
    <3>9. QED
      BY <2>14, <3>6, <3>7, <3>8
  <2>15. CASE UNCHANGED vars
    BY <2>15 DEF vars
  <2>16. QED
    BY <2>1, <2>2, <2>3, <2>4, <2>5, <2>6, <2>7, <2>8, <2>9, <2>10, <2>11,
       <2>12, <2>13, <2>14, <2>15 DEF Next, Reconcile, Environment
<1>3. QED
  BY <1>1, <1>2, PTL DEF Spec
=============================================================================
