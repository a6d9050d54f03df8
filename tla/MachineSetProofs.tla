--------------------------- MODULE MachineSetProofs ---------------------------
(***************************************************************************)
(* Type correctness of the MachineSet controller model, for every set of   *)
(* instance types and every bound: the annotations the controller writes   *)
(* only ever name a known instance type and its architecture.              *)
(***************************************************************************)
EXTENDS MachineSet, TLAPS

(* The updates of a MachineSet the model makes keep it a MachineSet.       *)
LEMMA MachineSetUpdates ==
    ASSUME NEW m \in MachineSets
    PROVE  /\ \A a \in Annotations : [m EXCEPT !.ann = a] \in MachineSets
           /\ \A t \in Types, p, c \in BOOLEAN :
                [m EXCEPT !.type = t, !.parse = p, !.creds = c] \in MachineSets
           /\ \A a \in {"MachineAPI", "ClusterAPI"}, p \in BOOLEAN :
                [m EXCEPT !.auth = a, !.paused = p] \in MachineSets
           /\ [m EXCEPT !.deleting = TRUE] \in MachineSets
           /\ [m EXCEPT !.phase = "Gone"] \in MachineSets
<1>1. \A a \in Annotations : [m EXCEPT !.ann = a] \in MachineSets
  BY Zenon DEF MachineSets
<1>2. \A t \in Types, p, c \in BOOLEAN :
        [m EXCEPT !.type = t, !.parse = p, !.creds = c] \in MachineSets
  BY Zenon DEF MachineSets
<1>3. \A a \in {"MachineAPI", "ClusterAPI"}, p \in BOOLEAN :
        [m EXCEPT !.auth = a, !.paused = p] \in MachineSets
  BY Zenon DEF MachineSets
<1>4. [m EXCEPT !.deleting = TRUE] \in MachineSets
  BY Zenon DEF MachineSets
<1>5. [m EXCEPT !.phase = "Gone"] \in MachineSets
  BY Zenon DEF MachineSets
<1>6. QED
  BY <1>1, <1>2, <1>3, <1>4, <1>5

(* The annotations of a known type name that type and its architecture.   *)
LEMMA CapacityType ==
    ASSUME NEW t \in KnownTypes
    PROVE  Capacity(t) \in Annotations
<1>1. ArchOf[t] \in {"amd64", "arm64"}
  BY ArchOfType
<1>2. QED
  BY <1>1 DEF Capacity, Annotations

(* The merge patch applies, key by key, an annotation of the copy or one  *)
(* already stored.                                                         *)
LEMMA MergedType ==
    ASSUME ms \in MachineSets, snap \in MachineSets, work \in MachineSets
    PROVE  MergedAnnotations \in Annotations
<1>1. /\ ms.ann \in Annotations /\ snap.ann \in Annotations
      /\ work.ann \in Annotations
  BY DEF MachineSets
<1>2. QED
  BY <1>1 DEF MergedAnnotations, Annotations

(* reconcile leaves the copy it was given, or sets its annotations to     *)
(* those of a known type.                                                  *)
LEMMA ReconcileMachineSetType ==
    ASSUME TypeOK, NEW m \in MachineSets, ReconcileMachineSet(m)
    PROVE  work' \in MachineSets /\ err' \in {"none", "invalid", "transient"}
           /\ faults' \in 0..MaxFaults
<1>1. faults' \in 0..MaxFaults
  BY BoundsAssumption DEF ReconcileMachineSet, Fault, TypeOK
<1>2. work' \in MachineSets
  <2>1. CASE work' = m
    BY <2>1
  <2>2. CASE work' # m
    <3>1. m.type \in KnownTypes /\ work' = [m EXCEPT !.ann = Capacity(m.type)]
      BY <2>2 DEF ReconcileMachineSet
    <3>2. QED
      BY <3>1, CapacityType, MachineSetUpdates
  <2>3. QED
    BY <2>1, <2>2
<1>3. QED
  BY <1>1, <1>2 DEF ReconcileMachineSet

(* Type correctness (TypeOK): the MachineSet, the base and the copy stay  *)
(* MachineSets, so every annotation written names a known instance type   *)
(* or none, and the fault and edit counters stay within their bounds.     *)
THEOREM TypeCorrect == Spec => []TypeOK
<1>1. Init => TypeOK
  <2> SUFFICES ASSUME Init PROVE TypeOK
    OBVIOUS
  <2>1. NoAnnotations \in Annotations
    BY DEF NoAnnotations, Annotations
  <2>2. ms \in MachineSets
    BY <2>1 DEF Init, MachineSets
  <2>3. QED
    BY <2>2, BoundsAssumption DEF Init, TypeOK
<1>2. TypeOK /\ [Next]_vars => TypeOK'
  <2> SUFFICES ASSUME TypeOK, [Next]_vars PROVE TypeOK'
    OBVIOUS
  <2>1. CASE GetFailed
    BY <2>1, BoundsAssumption DEF GetFailed, Fault, TypeOK
  <2>2. CASE Skip
    BY <2>2 DEF Skip, TypeOK
  <2>3. CASE Start
    BY <2>3, ReconcileMachineSetType DEF Start, TypeOK
  <2>4. CASE Patch
    <3>1. CASE UNCHANGED ms
      <4>0. faults' = faults \/ (faults < MaxFaults /\ faults' = faults + 1)
        BY <2>4, Zenon DEF Patch, Fault
      <4>1. faults' \in 0..MaxFaults /\ queue' \in BOOLEAN
        <5>1. faults' \in 0..MaxFaults
          BY <4>0, BoundsAssumption DEF TypeOK
        <5>2. queue' \in BOOLEAN
          BY <2>4, Zenon DEF Patch
        <5>3. QED
          BY <5>1, <5>2
      <4>2. QED
        BY <2>4, <3>1, <4>1 DEF Patch, TypeOK
    <3>2. CASE ms' # ms
      <4>1. /\ ms' = [ms EXCEPT !.ann = MergedAnnotations]
            /\ queue' \in BOOLEAN /\ UNCHANGED faults
        BY <2>4, <3>2 DEF Patch, ResultRequeues
      <4>2. ms' \in MachineSets
        BY <4>1, MergedType, MachineSetUpdates DEF TypeOK
      <4>3. QED
        BY <2>4, <4>1, <4>2 DEF Patch, TypeOK
    <3>3. QED
      BY <3>1, <3>2
  <2>5. CASE UserEdit
    <3>1. PICK t \in Types, p, c \in BOOLEAN :
            ms' = [ms EXCEPT !.type = t, !.parse = p, !.creds = c]
      BY <2>5 DEF UserEdit
    <3>2. ms' \in MachineSets
      BY <3>1, MachineSetUpdates DEF TypeOK
    <3>3. edits' \in 0..MaxEdits
      BY <2>5, BoundsAssumption DEF UserEdit, TypeOK
    <3>4. QED
      BY <2>5, <3>2, <3>3 DEF UserEdit, TypeOK
  <2>6. CASE Migrate
    <3>0. PICK a \in {"MachineAPI", "ClusterAPI"}, p \in BOOLEAN :
            ms' = [ms EXCEPT !.auth = a, !.paused = p]
      BY <2>6 DEF Migrate
    <3>1. ms' \in MachineSets
      BY <3>0, MachineSetUpdates DEF TypeOK
    <3>2. edits' \in 0..MaxEdits
      BY <2>6, BoundsAssumption DEF Migrate, TypeOK
    <3>3. QED
      BY <2>6, <3>1, <3>2 DEF Migrate, TypeOK
  <2>7. CASE UserDelete \/ Remove
    <3>1. ms' \in MachineSets
      BY <2>7, MachineSetUpdates DEF UserDelete, Remove, TypeOK
    <3>2. QED
      BY <2>7, <3>1 DEF UserDelete, Remove, TypeOK
  <2>8. CASE UNCHANGED vars
    BY <2>8 DEF vars, TypeOK
  <2>9. QED
    BY <2>1, <2>2, <2>3, <2>4, <2>5, <2>6, <2>7, <2>8
       DEF Next, Reconcile, Environment
<1>3. QED
  BY <1>1, <1>2, PTL DEF Spec
=============================================================================
