------------------------------ MODULE MachineSet ------------------------------
(***************************************************************************)
(* The MachineSet controller of pkg/actuators/machineset/controller.go.    *)
(* It annotates one MachineSet with the vCPU, memory and GPU count of its  *)
(* instance type and with the architecture label the autoscaler reads when *)
(* it scales from zero.  One Reconcile is split at its last blocking call: *)
(* Start covers the Get, the early returns and reconcile (the credentials  *)
(* secret and DescribeInstanceTypes); Patch sends the merge patch.         *)
(* Between them the user may edit the MachineSet and the migration         *)
(* controller may move its authority away from the Machine API.            *)
(***************************************************************************)
EXTENDS Naturals

CONSTANTS
    KnownTypes,    \* instance types DescribeInstanceTypes knows
    UnknownTypes,  \* instance types it does not know
    ArchOf,        \* the architecture of each known type
    MigrationGate, \* FeatureGateMachineAPIMigration is enabled
    LookupErrors,  \* GetInstanceType may fail for a known type
    MaxFaults,     \* bound on failed calls
    MaxEdits       \* bound on edits by the user and the migration controller

ASSUME TypesAssumption == KnownTypes \cap UnknownTypes = {}
ASSUME ArchOfType == ArchOf \in [KnownTypes -> {"amd64", "arm64"}]
ASSUME FlagsAssumption == {MigrationGate, LookupErrors} \subseteq BOOLEAN
ASSUME BoundsAssumption == {MaxFaults, MaxEdits} \subseteq Nat

VARIABLES
    ms,      \* the MachineSet in the API server
    pc,      \* where Reconcile is: "Idle" or "Patch"
    snap,    \* the MachineSet as Reconcile read it (the MergeFrom base)
    work,    \* the copy reconcile annotated
    err,     \* the error reconcile returned: "none", "invalid" or "transient"
    queue,   \* the key is in the work queue
    faults,  \* failed calls so far
    edits    \* edits so far

vars == <<ms, pc, snap, work, err, queue, faults, edits>>

Types == KnownTypes \cup UnknownTypes
(* The four annotations: cap stands for the vCPU, memory and GPU values,  *)
(* which are all derived from one instance type; arch is the              *)
(* kubernetes.io/arch entry of the labels annotation.                     *)
Annotations == [cap : KnownTypes \cup {"None"}, arch : {"amd64", "arm64", "None"}]
NoAnnotations == [cap |-> "None", arch |-> "None"]
Capacity(t) == [cap |-> t, arch |-> ArchOf[t]]
(* parse: the providerSpec decodes; creds: it names a credentials secret. *)
MachineSets == [phase : {"Present", "Gone"}, deleting : BOOLEAN, type : Types,
                parse : BOOLEAN, creds : BOOLEAN,
                auth : {"MachineAPI", "ClusterAPI"}, paused : BOOLEAN,
                ann : Annotations]

Fault == faults < MaxFaults /\ faults' = faults + 1

Init ==
    /\ ms \in [phase : {"Present"}, deleting : {FALSE}, type : Types,
               parse : BOOLEAN, creds : BOOLEAN,
               auth : {"MachineAPI", "ClusterAPI"}, paused : BOOLEAN,
               ann : {NoAnnotations}]
    /\ pc = "Idle"
    /\ snap = ms
    /\ work = ms
    /\ err = "none"
    /\ queue = TRUE
    /\ faults = 0
    /\ edits = 0

(* Reconcile lines 90-109: with the migration gate on, only a MachineSet  *)
(* that is not paused and whose authority is the Machine API is handled.  *)
Active(m) == ~MigrationGate \/ (~m.paused /\ m.auth = "MachineAPI")

(* Reconcile lines 74-82: the Get fails and the request is requeued.      *)
GetFailed ==
    /\ pc = "Idle" /\ queue /\ Fault
    /\ UNCHANGED <<ms, pc, snap, work, err, queue, edits>>

(* Reconcile lines 75-108: not found, being deleted or not ours: return   *)
(* without error.                                                         *)
Skip ==
    /\ pc = "Idle" /\ queue
    /\ ms.phase = "Gone" \/ ms.deleting \/ ~Active(ms)
    /\ queue' = FALSE
    /\ UNCHANGED <<ms, pc, snap, work, err, faults, edits>>

(* Mutant: the lookup error ignored and the zero capacity written.       *)
ReconcileMachineSetIgnoringLookup(m) ==
    \/ (~m.parse \/ ~m.creds) /\ err' = "invalid" /\ work' = m
       /\ UNCHANGED faults
    \/ m.parse /\ m.creds /\ Fault /\ err' = "transient" /\ work' = m
    \/ /\ m.parse /\ m.creds /\ err' = "none" /\ UNCHANGED faults
       /\ work' = [m EXCEPT !.ann = IF m.type \in KnownTypes
                                    THEN Capacity(m.type)
                                    ELSE [cap |-> "Zero", arch |-> "amd64"]]

(***************************************************************************)
(* reconcile, lines 142-182, on the copy m: an undecodable providerSpec or *)
(* a missing secret is InvalidConfiguration; a failed client is an error;  *)
(* a failed instance type lookup (unknown type or failed                   *)
(* DescribeInstanceTypes) returns no error and leaves the annotations;     *)
(* otherwise the four annotations are set, the labels merged.              *)
(***************************************************************************)
ReconcileMachineSet(m) ==
    \/ (~m.parse \/ ~m.creds) /\ err' = "invalid" /\ work' = m
       /\ UNCHANGED faults
    \/ m.parse /\ m.creds /\ Fault /\ err' = "transient" /\ work' = m
    \/ /\ m.parse /\ m.creds /\ err' = "none"
       /\ \/ m.type \in UnknownTypes /\ work' = m /\ UNCHANGED faults
          \/ m.type \in KnownTypes /\ LookupErrors /\ Fault /\ work' = m
          \/ m.type \in KnownTypes /\ UNCHANGED faults
             /\ work' = [m EXCEPT !.ann = Capacity(m.type)]

(* Reconcile lines 111-113: the copy is taken, then reconcile runs.       *)
Start ==
    /\ pc = "Idle" /\ queue
    /\ ms.phase = "Present" /\ ~ms.deleting /\ Active(ms)
    /\ queue' = FALSE
    /\ snap' = ms
    /\ ReconcileMachineSet(ms)
    /\ pc' = "Patch"
    /\ UNCHANGED <<ms, edits>>

(* Mutant: every error taken for an InvalidConfiguration error.           *)
ResultRequeuesNever(e) == FALSE

(* Reconcile lines 124-129 and isInvalidConfigurationError: only an error *)
(* that is not InvalidConfiguration is returned, and so requeued.         *)
ResultRequeues(e) == e = "transient"

(* client.MergeFrom: an annotation is sent only where the copy differs    *)
(* from the base, and the API server applies it to the current object.    *)
MergedAnnotations ==
    [k \in {"cap", "arch"} |->
        IF work.ann[k] # snap.ann[k] THEN work.ann[k] ELSE ms.ann[k]]

(* Reconcile lines 120-129.  The For(&MachineSet{}) watch of              *)
(* SetupWithManager queues the key again when the patch changed it.       *)
Patch ==
    /\ pc = "Patch"
    /\ pc' = "Idle"
    /\ \/ /\ \/ ms.phase = "Gone" /\ UNCHANGED faults
             \/ ms.phase = "Present" /\ Fault
          /\ queue' = TRUE /\ UNCHANGED ms
       \/ /\ ms.phase = "Present" /\ UNCHANGED faults
          /\ ms' = [ms EXCEPT !.ann = MergedAnnotations]
          /\ queue' = (queue \/ ms' # ms \/ ResultRequeues(err))
    /\ UNCHANGED <<snap, work, err, edits>>

Reconcile == GetFailed \/ Skip \/ Start \/ Patch

(***************************************************************************)
(* The environment.  Every change of the MachineSet is a watch event.      *)
(***************************************************************************)
(* The user edits the instance type or the providerSpec.                  *)
UserEdit ==
    /\ edits < MaxEdits /\ ms.phase = "Present"
    /\ \E t \in Types, p, c \in BOOLEAN :
          ms' = [ms EXCEPT !.type = t, !.parse = p, !.creds = c]
    /\ ms' # ms
    /\ edits' = edits + 1 /\ queue' = TRUE
    /\ UNCHANGED <<pc, snap, work, err, faults>>

(* The migration controller moves .status.authoritativeAPI, and the       *)
(* machine-api-operator's MachineSet controller sets or clears the Paused  *)
(* condition once it observes the authority (lines 91-93).  Both are one  *)
(* step here; the intermediate Migrating authority is left out.          *)
Migrate ==
    /\ MigrationGate /\ edits < MaxEdits /\ ms.phase = "Present"
    /\ \E a \in {"MachineAPI", "ClusterAPI"}, p \in BOOLEAN :
          ms' = [ms EXCEPT !.auth = a, !.paused = p]
    /\ ms' # ms
    /\ edits' = edits + 1 /\ queue' = TRUE
    /\ UNCHANGED <<pc, snap, work, err, faults>>

UserDelete ==
    /\ ms.phase = "Present" /\ ~ms.deleting
    /\ ms' = [ms EXCEPT !.deleting = TRUE] /\ queue' = TRUE
    /\ UNCHANGED <<pc, snap, work, err, faults, edits>>

(* Garbage collection removes the deleted MachineSet.                     *)
Remove ==
    /\ ms.phase = "Present" /\ ms.deleting
    /\ ms' = [ms EXCEPT !.phase = "Gone"] /\ queue' = TRUE
    /\ UNCHANGED <<pc, snap, work, err, faults, edits>>

Environment == UserEdit \/ Migrate \/ UserDelete \/ Remove

Next == Reconcile \/ Environment

Spec == Init /\ [][Next]_vars

(* controller-runtime hands a queued key to a worker; nothing else is fair. *)
FairSpec == Spec /\ WF_vars(Reconcile)

(***************************************************************************)
(* Properties.                                                             *)
(***************************************************************************)
TypeOK ==
    /\ ms \in MachineSets /\ snap \in MachineSets /\ work \in MachineSets
    /\ pc \in {"Idle", "Patch"}
    /\ err \in {"none", "invalid", "transient"}
    /\ queue \in BOOLEAN
    /\ faults \in 0..MaxFaults /\ edits \in 0..MaxEdits

(* The MachineSet asks for the annotations of instance type t: it is       *)
(* present, valid and handled by this controller.                          *)
Wants(t) ==
    /\ ms.phase = "Present" /\ ~ms.deleting /\ Active(ms)
    /\ ms.parse /\ ms.creds /\ ms.type = t

(* While a MachineSet keeps asking for a known instance type, it is        *)
(* eventually annotated with that type's capacity and architecture: failed *)
(* Gets, failed clients and failed patches are retried, and a patch made   *)
(* from a copy that an edit made stale is followed by another reconcile.   *)
AnnotationsConverge ==
    \A t \in KnownTypes : Wants(t) ~> (ms.ann = Capacity(t) \/ ~Wants(t))

(* The controller changes no annotation of a MachineSet that is paused or  *)
(* whose authoritative API is not the Machine API (lines 90-109).          *)
AuthorityRespected ==
    [][pc = "Patch" /\ ms'.ann # ms.ann => Active(ms)]_vars
=============================================================================
