--------------------------- MODULE PlacementGroup ---------------------------
(***************************************************************************)
(* The AWSPlacementGroup controller of                                     *)
(* pkg/actuators/awsplacementgroup/controller.go, together with the two    *)
(* stores it reconciles: the Kubernetes API server (the AWSPlacementGroup  *)
(* objects) and EC2 (the placement groups).                                *)
(*                                                                         *)
(* One Reconcile call is split at every blocking call it makes: the read   *)
(* of the object, each EC2 call, the metadata Patch and the Status Patch.  *)
(* Between two of them the user, the API server, EC2 and the machines may  *)
(* act.  Reconciles of one key are serialised by controller-runtime, so    *)
(* each object has one program counter.                                    *)
(***************************************************************************)
EXTENDS Naturals

CONSTANTS
    Objs,                \* AWSPlacementGroup objects (namespace/name keys)
    Names,               \* EC2 placement group names
    NameOf,              \* pg.Name: the EC2 group an object reconciles
    MaxPartition,        \* largest partition count a spec may carry
    MaxMembers,          \* bound on instances running in one EC2 group
    MaxFaults,           \* bound on failed API calls (EC2 or API server)
    MaxEdits,            \* bound on user edits of the objects' specs
    DescribeErrors,      \* error classes DescribePlacementGroups returns
    EventualConsistency, \* a new group may stay invisible to Describe
    ForeignGroups        \* EC2 may hold groups this cluster did not create

ASSUME NameOfType == NameOf \in [Objs -> Names]
ASSUME MaxPartitionAssumption == MaxPartition \in 1..7
ASSUME BoundsAssumption == {MaxMembers, MaxFaults, MaxEdits} \subseteq Nat
ASSUME DescribeErrorsAssumption == DescribeErrors \subseteq {"Server", "Client"}
ASSUME FlagsAssumption == {EventualConsistency, ForeignGroups} \subseteq BOOLEAN

VARIABLES
    obj,           \* API server state of each object
    cloud,         \* EC2 state of each placement group name
    pc,            \* where each object's Reconcile call is
    snap,          \* the object as Reconcile read it (the MergeFrom base)
    work,          \* Reconcile's working copy of the object
    requeue,       \* the result of this Reconcile asks to run again
    queue,         \* the object's key is in the work queue
    faults,        \* failed API calls so far
    edits,         \* user edits so far
    everUnmanaged  \* history: the user once set the object Unmanaged

vars == <<obj, cloud, pc, snap, work, requeue, queue, faults, edits, everUnmanaged>>

GroupTypes == {"Spread", "Cluster", "Partition"}
Counts == 1..MaxPartition
ReadyReasons == {"None", "ConfigurationInSync", "ConfigurationMismatch",
                 "CreationSucceeded", "CreationFailed"}
PCs == {"Idle", "Reflect", "Decide", "Check", "Create", "DelDescribe",
        "DelInstances", "DelCall", "PatchMeta", "PatchStatus"}

(* spec.managementSpec: hasPart is Managed.Partition # nil.               *)
Specs == [mgmt : {"Managed", "Unmanaged"}, type : GroupTypes,
          hasPart : BOOLEAN, part : Counts]
(* status: fresh is ExpiresAt in the future; obs is ObservedConfiguration *)
(* ("None" while it has never been set); ready the Ready condition reason.*)
Observed == [type : GroupTypes \cup {"None"}, part : 0..MaxPartition]
Statuses == [mgmt : {"", "Managed", "Unmanaged"}, fresh : BOOLEAN,
             obs : Observed, ready : ReadyReasons]
Objects == [phase : {"Present", "Gone"}, spec : Specs, finalizer : BOOLEAN,
            deleting : BOOLEAN, status : Statuses]
Groups == [exists : BOOLEAN, visible : BOOLEAN, owned : BOOLEAN,
           type : GroupTypes, part : 0..MaxPartition, members : 0..MaxMembers]

EmptyStatus == [mgmt |-> "", fresh |-> FALSE,
                obs |-> [type |-> "None", part |-> 0], ready |-> "None"]
NoGroup == [exists |-> FALSE, visible |-> FALSE, owned |-> FALSE,
            type |-> "Spread", part |-> 0, members |-> 0]

-----------------------------------------------------------------------------
(* Helpers translated from the controller's functions.                    *)

(* Mutant: the status check of validateAWSPlacementGroup dropped.        *)
ValidIgnoringStatus(s) == s.spec.mgmt \in {"Managed", "Unmanaged"}

(* validateAWSPlacementGroup: the only check a well-formed spec can fail  *)
(* is the move back to Managed once the status says Unmanaged.            *)
Valid(s) == ~(s.spec.mgmt = "Managed" /\ s.status.mgmt = "Unmanaged")

(* The partition count EC2 reports: PartitionCount is nil (0) unless the  *)
(* strategy is partition.                                                  *)
(* validateExistingPlacementGroupConfig                                    *)
ConfigMatches(sp, g) ==
    /\ g.type = sp.type
    /\ (sp.type = "Partition" /\ sp.hasPart) => g.part = sp.part

(* setObservedConfiguration: reflect.DeepEqual of the observed            *)
(* configuration, whose Partition is always a non-nil pointer, with the    *)
(* spec's Managed configuration.                                           *)
SetObserved(w, g) ==
    LET o == [type |-> g.type, part |-> g.part]
    IN  [w EXCEPT !.status.obs = o,
                  !.status.ready = IF o.type = w.spec.type /\ w.spec.hasPart
                                      /\ o.part = w.spec.part
                                   THEN "ConfigurationInSync"
                                   ELSE "ConfigurationMismatch"]

(* DescribePlacementGroups by name: "Server" is an error Reconcile        *)
(* returns; "Client" is a 4xx, which isAWS4xxError lets through with an    *)
(* empty output; "ok" returns the groups EC2 shows.                        *)
DescribeOutcomes == {"ok"} \cup (IF faults < MaxFaults THEN DescribeErrors ELSE {})
Seen(n, r) == IF r = "ok" /\ cloud[n].exists /\ cloud[n].visible
              THEN {cloud[n]} ELSE {}

(* A failed API call, while the fault budget lasts.                       *)
Fault == faults < MaxFaults /\ faults' = faults + 1

(* A Describe that returned an error counts against the fault budget.    *)
Tally(r) == faults' = IF r = "ok" THEN faults ELSE faults + 1

(* A merge patch computed against base carries a field only where the   *)
(* copy w changed it; elsewhere the stored value cur stays.              *)
Merged(cur, base, w) == IF w # base THEN w ELSE cur

Goto(o, p) == pc' = [pc EXCEPT ![o] = p]
SetWork(o, w) == work' = [work EXCEPT ![o] = w]
(* Reconcile returns an error or a Result asking to run again.            *)
Again(o) == requeue' = [requeue EXCEPT ![o] = TRUE]

(* Updates of one field of an object or of a group.                       *)
WithFinalizer(w, f) == [w EXCEPT !.finalizer = f]
WithReady(w, r) == [w EXCEPT !.status.ready = r]
WithFresh(w, b) == [w EXCEPT !.status.fresh = b]
WithMgmt(w, m) == [w EXCEPT !.status.mgmt = m]
WithStatus(w, st) == [w EXCEPT !.status = st]
WithSpec(w, sp) == [w EXCEPT !.spec = sp]
WithDeleting(w) == [w EXCEPT !.deleting = TRUE]
WithMembers(g, k) == [g EXCEPT !.members = k]
Visible(g) == [g EXCEPT !.visible = TRUE]
(* The API server removes an object being deleted once it carries no     *)
(* finalizer.                                                            *)
Stored(w) == [w EXCEPT !.phase = IF w.deleting /\ ~w.finalizer THEN "Gone" ELSE "Present"]

-----------------------------------------------------------------------------
Init ==
    /\ obj \in [Objs -> [phase : {"Present"}, spec : Specs, finalizer : {FALSE},
                         deleting : {FALSE}, status : {EmptyStatus}]]
    /\ cloud \in [Names -> {NoGroup} \cup
                    IF ForeignGroups
                    THEN {g \in Groups : g.exists /\ g.visible /\ ~g.owned
                                         /\ g.members = 0
                                         /\ (g.type = "Partition") = (g.part > 0)}
                    ELSE {}]
    /\ pc = [o \in Objs |-> "Idle"]
    /\ snap = obj
    /\ work = obj
    /\ requeue = [o \in Objs |-> FALSE]
    /\ queue = [o \in Objs |-> TRUE]
    /\ faults = 0
    /\ edits = 0
    /\ everUnmanaged = [o \in Objs |-> obj[o].spec.mgmt = "Unmanaged"]

(* Reconcile, lines 78-123: a key whose object is gone is dropped; an    *)
(* invalid object is dropped without requeue; a failed Get of the object *)
(* or the Infrastructure, or of the AWS client, is an error (requeue);   *)
(* otherwise reconcile starts on a copy, with reflectObservedConfiguration *)
(* first when the cached status has expired (lines 148-157).             *)
Start(o) ==
    /\ pc[o] = "Idle" /\ queue[o]
    /\ \/ /\ obj[o].phase = "Gone" \/ ~Valid(obj[o])
          /\ queue' = [queue EXCEPT ![o] = FALSE]
          /\ UNCHANGED <<pc, snap, work, requeue, faults>>
       \/ /\ obj[o].phase = "Present" /\ Fault
          /\ UNCHANGED <<pc, snap, work, requeue, queue>>
       \/ /\ obj[o].phase = "Present" /\ Valid(obj[o])
          /\ queue' = [queue EXCEPT ![o] = FALSE]
          /\ snap' = [snap EXCEPT ![o] = obj[o]]
          /\ SetWork(o, obj[o])
          /\ requeue' = [requeue EXCEPT ![o] = FALSE]
          /\ Goto(o, IF obj[o].status.fresh THEN "Decide" ELSE "Reflect")
          /\ UNCHANGED faults
    /\ UNCHANGED <<obj, cloud, edits, everUnmanaged>>

(* reflectObservedConfiguration: a server error ends reconcile; a client  *)
(* error or no group only renews ExpiresAt; one group is observed.        *)
Reflect(o) ==
    /\ pc[o] = "Reflect"
    /\ \E r \in DescribeOutcomes :
         IF r = "Server"
         THEN Fault /\ Again(o) /\ Goto(o, "PatchMeta") /\ UNCHANGED work
         ELSE /\ Tally(r)
              /\ LET w == WithFresh(work[o], TRUE)
                 IN  SetWork(o, IF Seen(NameOf[o], r) = {} THEN w
                                ELSE SetObserved(w, cloud[NameOf[o]]))
              /\ Goto(o, "Decide") /\ UNCHANGED requeue
    /\ UNCHANGED <<obj, cloud, snap, queue, edits, everUnmanaged>>

(* reconcile, lines 159-222: Status.ManagementState takes the spec's      *)
(* value, then one of four branches.                                      *)
DecideStep(o, cond, w, p) ==
    /\ pc[o] = "Decide"
    /\ cond
    /\ SetWork(o, WithMgmt(w, w.spec.mgmt))
    /\ Goto(o, p)
    /\ UNCHANGED <<obj, cloud, snap, queue, faults, edits, everUnmanaged>>

(* Mutant: the delete branch taken without the deletion timestamp.       *)
DecideDeleteWithoutDeletion(o) ==
    DecideStep(o, work[o].spec.mgmt = "Managed" /\ work[o].finalizer,
               work[o], "DelDescribe")
    /\ UNCHANGED requeue

(* Mutant: the Unmanaged branch returns without dropping the finalizer.  *)
DecideUnmanagedKeepingFinalizer(o) ==
    DecideStep(o, work[o].spec.mgmt = "Unmanaged", work[o], "PatchMeta") /\ Again(o)

(* Unmanaged: drop the finalizer, never touch EC2, requeue.               *)
DecideUnmanaged(o) ==
    DecideStep(o, work[o].spec.mgmt = "Unmanaged",
               WithFinalizer(work[o], FALSE), "PatchMeta") /\ Again(o)
(* Not being deleted and no finalizer: add it and requeue, before any     *)
(* EC2 resource is created.                                               *)
DecideAddFinalizer(o) ==
    DecideStep(o, work[o].spec.mgmt = "Managed" /\ ~work[o].deleting
                  /\ ~work[o].finalizer,
               WithFinalizer(work[o], TRUE), "PatchMeta") /\ Again(o)
(* Managed and being deleted, finalizer present: deletePlacementGroup.    *)
DecideDelete(o) ==
    DecideStep(o, work[o].spec.mgmt = "Managed" /\ work[o].deleting
                  /\ work[o].finalizer, work[o], "DelDescribe")
    /\ UNCHANGED requeue
(* Mutant: no early return after AddFinalizer, so a group may be created *)
(* before the finalizer is persisted.                                    *)
DecideCheckWithoutFinalizer(o) ==
    DecideStep(o, work[o].spec.mgmt = "Managed" /\ ~work[o].deleting,
               work[o], "Check")
    /\ UNCHANGED requeue

(* Managed, not being deleted, finalizer present: check or create.       *)
DecideCheck(o) ==
    DecideStep(o, work[o].spec.mgmt = "Managed" /\ ~work[o].deleting
                  /\ work[o].finalizer, work[o], "Check")
    /\ UNCHANGED requeue

(* checkOrCreatePlacementGroup, lines 298-330: describe; a server error  *)
(* ends reconcile; no group goes on to create one; one group is checked *)
(* by validateExistingPlacementGroupConfig, then setObservedConfiguration.*)
Check(o) ==
    /\ pc[o] = "Check"
    /\ \E r \in DescribeOutcomes :
         LET n == NameOf[o] IN
         \/ /\ r = "Server" /\ Fault
            /\ Again(o) /\ Goto(o, "PatchMeta") /\ UNCHANGED work
         \/ /\ r # "Server" /\ Seen(n, r) = {} /\ Tally(r)
            /\ Goto(o, "Create") /\ UNCHANGED <<work, requeue>>
         \/ /\ Seen(n, r) # {} /\ Tally(r)
            /\ Again(o) /\ Goto(o, "PatchMeta")
            /\ SetWork(o, IF ConfigMatches(work[o].spec, cloud[n])
                          THEN SetObserved(work[o], cloud[n])
                          ELSE WithReady(work[o], "ConfigurationMismatch"))
    /\ UNCHANGED <<obj, cloud, snap, queue, edits, everUnmanaged>>

(* checkOrCreatePlacementGroup, lines 332-392: CreatePlacementGroup with  *)
(* the ownership tags; EC2 refuses a name already in use.                 *)
Create(o) ==
    /\ pc[o] = "Create"
    /\ LET n == NameOf[o]
           sp == work[o].spec
       IN \/ /\ Fault \/ (cloud[n].exists /\ UNCHANGED faults)
             /\ SetWork(o, WithReady(work[o], "CreationFailed"))
             /\ UNCHANGED cloud
          \/ /\ ~cloud[n].exists
             /\ \E c \in IF sp.type # "Partition" THEN {0}
                         ELSE IF sp.hasPart THEN {sp.part} ELSE Counts :
                  cloud' = [cloud EXCEPT ![n] =
                             [exists |-> TRUE, visible |-> ~EventualConsistency,
                              owned |-> TRUE, type |-> sp.type, part |-> c,
                              members |-> 0]]
             /\ SetWork(o, WithReady(work[o], "CreationSucceeded"))
             /\ UNCHANGED faults
    /\ Again(o) /\ Goto(o, "PatchMeta")
    /\ UNCHANGED <<obj, snap, queue, edits, everUnmanaged>>

(* Mutant: an empty Describe during deletion is taken as an error.       *)
DelDescribeEmptyIsError(o) ==
    /\ pc[o] = "DelDescribe"
    /\ \E r \in DescribeOutcomes :
         LET n == NameOf[o] IN
         \/ /\ r = "Server" /\ Fault
            /\ Again(o) /\ Goto(o, "PatchMeta") /\ UNCHANGED work
         \/ /\ r # "Server" /\ Seen(n, r) = {} /\ Tally(r)
            /\ Again(o) /\ Goto(o, "PatchMeta") /\ UNCHANGED work
         \/ /\ Seen(n, r) # {} /\ Tally(r) /\ UNCHANGED work
            /\ \/ cloud[n].owned /\ Goto(o, "DelInstances") /\ UNCHANGED requeue
               \/ ~cloud[n].owned /\ Again(o) /\ Goto(o, "PatchMeta")
    /\ UNCHANGED <<obj, cloud, snap, queue, edits, everUnmanaged>>

(* deletePlacementGroup, lines 441-472: describe; no group (or a 4xx) is  *)
(* success and frees the finalizer; a group without the cluster's owned   *)
(* tag is an error.                                                       *)
DelDescribe(o) ==
    /\ pc[o] = "DelDescribe"
    /\ \E r \in DescribeOutcomes :
         LET n == NameOf[o] IN
         \/ /\ r = "Server" /\ Fault
            /\ Again(o) /\ Goto(o, "PatchMeta") /\ UNCHANGED work
         \/ /\ r # "Server" /\ Seen(n, r) = {} /\ Tally(r)
            /\ SetWork(o, WithFinalizer(work[o], FALSE))
            /\ Goto(o, "PatchMeta") /\ UNCHANGED requeue
         \/ /\ Seen(n, r) # {} /\ Tally(r) /\ UNCHANGED work
            /\ \/ cloud[n].owned /\ Goto(o, "DelInstances") /\ UNCHANGED requeue
               \/ ~cloud[n].owned /\ Again(o) /\ Goto(o, "PatchMeta")
    /\ UNCHANGED <<obj, cloud, snap, queue, edits, everUnmanaged>>

(* deletePlacementGroup, lines 474-498: count non-terminated instances.   *)
DelInstances(o) ==
    /\ pc[o] = "DelInstances"
    /\ \/ /\ Fault \/ (cloud[NameOf[o]].members > 0 /\ UNCHANGED faults)
          /\ Again(o) /\ Goto(o, "PatchMeta")
       \/ /\ cloud[NameOf[o]].members = 0
          /\ Goto(o, "DelCall") /\ UNCHANGED <<faults, requeue>>
    /\ UNCHANGED <<obj, cloud, snap, work, queue, edits, everUnmanaged>>

(* Mutant: the error of DeletePlacementGroup is dropped and the finalizer *)
(* removed anyway.                                                       *)
DelCallIgnoresFailure(o) ==
    /\ pc[o] = "DelCall"
    /\ LET n == NameOf[o] IN
       \/ /\ Fault \/ ((~cloud[n].exists \/ cloud[n].members > 0) /\ UNCHANGED faults)
          /\ UNCHANGED <<cloud, requeue>>
       \/ /\ cloud[n].exists /\ cloud[n].members = 0
          /\ cloud' = [cloud EXCEPT ![n] = NoGroup]
          /\ UNCHANGED <<faults, requeue>>
    /\ SetWork(o, WithFinalizer(work[o], FALSE))
    /\ Goto(o, "PatchMeta")
    /\ UNCHANGED <<obj, snap, queue, edits, everUnmanaged>>

(* deletePlacementGroup, lines 500-508, and reconcile lines 212-216:      *)
(* DeletePlacementGroup, which EC2 refuses for a missing or occupied      *)
(* group; on success the finalizer goes.                                  *)
DelCall(o) ==
    /\ pc[o] = "DelCall"
    /\ LET n == NameOf[o] IN
       \/ /\ Fault \/ ((~cloud[n].exists \/ cloud[n].members > 0) /\ UNCHANGED faults)
          /\ Again(o) /\ UNCHANGED <<cloud, work>>
       \/ /\ cloud[n].exists /\ cloud[n].members = 0
          /\ cloud' = [cloud EXCEPT ![n] = NoGroup]
          /\ SetWork(o, WithFinalizer(work[o], FALSE))
          /\ UNCHANGED <<faults, requeue>>
    /\ Goto(o, "PatchMeta")
    /\ UNCHANGED <<obj, snap, queue, edits, everUnmanaged>>

(* Reconcile, lines 130-134: Patch sends the difference between the copy *)
(* and what was read; only the finalizer list can differ outside status. *)
(* Removing the last finalizer of a deleted object lets the API server   *)
(* remove it.  A failed Patch ends Reconcile with an error.              *)
PatchMeta(o) ==
    /\ pc[o] = "PatchMeta"
    /\ \/ /\ Fault \/ (obj[o].phase = "Gone" /\ UNCHANGED faults)
          /\ queue' = [queue EXCEPT ![o] = TRUE]
          /\ Goto(o, "Idle") /\ UNCHANGED obj
       \/ /\ obj[o].phase = "Present"
          /\ LET fin == Merged(obj[o].finalizer, snap[o].finalizer, work[o].finalizer)
                 new == Stored(WithFinalizer(obj[o], fin))
             IN  /\ obj' = [obj EXCEPT ![o] = new]
                 /\ queue' = [queue EXCEPT ![o] = queue[o] \/ new # obj[o]]
          /\ Goto(o, "PatchStatus") /\ UNCHANGED faults
    /\ UNCHANGED <<cloud, snap, work, requeue, edits, everUnmanaged>>

MergeStatus(cur, base, w) ==
    [mgmt  |-> Merged(cur.mgmt, base.mgmt, w.mgmt),
     fresh |-> Merged(cur.fresh, base.fresh, w.fresh),
     obs   |-> Merged(cur.obs, base.obs, w.obs),
     ready |-> Merged(cur.ready, base.ready, w.ready)]

(* Reconcile, lines 136-142: Status().Patch, then return; the key is     *)
(* queued again on an error, on a Requeue result, or by the watch event  *)
(* of its own change.                                                    *)
PatchStatus(o) ==
    /\ pc[o] = "PatchStatus"
    /\ \/ /\ Fault \/ (obj[o].phase = "Gone" /\ UNCHANGED faults)
          /\ queue' = [queue EXCEPT ![o] = TRUE]
          /\ UNCHANGED obj
       \/ /\ obj[o].phase = "Present"
          /\ LET new == WithStatus(obj[o],
                           MergeStatus(obj[o].status, snap[o].status, work[o].status))
             IN  /\ obj' = [obj EXCEPT ![o] = new]
                 /\ queue' = [queue EXCEPT ![o] =
                                queue[o] \/ requeue[o] \/ new # obj[o]]
          /\ UNCHANGED faults
    /\ Goto(o, "Idle")
    /\ UNCHANGED <<cloud, snap, work, requeue, edits, everUnmanaged>>

-----------------------------------------------------------------------------
(* The environment.                                                      *)

(* The user switches spec.managementSpec.managementState.                 *)
UserSetManagement(o) ==
    /\ obj[o].phase = "Present" /\ edits < MaxEdits
    /\ LET m == IF obj[o].spec.mgmt = "Managed" THEN "Unmanaged" ELSE "Managed"
       IN  /\ obj' = [obj EXCEPT ![o] = WithSpec(obj[o], [obj[o].spec EXCEPT !.mgmt = m])]
           /\ everUnmanaged' = [everUnmanaged EXCEPT ![o] = @ \/ m = "Unmanaged"]
    /\ edits' = edits + 1
    /\ queue' = [queue EXCEPT ![o] = TRUE]
    /\ UNCHANGED <<cloud, pc, snap, work, requeue, faults>>

(* The user changes the group type or partition count.                   *)
UserEditConfig(o) ==
    /\ obj[o].phase = "Present" /\ edits < MaxEdits
    /\ \E t \in GroupTypes, h \in BOOLEAN, c \in Counts :
         LET sp == [obj[o].spec EXCEPT !.type = t, !.hasPart = h, !.part = c]
         IN  /\ sp # obj[o].spec
             /\ obj' = [obj EXCEPT ![o] = WithSpec(obj[o], sp)]
    /\ edits' = edits + 1
    /\ queue' = [queue EXCEPT ![o] = TRUE]
    /\ UNCHANGED <<cloud, pc, snap, work, requeue, faults, everUnmanaged>>

(* The user deletes the object; the API server removes it at once when   *)
(* it carries no finalizer.                                              *)
UserDelete(o) ==
    /\ obj[o].phase = "Present" /\ ~obj[o].deleting
    /\ obj' = [obj EXCEPT ![o] = Stored(WithDeleting(obj[o]))]
    /\ queue' = [queue EXCEPT ![o] = TRUE]
    /\ UNCHANGED <<cloud, pc, snap, work, requeue, faults, edits, everUnmanaged>>

(* Two minutes pass: the cached ObservedConfiguration expires.           *)
Expire(o) ==
    /\ obj[o].phase = "Present" /\ obj[o].status.fresh
    /\ obj' = [obj EXCEPT ![o] = WithFresh(obj[o], FALSE)]
    /\ UNCHANGED <<cloud, pc, snap, work, requeue, queue, faults, edits, everUnmanaged>>

(* EC2 makes a new group visible to Describe.                            *)
Propagate(n) ==
    /\ cloud[n].exists /\ ~cloud[n].visible
    /\ cloud' = [cloud EXCEPT ![n] = Visible(cloud[n])]
    /\ UNCHANGED <<obj, pc, snap, work, requeue, queue, faults, edits, everUnmanaged>>

(* A machine's instance is launched into, or leaves, the group.          *)
LaunchMember(n) ==
    /\ cloud[n].exists /\ cloud[n].members < MaxMembers
    /\ cloud' = [cloud EXCEPT ![n] = WithMembers(cloud[n], cloud[n].members + 1)]
    /\ UNCHANGED <<obj, pc, snap, work, requeue, queue, faults, edits, everUnmanaged>>
TerminateMember(n) ==
    /\ cloud[n].members > 0
    /\ cloud' = [cloud EXCEPT ![n] = WithMembers(cloud[n], cloud[n].members - 1)]
    /\ UNCHANGED <<obj, pc, snap, work, requeue, queue, faults, edits, everUnmanaged>>

-----------------------------------------------------------------------------
Reconcile(o) ==
    \/ Start(o) \/ Reflect(o)
    \/ DecideUnmanaged(o) \/ DecideAddFinalizer(o) \/ DecideDelete(o) \/ DecideCheck(o)
    \/ Check(o) \/ Create(o)
    \/ DelDescribe(o) \/ DelInstances(o) \/ DelCall(o)
    \/ PatchMeta(o) \/ PatchStatus(o)

Environment ==
    \/ \E o \in Objs : UserSetManagement(o) \/ UserEditConfig(o) \/ UserDelete(o)
                        \/ Expire(o)
    \/ \E n \in Names : Propagate(n) \/ LaunchMember(n) \/ TerminateMember(n)

Next == (\E o \in Objs : Reconcile(o)) \/ Environment

Spec == Init /\ [][Next]_vars

(* controller-runtime hands every queued key to a worker, and every call *)
(* Reconcile makes returns; the user, EC2 and the machines owe nothing.  *)
FairSpec == Spec /\ \A o \in Objs : WF_vars(Reconcile(o))

-----------------------------------------------------------------------------
TypeOK ==
    /\ obj \in [Objs -> Objects]
    /\ cloud \in [Names -> Groups]
    /\ pc \in [Objs -> PCs]
    /\ snap \in [Objs -> Objects]
    /\ work \in [Objs -> Objects]
    /\ requeue \in [Objs -> BOOLEAN]
    /\ queue \in [Objs -> BOOLEAN]
    /\ faults \in 0..MaxFaults
    /\ edits \in 0..MaxEdits
    /\ everUnmanaged \in [Objs -> BOOLEAN]

(* No leaked group: once an AWSPlacementGroup that was never set         *)
(* Unmanaged is gone from the API server, no placement group of its name *)
(* carrying the cluster's owned tag is left in EC2.  This needs the      *)
(* finalizer to be persisted before CreatePlacementGroup, and deletion   *)
(* to release it only once Describe shows no group.                      *)
NoOrphanedGroup ==
    \A o \in Objs :
        obj[o].phase = "Gone" /\ ~everUnmanaged[o]
          => ~(cloud[NameOf[o]].exists /\ cloud[NameOf[o]].owned)

(* Unmanaged is final (validateAWSPlacementGroup, lines 586-591): once   *)
(* the status of an object says Unmanaged, its status never goes back,   *)
(* its finalizer is never added again, and Reconcile never creates or    *)
(* deletes an EC2 group for it.                                          *)
UnmanagedIsFinal ==
    [][\A o \in Objs :
         obj[o].phase = "Present" /\ obj[o].status.mgmt = "Unmanaged"
           => /\ obj'[o].status.mgmt = "Unmanaged"
              /\ ~obj'[o].finalizer
              /\ (pc[o] \in {"Create", "DelCall"} => cloud' = cloud)]_vars

(* A placement group disappears from EC2 only on behalf of an object that *)
(* is being deleted: no step removes a group whose name a present object,  *)
(* holding its finalizer and not being deleted, still reconciles.          *)
(* deletePlacementGroup finds the group by pg.Name alone (lines 299, 445), *)
(* so this rests on every object having a name of its own.                 *)
GroupDeletedOnlyForItsObject ==
    [][\A n \in Names :
          cloud[n].exists /\ ~cloud'[n].exists =>
             \A o \in Objs : NameOf[o] = n /\ obj[o].phase = "Present"
                            /\ obj[o].finalizer => obj[o].deleting]_vars

(* The Ready condition agrees with validateExistingPlacementGroupConfig:   *)
(* an object is reported ConfigurationMismatch only while EC2 holds a     *)
(* group of its name that the validation rejects.  setObservedConfiguration*)
(* decides the same question a second time, by reflect.DeepEqual.          *)
ReadyAgreesWithValidation ==
    \A o \in Objs :
        obj[o].status.ready = "ConfigurationMismatch"
          => /\ cloud[NameOf[o]].exists
             /\ ~ConfigMatches(obj[o].spec, cloud[NameOf[o]])

-----------------------------------------------------------------------------
(* The invariant behind NoOrphanedGroup, strong enough to be inductive    *)
(* when EC2's Describe is read-after-write consistent, reports a missing  *)
(* group as an empty answer rather than as a 4xx, and no two objects name *)
(* the same group.                                                        *)
OwnedGroup(n) == cloud[n].exists /\ cloud[n].owned

(* The finalizer protocol of reconcile and Reconcile: the API server only *)
(* removes an object without finalizer; the copy Reconcile works on has   *)
(* the finalizer of the read object until a branch changes it; the        *)
(* branches that reach EC2 hold the finalizer; a finalizer removal that   *)
(* is about to be patched follows an EC2 answer without the group, unless *)
(* the object was made Unmanaged; and while EC2 holds a group created for *)
(* an object that was never Unmanaged, the object holds its finalizer.    *)
ObjectGuard(o) ==
    /\ obj[o].phase = "Gone" => ~obj[o].finalizer
    /\ obj[o].spec.mgmt = "Unmanaged" => everUnmanaged[o]
    /\ snap[o].spec.mgmt = "Unmanaged" => everUnmanaged[o]
    /\ work[o].spec = snap[o].spec
    /\ pc[o] \notin {"Idle", "PatchStatus"} => obj[o].finalizer = snap[o].finalizer
    /\ pc[o] \in {"Reflect", "Decide"} => work[o].finalizer = snap[o].finalizer
    /\ pc[o] \in {"Check", "Create", "DelDescribe", "DelInstances", "DelCall"}
         => snap[o].finalizer /\ work[o].finalizer
    /\ pc[o] = "PatchMeta" /\ snap[o].finalizer /\ ~work[o].finalizer
         /\ ~everUnmanaged[o] => ~OwnedGroup(NameOf[o])
    /\ OwnedGroup(NameOf[o]) /\ ~everUnmanaged[o] => obj[o].finalizer
(* Without eventual consistency, a group EC2 holds is one Describe shows. *)
DescribeConsistent ==
    \A n \in Names : ~EventualConsistency /\ cloud[n].exists => cloud[n].visible
(* The finalizer protocol above holds for every object, and Describe is *)
(* consistent: together they keep an owned group guarded by a finalizer. *)
FinalizerGuardsGroup == DescribeConsistent /\ \A o \in Objs : ObjectGuard(o)

(* What Reconcile keeps of the object it read, for one object: the stored *)
(* Status.ManagementState and finalizer do not move under a running       *)
(* Reconcile; a Reconcile that read an Unmanaged status read an Unmanaged *)
(* spec (validateAWSPlacementGroup) and so takes the Unmanaged branch,    *)
(* which drops the finalizer; only the Managed branches reach EC2; a      *)
(* copy that says Unmanaged carries no finalizer into the metadata Patch, *)
(* so once the Status Patch stores Unmanaged the stored object holds no   *)
(* finalizer; and the deletion mark the delete branch read is still on    *)
(* the object when DeletePlacementGroup is called.                        *)
UnmanagedGuard(o) ==
    /\ obj[o].status.mgmt = "Unmanaged" => ~obj[o].finalizer
    /\ pc[o] # "Idle" => obj[o].status.mgmt = snap[o].status.mgmt
    /\ pc[o] # "Idle" /\ snap[o].status.mgmt = "Unmanaged" =>
          /\ snap[o].spec.mgmt = "Unmanaged" /\ ~snap[o].finalizer
          /\ work[o].status.mgmt = "Unmanaged" /\ ~work[o].finalizer
    /\ work[o].spec = snap[o].spec
    /\ pc[o] \notin {"Idle", "PatchStatus"} => obj[o].finalizer = snap[o].finalizer
    /\ pc[o] \in {"Reflect", "Decide"} => work[o].status.mgmt = snap[o].status.mgmt
    /\ pc[o] \in {"Check", "Create", "DelDescribe", "DelInstances", "DelCall"}
         => work[o].status.mgmt = "Managed"
    /\ pc[o] = "PatchMeta" /\ work[o].status.mgmt = "Unmanaged" => ~work[o].finalizer
    /\ pc[o] = "PatchStatus" /\ work[o].status.mgmt = "Unmanaged" => ~obj[o].finalizer
DeleteGuard(o) ==
    /\ snap[o].deleting => obj[o].deleting
    /\ work[o].deleting = snap[o].deleting
    /\ pc[o] \in {"DelDescribe", "DelInstances", "DelCall"} => work[o].deleting
(* The two together, for every object: the invariant behind               *)
(* UnmanagedIsFinal and GroupDeletedOnlyForItsObject.                      *)
ReconcileGuard == \A o \in Objs : UnmanagedGuard(o) /\ DeleteGuard(o)

(* Deleting completes: an object marked for deletion is eventually gone. *)
DeletionCompletes ==
    \A o \in Objs : obj[o].deleting ~> obj[o].phase = "Gone"
=============================================================================
