# Formal models of machine-api-provider-aws

This directory has TLA+ models of the AWS machine API provider. TLC
model-checks them on small instances, and TLAPS proves theorems about them for
every value of their constants.

## The system and its parts

| Part | Source | What it does | Status |
|---|---|---|---|
| AWSPlacementGroup controller | `pkg/actuators/awsplacementgroup/controller.go` (an older copy of its first lines is in `unnamed/part_002`) | Reconciles `AWSPlacementGroup` objects of the API server against EC2 placement groups. It reflects what EC2 holds into a 2-minute status cache, adds or removes a finalizer, creates the group, and deletes it when the object is deleted. | modelled: `PlacementGroup` |
| Machine actuator: launch and placement | `unnamed/part_004` | Builds the `RunInstances` request. `constructInstancePlacement` names the placement group of a machine. | partly: only the launch of an instance into a group (`LaunchMember`) |
| Dedicated hosts | `unnamed/part_005` | Allocates and releases a dynamic dedicated host for a machine. | planned |
| MachineSet controller | `pkg/actuators/machineset/controller.go`, `unnamed/part_003` | Annotates MachineSets with the vCPU, memory, GPU and architecture of their instance type. | modelled: `MachineSet` |
| Spot termination handler | `pkg/termination/handler.go` | Polls the instance metadata service and marks the node when a spot termination is announced. | modelled: `TerminationHandler`, which refines `TerminationNotice` |
| AWS client facade and fake | `unnamed/part_001` | Wraps the SDK. | not modelled: I/O. EC2's behaviour is the environment of `PlacementGroup`. |
| Informers, stubs, tests, build files | `unnamed/part_000`, `stubs.go`, `part_006`, Makefile, Dockerfiles | Generated code, test fixtures (`stubs.go` builds the Machine, Secret and provider specs the tests use) and packaging. | not modelled: no state changes at run time |

### How the placement group controller interacts with the rest

The controller is driven by controller-runtime:

- Reconciles of one key never run at the same time.
- A key is queued again when Reconcile returns an error or a `Requeue` result, and when the object changes (a watch event).

One `Reconcile` call makes these calls, in order:

1. it reads the object;
2. it validates it;
3. it reads the Infrastructure object and builds an AWS client;
4. it runs `reconcile` on a copy of the object;
5. it sends a metadata `Patch` (MergeFrom the object as read);
6. it sends a `Status().Patch`.

Both patches are attempted even when `reconcile` failed.

`reconcile` itself runs these steps:

1. It refreshes the status cache if it has expired (`reflectObservedConfiguration`).
2. It copies the spec's management state into the status.
3. It takes one of four branches:
   - Unmanaged: drop the finalizer;
   - no finalizer: add it and return;
   - being deleted: `deletePlacementGroup`, and then drop the finalizer;
   - otherwise: `checkOrCreatePlacementGroup`.

Other actors work between these calls:

- **The user** edits the spec, switches it to Unmanaged, or deletes the object.
- **The API server** removes a deleted object once it has no finalizer.
- **EC2** answers calls. It may fail a call, and Describe may not yet show a new group.
- **Machines** launch instances into a group and terminate them.

## Module `PlacementGroup`: state and actions

The model has these variables:

| Variable | What it holds |
|---|---|
| `obj` | The API server's copy of each object: phase (`Present`/`Gone`), spec (management state, type, partition count present or not), finalizer, deletion mark, status (management state, cache freshness, observed configuration, Ready reason). |
| `cloud` | EC2's group for each name: exists, visible to Describe, owned tag, type, partition count, number of instances. |
| `pc` | Where each object's Reconcile is. |
| `snap` | The object as Reconcile read it, which is the MergeFrom base. |
| `work` | The copy that `reconcile` changes. |
| `requeue`, `queue` | The result of Reconcile and the work queue. |
| `faults`, `edits` | Bounds on failed calls and on user edits. |
| `everUnmanaged` | A history variable: the object was once set Unmanaged. |

Each action covers the code from one blocking call to the next:

| Action | Code (controller.go) |
|---|---|
| `Start` | `Reconcile` 78-123: the Get, validation, Infrastructure, client. It also covers the expiry test of `reconcile` at 148-157. |
| `Reflect` | `reflectObservedConfiguration` 513-542, with `setObservedConfiguration` as `SetObserved` |
| `DecideUnmanaged`, `DecideAddFinalizer`, `DecideDelete`, `DecideCheck` | the four branches of `reconcile`, 159-224 |
| `Check`, `Create` | `checkOrCreatePlacementGroup` 297-330 and 332-393. `ConfigMatches` is `validateExistingPlacementGroupConfig`. |
| `DelDescribe`, `DelInstances`, `DelCall` | `deletePlacementGroup` 440-472, 474-498, and 500-508 with `reconcile` 199-217 |
| `PatchMeta`, `PatchStatus` | `Reconcile` 121-143. `Merged` is the merge patch: a field is sent only where the copy differs from the base. |
| `UserSetManagement`, `UserEditConfig`, `UserDelete`, `Expire`, `Propagate`, `LaunchMember`, `TerminateMember` | the environment |

These details of the code are kept:

- the error paths of every EC2 call (`Fault`: a server error; `"Client"`: a 4xx, which `isAWS4xxError` turns into an empty answer);
- the early returns;
- the requeue of each return;
- that `Status.ManagementState` is copied before the branch.

These are abstracted away:

- Tags become the `owned` flag.
- Names, logs, events and the Deleting condition are left out.

## Module `TerminationHandler`: state and actions

`handler.go` runs two goroutines. `Run` starts the polling goroutine and then waits in a `select` on the stop channel and on `errs`, a channel with a buffer of one. The polling goroutine calls `PollImmediateUntil` with the Run context: each round GETs the metadata service's `spot/termination-time` and, on a 200, calls `markNodeForDeletion`, which Gets the Node, adds or updates the `Terminating` condition, and calls `Status().Update`.

| Variable | What it holds |
|---|---|
| `notice` | EC2 has published a termination time (the metadata service answers 200). |
| `node` | The Node in the API server: its condition list and resourceVersion. |
| `got` | The Node as `markNodeForDeletion` read it. |
| `gpc`, `rpc` | Where the polling goroutine and `Run` are. |
| `out`, `errs` | The goroutine's result and the content of the `errs` buffer. |
| `canceled`, `stop` | The Run context is canceled; the stop channel is closed. |
| `faults`, `writes` | Bounds on failed calls and on kubelet status writes. |
| `lastReady` | History: the Ready status of the kubelet's last write. |

| Action | Code (handler.go) |
|---|---|
| `PollFound`, `PollNotFound`, `PollFailed`, `Tick` | the condition function 101-128 and `PollImmediateUntil`'s ticker and context check |
| `MarkGet`, `MarkUpdate` | `markNodeForDeletion` 139-149, with `addNodeTerminationCondition` 163-203 and `nodeHasTerminationCondition` 152-161 |
| `SendResult` | the goroutine's `errs <- ...` after `defer wg.Done()`, 76-81 |
| `RunStop`, `RunWaitDone`, `RunResult` | `Run`'s select, `cancel` and `wg.Wait`, 83-92 |
| `Announce`, `KubeletWrite`, `Stop`, `Restart` | the environment: EC2, the kubelet's status heartbeat, the process's stop channel, and the pod restarting the process after Run returned |

Kept from the code: every call may fail (`CallFails`); a call on a canceled context fails; the Update is refused when the copy's resourceVersion is stale; a write that changes nothing does not move the resourceVersion (`Write`); the condition is appended or replaced in place. Abstracted: the condition list is a sequence of `[type, status]` records over `Terminating` and `Ready`; times, reasons, messages and logging are left out.

`TerminationNotice` is the abstract specification: `notice` is announced once, and `marked` is set only after it and never cleared. `TerminationHandler` maps to it with `marked <- Marked(node.conds)` (`Abstract`), and `HandlerRefinesNotice == Abstract!Spec` is checked as a property.

## Module `MachineSet`: state and actions

One `Reconcile` of `machineset/controller.go` is split at its last blocking call. `Start` covers the Get, the early returns (not found, being deleted, and with the migration gate on, paused or not Machine-API-authoritative) and `reconcile` on a copy (the providerSpec, the credentials secret, `GetInstanceType`). `Patch` sends the merge patch of the copy against the object as read. Between the two the user may edit the MachineSet (`UserEdit`), the migration controller may move its authority and the machine-api-operator's MachineSet controller may set or clear its Paused condition (one step, `Migrate`; the intermediate Migrating authority is left out), and the user may delete it (`UserDelete`, then `Remove`). Every change is a watch event and requeues the key. The four capacity annotations are one value `cap` (they are all derived from the instance type), and the architecture label is `arch`. `MergedAnnotations` sends only the keys the copy changed, as `client.MergeFrom` does.

`MC_MachineSet` gives two known instance types of different architectures and one unknown type.

## Runs

The `pg_` runs use `MC_PlacementGroup`, which supplies model values and `NameOf` as a function; the `th_` runs use `TerminationHandler` directly, and the `ms_` runs use `MC_MachineSet`.

| Run | Expect | Properties | What it shows |
|---|---|---|---|
| `pg_safety` | pass | `NoOrphanedGroup`, `FinalizerGuardsGroup`, `ReconcileGuard`, `UnmanagedIsFinal`, `GroupDeletedOnlyForItsObject` | See below. |
| `pg_liveness` | pass | `DeletionCompletes` | Under weak fairness of `Reconcile(o)`, a deleted object is eventually removed. This holds with server and client errors and with eventual consistency. |
| `pg_client_error_leak` | violation | `NoOrphanedGroup` | A 4xx from Describe during deletion releases the finalizer, and the owned group leaks. |
| `pg_eventual_consistency_leak` | violation | `NoOrphanedGroup` | A delete right after create sees an empty Describe, and the group leaks. |
| `pg_ready_mismatch` | violation | `ReadyAgreesWithValidation` | A group that the validation accepts is reported `ConfigurationMismatch`. |
| `pg_shared_name` | violation | `GroupDeletedOnlyForItsObject` | Two objects whose names map to one EC2 group: deleting one deletes the group while the other still holds its finalizer. |
| `th_safety` | pass | `TypeOK`, `ReadyNotLost`, `HandlerRefinesNotice` | With failed calls, kubelet writes between Get and Update, stop and restarts, the handler never loses a kubelet Ready status, and it implements `TerminationNotice`. |
| `th_liveness` | pass | `NoticeHonoured`, `ShutdownCompletes` | Under the fairness below, an announced termination is marked unless the process is stopped, and a stop ends Run and the goroutine. |
| `th_no_restart` | violation | `NoticeHonoured` | Without a restart, one conflict on the Update ends the handler and the node is never marked. |
| `ms_liveness` | pass | `TypeOK`, `AnnotationsConverge` | With edits, migrations, deletes and failed calls, a MachineSet that keeps asking for a known type gets its annotations. |
| `ms_lookup_error_not_retried` | violation | `AnnotationsConverge` | A failed `GetInstanceType` returns no error, and the MachineSet is never annotated. |
| `ms_authority_toctou` | violation | `AuthorityRespected` | The annotations are patched after the authority moved away from the Machine API, and the MachineSet was paused, between the Get and the patch. |

What `pg_safety` shows: with consistent Describe and server errors only, three things hold through failed calls, edits, deletes, switches to Unmanaged, instances and foreign groups:

- the finalizer protocol holds;
- a running Reconcile keeps the stored management state and finalizer it read (`ReconcileGuard`);
- no owned group outlives its object;
- Unmanaged stays final;
- a group is deleted only for an object being deleted.

**Bounds.** One object, one name, partition counts 1..2, one fault, at most 1 instance, and two user edits. These let every interesting sequence happen:

- a failed call in any step;
- Managed→Unmanaged→Managed (which validation refuses);
- a config edit followed by delete;
- an instance arriving between the count and the delete;
- a foreign group of the same name.

The violation runs need only one object and no edits, except `pg_shared_name`, which needs two objects and one name.

The termination handler runs use at most 2 initial conditions, 2 faults and 2 kubelet writes. That is enough for a kubelet write between Get and Update, a write before and after the mark, a failed poll and a failed Update, and a restart after each. The MachineSet run uses 2 faults and 3 edits: an edit of the type, a migration away and back, and a delete, each during a reconcile.

**Fairness.** Only `Reconcile(o)` is weakly fair. controller-runtime hands every queued key to a worker, and every call returns. The user, EC2 and the machines owe nothing. The fault budget ensures that errors stop eventually.

For the termination handler, `FairSpec` makes the polling goroutine's steps, `Run`'s steps and `Restart` weakly fair. The goroutines are runnable Go code with nothing blocking them but the calls modelled. `Restart` stands for the pod's restart policy, which starts the process again after it exits: this is an assumption about the deployment, and `th_no_restart` shows what happens without it. For the MachineSet controller, only `Reconcile` is weakly fair, as for the placement groups.

**Mutants.** Each property of a passing run has a mutant: a plausible bug in the mapped code that makes TLC find the property violated.

| Mutant | Property it breaks |
|---|---|
| no early return after adding the finalizer | `NoOrphanedGroup` |
| the finalizer removed even when `DeletePlacementGroup` fails | `FinalizerGuardsGroup` |
| validation ignoring the status | `UnmanagedIsFinal` |
| the Unmanaged branch keeping the finalizer | `ReconcileGuard` |
| an empty Describe taken as an error | `DeletionCompletes` |
| a delete decided without the deletion mark | `GroupDeletedOnlyForItsObject` |
| the Terminating condition always appended | `TypeOK` (th) |
| the status Update without the resourceVersion check | `ReadyNotLost` |
| a poll error taken as an announcement | `HandlerRefinesNotice` |
| Run ignoring the goroutine's error | `NoticeHonoured` |
| an unbuffered `errs` channel | `ShutdownCompletes` |
| an unknown type written as zero capacity | `TypeOK` (ms) |
| no error ever requeued | `AnnotationsConverge` |

## Findings

1. **A 4xx is taken as "not found"** (controller.go:445, also 301 and 517). `isAWS4xxError` lets every 4xx through as an empty answer. In the delete path, this removes the finalizer while the group may exist: throttling or authorization errors leak the group. The spec allows only a not-found-shaped 4xx.
2. **No tolerance of eventual consistency in delete** (controller.go:453). A group created just before the object is deleted may be invisible to Describe. The finalizer goes, and the owned group stays in EC2.
3. **The Ready condition disagrees with validation** (controller.go:548). `setObservedConfiguration` always stores a non-nil `Partition` and then compares with `reflect.DeepEqual` against the spec. So Spread and Cluster groups, and Partition groups without an explicit count, are always `ConfigurationMismatch`.

4. **Placement groups are found by name alone** (controller.go:299, also 337, 442, 501). Two objects of one name in two namespaces share a group, and the deletion of one deletes it under the other.
5. **One failed call ends the termination handler** (handler.go:146, also 122). A conflict on the status Update, caused by any kubelet write after the Get, ends Run; the node is marked only if the process is restarted.
6. **A failed instance type lookup is not retried** (machineset/controller.go:165). `reconcile` returns nil when `GetInstanceType` fails, so throttling or a network error leaves the MachineSet unannotated until some other event.
7. **The authority check is stale at patch time** (machineset/controller.go:105). The paused and authoritative-API checks use the object as read, and the merge patch has no precondition.

## What is proved

`PlacementGroupProofs` proves `TypeCorrect`: `Spec => []TypeOK` for all constants that satisfy the module's assumptions. It serves as a lemma of the proofs below. `pg_safety` does not check `TypeOK`: no step of the controller can leave these types, and the only way to break them is to go past the model's own instance bound, which is not a bug the code could have. The proof has these steps:

- one step per action;
- typing lemmas for each single-field update helper (`WithFinalizer`, `SetObserved`, `MergeStatus`, ...).

These lemmas are needed because the SMT backend cannot encode record `EXCEPT`. Zenon proves them once, and each action step cites them.

`PlacementGroupGuardProofs` proves the main safety property for any number of objects and names, under `LeakFreeConditions`:

- names are distinct (`NameOf` is injective);
- Describe is consistent;
- a 4xx is not drawn.

These are exactly the conditions whose failure the violation runs exhibit. Under them it proves two theorems:

- `GuardInvariant`: `Spec => []FinalizerGuardsGroup`.
- `NoOrphanTheorem`: `Spec => []NoOrphanedGroup`.

`NoOrphanedGroup` alone is not inductive, so the proof goes through `FinalizerGuardsGroup`. It has two parts. `DescribeConsistent` says that a group that exists is visible. `ObjectGuard(o)` says, for each object:

- a Gone object has no finalizer;
- an Unmanaged spec, in the object or in the base, is recorded in `everUnmanaged`;
- the copy's spec is the base's spec;
- during a Reconcile, the stored finalizer is the base's;
- in Reflect/Decide, the copy's finalizer is the base's;
- in every EC2 step, the base and the copy hold the finalizer;
- a pending removal (base has it, copy does not) follows an EC2 answer without the owned group, unless the object was once Unmanaged;
- an owned group of a never-Unmanaged object implies its finalizer.

The last conjunct gives `NoOrphanedGroup` together with the first. The others are what each step needs to preserve it:

- `PatchMeta`'s merged finalizer uses the pending-removal conjunct;
- `DelDescribe` uses `DescribeConsistent`;
- `Create` uses the EC2-step conjunct.

TLC checks `FinalizerGuardsGroup` in `pg_safety` as well. The proof has these parts:

- one lemma per action;
- a frame lemma for the objects an action leaves alone;
- field lemmas for the update helpers;
- a PTL step at the end that uses `TypeCorrect`.

`TerminationHandlerProofs` proves, for every value of the bounds:

- `TypeCorrect`: `Spec => []TypeOK`;
- `ReadyNotLostInvariant`: `Spec => []ReadyNotLost`;
- `Refinement`: `Spec => HandlerRefinesNotice`, that is, the handler implements `TerminationNotice`.

All three rest on `IInvInvariant`: `Spec => []IInv`. `ReadyNotLost` is not inductive by itself: a step of `MarkUpdate` writes the copy's conditions, and nothing in `ReadyNotLost` relates the copy to the Node. `IInv` adds that relation: the copy's resourceVersion is at most the Node's, and when they are equal the conditions are equal. So an Update that the API server accepts writes the Node's current conditions plus the mark. It also bounds the resourceVersion by the kubelet writes plus one for the mark (a write that changes the conditions happens only to an unmarked Node), which gives the bound in `TypeOK`, and it says the goroutine is past the poll only after the announcement, which makes `MarkUpdate` the abstract `Mark`. The lemmas about `addNodeTerminationCondition` (it appends or replaces in place, marks the node, leaves a marked node as it is, keeps every Ready entry) and about the kubelet's write (same shape, same mark) are stated once and cited by each step.

`PlacementGroupControlProofs` proves the two action properties of the placement group controller:

- `ReconcileGuardInvariant`: `Spec => []ReconcileGuard`, with no assumption on the constants;
- `UnmanagedFinal`: `Spec => UnmanagedIsFinal`, with no assumption on the constants;
- `GroupDeletedOnlyForOwner`: `Spec => GroupDeletedOnlyForItsObject`, when `NameOf` is injective. `pg_shared_name` shows that this hypothesis is needed.

An action property is proved from an invariant that holds before and after the step. `UnmanagedIsFinal` is not itself a state predicate, and what it needs is not inductive from the stored object alone: a Reconcile that read a Managed object may still be running when the status turns Unmanaged. `ReconcileGuard` supplies the missing facts. It has two parts.

`UnmanagedGuard(o)` says:

- a stored Unmanaged status comes with no finalizer;
- while Reconcile runs, the stored management state is the one it read;
- if it read Unmanaged, it also read an Unmanaged spec and no finalizer. This is `validateAWSPlacementGroup`. The copy then says Unmanaged and has no finalizer;
- the copy's spec is the base's spec;
- up to the metadata Patch, the stored finalizer is the base's;
- in Reflect and Decide, the copy's management state is the base's;
- every EC2 step runs with a copy that says Managed;
- a copy that says Unmanaged carries no finalizer into either Patch.

`DeleteGuard(o)` says:

- the base's deletion mark is still on the object;
- the copy's mark is the base's;
- the delete branch runs only with the mark.

Each step is shown to keep the guard with one lemma per action. The cases are:

- the metadata Patch: its merged finalizer is FALSE whenever the status or the copy says Unmanaged;
- the Status Patch: it stores Unmanaged only from a copy that says so, and that copy's finalizer is already gone;
- the user's edits: they keep the status and the finalizer.

`UnmanagedFinal` then follows: while Reconcile runs, a stored Unmanaged status forces the copy to say Unmanaged, and that contradicts the Create and Delete steps. `GroupDeletedOnlyForOwner` rests on `DeleteGuard`: only `DelCall` removes a group, only for its own object's name, and only with the mark.

`MachineSetProofs` proves `TypeCorrect` for the MachineSet controller: `Spec => []TypeOK` for every set of instance types and every bound. `TypeOK` is inductive as it stands. The lemmas it needs are:

- each record update of the model keeps a MachineSet;
- `Capacity(t)` of a known type is an annotation;
- the key-by-key merge patch yields an annotation.

So the controller never writes a capacity for an unknown type; the `TypeOK` mutant writes one.

**Only model-checked:**

- `DeletionCompletes`, `NoticeHonoured`, `ShutdownCompletes` and `AnnotationsConverge`, because liveness is out of reach of the prover;
- all the violation runs.

**Not modelled yet:**

- the machine actuator's create, update and delete, and dedicated hosts (in `unnamed/part_004` and `part_005`, given as fragments);
- the region and instance-type caches, whose results the models draw as answers;
- the merge of the MachineSet's other labels into the labels annotation, which only `arch` of the properties depends on;
- `stubs.go` and the tests, which are fixtures.

## Plan

1. Done: the placement group controller, its runs, typing and the no-leak theorem.
2. Done: the termination handler with its refinement and proofs; the MachineSet controller with its liveness run; the shared-name run.
3. Next: the dedicated host allocation and release within the machine delete path; a proof of the MachineSet's `AuthorityRespected` under a precondition on the patch.
