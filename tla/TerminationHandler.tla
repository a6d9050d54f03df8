------------------------- MODULE TerminationHandler -------------------------
(***************************************************************************)
(* The spot termination handler of pkg/termination/handler.go.  Run starts *)
(* a goroutine that polls the instance metadata endpoint of the spot       *)
(* termination time and, once it answers 200, reads the Node, adds the     *)
(* Terminating condition and updates the Node's status.  Run itself waits  *)
(* for either the stop channel or the goroutine's result.                  *)
(*                                                                         *)
(* The two goroutines each have a program counter.  Around them act EC2    *)
(* (which announces the termination), the kubelet (which keeps writing the *)
(* Node's status, so the handler's copy of the Node goes stale), the       *)
(* process's owner (which closes the stop channel) and the container       *)
(* runtime (which starts the process again after Run has returned).        *)
(***************************************************************************)
EXTENDS Naturals, Sequences

CONSTANTS
    MaxInitConds, \* longest condition list a Node starts with
    MaxFaults,    \* bound on failed calls to the metadata service or API
    MaxWrites,    \* bound on the kubelet's status writes
    Restarts      \* the process is started again after Run returns

ASSUME BoundsAssumption == {MaxInitConds, MaxFaults, MaxWrites} \subseteq Nat
ASSUME RestartsAssumption == Restarts \in BOOLEAN

VARIABLES
    notice,    \* the metadata service has a spot termination time
    node,      \* the Node in the API server: conditions and resourceVersion
    got,       \* the Node as markNodeForDeletion read it
    gpc,       \* where the polling goroutine (run) is
    rpc,       \* where Run is
    out,       \* the error run returned, while it is being sent
    errs,      \* the contents of the buffered channel errs (capacity 1)
    canceled,  \* Run has called cancel() on the goroutine's context
    stop,      \* the stop channel is closed
    faults,    \* failed calls so far
    writes,    \* kubelet writes so far
    lastReady  \* history: the Ready status the kubelet wrote last

vars == <<notice, node, got, gpc, rpc, out, errs, canceled, stop, faults,
          writes, lastReady>>

CondTypes == {"Terminating", "Ready"}
CondStatus == {"True", "False", "Unknown"}
(* corev1.NodeCondition with the fields the code reads: Type and Status.  *)
Conditions == [type : CondTypes, status : CondStatus]
TerminatingCondition == [type |-> "Terminating", status |-> "True"]
InitConds == UNION {[1..k -> Conditions] : k \in 0..MaxInitConds}
Results == {"none", "nil", "err"}
GPCs == {"Poll", "Tick", "MarkGet", "MarkUpdate", "Send", "Exited"}
RPCs == {"Select", "Wait", "Returned"}

(***************************************************************************)
(* nodeHasTerminationCondition and addNodeTerminationCondition.  When the  *)
(* node has no Terminating condition one is appended; otherwise every      *)
(* Terminating condition whose status is not True is replaced by a True   *)
(* one and every other condition is kept in its place.                     *)
(***************************************************************************)
NodeHasTerminationCondition(c) == \E i \in DOMAIN c : c[i].type = "Terminating"

(* Mutant: the condition appended even when the node already has one.    *)
AddNodeTerminationConditionAlways(c) == Append(c, TerminatingCondition)

AddNodeTerminationCondition(c) ==
    IF ~NodeHasTerminationCondition(c)
    THEN Append(c, TerminatingCondition)
    ELSE [i \in DOMAIN c |->
            IF c[i].type = "Terminating" /\ c[i].status # "True"
            THEN TerminatingCondition ELSE c[i]]

(* The node as the cluster sees it: marked Terminating and nothing saying *)
(* otherwise.                                                             *)
Marked(c) ==
    /\ NodeHasTerminationCondition(c)
    /\ \A i \in DOMAIN c : c[i].type = "Terminating" => c[i].status = "True"

(* An API write stores conds; resourceVersion moves only when it changes. *)
Write(conds) ==
    node' = [conds |-> conds,
             rv |-> IF conds = node.conds THEN node.rv ELSE node.rv + 1]

(* A call fails: on the canceled context, or on an error of its own.      *)
CallFails ==
    \/ canceled /\ UNCHANGED faults
    \/ ~canceled /\ faults < MaxFaults /\ faults' = faults + 1

(* run returns r: wg.Done runs (deferred), then the result is sent.       *)
Return(r) == out' = r /\ gpc' = "Send"

Init ==
    /\ notice \in BOOLEAN
    /\ node \in [conds : InitConds, rv : {0}]
    /\ got = node
    /\ gpc = "Poll"
    /\ rpc = "Select"
    /\ out = "none"
    /\ errs = "none"
    /\ canceled = FALSE
    /\ stop = FALSE
    /\ faults = 0
    /\ writes = 0
    /\ lastReady = "None"

(***************************************************************************)
(* The condition function of PollImmediateUntil, run at once and then on   *)
(* every tick.  200 ends the polling; 404 polls again; any other error,    *)
(* the canceled context's included, ends it with the error, which run      *)
(* returns.                                                                *)
(***************************************************************************)
(* Mutant: a failed request taken for the 200 answer.                     *)
PollFoundOnError ==
    /\ gpc = "Poll" /\ ~canceled
    /\ \/ notice /\ UNCHANGED faults
       \/ ~notice /\ faults < MaxFaults /\ faults' = faults + 1
    /\ gpc' = "MarkGet"
    /\ UNCHANGED <<node, got, rpc, out, errs>>

PollFound ==
    /\ gpc = "Poll" /\ ~canceled /\ notice
    /\ gpc' = "MarkGet"
    /\ UNCHANGED <<node, got, rpc, out, errs, faults>>

PollNotFound ==
    /\ gpc = "Poll" /\ ~canceled /\ ~notice
    /\ gpc' = "Tick"
    /\ UNCHANGED <<node, got, rpc, out, errs, faults>>

PollFailed ==
    /\ gpc = "Poll"
    /\ CallFails
    /\ Return("err")
    /\ UNCHANGED <<node, got, rpc, errs>>

(* The wait between two polls ends on the ticker or on ctx.Done(); after  *)
(* cancel a tick only runs the condition on the canceled context, which   *)
(* fails the same way.                                                    *)
Tick ==
    /\ gpc = "Tick"
    /\ IF canceled THEN Return("err") ELSE gpc' = "Poll" /\ UNCHANGED out
    /\ UNCHANGED <<node, got, rpc, errs, faults>>

(* markNodeForDeletion: Get of the Node through the uncached client.      *)
MarkGet ==
    /\ gpc = "MarkGet"
    /\ \/ ~canceled /\ got' = node /\ gpc' = "MarkUpdate"
          /\ UNCHANGED <<out, faults>>
       \/ CallFails /\ Return("err") /\ UNCHANGED got
    /\ UNCHANGED <<node, rpc, errs>>

(* addNodeTerminationCondition on the copy, then Status().Update, which    *)
(* the API server refuses with a conflict when the copy's resourceVersion  *)
(* is stale.                                                               *)
(* Mutant: the status written without the resourceVersion precondition.   *)
MarkUpdateBlind ==
    /\ gpc = "MarkUpdate"
    /\ \/ ~canceled /\ Write(AddNodeTerminationCondition(got.conds))
          /\ Return("nil") /\ UNCHANGED faults
       \/ CallFails /\ Return("err") /\ UNCHANGED node
    /\ UNCHANGED <<got, rpc, errs>>

MarkUpdate ==
    /\ gpc = "MarkUpdate"
    /\ \/ ~canceled /\ got.rv = node.rv
          /\ Write(AddNodeTerminationCondition(got.conds))
          /\ Return("nil") /\ UNCHANGED faults
       \/ ~canceled /\ got.rv # node.rv
          /\ Return("err") /\ UNCHANGED <<node, faults>>
       \/ CallFails /\ Return("err") /\ UNCHANGED node
    /\ UNCHANGED <<got, rpc, errs>>

(* The goroutine's errs <- h.run(...): the buffer is empty, so it never   *)
(* blocks.                                                                *)
(* Mutant: errs unbuffered, so the send waits for Run to receive it.      *)
SendResultUnbuffered ==
    /\ gpc = "Send" /\ rpc = "Select"
    /\ errs' = out /\ gpc' = "Exited"
    /\ UNCHANGED <<node, got, rpc, out, faults>>

SendResult ==
    /\ gpc = "Send"
    /\ errs' = out /\ gpc' = "Exited"
    /\ UNCHANGED <<node, got, rpc, out, faults>>

Goroutine == PollFound \/ PollNotFound \/ PollFailed \/ Tick \/ MarkGet
             \/ MarkUpdate \/ SendResult

(***************************************************************************)
(* Run's select.  Either case may be taken when both are ready.  On stop   *)
(* it cancels the context and waits on the WaitGroup, which the goroutine  *)
(* releases when run returns; on a result it cancels and returns it.       *)
(***************************************************************************)
RunStop ==
    /\ rpc = "Select" /\ stop
    /\ canceled' = TRUE /\ rpc' = "Wait"
    /\ UNCHANGED <<errs>>

RunWaitDone ==
    /\ rpc = "Wait" /\ gpc \in {"Send", "Exited"}
    /\ rpc' = "Returned"
    /\ UNCHANGED <<canceled, errs>>

(* Mutant: Run logs an error result and keeps waiting in its select.      *)
RunResultIgnoringError ==
    /\ rpc = "Select" /\ errs # "none"
    /\ errs' = "none"
    /\ IF errs = "err" THEN UNCHANGED <<canceled, rpc>>
       ELSE canceled' = TRUE /\ rpc' = "Returned"

RunResult ==
    /\ rpc = "Select" /\ errs # "none"
    /\ canceled' = TRUE /\ errs' = "none" /\ rpc' = "Returned"

RunSteps == RunStop \/ RunWaitDone \/ RunResult

Run == RunSteps /\ UNCHANGED <<notice, node, got, gpc, out, stop, faults,
                                writes, lastReady>>

(***************************************************************************)
(* The environment.                                                        *)
(***************************************************************************)
(* EC2 publishes the termination time; it stays until the instance goes.  *)
Announce ==
    /\ ~notice /\ notice' = TRUE
    /\ UNCHANGED <<node, got, gpc, rpc, out, errs, canceled, stop, faults,
                   writes, lastReady>>

(* The kubelet's conditions: its Ready condition gets status s.           *)
KubeletConds(c, s) ==
    [i \in DOMAIN c |->
        IF c[i].type = "Ready" THEN [type |-> "Ready", status |-> s] ELSE c[i]]

(* The kubelet's status update: it sets its Ready condition and a new      *)
(* heartbeat time, so every write moves the resourceVersion.               *)
KubeletWrite ==
    /\ writes < MaxWrites
    /\ \E s \in CondStatus :
          /\ node' = [conds |-> KubeletConds(node.conds, s), rv |-> node.rv + 1]
          /\ lastReady' = s
    /\ writes' = writes + 1
    /\ UNCHANGED <<notice, got, gpc, rpc, out, errs, canceled, stop, faults>>

(* The process is told to stop: the stop channel is closed.               *)
Stop ==
    /\ ~stop /\ stop' = TRUE
    /\ UNCHANGED <<notice, node, got, gpc, rpc, out, errs, canceled, faults,
                   writes, lastReady>>

(* Run has returned and the process is started again with a fresh Run.    *)
Restart ==
    /\ Restarts /\ ~stop /\ rpc = "Returned" /\ gpc = "Exited"
    /\ gpc' = "Poll" /\ rpc' = "Select" /\ out' = "none" /\ errs' = "none"
    /\ canceled' = FALSE
    /\ UNCHANGED <<notice, node, got, stop, faults, writes, lastReady>>

Environment == Announce \/ KubeletWrite \/ Stop \/ Restart

Next ==
    \/ Goroutine /\ UNCHANGED <<notice, canceled, stop, writes, lastReady>>
    \/ Run
    \/ Environment

Spec == Init /\ [][Next]_vars

(* Go's scheduler runs both goroutines, and the container runtime restarts *)
(* an exited handler; EC2, the kubelet and the stop signal owe nothing.    *)
FairSpec ==
    /\ Spec
    /\ WF_vars(Goroutine /\ UNCHANGED <<notice, canceled, stop, writes, lastReady>>)
    /\ WF_vars(Run)
    /\ WF_vars(Restart)

(***************************************************************************)
(* Properties.                                                             *)
(***************************************************************************)
TypeOK ==
    /\ notice \in BOOLEAN
    /\ node \in [conds : Seq(Conditions), rv : 0..MaxWrites + 1]
    /\ Len(node.conds) <= MaxInitConds + 1
    /\ got \in [conds : Seq(Conditions), rv : 0..MaxWrites + 1]
    /\ gpc \in GPCs /\ rpc \in RPCs
    /\ out \in Results /\ errs \in Results
    /\ {canceled, stop} \subseteq BOOLEAN
    /\ faults \in 0..MaxFaults /\ writes \in 0..MaxWrites
    /\ lastReady \in CondStatus \cup {"None"}

(* The handler's status update never undoes a status the kubelet wrote:   *)
(* every Ready condition shows the kubelet's last write, even when the    *)
(* kubelet wrote between markNodeForDeletion's Get and its Update.         *)
ReadyNotLost ==
    lastReady # "None" =>
        \A i \in DOMAIN node.conds :
            node.conds[i].type = "Ready" => node.conds[i].status = lastReady

(* The handler implements TerminationNotice: the Node is marked only after *)
(* the metadata service answered 200, and no write of the handler or the   *)
(* kubelet ever unmarks it.                                                *)
Abstract == INSTANCE TerminationNotice WITH marked <- Marked(node.conds)
HandlerRefinesNotice == Abstract!Spec

(* Once the termination is announced the Node is eventually marked, unless *)
(* the handler is told to stop: failed polls, failed Gets and conflicting  *)
(* Updates end Run, and the restarted process polls again.                 *)
NoticeHonoured == notice ~> (Marked(node.conds) \/ stop)

(* Once stop is closed Run returns and the polling goroutine exits: its    *)
(* send on errs does not wait for a receiver that has gone.                *)
ShutdownCompletes == stop ~> (rpc = "Returned" /\ gpc = "Exited")
=============================================================================
