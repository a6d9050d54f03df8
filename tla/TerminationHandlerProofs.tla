---------------------- MODULE TerminationHandlerProofs ----------------------
(***************************************************************************)
(* Proofs about the spot termination handler model, for every value of    *)
(* its constants: its states are well typed, the handler's Node update     *)
(* never undoes a kubelet write, and the handler implements               *)
(* TerminationNotice.                                                      *)
(***************************************************************************)
EXTENDS TerminationHandler, SequenceTheorems, TLAPS

(* The type of every variable, without the bounds that TypeOK adds.       *)
TypeInv ==
    /\ notice \in BOOLEAN
    /\ node \in [conds : Seq(Conditions), rv : Nat]
    /\ got \in [conds : Seq(Conditions), rv : Nat]
    /\ gpc \in GPCs /\ rpc \in RPCs
    /\ out \in Results /\ errs \in Results
    /\ canceled \in BOOLEAN /\ stop \in BOOLEAN
    /\ faults \in 0..MaxFaults /\ writes \in 0..MaxWrites
    /\ lastReady \in CondStatus \cup {"None"}

(* A condition list grows past what the Node started with only by the     *)
(* Terminating condition the handler appends.                             *)
Bounded(c) ==
    /\ Len(c) <= MaxInitConds + 1
    /\ ~NodeHasTerminationCondition(c) => Len(c) <= MaxInitConds

(***************************************************************************)
(* The inductive invariant.  The resourceVersion of the handler's copy     *)
(* determines its conditions, which is what makes the Update safe; the     *)
(* resourceVersion has moved once for each kubelet write and once more for *)
(* the handler's mark; the goroutine is past the poll only after the       *)
(* announcement.                                                           *)
(***************************************************************************)
IInv ==
    /\ TypeInv
    /\ Bounded(node.conds) /\ Bounded(got.conds)
    /\ got.rv <= node.rv
    /\ got.rv = node.rv => got.conds = node.conds
    /\ node.rv <= writes + (IF Marked(node.conds) THEN 1 ELSE 0)
    /\ ReadyNotLost
    /\ gpc \in {"MarkGet", "MarkUpdate"} => notice

LEMMA ConstantFacts ==
    /\ MaxInitConds \in Nat /\ MaxFaults \in Nat /\ MaxWrites \in Nat
    /\ Restarts \in BOOLEAN
BY BoundsAssumption, RestartsAssumption

(***************************************************************************)
(* addNodeTerminationCondition.                                            *)
(***************************************************************************)
(* The Terminating condition the handler writes is a condition.           *)
LEMMA TerminatingConditionType == TerminatingCondition \in Conditions
BY DEF TerminatingCondition, Conditions, CondTypes, CondStatus

(* On a node without the condition, it is appended at the end.            *)
LEMMA AddAppends ==
    ASSUME NEW c \in Seq(Conditions), ~NodeHasTerminationCondition(c)
    PROVE  /\ AddNodeTerminationCondition(c) = Append(c, TerminatingCondition)
           /\ AddNodeTerminationCondition(c) \in Seq(Conditions)
           /\ Len(AddNodeTerminationCondition(c)) = Len(c) + 1
BY TerminatingConditionType DEF AddNodeTerminationCondition

(* On a node with the condition, the list keeps its length and every      *)
(* condition but a Terminating one keeps its place.                       *)
LEMMA AddReplaces ==
    ASSUME NEW c \in Seq(Conditions), NodeHasTerminationCondition(c)
    PROVE  /\ AddNodeTerminationCondition(c) \in Seq(Conditions)
           /\ Len(AddNodeTerminationCondition(c)) = Len(c)
           /\ \A i \in 1..Len(c) :
                 AddNodeTerminationCondition(c)[i] =
                    IF c[i].type = "Terminating" /\ c[i].status # "True"
                    THEN TerminatingCondition ELSE c[i]
BY TerminatingConditionType DEF AddNodeTerminationCondition

(* The result is a marked node, and it has the condition.                 *)
LEMMA AddMarks ==
    ASSUME NEW c \in Seq(Conditions)
    PROVE  /\ Marked(AddNodeTerminationCondition(c))
           /\ NodeHasTerminationCondition(AddNodeTerminationCondition(c))
<1>1. CASE ~NodeHasTerminationCondition(c)
  BY <1>1, AddAppends
     DEF Marked, NodeHasTerminationCondition, TerminatingCondition
<1>2. CASE NodeHasTerminationCondition(c)
  BY <1>2, AddReplaces
     DEF Marked, NodeHasTerminationCondition, TerminatingCondition
<1>3. QED
  BY <1>1, <1>2

(* A node already marked is written back unchanged.                       *)
LEMMA AddKeepsMarked ==
    ASSUME NEW c \in Seq(Conditions), Marked(c)
    PROVE  AddNodeTerminationCondition(c) = c
<1>1. NodeHasTerminationCondition(c)
  BY DEF Marked
<1>2. QED
  BY <1>1, AddReplaces, SeqEqual DEF Marked

(* Every Ready condition of the result is the one in the same place of    *)
(* the input.                                                             *)
LEMMA AddKeepsReady ==
    ASSUME NEW c \in Seq(Conditions), NEW i \in 1..Len(AddNodeTerminationCondition(c)),
           AddNodeTerminationCondition(c)[i].type = "Ready"
    PROVE  i \in 1..Len(c) /\ AddNodeTerminationCondition(c)[i] = c[i]
<1>1. CASE ~NodeHasTerminationCondition(c)
  BY <1>1, AddAppends DEF TerminatingCondition
<1>2. CASE NodeHasTerminationCondition(c)
  BY <1>2, AddReplaces DEF TerminatingCondition
<1>3. QED
  BY <1>1, <1>2

(* The handler's write keeps the condition list within its bound.         *)
LEMMA AddBounded ==
    ASSUME NEW c \in Seq(Conditions), Bounded(c)
    PROVE  Bounded(AddNodeTerminationCondition(c))
<1>1. CASE ~NodeHasTerminationCondition(c)
  BY <1>1, AddAppends, AddMarks, ConstantFacts DEF Bounded
<1>2. CASE NodeHasTerminationCondition(c)
  BY <1>2, AddReplaces, AddMarks DEF Bounded
<1>3. QED
  BY <1>1, <1>2

(***************************************************************************)
(* The kubelet's write.                                                    *)
(***************************************************************************)
LEMMA KubeletShape ==
    ASSUME NEW c \in Seq(Conditions), NEW s \in CondStatus
    PROVE  /\ KubeletConds(c, s) \in Seq(Conditions)
           /\ Len(KubeletConds(c, s)) = Len(c)
           /\ \A i \in 1..Len(c) :
                 /\ KubeletConds(c, s)[i].type = c[i].type
                 /\ c[i].type = "Ready" => KubeletConds(c, s)[i].status = s
                 /\ c[i].type # "Ready" => KubeletConds(c, s)[i] = c[i]
BY DEF KubeletConds, Conditions, CondTypes

(* It changes neither the mark nor the bound.                             *)
LEMMA KubeletKeepsMark ==
    ASSUME NEW c \in Seq(Conditions), NEW s \in CondStatus
    PROVE  /\ Marked(KubeletConds(c, s)) = Marked(c)
           /\ NodeHasTerminationCondition(KubeletConds(c, s))
                 = NodeHasTerminationCondition(c)
           /\ Bounded(c) => Bounded(KubeletConds(c, s))
BY KubeletShape DEF Marked, NodeHasTerminationCondition, Bounded

(***************************************************************************)
(* The invariant.                                                          *)
(***************************************************************************)
USE ConstantFacts DEF GPCs, RPCs, Results, CondStatus

LEMMA InitIInv == Init => IInv
<1> SUFFICES ASSUME Init PROVE IInv
  OBVIOUS
<1>1. PICK k \in 0..MaxInitConds : node.conds \in [1..k -> Conditions]
  BY DEF Init, InitConds
<1>2. node.conds \in Seq(Conditions) /\ Len(node.conds) = k
  BY <1>1
<1>3. InitConds \subseteq Seq(Conditions)
  BY DEF InitConds
<1>4. node \in [conds : Seq(Conditions), rv : Nat] /\ node.rv = 0
  BY <1>3 DEF Init
<1>5. TypeInv
  <2>1. notice \in BOOLEAN /\ got = node
    BY DEF Init
  <2>2. gpc \in GPCs /\ rpc \in RPCs /\ out \in Results /\ errs \in Results
    BY DEF Init
  <2>3. canceled \in BOOLEAN /\ stop \in BOOLEAN
    BY DEF Init
  <2>4. faults \in 0..MaxFaults /\ writes \in 0..MaxWrites
    BY DEF Init
  <2>5. lastReady \in CondStatus \cup {"None"}
    BY DEF Init
  <2>6. QED
    BY <1>4, <2>1, <2>2, <2>3, <2>4, <2>5 DEF TypeInv
<1>6. QED
  BY <1>1, <1>2, <1>4, <1>5 DEF Init, IInv, Bounded, ReadyNotLost

(* A step that leaves the Node, the copy and the kubelet's history alone  *)
(* keeps the invariant once it keeps the types and the announcement.      *)
LEMMA NodeFrame ==
    ASSUME IInv, TypeInv', UNCHANGED <<node, got, writes, lastReady>>,
           gpc' \in {"MarkGet", "MarkUpdate"} => notice'
    PROVE  IInv'
BY DEF IInv, Bounded, Marked, NodeHasTerminationCondition, ReadyNotLost

(* The steps of the polling goroutine that do not write the Node.         *)
LEMMA PollSteps ==
    ASSUME IInv,
           PollFound \/ PollNotFound \/ PollFailed \/ Tick \/ SendResult,
           UNCHANGED <<notice, canceled, stop, writes, lastReady>>
    PROVE  IInv'
<1>1. TypeInv'
  BY DEF IInv, TypeInv, PollFound, PollNotFound, PollFailed, Tick, SendResult,
         CallFails, Return
<1>2. gpc' \in {"MarkGet", "MarkUpdate"} => notice'
  BY DEF PollFound, PollNotFound, PollFailed, Tick, SendResult, Return
<1>3. UNCHANGED <<node, got>>
  BY DEF PollFound, PollNotFound, PollFailed, Tick, SendResult
<1>4. QED
  BY <1>1, <1>2, <1>3, NodeFrame

(* markNodeForDeletion's Get: the copy is the Node as it is now.          *)
LEMMA MarkGetStep ==
    ASSUME IInv, MarkGet, UNCHANGED <<notice, canceled, stop, writes, lastReady>>
    PROVE  IInv'
<1>1. CASE ~canceled /\ got' = node /\ gpc' = "MarkUpdate"
           /\ UNCHANGED <<out, faults>> /\ UNCHANGED <<node, rpc, errs>>
  <2>1. notice
    BY DEF IInv, MarkGet
  <2>2. TypeInv'
    BY <1>1 DEF IInv, TypeInv
  <2>3. Bounded(node'.conds) /\ Bounded(got'.conds)
    BY <1>1 DEF IInv
  <2>4. got'.rv <= node'.rv /\ (got'.rv = node'.rv => got'.conds = node'.conds)
    BY <1>1 DEF IInv, TypeInv
  <2>5. node'.rv <= writes' + (IF Marked(node'.conds) THEN 1 ELSE 0)
    BY <1>1 DEF IInv
  <2>6. ReadyNotLost'
    BY <1>1 DEF IInv, ReadyNotLost
  <2>7. QED
    BY <1>1, <2>1, <2>2, <2>3, <2>4, <2>5, <2>6 DEF IInv
<1>2. CASE CallFails /\ Return("err") /\ UNCHANGED got /\ UNCHANGED <<node, rpc, errs>>
  <2>1. TypeInv'
    BY <1>2 DEF IInv, TypeInv, CallFails, Return
  <2>2. QED
    BY <1>2, <2>1, NodeFrame DEF Return
<1>3. QED
  BY <1>1, <1>2 DEF MarkGet

(* markNodeForDeletion's Update.  The write goes through only when the    *)
(* copy's resourceVersion is current, and then the copy's conditions are   *)
(* the Node's: the handler adds its condition to what the kubelet wrote.   *)
LEMMA MarkUpdateStep ==
    ASSUME IInv, MarkUpdate, UNCHANGED <<notice, canceled, stop, writes, lastReady>>
    PROVE  IInv'
<1>1. CASE ~canceled /\ got.rv = node.rv
           /\ Write(AddNodeTerminationCondition(got.conds))
           /\ Return("nil") /\ UNCHANGED faults /\ UNCHANGED <<got, rpc, errs>>
  <2> DEFINE c == node.conds
             a == AddNodeTerminationCondition(c)
  <2>1. c \in Seq(Conditions) /\ node.rv \in Nat /\ got.conds = c
    BY <1>1 DEF IInv, TypeInv
  <2>2. node' = [conds |-> a, rv |-> IF a = c THEN node.rv ELSE node.rv + 1]
    BY <1>1, <2>1 DEF Write
  <2>3. a \in Seq(Conditions) /\ Marked(a) /\ Bounded(a)
    BY <2>1, AddAppends, AddReplaces, AddMarks, AddBounded DEF IInv
  <2>4. TypeInv'
    BY <1>1, <2>1, <2>2, <2>3 DEF IInv, TypeInv, Return
  <2>5. got'.rv <= node'.rv /\ (got'.rv = node'.rv => got'.conds = node'.conds)
    BY <1>1, <2>1, <2>2 DEF IInv, TypeInv
  <2>6. node'.rv <= writes' + (IF Marked(node'.conds) THEN 1 ELSE 0)
    <3>1. CASE a = c
      BY <2>1, <2>2, <2>3, <3>1, <1>1 DEF IInv, TypeInv
    <3>2. CASE a # c
      <4>1. ~Marked(c)
        BY <2>1, <3>2, AddKeepsMarked
      <4>2. QED
        BY <2>1, <2>2, <2>3, <3>2, <4>1, <1>1 DEF IInv, TypeInv
    <3>3. QED
      BY <3>1, <3>2
  <2>7. ReadyNotLost'
    <3> SUFFICES ASSUME lastReady # "None", NEW i \in DOMAIN a, a[i].type = "Ready"
                 PROVE  a[i].status = lastReady
      BY <1>1, <2>2 DEF ReadyNotLost
    <3>1. i \in 1..Len(c) /\ a[i] = c[i]
      BY <2>1, <2>3, AddKeepsReady
    <3>2. QED
      BY <3>1, <2>1 DEF IInv, ReadyNotLost
  <2>8. QED
    BY <1>1, <2>2, <2>3, <2>4, <2>5, <2>6, <2>7 DEF IInv, Return
<1>2. CASE ~canceled /\ got.rv # node.rv
           /\ Return("err") /\ UNCHANGED <<node, faults>> /\ UNCHANGED <<got, rpc, errs>>
  <2>1. TypeInv'
    BY <1>2 DEF IInv, TypeInv, Return
  <2>2. QED
    BY <1>2, <2>1, NodeFrame DEF Return
<1>3. CASE CallFails /\ Return("err") /\ UNCHANGED node /\ UNCHANGED <<got, rpc, errs>>
  <2>1. TypeInv'
    BY <1>3 DEF IInv, TypeInv, CallFails, Return
  <2>2. QED
    BY <1>3, <2>1, NodeFrame DEF Return
<1>4. QED
  BY <1>1, <1>2, <1>3 DEF MarkUpdate

(* The kubelet's status write moves the resourceVersion and sets the      *)
(* Ready status it records.                                               *)
LEMMA KubeletWriteStep ==
    ASSUME IInv, KubeletWrite
    PROVE  IInv'
<1>1. PICK s \in CondStatus :
          /\ node' = [conds |-> KubeletConds(node.conds, s), rv |-> node.rv + 1]
          /\ lastReady' = s
  BY DEF KubeletWrite
<1> DEFINE c == node.conds
           k == KubeletConds(c, s)
<1>2. c \in Seq(Conditions) /\ node.rv \in Nat
  BY DEF IInv, TypeInv
<1>3. /\ k \in Seq(Conditions) /\ Len(k) = Len(c)
      /\ Marked(k) = Marked(c) /\ Bounded(k)
  <2>1. k \in Seq(Conditions) /\ Len(k) = Len(c)
    BY <1>2, KubeletShape
  <2>2. Bounded(c)
    BY DEF IInv
  <2>3. Marked(k) = Marked(c) /\ (Bounded(c) => Bounded(k))
    BY <1>2, KubeletKeepsMark
  <2>4. QED
    BY <2>1, <2>2, <2>3
<1>4. TypeInv'
  BY <1>1, <1>2, <1>3 DEF IInv, TypeInv, KubeletWrite
<1>5. got'.rv <= node'.rv /\ got'.rv # node'.rv
  BY <1>1, <1>2 DEF IInv, TypeInv, KubeletWrite
<1>6. node'.rv <= writes' + (IF Marked(node'.conds) THEN 1 ELSE 0)
  BY <1>1, <1>2, <1>3 DEF IInv, TypeInv, KubeletWrite
<1>7. ReadyNotLost'
  <2> SUFFICES ASSUME NEW i \in DOMAIN k, k[i].type = "Ready"
               PROVE  k[i].status = s
    BY <1>1 DEF ReadyNotLost
  <2>1. i \in 1..Len(c)
    BY <1>3
  <2>2. c[i].type = "Ready"
    BY <1>2, <2>1, KubeletShape
  <2>3. QED
    BY <1>2, <2>1, <2>2, KubeletShape
<1>8. QED
  BY <1>1, <1>3, <1>4, <1>5, <1>6, <1>7 DEF IInv, KubeletWrite

(* Run, the announcement, the stop channel and a restart leave the Node    *)
(* and the copy alone.                                                     *)
LEMMA OtherSteps ==
    ASSUME IInv, Run \/ Announce \/ Stop \/ Restart
    PROVE  IInv'
<1>1. TypeInv'
  <2>1. CASE Run
    BY <2>1 DEF IInv, TypeInv, Run, RunSteps, RunStop, RunWaitDone, RunResult
  <2>2. CASE Announce
    BY <2>2 DEF IInv, TypeInv, Announce
  <2>3. CASE Stop
    BY <2>3 DEF IInv, TypeInv, Stop
  <2>4. CASE Restart
    BY <2>4 DEF IInv, TypeInv, Restart
  <2>5. QED
    BY <2>1, <2>2, <2>3, <2>4
<1>2. gpc' \in {"MarkGet", "MarkUpdate"} => notice'
  BY DEF IInv, Run, Announce, Stop, Restart
<1>3. UNCHANGED <<node, got, writes, lastReady>>
  BY DEF Run, Announce, Stop, Restart
<1>4. QED
  BY <1>1, <1>2, <1>3, NodeFrame

(* A step of the whole system keeps the invariant.                         *)
LEMMA NextIInv == IInv /\ [Next]_vars => IInv'
<1> SUFFICES ASSUME IInv, [Next]_vars PROVE IInv'
  OBVIOUS
<1>1. CASE Goroutine /\ UNCHANGED <<notice, canceled, stop, writes, lastReady>>
  BY <1>1, PollSteps, MarkGetStep, MarkUpdateStep DEF Goroutine
<1>2. CASE Run \/ Announce \/ Stop \/ Restart
  BY <1>2, OtherSteps
<1>3. CASE KubeletWrite
  BY <1>3, KubeletWriteStep
<1>4. CASE UNCHANGED vars
  <2>1. TypeInv'
    BY <1>4 DEF IInv, TypeInv, vars
  <2>2. UNCHANGED <<node, got, writes, lastReady>>
    BY <1>4 DEF vars
  <2>3. gpc' \in {"MarkGet", "MarkUpdate"} => notice'
    BY <1>4 DEF IInv, vars
  <2>4. QED
    BY <2>1, <2>2, <2>3, NodeFrame
<1>5. QED
  BY <1>1, <1>2, <1>3, <1>4 DEF Next, Environment

(* The invariant holds in every reachable state.                          *)
THEOREM IInvInvariant == Spec => []IInv
BY InitIInv, NextIInv, PTL DEF Spec

(* TypeOK of the runs holds in every reachable state, for every bound: the *)
(* resourceVersions the handler compares stay within MaxWrites + 1 and the *)
(* handler adds at most one condition to the Node.                         *)
THEOREM TypeCorrect == Spec => []TypeOK
<1>1. IInv => TypeOK
  <2> SUFFICES ASSUME IInv PROVE TypeOK
    OBVIOUS
  <2>1. node.rv <= MaxWrites + 1 /\ got.rv <= node.rv
    BY DEF IInv, TypeInv
  <2>2. Len(node.conds) <= MaxInitConds + 1
    BY DEF IInv, Bounded
  <2>3. QED
    BY <2>1, <2>2 DEF IInv, TypeInv, TypeOK
<1>2. QED
  BY <1>1, IInvInvariant, PTL

(* The handler's Update of the Node never undoes a Ready status that the   *)
(* kubelet wrote, even when the kubelet wrote between markNodeForDeletion's *)
(* Get and its Update, because the API server refuses the stale copy.      *)
THEOREM ReadyNotLostInvariant == Spec => []ReadyNotLost
<1>1. IInv => ReadyNotLost
  BY DEF IInv
<1>2. QED
  BY <1>1, IInvInvariant, PTL

(***************************************************************************)
(* The refinement.  Under the mapping marked <- Marked(node.conds), the    *)
(* handler's successful Update from an unmarked Node is TerminationNotice's *)
(* Mark, EC2's announcement is its Announce, and every other step (the     *)
(* kubelet's write, the handler's write to a marked Node, every step that  *)
(* writes nothing) leaves both abstract variables alone.                   *)
(***************************************************************************)
LEMMA MarkUpdateMaps ==
    ASSUME IInv, MarkUpdate, UNCHANGED notice
    PROVE  \/ UNCHANGED Marked(node.conds)
           \/ notice /\ ~Marked(node.conds) /\ Marked(node'.conds)
<1>1. CASE ~canceled /\ got.rv = node.rv
           /\ Write(AddNodeTerminationCondition(got.conds))
  <2>1. node.conds \in Seq(Conditions) /\ got.conds = node.conds
    BY <1>1 DEF IInv, TypeInv
  <2>2. node'.conds = AddNodeTerminationCondition(node.conds)
    BY <1>1, <2>1 DEF Write
  <2>3. Marked(node'.conds)
    BY <2>1, <2>2, AddMarks
  <2>4. notice
    BY DEF IInv, MarkUpdate
  <2>5. QED
    BY <2>3, <2>4
<1>2. CASE UNCHANGED node
  BY <1>2
<1>3. QED
  BY <1>1, <1>2 DEF MarkUpdate

LEMMA StepMaps ==
    IInv /\ [Next]_vars => [Abstract!Next]_Abstract!vars
<1> SUFFICES ASSUME IInv, [Next]_vars
             PROVE  [Abstract!Next]_Abstract!vars
  OBVIOUS
<1>1. CASE MarkUpdate /\ UNCHANGED notice
  BY <1>1, MarkUpdateMaps DEF Abstract!Next, Abstract!Mark, Abstract!vars
<1>2. CASE (PollFound \/ PollNotFound \/ PollFailed \/ Tick \/ MarkGet
            \/ SendResult) /\ UNCHANGED notice
  <2>1. UNCHANGED node
    BY <1>2 DEF PollFound, PollNotFound, PollFailed, Tick, MarkGet, SendResult
  <2>2. QED
    BY <1>2, <2>1 DEF Abstract!vars
<1>3. CASE Announce
  BY <1>3 DEF Announce, Abstract!Next, Abstract!Announce
<1>4. CASE Run \/ Stop \/ Restart \/ UNCHANGED vars
  BY <1>4 DEF Run, Stop, Restart, vars, Abstract!vars
<1>5. CASE KubeletWrite
  <2>1. PICK s \in CondStatus :
           node' = [conds |-> KubeletConds(node.conds, s), rv |-> node.rv + 1]
    BY <1>5 DEF KubeletWrite
  <2>2. node.conds \in Seq(Conditions)
    BY DEF IInv, TypeInv
  <2>3. Marked(node'.conds) = Marked(node.conds)
    BY <2>1, <2>2, KubeletKeepsMark
  <2>4. QED
    BY <1>5, <2>3 DEF KubeletWrite, Abstract!vars
<1>6. QED
  BY <1>1, <1>2, <1>3, <1>4, <1>5 DEF Next, Goroutine, Environment

(* The handler implements TerminationNotice (HandlerRefinesNotice of the   *)
(* runs): it marks the Node only after the metadata service announced the  *)
(* termination, and neither its own writes nor the kubelet's unmark it.    *)
THEOREM Refinement == Spec => HandlerRefinesNotice
<1>1. Init => Abstract!Init
  BY DEF Init, Abstract!Init, Marked, NodeHasTerminationCondition
<1>2. QED
  BY <1>1, StepMaps, IInvInvariant, PTL
     DEF Spec, HandlerRefinesNotice, Abstract!Spec
=============================================================================
