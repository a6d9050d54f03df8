-------------------------- MODULE TerminationNotice --------------------------
(***************************************************************************)
(* What the spot termination handler promises the cluster, stated without  *)
(* the polling loop, the node copy or the process that runs it: the node   *)
(* is marked Terminating only once EC2 has announced the termination of    *)
(* its instance, and a mark once made is never taken back.  Both facts are *)
(* what the machine controllers that drain a marked node rely on.          *)
(***************************************************************************)

VARIABLES
    notice,  \* EC2 has published a termination time for the instance
    marked   \* the Node carries the Terminating condition, status True

vars == <<notice, marked>>

Init == notice \in BOOLEAN /\ marked \in BOOLEAN

(* EC2 announces the termination; the announcement is never withdrawn.    *)
Announce == ~notice /\ notice' /\ UNCHANGED marked

(* The node is marked, only after the announcement.                        *)
Mark == notice /\ ~marked /\ marked' /\ UNCHANGED notice

Next == Announce \/ Mark

Spec == Init /\ [][Next]_vars
=============================================================================
