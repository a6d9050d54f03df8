------------------------- MODULE MC_PlacementGroup -------------------------
(* Small instances of PlacementGroup for TLC.                             *)
EXTENDS PlacementGroup

CONSTANTS o1, o2, n1, n2

(* Two objects in two namespaces with the same metadata.name: they        *)
(* reconcile the same EC2 placement group name.                            *)
MC_SharedName == [o \in {o1, o2} |-> n1]
(* Two objects, each with a group name of its own.                        *)
MC_DistinctNames == [o \in {o1, o2} |-> IF o = o1 THEN n1 ELSE n2]
(* One object, one group.                                                  *)
MC_OneName == [o \in {o1} |-> n1]
=============================================================================
