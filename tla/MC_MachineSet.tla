--------------------------- MODULE MC_MachineSet ---------------------------
(* A small instance of MachineSet for TLC: two known instance types of    *)
(* different architectures and one unknown type.                          *)
EXTENDS MachineSet

CONSTANTS m5, m6g, bogus

MC_ArchOf == [t \in {m5, m6g} |-> IF t = m5 THEN "amd64" ELSE "arm64"]
=============================================================================
