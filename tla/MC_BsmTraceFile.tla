--------------------------- MODULE MC_BsmTraceFile ---------------------------
(* Small instances of the trace file for TLC: two signals of different     *)
(* change-detection families and one event.                                *)
EXTENDS BsmTraceFile

CONSTANTS sigA, sigB, ev

MC_Objs == {sigA, sigB, ev}
MC_ObjKind == [o \in MC_Objs |-> CASE o = sigA -> "Edge"
                                   [] o = sigB -> "Logic"
                                   [] OTHER    -> "Event"]
(* The same objects with the second signal an sc_bv/sc_lv (bsm_T_trace).  *)
MC_ObjKindVector == [o \in MC_Objs |-> CASE o = sigA -> "Edge"
                                         [] o = sigB -> "Vector"
                                         [] OTHER    -> "Event"]
=============================================================================
