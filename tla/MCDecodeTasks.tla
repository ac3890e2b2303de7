---------------------------- MODULE MCDecodeTasks ----------------------------
(* Model values for DecodeTasks. *)
EXTENDS DecodeTasks
CONSTANTS t1, t2
MCTraces == {t1, t2}
TraceSymmetry == Permutations(MCTraces)
=============================================================================
