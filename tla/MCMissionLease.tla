--------------------------- MODULE MCMissionLease ---------------------------
(***************************************************************************)
(* The workers are interchangeable: nothing in MissionLease compares or    *)
(* orders them.  Symmetry is used by the safety runs only.                 *)
(***************************************************************************)
EXTENDS MissionLease, TLC

Workers == Permutations(Procs)
=============================================================================
