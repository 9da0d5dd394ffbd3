------------------------ MODULE MCMissionContinuity ------------------------
(***************************************************************************)
(* Runs, missions and definitions are interchangeable: nothing in          *)
(* MissionContinuity orders them.                                          *)
(***************************************************************************)
EXTENDS MissionContinuity, TLC

\* A caller claims the acceptance of everything in the run.
SelfMade == {<<"accepted", 0>>}

Interchangeable == Permutations(Runs) \cup Permutations(Missions)
                       \cup Permutations(Definitions)
=============================================================================
