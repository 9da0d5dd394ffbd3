------------------------- MODULE MCMissionTransfer -------------------------
(***************************************************************************)
(* One run; its first event cites a body without naming its media type,    *)
(* its second event names the type.                                        *)
(***************************************************************************)
EXTENDS MissionTransfer, TLC

CONSTANTS r1, text, other

MCReferences == [e \in {<<r1, 0>>, <<r1, 1>>} |-> IF e = <<r1, 0>> THEN None ELSE text]

Importers == Permutations(Procs)
=============================================================================
