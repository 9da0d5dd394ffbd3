-------------------------- MODULE MCInstanceBackup --------------------------
(***************************************************************************)
(* Agents and publishers are interchangeable.                               *)
(***************************************************************************)
EXTENDS InstanceBackup, TLC

Interchangeable == Permutations(Users) \cup Permutations(Publishers)
=============================================================================
