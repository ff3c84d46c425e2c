------------------------------ MODULE MCTaskList ------------------------------
(***************************************************************************)
(* TaskList for TLC: addresses are interchangeable.                        *)
(***************************************************************************)
EXTENDS TaskList, TLC

NodeSymmetry == Permutations(Nodes)
=============================================================================
