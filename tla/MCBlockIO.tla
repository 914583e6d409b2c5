----------------------------- MODULE MCBlockIO ------------------------------
(***************************************************************************)
(* BlockIO with interchangeable processes, blocks and values.              *)
(***************************************************************************)
EXTENDS BlockIO, TLC

Symmetry == Permutations(Proc) \cup Permutations(Block) \cup Permutations(Val)
=============================================================================
