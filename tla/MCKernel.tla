------------------------------ MODULE MCKernel ------------------------------
(* Kernel for TLC. *)
EXTENDS Kernel, TLC

Symmetry == Permutations(Spaces)
=============================================================================
