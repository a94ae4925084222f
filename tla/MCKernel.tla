------------------------------ MODULE MCKernel ------------------------------
(* Model checking of the kernel: run ids are interchangeable. *)
EXTENDS KernelInvariant, TLC

RunSymmetry == Permutations(Runs)
=============================================================================
