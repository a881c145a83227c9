-------------------------- MODULE MCVMProvisioning --------------------------
(***************************************************************************)
(* VMProvisioning for TLC: attempts of the API process and of the worker.  *)
(***************************************************************************)
EXTENDS VMProvisioning, TLC

\* Attempts differ in nothing but their name.
AttemptSymmetry == Permutations(Attempts)

=============================================================================
