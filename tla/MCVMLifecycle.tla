--------------------------- MODULE MCVMLifecycle ---------------------------
(***************************************************************************)
(* Small instances of VMLifecycle for TLC.  The accounts are model values. *)
(***************************************************************************)
EXTENDS VMLifecycle, TLC

\* Accounts are interchangeable when the VM may start with any of them.
AccountSymmetry == Permutations(Accounts)

=============================================================================
