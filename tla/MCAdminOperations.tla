-------------------------- MODULE MCAdminOperations --------------------------
(***************************************************************************)
(* AdminOperations for TLC.                                                *)
(***************************************************************************)
EXTENDS AdminOperations
=============================================================================
