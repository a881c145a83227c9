------------------------------ MODULE MCAccounts ------------------------------
(***************************************************************************)
(* Accounts for TLC.                                                       *)
(***************************************************************************)
EXTENDS Accounts, TLC
CONSTANTS a1, a2, a3, w1

MCPayer == (a1 :> {}) @@ (a2 :> {w1}) @@ (a3 :> {})
Symmetry == Permutations(Requests)
=============================================================================
