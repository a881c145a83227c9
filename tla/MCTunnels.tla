------------------------------ MODULE MCTunnels ------------------------------
(***************************************************************************)
(* Tunnels for TLC.  The requests, the extensions and the replicas are     *)
(* interchangeable.                                                        *)
(***************************************************************************)
EXTENDS Tunnels, TLC

\* An hour or two, and an hour for one request at least: its time runs out within the bound.
MCTerms == {h \in [Creators -> {1, 2}] : \E r \in Creators : h[r] = 1}

Symmetry == Permutations(Creators) \cup Permutations(Extenders) \cup Permutations(Replicas)
=============================================================================
