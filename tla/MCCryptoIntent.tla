--------------------------- MODULE MCCryptoIntent ---------------------------
(***************************************************************************)
(* CryptoIntent for TLC: one or two worker processes poll one intent.      *)
(***************************************************************************)
EXTENDS CryptoIntent

CONSTANTS w1, w2

\* The deployment of the repository runs one worker; two overlap while it is replaced.
MCFleets == {{w1}, {w1, w2}}

=============================================================================
