---------------------------- MODULE MCDomainZones ---------------------------
(***************************************************************************)
(* DomainZones for TLC.                                                    *)
(***************************************************************************)
EXTENDS DomainZones

\* As registered, and delegated elsewhere with DNSSEC or without.
MCBeginnings == {<<"managed", "managed">>, <<"external", "external">>, <<"external", "off">>}
=============================================================================
