---------------------------- MODULE MCDomainJobs ----------------------------
(***************************************************************************)
(* DomainJobs for TLC.                                                     *)
(***************************************************************************)
EXTENDS DomainJobs, TLC

CONSTANTS o1, o2

Plain == [action |-> "register", bundle |-> "no", waived |-> FALSE]

\* Two customers pay for one name, the first perhaps with a VM or by a waiver; or a name that is held is renewed.
MCTerms ==
    {(o1 :> t) @@ (o2 :> Plain) : t \in {Plain, [Plain EXCEPT !.bundle = "keep_vm"],
                                         [Plain EXCEPT !.waived = TRUE]}}
    \cup {[o \in Orders |-> [Plain EXCEPT !.action = "renew"]]}
=============================================================================
