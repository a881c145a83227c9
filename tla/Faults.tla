------------------------------- MODULE Faults --------------------------------
(***************************************************************************)
(* What goes wrong in the models of a domain.  A fault of each kind the    *)
(* instance allows may strike where an action says so, MaxMishaps times in *)
(* all; the properties that only hold while nothing has gone wrong ask for *)
(* mishaps = 0.                                                            *)
(***************************************************************************)
EXTENDS Integers

CONSTANTS
    None,       \* nobody, and nothing
    \* Bounds of the model.
    Mishaps,    \* in DomainOrders of "error", "crash", "ledger" and "ambiguous"; in DomainZones
                \* of "refused", "lost", "error", "crash" and "transferred", a new owner
    MaxMishaps  \* how often, in all

VARIABLE mishaps  \* what MaxMishaps counts

Fine == UNCHANGED mishaps
GoesWrong(kind) == /\ kind \in Mishaps /\ mishaps < MaxMishaps
                   /\ mishaps' = mishaps + 1

=============================================================================
