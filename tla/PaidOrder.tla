----------------------------- MODULE PaidOrder ------------------------------
(***************************************************************************)
(* What every checkout of the system promises a customer: nothing is       *)
(* delivered before the money (or an administrator's waiver) was settled,  *)
(* and a settled order ends in at most one of the delivery and a refund    *)
(* that is owed.  VMCheckout, CryptoIntent and DomainJobs implement it.    *)
(***************************************************************************)
CONSTANT Orders

VARIABLE phase  \* of each order: open, settled, and then delivered or refunded

Init == phase = [o \in Orders |-> "open"]

Become(o, from, to) == /\ phase[o] = from
                       /\ phase' = [phase EXCEPT ![o] = to]

Settle(o) == Become(o, "open", "settled")
Deliver(o) == Become(o, "settled", "delivered")
Refund(o) == Become(o, "settled", "refunded")

Next == \E o \in Orders : Settle(o) \/ Deliver(o) \/ Refund(o)

Spec == Init /\ [][Next]_phase

=============================================================================
