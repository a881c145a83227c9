--------------------------- MODULE MCDomainOrders ---------------------------
(***************************************************************************)
(* DomainOrders for TLC: two requests for every kind of order.             *)
(***************************************************************************)
EXTENDS DomainOrders, TLC

CONSTANTS r1, r2, a1, a2

\* Both repeat one authorization, or each has its own.
TwoRetries == {(r1 :> a1) @@ (r2 :> a1), (r1 :> a1) @@ (r2 :> a2)}
=============================================================================
