---------------------------- MODULE MCVMCheckout ----------------------------
(***************************************************************************)
(* VMCheckout for TLC: two requests on one quote, one host slot.           *)
(***************************************************************************)
EXTENDS VMCheckout

CONSTANTS r1, r2  \* the requests

Customer == [quoted |-> TRUE, authed |-> FALSE, custom |-> FALSE, payment |-> "x402"]
Member == [quoted |-> TRUE, authed |-> TRUE, custom |-> TRUE, payment |-> "x402"]
Admin == [quoted |-> TRUE, authed |-> TRUE, custom |-> FALSE, payment |-> "waiver"]
Tester == [quoted |-> FALSE, authed |-> TRUE, custom |-> TRUE, payment |-> "waiver"]

Pair(a, b) == [r \in Requests |-> IF r = r1 THEN a ELSE b]

\* Two that race for the quote; a waiver that races with a payment; two waivers on the
\* last slot; two that want the domain.
MCTerms == {Pair(Customer, Customer), Pair(Customer, Admin), Pair(Admin, Tester),
            Pair(Member, Tester)}

=============================================================================
