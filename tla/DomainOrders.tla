---------------------------- MODULE DomainOrders ----------------------------
(***************************************************************************)
(* The checkout of one domain order, up to the moment it is queued for the *)
(* registrar or becomes a refund.  There are two ways to it:               *)
(*                                                                         *)
(*   "registration"  POST /v1/domains/registrations: a marketplace buyer   *)
(*                   without an account, bound by client_order_id to a     *)
(*                   DomainRegistrationIntentRow and by the hash of the    *)
(*                   payment authorization to one payment at a time;       *)
(*   "order"         POST /v1/domains/orders: an account, bound by the     *)
(*                   Idempotency-Key, possibly bundled with a VM quote and *)
(*                   possibly paid by an administrator's waiver.           *)
(*                                                                         *)
(* Several requests for the same order (retries, with the same payment     *)
(* authorization or another) interleave transaction by transaction with    *)
(* one another, with the worker that expires quotes, the worker that       *)
(* replays the payment ledger, and an administrator.                       *)
(***************************************************************************)
EXTENDS Faults, FiniteSets

CONSTANTS
    Requests,   \* HTTP requests for the order
    Auths,      \* signed payment authorizations
    Kinds,      \* of "registration" and "order"
    Billing,    \* of "charged" and "admin_waived"; the second with "order" only
    Bundles,    \* whether the order names a VM quote
    Retries,    \* which authorizations the requests may carry together
    \* Bounds of the model.
    MaxQuotes   \* the quote and its replacements

ASSUME NoneIsNothing == None \notin Auths
ASSUME RetriesCarryAuths == Retries \subseteq [Requests -> Auths]
ASSUME BoundsAreNumbers == MaxQuotes \in Nat \ {0} /\ MaxMishaps \in Nat
ASSUME TermsAreKnown == /\ Kinds \subseteq {"registration", "order"}
                        /\ Billing \subseteq {"charged", "admin_waived"}
                        /\ Bundles \subseteq BOOLEAN

VARIABLES
    terms,    \* kind, billing and bundle of the order
    auth,     \* the authorization each request carries
    quotes,   \* DomainQuoteRow.status of the quotes so far, by number
    overdue,  \* the quotes whose expires_at has passed
    intent,   \* DomainRegistrationIntentRow; quote 0: there is none
    order,    \* DomainOrderRow; status "none": there is none
    vmQuote,  \* VMQuoteRow.status
    enabled,  \* the owner's account is enabled
    admin,    \* the actor of a waiver still has the right to it
    charged,  \* authorizations whose money has moved
    ledger,   \* authorizations with a settled (or waiver) event in the ledger
    owed,     \* refund_owed events of the order
    pc,       \* where each request is
    fresh,    \* an offer that ran out, and the replacement a request has made
    seen,     \* the status of the order that a request read before it marks it paid
    scan,     \* the same for the worker
    overwritten  \* history: a payment was marked over the outcome of another marking

offer == <<quotes, overdue, vmQuote>>
people == <<enabled, admin>>
funds == <<charged, ledger, owed>>
marking == <<seen, scan, overwritten>>
vars == <<terms, auth, offer, intent, order, people, funds, pc, fresh, marking, mishaps>>

QuoteIds == 1..MaxQuotes
Unused == QuoteIds \ {q \in QuoteIds : quotes[q] # "none"}

NoIntent == [quote |-> 0, hash |-> None, state |-> "awaiting_payment"]
Nothing == <<0, 0>>
NoOrder == [status |-> "none", quote |-> 0, paid |-> FALSE]

Registers == terms.kind = "registration"
Waived == terms.billing = "admin_waived"
Taken == {"reserved", "consumed"}
InFlight == {"settlement_pending", "settlement_uncertain"}

At(r, place) == pc[r] = place
Goto(r, place) == pc' = [pc EXCEPT ![r] = place]

\* A request in x402_payment_guard holds the locks of the account, of the order and of
\* its quote while the facilitator settles.
Locked == \E r \in Requests : At(r, "settle")

\* What _mark_paid changes: an order without an outcome.
Unpaid == {"AWAITING_PAYMENT", "EXPIRED"}

Payable(q) == quotes[q] \in {"active", "reserved"} /\ q \notin overdue

----------------------------------------------------------------------------
(* Up to the order.                                                        *)

\* create_quote: a new offer of the registrar's price.
NewQuote(q) == quotes' = [quotes EXCEPT ![q] = "active"]

\* _validate_registration_quote, for an offer that is reserved or paid and for one that
\* is not.
Valid(q) == IF order.status = "none" THEN quotes[q] = "active" /\ q \notin overdue
            ELSE order.paid \/ quotes[q] \in Taken

\* prepare_registration, and create_quote for an account.  A replayed client_order_id
\* finds its intent; an offer that ran out before there is an order is replaced.
Prepare(r) ==
    /\ At(r, "idle")
    /\ \/ /\ Registers /\ intent.quote = 0
          /\ NewQuote(1) /\ intent' = [intent EXCEPT !.quote = 1]
          /\ Goto(r, "verify") /\ UNCHANGED fresh
       \/ /\ Registers /\ intent.quote # 0 /\ order.status = "none"
          /\ Valid(intent.quote) /\ Goto(r, "verify") /\ UNCHANGED <<quotes, intent, fresh>>
       \/ /\ Registers /\ intent.quote # 0 /\ order.status = "none"
          /\ ~Valid(intent.quote)
          /\ \E q \in Unused : /\ \A u \in Unused : q <= u
                               /\ NewQuote(q) /\ fresh' = [fresh EXCEPT ![r] = <<intent.quote, q>>]
          /\ Goto(r, "rebind") /\ UNCHANGED intent
       \/ /\ Registers /\ order.status # "none"
          /\ Goto(r, IF order.paid /\ intent.hash = auth[r] THEN "done"
                     ELSE IF Valid(order.quote) THEN "verify" ELSE "done")
          /\ UNCHANGED <<quotes, intent, fresh>>
       \/ /\ ~Registers /\ Goto(r, "create") /\ UNCHANGED <<intent, fresh>>
          /\ IF quotes[1] = "none" THEN NewQuote(1) ELSE UNCHANGED quotes
    /\ UNCHANGED <<terms, auth, overdue, vmQuote, order, people, funds, mishaps, marking>>

Replaced(r) == fresh[r][1]
Replacement(r) == fresh[r][2]

\* The replacement is bound only to an intent that still has the old offer and no order;
\* whatever the intent names then is validated again.
Rebind(r) ==
    /\ At(r, "rebind")
    /\ intent' = IF order.status = "none" /\ intent.quote = Replaced(r)
                 THEN [intent EXCEPT !.quote = Replacement(r)] ELSE intent
    /\ fresh' = [fresh EXCEPT ![r] = Nothing]
    /\ Goto(r, IF Valid(intent'.quote) THEN "verify" ELSE "done")
    /\ UNCHANGED <<terms, auth, offer, order, people, funds, mishaps, marking>>

\* verify_only: the facilitator refuses an authorization whose nonce is used.
Verify(r) ==
    /\ At(r, "verify")
    /\ Goto(r, IF auth[r] \in charged THEN "done" ELSE "create")
    /\ UNCHANGED <<terms, auth, offer, intent, order, people, funds, fresh, marking, mishaps>>

Reserve(q) == /\ quotes' = [quotes EXCEPT ![q] = "reserved"]
              /\ order' = [status |-> "AWAITING_PAYMENT", quote |-> q, paid |-> FALSE]

\* Mutant of CreateMarketplaceOrder: a second authorization replaces the first.
CreateAndReplaceHash(r) ==
    /\ At(r, "create") /\ Registers /\ ~Locked
    /\ \/ /\ order.status = "none" /\ quotes[intent.quote] = "active"
          /\ intent.quote \notin overdue /\ Reserve(intent.quote)
          /\ Goto(r, "check")
       \/ /\ order.status # "none" /\ Goto(r, "recover") /\ UNCHANGED <<quotes, order>>
       \/ /\ order.status = "none"
          /\ quotes[intent.quote] # "active" \/ intent.quote \in overdue
          /\ Goto(r, "done") /\ UNCHANGED <<quotes, order>>
    /\ intent' = [intent EXCEPT !.hash = auth[r], !.state = "settlement_pending"]
    /\ UNCHANGED <<terms, auth, overdue, vmQuote, people, funds, fresh, marking, mishaps>>

\* create_marketplace_order, one transaction under the locks of the intent and of the
\* owner: the offer is reserved, or the order is the one that exists already and this
\* payment takes the place of one that failed.
CreateMarketplaceOrder(r) ==
    /\ At(r, "create") /\ Registers /\ ~Locked
    /\ \/ /\ order.status = "none" /\ quotes[intent.quote] = "active"
          /\ intent.quote \notin overdue /\ Reserve(intent.quote)
          /\ intent' = [intent EXCEPT !.hash = auth[r], !.state = "settlement_pending"]
          /\ Goto(r, "check")
       \/ /\ order.status = "none"
          /\ quotes[intent.quote] # "active" \/ intent.quote \in overdue
          /\ Goto(r, "done") /\ UNCHANGED <<quotes, order, intent>>
       \/ /\ order.status # "none" /\ intent.state \in InFlight
          /\ Goto(r, IF intent.hash \in {None, auth[r]} THEN "recover" ELSE "done")
          /\ UNCHANGED <<quotes, order, intent>>
       \/ /\ order.status # "none" /\ intent.state \notin InFlight
          /\ UNCHANGED <<quotes, order>>
          /\ IF intent.state = "settled" THEN Goto(r, "check") /\ UNCHANGED intent
             ELSE /\ intent' = [intent EXCEPT !.hash = auth[r],
                                              !.state = "settlement_pending"]
                  /\ Goto(r, "recover")
    /\ UNCHANGED <<terms, auth, overdue, vmQuote, people, funds, fresh, marking, mishaps>>

\* create_order of an account: the Idempotency-Key finds the order, or the offer and
\* the VM quote are taken together with the insert.
CreateOrder(r) ==
    /\ At(r, "create") /\ ~Registers
    /\ \/ order.status # "none" /\ Goto(r, "check") /\ UNCHANGED <<quotes, order, vmQuote>>
       \/ /\ order.status = "none" /\ quotes[1] = "active" /\ 1 \notin overdue
          /\ terms.bundle => vmQuote = "CREATED"
          /\ Reserve(1) /\ Goto(r, "check")
          /\ vmQuote' = IF terms.bundle THEN "CONSUMED" ELSE vmQuote
       \/ /\ order.status = "none"
          /\ \/ quotes[1] # "active" \/ 1 \in overdue
             \/ terms.bundle /\ vmQuote # "CREATED"
          /\ Goto(r, "done") /\ UNCHANGED <<quotes, order, vmQuote>>
    /\ UNCHANGED <<terms, auth, overdue, intent, people, funds, fresh, marking, mishaps>>

----------------------------------------------------------------------------
(* The payment.                                                            *)

\* _expire_unpaid_order gives the VM quote of a bundle back.
ExpireOrder == /\ order' = [order EXCEPT !.status = "EXPIRED"]
               /\ vmQuote' \in IF terms.bundle THEN {"CREATED", "EXPIRED"} ELSE {vmQuote}

\* A replayed authorization has nothing to recover from the ledger.
Recovered(r) ==
    /\ At(r, "recover")
    /\ ledger # {} => order.status \notin Unpaid
    /\ Goto(r, "check")
    /\ UNCHANGED <<terms, auth, offer, intent, order, people, funds, fresh, marking, mishaps>>

\* An order that is not awaiting its payment is only reported; otherwise the guard is
\* entered, or finds the offer gone and expires the order.
Guard(r) ==
    /\ At(r, "check") /\ ~Locked
    /\ IF order.status # "AWAITING_PAYMENT" \/ ~enabled
       THEN Goto(r, "done") /\ UNCHANGED <<order, quotes, vmQuote>>
       ELSE IF Payable(order.quote)
       THEN Goto(r, "settle") /\ UNCHANGED <<order, quotes, vmQuote>>
       ELSE /\ ExpireOrder /\ Goto(r, "done")
            /\ quotes' = [quotes EXCEPT ![order.quote] =
                            IF order.quote \in overdue THEN "expired" ELSE @]
    /\ UNCHANGED <<terms, auth, overdue, intent, people, funds, fresh, marking, mishaps>>

\* The ledger's record of a settlement, or of a waiver.
Record(a) == ledger' = ledger \cup {a}

\* settle_verified and check_payment.  The facilitator moves the money or refuses; it
\* may also fail so that nobody knows.  The ledger write is best effort, except for the
\* event of a waiver.
Settle(r) ==
    /\ At(r, "settle")
    /\ \/ /\ auth[r] \notin charged /\ ~Waived
          /\ charged' = charged \cup {auth[r]} /\ Goto(r, "mark")
          /\ \/ Record(auth[r]) /\ Fine
             \/ GoesWrong("ledger") /\ UNCHANGED ledger
       \/ /\ Waived
          /\ Record(auth[r]) /\ Goto(r, "mark") /\ UNCHANGED charged /\ Fine
       \/ /\ Goto(r, IF Registers THEN "failed" ELSE "done") /\ Fine
          /\ UNCHANGED <<charged, ledger>>
       \/ /\ ~Waived /\ auth[r] \notin charged /\ GoesWrong("ambiguous")
          /\ charged' \in {charged, charged \cup {auth[r]}} /\ UNCHANGED ledger
          /\ Goto(r, IF Registers THEN "uncertain" ELSE "done")
    /\ UNCHANGED <<terms, auth, offer, intent, order, people, owed, fresh, marking>>

\* mark_registration_settlement writes without looking at what is there.
MarkSettlement(r) ==
    /\ pc[r] \in {"failed", "uncertain"} /\ Goto(r, "done")
    /\ intent' = IF At(r, "failed")
                 THEN [intent EXCEPT !.state = "settlement_failed", !.hash = None]
                 ELSE [intent EXCEPT !.state = "settlement_uncertain"]
    /\ UNCHANGED <<terms, auth, offer, order, people, funds, fresh, marking, mishaps>>

\* The order becomes a refund that is owed, or nothing if it was waived.
GiveBack == /\ order' = [order EXCEPT !.paid = TRUE,
                           !.status = IF Waived THEN "FAILED" ELSE "REFUND_DUE"]
            /\ owed' = IF Waived THEN owed ELSE owed + 1

\* Mutant of MarkPaid: an order that is refunded already is refunded again.
MarkPaidAgain(was) ==
    \/ /\ was = "AWAITING_PAYMENT" /\ UNCHANGED owed
       /\ order' = [order EXCEPT !.paid = TRUE, !.status = "QUEUED"]
       /\ quotes' = [quotes EXCEPT ![order.quote] = "consumed"]
    \/ /\ was \in {"EXPIRED", "REFUND_DUE"} /\ GiveBack /\ UNCHANGED quotes
    \/ /\ was \in {"QUEUED", "FAILED"} /\ UNCHANGED <<order, owed, quotes>>

\* _mark_paid under the locks of the owner and of the order: the order is queued and its
\* offer consumed, unless the waiver was revoked, the order expired, the owner was
\* disabled or the offer ran out meanwhile.  It goes by the status that it read before it
\* had the locks, as the locking select does not refresh an object the session has.
MarkPaid(was) ==
    \/ /\ was \notin Unpaid /\ UNCHANGED <<order, owed, quotes>>
    \/ /\ was = "AWAITING_PAYMENT" /\ Waived /\ ~admin
       /\ order' = [order EXCEPT !.status = "FAILED"] /\ UNCHANGED <<owed, quotes>>
    \/ /\ was = "EXPIRED" /\ GiveBack /\ UNCHANGED quotes
    \/ /\ was = "AWAITING_PAYMENT" /\ (Waived => admin) /\ ~enabled
       /\ GiveBack /\ UNCHANGED quotes
    \/ /\ was = "AWAITING_PAYMENT" /\ (Waived => admin) /\ enabled
       /\ ~Payable(order.quote) /\ GiveBack
       /\ quotes' = [quotes EXCEPT ![order.quote] =
                       IF order.quote \in overdue THEN "expired" ELSE @]
    \/ /\ was = "AWAITING_PAYMENT" /\ (Waived => admin) /\ enabled
       /\ Payable(order.quote)
       /\ quotes' = [quotes EXCEPT ![order.quote] = "consumed"]
       /\ IF terms.bundle /\ vmQuote # "CONSUMED" THEN GiveBack
          ELSE order' = [order EXCEPT !.paid = TRUE, !.status = "QUEUED"] /\ UNCHANGED owed

\* The order has got an outcome since its status was read.
NoteOverwriting(was) ==
    overwritten' = (overwritten \/ (was \in Unpaid /\ order.status \notin Unpaid))

\* A request reads the order, without a lock, to mark it paid, or because its replay of
\* the authorization finds a payment in the ledger.
Look(r) ==
    /\ \/ At(r, "mark") /\ Goto(r, "apply")
       \/ At(r, "recover") /\ ledger # {} /\ order.status \in Unpaid /\ Goto(r, "replay")
    /\ seen' = [seen EXCEPT ![r] = order.status]
    /\ UNCHANGED <<terms, auth, offer, intent, order, people, funds, fresh, scan, overwritten,
                   mishaps>>

\* It marks the order paid, in three tries.
Mark(r) ==
    /\ pc[r] \in {"apply", "replay"} /\ ~Locked /\ seen' = [seen EXCEPT ![r] = "none"]
    /\ \/ /\ MarkPaid(seen[r]) /\ NoteOverwriting(seen[r]) /\ Fine
          /\ Goto(r, IF At(r, "replay") THEN "check" ELSE IF Registers THEN "flag" ELSE "done")
       \/ /\ GoesWrong("error") /\ Goto(r, "done")
          /\ UNCHANGED <<order, owed, quotes, overwritten>>
    /\ UNCHANGED <<terms, auth, overdue, vmQuote, intent, people, charged, ledger, fresh, scan>>

\* mark_registration_paid flags the intent in a transaction of its own.
Flag(r) ==
    /\ At(r, "flag") /\ Goto(r, "done")
    /\ \/ intent' = [intent EXCEPT !.state = "settled"] /\ Fine
       \/ GoesWrong("error") /\ UNCHANGED intent
    /\ UNCHANGED <<terms, auth, offer, order, people, funds, fresh, marking>>

Crash(r) ==
    /\ pc[r] \notin {"idle", "done"} /\ GoesWrong("crash") /\ Goto(r, "done")
    /\ fresh' = [fresh EXCEPT ![r] = Nothing] /\ seen' = [seen EXCEPT ![r] = "none"]
    /\ UNCHANGED <<terms, auth, offer, intent, order, people, funds, scan, overwritten>>

----------------------------------------------------------------------------
(* The workers, the administrator and the clock.                           *)

\* recover_x402_handoffs finds a settled event of the ledger whose order is unpaid ...
RecoverLook ==
    /\ ledger # {} /\ scan = "none" /\ order.status \in Unpaid /\ scan' = order.status
    /\ UNCHANGED <<terms, auth, offer, intent, order, people, funds, pc, fresh, seen,
                   overwritten, mishaps>>

\* ... and applies it ...
RecoverMark ==
    /\ scan # "none" /\ ~Locked /\ scan' = "none"
    /\ MarkPaid(scan) /\ NoteOverwriting(scan)
    /\ UNCHANGED <<terms, auth, overdue, vmQuote, intent, people, charged, ledger, pc,
                   fresh, seen, mishaps>>

\* Mutant of RecoverFlag: the intent is flagged only with an order that was recovered.
RecoverFlagNever ==
    /\ FALSE
    /\ UNCHANGED vars

\* ... and flags the registration, also when the order needed nothing.
RecoverFlag ==
    /\ ledger # {} /\ Registers /\ intent.state # "settled"
    /\ order.status \notin Unpaid
    /\ intent' = [intent EXCEPT !.state = "settled"]
    /\ UNCHANGED <<terms, auth, offer, order, people, funds, pc, fresh, marking, mishaps>>

\* expire_quotes: offers past their time and the unpaid orders that hold them.
ExpireQuotes ==
    /\ ~Locked
    /\ \E q \in overdue : quotes[q] \in {"active", "reserved"}
    /\ IF /\ order.status = "AWAITING_PAYMENT" /\ order.quote \in overdue
          /\ quotes[order.quote] \in {"active", "reserved"}
       THEN ExpireOrder ELSE UNCHANGED <<order, vmQuote>>
    /\ quotes' = [q \in QuoteIds |-> IF q \in overdue /\ quotes[q] \in {"active", "reserved"}
                                     THEN "expired" ELSE quotes[q]]
    /\ UNCHANGED <<terms, auth, overdue, intent, people, funds, pc, fresh, marking, mishaps>>

Overdue(q) ==
    /\ quotes[q] # "none" /\ q \notin overdue /\ overdue' = overdue \cup {q}
    /\ UNCHANGED <<terms, auth, quotes, vmQuote, intent, order, people, funds, pc, fresh, marking,
                   mishaps>>

\* Mutant of Disable: the disable does not take the lifecycle lock.
DisableAnytime ==
    /\ enabled /\ enabled' = FALSE
    /\ UNCHANGED <<terms, auth, offer, intent, order, admin, funds, pc, fresh, marking, mishaps>>

\* An administrator disables the owner, under the exclusive lifecycle lock.
Disable ==
    /\ enabled /\ ~Locked /\ enabled' = FALSE
    /\ UNCHANGED <<terms, auth, offer, intent, order, admin, funds, pc, fresh, marking, mishaps>>

\* An administrator enables the owner again.
Enable ==
    /\ ~enabled /\ enabled' = TRUE
    /\ UNCHANGED <<terms, auth, offer, intent, order, admin, funds, pc, fresh, marking, mishaps>>

\* The actor of the waiver is demoted.
Revoke ==
    /\ Waived /\ admin /\ admin' = FALSE
    /\ UNCHANGED <<terms, auth, offer, intent, order, enabled, funds, pc, fresh, marking, mishaps>>

Init ==
    /\ terms \in [kind : Kinds, billing : Billing, bundle : Bundles]
    /\ terms.kind = "registration" => terms.billing = "charged" /\ ~terms.bundle
    /\ auth \in Retries
    /\ quotes = [q \in QuoteIds |-> "none"] /\ overdue = {} /\ vmQuote = "CREATED"
    /\ intent = NoIntent /\ order = NoOrder
    /\ enabled = TRUE /\ admin = TRUE
    /\ charged = {} /\ ledger = {} /\ owed = 0
    /\ pc = [r \in Requests |-> "idle"] /\ fresh = [r \in Requests |-> Nothing]
    /\ seen = [r \in Requests |-> "none"] /\ scan = "none" /\ overwritten = FALSE
    /\ mishaps = 0

Request(r) ==
    \/ Prepare(r) \/ Rebind(r) \/ Verify(r) \/ CreateMarketplaceOrder(r) \/ CreateOrder(r)
    \/ Recovered(r) \/ Guard(r) \/ Settle(r) \/ MarkSettlement(r) \/ Look(r) \/ Mark(r)
    \/ Flag(r)

Next ==
    \/ \E r \in Requests : Request(r) \/ Crash(r)
    \/ RecoverLook \/ RecoverMark \/ RecoverFlag \/ ExpireQuotes
    \/ Disable \/ Enable \/ Revoke
    \/ \E q \in QuoteIds : Overdue(q)

Spec == Init /\ [][Next]_vars

\* Handlers run on, and the worker's scan of the ledger comes round again.
Fairness == /\ \A r \in Requests : WF_vars(Request(r))
            /\ WF_vars(RecoverLook) /\ WF_vars(RecoverMark) /\ WF_vars(RecoverFlag)
            /\ WF_vars(ExpireQuotes)

FairSpec == Spec /\ Fairness

----------------------------------------------------------------------------
(* Properties.                                                             *)

QuoteStates == {"none", "active", "reserved", "consumed", "expired"}
IntentRows == [quote : 0..MaxQuotes, hash : Auths \cup {None},
               state : {"awaiting_payment", "settled", "settlement_failed"} \cup InFlight]
OrderStates == {"none", "AWAITING_PAYMENT", "EXPIRED", "QUEUED", "REFUND_DUE", "FAILED"}
OrderRows == [status : OrderStates,
              quote : 0..MaxQuotes, paid : BOOLEAN]

\* Where a request is bound to the order: from its creation until the outcome is written.
Bound == {"recover", "replay", "check", "settle", "failed", "uncertain", "mark", "apply", "flag"}
\* Where its authorization has not been charged.
Before == {"idle", "rebind", "verify", "create", "recover", "replay", "check", "settle", "failed"}
Places == Before \cup Bound \cup {"done"}

\* Besides the types: an intent and its order never name different offers, although an
\* offer that ran out is replaced by any request that finds it so.
TypeOK ==
    /\ (Registers /\ order.status # "none") => order.quote = intent.quote
    /\ order.status # "none" => order.quote # 0
    /\ terms \in [kind : {"registration", "order"}, billing : {"charged", "admin_waived"},
                  bundle : BOOLEAN]
    /\ Registers => ~Waived /\ ~terms.bundle
    /\ pc \in [Requests -> Places]
    /\ quotes \in [QuoteIds -> QuoteStates]
    /\ overdue \subseteq QuoteIds /\ vmQuote \in {"CREATED", "CONSUMED", "EXPIRED"}
    /\ intent \in IntentRows /\ order \in OrderRows
    /\ {enabled, admin} \subseteq BOOLEAN
    /\ charged \subseteq Auths /\ ledger \subseteq Auths /\ owed \in Nat
    /\ auth \in [Requests -> Auths] /\ fresh \in [Requests -> (0..MaxQuotes) \X (0..MaxQuotes)]
    /\ seen \in [Requests -> OrderStates] /\ scan \in OrderStates /\ overwritten \in BOOLEAN
    /\ mishaps \in 0..MaxMishaps

\* An order is queued for the registrar only with its own offer consumed and somebody's
\* money or waiver behind it, whoever raced for it (_mark_paid, create_order,
\* create_marketplace_order, expire_quotes).
QueuedIsPaid ==
    order.status = "QUEUED" =>
        /\ quotes[order.quote] = "consumed" /\ order.paid
        /\ charged # {} \/ (Waived /\ ledger # {})

\* A refund is owed exactly when the order says so, and once: the request, its retry and
\* the worker may all try to apply the same payment.  Excepted is a marking that goes by a
\* status read before another one gave the order its outcome (_mark_paid).
OwedOnce == /\ ~overwritten => owed <= 1 /\ ((owed = 1) <=> (order.status = "REFUND_DUE"))
            /\ owed > 0 => charged # {}

\* Every request has an authorization of its own.
Unshared == \A r, s \in Requests : auth[r] = auth[s] => r = s

\* However often a marketplace buyer retries with fresh authorizations, at most one of
\* them is charged, also when nobody knows how its settlement ended
\* (create_marketplace_order, x402_payment_guard, mark_registration_settlement).
\* Requests that share an authorization are excepted: the refusal of one of them unbinds
\* it while another may still settle it.
RegistrationChargedOnce ==
    Registers /\ Unshared => Cardinality(charged) <= 1

\* The VM quote of a bundle is held while the order can still be fulfilled, and given
\* back with an order that expired unpaid (create_order, _expire_unpaid_order).
BundleQuoteFollowsOrder ==
    terms.bundle =>
        /\ order.status \in {"AWAITING_PAYMENT", "QUEUED"} => vmQuote = "CONSUMED"
        /\ order.status \in {"none", "EXPIRED"} => vmQuote # "CONSUMED"

Final == order.status \in {"QUEUED", "REFUND_DUE", "FAILED"}

\* What a request may rely on where it is: the intent it prepared has an offer, the order it
\* created is there, and from the guard to the settlement the order awaits its payment and its
\* owner is enabled (x402_payment_guard holds the locks); money was moved before it is marked.
RequestsRely ==
    /\ \A r \in Requests :
         /\ Registers /\ pc[r] \notin {"idle", "done"} => intent.quote # 0
         /\ At(r, "rebind") => Replacement(r) # 0
         /\ pc[r] \in Bound => order.status # "none"
         /\ At(r, "settle") => order.status = "AWAITING_PAYMENT" /\ enabled
         /\ pc[r] \in {"mark", "apply", "replay"} => charged # {} \/ (Waived /\ ledger # {})
         /\ pc[r] \in {"apply", "replay"} => seen[r] # "none"
         /\ seen[r] \notin Unpaid \cup {"none"} => Final
         /\ At(r, "flag") => Final
    /\ charged # {} => order.status # "none"
    /\ ledger # {} => order.status # "none" /\ (charged # {} \/ Waived)
    /\ scan # "none" => ledger # {} /\ scan \in Unpaid
    /\ intent.state = "settled" => Final

\* A registration that no payment has ended is bound to one authorization: the one whose request
\* is anywhere between the order and its outcome, and the only one that may have been charged,
\* until its request reports that it was refused (create_marketplace_order,
\* mark_registration_settlement).  This is why RegistrationChargedOnce holds.
BoundToOne ==
    Registers /\ Unshared =>
        /\ \A r \in Requests : pc[r] \in Before => auth[r] \notin charged
        /\ \A a, b \in charged : a = b
        /\ ~Final => /\ \A r \in Requests : pc[r] \in Bound => intent.hash = auth[r]
                     /\ charged \subseteq {intent.hash}
                     /\ intent.state \in InFlight <=> intent.hash # None

\* What holds of an order, its quote, its money and its bundle together.
OrderInv == TypeOK /\ QueuedIsPaid /\ OwedOnce /\ BundleQuoteFollowsOrder /\ RequestsRely /\ BoundToOne

\* The owner's account is enabled in the moment the money moves (x402_payment_guard).
ChargedWhileEnabled == [][charged' # charged => enabled]_vars

\* A payment that the ledger knows of is applied to the order in the end, also when the
\* request died, the order expired meanwhile or the owner was disabled.
RecordedPaymentApplied ==
    (ledger # {}) ~> order.status \in {"QUEUED", "REFUND_DUE", "FAILED"}

\* The registration's public state converges to settled although every request
\* overwrites it without a look (mark_registration_settlement, recover_x402_handoffs).
SettlementConverges == (Registers /\ ledger # {}) ~> [](intent.state = "settled")

\* Both: a recorded payment reaches the order and the registration's state, for good.
PaymentConverges == RecordedPaymentApplied /\ SettlementConverges

=============================================================================
