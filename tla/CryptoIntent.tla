---------------------------- MODULE CryptoIntent ----------------------------
(***************************************************************************)
(* One native-crypto payment intent (BTC or XMR), from the address that is *)
(* handed out to the VM or domain order it pays for, or to the refund that *)
(* is owed for it.                                                         *)
(*                                                                         *)
(* Worker processes (Pollers) run scan_pending_intents.  Each one does one *)
(* thing at a time: it polls the address and applies what it saw, hands a  *)
(* settled intent over to a VM or to a domain order, or recovers a handoff *)
(* that another process left.  Every database transaction is one step; the *)
(* handoff is many transactions, so two processes interleave within it,    *)
(* and provisioning_triggered_at is the token that fences the slower one.  *)
(*                                                                         *)
(* The provisioning attempt of the VM is a process of its own (Attempt),   *)
(* reduced to its clone, its end and its refund, and so is the sweeper of  *)
(* unpaid reservations (Sweeper).  The clock is reduced to what the code   *)
(* compares it with: the end of the rate snapshot, the end of the address  *)
(* window, and the age of the token.                                       *)
(***************************************************************************)
EXTENDS Integers, Sequences, SequencesExt

CONSTANTS
    Pollers,       \* worker processes
    Fleets,        \* the sets of them a deployment may run
    None,          \* no fresh rate, no scan
    Assets,        \* which of "BTC" and "XMR" are used
    Resources,     \* what intents pay for, of "vm" and "domain_order"
    Target,        \* amount_crypto of the intent
    Amounts,       \* what a customer may send at once
    FreshTargets,  \* amount_usd at the rates a re-quote may find
    \* Bounds of the model.
    MaxDeposits,   \* deposits on the address
    MaxToken,      \* the trigger and the recovery leases
    Mishaps,       \* what may go wrong, of "error", "crash" and "lost"
    LostAt,        \* the commits whose acknowledgement may get lost
    MaxMishaps     \* how often, in all, something goes wrong

Attempt == "attempt"
Sweeper == "sweeper"
Workers == Pollers \cup {Attempt, Sweeper}

ASSUME PollersDistinct == Attempt \notin Pollers /\ Sweeper \notin Pollers
ASSUME FleetsOfPollers == Fleets \subseteq SUBSET Pollers
ASSUME AmountsPositive == /\ Target \in Nat \ {0}
                          /\ Amounts \subseteq Nat \ {0}
                          /\ FreshTargets \subseteq Nat \ {0}
                          /\ None \notin FreshTargets
ASSUME TermsAreKnown == Assets \subseteq {"BTC", "XMR"} /\ Resources \subseteq {"vm", "domain_order"}
ASSUME BoundsAreNumbers == MaxToken \in Nat \ {0} /\ MaxMishaps \in Nat

VARIABLES
    terms,      \* what the row fixes: asset, resource_type, quote_id, domain_mode; and which
                \* workers there are
    chain,      \* deposits on the address, oldest first
    late,       \* rate_valid_until has passed
    expired,    \* expires_at has passed
    status,     \* CryptoIntentRow.status
    token,      \* provisioning_triggered_at; 0 is NULL
    ripe,       \* the token is older than VM_PROVISIONING_RECOVERY_DELAY
    planned,    \* CryptoIntentRow.vm_id is set
    owed,       \* refund_owed rows of this intent in the ledger
    vm,         \* the planned VM's row
    guest,      \* a guest was cloned for it and runs
    quote,      \* VMQuoteRow.status
    attached,   \* DomainRow.vm_id names the planned VM
    order,      \* DomainOrderRow.status
    pc,         \* where each worker is
    loc,        \* its local variables
    mishaps     \* what MaxMishaps counts

intent == <<status, token, ripe, planned>>
clock == <<late, expired>>
resource == <<vm, guest, quote, attached, order>>
workers == <<pc, loc>>
vars == <<terms, chain, clock, intent, owed, resource, workers, mishaps>>

\* What a worker knows: the scan, the token it holds, how it came here, whether
\* it made the reservation and the domain claim, what the refund transaction
\* read, and whether the domain order became a refund.
Fresh == [total |-> 0, deep |-> FALSE, token |-> 0, mode |-> "none",
          reserved |-> FALSE, claimed |-> FALSE,
          wasOwed |-> FALSE, wasDone |-> FALSE, wasAwaiting |-> FALSE, due |-> FALSE]

Terminal == {"PROVISIONED", "PROVISIONING", "REFUND_MANUAL", "FAILED", "EXPIRED"}

----------------------------------------------------------------------------
(* Steps.                                                                  *)

At(p, place) == pc[p] = place

\* A call that returns takes its local variables with it.
Move(p, place, knows) ==
    /\ pc' = [pc EXCEPT ![p] = place]
    /\ loc' = [loc EXCEPT ![p] = IF place = "idle" THEN Fresh ELSE knows]

Goto(p, place) == Move(p, place, loc[p])

\* Worker p turns to a part of the handoff that is entered in several ways.
Turn(p, mode, place) == Move(p, place, [loc[p] EXCEPT !.mode = mode])

Fine == UNCHANGED mishaps
GoesWrong(kind) == /\ kind \in Mishaps /\ mishaps < MaxMishaps
                   /\ mishaps' = mishaps + 1

\* A transaction of the handoff is acknowledged and p goes on, or it commits
\* and p only sees an exception.
Onward(p, here, place) ==
    \/ Goto(p, place) /\ Fine
    \/ here \in LostAt /\ GoesWrong("lost") /\ Turn(p, "error", "refund")

\* _NativeHandoffFencedError.
Fenced(p) == Turn(p, "fence", "release") /\ Fine

----------------------------------------------------------------------------
(* The customer, the chain and the clock.                                  *)

\* _load_payable_native_quote.
Payable == terms.quoted => quote = "CREATED"

\* create_intent inserts the row, with an address of its own.  A request that repeats the
\* client_order_id is answered with the row there is.
InsertIntent ==
    /\ status = "none" /\ status' = "CREATED"
    /\ UNCHANGED <<terms, chain, clock, token, ripe, planned, owed, resource, workers, mishaps>>

\* create_crypto_intent, for a VM.
CreateIntent == terms.resource = "vm" /\ Payable /\ InsertIntent

\* _ensure_native_order_intent, for a domain order.  It does not look at the order again,
\* which may have expired since it was inserted.
EnsureOrderIntent == terms.resource = "domain_order" /\ InsertIntent

Deposit(a) ==
    /\ status # "none" /\ Len(chain) < MaxDeposits
    /\ chain' = Append(chain, [amount |-> a, deep |-> FALSE])
    /\ UNCHANGED <<terms, clock, intent, owed, resource, workers, mishaps>>

Confirm(i) ==
    /\ ~chain[i].deep
    /\ chain' = [chain EXCEPT ![i].deep = TRUE]
    /\ UNCHANGED <<terms, clock, intent, owed, resource, workers, mishaps>>

\* rate_valid_until is never later than expires_at.
ClockAdvances ==
    /\ status # "none"
    /\ \/ ~late /\ late' = TRUE /\ UNCHANGED <<expired, ripe>>
       \/ late /\ ~expired /\ expired' = TRUE /\ UNCHANGED <<late, ripe>>
       \/ token # 0 /\ ~ripe /\ ripe' = TRUE /\ UNCHANGED clock
    /\ UNCHANGED <<terms, chain, status, token, planned, owed, resource, workers, mishaps>>

----------------------------------------------------------------------------
(* Polling the address.                                                    *)

Total(deposits) == FoldSeq(LAMBDA d, sum : d.amount + sum, 0, deposits)

\* scan_btc_address counts the mempool and takes the confirmations of the
\* newest transaction, unconfirmed ones first; scan_xmr_subaddress takes the
\* highest confirmation count of all transfers.
Confirmed ==
    IF terms.asset = "BTC" THEN chain # <<>> /\ \A i \in DOMAIN chain : chain[i].deep
                           ELSE \E i \in DOMAIN chain : chain[i].deep

WithinSlippage(actual, target) ==
    100 * (actual - target) <= target /\ 100 * (target - actual) <= target

\* _decide_status: fresh is the target at the current rate once the snapshot
\* has run out, or None.
Decide(s, fresh) ==
    IF s.total = 0 \/ ~s.deep THEN "WAITING_PAYMENT"
    ELSE IF (IF fresh # None THEN WithinSlippage(s.total, fresh)
                             ELSE 1000 * s.total >= 999 * Target)
         THEN "SETTLED" ELSE "REFUND_MANUAL"

\* scan_pending_intents selects the intents that wait for money.
Listed(p) ==
    /\ At(p, "idle") /\ status \in {"CREATED", "WAITING_PAYMENT"}
    /\ Goto(p, "poll")
    /\ UNCHANGED <<terms, chain, clock, intent, owed, resource, mishaps>>

\* poll_one_intent up to the result of the network scan.  A failed scan
\* changes nothing, as if p had not been here.
Poll(p) ==
    /\ At(p, "poll")
    /\ IF status \in Terminal
       THEN Goto(p, "idle")
       ELSE Move(p, "apply", [loc[p] EXCEPT !.total = Total(chain), !.deep = Confirmed])
    /\ UNCHANGED <<terms, chain, clock, intent, owed, resource, mishaps>>

\* _maybe_requote: the rate service may have no answer.
FreshTarget == IF late THEN FreshTargets \cup {None} ELSE {None}

\* _apply_intent_scan, one transaction under the row lock.
Apply(p) ==
    /\ At(p, "apply")
    /\ \/ status \in Terminal /\ status' = status /\ Goto(p, "idle")
       \/ /\ status \notin Terminal /\ expired /\ loc[p].total = 0
          /\ status' = "EXPIRED" /\ Goto(p, "idle")
       \/ /\ status \notin Terminal /\ ~(expired /\ loc[p].total = 0)
          /\ \E fresh \in FreshTarget : status' = Decide(loc[p], fresh)
          /\ Goto(p, IF status' = "SETTLED" THEN "trigger" ELSE "idle")
    /\ UNCHANGED <<terms, chain, clock, token, ripe, planned, owed, resource, mishaps>>

HandOver(p) ==
    /\ token' = token + 1 /\ ripe' = FALSE /\ status' = "PROVISIONING"
    /\ Move(p, IF terms.resource = "vm" THEN "plan" ELSE "handoff",
            [Fresh EXCEPT !.token = token + 1, !.mode = "trigger"])

\* _trigger_provisioning: UPDATE ... WHERE provisioning_triggered_at IS NULL.
Trigger(p) ==
    /\ At(p, "trigger")
    /\ \/ token = 0 /\ HandOver(p)
       \/ token # 0 /\ Goto(p, "idle") /\ UNCHANGED <<token, ripe, status>>
    /\ UNCHANGED <<terms, chain, clock, planned, owed, resource, mishaps>>

----------------------------------------------------------------------------
(* Handing a settled intent over to a VM.                                  *)

\* A step of the handoff that leaves the intent, the ledger and p's locals.
Quiet == UNCHANGED <<terms, chain, clock, intent, owed>>

\* _persist_planned_vm_id.
Plan(p) ==
    /\ At(p, "plan")
    /\ planned' = TRUE /\ Goto(p, "check1")
    /\ UNCHANGED <<terms, chain, clock, status, token, ripe, owed, resource, mishaps>>

\* Where each _require_current_vm_handoff lets a worker go on.
AfterCheck(place) ==
    CASE place = "check1" -> "quote"
      [] place = "check2" -> "reserve"
      [] place = "check3" -> IF terms.custom THEN "claim" ELSE "activate"
      [] place = "check4" -> "activate"
      [] place = "check5" -> "link"
Checks == {"check1", "check2", "check3", "check4", "check5"}

\* _require_current_vm_handoff.
Check(p) ==
    /\ pc[p] \in Checks
    /\ IF status = "PROVISIONING" /\ token = loc[p].token
       THEN Goto(p, AfterCheck(pc[p])) /\ Fine
       ELSE Fenced(p)
    /\ Quiet /\ UNCHANGED resource

\* The quote is consumed for this order.  A missing, expired, foreign or already
\* consumed quote is refunded, and so is a custom domain nobody can attach.
Quote(p) ==
    /\ At(p, "quote")
    /\ \/ terms.quoted /\ quote' = quote /\ Turn(p, "return", "refund")
       \/ /\ terms.quoted => quote = "CREATED"
          /\ quote' = IF terms.quoted THEN "CONSUMED" ELSE quote
          /\ \/ Goto(p, "check2")
             \/ terms.custom /\ Turn(p, "return", "refund")
    /\ Quiet /\ UNCHANGED <<vm, guest, attached, order, mishaps>>

\* Another payment consumes the quote (claim_quote from an x402 checkout).
QuoteTaken ==
    /\ terms.quoted /\ quote = "CREATED" /\ quote' = "CONSUMED"
    /\ Quiet /\ UNCHANGED <<vm, guest, attached, order, workers, mishaps>>

\* reserve_vm_with_capacity: an unpaid row, or a refusal because the account is
\* disabled or nothing is free.
Reserve(p) ==
    /\ At(p, "reserve")
    /\ \/ /\ vm' = IF vm = "none" THEN "reserved" ELSE vm
          /\ \/ Move(p, "check3", [loc[p] EXCEPT !.reserved = TRUE]) /\ Fine
             \/ "reserve" \in LostAt /\ GoesWrong("lost") /\ Turn(p, "error", "refund")
       \/ vm' = vm /\ Turn(p, "return", "refund") /\ Fine
    /\ Quiet /\ UNCHANGED <<guest, quote, attached, order>>

\* claim_vm_attachment for a custom domain.
ClaimDomain(p) ==
    /\ At(p, "claim")
    /\ \/ attached' = TRUE /\ Move(p, "check4", [loc[p] EXCEPT !.claimed = TRUE])
       \/ attached' = attached /\ Turn(p, "return", "giveup")
    /\ Quiet /\ UNCHANGED <<vm, guest, quote, order, mishaps>>

\* activate_vm_reservation: the row becomes a paid one whose dispatch is pending.
\* A vanished row is an error, a disabled owner a refund.
Activate(p) ==
    /\ At(p, "activate")
    /\ \/ /\ vm # "none" /\ vm' = (IF vm = "reserved" THEN "pending" ELSE vm)
          /\ attached' = attached /\ Onward(p, "activate", "check5")
       \/ vm = "none" /\ UNCHANGED <<vm, attached>> /\ Turn(p, "error", "refund") /\ Fine
       \/ /\ vm # "none" /\ vm' = vm
          /\ attached' = (attached /\ ~loc[p].claimed)
          /\ Turn(p, "return", "giveup") /\ Fine
    /\ Quiet /\ UNCHANGED <<guest, quote, order>>

\* The compare-and-set that makes the intent PROVISIONED.
Link(p) ==
    /\ At(p, "link")
    /\ IF status = "PROVISIONING" /\ token = loc[p].token
       THEN status' = "PROVISIONED" /\ Onward(p, "link", "start")
       ELSE status' = status /\ Fenced(p)
    /\ UNCHANGED <<terms, chain, clock, token, ripe, planned, owed, resource>>

\* start_provisioning: the handoff is published; the attempt is dispatched here
\* or by recover_tracked_provisioning.
Start(p) ==
    /\ At(p, "start")
    /\ vm' = IF vm = "pending" THEN "ready" ELSE vm
    /\ Onward(p, "start", "idle")
    /\ Quiet /\ UNCHANGED <<guest, quote, attached, order>>

Handoff == {"plan", "quote", "reserve", "claim", "activate", "link", "start"} \cup Checks

\* Any call of the handoff may raise: the refund is recorded, then cleanup.
HandoffRaises(p) ==
    /\ pc[p] \in Handoff /\ GoesWrong("error")
    /\ IF At(p, "claim") THEN Turn(p, "return", "giveup") ELSE Turn(p, "error", "refund")
    /\ Quiet /\ UNCHANGED resource

----------------------------------------------------------------------------
(* Refund and cleanup.                                                     *)

\* record_native_intent_refund reads without a row lock ...
RefundRead(p) ==
    /\ At(p, "refund")
    /\ Move(p, "owe", [loc[p] EXCEPT !.wasOwed = owed > 0,
                                     !.wasDone = status = "REFUND_MANUAL",
                                     !.wasAwaiting = order = "awaiting_payment"])
    /\ Quiet /\ UNCHANGED <<resource, mishaps>>

AfterRefund(p) == IF loc[p].mode = "error" /\ loc[p].reserved THEN "release" ELSE "idle"

\* ... and writes the status, the obligation and the order in one transaction.
Owe(p) ==
    /\ At(p, "owe")
    /\ status' = IF loc[p].wasDone THEN status ELSE "REFUND_MANUAL"
    /\ owed' = IF loc[p].wasOwed THEN owed ELSE owed + 1
    /\ order' = IF loc[p].wasAwaiting THEN "refund_due" ELSE order
    /\ Goto(p, AfterRefund(p))
    /\ UNCHANGED <<terms, chain, clock, token, ripe, planned, vm, guest, quote, attached, mishaps>>

\* The refund cannot be written.  An early return becomes an error, an error
\* marks the intent FAILED, recovery tries again after its lease.
RefundRaises(p) ==
    /\ pc[p] \in {"refund", "owe"} /\ GoesWrong("error")
    /\ status' = IF loc[p].mode = "error" THEN "FAILED" ELSE status
    /\ IF loc[p].mode = "return" THEN Turn(p, "error", "refund") ELSE Goto(p, AfterRefund(p))
    /\ UNCHANGED <<terms, chain, clock, token, ripe, planned, owed, resource>>

\* release_vm_reservation, also when it is called before a refund (giveup), reads
\* the row without a lock ...
Release(p) ==
    /\ pc[p] \in {"release", "giveup"}
    /\ Goto(p, CASE vm = "reserved" /\ At(p, "release") -> "erase"
                 [] vm = "reserved" /\ At(p, "giveup") -> "discard"
                 [] vm # "reserved" /\ At(p, "release") -> "fail"
                 [] vm # "reserved" /\ At(p, "giveup") -> "refund")
    /\ Quiet /\ UNCHANGED <<resource, mishaps>>

\* ... and deletes it by its key, whatever it has become.
Erase(p) ==
    /\ pc[p] \in {"erase", "discard"}
    /\ vm' = "none" /\ attached' = FALSE
    /\ Goto(p, IF At(p, "erase") THEN "fail" ELSE "refund")
    /\ Quiet /\ UNCHANGED <<guest, quote, order, mishaps>>

\* mark_vm_failed reads the row without a lock ...
MarkFailed(p) ==
    /\ At(p, "fail")
    /\ Goto(p, IF vm \in {"none", "failed", "released"} THEN "unclaim" ELSE "free")
    /\ Quiet /\ UNCHANGED <<resource, mishaps>>

\* ... and writes FAILED and gives its /64 back (released).  A row that is gone
\* by then is an exception: the cleanup goes on, a recovery ends.
FreePrefix(p) ==
    /\ At(p, "free")
    /\ \/ vm # "none" /\ vm' = "released" /\ attached' = FALSE /\ Goto(p, "unclaim")
       \/ /\ vm = "none" /\ UNCHANGED <<vm, attached>>
          /\ Goto(p, IF loc[p].mode = "recover" THEN "idle" ELSE "unclaim")
    /\ Quiet /\ UNCHANGED <<guest, quote, order, mishaps>>

\* release_vm_attachment_claim; recovery goes on to the refund.
Unclaim(p) ==
    /\ At(p, "unclaim")
    /\ attached' = (attached /\ ~(loc[p].claimed \/ (loc[p].mode = "recover" /\ terms.custom)))
    /\ Goto(p, IF loc[p].mode = "recover" THEN "refund" ELSE "idle")
    /\ Quiet /\ UNCHANGED <<vm, guest, quote, order, mishaps>>

\* check_expiries selects the reservations nobody paid for ...
SelectReservation ==
    /\ At(Sweeper, "idle") /\ vm = "reserved" /\ Goto(Sweeper, "purge")
    /\ Quiet /\ UNCHANGED <<resource, mishaps>>

\* ... detaches their domains, and deletes those that are still unpaid.
PurgeReservation ==
    /\ At(Sweeper, "purge") /\ Goto(Sweeper, "idle")
    /\ vm' = IF vm = "reserved" THEN "none" ELSE vm
    /\ attached' = FALSE
    /\ Quiet /\ UNCHANGED <<guest, quote, order, mishaps>>

\* Mutant: recovery leaves the token as it is.
RecoverUnfenced(p) ==
    /\ At(p, "idle") /\ p # Attempt
    /\ status = "PROVISIONING" /\ terms.resource = "vm" /\ ripe
    /\ ripe' = FALSE
    /\ Turn(p, "recover", IF planned THEN "release" ELSE "refund")
    /\ UNCHANGED <<terms, chain, clock, token, status, planned, owed, resource, mishaps>>

\* _recover_interrupted_vm_provisioning: a lease on a stale handoff.
Recover(p) ==
    /\ At(p, "idle") /\ p # Attempt
    /\ status = "PROVISIONING" /\ terms.resource = "vm" /\ ripe
    /\ token < MaxToken /\ token' = token + 1 /\ ripe' = FALSE
    /\ Turn(p, "recover", IF planned THEN "release" ELSE "refund")
    /\ UNCHANGED <<terms, chain, clock, status, planned, owed, resource, mishaps>>

----------------------------------------------------------------------------
(* The provisioning attempt.                                               *)

\* _spawn_provisioning, from start_provisioning or recover_tracked_provisioning.
Dispatch ==
    /\ At(Attempt, "idle") /\ vm = "ready" /\ status # "PROVISIONING"
    /\ Goto(Attempt, "clone")
    /\ Quiet /\ UNCHANGED <<resource, mishaps>>

\* The status is checked when the attempt begins and when it ends, not before
\* the clone.
Clone ==
    /\ At(Attempt, "clone") /\ Goto(Attempt, "await")
    /\ guest' = TRUE
    /\ Quiet /\ UNCHANGED <<vm, quote, attached, order, mishaps>>

\* The guest reports success, or the attempt fails: it stops the guest, marks
\* the row FAILED, releases the domain and records the refund.
Conclude ==
    /\ \/ /\ At(Attempt, "await") /\ vm = "ready" /\ vm' = "delivered"
          /\ UNCHANGED <<guest, attached>> /\ Goto(Attempt, "idle")
       \/ /\ pc[Attempt] \in {"clone", "await"} /\ vm = "ready" /\ vm' = "failed"
          /\ guest' = FALSE /\ attached' = FALSE /\ Goto(Attempt, "refund")
       \/ /\ pc[Attempt] \in {"clone", "await"} /\ vm # "ready" /\ Goto(Attempt, "idle")
          /\ UNCHANGED <<vm, guest, attached>>
    /\ Quiet /\ UNCHANGED <<quote, order, mishaps>>

----------------------------------------------------------------------------
(* Handing a settled intent over to a domain order.                        *)

\* Mutant: an order that is refunded already is refunded again.
MarkPaidAgain(p) ==
    /\ At(p, "handoff")
    /\ \/ order = "awaiting_payment" /\ order' = "queued" /\ owed' = owed
       \/ order # "queued" /\ order' = "refund_due" /\ owed' = owed + 1
       \/ order = "queued" /\ UNCHANGED <<order, owed>>
    /\ Move(p, "settle", [loc[p] EXCEPT !.due = order' = "refund_due"]) /\ Fine
    /\ UNCHANGED <<terms, chain, clock, intent, vm, guest, quote, attached>>

\* native_order_settled (_mark_paid): the order is queued for registration, or
\* becomes a refund because it expired, its quote is gone or its owner disabled.
\* A queued or refunded order is returned as it is.
MarkPaid(p) ==
    /\ At(p, "handoff")
    /\ \/ order = "awaiting_payment" /\ order' = "queued" /\ owed' = owed
       \/ /\ order \in {"awaiting_payment", "expired"}
          /\ order' = "refund_due" /\ owed' = owed + 1
       \/ order \in {"queued", "refund_due"} /\ UNCHANGED <<order, owed>>
    /\ \/ Move(p, "settle", [loc[p] EXCEPT !.due = order' = "refund_due"]) /\ Fine
       \/ /\ "handoff" \in LostAt /\ GoesWrong("lost")
          /\ Goto(p, IF loc[p].mode = "trigger" THEN "reread" ELSE "idle")
    /\ UNCHANGED <<terms, chain, clock, intent, vm, guest, quote, attached>>

\* The call raises before its commit.
MarkPaidRaises(p) ==
    /\ At(p, "handoff") /\ GoesWrong("error")
    /\ Goto(p, IF loc[p].mode = "trigger" THEN "reread" ELSE "idle")
    /\ Quiet /\ UNCHANGED resource

\* The intent follows the order; recovery only while it is still PROVISIONING.
SettleOrder(p) ==
    /\ At(p, "settle") /\ Goto(p, "idle")
    /\ status' = IF loc[p].mode = "trigger" \/ status = "PROVISIONING"
                 THEN IF loc[p].due THEN "REFUND_MANUAL" ELSE "PROVISIONED"
                 ELSE status
    /\ UNCHANGED <<terms, chain, clock, token, ripe, planned, owed, resource, mishaps>>

\* After an exception the order is read again before a refund is recorded.
Reread(p) ==
    /\ At(p, "reread")
    /\ \/ order = "awaiting_payment" /\ status' = status /\ Turn(p, "domain", "refund")
       \/ /\ order # "awaiting_payment" /\ Goto(p, "idle")
          /\ status' = IF order = "refund_due" THEN "REFUND_MANUAL" ELSE "PROVISIONED"
    /\ UNCHANGED <<terms, chain, clock, token, ripe, planned, owed, resource, mishaps>>

\* Mutant: an interrupted domain handoff is not taken up.
ResumeNothing(p) == FALSE

\* _resume_domain_handoff.
ResumeOrder(p) ==
    /\ At(p, "idle") /\ status = "PROVISIONING" /\ terms.resource = "domain_order"
    /\ Turn(p, "resume", "handoff")
    /\ Quiet /\ UNCHANGED <<resource, mishaps>>

\* expire_quotes: the quote of the order, which has an end of its own, is over.
ExpireOrder ==
    /\ order = "awaiting_payment" /\ order' = "expired"
    /\ Quiet /\ UNCHANGED <<vm, guest, quote, attached, workers, mishaps>>

\* The process of worker p dies; another pass starts from the beginning.
Crash(p) ==
    /\ pc[p] # "idle" /\ GoesWrong("crash") /\ Goto(p, "idle")
    /\ Quiet /\ UNCHANGED resource

----------------------------------------------------------------------------
Init ==
    /\ terms \in [asset : Assets, resource : Resources, quoted : BOOLEAN, custom : BOOLEAN,
                  fleet : Fleets]
    /\ terms.resource = "domain_order" => ~terms.quoted /\ ~terms.custom
    /\ chain = <<>> /\ late = FALSE /\ expired = FALSE
    /\ status = "none" /\ token = 0 /\ ripe = FALSE /\ planned = FALSE /\ owed = 0
    /\ vm = "none" /\ guest = FALSE /\ attached = FALSE
    /\ quote = IF terms.quoted THEN "CREATED" ELSE "none"
    /\ order = IF terms.resource = "domain_order" THEN "awaiting_payment" ELSE "none"
    /\ pc = [p \in Workers |-> "idle"] /\ loc = [p \in Workers |-> Fresh]
    /\ mishaps = 0

PollStep(p) == Listed(p) \/ Poll(p) \/ Apply(p) \/ Trigger(p)
HandoffStep(p) == Plan(p) \/ Check(p) \/ Quote(p) \/ Reserve(p) \/ ClaimDomain(p)
                  \/ Activate(p) \/ Link(p) \/ Start(p)
RefundStep(p) == RefundRead(p) \/ Owe(p)
CleanupStep(p) == Release(p) \/ Erase(p) \/ MarkFailed(p) \/ FreePrefix(p) \/ Unclaim(p)
SweeperStep == SelectReservation \/ PurgeReservation
OrderStep(p) == MarkPaid(p) \/ SettleOrder(p) \/ Reread(p)

\* The calls that go on once they are made.
PollerStep(p) == Poll(p) \/ Apply(p) \/ Trigger(p) \/ HandoffStep(p) \/ RefundStep(p)
                 \/ CleanupStep(p) \/ OrderStep(p)
AttemptStep == Dispatch \/ Clone \/ Conclude \/ RefundStep(Attempt)

PollerNext(p) == \/ PollStep(p) \/ HandoffStep(p) \/ RefundStep(p) \/ CleanupStep(p)
                 \/ OrderStep(p) \/ Recover(p) \/ ResumeOrder(p)
                 \/ HandoffRaises(p) \/ RefundRaises(p) \/ MarkPaidRaises(p) \/ Crash(p)

Next == \/ CreateIntent \/ EnsureOrderIntent
        \/ \E a \in Amounts : Deposit(a)
        \/ \E i \in DOMAIN chain : Confirm(i)
        \/ ClockAdvances \/ QuoteTaken \/ SweeperStep \/ ExpireOrder
        \/ \E p \in terms.fleet : PollerNext(p)
        \/ AttemptStep

Spec == Init /\ [][Next]_vars

\* Time passes, the worker loop comes round every fifteen seconds, and a call
\* that was made runs to its end unless its process dies.  Nobody has to pay.
Fairness == /\ WF_vars(ClockAdvances) /\ WF_vars(SweeperStep)
            /\ \A p \in Pollers : WF_vars(PollerStep(p))
            /\ WF_vars(\E p \in terms.fleet : Listed(p) \/ Recover(p) \/ ResumeOrder(p))
            /\ WF_vars(AttemptStep)

FairSpec == Spec /\ Fairness

----------------------------------------------------------------------------
(* Types.                                                                  *)

Waiting == {"idle", "poll", "apply", "trigger"}
Refunding == {"refund", "owe"}
Cleanup == {"release", "giveup", "erase", "discard", "fail", "free", "unclaim"}
Ordering == {"handoff", "settle", "reread"}
Places == Waiting \cup Handoff \cup Refunding \cup Cleanup \cup Ordering \cup {"purge", "clone", "await"}

\* How a worker came where it is; those of the handoff to a VM.
ForVMModes == {"return", "error", "fence", "recover"}
LocRows(total) == [total : {total}, deep : BOOLEAN, token : {0, 1},
                   mode : {"none", "trigger", "domain", "resume"} \cup ForVMModes,
                   reserved : BOOLEAN, claimed : BOOLEAN,
                   wasOwed : BOOLEAN, wasDone : BOOLEAN, wasAwaiting : BOOLEAN, due : BOOLEAN]

\* Every variable has the type the code's columns and locals give it.
TypeOK ==
    /\ terms \in [asset : {"BTC", "XMR"}, resource : {"vm", "domain_order"}, quoted : BOOLEAN,
                  custom : BOOLEAN, fleet : SUBSET Pollers]
    /\ chain \in Seq([amount : Amounts, deep : BOOLEAN])
    /\ late \in BOOLEAN /\ expired \in BOOLEAN /\ ripe \in BOOLEAN /\ planned \in BOOLEAN
    /\ guest \in BOOLEAN /\ attached \in BOOLEAN
    /\ status \in {"none", "CREATED", "WAITING_PAYMENT", "SETTLED"} \cup Terminal
    /\ token \in 0..MaxToken /\ owed \in Nat /\ mishaps \in Nat
    /\ vm \in {"none", "reserved", "pending", "ready", "delivered", "failed", "released"}
    /\ quote \in {"none", "CREATED", "CONSUMED"}
    /\ order \in {"none", "awaiting_payment", "expired", "queued", "refund_due"}
    /\ pc \in [Workers -> Places]
    /\ DOMAIN loc = Workers /\ \A p \in Workers : loc[p] \in LocRows(loc[p].total)

----------------------------------------------------------------------------
(* What must never be true.                                                *)

OneWorker == \A p, q \in terms.fleet : p = q

\* An intent is refunded or its resource is delivered, never both: once a refund
\* is owed the VM is not delivered and will not be.
RefundedNotDelivered == owed > 0 => vm \notin {"ready", "delivered"}

\* A refund is owed once, when one worker runs.
OneObligation == OneWorker => owed <= 1

\* A /64 that a failed handoff or the sweeper gave back is not in use by a guest.
FreedPrefixUnused == vm \in {"none", "released"} => ~guest

\* A domain order that is queued for registration has not been refunded, when one worker runs.
RefundedNotQueued == OneWorker /\ owed > 0 => order # "queued"

\* The VM an intent is linked to is a paid one: not a mere reservation, not one a
\* recovery or the sweeper deleted, and not one a fenced handoff gave up.
LinkedToPaidRow ==
    status = "PROVISIONED" /\ terms.resource = "vm" =>
        vm \in {"pending", "ready", "delivered", "failed"}

ForVM == terms.resource = "vm"
Busy(p) == pc[p] \notin Waiting
Launched == vm \in {"ready", "delivered", "failed"}
Refused == {"REFUND_MANUAL", "FAILED"}

\* What a worker process may rely on where it is.  One process triggers the handoff and keeps token
\* 1; a recovery has made the token larger before anybody cleans up in its name or is fenced; an
\* error releases nothing before the intent is refunded or failed; once the intent is linked only
\* the process that linked it may still act, and once the VM is dispatched none may
\* (_trigger_provisioning, _require_current_vm_handoff, _recover_interrupted_vm_provisioning).
PollerRelies(p) ==
    /\ pc[p] \notin {"purge", "clone", "await"}
    /\ p \notin terms.fleet => pc[p] = "idle"
    /\ IF Busy(p) THEN token # 0 /\ ~Launched ELSE loc[p].token = 0
    /\ pc[p] \in Handoff \cup Cleanup => ForVM
    /\ pc[p] \in Ordering => ~ForVM
    /\ loc[p].mode \in ForVMModes => ForVM
    /\ ForVM /\ Busy(p) =>
         /\ loc[p].token = IF loc[p].mode = "recover" THEN 0 ELSE 1
         /\ loc[p].mode \in (IF pc[p] \in Handoff THEN {"trigger"} ELSE ForVMModes)
         /\ loc[p].mode \in {"fence", "recover"} => token > 1
         /\ loc[p].mode = "fence" => pc[p] \notin Refunding
         /\ pc[p] \in {"giveup", "discard"} => loc[p].mode = "return"
         /\ loc[p].mode = "error" /\ pc[p] \in Cleanup => status \in Refused
         /\ status = "PROVISIONED" =>
              vm = "pending" /\ (At(p, "start") \/ (pc[p] \in Refunding /\ loc[p].mode = "error"))
    /\ pc[p] \in Handoff =>
         /\ At(p, "start") => status = "PROVISIONED"
         /\ ~At(p, "start") /\ token = 1 => status = "PROVISIONING"
         /\ token = 1 => vm \in (IF pc[p] \in {"check5", "link", "start"} THEN {"pending"}
                                                                    ELSE {"none", "reserved"})

\* Of the daemons, the attempt works on a dispatched VM, and refunds only what it failed.
DaemonsRely ==
    /\ pc[Sweeper] \in {"idle", "purge"}
    /\ pc[Attempt] \in {"idle", "clone", "await"} \cup Refunding /\ loc[Attempt].mode = "none"
    /\ pc[Attempt] \in {"clone", "await"} => vm = "ready"
    /\ pc[Attempt] \in Refunding => vm = "failed" /\ status = "PROVISIONED"
WorkersRely == /\ \A p \in Pollers : PollerRelies(p)
               /\ \A p, q \in Pollers : loc[p].token = 1 /\ loc[q].token = 1 => p = q
               /\ DaemonsRely

\* The VM's row and the intent: nothing is made before the token is taken, and what is dispatched
\* belongs to the intent that nobody has recovered (_persist_planned_vm_id to start_provisioning).
RowFollowsIntent ==
    /\ token = 0 => /\ status \notin {"PROVISIONING", "PROVISIONED", "FAILED"} /\ owed = 0 /\ vm = "none"
                    /\ order \notin {"queued", "refund_due"}
    /\ token # 0 => status \in {"PROVISIONING", "PROVISIONED"} \cup Refused
    /\ IF ForVM THEN order = "none" ELSE vm = "none"
    /\ ForVM /\ token > 1 => status # "PROVISIONED" /\ ~Launched
    /\ ForVM /\ status = "PROVISIONED" => vm = "pending" \/ Launched
    /\ Launched => status = "PROVISIONED" \/ (vm = "failed" /\ status = "REFUND_MANUAL")
    /\ guest => vm \in {"ready", "delivered"}

\* A refund of a VM ends the intent, and an intent that was read as refunded stays so; there is no
\* domain order behind it (record_native_intent_refund).
RefundEnds ==
    ForVM => /\ owed > 0 => status \in Refused
             /\ \A p \in Workers : At(p, "owe") => /\ loc[p].wasDone => status \in Refused
                                                  /\ ~loc[p].wasAwaiting

\* With one worker, what was read before a refund is written is still so, and an order that is
\* being handed over has no refund but its own (_mark_paid, _resume_domain_handoff).
RefundReadIsCurrent ==
    OneWorker =>
         /\ \A p \in Workers : At(p, "owe") => (loc[p].wasOwed <=> owed > 0)
         /\ ~ForVM =>
              /\ owed > 0 /\ status = "PROVISIONING" => order = "refund_due"
              /\ \A p \in Pollers :
                   /\ pc[p] \in Ordering \cup Refunding => status = "PROVISIONING"
                   /\ pc[p] \in Refunding => order \in {"awaiting_payment", "expired"}
                   /\ At(p, "owe") => ~loc[p].wasDone

\* What holds of every intent: it is refunded or delivered, never both, a freed prefix is unused, a
\* linked VM is a paid one, and with one worker there is no second refund (services/intents.py, the
\* fence by the token).
IntentInv == /\ TypeOK /\ RefundedNotDelivered /\ FreedPrefixUnused /\ LinkedToPaidRow
             /\ OneObligation /\ RefundedNotQueued
             /\ WorkersRely /\ RowFollowsIntent /\ RefundEnds /\ RefundReadIsCurrent

----------------------------------------------------------------------------
(* What it implements.                                                     *)

\* The VM is delivered, or the domain order is queued; two workers may do both that and the refund
\* to a domain order, which is then not called a delivery.
Delivered == vm = "delivered" \/ (OneWorker /\ order = "queued")

\* The intent is an order in the sense of PaidOrder: the trigger of the handoff settles it, and it is
\* delivered or refunded, never the one after the other.
Order == INSTANCE PaidOrder WITH
    Orders <- {"intent"},
    phase <- [o \in {"intent"} |->
                CASE owed > 0 -> "refunded"
                  [] owed = 0 /\ Delivered -> "delivered"
                  [] owed = 0 /\ ~Delivered /\ token # 0 -> "settled"
                  [] OTHER -> "open"]
ImplementsPaidOrder == Order!Spec

----------------------------------------------------------------------------
(* What must happen.                                                       *)

\* An intent that is being handed over by one worker ends linked, refunded or failed, whatever
\* the worker's crashes (resume_provisioning_intents); two could outrun the bound on the token.
HandoffEnds == OneWorker /\ status = "PROVISIONING" ~> status \in {"PROVISIONED", "REFUND_MANUAL", "FAILED"}

=============================================================================
