----------------------------- MODULE VMCheckout -----------------------------
(***************************************************************************)
(* POST /v1/vm/create: concurrent requests reserve a VM row and a customer *)
(* /64, pay through the x402 gate or by an administrator's waiver, claim   *)
(* the price quote, activate the reservation and hand it over to the       *)
(* provisioner.  Every database transaction and every call of the          *)
(* facilitator is one step, so that requests interleave between them and   *)
(* with the sweeper of unpaid reservations, an administrator who disables  *)
(* the account or revokes the waiver, and the clock.                       *)
(*                                                                         *)
(* A request has a VM row of its own: the reservation, or the row that     *)
(* replaces one that was swept.  There are one account and one managed     *)
(* domain.  All requests carry payment credentials; one without writes     *)
(* nothing and gets a 402.  What the provisioner does with the row is      *)
(* reduced to its outcome; VMProvisioning is its module.                   *)
(***************************************************************************)
EXTENDS Integers, FiniteSets

CONSTANTS
    Requests,     \* create requests
    None,         \* NULL, nobody
    Prefixes,     \* the customer /64s
    HostSizes,    \* how many guests the host may have room for
    WaiverLimit,  \* admin_cost_limit, waivers per window
    Terms,        \* which requests may come together
    LostAt,       \* commits whose acknowledgement may get lost: of "activate", "start"
    \* Bounds of the model.
    Mishaps,      \* what may go wrong, of "error", "lost", "crash", "ledger"
    MaxMishaps    \* how often, in all, something goes wrong

ASSUME NoneIsNothing == None \notin Requests /\ None \notin Prefixes
ASSUME BoundsAreNumbers == HostSizes \subseteq Nat /\ {WaiverLimit, MaxMishaps} \subseteq Nat
ASSUME RequestsAreFinite == IsFiniteSet(Requests)

VARIABLES
    terms,     \* what a request asks for and how it pays
    slots,     \* guests the host has room for
    quote,     \* VMQuoteRow: status and vm_id; all quoted requests name it
    vms,       \* VMRow of each request
    capLock,   \* who holds _VM_CAPACITY_ADVISORY_LOCK
    domain,    \* DomainRow.vm_id
    enabled,   \* AccountRow.disabled_at is NULL
    admin,     \* validate_admin_dispatch accepts the waiver's actor
    quota,     \* AdminBypassUsageRow.count of the window
    audits,    \* requests with an admin_bypass event in the ledger
    money,     \* what a request has paid: "none", "charged" or "waived"
    owed,      \* refund_owed events of a request in the ledger
    owner,     \* requests whose purchase belongs to the account
    stale,     \* requests whose reservation is older than 15 minutes
    swept,     \* what the sweeper has selected
    pc,        \* where each request is
    mishaps    \* what MaxMishaps counts

setting == <<terms, slots>>
gate == <<quota, audits, money>>
rows == <<vms, capLock, domain>>
authority == <<enabled, admin>>
vars == <<setting, quote, rows, authority, gate, owed, owner, stale, swept,
          pc, mishaps>>

\* quoted: the body names the quote; authed: a session or an API key;
\* custom: domain_mode is custom; payment: how it pays.
AllTerms == [quoted : BOOLEAN, authed : BOOLEAN, custom : BOOLEAN,
             payment : {"x402", "waiver"}]
ASSUME TermsAreKnown == Terms \subseteq [Requests -> AllTerms]

\* owner_wallet is set iff paid; admitted: the row passed the capacity check.
NoRow == [status |-> "none", paid |-> FALSE, prefix |-> None, handoff |-> "none",
          admitted |-> FALSE]

\* The row as create_quote inserts it.
NewQuote == [status |-> "CREATED", vm |-> None]

Live(r) == vms[r].status \in {"PROVISIONING", "RUNNING"}
\* What the hypervisor reports as used and the rows that have no guest there yet.
Placed == {s \in Requests : Live(s)}
\* ensure_vm_capacity: the guests of the host and the rows without one leave room.
Fits == Cardinality(Placed) < slots
Reserved(r) == vms[r].status = "PROVISIONING" /\ ~vms[r].paid
FreePrefixes == Prefixes \ {vms[r].prefix : r \in Requests}
\* The first free index after the hash of the VM's id; the unique index of the table
\* makes a request that lost a race for it look again.
AllocatePrefix == CHOOSE p \in FreePrefixes : TRUE

\* The advisory lock goes with the transaction that took it.
Unlocked(r) == IF capLock = r THEN None ELSE capLock
\* The actor of a waiver is an enabled administrator who may grant it.
Authorized == admin /\ enabled
\* An event of the ledger: the audit of a waiver, or the refund of what was charged.
Record(r) == audits' = audits \cup {r}
RecordOwed(r) == owed' = [owed EXCEPT ![r] = IF money[r] = "charged" THEN @ + 1 ELSE @]

Goto(r, place) == pc' = [pc EXCEPT ![r] = place]
At(r, place) == pc[r] = place

Fine == UNCHANGED mishaps
GoesWrong(kind) == /\ kind \in Mishaps /\ mishaps < MaxMishaps
                   /\ mishaps' = mishaps + 1

----------------------------------------------------------------------------
(* Up to the reservation.                                                  *)

\* The quote is looked up and checked before anything is charged.  A consumed
\* quote is answered with the VM it is linked to, or with 409.  The TTL of the quote
\* may have run out; nothing after this step looks at it.
Read(r) ==
    /\ At(r, "idle")
    /\ \/ terms[r].quoted /\ Goto(r, "done")
       \/ (terms[r].quoted => quote.status = "CREATED") /\ Goto(r, "capacity")
    /\ UNCHANGED <<setting, quote, rows, authority, gate, owed, owner, stale,
                   swept, mishaps>>

\* Mutant of CheckCapacity: the check does not take the advisory lock.
CheckCapacityUnlocked(r) ==
    /\ At(r, "capacity")
    /\ Goto(r, IF Fits THEN "insert" ELSE "done")
    /\ UNCHANGED <<setting, quote, rows, authority, gate, owed, owner, stale,
                   swept, mishaps>>

\* reserve_vm_with_capacity: under the lock there is room for one more.
CheckCapacity(r) ==
    /\ At(r, "capacity") /\ capLock = None
    /\ capLock' = IF Fits THEN r ELSE None
    /\ Goto(r, IF Fits THEN "insert" ELSE "done")
    /\ UNCHANGED <<setting, quote, vms, domain, authority, gate, owed, owner,
                   stale, swept, mishaps>>

\* reserve_vm: the row and its /64, with no wallet; then the lock is given back.
\* No free /64 is a 503.  The account of an authenticated request must be enabled.
InsertReservation(r) ==
    /\ At(r, "insert")
    /\ capLock' = Unlocked(r)
    /\ IF FreePrefixes = {} \/ (terms[r].authed /\ ~enabled)
       THEN Goto(r, "done") /\ UNCHANGED vms
       ELSE /\ \E p \in FreePrefixes :
                 vms' = [vms EXCEPT ![r] = [NoRow EXCEPT !.status = "PROVISIONING",
                                            !.prefix = p, !.admitted = TRUE]]
            /\ Goto(r, IF terms[r].custom THEN "attach" ELSE "guard")
    /\ UNCHANGED <<setting, quote, domain, authority, gate, owed, owner, stale,
                   swept, mishaps>>

\* claim_vm_attachment, which does not look at the VM's row; a refusal releases the
\* reservation.
Attach(r) ==
    /\ At(r, "attach")
    /\ IF domain = None
       THEN domain' = r /\ Goto(r, "guard")
       ELSE Goto(r, "release") /\ UNCHANGED domain
    /\ UNCHANGED <<setting, quote, vms, capLock, authority, gate, owed, owner,
                   stale, swept, mishaps>>

----------------------------------------------------------------------------
(* The payment.                                                            *)

\* An authenticated request holds the account's lifecycle lock while it pays.
Paying(r) == pc[r] \in {"settle", "quota", "audit", "restore"}
GuardHeld == \E r \in Requests : terms[r].authed /\ Paying(r)

\* _vm_payment_account_guard.
Guard(r) ==
    /\ At(r, "guard")
    /\ Goto(r, IF terms[r].authed /\ ~enabled THEN "release"
               ELSE IF terms[r].payment = "waiver" THEN "quota" ELSE "settle")
    /\ UNCHANGED <<setting, quote, rows, authority, gate, owed, owner, stale,
                   swept, mishaps>>

\* check_payment with an x402 signature: it is refused, or the money moves.
Settle(r) ==
    /\ At(r, "settle")
    /\ \/ Goto(r, "release") /\ UNCHANGED money
       \/ Goto(r, "bind") /\ money' = [money EXCEPT ![r] = "charged"]
    /\ UNCHANGED <<setting, quote, rows, authority, quota, audits, owed, owner,
                   stale, swept, mishaps>>

\* _apply_admin_bypass reads the authorization again, then takes a slot of the
\* window if one is left.
ConsumeQuota(r) ==
    /\ At(r, "quota")
    /\ IF Authorized /\ quota < WaiverLimit
       THEN quota' = quota + 1 /\ Goto(r, "audit")
       ELSE Goto(r, "release") /\ UNCHANGED quota
    /\ UNCHANGED <<setting, quote, rows, authority, audits, money, owed, owner,
                   stale, swept, mishaps>>

\* The audit event is required: without it there is no waiver, and the slot is
\* given back.  A write that times out may still have been committed.
Audit(r) ==
    /\ At(r, "audit")
    /\ \/ /\ Record(r) /\ Fine
          /\ money' = [money EXCEPT ![r] = "waived"] /\ Goto(r, "bind")
       \/ /\ GoesWrong("ledger") /\ Goto(r, "restore")
          /\ Record(r) \/ UNCHANGED audits
          /\ UNCHANGED money
    /\ UNCHANGED <<setting, quote, rows, authority, quota, owed, owner, stale,
                   swept>>

\* _restore_admin_quota_after_failure, whose own failure is only logged.
RestoreQuota(r) ==
    /\ At(r, "restore") /\ Goto(r, "release")
    /\ \/ quota' = (IF quota > 0 THEN quota - 1 ELSE 0) /\ Fine
       \/ GoesWrong("error") /\ UNCHANGED quota
    /\ UNCHANGED <<setting, quote, rows, authority, audits, money, owed, owner,
                   stale, swept>>

\* _bind_payer_account never raises: a payer without an account gets one, or the
\* purchase stays anonymous.
Bind(r) ==
    /\ At(r, "bind")
    /\ \/ owner' = owner \cup {r}
       \/ ~terms[r].authed /\ UNCHANGED owner
    /\ Goto(r, IF terms[r].quoted THEN "claim" ELSE "activate")
    /\ UNCHANGED <<setting, quote, rows, authority, gate, owed, stale, swept,
                   mishaps>>

----------------------------------------------------------------------------
(* From the payment to the provisioner.                                    *)

\* Mutant of Claim: the quote is read and written without the condition.
ClaimUnconditionally(r) ==
    /\ At(r, "claim")
    /\ quote' = [quote EXCEPT !.status = "CONSUMED"] /\ Goto(r, "activate")
    /\ UNCHANGED <<setting, rows, authority, gate, owed, owner, stale, swept,
                   mishaps>>

\* claim_quote: one conditional update.  The loser gives its reservation back.
Claim(r) ==
    /\ At(r, "claim")
    /\ IF quote.status = "CREATED"
       THEN quote' = [quote EXCEPT !.status = "CONSUMED"] /\ Goto(r, "activate")
       ELSE Goto(r, "outbid") /\ UNCHANGED quote
    /\ UNCHANGED <<setting, rows, authority, gate, owed, owner, stale, swept,
                   mishaps>>

AfterRow(r) == IF terms[r].quoted THEN "link" ELSE "start"
Rejected(r) == terms[r].payment = "waiver" /\ ~Authorized
OwnerDisabled(r) == (r \in owner \/ terms[r].authed) /\ ~enabled

\* Mutant of Activate: the handoff is published with the activation.
ActivateReady(r) ==
    /\ At(r, "activate") /\ ~Rejected(r) /\ vms[r].status # "none" /\ ~OwnerDisabled(r)
    /\ vms' = [vms EXCEPT ![r].paid = TRUE, ![r].handoff = "ready"]
    /\ \/ Goto(r, AfterRow(r)) /\ Fine
       \/ "activate" \in LostAt /\ GoesWrong("lost") /\ Goto(r, "refund")
    /\ UNCHANGED <<setting, quote, capLock, domain, authority, gate, owed, owner,
                   stale, swept>>

\* activate_vm_reservation(start_provisioning=False), one transaction under the
\* account's and the row's lock.
Activate(r) ==
    /\ At(r, "activate")
    /\ \/ Rejected(r) /\ Goto(r, "reopen") /\ Fine /\ UNCHANGED vms
       \/ /\ ~Rejected(r) /\ vms[r].status = "none" /\ Fine /\ UNCHANGED vms
          /\ Goto(r, IF terms[r].custom THEN "refund" ELSE "create")
       \/ /\ ~Rejected(r) /\ vms[r].status # "none" /\ OwnerDisabled(r)
          /\ Goto(r, "refund") /\ Fine /\ UNCHANGED vms
       \/ /\ ~Rejected(r) /\ vms[r].status # "none" /\ ~OwnerDisabled(r)
          /\ vms' = [vms EXCEPT ![r].paid = TRUE, ![r].handoff = "pending"]
          /\ \/ Goto(r, AfterRow(r)) /\ Fine
             \/ "activate" \in LostAt /\ GoesWrong("lost") /\ Goto(r, "refund")
       \/ GoesWrong("error") /\ Goto(r, "refund") /\ UNCHANGED vms
    /\ UNCHANGED <<setting, quote, capLock, domain, authority, gate, owed, owner,
                   stale, swept>>

\* create_vm(start_provisioning=False) for a reservation that was swept while the
\* customer paid: a new row without a capacity check.
Create(r) ==
    /\ At(r, "create")
    /\ \/ Rejected(r) /\ Goto(r, "reopen") /\ UNCHANGED vms
       \/ /\ ~Rejected(r) /\ (OwnerDisabled(r) \/ FreePrefixes = {})
          /\ Goto(r, "refund") /\ UNCHANGED vms
       \/ /\ ~Rejected(r) /\ ~OwnerDisabled(r) /\ FreePrefixes # {}
          /\ vms' = [vms EXCEPT ![r] = [status |-> "PROVISIONING", paid |-> TRUE,
                         prefix |-> AllocatePrefix, handoff |-> "pending", admitted |-> FALSE]]
          /\ Goto(r, AfterRow(r))
    /\ UNCHANGED <<setting, quote, capLock, domain, authority, gate, owed, owner,
                   stale, swept, mishaps>>

\* link_quote_vm, tried three times; the VM starts even if the link fails.
Link(r) ==
    /\ At(r, "link") /\ Goto(r, "start")
    /\ \/ quote' = [quote EXCEPT !.vm = r] /\ Fine
       \/ GoesWrong("error") /\ UNCHANGED quote
    /\ UNCHANGED <<setting, rows, authority, gate, owed, owner, stale, swept>>

\* start_provisioning publishes the handoff; what follows its commit cannot fail the
\* request, but a commit whose acknowledgement is lost does, with the handoff published.
Start(r) ==
    /\ At(r, "start")
    /\ \/ /\ vms' = [vms EXCEPT ![r].handoff =
                       IF vms[r].status = "PROVISIONING" THEN "ready" ELSE @]
          /\ \/ Goto(r, "done") /\ Fine
             \/ "start" \in LostAt /\ GoesWrong("lost") /\ Goto(r, "refund")
       \/ GoesWrong("error") /\ Goto(r, "refund") /\ UNCHANGED vms
    /\ UNCHANGED <<setting, quote, capLock, domain, authority, gate, owed, owner,
                   stale, swept>>

----------------------------------------------------------------------------
(* What undoes a request.                                                  *)

\* record_create_failure_refund; a waiver charged nothing.  The ledger write is
\* best effort.
Refund(r) ==
    /\ At(r, "refund") /\ Goto(r, "fail")
    /\ \/ RecordOwed(r) /\ Fine
       \/ GoesWrong("ledger") /\ UNCHANGED owed
    /\ UNCHANGED <<setting, quote, rows, authority, gate, owner, stale, swept>>

\* mark_vm_failed frees the /64 and a domain that was only claimed.
MarkFailed(r) ==
    /\ At(r, "fail") /\ Goto(r, "done")
    /\ vms' = [vms EXCEPT ![r] = IF Live(r)
                 THEN [@ EXCEPT !.status = "FAILED", !.prefix = None] ELSE @]
    /\ domain' = IF domain = r THEN None ELSE domain
    /\ UNCHANGED <<setting, quote, capLock, authority, gate, owed, owner, stale,
                   swept, mishaps>>

\* release_quote_claim reopens a claim that no VM is linked to.
ReopenQuote(r) ==
    /\ At(r, "reopen") /\ Goto(r, "release")
    /\ quote' = IF terms[r].quoted /\ quote.status = "CONSUMED" /\ quote.vm = None
                THEN [quote EXCEPT !.status = "CREATED"] ELSE quote
    /\ UNCHANGED <<setting, rows, authority, gate, owed, owner, stale, swept,
                   mishaps>>

\* release_vm_reservation deletes the unpaid row with its claims.
Release(r) ==
    /\ \/ At(r, "release") /\ Goto(r, "done")
       \/ At(r, "outbid") /\ Goto(r, "lost")
    /\ vms' = [vms EXCEPT ![r] = IF Reserved(r) THEN NoRow ELSE @]
    /\ domain' = IF Reserved(r) /\ domain = r THEN None ELSE domain
    /\ stale' = IF Reserved(r) THEN stale \ {r} ELSE stale
    /\ UNCHANGED <<setting, quote, capLock, authority, gate, owed, owner,
                   swept, mishaps>>

\* The process of a request dies; its locks go with its connections.
Crash(r) ==
    /\ pc[r] \notin {"idle", "done", "lost"} /\ GoesWrong("crash") /\ Goto(r, "done")
    /\ capLock' = Unlocked(r)
    /\ UNCHANGED <<setting, quote, vms, domain, authority, gate, owed, owner,
                   stale, swept>>

----------------------------------------------------------------------------
(* The others.                                                             *)

\* The provisioner builds the guest of a row whose handoff is ready, or fails it
\* and owes the refund of what was charged.
Provision(r) ==
    /\ vms[r].status = "PROVISIONING" /\ vms[r].paid /\ vms[r].handoff = "ready"
    /\ \/ vms' = [vms EXCEPT ![r].status = "RUNNING"] /\ UNCHANGED <<owed, domain>>
       \/ /\ vms' = [vms EXCEPT ![r].status = "FAILED", ![r].prefix = None]
          /\ RecordOwed(r)
          /\ domain' = IF domain = r THEN None ELSE domain
    /\ UNCHANGED <<setting, quote, capLock, authority, gate, owner, stale, swept,
                   pc, mishaps>>

\* Fifteen minutes pass while a request pays, or after it died.  Between the insert
\* and the payment there is only the short transaction of Attach.
Age(r) ==
    /\ Reserved(r) /\ r \notin stale /\ ~At(r, "attach") /\ stale' = stale \cup {r}
    /\ UNCHANGED <<setting, quote, rows, authority, gate, owed, owner, swept, pc,
                   mishaps>>

\* Mutant of SweepSelect: the condition on the wallet is inverted.
SweepSelectPaid ==
    /\ swept = {}
    /\ swept' = {r \in stale : vms[r].paid} /\ swept' # {}
    /\ UNCHANGED <<setting, quote, rows, authority, gate, owed, owner, stale, pc,
                   mishaps>>

\* check_expiries reads the abandoned reservations ...
SweepSelect ==
    /\ swept = {}
    /\ swept' = {r \in stale : Reserved(r)} /\ swept' # {}
    /\ UNCHANGED <<setting, quote, rows, authority, gate, owed, owner, stale, pc,
                   mishaps>>

\* Mutant of SweepDelete: the delete does not repeat the conditions of the select.
SweepDeleteSelected ==
    /\ swept # {} /\ swept' = {} /\ stale' = stale \ swept
    /\ domain' = IF domain \in swept THEN None ELSE domain
    /\ vms' = [r \in Requests |-> IF r \in swept THEN NoRow ELSE vms[r]]
    /\ UNCHANGED <<setting, quote, capLock, authority, gate, owed, owner, pc,
                   mishaps>>

\* ... and deletes the ones that are still unpaid.  Domains are unclaimed before.
SweepDelete ==
    /\ swept # {} /\ swept' = {} /\ stale' = stale \ swept
    /\ domain' = IF domain \in swept THEN None ELSE domain
    /\ vms' = [r \in Requests |-> IF r \in swept /\ Reserved(r) THEN NoRow ELSE vms[r]]
    /\ UNCHANGED <<setting, quote, capLock, authority, gate, owed, owner, pc,
                   mishaps>>

\* An administrator disables the account, under its exclusive lifecycle lock.
Disable ==
    /\ enabled /\ ~GuardHeld /\ enabled' = FALSE
    /\ UNCHANGED <<setting, quote, rows, admin, gate, owed, owner, stale, swept,
                   pc, mishaps>>

\* The actor of a waiver loses the right to it.
Revoke ==
    /\ admin /\ admin' = FALSE
    /\ UNCHANGED <<setting, quote, rows, enabled, gate, owed, owner, stale, swept,
                   pc, mishaps>>

Init ==
    /\ terms \in Terms /\ slots \in HostSizes
    /\ quote = NewQuote
    /\ vms = [r \in Requests |-> NoRow] /\ capLock = None /\ domain = None
    /\ enabled = TRUE /\ admin = TRUE
    /\ quota = 0 /\ audits = {} /\ money = [r \in Requests |-> "none"]
    /\ owed = [r \in Requests |-> 0] /\ owner = {} /\ stale = {} /\ swept = {}
    /\ pc = [r \in Requests |-> "idle"] /\ mishaps = 0

Request(r) ==
    \/ Read(r) \/ CheckCapacity(r) \/ InsertReservation(r) \/ Attach(r) \/ Guard(r)
    \/ Settle(r) \/ ConsumeQuota(r) \/ Audit(r) \/ RestoreQuota(r) \/ Bind(r)
    \/ Claim(r) \/ Activate(r) \/ Create(r) \/ Link(r) \/ Start(r)
    \/ Refund(r) \/ MarkFailed(r) \/ ReopenQuote(r) \/ Release(r)

Next ==
    \/ \E r \in Requests : Request(r) \/ Crash(r) \/ Provision(r) \/ Age(r)
    \/ SweepSelect \/ SweepDelete \/ Disable \/ Revoke

Spec == Init /\ [][Next]_vars

\* A handler runs on while its process lives; the provisioner and the sweeper are
\* scheduled again and again, and time passes.
Fairness ==
    /\ \A r \in Requests : /\ WF_vars(Request(r)) /\ WF_vars(Provision(r))
                           /\ WF_vars(Age(r))
    /\ WF_vars(SweepSelect) /\ WF_vars(SweepDelete)

FairSpec == Spec /\ Fairness

----------------------------------------------------------------------------
(* Properties.                                                             *)

QuoteRows == [status : {"CREATED", "CONSUMED"}, vm : Requests \cup {None}]
\* What the ledger's events say of a request.
Payments == {"none", "charged", "waived"}
\* Where create_vm may be.
Places == {"idle", "capacity", "insert", "attach", "guard", "settle", "quota", "audit", "restore",
           "bind", "claim", "activate", "create", "link", "start", "refund", "fail", "reopen",
           "release", "outbid", "done", "lost"}

\* Besides the types: a row holds a /64 exactly while it is live, so that no way to
\* end a request leaks one, and its handoff starts with its payment.
TypeOK ==
    /\ terms \in [Requests -> AllTerms] /\ slots \in HostSizes
    /\ quote \in QuoteRows
    /\ vms \in [Requests -> [status : {"none", "PROVISIONING", "RUNNING", "FAILED"},
                             paid : BOOLEAN, prefix : Prefixes \cup {None},
                             handoff : {"none", "pending", "ready"}, admitted : BOOLEAN]]
    /\ \A r \in Requests : /\ (vms[r].prefix # None) <=> Live(r)
                           /\ (vms[r].handoff # "none") <=> vms[r].paid
    /\ capLock \in Requests \cup {None} /\ domain \in Requests \cup {None}
    /\ {enabled, admin} \subseteq BOOLEAN
    /\ quota \in Nat /\ audits \subseteq Requests
    /\ money \in [Requests -> Payments]
    /\ owed \in [Requests -> Nat]
    /\ {owner, stale, swept} \subseteq SUBSET Requests
    /\ pc \in [Requests -> Places]
    /\ mishaps \in 0..MaxMishaps

\* However many requests pay for one quote at the same time, and although a revoked
\* waiver reopens it, at most one of them gets a VM from it (create_vm, claim_quote,
\* release_quote_claim).
OneVMPerQuote ==
    Cardinality({r \in Requests : terms[r].quoted /\ vms[r].paid /\ Live(r)}) <= 1

\* The rows that were admitted by reserve_vm_with_capacity fit on the host, although
\* the check and the insert are separate transactions of concurrent requests.
AdmittedFit == Cardinality({r \in Requests : Live(r) /\ vms[r].admitted}) <= slots

\* The managed domain is never left claimed by a VM that failed or is gone: however a
\* request ends, its claim ends with its row (create_vm, mark_vm_failed,
\* release_vm_reservation, check_expiries).
DomainClaimLive == domain # None => Live(domain)

\* A waiver is never granted without its audit event, nor beyond the limit of the
\* window, although slots are taken and given back by concurrent requests
\* (_apply_admin_bypass, _consume_admin_quota, _restore_admin_quota).
WaiversAccounted ==
    LET waived == {r \in Requests : money[r] = "waived"}
    IN waived \subseteq audits /\ Cardinality(waived) <= quota /\ quota <= WaiverLimit

Answered(r) == (vms[r].paid /\ Live(r)) \/ owed[r] > 0

\* A request that was charged and has ended has a paid VM or is owed a refund, unless
\* its process died, its refund could not be written, or another request had taken
\* the quote (create_vm, record_create_failure_refund).
ChargedIsAnswered ==
    \A r \in Requests :
        (pc[r] = "done" /\ money[r] = "charged" /\ mishaps = 0) => Answered(r)

\* No refund is recorded twice for one charge, whoever notices the failure.
OwedOnce == \A r \in Requests : owed[r] <= 1

\* Where a request is before and after it has paid, and while it holds the quote.
BeforeRow == {"idle", "capacity", "insert"}
BeforePayment == BeforeRow \cup {"attach", "guard", "settle", "quota", "audit", "restore"}
Undecided == BeforePayment \cup {"bind", "claim", "activate", "create", "reopen", "release",
                                 "outbid", "lost"}
Holding == {"activate", "create", "link", "start", "refund", "fail", "reopen"}

\* The row follows the request: there is none before the insert and nothing ages or is
\* swept before the payment, it is unpaid until the activation and still there, paid, until
\* the handoff, which nobody else publishes (create_vm, activate_vm_reservation,
\* start_provisioning, check_expiries).
RowFollowsRequest ==
    \A r \in Requests :
        /\ pc[r] \in BeforeRow => vms[r] = NoRow
        /\ pc[r] = "attach" => Reserved(r)
        /\ pc[r] \in BeforeRow \cup {"attach"} => r \notin stale \cup swept
        /\ pc[r] \in Undecided => ~vms[r].paid /\ vms[r].status # "FAILED"
        /\ pc[r] \in {"link", "start"} => vms[r].status = "PROVISIONING" /\ vms[r].paid
        /\ vms[r].handoff = "ready" => pc[r] = "done"
        /\ vms[r].status = "RUNNING" => vms[r].handoff = "ready"
        /\ vms[r].status = "none" => vms[r] = NoRow

\* The money comes before the row is paid for, and a refund only after the money, when the
\* request is over or about to fail its row (check_payment, record_create_failure_refund).
MoneyFollowsRequest ==
    \A r \in Requests :
        /\ pc[r] \in BeforePayment => money[r] = "none"
        /\ pc[r] \in {"bind", "claim"} \cup Holding => money[r] # "none"
        /\ vms[r].paid => money[r] # "none"
        /\ owed[r] > 0 => /\ money[r] = "charged" /\ pc[r] \in {"fail", "done"}
                          /\ vms[r].handoff = "ready" => vms[r].status = "FAILED"

\* Only a payment is charged for, and neither a reopened quote nor a released reservation
\* leaves a charge behind; what fails its row has recorded the refund before, as long as
\* nothing else goes wrong (check_payment, admin_waiver_dispatch_guard, mark_vm_failed).
ChargeFollowsRequest ==
    \A r \in Requests :
        /\ pc[r] = "settle" => terms[r].payment = "x402"
        /\ money[r] = "charged" => /\ terms[r].payment = "x402"
                                   /\ pc[r] \notin {"reopen", "release"}
                                   /\ (pc[r] = "fail" /\ mishaps = 0) => owed[r] > 0

\* A request holds the quote from its claim until it has lost it or its VM.
Holds(r) == terms[r].quoted /\ (pc[r] \in Holding \/ (vms[r].paid /\ Live(r)))

\* The quote is held by one request and is consumed then, so that reopening it takes it
\* from nobody else (claim_quote, release_quote_claim).
QuoteHeld ==
    \A r \in Requests : Holds(r) =>
        quote.status = "CONSUMED" /\ \A s \in Requests : Holds(s) => s = r

\* The host, between the capacity check of a request and the insert of its row, has room
\* for it, and nobody else is between the two (reserve_vm_with_capacity).
InsertersFit ==
    \A r \in Requests : pc[r] = "insert" =>
        capLock = r /\ Cardinality({s \in Requests : Live(s) /\ vms[s].admitted}) < slots

\* A slot of the waiver window is spent for every waiver and for every request that is
\* about to be granted one or to give it back (_consume_admin_quota).
SlotsSpent ==
    Cardinality({r \in Requests : money[r] = "waived" \/ pc[r] \in {"audit", "restore"}})
        <= quota

\* What holds of the host, the domain, the waivers, the quote and the refunds together,
\* whatever concurrent checkouts, the sweeper and the provisioning do (create_vm,
\* reserve_vm_with_capacity, _apply_admin_bypass, check_expiries).
CheckoutInv == /\ TypeOK /\ AdmittedFit /\ DomainClaimLive /\ WaiversAccounted /\ OwedOnce
               /\ RowFollowsRequest /\ MoneyFollowsRequest /\ ChargeFollowsRequest
               /\ QuoteHeld /\ InsertersFit /\ SlotsSpent

\* An unpaid reservation does not pin its /64 and its slot forever: it is paid for,
\* released, or swept, also when its request died (check_expiries).
ReservationEnds == \A r \in Requests : Reserved(r) ~> ~Reserved(r)

\* The checkout is an order in the sense of PaidOrder: delivered only after it was
\* settled, never both delivered and refunded.
Order == INSTANCE PaidOrder WITH
    Orders <- Requests,
    phase <- [r \in Requests |->
                CASE owed[r] > 0 -> "refunded"
                  [] owed[r] = 0 /\ vms[r].status = "RUNNING" -> "delivered"
                  [] owed[r] = 0 /\ vms[r].status # "RUNNING" /\ money[r] # "none"
                       -> "settled"
                  [] OTHER -> "open"]
ImplementsPaidOrder == Order!Spec

=============================================================================
