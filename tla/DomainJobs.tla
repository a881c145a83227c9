----------------------------- MODULE DomainJobs -----------------------------
(***************************************************************************)
(* The fulfilment of paid domain orders by the single worker: the jobs of  *)
(* one domain name, the registrar behind it and the VM of a bundle.        *)
(*                                                                         *)
(* Every order has a fulfill_order job; the daily and the delayed          *)
(* reconcile_domain jobs of the name, which do the same, are one.  The     *)
(* worker runs one job at a time, and every transaction and every call to  *)
(* the registrar is a step of its own: the process may die between them    *)
(* and find the job again when its lock is stale, and the registrar may do *)
(* what it was asked without the answer arriving.                          *)
(***************************************************************************)
EXTENDS Integers, FiniteSets

CONSTANTS
    Orders,       \* orders for the name
    None,
    Other,        \* a VM that is in no order; a domain that Hyrule has from before
    Terms,        \* what the orders may be
    \* Bounds of the model.
    MaxAttempts,  \* attempts of a job; the code says 10
    Mishaps,      \* what may go wrong, each kind once
    MaxMishaps    \* how many kinds together

Reconcile == "reconcile"
Jobs == Orders \cup {Reconcile}

AllTerms == [action : {"register", "renew"}, bundle : {"no", "refund_all", "keep_vm"},
             waived : BOOLEAN]

ASSUME NoneIsNothing == None \notin Jobs /\ Other \notin Orders /\ Reconcile \notin Orders
ASSUME AttemptsArePositive == MaxAttempts \in Nat \ {0}
\* "A VM can only be bundled with a domain registration" (create_order).
ASSUME TermsAreKnown ==
    Terms \subseteq {t \in [Orders -> AllTerms] :
                       \A o \in Orders : t[o].bundle # "no" => t[o].action = "register"}

VARIABLES
    terms,      \* action, bundle and billing of each order
    order,      \* DomainOrderRow: status and the baseline of a renewal
    owed,       \* refund_owed events of each order, in full and for the VM alone
    vm,         \* the VM of a bundle: "none", "planned" (order.vm_id) or "built"
    domain,     \* DomainRow
    registrar,  \* what the registrar has of the name
    bought,     \* years the registrar has sold on each order
    jobs,       \* DomainJobRow of each order, and the reconcile_domain job
    work,       \* what the worker is doing
    wrong       \* the kinds of mishaps so far

facts == <<terms, registrar, bought>>
rows == <<order, owed, vm, domain>>
vars == <<facts, rows, jobs, work, wrong>>

Registers(o) == terms[o].action = "register"
Bundled(o) == terms[o].bundle # "no"

\* marker: the order that provider_operation_id names; zone: dnssec_status; vm: the
\* claim of a VM, by its order.
NoDomain == [status |-> "none", client |-> None, marker |-> None, id |-> FALSE,
             zone |-> "pending", vm |-> None]
NoJob == [status |-> "none", attempts |-> 0]
Held == [NoDomain EXCEPT !.status = "ACTIVE", !.id = TRUE, !.zone = "active"]
\* years sold, and years that a search or a look at the domain shows.
NotSold == [holder |-> None, status |-> "none", years |-> 0, shown |-> 0]

\* started: the marker was there when the row was reserved; guarded: inside the try of
\* _fulfill_order; again: the exception is retryable; then: where a failed order
\* leads to.
Idle == [at |-> "idle", job |-> None, who |-> None, started |-> FALSE, answer |-> "none",
         guarded |-> FALSE, again |-> FALSE, then |-> "complete"]

At(place) == work.at = place
Goto(place) == work' = [work EXCEPT !.at = place]
Raise(retryable) == work' = [work EXCEPT !.at = "raised", !.again = retryable]
\* A DomainProblem or a refusal of the registrar fails the order inside the try.
Refuse == IF work.guarded THEN Goto("fail") ELSE Raise(FALSE)

GoesWrong(kind) == /\ kind \in Mishaps \ wrong /\ Cardinality(wrong) < MaxMishaps
                   /\ wrong' = wrong \cup {kind}
Fine == UNCHANGED wrong

\* A call to the registrar fails, and may be tried again or not.
CallFails == \/ GoesWrong("outage") /\ Raise(TRUE)
             \/ GoesWrong("refusal") /\ Refuse

SetOrder(o, status) == order' = [order EXCEPT ![o].status = status]
Pending == {o \in Orders : order[o].status \in {"PROVIDER_PENDING", "SUBMITTING"}}

----------------------------------------------------------------------------
(* The queue.                                                              *)

\* _mark_paid queues the order with its job; DomainOrders is about what precedes it.
Pay(o) ==
    /\ order[o].status = "open" /\ SetOrder(o, "QUEUED")
    /\ jobs' = [jobs EXCEPT ![o].status = "queued"]
    /\ UNCHANGED <<facts, owed, vm, domain, work, wrong>>

\* Mutant of Daily: only names whose registrar id is known are swept.
DailyKnown ==
    /\ jobs[Reconcile].status \in {"none", "completed", "failed"} /\ domain.id
    /\ domain.status \in {"REGISTERING", "PROVIDER_PENDING", "ACTIVE"} /\ Pending # {}
    /\ jobs' = [jobs EXCEPT ![Reconcile] = [status |-> "queued", attempts |-> 0]]
    /\ UNCHANGED <<facts, rows, work, wrong>>

\* reconcile_pending: a new job every day.  Sweeps of a name that no order waits for
\* repeat what was found and are left out.
Daily ==
    /\ jobs[Reconcile].status \in {"none", "completed", "failed"}
    /\ domain.id \/ domain.marker # None
    /\ domain.status \in {"REGISTERING", "PROVIDER_PENDING", "ACTIVE"}
    /\ Pending # {} \/ domain.status = "REGISTERING"
    /\ jobs' = [jobs EXCEPT ![Reconcile] = [status |-> "queued", attempts |-> 0]]
    /\ UNCHANGED <<facts, rows, work, wrong>>

\* _claim_job: a job that waits, or one whose worker died.  Attempts beyond the last are
\* not told apart.
Claim(j) ==
    /\ At("idle") /\ jobs[j].status \in {"queued", "running"}
    /\ jobs' = [jobs EXCEPT ![j] = [status |-> "running",
                     attempts |-> IF @.attempts < MaxAttempts THEN @.attempts + 1 ELSE MaxAttempts]]
    /\ work' = [Idle EXCEPT !.at = "read", !.job = j,
                            !.who = IF j = Reconcile THEN None ELSE j]
    /\ UNCHANGED <<facts, rows, wrong>>

\* process_jobs, after a job that raised nothing.
Complete ==
    /\ At("complete") /\ work' = Idle
    /\ jobs' = [jobs EXCEPT ![work.job].status = "completed"]
    /\ UNCHANGED <<facts, rows, wrong>>

\* retry_job: an administrator queues a job that was given up, with the attempts it has
\* used up, unless its order is refunded.  A reconcile_domain job that failed is as
\* well replaced by the next sweep.
RetryJob(o) ==
    /\ jobs[o].status = "failed" /\ order[o].status # "REFUND_DUE"
    /\ GoesWrong("retry") /\ jobs' = [jobs EXCEPT ![o].status = "queued"]
    /\ UNCHANGED <<facts, rows, work>>

Me == work.who

\* Mutant of GiveUp: an order whose outcome is unknown is refunded.
GiveUpAndRefund ==
    /\ work' = [work EXCEPT !.at = "fail", !.who = work.job, !.then = "idle"]
    /\ UNCHANGED <<order, owed, vm, domain>>

\* _retry_or_fail_job for the order of the job, when the job is given up; a reconciliation may
\* have been about another order of the name.
GiveUp ==
    LET o == work.job IN
    \/ /\ Registers(o) /\ ~domain.id /\ domain.marker = o
       /\ domain' = [domain EXCEPT !.status = "PROVIDER_PENDING"]
       /\ SetOrder(o, "PROVIDER_PENDING") /\ work' = Idle /\ UNCHANGED <<owed, vm>>
    \/ /\ domain.id /\ ~Registers(o)
       /\ SetOrder(o, "PROVIDER_PENDING") /\ work' = Idle /\ UNCHANGED <<owed, vm, domain>>
    \/ /\ domain.id /\ Registers(o) /\ domain.zone = "active"
       /\ SetOrder(o, "ACTIVE") /\ work' = Idle
       /\ domain' = [domain EXCEPT !.status = "ACTIVE",
                                   !.vm = IF @ = o /\ vm[o] # "built" THEN None ELSE @]
       /\ owed' = [owed EXCEPT ![o].vm = IF Bundled(o) /\ ~terms[o].waived THEN @ + 1 ELSE @]
       /\ UNCHANGED vm
    \/ /\ domain.id /\ Registers(o) /\ domain.zone # "active"
       /\ SetOrder(o, "PROVIDER_PENDING") /\ work' = Idle
       /\ domain' = [domain EXCEPT !.status = "PROVIDER_PENDING", !.zone = "error"]
       /\ UNCHANGED <<owed, vm>>
    \/ /\ ~domain.id /\ ~(Registers(o) /\ domain.marker = o)
       /\ work' = [work EXCEPT !.at = "fail", !.who = o, !.then = "idle"]
       /\ UNCHANGED <<order, owed, vm, domain>>

\* _retry_or_fail_job.
RetryOrFail ==
    /\ At("raised") /\ Fine /\ UNCHANGED facts
    /\ IF work.again /\ jobs[work.job].attempts < MaxAttempts
       THEN /\ jobs' = [jobs EXCEPT ![work.job].status = "queued"]
            /\ work' = Idle /\ UNCHANGED rows
       ELSE /\ jobs' = [jobs EXCEPT ![work.job].status = "failed"]
            /\ IF work.job = Reconcile THEN work' = Idle /\ UNCHANGED rows ELSE GiveUp

\* The worker dies.  Between a failure and its refund that can lose the refund: a job
\* that was given up is not found again, and a marker hides that the request was
\* refused.  The marker also stays when the request was not sent.
Crash ==
    /\ ~At("idle")
    /\ GoesWrong(CASE work.at \in {"fail", "refund"} -> "dropped"
                   [] work.at \in {"submit", "extend"} -> "unsent"
                   [] OTHER -> "crash")
    /\ work' = Idle /\ UNCHANGED <<facts, rows, jobs>>

----------------------------------------------------------------------------
(* fulfill_order.                                                          *)

\* Mutant of ReadOrder: an order that was refunded is taken up again.
ReadOrderAgain ==
    /\ At("read") /\ work.job # Reconcile
    /\ SetOrder(Me, "CHECKING")
    /\ work' = [work EXCEPT !.guarded = TRUE,
                            !.at = IF Registers(Me) THEN "reserve" ELSE "renew"]
    /\ UNCHANGED <<facts, owed, vm, domain, jobs, wrong>>

\* _fulfill_order: what is left to do depends on how far the order is.
ReadOrder ==
    /\ At("read") /\ work.job # Reconcile
    /\ \/ /\ order[Me].status = "REFUND_DUE" /\ Goto("complete") /\ UNCHANGED order
       \/ /\ order[Me].status = "ACTIVE" /\ UNCHANGED order
          /\ Goto(IF Bundled(Me) /\ vm[Me] = "none" THEN "plan" ELSE "complete")
       \/ /\ order[Me].status = "PROVIDER_PENDING" /\ Goto("seek") /\ UNCHANGED order
       \/ /\ order[Me].status \notin {"REFUND_DUE", "ACTIVE", "PROVIDER_PENDING"}
          /\ SetOrder(Me, "CHECKING")
          /\ work' = [work EXCEPT !.guarded = TRUE,
                                  !.at = IF Registers(Me) THEN "reserve" ELSE "renew"]
    /\ UNCHANGED <<facts, owed, vm, domain, jobs, wrong>>

\* _reserve_registration_domain: the row is new, a failed one that is bound to this
\* order, or the one this order has already.
Reserve ==
    /\ At("reserve")
    /\ LET mine == IF domain.status = "none" \/ (domain.status = "FAILED" /\ ~domain.id)
                   THEN [NoDomain EXCEPT !.status = "REGISTERING", !.client = Me] ELSE domain
       IN /\ domain' = mine
          /\ work' = [work EXCEPT !.at = IF mine.client = Me THEN "check" ELSE "fail",
                                  !.started = mine.marker # None]
    /\ UNCHANGED <<facts, order, owed, vm, jobs, wrong>>

Found == registrar.shown > 0

\* The order is refused for its price, a name that has become premium, or a domain that has
\* changed hands.  That is a mishap once the purchase may have been made.
TurnsDear(asked) == Goto("fail") /\ IF asked THEN GoesWrong("dearer") ELSE Fine

\* _fulfill_registration: what the registrar says of the name.  A name that is not sold may
\* be unavailable or dearer than what was paid; whether it is premium is asked first.
Check ==
    /\ At("check")
    /\ \/ /\ Fine /\ (domain.id \/ (Found /\ work.started))
          /\ work' = [work EXCEPT !.at = "record", !.answer = registrar.status]
       \/ Fine /\ ~domain.id /\ Found /\ ~work.started /\ Goto("fail")
       \/ Fine /\ ~domain.id /\ ~Found /\ work.started /\ Raise(TRUE)
       \/ ~domain.id /\ TurnsDear(work.started)
       \/ /\ Fine /\ ~domain.id /\ ~Found /\ ~work.started
          /\ registrar.years = 0 /\ Goto("mark")
       \/ CallFails
    /\ UNCHANGED <<facts, rows, jobs>>

\* The durable marker is committed before the registration is posted.
MarkSubmitting ==
    /\ At("mark") /\ SetOrder(Me, "SUBMITTING") /\ Goto("submit")
    /\ domain' = [domain EXCEPT !.marker = Me]
    /\ UNCHANGED <<facts, owed, vm, jobs, wrong>>

Sell(seen) == /\ bought' = [bought EXCEPT ![Me] = @ + 1]
              /\ registrar' = [holder |-> IF registrar.years = 0 THEN Me ELSE registrar.holder,
                               status |-> IF registrar.years = 0 THEN "REQ" ELSE registrar.status,
                               years |-> registrar.years + 1,
                               shown |-> IF seen THEN registrar.years + 1
                                         ELSE registrar.shown]

\* register_domain: the name is sold, or refused; the request or its answer is lost.
Submit ==
    /\ At("submit") /\ UNCHANGED <<terms, rows, jobs>>
    /\ \/ /\ registrar.years = 0 /\ Sell(TRUE) /\ Fine
          /\ work' = [work EXCEPT !.at = "record", !.answer = "REQ"]
       \/ /\ registrar.years = 0 /\ Sell(FALSE) /\ GoesWrong("lost") /\ Raise(TRUE)
       \/ GoesWrong("unsent") /\ Raise(TRUE) /\ UNCHANGED <<registrar, bought>>
       \/ Goto("fail") /\ Fine /\ UNCHANGED <<registrar, bought>>

Queue(j) == [jobs EXCEPT ![j] = IF @.status \in {"queued", "running"} THEN @
                                ELSE [status |-> "queued", attempts |-> 0]]

\* The id, and what the registrar said, are committed together with the job that waits
\* for a registration that is pending.
Record ==
    /\ At("record")
    /\ LET active == work.answer = "ACT"
       IN /\ domain' = [domain EXCEPT !.id = TRUE,
                          !.status = IF active THEN "REGISTERING" ELSE "PROVIDER_PENDING"]
          /\ SetOrder(Me, IF active THEN "SUBMITTING" ELSE "PROVIDER_PENDING")
          /\ jobs' = IF active THEN jobs ELSE Queue(Reconcile)
          /\ Goto(IF active THEN "zone" ELSE "complete")
    /\ UNCHANGED <<facts, owed, vm, wrong>>

\* Mutant of Renew: the baseline is not kept.
RenewWithoutBaseline ==
    /\ At("renew") /\ Fine /\ domain.id /\ SetOrder(Me, "SUBMITTING") /\ Goto("extend")
    /\ UNCHANGED <<facts, owed, vm, domain, jobs>>

\* _fulfill_renewal up to the call: nothing is bought while the baseline of an earlier
\* call is not exceeded.  Every attempt looks at the owner and at the price first, also when
\* an earlier one has bought the year.
Renew ==
    /\ At("renew")
    /\ \/ Fine /\ ~domain.id /\ Goto("fail") /\ UNCHANGED order
       \/ domain.id /\ TurnsDear(order[Me].base >= 0) /\ UNCHANGED order
       \/ /\ Fine /\ domain.id /\ order[Me].base < 0
          /\ order' = [order EXCEPT ![Me] = [status |-> "SUBMITTING", base |-> registrar.shown]]
          /\ Goto("extend")
       \/ /\ Fine /\ domain.id /\ order[Me].base >= 0 /\ UNCHANGED order
          /\ IF registrar.shown <= order[Me].base THEN Raise(TRUE)
             ELSE work' = [work EXCEPT !.at = "renewed", !.answer = registrar.status]
       \/ CallFails /\ UNCHANGED order
    /\ UNCHANGED <<facts, owed, vm, domain, jobs>>

\* renew_domain.
Extend ==
    /\ At("extend") /\ UNCHANGED <<terms, rows, jobs>>
    /\ \/ /\ Sell(TRUE) /\ Fine
          /\ \E answer \in {"ACT", "REQ"} :
                work' = [work EXCEPT !.at = "renewed", !.answer = answer]
       \/ Sell(FALSE) /\ GoesWrong("lost") /\ Raise(TRUE)
       \/ GoesWrong("unsent") /\ Raise(TRUE) /\ UNCHANGED <<registrar, bought>>
       \/ Goto("fail") /\ Fine /\ UNCHANGED <<registrar, bought>>

Renewed ==
    /\ At("renewed")
    /\ LET active == work.answer = "ACT"
       IN /\ domain' = [domain EXCEPT !.status = IF active THEN "ACTIVE"
                                                 ELSE "PROVIDER_PENDING"]
          /\ SetOrder(Me, IF active THEN "ACTIVE" ELSE "PROVIDER_PENDING")
          /\ jobs' = IF active THEN jobs ELSE Queue(Reconcile)
    /\ Goto("complete") /\ UNCHANGED <<facts, owed, vm, wrong>>

----------------------------------------------------------------------------
(* From the registration to the delivery.                                  *)

\* _ensure_managed_zone: the DNS control plane, then the registrar's nameservers.
Zone ==
    /\ At("zone")
    /\ \/ /\ Fine /\ domain' = [domain EXCEPT !.zone = "active"] /\ Goto("finish")
       \/ /\ CallFails
          /\ domain' = IF work.guarded THEN [domain EXCEPT !.zone = "error"] ELSE domain
    /\ UNCHANGED <<facts, order, owed, vm, jobs>>

\* _finish_active_order, or a name that no order waits for.
Finish ==
    /\ At("finish") /\ domain' = [domain EXCEPT !.status = "ACTIVE"]
    /\ IF Me = None THEN UNCHANGED order ELSE SetOrder(Me, "ACTIVE")
    /\ Goto(IF Me # None /\ Registers(Me) /\ Bundled(Me) THEN "plan" ELSE "complete")
    /\ UNCHANGED <<facts, owed, vm, jobs, wrong>>

\* _provision_bundle plans the VM's id, and claims the domain for it.
Plan ==
    /\ At("plan")
    /\ vm' = [vm EXCEPT ![Me] = IF @ = "none" THEN "planned" ELSE @] /\ Goto("claim")
    /\ UNCHANGED <<facts, order, owed, domain, jobs, wrong>>

ClaimDomain ==
    /\ At("claim") /\ Fine
    /\ IF domain.vm \in {None, Me} /\ domain.status = "ACTIVE"
       THEN domain' = [domain EXCEPT !.vm = Me] /\ Goto("build")
       ELSE Refuse /\ UNCHANGED domain
    /\ UNCHANGED <<facts, order, owed, vm, jobs>>

\* The VM is reserved, activated, linked and started; an error gives the claim back.
Build ==
    /\ At("build")
    /\ \/ /\ Fine /\ vm' = [vm EXCEPT ![Me] = "built"] /\ Goto("complete") /\ UNCHANGED domain
       \/ /\ GoesWrong("capacity") /\ Raise(TRUE) /\ UNCHANGED vm
          /\ domain' = [domain EXCEPT !.vm = IF @ = Me THEN None ELSE @]
    /\ UNCHANGED <<facts, order, owed, jobs>>

\* _fail_paid_order keeps the VM of a bundle if it was asked to and can ...
Keep ==
    /\ At("fail") /\ Goto("refund")
    /\ \/ terms[Me].bundle # "keep_vm" /\ Fine /\ UNCHANGED vm
       \/ terms[Me].bundle = "keep_vm" /\ Fine /\ vm' = [vm EXCEPT ![Me] = "built"]
       \/ /\ terms[Me].bundle = "keep_vm" /\ GoesWrong("capacity")
          /\ vm' = [vm EXCEPT ![Me] = IF @ = "none" THEN "planned" ELSE @]
    /\ UNCHANGED <<facts, order, owed, domain, jobs>>

\* ... and records what is owed, whatever the order's state is.
Refund ==
    /\ At("refund")
    /\ SetOrder(Me, IF terms[Me].waived THEN "FAILED" ELSE "REFUND_DUE")
    /\ owed' = [owed EXCEPT ![Me].all = IF terms[Me].waived THEN @ ELSE @ + 1]
    /\ domain' = IF domain.client = Me /\ ~domain.id
                 THEN [domain EXCEPT !.status = "FAILED"] ELSE domain
    /\ work' = IF work.then = "idle" THEN Idle ELSE [work EXCEPT !.at = work.then]
    /\ UNCHANGED <<facts, vm, jobs, wrong>>

----------------------------------------------------------------------------
(* reconcile_domain.                                                       *)

ReadDomain ==
    /\ At("read") /\ work.job = Reconcile /\ Goto("seek")
    /\ UNCHANGED <<facts, rows, jobs, wrong>>

\* _reconcile_domain: a search result is adopted only with the marker of the order.
Seek ==
    /\ At("seek")
    /\ \/ /\ Fine
          /\ IF domain.id \/ (domain.marker # None /\ domain.marker = domain.client /\ Found)
             THEN \E o \in IF Pending = {} THEN {None} ELSE Pending :
                    work' = [work EXCEPT !.answer = registrar.status, !.who = o,
                               !.at = IF registrar.status = "DEL" /\ o # None
                                      THEN "fail" ELSE "apply",
                               !.then = IF registrar.status = "DEL" /\ o # None
                                        THEN "apply" ELSE "complete"]
             ELSE Goto("complete")
       \/ CallFails
    /\ UNCHANGED <<facts, rows, jobs>>

\* What was found is written; the job of a name that is still pending is raised again.
Apply ==
    /\ At("apply")
    /\ domain' = [domain EXCEPT !.id = TRUE,
                    !.status = CASE work.answer = "DEL" -> "EXPIRED"
                                 [] work.answer = "ACT" -> "REGISTERING"
                                 [] OTHER -> @]
    /\ IF Me # None /\ work.answer = "REQ" THEN SetOrder(Me, "PROVIDER_PENDING")
       ELSE UNCHANGED order
    /\ LET renewalUnseen == /\ Me # None /\ ~Registers(Me)
                            /\ registrar.shown <= order[Me].base
           waits == work.answer = "REQ" \/ (work.answer = "ACT" /\ renewalUnseen)
       IN IF waits /\ work.job = Reconcile /\ Me # None THEN Raise(TRUE)
          ELSE Goto(IF waits \/ work.answer = "DEL" THEN "complete" ELSE "zone")
    /\ UNCHANGED <<facts, owed, vm, jobs, wrong>>

----------------------------------------------------------------------------
(* The registrar and the customer.                                         *)

\* A pending registration is completed or deleted.
Decide ==
    /\ registrar.status = "REQ" /\ \E s \in {"ACT", "DEL"} : registrar' = [registrar EXCEPT !.status = s]
    /\ UNCHANGED <<terms, bought, rows, jobs, work, wrong>>

\* What was sold without an answer becomes visible.
Expose ==
    /\ registrar.shown < registrar.years
    /\ registrar' = [registrar EXCEPT !.shown = registrar.years]
    /\ UNCHANGED <<terms, bought, rows, jobs, work, wrong>>

\* The customer attaches a VM of another purchase (claim_vm_attachment).
AttachOther ==
    /\ domain.status = "ACTIVE" /\ domain.vm = None /\ GoesWrong("taken")
    /\ domain' = [domain EXCEPT !.vm = Other]
    /\ UNCHANGED <<facts, order, owed, vm, jobs, work>>

\* A renewal is for a name that is held; an order to register finds the name free or,
\* unknown to Hyrule's tables, in its account at the registrar.
Init ==
    /\ terms \in Terms
    /\ order = [o \in Orders |-> [status |-> "open", base |-> -1]]
    /\ owed = [o \in Orders |-> [all |-> 0, vm |-> 0]] /\ vm = [o \in Orders |-> "none"]
    /\ IF \E o \in Orders : ~Registers(o)
       THEN /\ domain = Held
            /\ registrar = [holder |-> Other, status |-> "ACT", years |-> 1, shown |-> 1]
       ELSE /\ domain = NoDomain
            /\ registrar \in {NotSold, [holder |-> Other, status |-> "ACT", years |-> 1,
                                        shown |-> 1]}
    /\ bought = [o \in Orders |-> 0]
    /\ jobs = [j \in Jobs |-> NoJob]
    /\ work = Idle /\ wrong = {}

Worker ==
    \/ \E j \in Jobs : Claim(j)
    \/ Complete \/ RetryOrFail \/ ReadOrder \/ Reserve \/ Check \/ MarkSubmitting \/ Submit
    \/ Record \/ Renew \/ Extend \/ Renewed \/ Zone \/ Finish \/ Plan \/ ClaimDomain \/ Build
    \/ Keep \/ Refund \/ ReadDomain \/ Seek \/ Apply

Next ==
    \/ Worker \/ Crash \/ Daily \/ Decide \/ Expose \/ AttachOther
    \/ \E o \in Orders : Pay(o) \/ RetryJob(o)

Spec == Init /\ [][Next]_vars

\* The worker runs on and comes round to every job; the daily sweep is scheduled; the
\* registrar gets to its decisions.
Fairness ==
    /\ WF_vars(Worker) /\ \A j \in Jobs : SF_vars(Claim(j))
    /\ WF_vars(Daily) /\ WF_vars(Decide) /\ WF_vars(Expose)

FairSpec == Spec /\ Fairness

----------------------------------------------------------------------------
(* Properties.                                                             *)

Trying == {"reserve", "check", "mark", "submit", "record"}
Renewing == {"renew", "extend", "renewed"}
Bundling == {"plan", "claim", "build"}
Failing == {"fail", "refund"}
Places == Trying \cup Renewing \cup Bundling \cup Failing
          \cup {"idle", "read", "complete", "raised", "zone", "finish", "seek", "apply"}

Parties == Orders \cup {None, Other}
WorkRows == [at : Places, job : Jobs \cup {None}, who : Orders \cup {None}, started : BOOLEAN,
             answer : {"none", "REQ", "ACT", "DEL"}, guarded : BOOLEAN, again : BOOLEAN,
             then : {"complete", "idle", "apply"}]
DomainRows == [status : {"none", "REGISTERING", "PROVIDER_PENDING", "ACTIVE", "FAILED", "EXPIRED"},
               client : Orders \cup {None}, marker : Orders \cup {None}, id : BOOLEAN,
               zone : {"pending", "active", "error"}, vm : Parties]
JobRows == [status : {"none", "queued", "running", "completed", "failed"},
            attempts : 0..MaxAttempts]
RegistrarRows == [holder : Parties, status : {"none", "REQ", "ACT", "DEL"}, years : Nat,
                  shown : Nat]

\* Besides the types: a registration is active only when the registrar's id is known.
TypeOK ==
    /\ terms \in [Orders -> AllTerms]
    /\ \A o \in Orders : Bundled(o) => Registers(o)
    /\ order \in [Orders -> [status : {"open", "QUEUED", "CHECKING", "SUBMITTING", "ACTIVE",
                                       "PROVIDER_PENDING", "REFUND_DUE", "FAILED"},
                             base : Int]]
    /\ owed \in [Orders -> [all : Nat, vm : Nat]]
    /\ vm \in [Orders -> {"none", "planned", "built"}]
    /\ domain \in DomainRows /\ registrar \in RegistrarRows /\ bought \in [Orders -> Nat]
    /\ domain.status = "ACTIVE" => domain.id /\ domain.zone = "active"
    /\ registrar.shown <= registrar.years
    /\ jobs \in [Jobs -> JobRows] /\ work \in WorkRows
    /\ wrong \subseteq Mishaps

\* However often a job dies or is retried, and whatever answer was lost, the registrar
\* sells at most one registration or renewal on an order ("never blindly submit a
\* second registration", _fulfill_registration, _fulfill_renewal).
SoldOnce == \A o \in Orders : bought[o] <= 1

\* An order is never refunded while what it paid for was sold, as long as the registrar
\* does not refuse a later call, no other VM takes the domain of a bundle, and neither the
\* price nor the owner changes between a purchase and the attempt that records it, after a
\* crash or a lost answer; a registration that the registrar deleted is not one (_retry_or_fail_job,
\* _fulfill_order, _fulfill_renewal).
RefundedNotSold ==
    wrong \cap {"refusal", "taken", "dearer"} = {} =>
        \A o \in Orders : owed[o].all > 0 /\ bought[o] > 0 => registrar.status = "DEL"

\* The row of an order is tied only to a registration that was made for this order: "an
\* unrelated legacy domain must never be assigned to whichever customer happens to
\* submit a new order for it" (_fulfill_registration, _reconcile_domain).
AdoptedIsOwn == (domain.id /\ domain.client # None) => registrar.holder = domain.client

\* A refund is never recorded twice for an order, nor in full besides the VM's part,
\* until an administrator retries what was given up.
OwedOnce == "retry" \in wrong \/ \A o \in Orders : owed[o].all + owed[o].vm <= 1

Lapsed == domain.status = "FAILED" /\ ~domain.id

\* The row and the registrar agree: the marker is that of the order the row is bound to, a marked
\* or adopted name was sold to this order, a registration under way is bound to the row, and a name
\* that is renewed stays the held one (_reserve_registration_domain, _fulfill_registration).
RowFollowsRegistrar ==
    /\ domain.marker \in {None, domain.client}
    /\ domain.client # None => Registers(domain.client)
    /\ domain.marker # None /\ registrar.years > 0 => registrar.holder = domain.marker
    /\ domain.id => registrar.years > 0
    /\ registrar.years > 0 <=> registrar.status # "none"
    /\ domain.status = "none" => domain = NoDomain
    /\ \A o \in Orders :
         /\ bought[o] > 0 => registrar.years > 0
         /\ ~Registers(o) => domain.id /\ domain.zone = "active" /\ domain.client = None
         /\ ~Registers(o) /\ bought[o] > 0 => order[o].base >= 0
         /\ Registers(o) /\ order[o].status \in {"SUBMITTING", "PROVIDER_PENDING", "ACTIVE"}
               => domain.client = o /\ ~Lapsed
    /\ domain.vm \in {None, Other, domain.client}
    /\ domain.vm = Other => "taken" \in wrong \/ Other = None

\* What the worker may rely on where it is, although the process may have died at any step before
\* (process_jobs, _fulfill_order, _reconcile_domain).
WorkerRelies ==
    LET at(places) == work.at \in places IN
    /\ ~At("idle") => /\ work.job \in Jobs
                      /\ jobs[work.job].status = "running" \/ (at(Failing) /\ work.then = "idle")
    /\ at({"read"} \cup Trying \cup Renewing) => work.then = "complete"
    /\ At("read") => ~work.guarded /\ Me = IF work.job = Reconcile THEN None ELSE work.job
    /\ work.guarded => Me = work.job
    /\ at(Trying \cup Renewing) => work.guarded
    /\ at(Trying \cup Renewing \cup Bundling \cup Failing) => Me # None
    /\ at(Trying) => Registers(Me)
    /\ at(Renewing) => ~Registers(Me)
    /\ at(Trying \ {"reserve"}) => domain.client = Me /\ ~Lapsed
    /\ At("check") => (work.started <=> domain.marker # None)
    /\ at({"mark", "submit"}) => registrar.years = 0
    /\ At("submit") => domain.marker = Me
    /\ At("record") => registrar.years > 0 /\ registrar.holder = Me
    /\ At("extend") => order[Me].base >= 0 /\ bought[Me] = 0
    /\ at({"seek", "apply"}) => ~work.guarded
    /\ At("apply") \/ work.then = "apply" =>
         /\ domain.id \/ (domain.marker # None /\ registrar.years > 0)
         /\ work.answer # "none"
    /\ work.then = "apply" => work.answer = "DEL" /\ ~work.guarded
    /\ work.answer = "DEL" => registrar.status = "DEL"
    /\ (at({"zone", "finish"}) \/ (At("apply") /\ work.answer # "DEL")) /\ Me # None => Me \in Pending
    /\ at({"zone", "finish"}) => domain.id /\ domain.status = "REGISTERING"
    /\ At("finish") => domain.zone = "active"
    /\ at(Bundling) => Registers(Me) /\ order[Me].status = "ACTIVE"
    /\ at({"plan", "claim"}) /\ work.guarded => domain.status = "ACTIVE"
    /\ At("zone") /\ work.guarded => Registers(Me)
    /\ at({"seek", "zone", "finish", "raised"} \cup Bundling) \/ (At("apply") /\ work.answer # "DEL")
         => (work.job \in Orders /\ Registers(work.job) => domain.client = work.job)

\* The worker is dealing with the order, and may yet owe a refund for it.
Engaged(o) == /\ o \in {Me, work.job} /\ work.at \notin {"idle", "read", "complete"}
              /\ ~(At("apply") /\ work.answer = "DEL")

\* Money that is owed is owed for an order that is over: no job takes it up again, except that an
\* administrator may retry a job of which the VM's part was refunded (_fail_paid_order, retry_job).
OwedIsOver ==
    \A o \in Orders :
        /\ owed[o].all > 0 => order[o].status = "REFUND_DUE" /\ owed[o].all = 1
        /\ Engaged(o) => owed[o].all = 0
        /\ "retry" \notin wrong => /\ owed[o].vm > 0 => /\ order[o].status = "ACTIVE" /\ owed[o].vm = 1
                                                        /\ jobs[o].status = "failed"
                                   /\ Engaged(o) => owed[o].vm = 0
        /\ order[o].status = "open" => jobs[o].status = "none"

\* What a refund of the order cannot give away: nothing was sold, the registrar has deleted
\* it, or there is nothing to refund.
Refundable(o) == bought[o] = 0 \/ registrar.status = "DEL" \/ terms[o].waived

\* An order is on its way to a refund only if that gives nothing away, and a registration that was
\* sold stays bound to its order, by the marker if not by the id.
SoldStaysBound ==
    wrong \cap {"refusal", "taken", "dearer"} = {} =>
        /\ work.at \in Failing => Refundable(Me)
        /\ \A o \in Orders : Registers(o) /\ ~Refundable(o) =>
                              domain.client = o /\ domain.marker = o /\ ~Lapsed

\* What was delivered stays delivered: an active order has its id and its zone, and the worker tries
\* and settles only orders that are not active yet, and has only orders that were paid
\* (_fulfill_order, _retry_or_fail_job).
ActiveIsOver ==
    /\ Me # None => order[Me].status # "open"
    /\ \A o \in Orders : order[o].status = "ACTIVE" => domain.id /\ domain.zone = "active"
    /\ work.at \in Trying \cup Renewing => order[Me].status \in {"CHECKING", "SUBMITTING"}
    /\ work.at \in {"seek", "zone", "finish", "raised"} \/ (At("apply") /\ work.answer # "DEL")
         => (work.job \in Orders => Registers(work.job) \/ order[work.job].status # "ACTIVE")

\* What holds of orders, refunds and registrations together: one sale, one refund, and
\* only registrations of one's own (_fulfill_order, _retry_or_fail_job).
FulfilmentInv == /\ TypeOK /\ SoldOnce /\ AdoptedIsOwn /\ OwedOnce
                 /\ RowFollowsRegistrar /\ WorkerRelies /\ OwedIsOver /\ SoldStaysBound
                 /\ ActiveIsOver

Ended(o) == order[o].status = "ACTIVE" \/ owed[o].all > 0
            \/ (terms[o].waived /\ order[o].status = "FAILED")

\* A paid order ends as a delivery or as a refund, through crashes, outages and lost
\* answers; unless the request itself was lost after the marker was written, or
\* the process died between the failure and the refund.
PaidOrderEnds ==
    \A o \in Orders :
        (order[o].status # "open")
            ~> (Ended(o) \/ wrong \cap {"unsent", "dropped"} # {})

\* "Plan the VM id before creating it. A worker crash between the VM insert and
\* quote/order linking can then replay safely": a planned VM is built, or money is owed.
PlannedVMReplayed ==
    \A o \in Orders : (vm[o] = "planned" /\ ~terms[o].waived)
                          ~> (vm[o] = "built" \/ owed[o].vm > 0 \/ owed[o].all > 0)

\* The worker may yet fail the order that it deals with, although it is active: inside the try
\* the claim of the domain for its VM can be refused (_fulfill_order).
AtRisk == work.at \in Failing \/ (work.guarded /\ work.at \in {"plan", "claim"})

\* Fulfilment is an order in the sense of PaidOrder: delivered with all that was bought.
\* A waived order that failed has nothing to give back and may be taken up again by a
\* job that died, so that it stays settled here.
Order == INSTANCE PaidOrder WITH
    phase <- [o \in Orders |->
                CASE owed[o].all > 0 -> "refunded"
                  [] order[o].status = "open" -> "open"
                  [] /\ order[o].status = "ACTIVE" /\ owed[o].all = 0
                     /\ Bundled(o) => vm[o] = "built" \/ owed[o].vm > 0
                     /\ ~(Me = o /\ AtRisk) -> "delivered"
                  [] OTHER -> "settled"]
ImplementsPaidOrder == Order!Spec

=============================================================================
