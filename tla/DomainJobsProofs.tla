-------------------------- MODULE DomainJobsProofs --------------------------
(***************************************************************************)
(* What TLC checks of DomainJobs for two orders holds for any number of    *)
(* orders of a name, of attempts and of mishaps.  FulfilmentInv is itself  *)
(* inductive: RowFollowsRegistrar ties the row to what was sold,           *)
(* WorkerRelies says what the place of the worker implies, OwedIsOver and  *)
(* SoldStaysBound why no second refund and no refund of what was sold can  *)
(* be under way, ActiveIsOver why what was delivered is not failed later.  *)
(* There is a lemma for each action (...OK), and one that the action is a  *)
(* step of PaidOrder (...Steps).                                           *)
(***************************************************************************)
EXTENDS DomainJobs, TLAPS

USE DEF facts, rows, vars, At, Fine, Me

Core == /\ TypeOK /\ SoldOnce /\ AdoptedIsOwn
        /\ RowFollowsRegistrar /\ WorkerRelies /\ OwedIsOver /\ SoldStaysBound /\ RefundedNotSold

----------------------------------------------------------------------------
(* What the small operators do to the records.                             *)

\* The worker goes to this place, or leaves everything and waits.
MovesTo(place) ==
    /\ work' \in WorkRows /\ work'.at = place /\ work'.job = work.job /\ work'.who = work.who
    /\ work'.started = work.started /\ work'.answer = work.answer /\ work'.guarded = work.guarded
    /\ work'.then = work.then
Waits ==
    /\ work' \in WorkRows /\ work'.at = "idle" /\ work'.job = None /\ work'.who = None
    /\ work'.answer = "none" /\ work'.guarded = FALSE /\ work'.then = "complete"

\* Goto changes the place alone.
LEMMA Going == ASSUME work \in WorkRows, NEW place \in Places, Goto(place) PROVE MovesTo(place)
  BY DEF Goto, WorkRows, MovesTo

\* Raise changes the place and whether the exception is retryable.
LEMMA Raising == ASSUME work \in WorkRows, NEW b \in BOOLEAN, Raise(b) PROVE MovesTo("raised")
  BY DEF Raise, WorkRows, MovesTo, Places

\* A refusal fails the order inside the try and is raised outside.
LEMMA Refusing ==
  ASSUME work \in WorkRows, Refuse PROVE MovesTo(IF work.guarded THEN "fail" ELSE "raised")
<1>1. "fail" \in Places
  BY DEF Places, Failing
<1>2. CASE work.guarded
  BY <1>1, <1>2, Going DEF Refuse
<1>3. CASE ~work.guarded
  BY <1>3, Raising DEF Refuse
<1> QED
  BY <1>2, <1>3

\* An idle worker knows nothing.
LEMMA Waiting == ASSUME work' = Idle PROVE Waits
  BY DEF Idle, WorkRows, Waits, Places

\* The status of one order is set.
OrderIs(o, status) ==
    /\ order'[o].status = status /\ order'[o].base = order[o].base
    /\ \A x \in Orders \ {o} : order'[x] = order[x]
OrderRows == [status : {"open", "QUEUED", "CHECKING", "SUBMITTING", "ACTIVE", "PROVIDER_PENDING",
                        "REFUND_DUE", "FAILED"}, base : Int]

LEMMA Setting ==
  ASSUME TypeOK, NEW o \in Orders, NEW s, SetOrder(o, s),
         s \in {"QUEUED", "CHECKING", "SUBMITTING", "ACTIVE", "PROVIDER_PENDING", "REFUND_DUE", "FAILED"}
  PROVE  OrderIs(o, s) /\ order' \in [Orders -> OrderRows]
<1>1. order \in [Orders -> OrderRows]
  BY DEF TypeOK, OrderRows
<1>2. order' = [order EXCEPT ![o] = [order[o] EXCEPT !.status = s]]
  BY <1>1 DEF SetOrder
<1>3. /\ [order[o] EXCEPT !.status = s] \in OrderRows /\ [order[o] EXCEPT !.status = s].status = s
      /\ [order[o] EXCEPT !.status = s].base = order[o].base
  BY <1>1 DEF OrderRows
<1> QED
  BY <1>1, <1>2, <1>3 DEF OrderIs

\* The status of one job is set.
LEMMA SettingJob ==
  ASSUME TypeOK, NEW j \in Jobs, NEW s \in {"none", "queued", "running", "completed", "failed"},
         jobs' = [jobs EXCEPT ![j].status = s]
  PROVE  jobs' \in [Jobs -> JobRows] /\ jobs'[j].status = s /\ \A k \in Jobs \ {j} : jobs'[k] = jobs[k]
<1>1. jobs \in [Jobs -> JobRows]
  BY DEF TypeOK
<1>2. [jobs[j] EXCEPT !.status = s] \in JobRows /\ [jobs[j] EXCEPT !.status = s].status = s
  BY <1>1 DEF JobRows
<1> QED
  BY <1>1, <1>2

\* A mishap is one more.
LEMMA Going_wrong == ASSUME NEW kind, GoesWrong(kind), wrong \subseteq Mishaps
                     PROVE  wrong \subseteq wrong' /\ wrong' \subseteq Mishaps /\ kind \in wrong'
  BY DEF GoesWrong

----------------------------------------------------------------------------
(* The parts of the invariant when their variables are left alone.         *)

\* The rows and the registrar.
LEMMA RowsKept ==
  ASSUME SoldOnce, AdoptedIsOwn, RowFollowsRegistrar, UNCHANGED <<terms, order, domain, registrar, bought>>,
         wrong \subseteq wrong'
  PROVE  (SoldOnce /\ AdoptedIsOwn /\ RowFollowsRegistrar)'
  BY DEF SoldOnce, AdoptedIsOwn, RowFollowsRegistrar, Registers, Lapsed

\* What was sold, when nothing is failed that was not before.
LEMMA SoldKept ==
  ASSUME SoldStaysBound, RefundedNotSold, UNCHANGED <<terms, domain, registrar, bought, owed>>,
         wrong \subseteq wrong', work'.at \in Failing => work.at \in Failing /\ work'.who = work.who
  PROVE  (SoldStaysBound /\ RefundedNotSold)'
<1>1. SoldStaysBound'
  BY DEF SoldStaysBound, Refundable, Registers, Lapsed
<1> QED
  BY <1>1 DEF RefundedNotSold

\* The worker, when it waits.
LEMMA WaitsRelies == ASSUME Waits PROVE WorkerRelies'
  BY DEF Waits, WorkerRelies, Trying, Renewing, Bundling, Failing

\* The worker stops, whatever it did: nothing it held on to was only in its memory.
LEMMA StopOK ==
  ASSUME Core, work' = Idle, UNCHANGED <<facts, rows>>, wrong \subseteq wrong', wrong' \subseteq Mishaps,
         jobs' \in [Jobs -> JobRows],
         \A o \in Orders : /\ jobs[o].status \in {"none", "failed"} => jobs'[o].status = jobs[o].status
  PROVE  Core'
<1>1. Waits
  BY Waiting
<1>2. TypeOK'
  BY <1>1 DEF Core, TypeOK, Waits, Registers, Bundled
<1>3. OwedIsOver'
  BY <1>1 DEF Core, OwedIsOver, Engaged, Waits
<1> QED
  BY <1>1, <1>2, <1>3, RowsKept, SoldKept, WaitsRelies DEF Core, Waits, Failing

----------------------------------------------------------------------------
(* The queue.                                                              *)

\* Paying queues an order that no job knows.
LEMMA PayOK == ASSUME Core, NEW o \in Orders, Pay(o) PROVE Core'
<1>0. TypeOK /\ UNCHANGED <<facts, owed, vm, domain, work, wrong>> /\ o \in Jobs
  BY DEF Core, Pay, Jobs
<1>1. OrderIs(o, "QUEUED") /\ order' \in [Orders -> OrderRows]
  BY <1>0, Setting DEF Pay
<1>2. jobs' \in [Jobs -> JobRows] /\ jobs'[o].status = "queued" /\ \A k \in Jobs \ {o} : jobs'[k] = jobs[k]
  BY <1>0, SettingJob DEF Pay
<1>3. order[o].status = "open" /\ jobs[o].status = "none"
  BY DEF Pay, Core, OwedIsOver
<1>4. TypeOK'
  BY <1>0, <1>1, <1>2 DEF TypeOK, OrderRows, Registers, Bundled
<1>5. (SoldOnce /\ AdoptedIsOwn /\ RowFollowsRegistrar)'
  BY <1>0, <1>1 DEF Core, SoldOnce, AdoptedIsOwn, RowFollowsRegistrar, Registers, Lapsed, OrderIs
<1>6. WorkerRelies'
  <2>1. /\ Pending \subseteq Pending'
        /\ \A x \in Orders : /\ order'[x].base = order[x].base
                             /\ order[x].status = "ACTIVE" => order'[x].status = "ACTIVE"
        /\ \A j \in Jobs : jobs[j].status = "running" => jobs'[j].status = "running"
    BY <1>1, <1>2, <1>3 DEF OrderIs, Pending
  <2>2. work.at \in Renewing \cup Bundling => work.who \in Orders
    BY DEF Core, TypeOK, WorkRows, WorkerRelies
  <2>3. ASSUME At("extend") PROVE order'[work.who].base >= 0
    <3>1. work.who \in Orders /\ order[work.who].base >= 0
      BY <2>2, <2>3 DEF Core, WorkerRelies, Renewing
    <3> QED
      BY <3>1, <2>1
  <2>4. ASSUME work.at \in Bundling PROVE order'[work.who].status = "ACTIVE"
    <3>1. work.who \in Orders /\ order[work.who].status = "ACTIVE"
      BY <2>2, <2>4 DEF Core, WorkerRelies
    <3> QED
      BY <3>1, <2>1
  <2>5. ~At("idle") => jobs'[work.job].status = "running" \/ (work.at \in Failing /\ work.then = "idle")
    BY <2>1 DEF Core, WorkerRelies
  <2> QED
    BY <1>0, <2>1, <2>3, <2>4, <2>5 DEF Core, WorkerRelies, Registers, Lapsed
<1>7. OwedIsOver'
  BY <1>0, <1>1, <1>2, <1>3 DEF Core, TypeOK, OwedIsOver, Engaged, OrderIs, Jobs
<1>8. (SoldStaysBound /\ RefundedNotSold)'
  BY <1>0, SoldKept DEF Core
<1> QED
  BY <1>4, <1>5, <1>6, <1>7, <1>8 DEF Core

\* The daily sweep and a later reconciliation queue one job.
LEMMA QueueOK ==
  ASSUME Core, UNCHANGED <<facts, rows, work>>, wrong \subseteq wrong', wrong' \subseteq Mishaps,
         jobs' \in [Jobs -> JobRows], NEW j \in Jobs, \A k \in Jobs \ {j} : jobs'[k] = jobs[k],
         jobs[j].status \notin {"queued", "running"}, j # Reconcile => "retry" \in wrong' /\ order[j].status # "open"
  PROVE  Core'
<1>1. TypeOK'
  BY DEF Core, TypeOK, Registers, Bundled
<1>2. WorkerRelies'
  BY DEF Core, TypeOK, WorkRows, WorkerRelies, Registers, Lapsed, Pending, Bundling, Trying, Renewing, Failing
<1>3. OwedIsOver'
  BY NoneIsNothing DEF Core, OwedIsOver, Engaged, Jobs
<1> QED
  BY <1>1, <1>2, <1>3, RowsKept, SoldKept DEF Core

LEMMA DailyOK == ASSUME Core, Daily PROVE Core'
<1>1. [status |-> "queued", attempts |-> 0] \in JobRows /\ Reconcile \in Jobs
  BY AttemptsArePositive DEF JobRows, Jobs
<1> QED
  BY <1>1, QueueOK DEF Daily, Core, TypeOK

LEMMA RetryJobOK == ASSUME Core, NEW o \in Orders, RetryJob(o) PROVE Core'
<1>1. o \in Jobs /\ o # Reconcile /\ order[o].status # "open"
  BY NoneIsNothing DEF Jobs, RetryJob, Core, OwedIsOver
<1>2. jobs' \in [Jobs -> JobRows] /\ \A k \in Jobs \ {o} : jobs'[k] = jobs[k]
  BY <1>1, SettingJob DEF RetryJob, Core
<1>3. wrong \subseteq wrong' /\ wrong' \subseteq Mishaps /\ "retry" \in wrong'
  BY Going_wrong DEF RetryJob, Core, TypeOK
<1>4. UNCHANGED <<facts, rows, work>> /\ jobs[o].status \notin {"queued", "running"}
  BY DEF RetryJob
<1> QED
  BY <1>1, <1>2, <1>3, <1>4, QueueOK

\* The worker takes a job that waits or whose worker died.
LEMMA ClaimOK == ASSUME Core, NEW j \in Jobs, Claim(j) PROVE Core'
<1> DEFINE who == IF j = Reconcile THEN None ELSE j
           row == [status |-> "running", attempts |-> IF jobs[j].attempts < MaxAttempts
                                                     THEN jobs[j].attempts + 1 ELSE MaxAttempts]
<1>1. /\ work' \in WorkRows /\ work'.at = "read" /\ work'.job = j /\ work'.who = who
      /\ work'.answer = "none" /\ work'.guarded = FALSE /\ work'.then = "complete"
  BY DEF Claim, Idle, WorkRows, Places, Jobs
<1>2. row \in JobRows /\ row.status = "running"
  BY AttemptsArePositive DEF Core, TypeOK, JobRows
<1>3. jobs' = [jobs EXCEPT ![j] = row]
  BY DEF Claim, Core, TypeOK
<1> HIDE DEF row
<1>4. jobs' \in [Jobs -> JobRows] /\ jobs'[j].status = "running" /\ \A k \in Jobs \ {j} : jobs'[k] = jobs[k]
  BY <1>2, <1>3 DEF Core, TypeOK
<1>5. UNCHANGED <<facts, rows, wrong>> /\ jobs[j].status \in {"queued", "running"}
  BY DEF Claim
<1>6. TypeOK'
  BY <1>1, <1>4, <1>5 DEF Core, TypeOK, Registers, Bundled
<1>7. WorkerRelies'
  BY <1>1, <1>4 DEF WorkerRelies, Trying, Renewing, Bundling, Failing
<1>8. OwedIsOver'
  BY <1>1, <1>4, <1>5 DEF Core, OwedIsOver, Engaged, Jobs
<1>9. (SoldStaysBound /\ RefundedNotSold)'
  BY <1>1, <1>5, SoldKept DEF Core, Failing
<1> QED
  BY <1>5, <1>6, <1>7, <1>8, <1>9, RowsKept DEF Core

\* A job that raised nothing is completed.
LEMMA CompleteOK == ASSUME Core, Complete PROVE Core'
<1>1. work.job \in Jobs /\ jobs[work.job].status = "running"
  BY DEF Complete, Core, WorkerRelies, Failing
<1>2. jobs' \in [Jobs -> JobRows] /\ \A k \in Jobs \ {work.job} : jobs'[k] = jobs[k]
  BY <1>1, SettingJob DEF Complete, Core
<1> QED
  BY <1>1, <1>2, StopOK DEF Complete, Core, TypeOK, Jobs

\* The process dies.
LEMMA CrashOK == ASSUME Core, Crash PROVE Core'
<1>1. wrong \subseteq wrong' /\ wrong' \subseteq Mishaps
  BY Going_wrong DEF Crash, Core, TypeOK
<1> QED
  BY <1>1, StopOK DEF Crash, Core, TypeOK

----------------------------------------------------------------------------
(* The registrar and the customer.                                         *)

\* A pending registration is decided, or a sale becomes visible.
LEMMA RegistrarOK == ASSUME Core, Decide \/ Expose PROVE Core'
<1>0. UNCHANGED <<terms, bought, rows, jobs, work, wrong>>
  BY DEF Decide, Expose
<1>1. /\ registrar' \in RegistrarRows /\ registrar'.holder = registrar.holder
      /\ registrar'.years = registrar.years /\ registrar'.shown <= registrar.years
      /\ registrar'.status = registrar.status \/ (registrar.status = "REQ" /\ registrar'.status \in {"ACT", "DEL"})
  <2>1. registrar \in RegistrarRows /\ registrar.shown <= registrar.years
    BY DEF Core, TypeOK
  <2>2. ASSUME registrar.status = "REQ", NEW s \in {"ACT", "DEL"}, registrar' = [registrar EXCEPT !.status = s]
        PROVE  /\ registrar' \in RegistrarRows /\ registrar'.holder = registrar.holder
               /\ registrar'.years = registrar.years /\ registrar'.shown = registrar.shown
               /\ registrar'.status = s
    BY <2>1, <2>2 DEF RegistrarRows
  <2>3. ASSUME registrar' = [registrar EXCEPT !.shown = registrar.years]
        PROVE  /\ registrar' \in RegistrarRows /\ registrar'.holder = registrar.holder
               /\ registrar'.years = registrar.years /\ registrar'.shown = registrar.years
               /\ registrar'.status = registrar.status
    BY <2>1, <2>3 DEF RegistrarRows
  <2>4. registrar.years <= registrar.years
    BY <2>1 DEF RegistrarRows
  <2> QED
    BY <2>1, <2>2, <2>3, <2>4 DEF Decide, Expose
<1>2. TypeOK'
  BY <1>0, <1>1 DEF Core, TypeOK, Registers, Bundled
<1>3. (SoldOnce /\ AdoptedIsOwn /\ RowFollowsRegistrar)'
  BY <1>0, <1>1 DEF Core, SoldOnce, AdoptedIsOwn, RowFollowsRegistrar, Registers, Lapsed
<1>4. WorkerRelies'
  BY <1>0, <1>1 DEF Core, WorkerRelies, Registers, Lapsed, Pending
<1>5. (OwedIsOver /\ SoldStaysBound)'
  BY <1>0, <1>1 DEF Core, OwedIsOver, Engaged, SoldStaysBound, Refundable, Registers, Lapsed
<1>6. RefundedNotSold'
  BY <1>0, <1>1 DEF Core, RefundedNotSold
<1> QED
  BY <1>2, <1>3, <1>4, <1>5, <1>6 DEF Core

\* Another VM takes the domain.
LEMMA AttachOtherOK == ASSUME Core, AttachOther PROVE Core'
<1>0. UNCHANGED <<facts, order, owed, vm, jobs, work>> /\ wrong \subseteq wrong' /\ wrong' \subseteq Mishaps /\ "taken" \in wrong'
  BY Going_wrong DEF AttachOther, Core, TypeOK
<1>1. /\ domain' \in DomainRows /\ domain'.status = domain.status /\ domain'.client = domain.client
      /\ domain.status = "ACTIVE"
      /\ domain'.marker = domain.marker /\ domain'.id = domain.id /\ domain'.zone = domain.zone
      /\ domain'.vm = Other
  BY DEF AttachOther, Core, TypeOK, DomainRows, Parties
<1>2. TypeOK'
  BY <1>0, <1>1 DEF Core, TypeOK, Registers, Bundled
<1>3. (SoldOnce /\ AdoptedIsOwn /\ RowFollowsRegistrar)'
  BY <1>0, <1>1 DEF Core, SoldOnce, AdoptedIsOwn, RowFollowsRegistrar, Registers, Lapsed
<1>4. WorkerRelies'
  BY <1>0, <1>1 DEF Core, WorkerRelies, Registers, Lapsed, Pending
<1>5. (OwedIsOver /\ SoldStaysBound /\ RefundedNotSold)'
  BY <1>0, <1>1 DEF Core, OwedIsOver, Engaged, SoldStaysBound, RefundedNotSold
<1> QED
  BY <1>2, <1>3, <1>4, <1>5 DEF Core

----------------------------------------------------------------------------
(* Steps of the worker that change nothing but where it is.                *)

Unowed(o) == owed[o].all = 0 /\ ("retry" \notin wrong => owed[o].vm = 0)

\* Such a step keeps the invariant when its new place is one the worker may be at.
LEMMA MoveOK ==
  ASSUME Core, UNCHANGED <<facts, rows, jobs>>, wrong \subseteq wrong', wrong' \subseteq Mishaps,
         work' \in WorkRows, WorkerRelies', \A o \in Orders : Engaged(o)' => Unowed(o),
         work'.at \in Failing /\ wrong' \cap {"refusal", "taken", "dearer"} = {} => Refundable(work'.who)
  PROVE  Core'
<1>1. TypeOK'
  BY DEF Core, TypeOK, Registers, Bundled
<1>2. OwedIsOver'
  BY DEF Core, OwedIsOver, Unowed
<1>3. SoldStaysBound'
  BY DEF Core, SoldStaysBound, Refundable, Registers, Lapsed
<1>4. RefundedNotSold'
  BY DEF Core, RefundedNotSold
<1> QED
  BY <1>1, <1>2, <1>3, <1>4, RowsKept DEF Core

\* An order the worker is dealing with is not refunded.
LEMMA EngagedUnowed == ASSUME Core, NEW o \in Orders, Engaged(o) PROVE Unowed(o)
<1>1. owed[o].vm \in Nat
  BY DEF Core, TypeOK
<1> QED
  BY <1>1 DEF Core, OwedIsOver, Unowed

\* A worker that is engaged stays so with the same order and the same job.
LEMMA StaysEngaged ==
  ASSUME Core, work.at \notin {"idle", "read", "complete", "apply"}, work'.job = work.job, work'.who = work.who,
         NEW o \in Orders, Engaged(o)'
  PROVE  Unowed(o)
<1>1. Engaged(o)
  BY DEF Engaged
<1> QED
  BY <1>1, EngagedUnowed

\* An exception is raised within the job.
LEMMA RaiseOK ==
  ASSUME Core, UNCHANGED <<facts, rows, jobs>>, wrong \subseteq wrong', wrong' \subseteq Mishaps,
         work.at \notin {"idle", "read", "reserve", "complete", "apply"} \cup Failing, MovesTo("raised")
  PROVE  Core'
<1>0. work.job \in Orders /\ Registers(work.job) => domain.client = work.job
  <2>1. CASE work.at \in {"check", "mark", "submit", "record"} \cup Renewing
    BY <2>1 DEF Core, WorkerRelies, Trying, Renewing
  <2>2. CASE work.at \in {"seek", "zone", "finish", "raised"} \cup Bundling
    BY <2>2 DEF Core, WorkerRelies
  <2> QED
    BY <2>1, <2>2 DEF Core, TypeOK, WorkRows, Places, Trying
<1>1. WorkerRelies'
  BY <1>0 DEF MovesTo, Core, WorkerRelies, Trying, Renewing, Bundling, Failing, Registers
<1> QED
  BY <1>1, MoveOK, StaysEngaged DEF MovesTo, Failing

\* The order is failed, and that gives nothing away.
LEMMA FailOK ==
  ASSUME Core, UNCHANGED <<facts, rows, jobs>>, wrong \subseteq wrong', wrong' \subseteq Mishaps,
         work.at \in Trying \cup Renewing \cup {"zone", "claim"}, MovesTo("fail"), work.guarded,
         wrong' \cap {"refusal", "taken", "dearer"} = {} => Refundable(work.who)
  PROVE  Core'
<1>0. work.who # None
  BY NoneIsNothing DEF Core, WorkerRelies, Trying, Renewing, Failing
<1>1. WorkerRelies'
  BY <1>0 DEF MovesTo, Core, WorkerRelies, Trying, Renewing, Bundling, Failing
<1>2. \A o \in Orders : Engaged(o)' => Unowed(o)
  BY StaysEngaged DEF MovesTo, Trying, Renewing
<1> QED
  BY <1>1, <1>2, MoveOK DEF MovesTo, Failing

\* A step that sells and refunds nothing keeps the invariant when the row it leaves agrees with the
\* registrar and the orders it touches are not refunded.
LEMMA StepOK ==
  ASSUME Core, UNCHANGED <<facts, owed>>, wrong \subseteq wrong',
         TypeOK', RowFollowsRegistrar', WorkerRelies', AdoptedIsOwn',
         \A o \in Orders : /\ order'[o] # order[o] => Unowed(o) /\ order'[o].status # "open"
                           /\ jobs'[o] = jobs[o]
                           /\ Engaged(o)' => Unowed(o),
         wrong' \cap {"refusal", "taken", "dearer"} = {} =>
           /\ work'.at \in Failing => Refundable(work'.who)
           /\ \A o \in Orders : domain.client = o /\ domain.marker = o /\ ~Lapsed
                  => (domain.client = o /\ domain.marker = o /\ ~Lapsed)'
  PROVE  Core'
<1>1. OwedIsOver'
  BY DEF Core, OwedIsOver, Unowed
<1>2. SoldStaysBound'
  BY DEF Core, SoldStaysBound, Refundable, Registers
<1>3. (RefundedNotSold /\ SoldOnce)'
  BY DEF Core, RefundedNotSold, SoldOnce
<1> QED
  BY <1>1, <1>2, <1>3 DEF Core

----------------------------------------------------------------------------
(* fulfill_order.                                                          *)

\* How far the order is decides where its job goes; a refunded order is not taken up.
LEMMA ReadOrderOK == ASSUME Core, ReadOrder PROVE Core'
<1>0. /\ work.who \in Orders /\ work.who = work.job /\ work.job \in Jobs /\ work.who # None
      /\ jobs[work.job].status = "running"
      /\ ~work.guarded /\ work.then = "complete" /\ work.at = "read" /\ work \in WorkRows
      /\ UNCHANGED <<facts, owed, vm, domain, jobs, wrong>>
      /\ wrong \subseteq wrong' /\ wrong' \subseteq Mishaps
  BY NoneIsNothing DEF ReadOrder, Core, TypeOK, WorkerRelies, Failing, Jobs
<1>1. ASSUME order[work.who].status # "REFUND_DUE" PROVE Unowed(work.who)
  <2>1. owed[work.who].all \in Nat /\ owed[work.who].vm \in Nat
    BY <1>0 DEF Core, TypeOK
  <2> QED
    BY <1>0, <1>1, <2>1 DEF Core, OwedIsOver, Unowed
<1>2. CASE order[work.who].status = "REFUND_DUE" /\ Goto("complete") /\ UNCHANGED order
  <2>1. MovesTo("complete")
    BY <1>0, <1>2, Going DEF Places
  <2>2. WorkerRelies'
    BY <1>0, <2>1 DEF MovesTo, Core, WorkerRelies, Trying, Renewing, Bundling, Failing
  <2> QED
    BY <1>0, <1>2, <2>1, <2>2, MoveOK DEF MovesTo, Engaged, Failing
<1>3. CASE order[work.who].status = "ACTIVE" /\ UNCHANGED order /\ Goto("complete")
  <2>1. MovesTo("complete")
    BY <1>0, <1>3, Going DEF Places
  <2>2. WorkerRelies'
    BY <1>0, <2>1 DEF MovesTo, Core, WorkerRelies, Trying, Renewing, Bundling, Failing
  <2> QED
    BY <1>0, <1>3, <2>1, <2>2, MoveOK DEF MovesTo, Engaged, Failing
<1>4. CASE order[work.who].status = "ACTIVE" /\ UNCHANGED order /\ Goto("plan") /\ Bundled(work.who)
  <2>1. MovesTo("plan")
    BY <1>0, <1>4, Going DEF Places, Bundling
  <2>2. Registers(work.who) /\ domain.client = work.who
    BY <1>0, <1>4 DEF Core, TypeOK, RowFollowsRegistrar
  <2>3. WorkerRelies'
    BY <1>0, <1>4, <2>1, <2>2 DEF MovesTo, Core, WorkerRelies, Trying, Renewing, Bundling, Failing, Registers
  <2> QED
    BY <1>0, <1>1, <1>4, <2>1, <2>3, MoveOK DEF MovesTo, Engaged, Failing
<1>5. CASE order[work.who].status = "PROVIDER_PENDING" /\ Goto("seek") /\ UNCHANGED order
  <2>1. MovesTo("seek")
    BY <1>0, <1>5, Going DEF Places
  <2>2. Registers(work.who) => domain.client = work.who
    BY <1>0, <1>5 DEF Core, RowFollowsRegistrar
  <2>3. WorkerRelies'
    BY <1>0, <1>5, <2>1, <2>2 DEF MovesTo, Core, WorkerRelies, Trying, Renewing, Bundling, Failing, Registers
  <2> QED
    BY <1>0, <1>1, <1>5, <2>1, <2>3, MoveOK DEF MovesTo, Engaged, Failing
<1>6. CASE /\ order[work.who].status \notin {"REFUND_DUE", "ACTIVE", "PROVIDER_PENDING"}
           /\ SetOrder(work.who, "CHECKING")
           /\ work' = [work EXCEPT !.guarded = TRUE,
                                   !.at = IF Registers(work.who) THEN "reserve" ELSE "renew"]
  <2>1. /\ work' \in WorkRows /\ work'.at = IF Registers(work.who) THEN "reserve" ELSE "renew"
        /\ work'.job = work.job /\ work'.who = work.who /\ work'.guarded = TRUE
        /\ work'.answer = work.answer /\ work'.then = work.then
    BY <1>0, <1>6 DEF WorkRows, Places, Trying, Renewing
  <2>2. OrderIs(work.who, "CHECKING") /\ order' \in [Orders -> OrderRows]
    BY <1>0, <1>6, Setting DEF Core
  <2>3. TypeOK'
    BY <1>0, <2>1, <2>2 DEF Core, TypeOK, OrderRows, Registers, Bundled
  <2>4. WorkerRelies'
    BY <1>0, <2>1 DEF Core, WorkerRelies, Trying, Renewing, Bundling, Failing, Registers
  <2>5. (RowFollowsRegistrar /\ AdoptedIsOwn)'
    BY <1>0, <2>2 DEF Core, RowFollowsRegistrar, AdoptedIsOwn, Registers, Lapsed, OrderIs
  <2>6. \A o \in Orders : /\ order'[o] # order[o] => Unowed(o) /\ order'[o].status # "open"
                          /\ jobs'[o] = jobs[o]
                          /\ Engaged(o)' => Unowed(o)
    BY <1>0, <1>1, <1>6, <2>1, <2>2 DEF OrderIs, Engaged
  <2>7. work'.at \notin Failing
    BY <2>1 DEF Failing
  <2> QED
    BY <1>0, <2>3, <2>4, <2>5, <2>6, <2>7, StepOK DEF Lapsed
<1> QED
  BY <1>2, <1>3, <1>4, <1>5, <1>6 DEF ReadOrder

\* A row is taken only when it is new or lapsed; a row of another order fails this one.
LEMMA ReserveOK == ASSUME Core, Reserve PROVE Core'
<1>0. /\ work.who \in Orders /\ work.who = work.job /\ work.job \in Jobs /\ work.who # None
      /\ jobs[work.job].status = "running" /\ Registers(work.who)
      /\ work.guarded /\ work.then = "complete" /\ work.at = "reserve" /\ work \in WorkRows
      /\ UNCHANGED <<facts, order, owed, vm, jobs, wrong>>
      /\ wrong \subseteq wrong' /\ wrong' \subseteq Mishaps
  BY NoneIsNothing DEF Reserve, Core, TypeOK, WorkRows, WorkerRelies, Trying, Failing, Jobs
<1>1. Unowed(work.who)
  BY <1>0, EngagedUnowed DEF Engaged
<1> DEFINE mine == IF domain.status = "none" \/ (domain.status = "FAILED" /\ ~domain.id)
                   THEN [NoDomain EXCEPT !.status = "REGISTERING", !.client = work.who] ELSE domain
<1>2. /\ work' \in WorkRows /\ work'.at = IF mine.client = work.who THEN "check" ELSE "fail"
      /\ work'.job = work.job /\ work'.who = work.who /\ work'.guarded = work.guarded
      /\ work'.started = (mine.marker # None)
      /\ work'.answer = work.answer /\ work'.then = work.then
  BY <1>0 DEF Reserve, WorkRows, Places, Trying, Failing
<1>3. domain' = mine
  BY DEF Reserve
<1>4. CASE domain.status = "none" \/ Lapsed
  <2>1. /\ domain' \in DomainRows /\ domain'.status = "REGISTERING" /\ domain'.client = work.who
        /\ domain'.marker = None /\ domain'.id = FALSE /\ domain'.zone = "pending" /\ domain'.vm = None
        /\ mine.client = work.who /\ mine.marker = None
    BY <1>0, <1>3, <1>4 DEF Lapsed, NoDomain, DomainRows, Parties
  <2>2. /\ ~domain.id /\ \A o \in Orders : domain.client = o /\ domain.marker = o => Lapsed
        /\ domain.status = "none" => domain.client = None
    BY <1>4, NoneIsNothing DEF Core, RowFollowsRegistrar, Lapsed, NoDomain, Jobs
  <2> HIDE DEF mine
  <2>3. TypeOK'
    BY <1>0, <1>2, <2>1 DEF Core, TypeOK, Registers, Bundled
  <2>4. WorkerRelies'
    BY <1>0, <1>2, <2>1 DEF Core, WorkerRelies, Trying, Renewing, Bundling, Failing, Registers, Lapsed
  <2>5. (RowFollowsRegistrar /\ AdoptedIsOwn)'
    BY <1>0, <1>4, <2>1, <2>2, NoneIsNothing DEF Core, RowFollowsRegistrar, AdoptedIsOwn, Registers, Lapsed, Jobs
  <2>6. \A o \in Orders : Engaged(o)' => Unowed(o)
    BY <1>0, <1>1, <1>2 DEF Engaged
  <2>7. work'.at \notin Failing
    BY <1>2, <2>1 DEF Failing
  <2> QED
    BY <1>0, <2>2, <2>3, <2>4, <2>5, <2>6, <2>7, StepOK
<1>5. CASE ~(domain.status = "none" \/ Lapsed)
  <2>1. domain' = domain /\ mine = domain
    BY <1>3, <1>5 DEF Lapsed
  <2>2. wrong' \cap {"refusal", "taken", "dearer"} = {} /\ work'.at \in Failing => Refundable(work'.who)
    BY <1>0, <1>2, <2>1 DEF Core, SoldStaysBound, Failing
  <2> HIDE DEF mine
  <2>3. WorkerRelies'
    BY <1>0, <1>2, <1>5, <2>1 DEF Core, WorkerRelies, Trying, Renewing, Bundling, Failing, Registers, Lapsed
  <2>4. \A o \in Orders : Engaged(o)' => Unowed(o)
    BY <1>0, <1>1, <1>2 DEF Engaged
  <2> QED
    BY <1>0, <1>2, <2>1, <2>2, <2>3, <2>4, MoveOK
<1> QED
  BY <1>4, <1>5

\* While an order is tried the worker is in its own job, inside the try, and owes nothing for it.
LEMMA Inside ==
  ASSUME Core, work.at \in Trying \cup Renewing
  PROVE  /\ work.who \in Orders /\ work.who = work.job /\ work.job \in Jobs /\ work.who # None
         /\ jobs[work.job].status = "running" /\ work.guarded /\ work.then = "complete" /\ work \in WorkRows
         /\ Unowed(work.who)
<1>1. /\ work.who \in Orders /\ work.who = work.job /\ work.job \in Jobs /\ work.who # None
      /\ jobs[work.job].status = "running" /\ work.guarded /\ work.then = "complete" /\ work \in WorkRows
  BY DEF Core, TypeOK, WorkRows, WorkerRelies, Trying, Renewing, Failing
<1>2. Engaged(work.who)
  BY <1>1 DEF Engaged, Trying, Renewing
<1> QED
  BY <1>1, <1>2, EngagedUnowed

\* An outage is raised; a refusal of the registrar fails the order.
LEMMA CallFailsOK ==
  ASSUME Core, work.at \in (Trying \cup Renewing) \ {"reserve"}, CallFails, UNCHANGED <<facts, rows, jobs>>
  PROVE  Core'
<1>1. work.guarded /\ work \in WorkRows /\ wrong \subseteq Mishaps
  BY Inside DEF Core, TypeOK
<1>2. CASE GoesWrong("outage") /\ Raise(TRUE)
  <2>1. wrong \subseteq wrong' /\ wrong' \subseteq Mishaps
    BY <1>1, <1>2, Going_wrong
  <2>2. MovesTo("raised")
    BY <1>1, <1>2, Raising
  <2> QED
    BY <2>1, <2>2, RaiseOK DEF Trying, Renewing, Failing
<1>3. CASE GoesWrong("refusal") /\ Refuse
  <2>1. wrong \subseteq wrong' /\ wrong' \subseteq Mishaps /\ "refusal" \in wrong'
    BY <1>1, <1>3, Going_wrong
  <2>2. MovesTo("fail")
    BY <1>1, <1>3, Refusing
  <2> QED
    BY <1>1, <2>1, <2>2, FailOK
<1> QED
  BY <1>2, <1>3 DEF CallFails

\* What the registrar says of the name is recorded, or the registration is begun, only for the order
\* the row is bound to; it fails only when no request was sent.
LEMMA CheckOK == ASSUME Core, Check PROVE Core'
<1>0. /\ work.at = "check" /\ work.at \in Trying \ {"reserve"} /\ work.at \notin {"idle", "read", "reserve", "complete", "apply"} \cup Failing
      /\ Registers(work.who) /\ domain.client = work.who /\ ~Lapsed
      /\ (work.started <=> domain.marker # None) /\ UNCHANGED <<facts, rows, jobs>>
  BY DEF Check, Core, WorkerRelies, Trying, Failing
<1>1. /\ work.who \in Orders /\ work.who = work.job /\ work.job \in Jobs /\ work.who # None
      /\ jobs[work.job].status = "running" /\ work.guarded /\ work.then = "complete" /\ work \in WorkRows
      /\ Unowed(work.who)
  BY <1>0, Inside
<1>2. wrong' = wrong => wrong \subseteq wrong' /\ wrong' \subseteq Mishaps
  BY DEF Core, TypeOK
<1>3. CASE /\ wrong' = wrong /\ (domain.id \/ (Found /\ work.started))
           /\ work' = [work EXCEPT !.at = "record", !.answer = registrar.status]
  <2>1. registrar.years > 0 /\ registrar.holder = work.who /\ registrar.status \in {"REQ", "ACT", "DEL"}
    <3>1. registrar.years > 0
      BY <1>3 DEF Core, TypeOK, RegistrarRows, RowFollowsRegistrar, Found
    <3> QED
      BY <1>0, <1>1, <1>3, <3>1 DEF Core, TypeOK, RegistrarRows, RowFollowsRegistrar, AdoptedIsOwn
  <2>2. /\ work' \in WorkRows /\ work'.at = "record" /\ work'.job = work.job /\ work'.who = work.who
        /\ work'.guarded = work.guarded /\ work'.answer = registrar.status /\ work'.then = work.then
    BY <1>1, <1>3, <2>1 DEF WorkRows, Places, Trying
  <2>3. WorkerRelies'
    BY <1>0, <1>1, <2>1, <2>2 DEF Core, WorkerRelies, Trying, Renewing, Bundling, Failing, Registers, Lapsed
  <2>4. \A o \in Orders : Engaged(o)' => Unowed(o)
    BY <1>1, <2>2 DEF Engaged
  <2> QED
    BY <1>0, <1>2, <1>3, <2>2, <2>3, <2>4, MoveOK DEF Failing
<1>4. CASE wrong' = wrong /\ ~work.started /\ Goto("fail")
  <2>1. MovesTo("fail")
    BY <1>1, <1>4, Going DEF Places, Failing
  <2>2. wrong' \cap {"refusal", "taken", "dearer"} = {} => Refundable(work.who)
    BY <1>0, <1>1, <1>4 DEF Core, SoldStaysBound
  <2> QED
    BY <1>0, <1>1, <1>2, <1>4, <2>1, <2>2, FailOK
<1>5. CASE wrong' = wrong /\ Raise(TRUE)
  <2>1. MovesTo("raised")
    BY <1>1, <1>5, Raising
  <2> QED
    BY <1>0, <1>2, <1>5, <2>1, RaiseOK
<1>6. CASE wrong' = wrong /\ ~work.started /\ registrar.years = 0 /\ Goto("mark")
  <2>1. MovesTo("mark")
    BY <1>1, <1>6, Going DEF Places, Trying
  <2>2. WorkerRelies'
    BY <1>0, <1>1, <1>6, <2>1 DEF MovesTo, Core, WorkerRelies, Trying, Renewing, Bundling, Failing, Registers, Lapsed
  <2>3. \A o \in Orders : Engaged(o)' => Unowed(o)
    BY <1>1, <2>1 DEF MovesTo, Engaged
  <2> QED
    BY <1>0, <1>2, <1>6, <2>1, <2>2, <2>3, MoveOK DEF MovesTo, Failing
<1>7. CASE CallFails
  BY <1>0, <1>7, CallFailsOK
<1>8. CASE GoesWrong("dearer") /\ Goto("fail")
  <2>1. wrong \subseteq wrong' /\ wrong' \subseteq Mishaps /\ "dearer" \in wrong'
    BY <1>8 DEF GoesWrong, Core, TypeOK
  <2>2. MovesTo("fail")
    BY <1>1, <1>8, Going DEF Places, Failing
  <2> QED
    BY <1>0, <1>1, <2>1, <2>2, FailOK
<1> QED
  BY <1>3, <1>4, <1>5, <1>6, <1>7, <1>8 DEF Check, TurnsDear

\* The marker is that of the order the row is bound to.
LEMMA MarkSubmittingOK == ASSUME Core, MarkSubmitting PROVE Core'
<1>0. /\ work.at = "mark" /\ work.at \in Trying \ {"reserve"} /\ registrar.years = 0
      /\ Registers(work.who) /\ domain.client = work.who /\ ~Lapsed
      /\ UNCHANGED <<facts, owed, vm, jobs, wrong>> /\ wrong \subseteq wrong'
  BY DEF MarkSubmitting, Core, WorkerRelies, Trying
<1>1. /\ work.who \in Orders /\ work.who = work.job /\ work.job \in Jobs /\ work.who # None
      /\ jobs[work.job].status = "running" /\ work.guarded /\ work.then = "complete" /\ work \in WorkRows
      /\ Unowed(work.who)
  BY <1>0, Inside
<1>2. MovesTo("submit")
  BY <1>1, Going DEF MarkSubmitting, Places, Trying
<1>3. OrderIs(work.who, "SUBMITTING") /\ order' \in [Orders -> OrderRows]
  BY <1>1, Setting DEF Core, MarkSubmitting
<1>4. /\ domain' \in DomainRows /\ domain'.status = domain.status /\ domain'.client = domain.client
      /\ domain'.id = domain.id /\ domain'.zone = domain.zone /\ domain'.vm = domain.vm
      /\ domain'.marker = work.who
  BY <1>1 DEF MarkSubmitting, Core, TypeOK, DomainRows
<1>5. domain.status # "none"
  BY <1>0, <1>1 DEF Core, RowFollowsRegistrar, NoDomain
<1>6. TypeOK'
  BY <1>0, <1>2, <1>3, <1>4 DEF Core, TypeOK, OrderRows, Registers, Bundled, MovesTo
<1>7. (RowFollowsRegistrar /\ AdoptedIsOwn)'
  BY <1>0, <1>1, <1>3, <1>4, <1>5 DEF Core, TypeOK, RegistrarRows, RowFollowsRegistrar, AdoptedIsOwn, Registers, Lapsed, OrderIs
<1>8. WorkerRelies'
  BY <1>0, <1>1, <1>2, <1>4 DEF MovesTo, Core, WorkerRelies, Trying, Renewing, Bundling, Failing, Registers, Lapsed
<1>9. \A o \in Orders : /\ order'[o] # order[o] => Unowed(o) /\ order'[o].status # "open"
                        /\ jobs'[o] = jobs[o]
                        /\ Engaged(o)' => Unowed(o)
  BY <1>0, <1>1, <1>2, <1>3 DEF OrderIs, Engaged, MovesTo
<1>10. \A o \in Orders : domain.client = o /\ domain.marker = o /\ ~Lapsed
                  => (domain.client = o /\ domain.marker = o /\ ~Lapsed)'
  BY <1>0, <1>4 DEF Lapsed
<1> QED
  BY <1>0, <1>2, <1>6, <1>7, <1>8, <1>9, <1>10, StepOK DEF MovesTo, Failing

\* A sale is the first on its order, and the row is already tied to the order.
LEMMA SellOK ==
  ASSUME Core, NEW seen \in BOOLEAN, Sell(seen), UNCHANGED <<terms, rows, jobs>>,
         wrong \subseteq wrong', wrong' \subseteq Mishaps,
         \/ work.at = "submit" /\ registrar.years = 0 /\ work'.at \in {"record", "raised"}
         \/ work.at = "extend" /\ work'.at \in {"renewed", "raised"},
         work' \in WorkRows, work'.job = work.job, work'.who = work.who, work'.guarded = work.guarded,
         work'.then = work.then, work'.answer \in {work.answer, "REQ", "ACT"}
  PROVE  Core'
<1>0. work.at \in Trying \cup Renewing
  BY DEF Trying, Renewing
<1>1. /\ work.who \in Orders /\ work.who = work.job /\ work.job \in Jobs /\ work.who # None
      /\ jobs[work.job].status = "running" /\ work.guarded /\ work.then = "complete" /\ work \in WorkRows
      /\ Unowed(work.who)
  BY <1>0, Inside
<1>2. /\ work.at = "submit" => /\ Registers(work.who) /\ domain.client = work.who /\ domain.marker = work.who
                               /\ ~Lapsed /\ ~domain.id /\ registrar.status = "none"
      /\ work.at = "extend" => /\ ~Registers(work.who) /\ order[work.who].base >= 0
                               /\ registrar.years > 0 /\ registrar.status # "none"
      /\ bought[work.who] = 0
  <2>1. CASE work.at = "submit"
    <3>1. registrar.years = 0 /\ ~(registrar.years > 0)
      BY <2>1 DEF Core, TypeOK, RegistrarRows
    <3>2. ~(bought[work.who] > 0) /\ bought[work.who] \in Nat
      BY <3>1, <1>1 DEF Core, TypeOK, RowFollowsRegistrar
    <3> QED
      BY <2>1, <3>1, <3>2 DEF Core, WorkerRelies, Trying, RowFollowsRegistrar
  <2>2. CASE work.at = "extend"
    <3>1. ~Registers(work.who) /\ order[work.who].base >= 0 /\ bought[work.who] = 0
      BY <2>2 DEF Core, WorkerRelies, Renewing
    <3> QED
      BY <2>2, <3>1, <1>1 DEF Core, RowFollowsRegistrar
  <2> QED
    BY <2>1, <2>2
<1>3. /\ registrar' \in RegistrarRows /\ registrar'.years = registrar.years + 1
      /\ registrar'.shown <= registrar'.years /\ registrar'.years > 0
      /\ registrar'.holder = IF registrar.years = 0 THEN work.who ELSE registrar.holder
      /\ registrar'.status = IF registrar.years = 0 THEN "REQ" ELSE registrar.status
      /\ registrar.years \in Nat
  BY <1>1 DEF Sell, Core, TypeOK, RegistrarRows, Parties
<1>4. /\ bought' \in [Orders -> Nat] /\ bought'[work.who] = 1
      /\ \A o \in Orders \ {work.who} : bought'[o] = bought[o]
  BY <1>1, <1>2 DEF Sell, Core, TypeOK
<1>5. TypeOK'
  BY <1>3, <1>4 DEF Core, TypeOK, Registers, Bundled
<1>6. SoldOnce'
  BY <1>4 DEF Core, SoldOnce
<1>7. AdoptedIsOwn'
  BY <1>2, <1>3 DEF Core, AdoptedIsOwn, RowFollowsRegistrar
<1>8. RowFollowsRegistrar'
  <2>1. CASE work.at = "submit"
    BY <1>1, <1>2, <1>3, <1>4, <2>1 DEF Core, RowFollowsRegistrar, Registers, Lapsed
  <2>2. CASE work.at = "extend"
    BY <1>1, <1>2, <1>3, <1>4, <2>2 DEF Core, RowFollowsRegistrar, Registers, Lapsed
  <2> QED
    BY <2>1, <2>2
<1>9. WorkerRelies'
  <2>1. CASE work.at = "submit"
    BY <1>1, <1>2, <1>3, <1>4, <2>1 DEF Core, WorkerRelies, Trying, Renewing, Bundling, Failing, Registers, Lapsed
  <2>2. CASE work.at = "extend"
    BY <1>1, <1>2, <1>3, <1>4, <2>2 DEF Core, WorkerRelies, Trying, Renewing, Bundling, Failing, Registers, Lapsed
  <2> QED
    BY <2>1, <2>2
<1>10. OwedIsOver'
  BY <1>1 DEF Core, OwedIsOver, Engaged, Unowed
<1>11. SoldStaysBound'
  <2>1. work'.at \notin Failing
    BY DEF Failing
  <2>2. registrar.years = 0 => \A o \in Orders : bought[o] = 0
    BY DEF Core, TypeOK, RowFollowsRegistrar
  <2> QED
    BY <2>1, <2>2, <1>1, <1>2, <1>3, <1>4 DEF Core, SoldStaysBound, Refundable, Registers, Lapsed
<1>12. RefundedNotSold'
  <2>1. registrar.years = 0 => \A o \in Orders : bought[o] = 0
    BY DEF Core, TypeOK, RowFollowsRegistrar
  <2> QED
    BY <2>1, <1>1, <1>2, <1>3, <1>4 DEF Core, RefundedNotSold, Unowed
<1> QED
  BY <1>5, <1>6, <1>7, <1>8, <1>9, <1>10, <1>11, <1>12 DEF Core

\* What a request may come to when nothing is sold: it is lost, or refused.
LEMMA NotSoldOK ==
  ASSUME Core, work.at \in {"submit", "extend"}, UNCHANGED <<facts, rows, jobs>>,
         \/ GoesWrong("unsent") /\ Raise(TRUE)
         \/ Goto("fail") /\ Fine
  PROVE  Core'
<1>0. work.at \in Trying \cup Renewing /\ work.at \notin {"idle", "read", "reserve", "complete", "apply"} \cup Failing
  BY DEF Trying, Renewing, Failing
<1>1. work.who \in Orders /\ work.guarded /\ work \in WorkRows /\ wrong \subseteq Mishaps
  BY <1>0, Inside DEF Core, TypeOK
<1>2. CASE GoesWrong("unsent") /\ Raise(TRUE)
  <2>1. MovesTo("raised") /\ wrong \subseteq wrong' /\ wrong' \subseteq Mishaps
    BY <1>1, <1>2, Raising, Going_wrong
  <2> QED
    BY <1>0, <2>1, RaiseOK
<1>3. CASE Goto("fail") /\ Fine
  <2>1. MovesTo("fail")
    BY <1>1, <1>3, Going DEF Places, Failing
  <2>2. bought[work.who] = 0
    <3>1. bought[work.who] \in Nat /\ registrar.years \in Nat
      BY <1>1 DEF Core, TypeOK, RegistrarRows
    <3> QED
      BY <1>1, <3>1 DEF Core, WorkerRelies, RowFollowsRegistrar
  <2> QED
    BY <1>0, <1>1, <1>3, <2>1, <2>2, FailOK DEF Refundable
<1> QED
  BY <1>2, <1>3

LEMMA SubmitOK == ASSUME Core, Submit PROVE Core'
<1>0. work.at = "submit" /\ UNCHANGED <<terms, rows, jobs>> /\ wrong \subseteq Mishaps /\ work \in WorkRows
  BY DEF Submit, Core, TypeOK
<1>1. CASE /\ registrar.years = 0 /\ Sell(TRUE) /\ Fine
           /\ work' = [work EXCEPT !.at = "record", !.answer = "REQ"]
  <2>1. /\ work' \in WorkRows /\ work'.at = "record" /\ work'.job = work.job /\ work'.who = work.who
        /\ work'.guarded = work.guarded /\ work'.answer = "REQ" /\ work'.then = work.then
    BY <1>0, <1>1 DEF WorkRows, Places, Trying
  <2> QED
    BY <1>0, <1>1, <2>1, SellOK
<1>2. CASE registrar.years = 0 /\ Sell(FALSE) /\ GoesWrong("lost") /\ Raise(TRUE)
  <2>1. MovesTo("raised") /\ wrong \subseteq wrong' /\ wrong' \subseteq Mishaps
    BY <1>0, <1>2, Raising, Going_wrong
  <2> QED
    BY <1>0, <1>2, <2>1, SellOK DEF MovesTo
<1>3. CASE UNCHANGED <<registrar, bought>> /\ ((GoesWrong("unsent") /\ Raise(TRUE)) \/ (Goto("fail") /\ Fine))
  BY <1>0, <1>3, NotSoldOK
<1> QED
  BY <1>1, <1>2, <1>3 DEF Submit

----------------------------------------------------------------------------
(* Renewals.                                                               *)

LEMMA ExtendOK == ASSUME Core, Extend PROVE Core'
<1>0. work.at = "extend" /\ UNCHANGED <<terms, rows, jobs>> /\ wrong \subseteq Mishaps /\ work \in WorkRows
  BY DEF Extend, Core, TypeOK
<1>1. ASSUME Sell(TRUE), Fine, NEW answer \in {"ACT", "REQ"}, work' = [work EXCEPT !.at = "renewed", !.answer = answer]
      PROVE  Core'
  <2>1. /\ work' \in WorkRows /\ work'.at = "renewed" /\ work'.job = work.job /\ work'.who = work.who
        /\ work'.guarded = work.guarded /\ work'.answer = answer /\ work'.then = work.then
    BY <1>0, <1>1 DEF WorkRows, Places, Renewing
  <2> QED
    BY <1>0, <1>1, <2>1, SellOK
<1>2. CASE Sell(FALSE) /\ GoesWrong("lost") /\ Raise(TRUE)
  <2>1. MovesTo("raised") /\ wrong \subseteq wrong' /\ wrong' \subseteq Mishaps
    BY <1>0, <1>2, Raising, Going_wrong
  <2> QED
    BY <1>0, <1>2, <2>1, SellOK DEF MovesTo
<1>3. CASE UNCHANGED <<registrar, bought>> /\ ((GoesWrong("unsent") /\ Raise(TRUE)) \/ (Goto("fail") /\ Fine))
  BY <1>0, <1>3, NotSoldOK
<1> QED
  BY <1>1, <1>2, <1>3 DEF Extend

\* The baseline of a renewal is kept before the call, once.
LEMMA RenewOK == ASSUME Core, Renew PROVE Core'
<1>0. /\ work.at = "renew" /\ work.at \in Renewing /\ UNCHANGED <<facts, owed, vm, domain, jobs>>
      /\ work.at \notin {"idle", "read", "reserve", "complete", "apply"} \cup Failing
      /\ wrong' = wrong => wrong \subseteq wrong' /\ wrong' \subseteq Mishaps
  BY DEF Renew, Renewing, Failing, Core, TypeOK
<1>1. /\ work.who \in Orders /\ work.who = work.job /\ work.job \in Jobs /\ work.who # None
      /\ jobs[work.job].status = "running" /\ work.guarded /\ work.then = "complete" /\ work \in WorkRows
      /\ Unowed(work.who) /\ ~Registers(work.who)
  BY <1>0, Inside DEF Core, WorkerRelies
<1>2. /\ order[work.who].base \in Int /\ bought[work.who] \in Nat /\ registrar.shown \in Nat
      /\ order \in [Orders -> OrderRows]
  BY <1>1 DEF Core, TypeOK, RegistrarRows, OrderRows
<1>3. domain.id /\ bought[work.who] > 0 => order[work.who].base >= 0
  BY <1>1 DEF Core, RowFollowsRegistrar
<1>4. domain.id
  BY <1>1 DEF Core, RowFollowsRegistrar
<1>5. CASE Fine /\ order[work.who].base < 0 /\ Goto("fail") /\ UNCHANGED order
  <2>1. MovesTo("fail")
    BY <1>1, <1>5, Going DEF Places, Failing
  <2>2. bought[work.who] = 0
    BY <1>2, <1>3, <1>4, <1>5
  <2> QED
    BY <1>0, <1>1, <1>5, <2>1, <2>2, FailOK DEF Refundable
<1>6. CASE /\ Fine /\ order[work.who].base < 0 /\ Goto("extend")
           /\ order' = [order EXCEPT ![work.who] = [status |-> "SUBMITTING", base |-> registrar.shown]]
  <2>1. MovesTo("extend")
    BY <1>1, <1>6, Going DEF Places, Renewing
  <2>2. bought[work.who] = 0
    BY <1>2, <1>3, <1>4, <1>6
  <2>3. [status |-> "SUBMITTING", base |-> registrar.shown] \in OrderRows
    BY <1>2 DEF OrderRows
  <2>4. /\ order' \in [Orders -> OrderRows] /\ order'[work.who].status = "SUBMITTING"
        /\ order'[work.who].base >= 0 /\ \A x \in Orders \ {work.who} : order'[x] = order[x]
    BY <1>1, <1>2, <1>6, <2>3
  <2>5. TypeOK'
    BY <1>0, <1>6, <2>1, <2>4 DEF Core, TypeOK, OrderRows, Registers, Bundled, MovesTo
  <2>6. (RowFollowsRegistrar /\ AdoptedIsOwn)'
    BY <1>0, <1>1, <1>6, <2>4 DEF Core, RowFollowsRegistrar, AdoptedIsOwn, Registers, Lapsed
  <2>7. WorkerRelies'
    BY <1>0, <1>1, <2>1, <2>2, <2>4 DEF MovesTo, Core, WorkerRelies, Trying, Renewing, Bundling, Failing, Registers
  <2>8. \A o \in Orders : /\ order'[o] # order[o] => Unowed(o) /\ order'[o].status # "open"
                          /\ jobs'[o] = jobs[o]
                          /\ Engaged(o)' => Unowed(o)
    BY <1>0, <1>1, <2>1, <2>4 DEF Engaged, MovesTo
  <2> QED
    BY <1>0, <1>6, <2>1, <2>5, <2>6, <2>7, <2>8, StepOK DEF MovesTo, Failing, Lapsed
<1>7. CASE Fine /\ UNCHANGED order /\ Raise(TRUE)
  <2>1. MovesTo("raised")
    BY <1>1, <1>7, Raising
  <2> QED
    BY <1>0, <1>7, <2>1, RaiseOK
<1>8. CASE Fine /\ UNCHANGED order /\ work' = [work EXCEPT !.at = "renewed", !.answer = registrar.status]
  <2>1. registrar.status \in {"none", "REQ", "ACT", "DEL"}
    BY DEF Core, TypeOK, RegistrarRows
  <2>2. /\ work' \in WorkRows /\ work'.at = "renewed" /\ work'.job = work.job /\ work'.who = work.who
        /\ work'.guarded = work.guarded /\ work'.answer = registrar.status /\ work'.then = work.then
    BY <1>1, <1>8, <2>1 DEF WorkRows, Places, Renewing
  <2>3. WorkerRelies'
    BY <1>0, <1>1, <1>8, <2>2 DEF Core, WorkerRelies, Trying, Renewing, Bundling, Failing, Registers
  <2>4. \A o \in Orders : Engaged(o)' => Unowed(o)
    BY <1>1, <2>2 DEF Engaged
  <2> QED
    BY <1>0, <1>8, <2>2, <2>3, <2>4, MoveOK DEF Failing
<1>9. CASE CallFails /\ UNCHANGED order
  BY <1>0, <1>9, CallFailsOK
<1>10. CASE GoesWrong("dearer") /\ Goto("fail") /\ UNCHANGED order
  <2>1. wrong \subseteq wrong' /\ wrong' \subseteq Mishaps /\ "dearer" \in wrong'
    BY <1>10 DEF GoesWrong, Core, TypeOK
  <2>2. MovesTo("fail")
    BY <1>1, <1>10, Going DEF Places, Failing
  <2> QED
    BY <1>0, <1>1, <1>10, <2>1, <2>2, FailOK
<1>11. order[work.who].base < 0 \/ order[work.who].base >= 0
  BY <1>2
<1> QED
  BY <1>4, <1>5, <1>6, <1>7, <1>8, <1>9, <1>10, <1>11 DEF Renew, TurnsDear

\* Queueing the reconciliation leaves every job that runs, and those of the orders.
LEMMA Queueing ==
  ASSUME TypeOK, jobs' = jobs \/ jobs' = Queue(Reconcile)
  PROVE  /\ jobs' \in [Jobs -> JobRows] /\ \A o \in Orders : jobs'[o] = jobs[o]
         /\ \A j \in Jobs : jobs[j].status = "running" => jobs'[j].status = "running"
<1>1. [status |-> "queued", attempts |-> 0] \in JobRows /\ Reconcile \in Jobs /\ jobs \in [Jobs -> JobRows]
  BY AttemptsArePositive DEF JobRows, Jobs, TypeOK
<1> QED
  BY <1>1, NoneIsNothing DEF Queue, Jobs

\* A renewal is done, or waits for the registrar.
LEMMA RenewedOK == ASSUME Core, Renewed PROVE Core'
<1>0. /\ work.at = "renewed" /\ work.at \in Renewing /\ UNCHANGED <<facts, owed, vm, wrong>>
      /\ wrong \subseteq wrong'
  BY DEF Renewed, Renewing
<1>1. /\ work.who \in Orders /\ work.who = work.job /\ work.job \in Jobs /\ work.who # None
      /\ jobs[work.job].status = "running" /\ work.guarded /\ work.then = "complete" /\ work \in WorkRows
      /\ Unowed(work.who) /\ ~Registers(work.who)
  BY <1>0, Inside DEF Core, WorkerRelies
<1>2. MovesTo("complete")
  BY <1>1, Going DEF Renewed, Places
<1>3. PICK s \in {"ACTIVE", "PROVIDER_PENDING"} : SetOrder(work.who, s) /\ domain' = [domain EXCEPT !.status = s]
  BY DEF Renewed
<1>4. OrderIs(work.who, s) /\ order' \in [Orders -> OrderRows]
  BY <1>1, <1>3, Setting DEF Core
<1>5. /\ domain' \in DomainRows /\ domain'.status = s /\ domain'.client = domain.client
      /\ domain'.id = domain.id /\ domain'.zone = domain.zone /\ domain'.vm = domain.vm
      /\ domain'.marker = domain.marker
  BY <1>3 DEF Core, TypeOK, DomainRows
<1>6. /\ jobs' \in [Jobs -> JobRows] /\ \A o \in Orders : jobs'[o] = jobs[o]
      /\ \A j \in Jobs : jobs[j].status = "running" => jobs'[j].status = "running"
  BY Queueing DEF Renewed, Core
<1>7. domain.id /\ domain.zone = "active" /\ domain.client = None
  BY <1>1 DEF Core, RowFollowsRegistrar
<1>8. TypeOK'
  BY <1>0, <1>2, <1>4, <1>5, <1>6, <1>7 DEF Core, TypeOK, OrderRows, Registers, Bundled, MovesTo
<1>9. (RowFollowsRegistrar /\ AdoptedIsOwn)'
  BY <1>0, <1>1, <1>4, <1>5, <1>7 DEF Core, RowFollowsRegistrar, AdoptedIsOwn, Registers, Lapsed, OrderIs
<1>10. WorkerRelies'
  BY <1>0, <1>1, <1>2, <1>6 DEF MovesTo, Core, WorkerRelies, Trying, Renewing, Bundling, Failing
<1>11. \A o \in Orders : /\ order'[o] # order[o] => Unowed(o) /\ order'[o].status # "open"
                         /\ jobs'[o] = jobs[o]
                         /\ Engaged(o)' => Unowed(o)
  BY <1>0, <1>1, <1>2, <1>4, <1>6 DEF OrderIs, Engaged, MovesTo
<1>12. \A o \in Orders : domain.client = o /\ domain.marker = o /\ ~Lapsed
                  => (domain.client = o /\ domain.marker = o /\ ~Lapsed)'
  BY <1>5, <1>7 DEF Lapsed
<1> QED
  BY <1>0, <1>2, <1>8, <1>9, <1>10, <1>11, <1>12, StepOK DEF MovesTo, Failing

----------------------------------------------------------------------------
(* From the registration to the delivery.                                  *)

\* The id that is kept is that of a registration of this order.
LEMMA RecordOK == ASSUME Core, Record PROVE Core'
<1>0. /\ work.at = "record" /\ work.at \in Trying \ {"reserve"} /\ UNCHANGED <<facts, owed, vm, wrong>>
      /\ wrong \subseteq wrong' /\ registrar.years > 0 /\ registrar.holder = work.who
      /\ Registers(work.who) /\ domain.client = work.who /\ ~Lapsed
  BY DEF Record, Trying, Core, WorkerRelies
<1>1. /\ work.who \in Orders /\ work.who = work.job /\ work.job \in Jobs /\ work.who # None
      /\ jobs[work.job].status = "running" /\ work.guarded /\ work.then = "complete" /\ work \in WorkRows
      /\ Unowed(work.who)
  BY <1>0, Inside
<1> DEFINE active == work.answer = "ACT"
<1>2. MovesTo(IF active THEN "zone" ELSE "complete")
  BY <1>1, Going DEF Record, Places
<1>3. OrderIs(work.who, IF active THEN "SUBMITTING" ELSE "PROVIDER_PENDING") /\ order' \in [Orders -> OrderRows]
  BY <1>1, Setting DEF Core, Record
<1>4. /\ domain' \in DomainRows /\ domain'.status = IF active THEN "REGISTERING" ELSE "PROVIDER_PENDING"
      /\ domain'.client = domain.client /\ domain'.marker = domain.marker
      /\ domain'.id = TRUE /\ domain'.zone = domain.zone /\ domain'.vm = domain.vm
  BY DEF Record, Core, TypeOK, DomainRows
<1>5. /\ jobs' \in [Jobs -> JobRows] /\ \A o \in Orders : jobs'[o] = jobs[o]
      /\ \A j \in Jobs : jobs[j].status = "running" => jobs'[j].status = "running"
  BY Queueing DEF Record, Core
<1>6. TypeOK'
  BY <1>0, <1>2, <1>3, <1>4, <1>5 DEF Core, TypeOK, OrderRows, Registers, Bundled, MovesTo
<1>7. (RowFollowsRegistrar /\ AdoptedIsOwn)'
  BY <1>0, <1>1, <1>3, <1>4 DEF Core, RowFollowsRegistrar, AdoptedIsOwn, Registers, Lapsed, OrderIs
<1>8. WorkerRelies'
  <2>1. work.who \in Pending' \/ ~active
    BY <1>1, <1>3 DEF OrderIs, Pending
  <2> QED
    BY <1>0, <1>1, <1>2, <1>4, <1>5, <2>1
    DEF MovesTo, Core, WorkerRelies, Trying, Renewing, Bundling, Failing, Registers, Lapsed
<1>9. \A o \in Orders : /\ order'[o] # order[o] => Unowed(o) /\ order'[o].status # "open"
                        /\ jobs'[o] = jobs[o]
                        /\ Engaged(o)' => Unowed(o)
  BY <1>0, <1>1, <1>2, <1>3, <1>5 DEF OrderIs, Engaged, MovesTo
<1>10. \A o \in Orders : domain.client = o /\ domain.marker = o /\ ~Lapsed
                  => (domain.client = o /\ domain.marker = o /\ ~Lapsed)'
  BY <1>4 DEF Lapsed
<1> QED
  BY <1>0, <1>2, <1>6, <1>7, <1>8, <1>9, <1>10, StepOK DEF MovesTo, Failing

\* The zone is set up, or its failure is noted inside the try.
LEMMA ZoneOK == ASSUME Core, Zone PROVE Core'
<1>0. /\ work.at = "zone" /\ UNCHANGED <<facts, order, owed, vm, jobs>> /\ work \in WorkRows
      /\ wrong \subseteq Mishaps /\ domain.id /\ domain.status = "REGISTERING"
      /\ work.job \in Jobs /\ jobs[work.job].status = "running"
      /\ work.who # None => work.who \in Pending
      /\ work.job \in Orders /\ Registers(work.job) => domain.client = work.job
      /\ work.guarded => work.who = work.job /\ work.who \in Orders /\ work.who # None /\ Registers(work.who)
  BY NoneIsNothing DEF Zone, Core, TypeOK, WorkRows, WorkerRelies, Failing, Jobs
<1>1. \A o \in Orders : Engaged(o) => Unowed(o)
  BY EngagedUnowed
<1>2. domain' \in DomainRows /\ \E z \in {domain.zone, "active", "error"} : domain' = [domain EXCEPT !.zone = z]
  BY DEF Zone, Core, TypeOK, DomainRows
<1>3. /\ domain' \in DomainRows /\ domain'.status = domain.status /\ domain'.client = domain.client
      /\ domain'.id = domain.id /\ domain'.vm = domain.vm /\ domain'.marker = domain.marker
  BY <1>2 DEF Core, TypeOK, DomainRows
<1>4. CASE Fine /\ domain' = [domain EXCEPT !.zone = "active"] /\ Goto("finish")
  <2>1. MovesTo("finish")
    BY <1>0, <1>4, Going DEF Places
  <2>2. domain'.zone = "active"
    BY <1>4 DEF Core, TypeOK, DomainRows
  <2>3. TypeOK'
    BY <1>0, <1>3, <1>4, <2>1 DEF Core, TypeOK, Registers, Bundled, MovesTo
  <2>4. (RowFollowsRegistrar /\ AdoptedIsOwn)'
    BY <1>0, <1>3, <1>4, <2>2 DEF Core, RowFollowsRegistrar, AdoptedIsOwn, Registers, Lapsed
  <2>5. WorkerRelies'
    BY <1>0, <1>3, <2>1, <2>2 DEF MovesTo, Core, WorkerRelies, Trying, Renewing, Bundling, Failing, Pending, Registers
  <2>6. \A o \in Orders : /\ order'[o] # order[o] => Unowed(o) /\ order'[o].status # "open"
                          /\ jobs'[o] = jobs[o]
                          /\ Engaged(o)' => Unowed(o)
    BY <1>0, <1>1, <2>1 DEF Engaged, MovesTo
  <2> QED
    BY <1>0, <1>3, <1>4, <2>1, <2>3, <2>4, <2>5, <2>6, StepOK DEF MovesTo, Failing, Lapsed
<1>5. CASE CallFails /\ domain' = IF work.guarded THEN [domain EXCEPT !.zone = "error"] ELSE domain
  <2>1. /\ wrong \subseteq wrong' /\ wrong' \subseteq Mishaps
        /\ \/ MovesTo("raised")
           \/ work.guarded /\ MovesTo("fail") /\ "refusal" \in wrong'
    BY <1>0, <1>5, Raising, Refusing, Going_wrong DEF CallFails
  <2>2. work.guarded => domain.client # None /\ \A o \in Orders : Registers(o)
    BY <1>0 DEF Core, RowFollowsRegistrar, Pending
  <2>3. ~work.guarded => domain' = domain
    BY <1>5
  <2>4. TypeOK'
    BY <1>0, <1>3, <2>1 DEF Core, TypeOK, Registers, Bundled, MovesTo
  <2>5. (RowFollowsRegistrar /\ AdoptedIsOwn)'
    <3>1. domain'.zone = domain.zone \/ \A o \in Orders : Registers(o)
      BY <2>2, <2>3
    <3> QED
      BY <1>0, <1>3, <2>1, <3>1 DEF Core, RowFollowsRegistrar, AdoptedIsOwn, Registers, Lapsed
  <2>6. WorkerRelies'
    BY <1>0, <1>3, <2>1 DEF MovesTo, Core, WorkerRelies, Trying, Renewing, Bundling, Failing, Registers
  <2>7. \A o \in Orders : /\ order'[o] # order[o] => Unowed(o) /\ order'[o].status # "open"
                          /\ jobs'[o] = jobs[o]
                          /\ Engaged(o)' => Unowed(o)
    BY <1>0, <1>1, <2>1 DEF Engaged, MovesTo
  <2> QED
    BY <1>0, <1>3, <2>1, <2>4, <2>5, <2>6, <2>7, StepOK DEF MovesTo, Failing, Lapsed
<1> QED
  BY <1>4, <1>5 DEF Zone

\* Only a domain with its id and its zone is active, and only the order it is bound to with it.
LEMMA FinishOK == ASSUME Core, Finish PROVE Core'
<1>0. /\ work.at = "finish" /\ UNCHANGED <<facts, owed, vm, jobs, wrong>> /\ work \in WorkRows
      /\ wrong \subseteq wrong' /\ domain.id /\ domain.status = "REGISTERING" /\ domain.zone = "active"
      /\ work.job \in Jobs /\ jobs[work.job].status = "running"
      /\ work.who # None => work.who \in Pending /\ work.who \in Orders
      /\ work.job \in Orders /\ Registers(work.job) => domain.client = work.job
  BY DEF Finish, Core, TypeOK, WorkRows, WorkerRelies, Failing, Pending
<1>1. \A o \in Orders : Engaged(o) => Unowed(o)
  BY EngagedUnowed
<1> DEFINE place == IF work.who # None /\ Registers(work.who) /\ Bundled(work.who) THEN "plan" ELSE "complete"
<1>2. MovesTo(place)
  BY <1>0, Going DEF Finish, Places, Bundling
<1>3. /\ domain' \in DomainRows /\ domain'.status = "ACTIVE" /\ domain'.client = domain.client
      /\ domain'.id = domain.id /\ domain'.zone = domain.zone /\ domain'.vm = domain.vm
      /\ domain'.marker = domain.marker
  BY DEF Finish, Core, TypeOK, DomainRows
<1>4. /\ order' \in [Orders -> OrderRows]
      /\ work.who # None => OrderIs(work.who, "ACTIVE")
      /\ work.who = None => order' = order
  BY <1>0, Setting DEF Finish, Core, TypeOK, OrderRows
<1>5. work.who # None => Unowed(work.who) /\ (Registers(work.who) => domain.client = work.who)
  BY <1>0, <1>1 DEF Engaged, Core, RowFollowsRegistrar, Pending
<1>6. TypeOK'
  BY <1>0, <1>2, <1>3, <1>4 DEF Core, TypeOK, OrderRows, Registers, Bundled, MovesTo
<1>7. (RowFollowsRegistrar /\ AdoptedIsOwn)'
  <2>1. CASE work.who = None
    BY <1>0, <1>3, <1>4, <2>1 DEF Core, RowFollowsRegistrar, AdoptedIsOwn, Registers, Lapsed
  <2>2. CASE work.who # None
    BY <1>0, <1>3, <1>4, <1>5, <2>2 DEF Core, RowFollowsRegistrar, AdoptedIsOwn, Registers, Lapsed, OrderIs
  <2> QED
    BY <2>1, <2>2
<1>8. WorkerRelies'
  BY <1>0, <1>2, <1>3, <1>4 DEF MovesTo, Core, WorkerRelies, Trying, Renewing, Bundling, Failing, Registers, OrderIs
<1>9. \A o \in Orders : /\ order'[o] # order[o] => Unowed(o) /\ order'[o].status # "open"
                        /\ jobs'[o] = jobs[o]
                        /\ Engaged(o)' => Unowed(o)
  BY <1>0, <1>1, <1>2, <1>4, <1>5 DEF OrderIs, Engaged, MovesTo
<1> QED
  BY <1>0, <1>2, <1>3, <1>6, <1>7, <1>8, <1>9, StepOK DEF MovesTo, Failing, Lapsed

\* What the worker knows while it builds the VM of a bundle.
LEMMA InBundle ==
  ASSUME Core, work.at \in Bundling
  PROVE  /\ work.who \in Orders /\ work.who # None /\ work \in WorkRows
         /\ work.job \in Jobs /\ jobs[work.job].status = "running"
         /\ Registers(work.who) /\ order[work.who].status = "ACTIVE"
         /\ domain.client = work.who /\ domain.status # "none"
         /\ work.job \in Orders /\ Registers(work.job) => domain.client = work.job
         /\ work.guarded => work.who = work.job
         /\ \A o \in {work.who, work.job} : o \in Orders => Unowed(o)
<1>1. /\ work.who \in Orders /\ work.who # None /\ work \in WorkRows
      /\ work.job \in Jobs /\ jobs[work.job].status = "running"
      /\ Registers(work.who) /\ order[work.who].status = "ACTIVE"
      /\ work.job \in Orders /\ Registers(work.job) => domain.client = work.job
      /\ work.guarded => work.who = work.job
  BY DEF Core, TypeOK, WorkRows, WorkerRelies, Bundling, Failing
<1>2. domain.client = work.who
  BY <1>1 DEF Core, RowFollowsRegistrar
<1>3. domain.status # "none"
  BY <1>1, <1>2 DEF Core, RowFollowsRegistrar, NoDomain
<1>4. \A o \in {work.who, work.job} : o \in Orders => Engaged(o)
  BY DEF Engaged, Bundling
<1> QED
  BY <1>1, <1>2, <1>3, <1>4, EngagedUnowed

\* The VM is planned, built, or its claim of the domain is given back.
LEMMA PlanOK == ASSUME Core, Plan PROVE Core'
<1>0. work.at = "plan" /\ work.at \in Bundling /\ UNCHANGED <<facts, order, owed, domain, jobs, wrong>>
  BY DEF Plan, Bundling
<1>1. /\ work.who \in Orders /\ work.who # None /\ work \in WorkRows
      /\ work.job \in Jobs /\ jobs[work.job].status = "running"
      /\ Registers(work.who) /\ order[work.who].status = "ACTIVE"
      /\ \A o \in {work.who, work.job} : o \in Orders => Unowed(o)
  BY <1>0, InBundle
<1>2. MovesTo("claim")
  BY <1>1, Going DEF Plan, Places, Bundling
<1>3. vm' \in [Orders -> {"none", "planned", "built"}]
  BY <1>1 DEF Plan, Core, TypeOK
<1>4. TypeOK'
  BY <1>0, <1>2, <1>3 DEF Core, TypeOK, Registers, Bundled, MovesTo
<1>5. (RowFollowsRegistrar /\ AdoptedIsOwn)'
  BY <1>0 DEF Core, RowFollowsRegistrar, AdoptedIsOwn, Registers, Lapsed
<1>6. WorkerRelies'
  BY <1>0, <1>1, <1>2 DEF MovesTo, Core, WorkerRelies, Trying, Renewing, Bundling, Failing, Registers
<1>7. \A o \in Orders : Engaged(o)' => Unowed(o)
  BY <1>1, <1>2 DEF Engaged, MovesTo
<1> QED
  BY <1>0, <1>2, <1>4, <1>5, <1>6, <1>7, StepOK DEF MovesTo, Failing, Lapsed

\* An active order is refused its own domain only when another VM has taken it.
LEMMA ClaimDomainOK == ASSUME Core, ClaimDomain PROVE Core'
<1>0. /\ work.at = "claim" /\ work.at \in Bundling /\ UNCHANGED <<facts, order, owed, vm, jobs, wrong>>
      /\ wrong \subseteq wrong' /\ wrong' \subseteq Mishaps
  BY DEF ClaimDomain, Bundling, Core, TypeOK
<1>1. /\ work.who \in Orders /\ work.who # None /\ work \in WorkRows
      /\ work.job \in Jobs /\ jobs[work.job].status = "running"
      /\ Registers(work.who) /\ order[work.who].status = "ACTIVE"
      /\ domain.client = work.who /\ domain.status # "none"
      /\ work.job \in Orders /\ Registers(work.job) => domain.client = work.job
      /\ work.guarded => work.who = work.job
      /\ \A o \in {work.who, work.job} : o \in Orders => Unowed(o)
  BY <1>0, InBundle
<1>2. CASE domain.vm \in {None, work.who} /\ domain' = [domain EXCEPT !.vm = work.who] /\ Goto("build")
  <2>1. MovesTo("build")
    BY <1>1, <1>2, Going DEF Places, Bundling
  <2>2. /\ domain' \in DomainRows /\ domain'.status = domain.status /\ domain'.client = domain.client
        /\ domain'.id = domain.id /\ domain'.zone = domain.zone /\ domain'.vm = work.who
        /\ domain'.marker = domain.marker
    BY <1>1, <1>2 DEF Core, TypeOK, DomainRows, Parties
  <2>3. TypeOK'
    BY <1>0, <2>1, <2>2 DEF Core, TypeOK, Registers, Bundled, MovesTo
  <2>4. (RowFollowsRegistrar /\ AdoptedIsOwn)'
    BY <1>0, <1>1, <2>2, NoneIsNothing DEF Core, RowFollowsRegistrar, AdoptedIsOwn, Registers, Lapsed
  <2>5. WorkerRelies'
    BY <1>0, <1>1, <2>1, <2>2 DEF MovesTo, Core, WorkerRelies, Trying, Renewing, Bundling, Failing, Registers
  <2>6. \A o \in Orders : Engaged(o)' => Unowed(o)
    BY <1>1, <2>1 DEF Engaged, MovesTo
  <2> QED
    BY <1>0, <2>1, <2>2, <2>3, <2>4, <2>5, <2>6, StepOK DEF MovesTo, Failing, Lapsed
<1>3. CASE ~(domain.vm \in {None, work.who} /\ domain.status = "ACTIVE") /\ Refuse /\ UNCHANGED domain
  <2>1. MovesTo(IF work.guarded THEN "fail" ELSE "raised")
    BY <1>1, <1>3, Refusing
  <2>2. CASE work.guarded
    <3>1. domain.status = "ACTIVE"
      BY <1>0, <2>2 DEF Core, WorkerRelies
    <3>2. "taken" \in wrong'
      BY <1>0, <1>1, <1>3, <3>1 DEF Core, RowFollowsRegistrar
    <3> QED
      BY <1>0, <1>3, <2>1, <2>2, <3>2, FailOK
  <2>3. CASE ~work.guarded
    BY <1>0, <1>3, <2>1, <2>3, RaiseOK DEF Failing
  <2> QED
    BY <2>2, <2>3
<1> QED
  BY <1>2, <1>3 DEF ClaimDomain

LEMMA BuildOK == ASSUME Core, Build PROVE Core'
<1>0. /\ work.at = "build" /\ work.at \in Bundling /\ UNCHANGED <<facts, order, owed, jobs>>
      /\ wrong \subseteq wrong' /\ wrong' \subseteq Mishaps
  BY Going_wrong DEF Build, Bundling, Core, TypeOK
<1>1. /\ work.who \in Orders /\ work.who # None /\ work \in WorkRows
      /\ work.job \in Jobs /\ jobs[work.job].status = "running"
      /\ Registers(work.who) /\ order[work.who].status = "ACTIVE"
      /\ domain.client = work.who /\ domain.status # "none"
      /\ work.job \in Orders /\ Registers(work.job) => domain.client = work.job
      /\ work.guarded => work.who = work.job
      /\ \A o \in {work.who, work.job} : o \in Orders => Unowed(o)
  BY <1>0, InBundle
<1>2. MovesTo("complete") \/ MovesTo("raised")
  BY <1>1, Going, Raising DEF Build, Places
<1>3. vm' \in [Orders -> {"none", "planned", "built"}]
  BY <1>1 DEF Build, Core, TypeOK
<1>4. /\ domain' \in DomainRows /\ domain'.status = domain.status /\ domain'.client = domain.client
      /\ domain'.id = domain.id /\ domain'.zone = domain.zone /\ domain'.vm \in {None, domain.vm}
      /\ domain'.marker = domain.marker
  BY DEF Build, Core, TypeOK, DomainRows, Parties
<1>5. TypeOK'
  BY <1>0, <1>2, <1>3, <1>4 DEF Core, TypeOK, Registers, Bundled, MovesTo
<1>6. (RowFollowsRegistrar /\ AdoptedIsOwn)'
  BY <1>0, <1>1, <1>4 DEF Core, RowFollowsRegistrar, AdoptedIsOwn, Registers, Lapsed
<1>7. WorkerRelies'
  BY <1>0, <1>1, <1>2, <1>4 DEF MovesTo, Core, WorkerRelies, Trying, Renewing, Bundling, Failing, Registers
<1>8. \A o \in Orders : Engaged(o)' => Unowed(o)
  BY <1>1, <1>2 DEF Engaged, MovesTo
<1> QED
  BY <1>0, <1>2, <1>4, <1>5, <1>6, <1>7, <1>8, StepOK DEF MovesTo, Failing, Lapsed

\* A failed order that keeps its VM is on its way to the same refund.
LEMMA KeepOK == ASSUME Core, Keep PROVE Core'
<1>0. /\ work.at = "fail" /\ UNCHANGED <<facts, order, owed, domain, jobs>> /\ work \in WorkRows
      /\ wrong \subseteq wrong' /\ wrong' \subseteq Mishaps
  BY Going_wrong DEF Keep, Core, TypeOK
<1>1. MovesTo("refund")
  BY <1>0, Going DEF Keep, Places, Failing
<1>2. vm' \in [Orders -> {"none", "planned", "built"}]
  <2>1. work.who \in Orders /\ vm \in [Orders -> {"none", "planned", "built"}]
    BY <1>0 DEF Core, TypeOK, WorkRows, WorkerRelies, Failing
  <2> QED
    BY <2>1 DEF Keep
<1>3. TypeOK'
  BY <1>0, <1>1, <1>2 DEF Core, TypeOK, Registers, Bundled, MovesTo
<1>4. (RowFollowsRegistrar /\ AdoptedIsOwn)'
  BY <1>0 DEF Core, RowFollowsRegistrar, AdoptedIsOwn, Registers, Lapsed
<1>5. WorkerRelies'
  BY <1>0, <1>1 DEF MovesTo, Core, WorkerRelies, Trying, Renewing, Bundling, Failing
<1>6. \A o \in Orders : Engaged(o)' => Unowed(o)
  <2>1. \A o \in Orders : Engaged(o)' => Engaged(o)
    BY <1>0, <1>1 DEF Engaged, MovesTo
  <2> QED
    BY <2>1, EngagedUnowed
<1>7. wrong' \cap {"refusal", "taken", "dearer"} = {} => Refundable(work'.who)
  BY <1>0, <1>1 DEF MovesTo, Core, SoldStaysBound, Failing
<1> QED
  BY <1>0, <1>3, <1>4, <1>5, <1>6, <1>7, StepOK DEF Lapsed

\* The refund is the first of its order, and of one for which nothing is held.
LEMMA RefundOK == ASSUME Core, Refund PROVE Core'
<1>0. /\ work.at = "refund" /\ UNCHANGED <<facts, vm, jobs, wrong>> /\ work \in WorkRows
      /\ work.who \in Orders /\ work.who # None
      /\ work.then # "idle" => work.job \in Jobs /\ jobs[work.job].status = "running"
      /\ work.then \in {"complete", "idle", "apply"}
  BY DEF Refund, Core, TypeOK, WorkRows, WorkerRelies, Failing
<1>1. Unowed(work.who)
  BY <1>0, EngagedUnowed DEF Engaged
<1>2. wrong \cap {"refusal", "taken", "dearer"} = {} => Refundable(work.who)
  BY <1>0 DEF Core, SoldStaysBound, Failing
<1> DEFINE s == IF terms[work.who].waived THEN "FAILED" ELSE "REFUND_DUE"
<1>3. OrderIs(work.who, s) /\ order' \in [Orders -> OrderRows]
  BY <1>0, Setting DEF Core, Refund
<1>4. /\ owed' \in [Orders -> [all : Nat, vm : Nat]]
      /\ \A o \in Orders \ {work.who} : owed'[o] = owed[o]
      /\ owed'[work.who].vm = owed[work.who].vm
      /\ owed'[work.who].all = IF terms[work.who].waived THEN 0 ELSE 1
  <2>1. owed \in [Orders -> [all : Nat, vm : Nat]] /\ owed[work.who] \in [all : Nat, vm : Nat]
        /\ owed[work.who].all = 0
    BY <1>0, <1>1 DEF Core, TypeOK, Unowed
  <2> DEFINE n == IF terms[work.who].waived THEN owed[work.who].all ELSE owed[work.who].all + 1
  <2>2. n \in Nat /\ n = IF terms[work.who].waived THEN 0 ELSE 1
    BY <2>1
  <2>3. owed' = [owed EXCEPT ![work.who] = [owed[work.who] EXCEPT !.all = n]]
    BY <2>1 DEF Refund
  <2> HIDE DEF n
  <2>4. /\ [owed[work.who] EXCEPT !.all = n] \in [all : Nat, vm : Nat]
        /\ [owed[work.who] EXCEPT !.all = n].all = n
        /\ [owed[work.who] EXCEPT !.all = n].vm = owed[work.who].vm
    BY <2>1, <2>2
  <2> QED
    BY <1>0, <2>1, <2>2, <2>3, <2>4
<1>5. /\ domain' \in DomainRows /\ domain'.client = domain.client
      /\ domain'.id = domain.id /\ domain'.zone = domain.zone /\ domain'.vm = domain.vm
      /\ domain'.marker = domain.marker
      /\ domain'.status = IF domain.client = work.who /\ ~domain.id THEN "FAILED" ELSE domain.status
      /\ domain.client # work.who => domain' = domain
  BY DEF Refund, Core, TypeOK, DomainRows
<1>6. /\ work' \in WorkRows
      /\ IF work.then = "idle" THEN work' = Idle
         ELSE /\ work'.at = work.then /\ work'.job = work.job /\ work'.who = work.who
              /\ work'.guarded = work.guarded /\ work'.answer = work.answer /\ work'.then = work.then
  BY <1>0, Waiting DEF Refund, WorkRows, Places, Waits
<1>7. \A o \in Orders : ~Engaged(o)'
  <2>1. work.then = "apply" => work.answer = "DEL"
    BY DEF Core, WorkerRelies
  <2> QED
    BY <1>0, <1>6, <2>1 DEF Engaged, Idle
<1>8. TypeOK'
  BY <1>0, <1>3, <1>4, <1>5, <1>6 DEF Core, TypeOK, OrderRows, Registers, Bundled
<1>9. (RowFollowsRegistrar /\ AdoptedIsOwn /\ SoldOnce)'
  BY <1>0, <1>3, <1>5 DEF Core, RowFollowsRegistrar, AdoptedIsOwn, SoldOnce, Registers, Lapsed, OrderIs, NoDomain
<1>10. WorkerRelies'
  <2>1. CASE work.then = "idle"
    BY <1>6, <2>1, Waiting, WaitsRelies
  <2>2. CASE work.then = "complete"
    BY <1>0, <1>5, <1>6, <2>2 DEF Core, WorkerRelies, Trying, Renewing, Bundling, Failing
  <2>3. CASE work.then = "apply"
    BY <1>0, <1>5, <1>6, <2>3 DEF Core, WorkerRelies, Trying, Renewing, Bundling, Failing
  <2> QED
    BY <1>0, <2>1, <2>2, <2>3
<1>11. OwedIsOver'
  <2>1. ASSUME NEW o \in Orders, o # work.who
        PROVE  /\ owed'[o] = owed[o] /\ order'[o] = order[o] /\ jobs'[o] = jobs[o]
    BY <1>0, <1>3, <1>4, <2>1 DEF OrderIs
  <2>2. /\ order'[work.who].status = s /\ owed'[work.who].all = IF terms[work.who].waived THEN 0 ELSE 1
        /\ "retry" \notin wrong => owed'[work.who].vm = 0
    BY <1>1, <1>3, <1>4 DEF OrderIs, Unowed
  <2> QED
    BY <1>0, <1>7, <2>1, <2>2 DEF Core, OwedIsOver
<1>12. SoldStaysBound'
  <2>1. work'.at \notin Failing
    BY <1>0, <1>6 DEF Failing, Idle
  <2> QED
    BY <1>0, <1>2, <1>5, <2>1 DEF Core, SoldStaysBound, Refundable, Registers, Lapsed
<1>13. RefundedNotSold'
  <2>1. bought[work.who] \in Nat
    BY <1>0 DEF Core, TypeOK
  <2> QED
    BY <1>0, <1>2, <1>4, <2>1 DEF Core, RefundedNotSold, Refundable
<1> QED
  BY <1>8, <1>9, <1>10, <1>11, <1>12, <1>13 DEF Core

----------------------------------------------------------------------------
(* reconcile_domain.                                                       *)

LEMMA ReadDomainOK == ASSUME Core, ReadDomain PROVE Core'
<1>0. /\ work.at = "read" /\ work.job = Reconcile /\ work.who = None /\ ~work.guarded /\ work \in WorkRows
      /\ work.then = "complete" /\ jobs[work.job].status = "running" /\ work.job \in Jobs
      /\ UNCHANGED <<facts, rows, jobs, wrong>>
  BY DEF ReadDomain, Core, TypeOK, WorkerRelies, Failing
<1>1. MovesTo("seek")
  BY <1>0, Going DEF ReadDomain, Places
<1>2. WorkerRelies'
  BY <1>0, <1>1, NoneIsNothing DEF MovesTo, Core, WorkerRelies, Trying, Renewing, Bundling, Failing
<1>3. \A o \in Orders : ~Engaged(o)'
  BY <1>0, <1>1, NoneIsNothing DEF MovesTo, Engaged, Jobs
<1> QED
  BY <1>0, <1>1, <1>2, <1>3, MoveOK DEF MovesTo, Failing, Core, TypeOK

\* What is found is applied to an order that waits for it, which is not refunded.
LEMMA SeekOK == ASSUME Core, Seek PROVE Core'
<1>0. /\ work.at = "seek" /\ UNCHANGED <<facts, rows, jobs>> /\ work \in WorkRows /\ ~work.guarded
      /\ work.job \in Jobs /\ jobs[work.job].status = "running" /\ wrong \subseteq Mishaps
      /\ work.job \in Orders /\ Registers(work.job) => domain.client = work.job
  BY DEF Seek, Core, TypeOK, WorkerRelies, Failing
<1>1. \A o \in Orders : Engaged(o) => Unowed(o)
  BY EngagedUnowed
<1>2. ASSUME Fine, domain.id \/ (domain.marker # None /\ Found), NEW o \in IF Pending = {} THEN {None} ELSE Pending,
             work' = [work EXCEPT !.answer = registrar.status, !.who = o,
                        !.at = IF registrar.status = "DEL" /\ o # None THEN "fail" ELSE "apply",
                        !.then = IF registrar.status = "DEL" /\ o # None THEN "apply" ELSE "complete"]
      PROVE  Core'
  <2>1. registrar.years > 0 /\ registrar.status \in {"REQ", "ACT", "DEL"}
    <3>1. registrar.years > 0
      BY <1>2 DEF Core, TypeOK, RegistrarRows, RowFollowsRegistrar, Found
    <3> QED
      BY <3>1 DEF Core, TypeOK, RegistrarRows, RowFollowsRegistrar
  <2>2. o \in Orders \cup {None} /\ (o # None => o \in Pending)
    BY <1>2 DEF Pending
  <2>3. o # None => Unowed(o)
    <3>1. ASSUME o # None
          PROVE  /\ o \in Orders /\ order[o].status \in {"PROVIDER_PENDING", "SUBMITTING"}
                 /\ owed[o].all \in Nat /\ owed[o].vm \in Nat
      BY <2>2, <3>1 DEF Pending, Core, TypeOK
    <3> QED
      BY <3>1 DEF Core, OwedIsOver, Unowed
  <2> DEFINE over == registrar.status = "DEL" /\ o # None
  <2>4. /\ work' \in WorkRows /\ work'.at = IF over THEN "fail" ELSE "apply"
        /\ work'.job = work.job /\ work'.who = o /\ work'.guarded = work.guarded
        /\ work'.answer = registrar.status /\ work'.then = IF over THEN "apply" ELSE "complete"
    BY <1>0, <1>2, <2>1, <2>2 DEF WorkRows, Places, Failing
  <2>5. WorkerRelies'
    BY <1>0, <1>2, <2>1, <2>2, <2>4
    DEF Core, WorkerRelies, Trying, Renewing, Bundling, Failing, Pending, Registers
  <2>6. \A x \in Orders : Engaged(x)' => Unowed(x)
    BY <1>0, <1>1, <2>3, <2>4, NoneIsNothing DEF Engaged, Jobs
  <2>7. work'.at \in Failing => Refundable(work'.who)
    BY <2>4 DEF Failing, Refundable
  <2> QED
    BY <1>0, <1>2, <2>4, <2>5, <2>6, <2>7, MoveOK
<1>3. CASE Fine /\ Goto("complete")
  <2>1. MovesTo("complete")
    BY <1>0, <1>3, Going DEF Places
  <2>2. WorkerRelies'
    BY <1>0, <2>1 DEF MovesTo, Core, WorkerRelies, Trying, Renewing, Bundling, Failing
  <2>3. \A x \in Orders : ~Engaged(x)'
    BY <2>1 DEF MovesTo, Engaged
  <2> QED
    BY <1>0, <1>3, <2>1, <2>2, <2>3, MoveOK DEF MovesTo, Failing
<1>4. CASE CallFails
  <2>1. MovesTo("raised") /\ wrong \subseteq wrong' /\ wrong' \subseteq Mishaps
    BY <1>0, <1>4, Raising, Refusing, Going_wrong DEF CallFails
  <2> QED
    BY <1>0, <2>1, RaiseOK DEF Failing
<1> QED
  BY <1>2, <1>3, <1>4 DEF Seek

\* What was found is written to the row of the registration it was found for.
LEMMA ApplyOK == ASSUME Core, Apply PROVE Core'
<1>0. /\ work.at = "apply" /\ UNCHANGED <<facts, owed, vm, jobs, wrong>> /\ work \in WorkRows /\ ~work.guarded
      /\ work.job \in Jobs /\ jobs[work.job].status = "running" /\ wrong \subseteq wrong'
      /\ work.answer \in {"REQ", "ACT", "DEL"}
      /\ domain.id \/ (domain.marker # None /\ registrar.years > 0)
  BY DEF Apply, Core, TypeOK, WorkRows, WorkerRelies, Failing
<1>1. work.answer # "DEL" =>
        /\ work.job \in Orders /\ Registers(work.job) => domain.client = work.job
        /\ work.who # None => /\ work.who \in Orders /\ work.who \in Pending /\ Unowed(work.who)
                              /\ Registers(work.who) => domain.client = work.who
        /\ \A o \in Orders : o \in {work.who, work.job} => Unowed(o)
  <2>1. ASSUME work.answer # "DEL"
        PROVE  /\ work.job \in Orders /\ Registers(work.job) => domain.client = work.job
               /\ work.who # None => work.who \in Pending
    BY <1>0, <2>1 DEF Core, WorkerRelies
  <2>2. ASSUME work.answer # "DEL", NEW o \in Orders, o \in {work.who, work.job} PROVE Unowed(o)
    BY <1>0, <2>2, EngagedUnowed DEF Engaged
  <2> QED
    BY <2>1, <2>2 DEF Pending, Core, RowFollowsRegistrar
<1>2. /\ domain' \in DomainRows /\ domain'.id = TRUE /\ domain'.client = domain.client
      /\ domain'.zone = domain.zone /\ domain'.vm = domain.vm /\ domain'.marker = domain.marker
      /\ domain'.status = CASE work.answer = "DEL" -> "EXPIRED" [] work.answer = "ACT" -> "REGISTERING"
                            [] OTHER -> domain.status
  BY DEF Apply, Core, TypeOK, DomainRows
<1>3. registrar.years > 0 /\ domain.status # "none"
  BY <1>0 DEF Core, RowFollowsRegistrar, NoDomain
<1>4. /\ order' \in [Orders -> OrderRows]
      /\ \/ order' = order
         \/ work.answer = "REQ" /\ work.who # None /\ work.who \in Orders /\ OrderIs(work.who, "PROVIDER_PENDING")
  <2>1. order \in [Orders -> OrderRows] /\ work.who \in Orders \cup {None}
    BY <1>0 DEF Core, TypeOK, OrderRows, WorkRows
  <2> QED
    BY <2>1, Setting DEF Apply, Core
<1>5. /\ MovesTo("raised") \/ MovesTo("complete") \/ (MovesTo("zone") /\ work.answer = "ACT")
      /\ work.answer = "DEL" => MovesTo("complete")
  <2>1. "zone" \in Places /\ "complete" \in Places
    BY DEF Places
  <2> QED
    BY <1>0, <2>1, Going, Raising DEF Apply
<1>6. TypeOK'
  BY <1>0, <1>2, <1>4, <1>5 DEF Core, TypeOK, OrderRows, Registers, Bundled, MovesTo
<1>7. (RowFollowsRegistrar /\ AdoptedIsOwn)'
  <2>1. CASE order' = order
    BY <1>0, <1>2, <1>3, <2>1 DEF Core, RowFollowsRegistrar, AdoptedIsOwn, Registers, Lapsed
  <2>2. CASE work.answer = "REQ" /\ work.who # None /\ work.who \in Orders /\ OrderIs(work.who, "PROVIDER_PENDING")
    BY <1>0, <1>1, <1>2, <1>3, <2>2 DEF Core, RowFollowsRegistrar, AdoptedIsOwn, Registers, Lapsed, OrderIs
  <2> QED
    BY <1>4, <2>1, <2>2
<1>8. WorkerRelies'
  <2>1. CASE MovesTo("raised") \/ MovesTo("complete")
    BY <1>0, <1>1, <1>2, <1>5, <2>1 DEF MovesTo, Core, WorkerRelies, Trying, Renewing, Bundling, Failing, Registers
  <2>2. CASE MovesTo("zone") /\ work.answer = "ACT"
    <3>1. order' = order
      BY <1>4, <2>2
    <3> QED
      BY <1>0, <1>1, <1>2, <2>2, <3>1
      DEF MovesTo, Core, WorkerRelies, Trying, Renewing, Bundling, Failing, Pending, Registers
  <2> QED
    BY <1>5, <2>1, <2>2
<1>9. \A o \in Orders : /\ order'[o] # order[o] => Unowed(o) /\ order'[o].status # "open"
                        /\ jobs'[o] = jobs[o]
                        /\ Engaged(o)' => Unowed(o)
  BY <1>0, <1>1, <1>4, <1>5 DEF OrderIs, Engaged, MovesTo
<1>10. work'.at \notin Failing
  BY <1>5 DEF MovesTo, Failing
<1> QED
  BY <1>0, <1>2, <1>6, <1>7, <1>8, <1>9, <1>10, StepOK DEF Lapsed

----------------------------------------------------------------------------
(* Jobs that raised an exception.                                          *)

\* A job that is given up settles its own order: what was sold stays bound to it, and it is refunded
\* in full only when the registrar's id and the marker are of no registration of it.
LEMMA GiveUpOK ==
  ASSUME Core, work.at = "raised", work.job # Reconcile, wrong' = wrong, UNCHANGED facts,
         jobs' = [jobs EXCEPT ![work.job].status = "failed"], GiveUp
  PROVE  Core'
<1> DEFINE o == work.job
<1>0. /\ o \in Orders /\ o \in Jobs /\ o # None /\ work \in WorkRows
      /\ jobs[o].status = "running" /\ (Registers(o) => domain.client = o)
      /\ wrong \subseteq wrong' /\ wrong' \subseteq Mishaps
  BY NoneIsNothing DEF Core, TypeOK, WorkerRelies, Failing, Jobs
<1>1. Unowed(o)
  BY <1>0, EngagedUnowed DEF Engaged
<1>2. jobs' \in [Jobs -> JobRows] /\ jobs'[o].status = "failed" /\ \A k \in Jobs \ {o} : jobs'[k] = jobs[k]
  BY <1>0, SettingJob DEF Core
<1> HIDE DEF o
<1>3. order[o].status # "open"
  BY <1>0 DEF Core, OwedIsOver
<1>4. ASSUME NEW s \in {"PROVIDER_PENDING", "ACTIVE"}, SetOrder(o, s), work' = Idle, vm' = vm,
             domain' \in DomainRows, domain'.client = domain.client, domain'.marker = domain.marker,
             domain'.id = domain.id, domain'.vm \in {None, domain.vm}, domain'.status \notin {"none", "FAILED"} \/ (domain' = domain /\ domain.id),
             Registers(o) \/ domain' = domain, domain.id \/ domain.marker = o,
             domain'.status = "ACTIVE" => domain'.id /\ domain'.zone = "active",
             owed' \in [Orders -> [all : Nat, vm : Nat]], \A x \in Orders : owed'[x].all = owed[x].all,
             \A x \in Orders : \/ owed'[x].vm = owed[x].vm
                               \/ x = o /\ s = "ACTIVE" /\ owed'[x].vm = owed[x].vm + 1
      PROVE  Core'
  <2>1. Waits
    BY <1>4, Waiting
  <2>2. OrderIs(o, s) /\ order' \in [Orders -> OrderRows]
    BY <1>0, <1>4, Setting DEF Core
  <2>3. TypeOK'
    BY <1>0, <1>2, <1>4, <2>1, <2>2 DEF Core, TypeOK, OrderRows, Registers, Bundled, Waits
  <2>4. Registers(o) => \A x \in Orders : Registers(x)
    BY <1>0 DEF Core, RowFollowsRegistrar
  <2>5. domain.status # "none"
    BY <1>0, <1>4 DEF Core, RowFollowsRegistrar, NoDomain
  <2>6. ~Lapsed'
    BY <1>4 DEF Lapsed
  <2>7. (RowFollowsRegistrar /\ AdoptedIsOwn /\ SoldOnce)'
    BY <1>0, <1>4, <2>2, <2>4, <2>5, <2>6 DEF Core, RowFollowsRegistrar, AdoptedIsOwn, SoldOnce, Registers, OrderIs
  <2>8. OwedIsOver'
    <3>1. \A x \in Orders : ~Engaged(x)'
      BY <2>1 DEF Waits, Engaged
    <3>2. ASSUME NEW x \in Orders, x # o
          PROVE  /\ owed'[x].all = owed[x].all /\ owed'[x].vm = owed[x].vm /\ order'[x] = order[x]
                 /\ jobs'[x] = jobs[x]
      BY <1>2, <1>4, <2>2, <3>2 DEF OrderIs, Jobs
    <3>3. /\ owed'[o].all = 0 /\ order'[o].status = s /\ jobs'[o].status = "failed"
          /\ "retry" \notin wrong => owed'[o].vm = 0 \/ (owed'[o].vm = 1 /\ s = "ACTIVE")
      BY <1>0, <1>1, <1>2, <1>4, <2>2 DEF OrderIs, Unowed
    <3> QED
      BY <1>0, <1>4, <3>1, <3>2, <3>3 DEF Core, OwedIsOver
  <2>9. (SoldStaysBound /\ RefundedNotSold)'
    BY <1>0, <1>4, <2>1, <2>6 DEF Core, SoldStaysBound, RefundedNotSold, Refundable, Registers, Waits, Failing
  <2> QED
    BY <2>1, <2>3, <2>7, <2>8, <2>9, WaitsRelies DEF Core
<1>5. owed \in [Orders -> [all : Nat, vm : Nat]] /\ domain \in DomainRows
  BY DEF Core, TypeOK
<1>6. CASE /\ Registers(o) /\ ~domain.id /\ domain.marker = o
           /\ domain' = [domain EXCEPT !.status = "PROVIDER_PENDING"]
           /\ SetOrder(o, "PROVIDER_PENDING") /\ work' = Idle /\ UNCHANGED <<owed, vm>>
  <2>1. /\ domain' \in DomainRows /\ domain'.client = domain.client /\ domain'.marker = domain.marker
        /\ domain'.id = domain.id /\ domain'.vm = domain.vm /\ domain'.status = "PROVIDER_PENDING"
    BY <1>5, <1>6 DEF DomainRows
  <2> QED
    BY <1>4, <1>5, <1>6, <2>1
<1>7. CASE /\ domain.id /\ ~Registers(o)
           /\ SetOrder(o, "PROVIDER_PENDING") /\ work' = Idle /\ UNCHANGED <<owed, vm, domain>>
  <2>1. domain.status = "ACTIVE" => domain.id /\ domain.zone = "active"
    BY DEF Core, TypeOK
  <2> QED
    BY <1>4, <1>5, <1>7, <2>1
<1>8. CASE /\ domain.id /\ Registers(o) /\ domain.zone = "active"
           /\ SetOrder(o, "ACTIVE") /\ work' = Idle
           /\ domain' = [domain EXCEPT !.status = "ACTIVE",
                                       !.vm = IF @ = o /\ vm[o] # "built" THEN None ELSE @]
           /\ owed' = [owed EXCEPT ![o].vm = IF Bundled(o) /\ ~terms[o].waived THEN @ + 1 ELSE @]
           /\ UNCHANGED vm
  <2>1. /\ domain' \in DomainRows /\ domain'.client = domain.client /\ domain'.marker = domain.marker
        /\ domain'.id = domain.id /\ domain'.vm \in {None, domain.vm} /\ domain'.status = "ACTIVE"
        /\ domain'.zone = domain.zone
    BY <1>5, <1>8 DEF DomainRows, Parties
  <2>2. /\ owed' \in [Orders -> [all : Nat, vm : Nat]] /\ \A x \in Orders : owed'[x].all = owed[x].all
        /\ \A x \in Orders : owed'[x].vm = owed[x].vm \/ (x = o /\ owed'[x].vm = owed[x].vm + 1)
    <3> DEFINE n == IF Bundled(o) /\ ~terms[o].waived THEN owed[o].vm + 1 ELSE owed[o].vm
    <3>1. n \in Nat /\ n \in {owed[o].vm, owed[o].vm + 1} /\ owed[o] \in [all : Nat, vm : Nat]
      BY <1>0, <1>5
    <3>2. owed' = [owed EXCEPT ![o] = [owed[o] EXCEPT !.vm = n]]
      BY <1>0, <1>5, <1>8
    <3> HIDE DEF n
    <3>3. /\ [owed[o] EXCEPT !.vm = n] \in [all : Nat, vm : Nat] /\ [owed[o] EXCEPT !.vm = n].vm = n
          /\ [owed[o] EXCEPT !.vm = n].all = owed[o].all
      BY <3>1
    <3> QED
      BY <1>0, <1>5, <3>1, <3>2, <3>3
  <2> QED
    BY <1>4, <1>8, <2>1, <2>2
<1>9. CASE /\ domain.id /\ Registers(o) /\ domain.zone # "active"
           /\ SetOrder(o, "PROVIDER_PENDING") /\ work' = Idle
           /\ domain' = [domain EXCEPT !.status = "PROVIDER_PENDING", !.zone = "error"]
           /\ UNCHANGED <<owed, vm>>
  <2>1. /\ domain' \in DomainRows /\ domain'.client = domain.client /\ domain'.marker = domain.marker
        /\ domain'.id = domain.id /\ domain'.vm = domain.vm /\ domain'.status = "PROVIDER_PENDING"
    BY <1>5, <1>9 DEF DomainRows
  <2> QED
    BY <1>4, <1>5, <1>9, <2>1
<1>10. CASE /\ ~domain.id /\ ~(Registers(o) /\ domain.marker = o)
            /\ work' = [work EXCEPT !.at = "fail", !.who = o, !.then = "idle"]
            /\ UNCHANGED <<order, owed, vm, domain>>
  <2>1. /\ work' \in WorkRows /\ work'.at = "fail" /\ work'.job = o /\ work'.who = o
        /\ work'.guarded = work.guarded /\ work'.answer = work.answer /\ work'.then = "idle"
    BY <1>0, <1>10 DEF WorkRows, Places, Failing, o
  <2>2. wrong \cap {"refusal", "taken", "dearer"} = {} => Refundable(o)
    BY <1>0, <1>10 DEF Core, SoldStaysBound, RowFollowsRegistrar
  <2>3. TypeOK'
    BY <1>0, <1>2, <1>10, <2>1 DEF Core, TypeOK, Registers, Bundled
  <2>4. (RowFollowsRegistrar /\ AdoptedIsOwn /\ SoldOnce)'
    BY <1>10 DEF Core, RowFollowsRegistrar, AdoptedIsOwn, SoldOnce, Registers, Lapsed
  <2>5. WorkerRelies'
    BY <1>0, <1>2, <1>10, <2>1 DEF Core, WorkerRelies, Trying, Renewing, Bundling, Failing
  <2>6. OwedIsOver'
    <3>1. \A x \in Orders : Engaged(x)' => x = o
      BY <2>1 DEF Engaged
    <3>2. ASSUME NEW x \in Orders, x # o PROVE jobs'[x] = jobs[x]
      BY <1>2, <3>2 DEF Jobs
    <3> QED
      BY <1>0, <1>1, <1>2, <1>3, <1>10, <3>1, <3>2 DEF Core, OwedIsOver, Unowed
  <2>7. (SoldStaysBound /\ RefundedNotSold)'
    BY <1>10, <2>1, <2>2 DEF Core, SoldStaysBound, RefundedNotSold, Refundable, Registers, Lapsed
  <2> QED
    BY <2>3, <2>4, <2>5, <2>6, <2>7 DEF Core
<1> QED
  BY <1>6, <1>7, <1>8, <1>9, <1>10 DEF GiveUp, o

\* A job that raised an exception is tried again, or given up.
LEMMA RetryOrFailOK == ASSUME Core, RetryOrFail PROVE Core'
<1>0. /\ work.at = "raised" /\ work.job \in Jobs /\ jobs[work.job].status = "running"
      /\ wrong' = wrong /\ wrong \subseteq Mishaps /\ UNCHANGED facts
  BY DEF RetryOrFail, Core, TypeOK, WorkerRelies, Failing
<1>1. ASSUME NEW s \in {"queued", "failed"}, jobs' = [jobs EXCEPT ![work.job].status = s],
             work' = Idle, UNCHANGED rows
      PROVE  Core'
  <2>1. jobs' \in [Jobs -> JobRows] /\ \A k \in Jobs \ {work.job} : jobs'[k] = jobs[k]
    BY <1>0, <1>1, SettingJob DEF Core
  <2> QED
    BY <1>0, <1>1, <2>1, StopOK DEF Jobs
<1>2. CASE jobs' = [jobs EXCEPT ![work.job].status = "failed"] /\ work.job # Reconcile /\ GiveUp
  BY <1>0, <1>2, GiveUpOK
<1> QED
  BY <1>1, <1>2 DEF RetryOrFail

----------------------------------------------------------------------------
(* The specification.                                                      *)

\* The invariant holds where the first orders are open.
LEMMA InitOK == ASSUME Init PROVE Core
<1>1. /\ terms \in [Orders -> AllTerms] /\ \A o \in Orders : Bundled(o) => Registers(o)
  BY TermsAreKnown DEF Init, Bundled, Registers
<1>2. /\ order \in [Orders -> OrderRows] /\ \A o \in Orders : order[o].status = "open" /\ order[o].base = -1
      /\ owed \in [Orders -> [all : Nat, vm : Nat]] /\ \A o \in Orders : owed[o].all = 0 /\ owed[o].vm = 0
      /\ vm \in [Orders -> {"none", "planned", "built"}]
      /\ bought \in [Orders -> Nat] /\ \A o \in Orders : bought[o] = 0
  BY DEF Init, OrderRows
<1>3. jobs \in [Jobs -> JobRows] /\ \A j \in Jobs : jobs[j].status = "none"
  BY AttemptsArePositive DEF Init, NoJob, JobRows
<1>4. /\ work \in WorkRows /\ work.at = "idle" /\ work.job = None /\ work.who = None
      /\ work.answer = "none" /\ work.guarded = FALSE /\ work.then = "complete" /\ wrong = {}
  BY DEF Init, Idle, WorkRows, Places
<1>5. /\ registrar \in RegistrarRows /\ registrar.shown = registrar.years
      /\ \/ registrar.years = 0 /\ registrar.status = "none"
         \/ registrar.years = 1 /\ registrar.status = "ACT"
  BY DEF Init, NotSold, RegistrarRows, Parties
<1>6. /\ domain \in DomainRows /\ domain.client = None /\ domain.marker = None /\ domain.vm = None
      /\ \/ domain = NoDomain /\ ~domain.id /\ domain.status = "none" /\ \A o \in Orders : Registers(o)
         \/ domain.id /\ domain.zone = "active" /\ domain.status = "ACTIVE" /\ registrar.years = 1
  <2>1. /\ NoDomain \in DomainRows /\ NoDomain.client = None /\ NoDomain.marker = None /\ NoDomain.vm = None
        /\ NoDomain.id = FALSE /\ NoDomain.status = "none"
    BY DEF NoDomain, DomainRows, Parties
  <2>2. /\ Held \in DomainRows /\ Held.client = None /\ Held.marker = None /\ Held.vm = None
        /\ Held.id = TRUE /\ Held.status = "ACTIVE" /\ Held.zone = "active"
    BY DEF Held, NoDomain, DomainRows, Parties
  <2>3. CASE \E o \in Orders : ~Registers(o)
    <3>1. domain = Held /\ registrar = [holder |-> Other, status |-> "ACT", years |-> 1, shown |-> 1]
      BY <2>3 DEF Init
    <3> QED
      BY <3>1, <2>2
  <2>4. CASE ~\E o \in Orders : ~Registers(o)
    BY <2>1, <2>4 DEF Init
  <2> QED
    BY <2>3, <2>4
<1>7. TypeOK
  BY <1>1, <1>2, <1>3, <1>4, <1>5, <1>6 DEF TypeOK, OrderRows, RegistrarRows
<1>8. SoldOnce /\ AdoptedIsOwn
  BY <1>2, <1>6 DEF SoldOnce, AdoptedIsOwn
<1>9. RowFollowsRegistrar
  BY <1>2, <1>5, <1>6 DEF RowFollowsRegistrar, Lapsed
<1>10. WorkerRelies
  BY <1>4 DEF WorkerRelies, Trying, Renewing, Bundling, Failing
<1>11. OwedIsOver
  BY <1>2, <1>3, <1>4 DEF OwedIsOver, Engaged, Jobs
<1>12. SoldStaysBound /\ RefundedNotSold
  BY <1>2, <1>4 DEF SoldStaysBound, RefundedNotSold, Refundable, Failing
<1> QED
  BY <1>7, <1>8, <1>9, <1>10, <1>11, <1>12 DEF Core

\* Every step keeps the invariant.
LEMMA StepKeeps == ASSUME Core, [Next]_vars PROVE Core'
<1>1. CASE UNCHANGED vars
  <2>1. UNCHANGED <<terms, registrar, bought, order, owed, vm, domain, jobs, work, wrong>>
    BY <1>1
  <2>2. TypeOK'
    BY <2>1 DEF Core, TypeOK, Registers, Bundled
  <2>3. (SoldOnce /\ AdoptedIsOwn /\ RowFollowsRegistrar)'
    BY <2>1, RowsKept DEF Core
  <2>4. WorkerRelies'
    BY <2>1 DEF Core, WorkerRelies, Registers, Lapsed, Pending
  <2>5. OwedIsOver'
    BY <2>1 DEF Core, OwedIsOver, Engaged
  <2>6. (SoldStaysBound /\ RefundedNotSold)'
    BY <2>1, SoldKept DEF Core
  <2> QED
    BY <2>2, <2>3, <2>4, <2>5, <2>6 DEF Core
<1>2. CASE Worker
  BY <1>2, ClaimOK, CompleteOK, RetryOrFailOK, ReadOrderOK, ReserveOK, CheckOK, MarkSubmittingOK, SubmitOK,
     RecordOK, RenewOK, ExtendOK, RenewedOK, ZoneOK, FinishOK, PlanOK, ClaimDomainOK, BuildOK, KeepOK,
     RefundOK, ReadDomainOK, SeekOK, ApplyOK DEF Worker
<1>3. CASE Crash \/ Daily \/ Decide \/ Expose \/ AttachOther
  BY <1>3, CrashOK, DailyOK, RegistrarOK, AttachOtherOK
<1>4. ASSUME NEW o \in Orders, Pay(o) \/ RetryJob(o) PROVE Core'
  BY <1>4, PayOK, RetryJobOK
<1> QED
  BY <1>1, <1>2, <1>3, <1>4 DEF Next

\* Money owed for an order that is over is owed once.
LEMMA OwedIsOnce == ASSUME Core PROVE OwedOnce
<1> SUFFICES ASSUME "retry" \notin wrong, NEW o \in Orders PROVE owed[o].all + owed[o].vm <= 1
  BY DEF OwedOnce
<1>1. owed[o].all \in Nat /\ owed[o].vm \in Nat
  BY DEF Core, TypeOK
<1>2. /\ owed[o].all > 0 => order[o].status = "REFUND_DUE" /\ owed[o].all = 1
      /\ owed[o].vm > 0 => order[o].status = "ACTIVE" /\ owed[o].vm = 1
  BY DEF Core, OwedIsOver
<1> QED
  BY <1>1, <1>2

----------------------------------------------------------------------------
(* Fulfilment implements PaidOrder: what was delivered stays delivered.    *)

\* The phase of an order in PaidOrder, without the CASE.
Done(o) == order[o].status = "ACTIVE" /\ (Bundled(o) => vm[o] = "built" \/ owed[o].vm > 0)
Risk(o) == work.who = o /\ AtRisk
PhaseOf(o) == IF owed[o].all > 0 THEN "refunded"
              ELSE IF order[o].status = "open" THEN "open"
              ELSE IF Done(o) /\ ~Risk(o) THEN "delivered" ELSE "settled"
Phases == [o \in Orders |-> PhaseOf(o)]
Becomes(o, from, to) == Phases[o] = from /\ Phases' = [Phases EXCEPT ![o] = to]
OrderStep == \/ Phases' = Phases
             \/ \E o \in Orders : \/ Becomes(o, "open", "settled")
                                  \/ Becomes(o, "settled", "delivered")
                                  \/ Becomes(o, "settled", "refunded")

\* A step that takes one order from one phase to the next and no other.
LEMMA OneBecomes ==
  ASSUME NEW o \in Orders, NEW from, NEW to, PhaseOf(o) = from, PhaseOf(o)' = to,
         \A x \in Orders \ {o} : PhaseOf(x)' = PhaseOf(x)
  PROVE  Becomes(o, from, to)
<1>1. Phases[o] = from /\ Phases' = [x \in Orders |-> PhaseOf(x)']
  BY DEF Phases
<1>2. \A x \in Orders : PhaseOf(x)' = [Phases EXCEPT ![o] = to][x]
  BY DEF Phases
<1> QED
  BY <1>1, <1>2 DEF Becomes, Phases

\* A step that changes no phase is a stutter of PaidOrder.
LEMMA NoneBecomes == ASSUME \A o \in Orders : PhaseOf(o)' = PhaseOf(o) PROVE OrderStep
  BY DEF OrderStep, Phases

\* One order may be delivered, and what was done is not undone.
LEMMA OneMoves ==
  ASSUME NEW m \in Orders,
         \A o \in Orders : /\ owed'[o].all = owed[o].all
                           /\ order'[o].status = "open" <=> order[o].status = "open",
         \A o \in Orders \ {m} : (Done(o)' <=> Done(o)) /\ (Done(o) => (Risk(o)' <=> Risk(o))),
         Done(m) => Done(m)' /\ (Risk(m)' => Risk(m))
  PROVE  OrderStep
<1>1. \A o \in Orders \ {m} : PhaseOf(o)' = PhaseOf(o)
  BY DEF PhaseOf
<1>2. PhaseOf(m)' = PhaseOf(m) \/ (PhaseOf(m) = "settled" /\ PhaseOf(m)' = "delivered")
  BY DEF PhaseOf
<1> QED
  BY <1>1, <1>2, OneBecomes, NoneBecomes DEF OrderStep

\* Nothing of an order changes but whether it is at risk, which the worker decides before it is done.
LEMMA RiskOnly ==
  ASSUME UNCHANGED <<terms, order, owed, vm>>, work.who \in Orders \cup {None},
         \A o \in Orders : Done(o) /\ Risk(o)' => Risk(o)
  PROVE  OrderStep
<1>1. \A o \in Orders : Done(o)' <=> Done(o)
  BY DEF Done, Bundled
<1>2. CASE work.who \in Orders
  BY <1>1, <1>2, OneMoves DEF Risk
<1>3. CASE work.who \notin Orders
  <2>1. \A o \in Orders : PhaseOf(o)' = PhaseOf(o)
    BY <1>1, <1>3 DEF PhaseOf, Risk
  <2> QED
    BY <2>1, NoneBecomes
<1> QED
  BY <1>2, <1>3

\* Only the orders of the table and the worker matter when neither changes.
LEMMA IdleSteps ==
  ASSUME Core, ActiveIsOver, Daily \/ Decide \/ Expose \/ AttachOther \/ UNCHANGED vars
                             \/ \E o \in Orders : RetryJob(o)
  PROVE  ActiveIsOver' /\ OrderStep
<1>1. UNCHANGED <<terms, order, owed, vm, work>> /\ domain'.id = domain.id /\ domain'.zone = domain.zone
  BY DEF Daily, Decide, Expose, AttachOther, RetryJob, Core, TypeOK, DomainRows
<1>2. work.who \in Orders \cup {None}
  BY DEF Core, TypeOK, WorkRows
<1>3. \A o \in Orders : Risk(o)' => Risk(o)
  BY <1>1 DEF Risk, AtRisk
<1> QED
  BY <1>1, <1>2, <1>3, RiskOnly DEF ActiveIsOver, Registers

\* One order that was not delivered has another status.
LEMMA StatusMoves ==
  ASSUME NEW m \in Orders, order[m].status \notin {"open", "ACTIVE"}, order'[m].status # "open",
         \A o \in Orders \ {m} : order'[o] = order[o] /\ (Risk(o)' <=> Risk(o)),
         UNCHANGED <<terms, owed, vm>>
  PROVE  OrderStep
<1>1. \A o \in Orders \ {m} : (Done(o)' <=> Done(o)) /\ (Done(o) => (Risk(o)' <=> Risk(o)))
  BY DEF Done, Bundled
<1>2. \A o \in Orders : /\ owed'[o].all = owed[o].all
                        /\ order'[o].status = "open" <=> order[o].status = "open"
  OBVIOUS
<1>3. ~Done(m)
  BY DEF Done
<1> QED
  BY <1>1, <1>2, <1>3, OneMoves

\* An order that the worker tries is not done.
LEMMA TriedIsNotDone ==
  ASSUME Core, ActiveIsOver, work.at \in Trying \cup Renewing
  PROVE  /\ work.who \in Orders /\ work.who = work.job /\ work.who # None /\ work \in WorkRows
         /\ order[work.who].status \in {"CHECKING", "SUBMITTING"} /\ ~Done(work.who)
         /\ \A o \in Orders : ~Risk(o)
<1>1. /\ work.who \in Orders /\ work.who = work.job /\ work.who # None /\ work \in WorkRows
      /\ order[work.who].status \in {"CHECKING", "SUBMITTING"}
  BY Inside DEF ActiveIsOver
<1> QED
  BY <1>1 DEF Done, Risk, AtRisk, Trying, Renewing, Failing

\* Paying settles an order that nobody has taken up.
LEMMA PaySteps == ASSUME Core, ActiveIsOver, NEW o \in Orders, Pay(o) PROVE ActiveIsOver' /\ OrderStep
<1>1. /\ UNCHANGED <<terms, owed, vm, domain, work>> /\ order[o].status = "open"
      /\ OrderIs(o, "QUEUED")
  BY Setting DEF Pay, Core
<1>2. owed[o].all \in Nat /\ owed[o].all = 0
  BY <1>1 DEF Core, TypeOK, OwedIsOver
<1>3. PhaseOf(o) = "open" /\ PhaseOf(o)' = "settled"
  BY <1>1, <1>2 DEF PhaseOf, Done, OrderIs
<1>4. \A x \in Orders \ {o} : PhaseOf(x)' = PhaseOf(x)
  BY <1>1 DEF PhaseOf, Done, OrderIs, Risk, AtRisk, Bundled
<1>5. OrderStep
  BY <1>3, <1>4, OneBecomes DEF OrderStep
<1>6. ActiveIsOver'
  <2>1. work.who \in Orders \cup {None} /\ work.job \in Jobs \cup {None}
    BY DEF Core, TypeOK, WorkRows
  <2>2. \A x \in Orders : x # o => order'[x] = order[x]
    BY <1>1 DEF OrderIs
  <2>3. order'[o].status = "QUEUED"
    BY <1>1 DEF OrderIs
  <2>4. work.at \in Trying \cup Renewing => work.who \in Orders /\ work.who # o
    BY <1>1, TriedIsNotDone
  <2> QED
    BY <1>1, <2>1, <2>2, <2>3, <2>4 DEF ActiveIsOver, Registers
<1> QED
  BY <1>5, <1>6

\* The worker starts, ends or dies, and has nothing at risk.
LEMMA RoundSteps ==
  ASSUME Core, ActiveIsOver, UNCHANGED <<terms, order, owed, vm, domain>>, work'.at \in {"idle", "read"},
         work'.who # None => work'.who \in Orders /\ order[work'.who].status # "open"
  PROVE  ActiveIsOver' /\ OrderStep
<1>1. work.who \in Orders \cup {None}
  BY DEF Core, TypeOK, WorkRows
<1>2. \A o \in Orders : ~Risk(o)'
  BY DEF Risk, AtRisk, Failing
<1>3. ActiveIsOver'
  BY DEF ActiveIsOver, Trying, Renewing
<1> QED
  BY <1>1, <1>2, <1>3, RiskOnly

LEMMA ClaimSteps == ASSUME Core, ActiveIsOver, NEW j \in Jobs, Claim(j) PROVE ActiveIsOver' /\ OrderStep
<1>1. /\ UNCHANGED <<terms, order, owed, vm, domain>> /\ jobs[j].status \in {"queued", "running"}
      /\ work'.at = "read" /\ work'.who = IF j = Reconcile THEN None ELSE j
  BY DEF Claim, Idle
<1>2. j \in Orders => order[j].status # "open"
  BY <1>1 DEF Core, OwedIsOver
<1> QED
  BY <1>1, <1>2, RoundSteps DEF Jobs

LEMMA StopSteps == ASSUME Core, ActiveIsOver, Complete \/ Crash PROVE ActiveIsOver' /\ OrderStep
<1>1. UNCHANGED <<terms, order, owed, vm, domain>> /\ work' = Idle
  BY DEF Complete, Crash
<1>2. work'.at = "idle" /\ work'.who = None
  BY <1>1 DEF Idle
<1> QED
  BY <1>1, <1>2, RoundSteps

\* The worker goes on with its order, or raises an exception or fails the order.
LEMMA TryingOn ==
  ASSUME Core, ActiveIsOver, work.at \in Trying \cup Renewing, UNCHANGED <<terms, order, owed, vm, domain>>,
         work'.who = work.who, work'.job = work.job, work'.at \in Trying \cup Renewing \cup {"fail", "raised"}
  PROVE  ActiveIsOver' /\ OrderStep
<1>1. /\ work.who \in Orders /\ work.who = work.job /\ work.who # None /\ work \in WorkRows
      /\ order[work.who].status \in {"CHECKING", "SUBMITTING"} /\ ~Done(work.who)
  BY TriedIsNotDone
<1>2. \A o \in Orders : Done(o) => ~Risk(o)'
  BY <1>1 DEF Risk
<1>3. ActiveIsOver'
  BY <1>1 DEF ActiveIsOver, Trying, Renewing
<1> QED
  BY <1>1, <1>2, <1>3, RiskOnly

LEMMA TrySteps ==
  ASSUME Core, ActiveIsOver, Check \/ Submit \/ Extend
  PROVE  ActiveIsOver' /\ OrderStep
<1>1. work.at \in Trying \cup Renewing /\ UNCHANGED <<terms, order, owed, vm, domain>>
  BY DEF Check, Submit, Extend, Trying, Renewing
<1>2. work \in WorkRows
  BY <1>1, TriedIsNotDone
<1>3. /\ work'.who = work.who /\ work'.job = work.job
      /\ work'.at \in Trying \cup Renewing \cup {"fail", "raised"}
  BY <1>2 DEF Check, TurnsDear, Submit, Extend, CallFails, Goto, Raise, Refuse, WorkRows, Trying, Renewing
<1> QED
  BY <1>1, <1>3, TryingOn

\* An order that is not active is tried; one that is active is only completed.
LEMMA ReadSteps == ASSUME Core, ActiveIsOver, ReadOrder PROVE ActiveIsOver' /\ OrderStep
<1>1. /\ work.who \in Orders /\ work.who = work.job /\ work.who # None /\ work \in WorkRows
      /\ jobs[work.job].status = "running" /\ ~work.guarded /\ work.at = "read"
      /\ UNCHANGED <<terms, owed, vm, domain>>
  BY NoneIsNothing DEF ReadOrder, Core, TypeOK, WorkerRelies, Failing, Jobs
<1>2. order[work.who].status # "open" /\ \A o \in Orders : ~Risk(o)
  BY <1>1 DEF Core, OwedIsOver, Risk, AtRisk, Failing
<1>3. CASE /\ UNCHANGED order
           /\ \/ Goto("complete") \/ Goto("plan")
              \/ Goto("seek") /\ order[work.who].status = "PROVIDER_PENDING"
  <2>1. /\ work'.who = work.who /\ work'.job = work.job /\ ~work'.guarded
        /\ \/ work'.at \in {"complete", "plan"}
           \/ work'.at = "seek" /\ order[work.who].status = "PROVIDER_PENDING"
    BY <1>1, <1>3 DEF Goto, WorkRows
  <2>2. \A o \in Orders : ~Risk(o)'
    BY <2>1 DEF Risk, AtRisk, Failing
  <2>3. ActiveIsOver'
    BY <1>1, <1>2, <1>3, <2>1 DEF ActiveIsOver, Trying, Renewing
  <2> QED
    BY <1>1, <1>3, <2>2, <2>3, RiskOnly
<1>4. CASE /\ order[work.who].status \notin {"REFUND_DUE", "ACTIVE", "PROVIDER_PENDING"}
           /\ SetOrder(work.who, "CHECKING")
           /\ work' = [work EXCEPT !.guarded = TRUE,
                                   !.at = IF Registers(work.who) THEN "reserve" ELSE "renew"]
  <2>1. work'.who = work.who /\ work'.job = work.job /\ work'.at \in {"reserve", "renew"}
    BY <1>1, <1>4 DEF WorkRows
  <2>2. OrderIs(work.who, "CHECKING")
    BY <1>1, <1>4, Setting DEF Core
  <2>3. \A o \in Orders : ~Risk(o)'
    BY <2>1 DEF Risk, AtRisk, Failing
  <2>4. OrderStep
    BY <1>1, <1>2, <1>4, <2>2, <2>3, StatusMoves DEF OrderIs
  <2>5. ActiveIsOver'
    BY <1>1, <2>1, <2>2 DEF ActiveIsOver, OrderIs
  <2> QED
    BY <2>4, <2>5
<1> QED
  BY <1>3, <1>4 DEF ReadOrder

\* The row is taken over only while no order of the name is active.
LEMMA ReserveSteps == ASSUME Core, ActiveIsOver, Reserve PROVE ActiveIsOver' /\ OrderStep
<1>1. work.at \in Trying \cup Renewing /\ UNCHANGED <<terms, order, owed, vm>>
  BY DEF Reserve, Trying
<1>2. /\ work.who \in Orders /\ work.who = work.job /\ work.who # None /\ work \in WorkRows
      /\ order[work.who].status \in {"CHECKING", "SUBMITTING"} /\ ~Done(work.who)
  BY <1>1, TriedIsNotDone
<1>3. work'.who = work.who /\ work'.job = work.job /\ work'.at \in {"check", "fail"}
  BY <1>2 DEF Reserve, WorkRows
<1>4. domain' = domain \/ ~domain.id
  <2>1. domain.status = "none" => ~domain.id
    BY DEF Core, RowFollowsRegistrar, NoDomain
  <2> QED
    BY <2>1 DEF Reserve
<1>5. \A o \in Orders : Done(o) => ~Risk(o)'
  BY <1>2, <1>3 DEF Risk
<1>6. ActiveIsOver'
  BY <1>1, <1>2, <1>3, <1>4 DEF ActiveIsOver, Trying
<1> QED
  BY <1>1, <1>2, <1>5, <1>6, RiskOnly

\* An order that is tried is marked or waits for the registrar; its row keeps its zone.
LEMMA TriedMoves ==
  ASSUME Core, ActiveIsOver, work.at \in Trying \cup Renewing, UNCHANGED <<terms, owed, vm>>,
         NEW s \in {"SUBMITTING", "PROVIDER_PENDING", "ACTIVE"}, order'[work.who].status = s,
         \A o \in Orders \ {work.who} : order'[o] = order[o],
         domain.id => domain'.id, domain'.zone = domain.zone,
         s = "ACTIVE" => domain.id /\ domain.zone = "active",
         work'.who = work.who, work'.job = work.job,
         \/ work'.at = "complete"
         \/ work'.at \in {"submit", "extend"} /\ s = "SUBMITTING"
         \/ work'.at = "zone" /\ Registers(work.job) /\ UNCHANGED terms
  PROVE  ActiveIsOver' /\ OrderStep
<1>1. /\ work.who \in Orders /\ work.who = work.job /\ work.who # None
      /\ order[work.who].status \in {"CHECKING", "SUBMITTING"} /\ \A o \in Orders : ~Risk(o)
  BY TriedIsNotDone
<1>2. \A o \in Orders : ~Risk(o)'
  BY DEF Risk, AtRisk, Failing
<1>3. OrderStep
  BY <1>1, <1>2, StatusMoves
<1>4. ActiveIsOver'
  BY <1>1 DEF ActiveIsOver, Trying, Renewing, Registers
<1> QED
  BY <1>3, <1>4

LEMMA MarkSteps == ASSUME Core, ActiveIsOver, MarkSubmitting \/ Record \/ Renewed PROVE ActiveIsOver' /\ OrderStep
<1>1. work.at \in Trying \cup Renewing /\ UNCHANGED <<terms, owed, vm>>
  BY DEF MarkSubmitting, Record, Renewed, Trying, Renewing
<1>2. work.who \in Orders /\ work.who = work.job /\ work \in WorkRows
  BY <1>1, TriedIsNotDone
<1>3. ASSUME NEW s \in {"SUBMITTING", "PROVIDER_PENDING", "ACTIVE"}, SetOrder(work.who, s)
      PROVE  order'[work.who].status = s /\ \A o \in Orders \ {work.who} : order'[o] = order[o]
  BY <1>2, <1>3, Setting DEF Core, OrderIs
<1>4. CASE MarkSubmitting
  <2>1. domain'.id = domain.id /\ domain'.zone = domain.zone
    BY <1>4 DEF MarkSubmitting, Core, TypeOK, DomainRows
  <2>2. work'.who = work.who /\ work'.job = work.job /\ work'.at = "submit"
    BY <1>2, <1>4 DEF MarkSubmitting, Goto, WorkRows
  <2>3. SetOrder(work.who, "SUBMITTING")
    BY <1>4 DEF MarkSubmitting
  <2> QED
    BY <1>1, <1>3, <2>1, <2>2, <2>3, TriedMoves
<1>5. CASE Record
  <2>1. domain'.id /\ domain'.zone = domain.zone
    BY <1>5 DEF Record, Core, TypeOK, DomainRows
  <2>2. work'.who = work.who /\ work'.job = work.job /\ work'.at \in {"zone", "complete"}
    BY <1>2, <1>5 DEF Record, Goto, WorkRows
  <2>3. Registers(work.job)
    BY <1>2, <1>5 DEF Record, Core, WorkerRelies, Trying
  <2>4. PICK s \in {"SUBMITTING", "PROVIDER_PENDING"} : SetOrder(work.who, s)
    BY <1>5 DEF Record
  <2> QED
    BY <1>1, <1>3, <2>1, <2>2, <2>3, <2>4, TriedMoves
<1>6. CASE Renewed
  <2>1. domain'.id = domain.id /\ domain'.zone = domain.zone
    BY <1>6 DEF Renewed, Core, TypeOK, DomainRows
  <2>2. work'.who = work.who /\ work'.job = work.job /\ work'.at = "complete"
    BY <1>2, <1>6 DEF Renewed, Goto, WorkRows
  <2>3. ~Registers(work.who)
    BY <1>6 DEF Renewed, Core, WorkerRelies, Renewing
  <2>4. domain.id /\ domain.zone = "active"
    BY <1>2, <2>3 DEF Core, RowFollowsRegistrar
  <2>5. PICK s \in {"ACTIVE", "PROVIDER_PENDING"} : SetOrder(work.who, s)
    BY <1>6 DEF Renewed
  <2> QED
    BY <1>1, <1>3, <2>1, <2>2, <2>4, <2>5, TriedMoves
<1> QED
  BY <1>4, <1>5, <1>6

LEMMA RenewSteps == ASSUME Core, ActiveIsOver, Renew PROVE ActiveIsOver' /\ OrderStep
<1>1. work.at \in Trying \cup Renewing /\ UNCHANGED <<terms, owed, vm, domain>>
  BY DEF Renew, Renewing
<1>2. work.who \in Orders /\ work \in WorkRows
  BY <1>1, TriedIsNotDone
<1>3. CASE /\ Goto("extend")
           /\ order' = [order EXCEPT ![work.who] = [status |-> "SUBMITTING", base |-> registrar.shown]]
  <2>1. work'.who = work.who /\ work'.job = work.job /\ work'.at = "extend"
    BY <1>2, <1>3 DEF Goto, WorkRows
  <2>2. order'[work.who].status = "SUBMITTING" /\ \A o \in Orders \ {work.who} : order'[o] = order[o]
    BY <1>2, <1>3 DEF Core, TypeOK
  <2> QED
    BY <1>1, <2>1, <2>2, TriedMoves
<1>4. CASE UNCHANGED order /\ (\/ Goto("fail") \/ Raise(TRUE) \/ CallFails
                               \/ work' = [work EXCEPT !.at = "renewed", !.answer = registrar.status])
  <2>1. /\ work'.who = work.who /\ work'.job = work.job
        /\ work'.at \in Trying \cup Renewing \cup {"fail", "raised"}
    BY <1>2, <1>4 DEF CallFails, Goto, Raise, Refuse, WorkRows, Renewing
  <2> QED
    BY <1>1, <1>4, <2>1, TryingOn
<1> QED
  BY <1>3, <1>4 DEF Renew, TurnsDear

\* Inside the try a zone is lost only before its order is active.
LEMMA ZoneSteps == ASSUME Core, ActiveIsOver, Zone PROVE ActiveIsOver' /\ OrderStep
<1>1. /\ work.at = "zone" /\ UNCHANGED <<terms, order, owed, vm>> /\ work \in WorkRows
      /\ work.who \in Orders \cup {None} /\ domain.id
      /\ work.who # None => work.who \in Pending
      /\ work.guarded => work.who = work.job /\ work.who \in Orders /\ work.who # None /\ Registers(work.who)
  BY NoneIsNothing DEF Zone, Core, TypeOK, WorkRows, WorkerRelies, Failing, Jobs
<1>2. work.who # None => ~Done(work.who) /\ order[work.who].status # "ACTIVE"
  BY <1>1 DEF Pending, Done
<1>3. work.guarded => \A o \in Orders : order[o].status # "ACTIVE"
  BY <1>1, <1>2, NoneIsNothing DEF Core, RowFollowsRegistrar, Pending, Jobs
<1>4. /\ domain'.id = domain.id
      /\ domain'.zone = domain.zone \/ domain'.zone = "active" \/ work.guarded
  <2>1. domain \in DomainRows
    BY DEF Core, TypeOK
  <2> QED
    BY <2>1 DEF Zone, DomainRows
<1>5. work'.who = work.who /\ work'.job = work.job /\ work'.at \in {"finish", "fail", "raised"}
  BY <1>1 DEF Zone, CallFails, Goto, Raise, Refuse, WorkRows
<1>6. \A o \in Orders : Done(o) => ~Risk(o)'
  BY <1>1, <1>2, <1>5, NoneIsNothing DEF Risk, AtRisk, Failing, Jobs
<1>7. ActiveIsOver'
  BY <1>1, <1>3, <1>4, <1>5 DEF ActiveIsOver, Trying, Renewing, Registers
<1> QED
  BY <1>1, <1>6, <1>7, RiskOnly

\* A pending order is delivered, or goes on with its VM.
LEMMA FinishSteps == ASSUME Core, ActiveIsOver, Finish PROVE ActiveIsOver' /\ OrderStep
<1>1. /\ work.at = "finish" /\ UNCHANGED <<terms, owed, vm>> /\ work \in WorkRows
      /\ work.who \in Orders \cup {None} /\ domain.id /\ domain.zone = "active"
      /\ work.who # None => work.who \in Pending
  BY DEF Finish, Core, TypeOK, WorkRows, WorkerRelies
<1>2. domain'.id = domain.id /\ domain'.zone = domain.zone
  BY DEF Finish, Core, TypeOK, DomainRows
<1>3. work'.who = work.who /\ work'.job = work.job /\ work'.at \in {"plan", "complete"}
  BY <1>1 DEF Finish, Goto, WorkRows
<1>4. CASE work.who = None
  <2>1. order' = order
    BY <1>4 DEF Finish
  <2>2. \A o \in Orders : ~Risk(o)'
    BY <1>3, <1>4, NoneIsNothing DEF Risk, Jobs
  <2>3. ActiveIsOver'
    BY <1>1, <1>2, <1>3, <1>4, <2>1 DEF ActiveIsOver, Trying, Renewing
  <2> QED
    BY <1>1, <2>1, <2>2, <2>3, RiskOnly
<1>5. CASE work.who # None
  <2>1. OrderIs(work.who, "ACTIVE") /\ order[work.who].status \notin {"open", "ACTIVE"}
    BY <1>1, <1>5, Setting DEF Finish, Core, Pending
  <2>2. \A o \in Orders \ {work.who} : ~Risk(o) /\ ~Risk(o)'
    BY <1>3 DEF Risk
  <2>3. OrderStep
    BY <1>1, <1>5, <2>1, <2>2, StatusMoves DEF OrderIs
  <2>4. ActiveIsOver'
    BY <1>1, <1>2, <1>3, <1>5, <2>1 DEF ActiveIsOver, OrderIs, Trying, Renewing
  <2> QED
    BY <2>3, <2>4
<1> QED
  BY <1>4, <1>5

\* The VM of an order is planned or built, which is not undone, and the order is not newly at risk.
LEMMA VMSteps ==
  ASSUME Core, ActiveIsOver, work.who \in Orders, UNCHANGED <<terms, order, owed>>,
         domain'.id = domain.id, domain'.zone = domain.zone, work'.who = work.who, work'.job = work.job,
         \A o \in Orders \ {work.who} : vm'[o] = vm[o],
         vm[work.who] = "built" => vm'[work.who] = "built",
         Risk(work.who)' => Risk(work.who),
         \/ work'.at \in {"claim", "build", "complete", "refund", "fail"}
         \/ work'.at = "raised" /\ (work.job \in Orders => Registers(work.job))
  PROVE  ActiveIsOver' /\ OrderStep
<1>1. \A o \in Orders \ {work.who} : (Done(o)' <=> Done(o)) /\ ~Risk(o) /\ ~Risk(o)'
  BY DEF Done, Risk, Bundled
<1>2. Done(work.who) => Done(work.who)'
  BY DEF Done, Bundled
<1>3. \A o \in Orders : /\ owed'[o].all = owed[o].all
                        /\ order'[o].status = "open" <=> order[o].status = "open"
  OBVIOUS
<1>4. OrderStep
  BY <1>1, <1>2, <1>3, OneMoves
<1>5. ActiveIsOver'
  BY DEF ActiveIsOver, Trying, Renewing, Registers
<1> QED
  BY <1>4, <1>5

LEMMA BundleSteps == ASSUME Core, ActiveIsOver, Plan \/ ClaimDomain \/ Build PROVE ActiveIsOver' /\ OrderStep
<1>1. work.at \in Bundling /\ UNCHANGED <<terms, order, owed>>
  BY DEF Plan, ClaimDomain, Build, Bundling
<1>2. /\ work.who \in Orders /\ work.who # None /\ work \in WorkRows /\ domain.client = work.who
      /\ domain \in DomainRows /\ vm \in [Orders -> {"none", "planned", "built"}]
  BY <1>1, InBundle DEF Core, TypeOK
<1>3. \A o \in Orders : Registers(o)
  BY <1>2 DEF Core, RowFollowsRegistrar
<1>4. CASE Plan
  <2>1. work'.who = work.who /\ work'.job = work.job /\ work'.at = "claim" /\ work'.guarded = work.guarded
    BY <1>2, <1>4 DEF Plan, Goto, WorkRows
  <2>2. Risk(work.who)' => Risk(work.who)
    BY <1>4, <2>1 DEF Plan, Risk, AtRisk, Failing
  <2>3. /\ \A o \in Orders \ {work.who} : vm'[o] = vm[o]
        /\ vm[work.who] = "built" => vm'[work.who] = "built"
    BY <1>2, <1>4 DEF Plan
  <2>4. domain' = domain
    BY <1>4 DEF Plan
  <2> QED
    BY <1>1, <1>2, <2>1, <2>2, <2>3, <2>4, VMSteps
<1>5. CASE ClaimDomain
  <2>1. /\ work'.who = work.who /\ work'.job = work.job
        /\ \/ work'.at \in {"build", "raised"}
           \/ work'.at = "fail" /\ work.guarded
    BY <1>2, <1>5 DEF ClaimDomain, Goto, Raise, Refuse, WorkRows
  <2>2. Risk(work.who)' => Risk(work.who)
    BY <1>5, <2>1 DEF ClaimDomain, Risk, AtRisk, Failing
  <2>3. vm' = vm /\ domain'.id = domain.id /\ domain'.zone = domain.zone
    BY <1>2, <1>5 DEF ClaimDomain, DomainRows
  <2> QED
    BY <1>1, <1>2, <1>3, <2>1, <2>2, <2>3, VMSteps
<1>6. CASE Build
  <2>1. work'.who = work.who /\ work'.job = work.job /\ work'.at \in {"complete", "raised"}
    BY <1>2, <1>6 DEF Build, Goto, Raise, WorkRows
  <2>2. ~Risk(work.who)'
    BY <2>1 DEF Risk, AtRisk, Failing
  <2>3. /\ \A o \in Orders \ {work.who} : vm'[o] = vm[o]
        /\ vm[work.who] = "built" => vm'[work.who] = "built"
    BY <1>2, <1>6 DEF Build
  <2>4. domain'.id = domain.id /\ domain'.zone = domain.zone
    BY <1>2, <1>6 DEF Build, DomainRows
  <2> QED
    BY <1>1, <1>2, <1>3, <2>1, <2>2, <2>3, <2>4, VMSteps
<1> QED
  BY <1>4, <1>5, <1>6

\* A failed order that keeps its VM was at risk before.
LEMMA KeepSteps == ASSUME Core, ActiveIsOver, Keep PROVE ActiveIsOver' /\ OrderStep
<1>1. /\ work.at = "fail" /\ UNCHANGED <<terms, order, owed, domain>>
      /\ work.who \in Orders /\ work \in WorkRows /\ vm \in [Orders -> {"none", "planned", "built"}]
  BY DEF Keep, Core, TypeOK, WorkRows, WorkerRelies, Failing
<1>2. work'.who = work.who /\ work'.job = work.job /\ work'.at = "refund"
  BY <1>1 DEF Keep, Goto, WorkRows
<1>3. /\ \A o \in Orders \ {work.who} : vm'[o] = vm[o]
      /\ vm[work.who] = "built" => vm'[work.who] = "built"
  BY <1>1 DEF Keep
<1>4. Risk(work.who)' => Risk(work.who)
  BY <1>1 DEF Risk, AtRisk, Failing
<1> QED
  BY <1>1, <1>2, <1>3, <1>4, VMSteps

\* The order that is refunded was at risk: it was settled, and not delivered.
LEMMA RefundSteps == ASSUME Core, ActiveIsOver, Refund PROVE ActiveIsOver' /\ OrderStep
<1>1. /\ work.at = "refund" /\ UNCHANGED <<terms, vm>> /\ work \in WorkRows
      /\ work.who \in Orders /\ work.who # None
      /\ work.then = "apply" => work.answer = "DEL"
      /\ work.then \in {"complete", "idle", "apply"}
      /\ owed \in [Orders -> [all : Nat, vm : Nat]]
  BY DEF Refund, Core, TypeOK, WorkRows, WorkerRelies, Failing
<1>2. owed[work.who].all = 0 /\ order[work.who].status # "open"
  BY <1>1, EngagedUnowed DEF Engaged, Unowed, ActiveIsOver
<1> DEFINE s == IF terms[work.who].waived THEN "FAILED" ELSE "REFUND_DUE"
<1>3. OrderIs(work.who, s)
  BY <1>1, Setting DEF Core, Refund
<1>4. /\ \A o \in Orders \ {work.who} : owed'[o] = owed[o]
      /\ owed'[work.who].all = 0 \/ owed'[work.who].all > 0
  BY <1>1, <1>2 DEF Refund
<1>5. domain'.id = domain.id /\ domain'.zone = domain.zone
  BY DEF Refund, Core, TypeOK, DomainRows
<1>6. /\ work'.at \in {"complete", "idle", "apply"} /\ work'.who \in {work.who, None}
      /\ work'.at = "apply" => work'.answer = "DEL"
  BY <1>1 DEF Refund, Idle, WorkRows
<1>7. PICK m \in Orders : m = work.who
  BY <1>1
<1>8. PhaseOf(m) = "settled"
  BY <1>1, <1>2, <1>7 DEF PhaseOf, Risk, AtRisk, Failing
<1>9. PhaseOf(m)' \in {"settled", "refunded"}
  <2>1. order'[m].status \in {"FAILED", "REFUND_DUE"}
    BY <1>3, <1>7 DEF OrderIs
  <2> QED
    BY <2>1 DEF PhaseOf, Done
<1>10. \A o \in Orders \ {m} : PhaseOf(o)' = PhaseOf(o)
  <2>1. \A o \in Orders \ {m} : ~Risk(o) /\ ~Risk(o)' /\ (Done(o)' <=> Done(o))
    BY <1>1, <1>3, <1>4, <1>6, <1>7 DEF Risk, AtRisk, Failing, Done, OrderIs, Bundled
  <2> QED
    BY <1>3, <1>4, <1>7, <2>1 DEF PhaseOf, OrderIs
<1>11. OrderStep
  BY <1>8, <1>9, <1>10, OneBecomes, NoneBecomes DEF OrderStep
<1>12. ActiveIsOver'
  BY <1>1, <1>2, <1>3, <1>5, <1>6 DEF ActiveIsOver, OrderIs, Trying, Renewing
<1> QED
  BY <1>11, <1>12

\* A reconciliation looks for an order that waits, and so is not done.
SeekMoves == /\ work'.job = work.job /\ work'.at \in {"fail", "apply", "complete", "raised"}
             /\ work'.who = work.who \/ work'.who \in Pending \cup {None}
             /\ work'.at = "fail" => work'.who \in Pending

LEMMA SeekSteps == ASSUME Core, ActiveIsOver, Seek PROVE ActiveIsOver' /\ OrderStep
<1>1. /\ work.at = "seek" /\ UNCHANGED <<facts, rows, jobs>> /\ work \in WorkRows /\ ~work.guarded
      /\ work.job \in Jobs /\ jobs[work.job].status = "running" /\ wrong \subseteq Mishaps
      /\ work.job \in Orders /\ Registers(work.job) => domain.client = work.job
  BY DEF Seek, Core, TypeOK, WorkerRelies, Failing
<1>2. work.who \in Orders \cup {None}
  BY <1>1 DEF WorkRows
<1>3. ASSUME Fine, Goto("complete") PROVE SeekMoves
  <2>1. MovesTo("complete")
    BY <1>1, <1>3, Going DEF Places
  <2> QED
    BY <2>1 DEF MovesTo, SeekMoves
<1>4. ASSUME CallFails PROVE SeekMoves
  <2>1. MovesTo("raised")
    BY <1>1, <1>4, Raising, Refusing DEF CallFails
  <2> QED
    BY <2>1 DEF MovesTo, SeekMoves
<1>5. ASSUME Fine, domain.id \/ (domain.marker # None /\ Found), NEW o \in IF Pending = {} THEN {None} ELSE Pending,
             work' = [work EXCEPT !.answer = registrar.status, !.who = o,
                        !.at = IF registrar.status = "DEL" /\ o # None THEN "fail" ELSE "apply",
                        !.then = IF registrar.status = "DEL" /\ o # None THEN "apply" ELSE "complete"]
      PROVE  SeekMoves
  <2>1. /\ work'.job = work.job /\ work'.who = o
        /\ work'.at = IF registrar.status = "DEL" /\ o # None THEN "fail" ELSE "apply"
    BY <1>1, <1>5 DEF WorkRows
  <2> QED
    BY <1>5, <2>1 DEF SeekMoves
<1>6. SeekMoves
  BY <1>3, <1>4, <1>5 DEF Seek
<1>7. \A o \in Pending : o \in Orders /\ order[o].status # "open" /\ ~Done(o)
  BY DEF Pending, Done
<1>8. \A o \in Orders : Done(o) => ~Risk(o)'
  BY <1>6, <1>7 DEF Risk, AtRisk, Failing, SeekMoves
<1>9. ActiveIsOver'
  BY <1>1, <1>6, <1>7 DEF ActiveIsOver, Trying, Renewing, Registers, SeekMoves
<1> QED
  BY <1>1, <1>2, <1>8, <1>9, RiskOnly

LEMMA ReadDomainSteps == ASSUME Core, ActiveIsOver, ReadDomain PROVE ActiveIsOver' /\ OrderStep
<1>1. /\ UNCHANGED <<terms, order, owed, vm, domain>> /\ work \in WorkRows
      /\ work.who \in Orders \cup {None} /\ work.job \notin Orders
  BY NoneIsNothing DEF ReadDomain, Core, TypeOK, WorkRows
<1>2. work'.who = work.who /\ work'.job = work.job /\ work'.at = "seek" /\ work'.guarded = work.guarded
  BY <1>1 DEF ReadDomain, Goto, WorkRows
<1>3. \A o \in Orders : ~Risk(o)'
  BY <1>2 DEF Risk, AtRisk, Failing
<1>4. ActiveIsOver'
  BY <1>1, <1>2 DEF ActiveIsOver, Trying, Renewing
<1> QED
  BY <1>1, <1>3, <1>4, RiskOnly

LEMMA ApplySteps == ASSUME Core, ActiveIsOver, Apply PROVE ActiveIsOver' /\ OrderStep
<1>1. /\ work.at = "apply" /\ UNCHANGED <<terms, owed, vm>> /\ work \in WorkRows
      /\ work.who \in Orders \cup {None} /\ Reconcile \notin Orders
      /\ work.answer = "REQ" /\ work.who # None => work.who \in Pending
  BY NoneIsNothing DEF Apply, Core, TypeOK, WorkRows, WorkerRelies
<1>2. domain'.id /\ domain'.zone = domain.zone
  BY DEF Apply, Core, TypeOK, DomainRows
<1>3. /\ work'.who = work.who /\ work'.job = work.job
      /\ \/ work'.at = "complete"
         \/ work'.at = "raised" /\ work.job = Reconcile
         \/ work'.at = "zone" /\ work.answer # "DEL"
  BY <1>1 DEF Apply, Goto, Raise, WorkRows
<1>4. \A o \in Orders : ~Risk(o) /\ ~Risk(o)'
  <2>1. ~work.guarded
    BY <1>1 DEF Core, WorkerRelies
  <2> QED
    BY <1>1, <1>3, <2>1 DEF Risk, AtRisk, Failing
<1>5. CASE UNCHANGED order
  <2>1. ActiveIsOver'
    BY <1>1, <1>2, <1>3, <1>5 DEF ActiveIsOver, Trying, Renewing, Registers
  <2> QED
    BY <1>1, <1>4, <1>5, <2>1, RiskOnly
<1>6. CASE work.who # None /\ work.answer = "REQ" /\ SetOrder(work.who, "PROVIDER_PENDING")
  <2>1. /\ OrderIs(work.who, "PROVIDER_PENDING") /\ order[work.who].status \notin {"open", "ACTIVE"}
        /\ work.who \in Orders
    BY <1>1, <1>6, Setting DEF Core, Pending
  <2>2. OrderStep
    BY <1>1, <1>4, <2>1, StatusMoves DEF OrderIs
  <2>3. \A o \in Orders : order'[o].status = "ACTIVE" => order[o].status = "ACTIVE"
    BY <2>1 DEF OrderIs
  <2>4. order'[work.who].status # "open"
    BY <2>1 DEF OrderIs
  <2>5. ActiveIsOver'
    BY <1>1, <1>2, <1>3, <2>3, <2>4 DEF ActiveIsOver, Trying, Renewing, Registers
  <2> QED
    BY <2>2, <2>5
<1> QED
  BY <1>5, <1>6 DEF Apply

\* A job that is given up leaves a delivered order delivered, and fails none that is.
LEMMA GiveUpSteps ==
  ASSUME Core, ActiveIsOver, work.at = "raised", work.job # Reconcile, UNCHANGED facts, GiveUp
  PROVE  ActiveIsOver' /\ OrderStep
<1>1. PICK o \in Orders : o = work.job
  BY DEF Core, TypeOK, WorkRows, WorkerRelies, Failing, Jobs
<1>2. /\ order[o].status # "open"
      /\ Registers(o) \/ order[o].status # "ACTIVE"
      /\ work.who \in Orders \cup {None} /\ work \in WorkRows /\ UNCHANGED terms
  BY <1>1 DEF Core, TypeOK, WorkRows, WorkerRelies, Failing, OwedIsOver, ActiveIsOver
<1>3. \A x \in Orders : ~Risk(x)
  <2>1. work.at \notin Failing \cup {"plan", "claim"}
    BY DEF Failing
  <2> QED
    BY <2>1 DEF Risk, AtRisk
<1>4. ASSUME NEW s \in {"PROVIDER_PENDING", "ACTIVE"}, SetOrder(o, s), work' = Idle, vm' = vm,
             domain'.id = domain.id, s = "ACTIVE" => domain.id /\ domain'.zone = "active",
             s = "PROVIDER_PENDING" => owed' = owed /\ order[o].status # "ACTIVE",
             domain'.zone = domain.zone \/ \A x \in Orders : order[x].status # "ACTIVE",
             \A x \in Orders : owed'[x].all = owed[x].all,
             \A x \in Orders \ {o} : owed'[x] = owed[x],
             owed[o].vm > 0 => owed'[o].vm > 0
      PROVE  ActiveIsOver' /\ OrderStep
  <2>1. OrderIs(o, s)
    BY <1>4, Setting DEF Core
  <2>2. work'.at = "idle" /\ work'.who = None
    BY <1>4 DEF Idle
  <2>3. \A x \in Orders : ~Risk(x)'
    BY <2>2 DEF Risk, AtRisk, Failing
  <2>4. \A x \in Orders \ {o} : Done(x)' <=> Done(x)
    BY <1>2, <1>4, <2>1 DEF Done, OrderIs, Bundled
  <2>5. Done(o) => Done(o)'
    BY <1>2, <1>4, <2>1 DEF Done, OrderIs, Bundled
  <2>6. \A x \in Orders : order'[x].status = "open" <=> order[x].status = "open"
    BY <1>2, <2>1 DEF OrderIs
  <2>7. OrderStep
    BY <1>3, <1>4, <2>3, <2>4, <2>5, <2>6, OneMoves
  <2>8. ActiveIsOver'
    BY <1>4, <2>1, <2>2 DEF ActiveIsOver, OrderIs, Trying, Renewing
  <2> QED
    BY <2>7, <2>8
<1>5. domain \in DomainRows /\ owed \in [Orders -> [all : Nat, vm : Nat]]
  BY DEF Core, TypeOK
<1>6. CASE /\ Registers(o) /\ ~domain.id /\ domain.marker = o
           /\ domain' = [domain EXCEPT !.status = "PROVIDER_PENDING"]
           /\ SetOrder(o, "PROVIDER_PENDING") /\ work' = Idle /\ UNCHANGED <<owed, vm>>
  <2>1. domain'.id = domain.id /\ domain'.zone = domain.zone /\ order[o].status # "ACTIVE"
    BY <1>5, <1>6 DEF DomainRows, ActiveIsOver
  <2> QED
    BY <1>4, <1>6, <2>1
<1>7. CASE /\ domain.id /\ ~Registers(o)
           /\ SetOrder(o, "PROVIDER_PENDING") /\ work' = Idle /\ UNCHANGED <<owed, vm, domain>>
  BY <1>2, <1>4, <1>7
<1>8. CASE /\ domain.id /\ Registers(o) /\ domain.zone = "active"
           /\ SetOrder(o, "ACTIVE") /\ work' = Idle
           /\ domain' = [domain EXCEPT !.status = "ACTIVE",
                                       !.vm = IF @ = o /\ vm[o] # "built" THEN None ELSE @]
           /\ owed' = [owed EXCEPT ![o].vm = IF Bundled(o) /\ ~terms[o].waived THEN @ + 1 ELSE @]
           /\ UNCHANGED vm
  <2>1. domain'.id = domain.id /\ domain'.zone = domain.zone
    BY <1>5, <1>8 DEF DomainRows
  <2>2. /\ \A x \in Orders : owed'[x].all = owed[x].all
        /\ \A x \in Orders \ {o} : owed'[x] = owed[x]
        /\ owed[o].vm > 0 => owed'[o].vm > 0
    <3> DEFINE n == IF Bundled(o) /\ ~terms[o].waived THEN owed[o].vm + 1 ELSE owed[o].vm
    <3>1. owed[o] \in [all : Nat, vm : Nat] /\ (owed[o].vm > 0 => n > 0)
      BY <1>5
    <3>2. owed' = [owed EXCEPT ![o] = [owed[o] EXCEPT !.vm = n]]
      BY <1>5, <1>8
    <3> HIDE DEF n
    <3>3. /\ [owed[o] EXCEPT !.vm = n].vm = n
          /\ [owed[o] EXCEPT !.vm = n].all = owed[o].all
      BY <3>1
    <3> QED
      BY <1>5, <3>1, <3>2, <3>3
  <2> QED
    BY <1>4, <1>8, <2>1, <2>2
<1>9. CASE /\ domain.id /\ Registers(o) /\ domain.zone # "active"
           /\ SetOrder(o, "PROVIDER_PENDING") /\ work' = Idle
           /\ domain' = [domain EXCEPT !.status = "PROVIDER_PENDING", !.zone = "error"]
           /\ UNCHANGED <<owed, vm>>
  <2>1. domain'.id = domain.id /\ \A x \in Orders : order[x].status # "ACTIVE"
    BY <1>5, <1>9 DEF DomainRows, ActiveIsOver
  <2> QED
    BY <1>4, <1>9, <2>1
<1>10. CASE /\ ~domain.id
            /\ work' = [work EXCEPT !.at = "fail", !.who = o, !.then = "idle"]
            /\ UNCHANGED <<order, owed, vm, domain>>
  <2>1. work'.at = "fail" /\ work'.who = o
    BY <1>2, <1>10 DEF WorkRows
  <2>2. \A x \in Orders : ~Done(x)
    BY <1>10 DEF ActiveIsOver, Done
  <2>3. ActiveIsOver'
    BY <1>2, <1>10, <2>1 DEF ActiveIsOver, Trying, Renewing
  <2> QED
    BY <1>2, <1>10, <2>2, <2>3, RiskOnly
<1> QED
  BY <1>1, <1>6, <1>7, <1>8, <1>9, <1>10 DEF GiveUp

LEMMA RetrySteps == ASSUME Core, ActiveIsOver, RetryOrFail PROVE ActiveIsOver' /\ OrderStep
<1>1. work.at = "raised" /\ UNCHANGED facts
  BY DEF RetryOrFail
<1>2. CASE work' = Idle /\ UNCHANGED rows
  <2>1. work'.at = "idle" /\ work'.who = None
    BY <1>2 DEF Idle
  <2> QED
    BY <1>1, <1>2, <2>1, RoundSteps
<1>3. CASE work.job # Reconcile /\ GiveUp
  BY <1>1, <1>3, GiveUpSteps
<1> QED
  BY <1>2, <1>3 DEF RetryOrFail

\* Every step keeps what was delivered, and is a step of PaidOrder or a stutter.
LEMMA OrderSteps == ASSUME Core, ActiveIsOver, [Next]_vars PROVE ActiveIsOver' /\ OrderStep
<1>1. CASE UNCHANGED vars \/ Daily \/ Decide \/ Expose \/ AttachOther
  BY <1>1, IdleSteps
<1>2. CASE Worker \/ Crash
  BY <1>2, ClaimSteps, StopSteps, RetrySteps, ReadSteps, ReserveSteps, TrySteps, MarkSteps, RenewSteps,
     ZoneSteps, FinishSteps, BundleSteps, KeepSteps, RefundSteps, ReadDomainSteps, SeekSteps, ApplySteps DEF Worker
<1>3. ASSUME NEW o \in Orders, Pay(o) \/ RetryJob(o) PROVE ActiveIsOver' /\ OrderStep
  BY <1>3, PaySteps, IdleSteps
<1> QED
  BY <1>1, <1>2, <1>3 DEF Next

LEMMA ActiveAtFirst == ASSUME Init PROVE ActiveIsOver /\ \A o \in Orders : PhaseOf(o) = "open"
<1>1. /\ \A o \in Orders : order[o].status = "open" /\ owed[o].all = 0
      /\ work.at = "idle" /\ work.who = None
  BY DEF Init, Idle
<1>2. \A o \in Orders : PhaseOf(o) = "open"
  BY <1>1 DEF PhaseOf
<1> QED
  BY <1>1, <1>2 DEF ActiveIsOver, Trying, Renewing

LEMMA ActiveAlways == Spec => [](Core /\ ActiveIsOver)
  BY InitOK, StepKeeps, ActiveAtFirst, OrderSteps, PTL DEF Spec

\* For any number of orders of a name and whatever goes wrong, however often the worker dies and its
\* jobs are retried: an order is sold at most once and refunded at most once, the row of the name is
\* that of its own registration, and no order is on its way to a refund that gives away what was
\* sold, but after the mishaps that RefundedNotSold excepts (_fulfill_order, _retry_or_fail_job,
\* _reconcile_domain).
THEOREM FulfilmentSafe == Spec => []FulfilmentInv
<1>1. Core /\ ActiveIsOver => FulfilmentInv
  BY OwedIsOnce DEF Core, FulfilmentInv
<1> QED
  BY <1>1, ActiveAlways, PTL

\* No order is refunded while the registrar holds what it paid for, unless a later call was refused,
\* another VM has taken the domain of a bundle, or a later attempt has found the price or the owner
\* changed before it saw the purchase (_retry_or_fail_job, _fail_paid_order, _fulfill_renewal).
THEOREM RefundedNotSoldSafe == Spec => []RefundedNotSold
<1>1. Core /\ ActiveIsOver => RefundedNotSold
  BY DEF Core
<1> QED
  BY <1>1, ActiveAlways, PTL

\* A domain order is an order in the sense of PaidOrder, with any number of orders of the name: what is
\* delivered was paid before, a paid order is delivered or refunded, never both, and a delivered one
\* stays delivered through crashes and retries (_fulfill_order, _retry_or_fail_job).
THEOREM PaidOrderImplemented == Spec => ImplementsPaidOrder
<1> DEFINE phase == [o \in Orders |->
                CASE owed[o].all > 0 -> "refunded"
                  [] order[o].status = "open" -> "open"
                  [] /\ order[o].status = "ACTIVE" /\ owed[o].all = 0
                     /\ Bundled(o) => vm[o] = "built" \/ owed[o].vm > 0
                     /\ ~(Me = o /\ AtRisk) -> "delivered"
                  [] OTHER -> "settled"]
<1>1. ASSUME Core PROVE phase = Phases
  <2> SUFFICES ASSUME NEW o \in Orders PROVE phase[o] = PhaseOf(o)
    BY DEF Phases
  <2>1. owed[o].all \in Nat /\ (owed[o].all > 0 => order[o].status = "REFUND_DUE")
    BY <1>1 DEF Core, TypeOK, OwedIsOver
  <2> QED
    BY <2>1 DEF PhaseOf, Done, Risk
<1>2. Init => Order!Init
  <2> SUFFICES ASSUME Init PROVE Order!Init
    OBVIOUS
  <2>1. Core /\ \A o \in Orders : PhaseOf(o) = "open"
    BY InitOK, ActiveAtFirst
  <2> QED
    BY <1>1, <2>1 DEF Order!Init, Phases
<1>3. (Core /\ ActiveIsOver) /\ (Core /\ ActiveIsOver)' /\ [Next]_vars => [Order!Next]_phase
  <2> SUFFICES ASSUME Core, ActiveIsOver, Core', [Next]_vars PROVE [Order!Next]_phase
    OBVIOUS
  <2>1. OrderStep
    BY OrderSteps
  <2>2. phase = Phases
    BY <1>1
  <2>3. phase' = Phases'
    <3> SUFFICES ASSUME NEW o \in Orders PROVE phase'[o] = PhaseOf(o)'
      BY DEF Phases
    <3>1. owed'[o].all \in Nat /\ (owed'[o].all > 0 => order'[o].status = "REFUND_DUE")
      BY DEF Core, TypeOK, OwedIsOver
    <3> QED
      BY <3>1 DEF PhaseOf, Done, Risk
  <2> QED
    BY <2>1, <2>2, <2>3 DEF OrderStep, Becomes, Order!Next, Order!Settle, Order!Deliver, Order!Refund,
       Order!Become
<1> QED
  BY <1>2, <1>3, ActiveAlways, PTL DEF Spec, ImplementsPaidOrder, Order!Spec

=============================================================================
