--------------------------- MODULE AdminOperations ---------------------------
(***************************************************************************)
(* The queue of operations by which an administrator's disable or enable   *)
(* of an account reaches the account's VMs and mailbox.                    *)
(*                                                                         *)
(* disable_account and enable_account change the account and queue an      *)
(* operation.  Workers claim operations one account at a time and keep     *)
(* the lock of the account's row while they go through its resources, each *)
(* of which is a transaction of its own.  A worker that dies drops the     *)
(* lock and leaves the operation "running"; after fifteen minutes it may   *)
(* be claimed again.  One account is modelled: the lock, the order of the  *)
(* operations and the resources are all the account's.                     *)
(***************************************************************************)
EXTENDS Integers, Sequences, FiniteSets

CONSTANTS
    Workers,
    VMs,          \* the VMs the account owns
    None,
    \* Bounds of the model.
    MaxRequests,  \* requests to disable, to enable and to retry a failed operation
    MaxSurprises  \* what befalls the VMs otherwise, provider errors, failed commits, crashes

Mail == "mail"
ASSUME ResourcesAreDistinct == Mail \notin VMs /\ None \notin Workers

VARIABLES
    disabled,  \* AccountRow.disabled_at is set
    ops,       \* AdminOperationRow in the order of created_at
    lease,     \* the worker that holds the lock of the account's row
    vm,        \* VMRow: status and suspension_reason; guest: the provider's power state
    mail,      \* MailAccountRow: status and suspension_reason
    overdue,   \* the resources whose expires_at has passed
    work,      \* a worker: where it is, the operation, the resources it has ahead
    spent      \* what the bounds count

account == <<disabled, ops, lease>>
resources == <<vm, mail, overdue>>
vars == <<account, resources, work, spent>>

Kinds == {"suspend", "resume"}
Terminal == {"FAILED", "DESTROYED"}
Idle == [at |-> "idle", op |-> 0, todo |-> {}]

Spend(what, bound) == /\ spent[what] < bound
                      /\ spent' = [spent EXCEPT ![what] = @ + 1]
GoesWrong == Spend("surprises", MaxSurprises)

----------------------------------------------------------------------------
(* The administrator.                                                      *)

Operation(kind) == [kind |-> kind, status |-> "queued", fresh |-> FALSE]

\* _supersede_failed_inverse_operations
Supersede(inverse) ==
    [i \in DOMAIN ops |-> IF ops[i].kind = inverse /\ ops[i].status = "failed"
                          THEN [ops[i] EXCEPT !.status = "completed"] ELSE ops[i]]

\* Neither request asks what the account is now.
DisableAccount ==
    /\ lease = None /\ Spend("requests", MaxRequests)
    /\ disabled' = TRUE
    /\ ops' = Append(Supersede("resume"), Operation("suspend"))
    /\ UNCHANGED <<lease, resources, work>>

EnableAccount ==
    /\ lease = None /\ Spend("requests", MaxRequests)
    /\ disabled' = FALSE
    /\ ops' = Append(Supersede("suspend"), Operation("resume"))
    /\ UNCHANGED <<lease, resources, work>>

Matches(kind) == (kind = "suspend") <=> disabled

\* The account is read without its lock, the operation's row with it.
RetryAdminOperation(i) ==
    /\ ops[i].status = "failed" /\ Matches(ops[i].kind) /\ Spend("requests", MaxRequests)
    /\ ops' = [ops EXCEPT ![i] = Operation(ops[i].kind)]
    /\ UNCHANGED <<disabled, lease, resources, work>>

----------------------------------------------------------------------------
(* A worker.                                                               *)

\* Mutant of Eligible: an operation that was left running is never taken up.
EligibleQueued == {i \in DOMAIN ops : ops[i].status = "queued"}

Eligible == {i \in DOMAIN ops : \/ ops[i].status = "queued"
                                \/ ops[i].status = "running" /\ ~ops[i].fresh}
\* What was left running comes before what is queued, then the oldest.
First(i, j) == IF ops[i].status = ops[j].status THEN i <= j ELSE ops[i].status = "running"

\* process_admin_operations up to the commit: the account's row is skipped when it is
\* locked, and so is an account one of whose operations was started lately.
Claim(w) ==
    /\ work[w].at = "idle" /\ lease = None
    /\ ~ \E i \in DOMAIN ops : ops[i].status = "running" /\ ops[i].fresh
    /\ \E i \in Eligible :
         /\ \A j \in Eligible : First(i, j)
         /\ ops' = [ops EXCEPT ![i].status = "running", ![i].fresh = TRUE]
         /\ work' = [work EXCEPT ![w] = [at |-> "claimed", op |-> i, todo |-> {}]]
    /\ UNCHANGED <<disabled, lease, resources, spent>>

\* Mutant of Lease: an operation that a later one has overtaken is applied nevertheless.
LeaseAnyway(w) ==
    /\ work[w].at = "claimed" /\ lease = None /\ lease' = w
    /\ work' = [work EXCEPT ![w].at = "applying", ![w].todo = VMs \cup {Mail}]
    /\ UNCHANGED <<disabled, ops, resources, spent>>

\* _apply_account_operation takes the lock and finds what there is to do.
Lease(w) ==
    /\ work[w].at = "claimed" /\ lease = None /\ lease' = w
    /\ work' = [work EXCEPT ![w].at = "applying",
                  ![w].todo = IF Matches(ops[work[w].op].kind) THEN VMs \cup {Mail} ELSE {}]
    /\ UNCHANGED <<disabled, ops, resources, spent>>

Halted(v) == IF v.guest = "on" THEN "off" ELSE v.guest
Started(v) == IF v.guest = "off" THEN "on" ELSE v.guest

\* A VM's row after it was suspended for the account; its guest has been halted.
Suspended(v) ==
    IF v.status = "DESTROYED" \/ (v.status = "FAILED" /\ v.guest = "none") THEN v
    ELSE IF v.status = "SUSPENDED" /\ v.reason \in {"manual_admin", "expired"}
    THEN [v EXCEPT !.guest = Halted(v)]
    ELSE [status |-> IF v.status \in {"PROVISIONING", "FAILED"} THEN v.status ELSE "SUSPENDED",
          reason |-> "account_disabled", guest |-> Halted(v)]

\* Mutant of Resumed: the row's expiry is not looked at.
ResumedUnchecked(v, late) ==
    IF v.reason # "account_disabled" THEN v
    ELSE IF v.status \in Terminal THEN [v EXCEPT !.reason = "none"]
    ELSE [status |-> IF v.status = "PROVISIONING" THEN v.status ELSE "RUNNING",
          reason |-> "none", guest |-> Started(v)]

\* A VM's row after the account was enabled: only what was stopped for the account is
\* started, and not what is over or expired.  A row without a guest is provisioned again.
Resumed(v, late) ==
    IF v.reason # "account_disabled" THEN v
    ELSE IF v.status \in Terminal THEN [v EXCEPT !.reason = "none"]
    ELSE IF late THEN [v EXCEPT !.reason = "expired"]
    ELSE [status |-> IF v.status = "PROVISIONING" \/ v.guest = "none" THEN "PROVISIONING"
                     ELSE "RUNNING",
          reason |-> "none", guest |-> Started(v)]

Applied(w, v) == IF ops[work[w].op].kind = "suspend" THEN Suspended(vm[v])
                 ELSE Resumed(vm[v], v \in overdue)

\* A resource is brought in line and its row committed.
StepVM(w, v) ==
    /\ work[w].at = "applying" /\ v \in work[w].todo \ {Mail}
    /\ vm' = [vm EXCEPT ![v] = Applied(w, v)]
    /\ work' = [work EXCEPT ![w].todo = @ \ {v}]
    /\ UNCHANGED <<account, mail, overdue, spent>>

\* The mailbox comes last.
StepMail(w) ==
    /\ work[w].at = "applying" /\ work[w].todo = {Mail}
    /\ mail' = IF ops[work[w].op].kind = "suspend"
               THEN IF mail.status = "suspended" THEN mail
                    ELSE [status |-> "suspended", reason |-> "account_disabled"]
               ELSE IF mail.reason # "account_disabled" THEN mail
                    ELSE IF Mail \in overdue THEN [status |-> "suspended", reason |-> "expired"]
                    ELSE [status |-> "active", reason |-> "none"]
    /\ work' = [work EXCEPT ![w].todo = {}]
    /\ UNCHANGED <<account, vm, overdue, spent>>

\* The terminal status is committed, and the lock goes with the transaction.
Finish(w) ==
    /\ work[w].at = "applying" /\ work[w].todo = {} /\ lease' = None
    /\ ops' = [ops EXCEPT ![work[w].op].status = "completed"]
    /\ work' = [work EXCEPT ![w] = Idle]
    /\ UNCHANGED <<disabled, resources, spent>>

\* The provider refuses, or the row's commit fails after it has obeyed.
StepFails(w) ==
    /\ work[w].at = "applying" /\ work[w].todo # {} /\ GoesWrong /\ lease' = None
    /\ ops' = [ops EXCEPT ![work[w].op].status = "failed"]
    /\ work' = [work EXCEPT ![w] = Idle]
    /\ \/ UNCHANGED vm
       \/ \E v \in work[w].todo \ {Mail} : vm' = [vm EXCEPT ![v].guest = Applied(w, v).guest]
    /\ UNCHANGED <<disabled, mail, overdue>>

\* The terminal status is not committed: the lock is lost, the handler runs later.
FinishFails(w) ==
    /\ work[w].at = "applying" /\ work[w].todo = {} /\ GoesWrong /\ lease' = None
    /\ work' = [work EXCEPT ![w].at = "fallback"]
    /\ UNCHANGED <<disabled, ops, resources>>

\* What is still running is marked failed, whoever runs it by now.
Fallback(w) ==
    /\ work[w].at = "fallback"
    /\ ops' = [ops EXCEPT ![work[w].op].status = IF @ = "running" THEN "failed" ELSE @]
    /\ work' = [work EXCEPT ![w] = Idle]
    /\ UNCHANGED <<disabled, lease, resources, spent>>

\* The worker dies; what it had asked of the provider may have happened.
Crash(w) ==
    /\ work[w].at # "idle" /\ GoesWrong
    /\ work' = [work EXCEPT ![w] = Idle]
    /\ lease' = IF lease = w THEN None ELSE lease
    /\ \/ UNCHANGED vm
       \/ \E v \in work[w].todo \ {Mail} : vm' = [vm EXCEPT ![v].guest = Applied(w, v).guest]
    /\ UNCHANGED <<disabled, ops, mail, overdue>>

\* Fifteen minutes have gone by since the operation was started.
GoesStale(i) ==
    /\ ops[i].status = "running" /\ ops[i].fresh
    /\ ops' = [ops EXCEPT ![i].fresh = FALSE]
    /\ UNCHANGED <<disabled, lease, resources, work, spent>>

----------------------------------------------------------------------------
(* What befalls the resources otherwise.  Whoever locks a VM's row locks   *)
(* its owner's first (locked_vm, vm_action), so all of it waits for the    *)
(* worker.  The provisioning task records its guest without that lock.     *)

Befalls(v, row) == /\ Spend("surprises", MaxSurprises) /\ vm' = [vm EXCEPT ![v] = row]
                   /\ UNCHANGED <<account, mail, overdue, work>>

CreateGuest(v) ==
    /\ vm[v].status = "PROVISIONING" /\ vm[v].guest = "none"
    /\ Befalls(v, [vm[v] EXCEPT !.guest = "on"])

\* _stop_restricted_provisioned_guest
Restrict(v) ==
    /\ lease = None /\ vm[v].status = "PROVISIONING" /\ vm[v].guest = "on"
    /\ disabled \/ vm[v].reason \in {"account_disabled", "manual_admin"}
    /\ Befalls(v, [vm[v] EXCEPT !.guest = "off"])

\* The guest has reported: the row becomes READY, or SUSPENDED if something holds it.
Finalize(v) ==
    /\ lease = None /\ vm[v].status = "PROVISIONING" /\ vm[v].guest # "none"
    /\ Befalls(v, IF vm[v].reason = "none" THEN [vm[v] EXCEPT !.status = "RUNNING"]
                  ELSE [vm[v] EXCEPT !.status = "SUSPENDED", !.guest = "off"])

ProvisioningFails(v) ==
    /\ lease = None /\ vm[v].status = "PROVISIONING"
    /\ Befalls(v, [vm[v] EXCEPT !.status = "FAILED"])

\* vm_action with "start", and with "shutdown" or "suspend".
AdminStart(v) ==
    /\ lease = None /\ ~disabled /\ vm[v].guest # "none" /\ v \notin overdue
    /\ vm[v].status \notin Terminal \cup {"PROVISIONING"} /\ vm[v].reason # "account_disabled"
    /\ Befalls(v, [status |-> "RUNNING", reason |-> "none", guest |-> Started(vm[v])])

AdminStop(v) ==
    /\ lease = None /\ vm[v].guest # "none"
    /\ vm[v].status \notin {"DESTROYED", "PROVISIONING"}
    /\ Befalls(v, [status |-> IF vm[v].status = "FAILED" THEN "FAILED" ELSE "SUSPENDED",
                   reason |-> IF vm[v].reason = "account_disabled" THEN vm[v].reason
                              ELSE "manual_admin",
                   guest |-> Halted(vm[v])])

\* check_expiries, before the grace period is over.
Expire(v) ==
    /\ lease = None /\ v \in overdue /\ vm[v].status \in {"RUNNING", "PROVISIONING"}
    /\ vm[v].status = "PROVISIONING" => vm[v].guest # "none"
    /\ Befalls(v, [status |-> IF vm[v].status = "RUNNING" THEN "SUSPENDED" ELSE vm[v].status,
                   reason |-> IF vm[v].reason = "none" THEN "expired" ELSE vm[v].reason,
                   guest |-> Halted(vm[v])])

\* destroy_vm, as one step.
Destroy(v) ==
    /\ lease = None /\ vm[v].status # "DESTROYED"
    /\ Befalls(v, [vm[v] EXCEPT !.status = "DESTROYED", !.guest = "none"])

\* expires_at passes.
TimePasses(r) ==
    /\ r \notin overdue /\ Spend("surprises", MaxSurprises) /\ overdue' = overdue \cup {r}
    /\ UNCHANGED <<account, vm, mail, work>>

----------------------------------------------------------------------------
\* A new VM, one that runs, and one from before PROVISIONING rows were left alone by
\* the suspension, in an account that was disabled then.
NewVM == [status |-> "PROVISIONING", reason |-> "none", guest |-> "none"]
RunningVM == [status |-> "RUNNING", reason |-> "none", guest |-> "on"]
LegacyVM == [status |-> "SUSPENDED", reason |-> "account_disabled", guest |-> "none"]

Init ==
    /\ ops = << >> /\ lease = None /\ overdue = {}
    /\ work = [w \in Workers |-> Idle]
    /\ spent = [requests |-> 0, surprises |-> 0]
    /\ \/ /\ disabled = FALSE /\ mail = [status |-> "active", reason |-> "none"]
          /\ vm \in [VMs -> {NewVM, RunningVM}]
       \/ /\ disabled = TRUE /\ mail = [status |-> "suspended", reason |-> "account_disabled"]
          /\ vm = [v \in VMs |-> LegacyVM]

Work(w) ==
    \/ Claim(w) \/ Lease(w) \/ StepMail(w) \/ Finish(w) \/ Fallback(w)
    \/ \E v \in VMs : StepVM(w, v)

Next ==
    \/ DisableAccount \/ EnableAccount
    \/ \E i \in DOMAIN ops : RetryAdminOperation(i) \/ GoesStale(i)
    \/ \E w \in Workers : Work(w) \/ StepFails(w) \/ FinishFails(w) \/ Crash(w)
    \/ \E v \in VMs : \/ CreateGuest(v) \/ Restrict(v) \/ Finalize(v) \/ ProvisioningFails(v)
                      \/ AdminStart(v) \/ AdminStop(v) \/ Expire(v) \/ Destroy(v)
    \/ \E r \in VMs \cup {Mail} : TimePasses(r)

Spec == Init /\ [][Next]_vars

\* The worker process runs and the clock goes on.
FairSpec == /\ Spec
            /\ \A w \in Workers : WF_vars(Work(w))
            /\ \A i \in 1..MaxRequests : WF_vars(i \in DOMAIN ops /\ GoesStale(i))

----------------------------------------------------------------------------
(* Properties.                                                             *)

\* fresh: its lease has not run out.
OperationRows == [kind : Kinds, status : {"queued", "running", "failed", "completed"},
                  fresh : BOOLEAN]
MailRows == [status : {"active", "suspended"}, reason : {"none", "account_disabled", "expired"}]

VMRows == [status : {"PROVISIONING", "RUNNING", "SUSPENDED"} \cup Terminal,
           reason : {"none", "account_disabled", "manual_admin", "expired"},
           guest : {"none", "on", "off"}]
WorkRows == [at : {"idle", "claimed", "applying", "fallback"}, op : Nat,
             todo : SUBSET (VMs \cup {Mail})]

\* What the variables hold, and what relates them by construction of the tables.
TypeOK ==
    /\ disabled \in BOOLEAN /\ lease \in Workers \cup {None}
    /\ ops \in Seq(OperationRows) /\ mail \in MailRows
    /\ vm \in [VMs -> VMRows] /\ overdue \subseteq VMs \cup {Mail}
    /\ work \in [Workers -> WorkRows]
    /\ \A w \in Workers : /\ work[w].at = "applying" <=> lease = w
                          /\ work[w].at # "idle" => work[w].op \in DOMAIN ops
                          /\ work[w].todo # {} => work[w].at = "applying"

\* A disabled account has no VM that runs, a VM that is being provisioned is marked to be
\* held, and the mailbox is off; an enabled account has nothing that is still held because
\* it was disabled.
VMFits(v) == IF disabled
             THEN \/ vm[v].status \in Terminal
                  \/ vm[v].status = "SUSPENDED" /\ vm[v].guest # "on"
                  \/ vm[v].status = "PROVISIONING" /\ vm[v].reason # "none"
             ELSE vm[v].reason # "account_disabled"
MailFits == IF disabled THEN mail.status = "suspended" ELSE mail.reason # "account_disabled"
Fits == MailFits /\ \A v \in VMs : VMFits(v)

\* Once nothing is queued, running or failed, the resources fit the account, in whatever
\* order requests, workers, retries and crashes came (process_admin_operations).
SettledFits == (\A i \in DOMAIN ops : ops[i].status = "completed") => Fits

\* Until then some operation that is not over asks for what the account is now.
FitsOrOwed == Fits \/ \E i \in DOMAIN ops : Matches(ops[i].kind) /\ ops[i].status # "completed"

\* A worker that changes resources applies what the account is, and what it has behind it
\* fits: the lock of the account's row keeps everyone else away from both.
WorkFits ==
    \A w \in Workers : work[w].at = "applying" /\ Matches(ops[work[w].op].kind) =>
        /\ \A v \in VMs : v \notin work[w].todo => VMFits(v)
        /\ Mail \notin work[w].todo => MailFits
WorkMatches ==
    \A w \in Workers : work[w].todo # {} => Matches(ops[work[w].op].kind)

\* What holds in every state of the queue (process_admin_operations,
\* _apply_account_operation).
QueueInv == TypeOK /\ FitsOrOwed /\ WorkFits /\ WorkMatches /\ SettledFits

\* The worker starts no guest of a disabled account, none that the operator has stopped and
\* none whose time is over (_apply_locked_account_operation).
ResumesOnlyWhatItStopped ==
    [][\A v \in VMs :
         vm[v].guest = "off" /\ vm'[v].guest = "on" /\ lease # None =>
            ~disabled /\ vm[v].reason = "account_disabled" /\ v \notin overdue]_vars

\* Every operation ends: what a dead worker has left is taken up again.
OperationsEnd ==
    \A i \in 1..MaxRequests :
      (i \in DOMAIN ops /\ ops[i].status \in {"queued", "running"})
         ~> (i \in DOMAIN ops /\ ops[i].status \in {"completed", "failed"})
=============================================================================
