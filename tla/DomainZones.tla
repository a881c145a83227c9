---------------------------- MODULE DomainZones -----------------------------
(***************************************************************************)
(* The zone of a domain that is registered: what the table says, what the  *)
(* DNS control plane serves and what the registrar has delegated.          *)
(*                                                                         *)
(* Customers apply changesets through the API; the single worker runs the  *)
(* operations they queue (nameservers, DNSSEC, transfer) and reconciles    *)
(* the zone every day.  The orchestrator attaches the domain when its VM   *)
(* has come up and detaches it when the VM is destroyed; what fails there  *)
(* is left to the worker as a job.  An administrator may retry a job that  *)
(* failed, and give the domain to another account.  Each call to the       *)
(* control plane and to the registrar is a step.  A transaction that holds *)
(* the lock of the domain's row across a call keeps it until it commits.   *)
(***************************************************************************)
EXTENDS Faults, FiniteSets

CONSTANTS
    Clients,      \* API requests with a changeset
    Operations,   \* of the operations below, the ones that may be queued
    \* Bounds of the model.
    Beginnings,   \* the modes of nameservers and DNSSEC that a history begins with
    MaxAttempts,  \* attempts of a job; the code says 10
    MaxQueued     \* operations of the customer, reconciliations and retries

AllOperations == {"external", "managed", "dnssec_managed", "dnssec_external", "dnssec_off",
                  "transfer"}
ASSUME OperationsAreKnown == Operations \subseteq AllOperations
ASSUME AttemptsAreNumbers == MaxAttempts \in Nat

VARIABLES
    row,      \* DomainRow: nameserver_mode, dnssec_mode, vm_id, vm_ipv6, zone_revision,
              \* whether a transfer to another registrar is pending, and the owner
    records,  \* DomainDNSRecordRow: the apex AAAA and all the others
    plane,    \* the zone in the control plane; rev 0: it has none
    parent,   \* the registrar's nameservers and DNSSEC keys
    lock,     \* who holds the lock of the domain's row
    edit,     \* a client's changeset: where it is, the revision it expects, what it wants
    jobs,     \* DomainJobRow, by operation, and the account that asked for it
    work,     \* the worker and the orchestrator: the job, what was read, the step that is next
    vm,       \* the VM that takes the domain, and whether it holds its prefix
    sweeps    \* reconciliations and retries, which MaxQueued counts too

zone == <<row, records>>
outside == <<plane, parent>>
zoneVars == <<zone, outside, lock, edit, jobs, work, vm, sweeps, mishaps>>

Reconcile == "reconcile"
VMJobs == {"attach", "detach"}
Jobs == Operations \cup VMJobs \cup {Reconcile}
Worker == "worker"
Actors == {Worker, "provision", "destroy"}
Accounts == {"buyer", "heir"}
ASSUME NamesAreApart == /\ None \notin Clients \cup Actors \cup Jobs \cup AllOperations
                        /\ Clients \cap Actors = {}

\* Contents of a zone: whose the apex AAAA is, and who wrote the rest.
Contents == [apex : {"none", "customer", "vm"}, rest : Clients \cup {None}]
Zones == [rev : Nat, apex : {"none", "customer", "vm"}, rest : Clients \cup {None}]
NoZone == [rev |-> 0, apex |-> "none", rest |-> None]
Published(rev, contents) == [rev |-> rev, apex |-> contents.apex, rest |-> contents.rest]

\* A job that was never asked for; by: the account that asked.  "saved" is a job that still
\* runs while its operation has succeeded.
NoOperation == [status |-> "none", attempts |-> 0, by |-> "buyer"]
NoEdit == [at |-> "idle", rev |-> 0, want |-> [apex |-> "none", rest |-> None],
           by |-> "buyer"]
Idle == [job |-> None, mode |-> None, dnssec |-> None, zone |-> NoZone, step |-> "none"]

\* The control plane takes a zone that is not older than the one it has.
Accepts(rev) == rev >= plane.rev

----------------------------------------------------------------------------
(* Changesets.                                                             *)

\* The client has read the zone.
Fetch(c) ==
    /\ edit[c].at = "idle"
    /\ \E want \in Contents :
         /\ want.rest = c /\ want.apex # "vm"
         /\ edit' = [edit EXCEPT ![c] = [at |-> "begin", rev |-> row.rev, want |-> want,
                                         by |-> row.owner]]
    /\ UNCHANGED <<zone, outside, lock, jobs, work, vm, sweeps, mishaps>>

\* Mutant of Begin: the row is read without its lock.
BeginUnlocked(c) ==
    /\ edit[c].at = "begin" /\ lock = None
    /\ IF /\ row.owner = edit[c].by /\ row.mode = "managed" /\ row.rev = edit[c].rev
          /\ row.ipv6 => edit[c].want.apex = "none"
       THEN edit' = [edit EXCEPT ![c].at = "push",
                       ![c].want.apex = IF row.ipv6 THEN records.apex ELSE @]
       ELSE edit' = [edit EXCEPT ![c] = [NoEdit EXCEPT !.at = "done"]]
    /\ UNCHANGED <<zone, outside, lock, jobs, work, vm, sweeps, mishaps>>

\* apply_changeset up to the call: the row is locked, the revision is the expected one,
\* and the apex of an attached VM is left alone.
Begin(c) ==
    /\ edit[c].at = "begin" /\ lock = None
    /\ IF /\ row.owner = edit[c].by /\ row.mode = "managed" /\ row.rev = edit[c].rev
          /\ row.ipv6 => edit[c].want.apex = "none"
       THEN edit' = [edit EXCEPT ![c].at = "push",
                       ![c].want.apex = IF row.ipv6 THEN records.apex ELSE @] /\ lock' = c
       ELSE edit' = [edit EXCEPT ![c] = [NoEdit EXCEPT !.at = "done"]] /\ UNCHANGED lock
    /\ UNCHANGED <<zone, outside, jobs, work, vm, sweeps, mishaps>>

\* The zone is applied under the next revision, or the client gets a 503.
Push(c) ==
    /\ edit[c].at = "push" /\ UNCHANGED <<zone, parent, jobs, work, vm, sweeps>>
    /\ \/ /\ Accepts(row.rev + 1) /\ Fine /\ UNCHANGED lock
          /\ plane' = Published(row.rev + 1, edit[c].want)
          /\ edit' = [edit EXCEPT ![c].at = "commit"]
       \/ /\ edit' = [edit EXCEPT ![c] = [NoEdit EXCEPT !.at = "done"]] /\ lock' = None
          /\ \/ GoesWrong("refused") /\ UNCHANGED plane
             \/ GoesWrong("lost") /\ plane' = Published(row.rev + 1, edit[c].want)

Commit(c) ==
    /\ edit[c].at = "commit" /\ lock' = None
    /\ edit' = [edit EXCEPT ![c] = [NoEdit EXCEPT !.at = "done"]]
    /\ \/ /\ row' = [row EXCEPT !.rev = @ + 1] /\ records' = edit[c].want /\ Fine
       \/ GoesWrong("error") /\ UNCHANGED zone
    /\ UNCHANGED <<outside, jobs, work, vm, sweeps>>

----------------------------------------------------------------------------
(* What customers queue.                                                   *)

\* What MaxQueued bounds.
Asked == Cardinality({k \in Operations : jobs[k].status # "none"}) + sweeps

\* _enqueue_domain_operation, once per Idempotency-Key.
Enqueue(k, account) ==
    /\ k \in Operations /\ jobs[k].status = "none" /\ Asked < MaxQueued
    /\ jobs' = [jobs EXCEPT ![k].status = "queued", ![k].by = account]
    /\ UNCHANGED <<zone, outside, lock, edit, work, vm, sweeps, mishaps>>

\* The owner is looked at before the transaction that queues the operation, and the domain
\* may have gone over to the heir meanwhile.
Askers == {row.owner, "buyer"}

\* The external delegation of a domain with a VM is refused, and the owner is looked at
\* again: this transaction locks the domain's row.
EnqueueNameserverUpdate ==
    \/ lock = None /\ ~row.vm /\ ~row.ipv6 /\ Enqueue("external", row.owner)
    \/ \E a \in Askers : Enqueue("managed", a)
EnqueueDNSSECUpdate ==
    \E mode \in {"dnssec_managed", "dnssec_external", "dnssec_off"}, a \in Askers : Enqueue(mode, a)
EnqueueTransferOut == \E a \in Askers : Enqueue("transfer", a)

\* reconcile_pending and ingest_webhook queue a look at the domain.
Sweep ==
    /\ jobs[Reconcile].status \notin {"queued", "running"} /\ Asked < MaxQueued
    /\ jobs' = [jobs EXCEPT ![Reconcile] = [status |-> "queued", attempts |-> 0, by |-> row.owner]]
    /\ sweeps' = sweeps + 1
    /\ UNCHANGED <<zone, outside, lock, edit, work, vm, mishaps>>

\* retry_job: an administrator queues a job that failed again, with the attempts it
\* has used up.
RetryJob(k) ==
    /\ jobs[k].status = "failed" /\ Asked < MaxQueued
    /\ jobs' = [jobs EXCEPT ![k].status = "queued"] /\ sweeps' = sweeps + 1
    /\ UNCHANGED <<zone, outside, lock, edit, work, vm, mishaps>>

\* _pending_domain_work: an operation counts until its outcome is saved, a job about the
\* domain or its VM until it is over.
Pending == \E k \in Jobs : jobs[k].status \in {"queued", "running"}

\* transfer_domain: the domain and its VM go to another account, unless work on them is
\* pending or the VM is being built or deleted.
TransferDomain ==
    /\ lock = None /\ row.owner = "buyer" /\ ~Pending /\ GoesWrong("transferred")
    /\ row.vm => vm.state = "up"
    /\ row' = [row EXCEPT !.owner = "heir"]
    /\ UNCHANGED <<records, outside, lock, edit, jobs, work, vm, sweeps>>

----------------------------------------------------------------------------
(* The VM.                                                                 *)

\* claim_vm_attachment, when the VM is bought.
ClaimAttachment ==
    /\ vm.state = "none" /\ lock = None
    /\ row.mode = "managed" /\ ~row.transfer /\ ~row.vm /\ records.apex = "none"
    /\ row' = [row EXCEPT !.vm = TRUE] /\ vm' = [vm EXCEPT !.state = "claimed"]
    /\ UNCHANGED <<records, outside, lock, edit, jobs, work, sweeps, mishaps>>

\* The VM is ready, and _register_custom_domain attaches the domain ...
Provisioned ==
    /\ vm.state = "claimed" /\ vm' = [vm EXCEPT !.state = "up"]
    /\ work' = [work EXCEPT !["provision"] = [Idle EXCEPT !.job = "attach", !.step = "lock"]]
    /\ UNCHANGED <<zone, outside, lock, edit, jobs, sweeps, mishaps>>

\* ... or it failed, and release_vm_attachment_claim gives the domain up.
ProvisioningFailed ==
    /\ vm.state = "claimed" /\ lock = None /\ vm' = [vm EXCEPT !.state = "gone"]
    /\ row' = IF row.ipv6 THEN row ELSE [row EXCEPT !.vm = FALSE]
    /\ UNCHANGED <<records, outside, lock, edit, jobs, work, sweeps, mishaps>>

\* The VM is destroyed, with its domain detached at the end.
Destroy ==
    /\ vm.state = "up" /\ vm' = [vm EXCEPT !.state = "gone"]
    /\ work' = [work EXCEPT !["destroy"] = [Idle EXCEPT !.job = "detach", !.step = "lock"]]
    /\ UNCHANGED <<zone, outside, lock, edit, jobs, sweeps, mishaps>>

----------------------------------------------------------------------------
(* The worker and its jobs.                                                *)

\* What a job begins with, given the row that it has read ...
FirstStep(k, r) ==
    CASE k = "external" -> IF r.dnssec = "managed" THEN "ds_none" ELSE "ns_external"
      [] k = "managed" -> IF r.dnssec = "external" THEN "ds_none" ELSE "load"
      [] k = "dnssec_managed" -> "load"
      [] k = "dnssec_external" -> "ds_external"
      [] k = "dnssec_off" -> "ds_none"
      [] k = "transfer" -> "unlock"
      [] k = Reconcile -> IF r.mode = "managed" /\ ~r.transfer THEN "load" ELSE "none"
      [] OTHER -> "lock"

\* ... and what it does after each of its steps (_apply_nameservers, _apply_dnssec,
\* _transfer_out, _reconcile_domain, attach_vm and detach_vm).  From "load" to
\* "zone_saved" they are in _ensure_managed_zone, with DNSSEC keys or without.
KeysToo(w) == w.job = "dnssec_managed" \/ w.dnssec = "managed"
StepAfter(w) ==
    CASE w.step = "ds_none" -> (CASE w.job = "external" -> "ns_external"
                                  [] w.job = "managed" -> "load"
                                  [] OTHER -> "saved")
      [] w.step = "ns_external" -> IF w.mode = "managed" THEN "delete" ELSE "saved"
      [] w.step = "load" -> "apply"
      [] w.step = "apply" -> "ns_managed"
      [] w.step = "ns_managed" -> IF KeysToo(w) THEN "ds_managed" ELSE "zone_saved"
      [] w.step = "ds_managed" -> "zone_saved"
      [] w.step = "zone_saved" -> IF w.job = Reconcile THEN "none" ELSE "saved"
      [] w.step \in {"ds_external", "unlock", "delete"} -> "saved"
      [] w.step = "lock" -> "push"
      [] w.step = "push" -> "vm_saved"
      [] OTHER -> "none"

\* The job has begun, with what was read of the row.
Begun(k, r) == [Idle EXCEPT !.job = k, !.mode = r.mode, !.dnssec = r.dnssec,
                            !.step = FirstStep(k, r)]

\* What the row forbids: _assert_external_delegation_allowed and _apply_dnssec.
Forbids(k, r) ==
    \/ k = "external" /\ (r.vm \/ r.ipv6)
    \/ k = "dnssec_managed" /\ r.mode # "managed"
    \/ k = "dnssec_external" /\ r.mode # "external"

\* _operation_and_domain refuses what a former owner asked for.
OwnerChanged(k) == k \in Operations /\ jobs[k].by # row.owner

\* Attempts beyond the last one are not told apart.
Attempted(job) == [job EXCEPT !.status = "running",
                              !.attempts = IF @ < MaxAttempts THEN @ + 1 ELSE @]

\* Mutant of Claim: DNSSEC keys are set for whatever nameservers the domain has.
ClaimAnyKeys(k) ==
    /\ work[Worker].job = None /\ lock = None /\ jobs[k].status \in {"queued", "running", "saved"}
    /\ jobs' = [jobs EXCEPT ![k] = Attempted(@)]
    /\ work' = [work EXCEPT ![Worker] = Begun(k, row)]
    /\ UNCHANGED <<zone, outside, lock, edit, vm, sweeps, mishaps>>

\* _claim_job, then _operation_and_domain reads the row.  A job that the row forbids
\* fails at once.
Claim(k) ==
    /\ work[Worker].job = None /\ jobs[k].status \in {"queued", "running", "saved"}
    /\ k \in Operations => lock = None
    /\ IF Forbids(k, row) \/ OwnerChanged(k)
       THEN jobs' = [jobs EXCEPT ![k].status = "failed"] /\ UNCHANGED work
       ELSE /\ jobs' = [jobs EXCEPT ![k] = Attempted(@)]
            /\ work' = [work EXCEPT ![Worker] = Begun(k, row)]
    /\ UNCHANGED <<zone, outside, lock, edit, vm, sweeps, mishaps>>

Does(a, step) == work[a].step = step
Onward(a) == work' = [work EXCEPT ![a].step = StepAfter(work[a]), ![a].zone = NoZone]
Unlocked(a) == IF lock = a THEN None ELSE lock

\* A call of this actor failed.  The worker tries the job again, or gives it up when it may
\* not be retried; the orchestrator leaves it to the worker, once per VM.
FailsWith(a, retryable) ==
    /\ work' = [work EXCEPT ![a] = Idle] /\ lock' = Unlocked(a)
    /\ LET k == work[a].job
       IN  jobs' = [jobs EXCEPT ![k].status =
                      IF a # Worker THEN (IF @ = "none" THEN "queued" ELSE @)
                      ELSE IF retryable /\ jobs[k].attempts < MaxAttempts THEN "queued"
                      ELSE "failed"]

\* What is refused may be refused for good (retryable of DNSControlError, OpenproviderError).
Fails(a) == \E retryable \in BOOLEAN : FailsWith(a, retryable)

\* A call that has this effect succeeds, is refused, or succeeds unheard.
Call(a, effect) ==
    /\ UNCHANGED <<zone, edit, vm, sweeps>>
    /\ \/ effect /\ Onward(a) /\ Fine /\ UNCHANGED <<lock, jobs>>
       \/ GoesWrong("refused") /\ Fails(a) /\ UNCHANGED outside
       \/ GoesWrong("lost") /\ effect /\ FailsWith(a, TRUE)

KeyStep == [none |-> "ds_none", managed |-> "ds_managed", external |-> "ds_external"]
SetKeys(ds) ==
    /\ Does(Worker, KeyStep[ds])
    /\ Call(Worker, parent' = [parent EXCEPT !.ds = ds] /\ UNCHANGED plane)
DelegationStep == [managed |-> "ns_managed", external |-> "ns_external"]
Delegate(ns) ==
    /\ Does(Worker, DelegationStep[ns])
    /\ Call(Worker, parent' = [parent EXCEPT !.ns = ns] /\ UNCHANGED plane)
DeleteZone == Does(Worker, "delete") /\ Call(Worker, plane' = NoZone /\ UNCHANGED parent)
Unlock == Does(Worker, "unlock") /\ Call(Worker, UNCHANGED outside)

\* _ensure_managed_zone reads the revision and the records without a lock ...
Load ==
    /\ Does(Worker, "load")
    /\ work' = [work EXCEPT ![Worker].step = StepAfter(work[Worker]),
                            ![Worker].zone = Published(row.rev, records)]
    /\ UNCHANGED <<zone, outside, lock, edit, jobs, vm, sweeps, mishaps>>

\* ... and applies them, unless a changeset has been applied meanwhile.
ApplyZone ==
    /\ Does(Worker, "apply")
    /\ LET read == work[Worker].zone
       IN  IF Accepts(read.rev) THEN Call(Worker, plane' = read /\ UNCHANGED parent)
           ELSE Fails(Worker) /\ UNCHANGED <<zone, outside, edit, vm, sweeps, mishaps>>

\* The mode that the zone was initialised for is written without another look.
ZoneSaved ==
    /\ Does(Worker, "zone_saved") /\ lock = None
    /\ row' = [row EXCEPT !.mode = "managed"] /\ Onward(Worker)
    /\ UNCHANGED <<records, outside, lock, edit, jobs, vm, sweeps, mishaps>>

\* The operation's outcome is written without another look at the row; DNSSEC is
\* switched off with a delegation that did not fit it when the job began.
Saved ==
    /\ Does(Worker, "saved") /\ lock = None
    /\ LET w == work[Worker]
       IN row' = CASE w.job = "external" ->
                        [row EXCEPT !.mode = "external",
                                    !.dnssec = IF w.dnssec = "managed" THEN "off" ELSE @]
                   [] w.job = "managed" ->
                        [row EXCEPT !.mode = "managed",
                                    !.dnssec = IF w.dnssec = "external" THEN "off" ELSE @]
                   [] w.job = "dnssec_managed" -> [row EXCEPT !.dnssec = "managed"]
                   [] w.job = "dnssec_external" -> [row EXCEPT !.dnssec = "external"]
                   [] w.job = "transfer" -> [row EXCEPT !.transfer = TRUE]
                   [] OTHER -> [row EXCEPT !.dnssec = "off"]
    /\ jobs' = [jobs EXCEPT ![work[Worker].job].status = "saved"]
    /\ Onward(Worker) /\ UNCHANGED <<records, outside, lock, edit, vm, sweeps, mishaps>>

----------------------------------------------------------------------------
(* attach_vm and detach_vm, by the worker and by the orchestrator.         *)

Attaching(a) == work[a].job = "attach"

\* The records with the VM's address at the apex, or without it.
Attached(a) == [records EXCEPT !.apex = IF Attaching(a) THEN "vm" ELSE "none"]

\* attach_vm asks for an active domain with managed nameservers, and for an apex that
\* is free or that of a VM already attached.
MayAttach == /\ ~row.transfer /\ row.mode = "managed"
             /\ records.apex = "none" \/ (row.ipv6 /\ records.apex = "vm")

\* detach_vm removes the apex only if it is the VM's and the zone is managed.
MustRemove == row.vm /\ row.ipv6 /\ records.apex = "vm" /\ row.mode = "managed"

\* The row is locked.  An attachment that may not be made fails; a detachment with
\* nothing to remove only clears the row.
LockRow(a) ==
    /\ Does(a, "lock") /\ lock = None
    /\ \/ /\ IF Attaching(a) THEN MayAttach ELSE MustRemove
          /\ lock' = a /\ Onward(a) /\ UNCHANGED <<jobs, row>>
       \/ Attaching(a) /\ ~MayAttach /\ FailsWith(a, TRUE) /\ UNCHANGED row
       \/ /\ ~Attaching(a) /\ ~MustRemove
          /\ row' = [row EXCEPT !.vm = FALSE, !.ipv6 = FALSE]
          /\ work' = [work EXCEPT ![a].step = "none"] /\ UNCHANGED <<jobs, lock>>
    /\ UNCHANGED <<records, outside, edit, vm, sweeps, mishaps>>

PushVM(a) ==
    /\ Does(a, "push")
    /\ IF Accepts(row.rev + 1)
       THEN Call(a, plane' = Published(row.rev + 1, Attached(a)) /\ UNCHANGED parent)
       ELSE Fails(a) /\ UNCHANGED <<zone, outside, edit, vm, sweeps, mishaps>>

SaveVM(a) ==
    /\ Does(a, "vm_saved") /\ lock' = None /\ Onward(a) /\ records' = Attached(a)
    /\ row' = [row EXCEPT !.rev = @ + 1, !.vm = Attaching(a), !.ipv6 = Attaching(a)]
    /\ UNCHANGED <<outside, edit, jobs, vm, sweeps, mishaps>>

\* The job is done.  The prefix of a VM that is gone is released with its detachment
\* (_destroy_vm and release_destroyed_prefix).
Complete(a) ==
    /\ work[a].job # None /\ work[a].step = "none" /\ work' = [work EXCEPT ![a] = Idle]
    /\ jobs' = IF a = Worker THEN [jobs EXCEPT ![work[a].job].status = "completed"] ELSE jobs
    /\ vm' = IF work[a].job = "detach" THEN [vm EXCEPT !.prefix = FALSE] ELSE vm
    /\ UNCHANGED <<zone, outside, lock, edit, sweeps, mishaps>>

\* The worker dies; its job is found again when the lock on it is stale.
Killed ==
    /\ work[Worker].job # None /\ GoesWrong("crash")
    /\ work' = [work EXCEPT ![Worker] = Idle] /\ lock' = Unlocked(Worker)
    /\ UNCHANGED <<zone, outside, edit, jobs, vm, sweeps>>

ZoneInit ==
    /\ records = [apex |-> "none", rest |-> None]
    /\ \E m \in {"managed", "external"}, d \in {"managed", "external", "off"} :
         /\ d \in {m, "off"} /\ <<m, d>> \in Beginnings
         /\ row = [mode |-> m, dnssec |-> d, vm |-> FALSE, ipv6 |-> FALSE, transfer |-> FALSE,
                   rev |-> 1, owner |-> "buyer"]
         /\ parent = [ns |-> m, ds |-> IF d = "off" THEN "none" ELSE d]
         /\ plane = IF m = "managed" THEN Published(1, records) ELSE NoZone
    /\ lock = None
    /\ edit = [c \in Clients |-> NoEdit]
    /\ jobs = [k \in Jobs |-> NoOperation]
    /\ work = [a \in Actors |-> Idle] /\ vm = [state |-> "none", prefix |-> TRUE]
    /\ sweeps = 0 /\ mishaps = 0

ZoneStep == \/ \E ds \in {"none", "managed", "external"} : SetKeys(ds)
            \/ \E ns \in {"managed", "external"} : Delegate(ns)
            \/ DeleteZone \/ Unlock \/ Load \/ ApplyZone \/ ZoneSaved \/ Saved
VMStep(a) == LockRow(a) \/ PushVM(a) \/ SaveVM(a) \/ Complete(a)

Changeset(c) == Begin(c) \/ Push(c) \/ Commit(c)

ZoneNext ==
    \/ \E c \in Clients : Fetch(c) \/ Changeset(c)
    \/ \E k \in Jobs : Claim(k) \/ RetryJob(k)
    \/ EnqueueNameserverUpdate \/ EnqueueDNSSECUpdate \/ EnqueueTransferOut
    \/ \E a \in Actors : VMStep(a)
    \/ ClaimAttachment \/ Provisioned \/ ProvisioningFailed \/ Destroy
    \/ Sweep \/ ZoneStep \/ Killed \/ TransferDomain

ZoneSpec == ZoneInit /\ [][ZoneNext]_zoneVars

----------------------------------------------------------------------------
(* Properties.                                                             *)

ZoneSteps == {"load", "apply", "ns_managed", "ds_managed", "zone_saved"}
Steps == ZoneSteps \cup {"none", "ds_none", "ds_external", "ns_external", "delete", "unlock",
                        "saved", "lock", "push", "vm_saved"}

\* What the variables hold.
RowRows == [mode : {"managed", "external"}, dnssec : {"managed", "external", "off"},
            vm : BOOLEAN, ipv6 : BOOLEAN, transfer : BOOLEAN, rev : Nat, owner : Accounts]
ParentRows == [ns : {"managed", "external"}, ds : {"none", "managed", "external"}]
EditRows == [at : {"idle", "begin", "push", "commit", "done"}, rev : Nat, want : Contents,
             by : Accounts]
JobRows == [status : {"none", "queued", "running", "saved", "completed", "failed"},
            attempts : 0..MaxAttempts, by : Accounts]
WorkRows == [job : Jobs \cup {None}, mode : {"managed", "external", None},
             dnssec : {"managed", "external", "off", None}, zone : Zones, step : Steps]
VMRows == [state : {"none", "claimed", "up", "gone"}, prefix : BOOLEAN]
ZoneTypes ==
    /\ row \in RowRows /\ records \in Contents /\ plane \in Zones /\ parent \in ParentRows
    /\ lock \in Clients \cup Actors \cup {None} /\ edit \in [Clients -> EditRows]
    /\ jobs \in [Jobs -> JobRows] /\ work \in [Actors -> WorkRows] /\ vm \in VMRows
    /\ sweeps \in Nat /\ mishaps \in Nat

\* While a VM is attached the apex is its own, whatever changesets and delegations came
\* between the claim, the attachment and the detachment (apply_changeset, attach_vm,
\* detach_vm).
ApexFollowsVM == row.ipv6 => row.vm /\ records.apex = "vm"

\* Keys of one authority are never at the registrar while the other is delegated
\* ("validating resolvers can use the old DS records against the new zone and return
\* SERVFAIL", _apply_nameservers), unless a call or a process failed in between.
NoForeignKeys == mishaps = 0 => parent.ds \in {"none", parent.ns}

\* Nothing that one account asked for is being done to the domain of another, although
\* the domain may change hands between a request and its job, and a failed job may be
\* retried after that (transfer_domain, _operation_and_domain, apply_changeset).
DoneForOwner ==
    /\ work[Worker].job \in Operations /\ work[Worker].step # "none"
         => jobs[work[Worker].job].by = row.owner
    /\ lock \in Clients => edit[lock].by = row.owner

\* The steps of each job.
StepsOf(k) ==
    {"none"} \cup
    CASE k = "external" -> {"ds_none", "ns_external", "delete", "saved"}
      [] k = "managed" -> {"ds_none", "saved"} \cup ZoneSteps
      [] k = "dnssec_managed" -> {"saved"} \cup ZoneSteps
      [] k = Reconcile -> ZoneSteps
      [] k = "dnssec_external" -> {"ds_external", "saved"}
      [] k = "dnssec_off" -> {"ds_none", "saved"}
      [] k = "transfer" -> {"unlock", "saved"}
      [] k \in VMJobs -> {"lock", "push", "vm_saved"}
      [] OTHER -> {}

\* Who is at what: the step and the job of each actor, and who holds the lock.
Placed(a) ==
    /\ work[a].step \in StepsOf(work[a].job)
    /\ a # Worker => work[a].job \in VMJobs \cup {None}
    /\ lock = a <=> work[a].step \in {"push", "vm_saved"}
Locking(c) == lock = c <=> edit[c].at \in {"push", "commit"}

\* What the worker has read of the row, and what the row must still say.
ReadStill ==
    LET w == work[Worker] IN
    /\ w.job # None => \/ jobs[w.job].status = "running"
                       \/ jobs[w.job].status = "saved" /\ w.job # Reconcile /\ w.step = "none"
    /\ w.step # "none" =>
         /\ w.dnssec = row.dnssec
         /\ w.job = "external" => w.mode = row.mode
         /\ w.job \in {"dnssec_managed", Reconcile} => row.mode = "managed"
         /\ w.job = "dnssec_external" => row.mode = "external"
         /\ w.step = "ds_none" /\ w.job = "external" => w.dnssec = "managed"
         /\ w.step = "ds_none" /\ w.job = "managed" => w.dnssec = "external"
         /\ w.step = "ds_managed" => KeysToo(w)
         /\ w.step = "saved" /\ w.job = "managed" => row.mode = "managed"

InPlace == /\ \A a \in Actors : Placed(a)
           /\ \A c \in Clients : Locking(c)
           /\ vm.state \in {"none", "claimed"} => work["provision"].job = None
           /\ vm.state # "gone" => work["destroy"].job = None
           /\ lock # None => row.mode = "managed"
           /\ ReadStill

\* A changeset that is under way leaves the apex of an attached VM alone.
EditKeepsApex ==
    \A c \in Clients : row.ipv6 /\ edit[c].at \in {"push", "commit"} => edit[c].want.apex = "vm"

Doing(k, steps) == work[Worker].job = k /\ work[Worker].step \in steps

\* The registrar has what the row says, when no operation is between two calls to it.
Delegated == /\ parent.ns = row.mode /\ row.dnssec \in {row.mode, "off"}
             /\ parent.ds \in {"none", row.dnssec}
ToExternal == Doing("external", {"delete", "saved"})
ToManaged == Doing("managed", {"ds_managed", "zone_saved", "saved"})
KeysChanging == \/ Doing("dnssec_managed", {"zone_saved", "saved"})
                \/ Doing("dnssec_external", {"saved"})
DelegationInStep ==
    mishaps = 0 =>
      /\ ToExternal \/ ToManaged \/ KeysChanging \/ Delegated
      /\ ToExternal => parent.ns = "external" /\ parent.ds \in {"none", row.dnssec}
      /\ ToExternal \/ Doing("external", {"ns_external"}) => parent.ds # "managed"
      /\ ToManaged => parent.ns = "managed" /\ parent.ds \in {"none", row.dnssec}
      /\ ToManaged \/ Doing("managed", {"load", "apply", "ns_managed"}) => parent.ds # "external"
      /\ KeysChanging => parent.ns = row.mode /\ row.dnssec \in {row.mode, "off"}
      /\ Doing("dnssec_off", {"saved"}) => parent.ds = "none"

\* What the control plane serves at every moment: the zone as stored or, while the holder
\* of the lock is about to commit, as it will be; nothing only when it has been deleted.
Stored == plane = Published(row.rev, records)
Deleted == plane = NoZone /\ (row.mode = "external" \/ Doing("external", {"saved"}))
Committing == \/ \E c \in Clients : edit[c].at = "commit"
              \/ \E a \in Actors : Does(a, "vm_saved")
ServedInStep ==
    mishaps = 0 =>
      /\ \A c \in Clients : edit[c].at = "commit" =>
             Deleted \/ plane = Published(row.rev + 1, edit[c].want)
      /\ \A a \in Actors : Does(a, "vm_saved") =>
             Deleted \/ plane = Published(row.rev + 1, Attached(a))
      /\ Committing \/ Stored \/ Deleted
      /\ row.mode = "external" /\ Doing("managed", {"ns_managed", "ds_managed", "zone_saved"})
           => Stored

\* The zone that the worker has read: the one stored, or one of an earlier revision.
ReadInStep ==
    Does(Worker, "apply") =>
      LET read == work[Worker].zone IN
      /\ read.rev <= row.rev
      /\ read.rev = row.rev => read = Published(row.rev, records)
      /\ row.mode = "external" => read.rev = row.rev

\* What holds of the row, its owner, its records and the parent zone and the control
\* plane together.
ZoneInv == /\ ZoneTypes /\ InPlace /\ ApexFollowsVM /\ EditKeepsApex
           /\ NoForeignKeys /\ DelegationInStep /\ DoneForOwner /\ ServedInStep /\ ReadInStep

\* A managed zone is served as it is stored whenever nobody is at work on it, although
\* the reconciliation reads it without a lock; unless a call or a commit failed.
ServedAsStored ==
    (mishaps = 0 /\ row.mode = "managed" /\ lock = None /\ work[Worker].job # "external")
        => plane = Published(row.rev, records)

=============================================================================
