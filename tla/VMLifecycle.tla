---------------------------- MODULE VMLifecycle ----------------------------
(***************************************************************************)
(* The life of one delivered virtual machine: its database row, its guest  *)
(* on the hypervisor, and everybody who acts on the two.                   *)
(*                                                                         *)
(* The customer renews and deletes; an administrator starts, stops,        *)
(* extends, transfers, deletes and recovers; accounts are disabled and     *)
(* enabled; the expiry worker stops what has expired and deletes what has  *)
(* outlived its grace period; durable handoffs finish a start that a paid  *)
(* renewal or a transfer promised.  Every block under                      *)
(* Orchestrator.locked_vm (account row, then VM row, FOR UPDATE) is one    *)
(* action: nothing else changes the row while it is held, provider calls   *)
(* included.  Orchestrator.destroy_vm is several actions, because it lets  *)
(* the lock go between its claim, the provider call, the cleanup and the   *)
(* final write.                                                            *)
(*                                                                         *)
(* A transaction that changes the provider and then commits may lose the   *)
(* commit: the provider keeps the change and the row does not (Lost).      *)
(* A provider call may fail (Faulty).  A process may die (Crash).          *)
(*                                                                         *)
(* The row has a recorded provider UUID here, so the statuses PROVISIONING *)
(* and FAILED and the branches for a missing UUID belong to the module     *)
(* that models delivery.  A reboot leaves power and row as they are and is *)
(* no action.                                                              *)
(***************************************************************************)
EXTENDS Integers

CONSTANTS
    Accounts,          \* customer accounts
    NoAccount,         \* the owner of a VM bought without an account
    None,              \* no handoff, no snapshot
    Destroyers,        \* which callers of destroy_vm are present
    Grace,             \* vm_grace_period_hours
    Days,              \* lengths of renewal a customer or operator may ask for
    RetentionEnabled,  \* vm_expiry_retention_enabled
    InitialOwners,     \* owners the delivered VM may start with
    \* Bounds of the model.
    MaxTime,           \* the clock stops here
    MaxExpiry,         \* no renewal reaches beyond this
    Mishaps,           \* what may go wrong, of "fault", "lost" and "crash"
    MaxMishaps,        \* how often, in all, something goes wrong
    MaxOps,            \* account operations of one kind waiting at once
    MaxTransfers       \* ownership transfers

Owners == Accounts \cup {NoAccount}
Kinds == {"suspend", "resume"}
Callers == {"customer", "admin", "expiry", "reconcile"}

ASSUME Distinct == /\ NoAccount \notin Accounts
                   /\ None \notin Owners
ASSUME Parameters == /\ Destroyers \subseteq Callers
                     /\ InitialOwners \subseteq Owners
                     /\ Grace \in Nat
                     /\ Days \subseteq Nat \ {0}
                     /\ RetentionEnabled \in BOOLEAN
                     /\ MaxTime \in Nat
                     /\ MaxExpiry \in Nat

VARIABLES
    now,          \* the clock
    status,       \* VMRow.status
    reason,       \* VMRow.suspension_reason
    claimed,      \* VMRow.deletion_started_at is set
    expires,      \* VMRow.expires_at
    owner,        \* VMRow.owner_account_id
    deleted,      \* metadata.provider_deleted_uuid names the recorded guest
    prefix,       \* VMRow.ipv6_prefix is still allocated to this row
    extHandoff,   \* metadata.extension_resume_pending: the owner it names
    extCall,      \* a renewal request has committed and has yet to resume the guest
    trHandoff,    \* metadata.transfer_resume_pending: the owner it names
    retention,    \* VMRetentionRow.state
    retOwner,     \* VMRetentionRow.owner_account_id
    restore,      \* the active VMRestoreRow: state, previous and new expiry
    guest,        \* the guest on the hypervisor
    protected,    \* its start, resume and destroy operations are blocked
    disabled,     \* accounts whose disabled_at is set
    closed,       \* accounts that were deleted
    ops,          \* account operations that wait to be applied
    dpc,          \* where each destroyer is
    sweptAt,      \* action_now of the expiry sweep that asked for deletion
    ident,        \* the owner captured by the customer's request to delete
    trSnap,       \* the owner reconcile_transfer_resume read before locking
    explicit,     \* history: the claim came from a caller, not from expiry
    mishaps, transfers   \* what the bounds count

row == <<status, reason, claimed, expires, owner, deleted, prefix>>
handoffs == <<extHandoff, extCall, trHandoff, trSnap>>
evidence == <<retention, retOwner, restore>>
provider == <<guest, protected>>
accts == <<disabled, closed, ops>>
callers == <<dpc, sweptAt, ident>>
budget == <<mishaps, transfers>>
vars == <<now, row, handoffs, evidence, provider, accts, callers, explicit, budget>>

Restricted == {"account_disabled", "manual_admin"}
NoRestore == [state |-> "none", prev |-> 0, new |-> 0]

Later(a, b) == IF a >= b THEN a ELSE b

----------------------------------------------------------------------------
(* Outcomes of a step that calls the provider and then commits.            *)

GoesWrong(kind) == /\ kind \in Mishaps /\ mishaps < MaxMishaps
                   /\ mishaps' = mishaps + 1 /\ UNCHANGED transfers

\* The provider call fails.
Faulty == GoesWrong("fault")

\* The provider call succeeds and the following commit is lost.
Lost == GoesWrong("lost")

Fine == UNCHANGED budget

\* A blocked operation or a missing guest makes vm.start fail.
CanStart == guest = "running" \/ (guest = "halted" /\ ~protected)

\* Power can be read and the guest stopped.
CanStop == guest # "gone"

\* Orchestrator.vm_owner_enabled.
OwnerEnabled == owner \notin disabled

\* suspension_reason after a stop for expiry: other restrictions are kept.
ExpiredReason == IF reason \in Restricted THEN reason ELSE "expired"

\* Destroyer d goes on; the locals of its call matter up to the claim.
Goto(d, place) ==
    /\ dpc' = [dpc EXCEPT ![d] = place]
    /\ sweptAt' = IF d = "expiry" /\ place # "claim" THEN 0 ELSE sweptAt
    /\ ident' = IF d = "customer" /\ place # "claim" THEN NoAccount ELSE ident

----------------------------------------------------------------------------
(* The customer.                                                           *)

\* reconcile_extension_power: an expired guest found halted under a live
\* status is an expiry stop whose commit was lost.
PowerDrift == expires < now /\ status # "SUSPENDED" /\ guest = "halted"

\* routes.extend_vm with Orchestrator.extend_vm: the lock is held from the
\* eligibility check through payment to the commit of the purchased time.
\* A refused, unpaid or rolled-back renewal leaves every variable as it was.
ExtendVM(days) ==
    LET suspended == status = "SUSPENDED" \/ PowerDrift
        expiry    == Later(expires, now) + days
    IN  /\ ~claimed /\ status # "DESTROYED" /\ reason \notin Restricted
        /\ guest # "gone" \/ expires >= now \/ status = "SUSPENDED"
        /\ OwnerEnabled
        /\ expiry <= MaxExpiry
        /\ expires' = expiry
        /\ status' = IF PowerDrift THEN "SUSPENDED" ELSE status
        /\ reason' = IF PowerDrift THEN "expired" ELSE reason
        /\ extHandoff' = IF suspended THEN owner ELSE extHandoff
        /\ extCall' = (suspended \/ extCall)
        /\ UNCHANGED <<now, claimed, owner, deleted, prefix, trHandoff, trSnap, evidence,
                       provider, accts, callers, explicit, budget>>

\* routes.destroy_vm: VMManagementIdentity.capture, before any lock.
RequestDestroy ==
    /\ "customer" \in Destroyers /\ dpc["customer"] = "idle"
    /\ dpc' = [dpc EXCEPT !["customer"] = "claim"]
    /\ ident' = owner
    /\ UNCHANGED <<now, row, handoffs, evidence, provider, accts, sweptAt, explicit, budget>>

\* auth.claim_vm: an ownerless VM is attached to an enabled account.
ClaimVM(a) ==
    /\ owner = NoAccount /\ a \notin disabled \cup closed
    /\ ~claimed /\ status # "DESTROYED" /\ retention = "none"
    /\ owner' = a
    /\ UNCHANGED <<now, status, reason, claimed, expires, deleted, prefix, handoffs,
                   evidence, provider, accts, callers, explicit, budget>>

\* Mutant: account deletion does not look for retained VMs.
DetachRetained(a) ==
    /\ owner = a /\ a \notin disabled /\ status # "DESTROYED"
    /\ ops[a]["resume"] = 0 /\ reason # "account_disabled"
    /\ extHandoff = None
    /\ owner' = NoAccount
    /\ closed' = closed \cup {a}
    /\ UNCHANGED <<now, status, reason, claimed, expires, deleted, prefix, handoffs,
                   evidence, provider, disabled, ops, callers, explicit, budget>>

\* auth.delete_me with vm_policy=detach: the account leaves its VM ownerless.
DetachAccount(a) ==
    /\ owner = a /\ a \notin disabled /\ status # "DESTROYED"
    /\ retention = "none"
    /\ ops[a]["resume"] = 0 /\ reason # "account_disabled"
    /\ extHandoff = None
    /\ owner' = NoAccount
    /\ closed' = closed \cup {a}
    /\ UNCHANGED <<now, status, reason, claimed, expires, deleted, prefix, handoffs,
                   evidence, provider, disabled, ops, callers, explicit, budget>>

----------------------------------------------------------------------------
(* Durable start handoffs.                                                 *)

\* Mutant: the handoff survives an operator's stop.
StaleUnlessRestricted == \/ status # "SUSPENDED"
                         \/ claimed
                         \/ extHandoff # owner

ExtensionStale == \/ status # "SUSPENDED"
                  \/ claimed
                  \/ extHandoff # owner
                  \/ reason \in Restricted

\* Mutant: a failed start uses the handoff up.
ResumeLockedOnce ==
    /\ UNCHANGED <<now, claimed, expires, owner, deleted, prefix, trHandoff, trSnap,
                   evidence, protected, accts, callers, explicit>>
    /\ \/ /\ extHandoff = None \/ (~ExtensionStale /\ ~OwnerEnabled)
          /\ Fine /\ UNCHANGED <<status, reason, guest, extHandoff>>
       \/ /\ extHandoff # None /\ ExtensionStale /\ extHandoff' = None
          /\ Fine /\ UNCHANGED <<status, reason, guest>>
       \/ /\ extHandoff # None /\ ~ExtensionStale /\ OwnerEnabled /\ extHandoff' = None
          /\ \/ /\ CanStart /\ guest' = "running" /\ Fine
                /\ status' = "RUNNING" /\ reason' = "none"
             \/ Faulty /\ UNCHANGED <<status, reason, guest>>

\* _reconcile_extension_resume_locked: apply the handoff under the lock.
ExtensionResumeLocked ==
    /\ UNCHANGED <<now, claimed, expires, owner, deleted, prefix, trHandoff, trSnap,
                   evidence, protected, accts, callers, explicit>>
    /\ \/ /\ extHandoff = None \/ (~ExtensionStale /\ ~OwnerEnabled)
          /\ Fine /\ UNCHANGED <<status, reason, guest, extHandoff>>
       \/ /\ extHandoff # None /\ ExtensionStale
          /\ extHandoff' = None
          /\ Fine /\ UNCHANGED <<status, reason, guest>>
       \/ /\ extHandoff # None /\ ~ExtensionStale /\ OwnerEnabled
          /\ \/ /\ CanStart /\ guest' = "running"
                /\ \/ Fine /\ status' = "RUNNING" /\ reason' = "none" /\ extHandoff' = None
                   \/ Lost /\ UNCHANGED <<status, reason, extHandoff>>
             \/ Faulty /\ UNCHANGED <<status, reason, guest, extHandoff>>

\* The renewal request resumes the guest itself, after its commit.
ResumeAfterExtension == extCall /\ extCall' = FALSE /\ ExtensionResumeLocked

\* reconcile_extension_resumes: the worker retries, for suspended rows only.
ReconcileExtensionResume ==
    /\ extHandoff # None /\ status = "SUSPENDED"
    /\ UNCHANGED extCall
    /\ ExtensionResumeLocked

\* reconcile_transfer_resume reads the owner before it takes any lock.
ReconcileTransferRead ==
    /\ trSnap = None /\ trHandoff # None /\ owner # NoAccount
    /\ trSnap' = owner
    /\ UNCHANGED <<now, row, extHandoff, extCall, trHandoff, evidence, provider, accts,
                   callers, explicit, budget>>

\* ... and then locks that account and the row, and finishes the handoff.
ReconcileTransferResume ==
    LET drop == trHandoff' = None
        keep == UNCHANGED trHandoff
    IN
    /\ trSnap # None
    /\ trSnap' = None
    /\ UNCHANGED <<now, claimed, expires, owner, deleted, prefix, extHandoff, extCall, evidence,
                   protected, accts, callers, explicit>>
    /\ \/ /\ \/ trHandoff = None
             \/ trHandoff = owner /\ trSnap \in disabled \cup closed
          /\ keep /\ Fine /\ UNCHANGED <<status, reason, guest>>
       \/ /\ trHandoff # None
          /\ \/ trHandoff # owner
             \/ trSnap \notin disabled \cup closed /\ claimed
          /\ drop /\ Fine /\ UNCHANGED <<status, reason, guest>>
       \/ /\ trHandoff = owner /\ trSnap \notin disabled \cup closed /\ ~claimed
          /\ \/ /\ expires <= now
                /\ reason' = "expired" /\ drop /\ Fine /\ UNCHANGED <<status, guest>>
             \/ /\ expires > now /\ status = "SUSPENDED"
                /\ \/ /\ CanStart /\ guest' = "running"
                      /\ \/ drop /\ Fine /\ status' = "RUNNING" /\ reason' = "none"
                         \/ keep /\ Lost /\ UNCHANGED <<status, reason>>
                   \/ Faulty /\ keep /\ UNCHANGED <<status, reason, guest>>
             \/ /\ expires > now /\ status # "SUSPENDED"
                /\ reason' = "none" /\ drop /\ Fine /\ UNCHANGED <<status, guest>>

----------------------------------------------------------------------------
(* Expiry.                                                                 *)

Settled == status = "DESTROYED" /\ ~prefix /\ deleted

\* Mutant: a claim that another caller left unfinished is not taken up.
ExpirySelectUnclaimed ==
    /\ "expiry" \in Destroyers /\ dpc["expiry"] = "idle"
    /\ ~Settled
    /\ retention \notin {"retained", "restoring"}
    /\ expires < now
    /\ Goto("expiry", "sweep")
    /\ UNCHANGED <<now, row, handoffs, evidence, provider, accts, explicit,
                   budget>>

\* check_expiries selects its candidates before it locks any of them.
ExpirySelect ==
    /\ "expiry" \in Destroyers /\ dpc["expiry"] = "idle"
    /\ ~Settled
    /\ retention \notin {"retained", "restoring"}
    /\ claimed \/ expires < now
    /\ Goto("expiry", "sweep")
    /\ UNCHANGED <<now, row, handoffs, evidence, provider, accts, explicit,
                   budget>>

DeleteDue == claimed \/ now > expires + Grace

\* Mutant: a failed provider stop is committed as a successful suspension.
SweepTrusting ==
    /\ "expiry" \in Destroyers /\ dpc["expiry"] = "sweep"
    /\ UNCHANGED <<now, claimed, expires, owner, deleted, prefix, handoffs, evidence,
                   protected, accts, explicit>>
    /\ \/ /\ ~Settled /\ DeleteDue
          /\ dpc' = [dpc EXCEPT !["expiry"] = "claim"]
          /\ sweptAt' = now
          /\ Fine /\ UNCHANGED <<ident, status, reason, guest>>
       \/ /\ Settled \/ (~DeleteDue /\ (expires >= now \/ status = "SUSPENDED"))
          /\ Goto("expiry", "idle")
          /\ Fine /\ UNCHANGED <<status, reason, guest>>
       \/ /\ ~Settled /\ ~DeleteDue /\ expires < now /\ status # "SUSPENDED"
          /\ Goto("expiry", "idle")
          /\ status' = "SUSPENDED" /\ reason' = ExpiredReason
          /\ (CanStop /\ guest' = "halted" /\ Fine) \/ (Faulty /\ UNCHANGED guest)

\* The locked recheck of one candidate: nothing, deletion, or a stop.
ExpirySweep ==
    /\ "expiry" \in Destroyers /\ dpc["expiry"] = "sweep"
    /\ UNCHANGED <<now, claimed, expires, owner, deleted, prefix, handoffs, evidence,
                   protected, accts, explicit>>
    /\ \/ /\ ~Settled /\ DeleteDue
          /\ dpc' = [dpc EXCEPT !["expiry"] = "claim"]
          /\ sweptAt' = now
          /\ Fine /\ UNCHANGED ident
          /\ UNCHANGED <<status, reason, guest>>
       \/ /\ Settled \/ (~DeleteDue /\ (expires >= now \/ status = "SUSPENDED"))
          /\ Goto("expiry", "idle")
          /\ Fine
          /\ UNCHANGED <<status, reason, guest>>
       \/ /\ ~Settled /\ ~DeleteDue /\ expires < now /\ status # "SUSPENDED"
          /\ Goto("expiry", "idle")
          /\ \/ /\ CanStop /\ guest' = "halted"
                /\ \/ Fine /\ status' = "SUSPENDED" /\ reason' = ExpiredReason
                   \/ Lost /\ UNCHANGED <<status, reason>>
             \/ Faulty /\ UNCHANGED <<status, reason, guest>>

----------------------------------------------------------------------------
(* Orchestrator.destroy_vm.  d is the caller; only "expiry" passes a       *)
(* cutoff, only "customer" an identity, only "reconcile" asks for existing *)
(* retention evidence.                                                     *)

\* An administrator, or the reconciliation of protection, asks for deletion.
CallDestroy(d) ==
    /\ d \in Destroyers \cap {"admin", "reconcile"} /\ dpc[d] = "idle"
    /\ Goto(d, "claim")
    /\ UNCHANGED <<now, row, handoffs, evidence, provider, accts, explicit,
                   budget>>

\* Mutant: the cutoff of an expiry deletion is not checked again under the lock.
DeclinesWithoutCutoff(d) ==
    \/ d = "customer" /\ (ident # owner \/ ~OwnerEnabled)
    \/ Settled
    \/ d = "reconcile" /\ retention = "none"
    \/ retention = "restoring"
    \/ d = "expiry" /\ retention = "retained"

\* The early returns of the claiming transaction.
Declines(d) ==
    \/ d = "customer" /\ (ident # owner \/ ~OwnerEnabled)
    \/ Settled
    \/ d = "expiry" /\ ~claimed /\ expires >= sweptAt - Grace
    \/ d = "reconcile" /\ retention = "none"
    \/ retention = "restoring"
    \/ d = "expiry" /\ retention = "retained"

\* First transaction: the deletion claim, and with it the retention evidence
\* when an expiry deletion is to keep the disks.
ClaimDeletion(d) ==
    LET wants    == d = "expiry" /\ ~claimed /\ RetentionEnabled
        manifest == retention # "none" \/ wants
    IN  /\ dpc[d] = "claim"
        /\ UNCHANGED <<now, status, reason, expires, owner, deleted, prefix, handoffs, restore,
                       provider, accts>>
        /\ \/ /\ Declines(d)
              /\ Goto(d, "idle") /\ Fine
              /\ UNCHANGED <<claimed, retention, retOwner, explicit>>
           \/ /\ ~Declines(d)
              /\ claimed' = TRUE
              /\ explicit' = IF claimed THEN explicit ELSE d # "expiry"
              /\ retention' = IF retention = "none" /\ wants THEN "prepared" ELSE retention
              /\ retOwner' = IF retention = "none" /\ wants THEN owner ELSE retOwner
              /\ Goto(d, IF manifest THEN "protect" ELSE IF deleted THEN "cleanup" ELSE "delete")
              /\ Fine
           \/ /\ ~Declines(d) /\ wants /\ retention = "none"  \* capture_vm_protection
              /\ Goto(d, "idle") /\ Faulty
              /\ UNCHANGED <<claimed, retention, retOwner, explicit>>

\* The provider blocks start, resume and destroy, stops the guest and verifies both.
ProtectRetainedVM == guest' = "halted" /\ protected' = TRUE

\* With evidence: relock, recheck, stop and protect the guest, keep it.
ProtectRetained(d) ==
    LET declines == \/ ~claimed
                    \/ retention \in {"none", "restoring"}
                    \/ retention = "retained" /\ d = "expiry"
    IN  /\ dpc[d] = "protect"
        /\ Goto(d, "idle")
        /\ UNCHANGED <<now, claimed, expires, owner, deleted, prefix, handoffs, retOwner,
                       restore, accts, explicit>>
        /\ \/ declines /\ Fine /\ UNCHANGED <<status, reason, retention, provider>>
           \/ /\ ~declines /\ guest # "gone"
              /\ ProtectRetainedVM
              /\ \/ /\ Fine
                    /\ status' = "SUSPENDED" /\ reason' = ExpiredReason
                    /\ retention' = "retained"
                 \/ Lost /\ UNCHANGED <<status, reason, retention>>
           \/ /\ ~declines /\ Faulty   \* before, between or after its two writes
              /\ \/ UNCHANGED provider
                 \/ protected' = TRUE /\ UNCHANGED guest
                 \/ guest # "gone" /\ ProtectRetainedVM
              /\ UNCHANGED <<status, reason, retention>>

\* Mutant: a failed provider delete does not stop the cleanup that follows.
DeleteGuestAnyway(d) ==
    /\ dpc[d] = "delete"
    /\ UNCHANGED <<now, row, handoffs, evidence, protected, accts, explicit>>
    /\ \/ (guest = "gone" \/ ~protected) /\ guest' = "gone" /\ Fine
       \/ UNCHANGED guest /\ Faulty
    /\ Goto(d, "cleanup")

\* Without evidence: the irreversible provider delete, outside any lock.
\* XCPNGProvider.destroy_vm accepts a failed reply once the guest is absent.
DeleteGuest(d) ==
    /\ dpc[d] = "delete"
    /\ UNCHANGED <<now, row, handoffs, evidence, protected, accts, explicit>>
    /\ \/ /\ guest = "gone" \/ ~protected
          /\ guest' = "gone" /\ Goto(d, "cleanup") /\ Fine
       \/ /\ guest # "gone" /\ protected
          /\ Goto(d, "idle") /\ Fine /\ UNCHANGED guest
       \/ /\ guest' \in {guest, IF protected THEN guest ELSE "gone"}
          /\ Goto(d, "idle") /\ Faulty

\* DNS and custom-domain cleanup; any failure quarantines the prefix.
CleanUpNames(d) ==
    /\ dpc[d] = "cleanup"
    /\ UNCHANGED <<now, row, handoffs, evidence, provider, accts, explicit>>
    /\ \/ Goto(d, "release") /\ Fine
       \/ Goto(d, "quarantine") /\ Faulty

\* Last transaction: the outcome.
RecordDestroyed(d) ==
    /\ dpc[d] \in {"release", "quarantine"}
    /\ status' = "DESTROYED"
    /\ deleted' = TRUE
    /\ prefix' = (prefix /\ dpc[d] = "quarantine")
    /\ Goto(d, "idle")
    /\ UNCHANGED <<now, reason, claimed, expires, owner, handoffs, evidence, provider, accts,
                   explicit, budget>>

\* The process running a destroyer dies, or its commit is not acknowledged.
Crash(d) ==
    /\ dpc[d] # "idle" /\ GoesWrong("crash")
    /\ Goto(d, "idle")
    /\ UNCHANGED <<now, row, handoffs, evidence, provider, accts, explicit>>

DestroyStep(d) == \/ ClaimDeletion(d)
                  \/ ProtectRetained(d)
                  \/ DeleteGuest(d)
                  \/ CleanUpNames(d)
                  \/ RecordDestroyed(d)

----------------------------------------------------------------------------
(* Accounts.  An operation that failed waits in ops for the operator's     *)
(* retry; one overtaken by a newer inverse is completed as a no-op.        *)

Queue(a, kind) == /\ ops[a][kind] < MaxOps
                  /\ ops' = [ops EXCEPT ![a][kind] = @ + 1]

Done(a, kind) == ops' = [ops EXCEPT ![a][kind] = @ - 1]

\* admin.disable_account and admin.enable_account.
DisableAccount(a) ==
    /\ a \notin closed /\ Queue(a, "suspend")
    /\ disabled' = disabled \cup {a}
    /\ UNCHANGED <<now, row, handoffs, evidence, provider, closed, callers, explicit, budget>>

EnableAccount(a) ==
    /\ a \notin closed /\ Queue(a, "resume")
    /\ disabled' = disabled \ {a}
    /\ UNCHANGED <<now, row, handoffs, evidence, provider, closed, callers, explicit, budget>>

\* suspend_account_resources for this VM, under the account lease.
SuspendForAccount(a) ==
    LET moot == a \notin disabled \/ owner # a \/ status = "DESTROYED"
        kept == status = "SUSPENDED" /\ reason \in {"manual_admin", "expired"}
    IN
    /\ ops[a]["suspend"] > 0
    /\ UNCHANGED <<now, claimed, expires, owner, deleted, prefix, handoffs, evidence,
                   protected, disabled, closed, callers, explicit>>
    /\ \/ moot /\ Done(a, "suspend") /\ Fine /\ UNCHANGED <<status, reason, guest>>
       \/ /\ ~moot /\ CanStop /\ guest' = "halted"
          /\ \/ /\ Fine /\ Done(a, "suspend")
                /\ status' = "SUSPENDED"
                /\ reason' = IF kept THEN reason ELSE "account_disabled"
             \/ Lost /\ UNCHANGED <<status, reason, ops>>

\* resume_account_resources for this VM.
ResumeForAccount(a) ==
    LET moot    == a \in disabled \/ owner # a \/ reason # "account_disabled"
        unmark(r) == /\ reason' = r /\ Done(a, "resume") /\ Fine
                     /\ UNCHANGED <<status, guest>>
    IN
    /\ ops[a]["resume"] > 0
    /\ UNCHANGED <<now, claimed, expires, owner, deleted, prefix, handoffs, evidence,
                   protected, disabled, closed, callers, explicit>>
    /\ \/ moot /\ unmark(reason)
       \/ ~moot /\ status = "DESTROYED" /\ unmark("none")
       \/ ~moot /\ status # "DESTROYED" /\ expires <= now /\ unmark("expired")
       \/ /\ ~moot /\ status # "DESTROYED" /\ expires > now
          /\ CanStart /\ guest' = "running"
          /\ \/ /\ Fine /\ Done(a, "resume")
                /\ status' = "RUNNING" /\ reason' = "none"
             \/ Lost /\ UNCHANGED <<status, reason, ops>>

----------------------------------------------------------------------------
(* The administrator.                                                      *)

\* admin.vm_action start.
AdminStart ==
    /\ OwnerEnabled /\ ~claimed /\ status # "DESTROYED"
    /\ expires > now /\ reason # "account_disabled"
    /\ CanStart /\ guest' = "running"
    /\ \/ Fine /\ status' = "RUNNING" /\ reason' = "none"
       \/ Lost /\ UNCHANGED <<status, reason>>
    /\ UNCHANGED <<now, claimed, expires, owner, deleted, prefix, handoffs, evidence,
                   protected, accts, callers, explicit>>

\* admin.vm_action shutdown and suspend.
AdminStop ==
    /\ ~claimed /\ status # "DESTROYED"
    /\ CanStop /\ guest' = "halted"
    /\ \/ /\ Fine /\ status' = "SUSPENDED"
          /\ reason' = IF reason = "account_disabled" THEN reason ELSE "manual_admin"
       \/ Lost /\ UNCHANGED <<status, reason>>
    /\ UNCHANGED <<now, claimed, expires, owner, deleted, prefix, handoffs, evidence,
                   protected, accts, callers, explicit>>

\* admin.extend_vm_expiry: time without payment, power untouched.
AdminExtend(days) ==
    /\ ~claimed /\ status # "DESTROYED"
    /\ Later(expires, now) + days <= MaxExpiry
    /\ expires' = Later(expires, now) + days
    /\ UNCHANGED <<now, status, reason, claimed, owner, deleted, prefix, handoffs, evidence,
                   provider, accts, callers, explicit, budget>>

\* admin.transfer_vm; the resume it triggers is the reconciliation above.
TransferVM(a) ==
    /\ transfers < MaxTransfers /\ transfers' = transfers + 1
    /\ a \notin disabled \cup closed /\ a # owner
    /\ ~claimed /\ status # "DESTROYED" /\ extHandoff = None
    /\ owner' = a
    /\ trHandoff' = IF reason = "account_disabled" THEN a ELSE trHandoff
    /\ UNCHANGED <<now, status, reason, claimed, expires, deleted, prefix, extHandoff, extCall,
                   trSnap, evidence, provider, accts, callers, explicit, mishaps>>

----------------------------------------------------------------------------
(* admin.restore_retained_vm: three transactions, each replayable.         *)

\* prepare_restore fixes the new expiry once.
RequestRestore(days) ==
    /\ retention = "retained" /\ claimed /\ owner = retOwner
    /\ Later(expires, now) + days <= MaxExpiry
    /\ restore' = [state |-> "pending", prev |-> expires, new |-> Later(expires, now) + days]
    /\ retention' = "restoring"
    /\ UNCHANGED <<now, row, handoffs, retOwner, provider, accts, callers, explicit, budget>>

\* What every later transaction of the operation checks again.
RestoreValid ==
    /\ retention = "restoring" /\ claimed /\ owner = retOwner /\ status = "SUSPENDED"
    /\ OwnerEnabled /\ ~(owner = NoAccount /\ reason = "account_disabled")
    /\ restore.new > now

\* Mutant: the recovered guest is not held for an administrator.
AuthorizeRestoreUnheld ==
    /\ restore.state = "pending" /\ RestoreValid /\ expires = restore.prev
    /\ restore' = [restore EXCEPT !.state = "authorized"]
    /\ expires' = restore.new
    /\ UNCHANGED <<now, status, reason, claimed, owner, deleted, prefix, handoffs, retention,
                   retOwner, provider, accts, callers, explicit, budget>>

\* authorize_restore commits the future expiry before the provider changes.
AuthorizeRestore ==
    /\ restore.state = "pending" /\ RestoreValid /\ expires = restore.prev
    /\ restore' = [restore EXCEPT !.state = "authorized"]
    /\ expires' = restore.new
    /\ reason' = "manual_admin"
    /\ UNCHANGED <<now, status, claimed, owner, deleted, prefix, handoffs, retention, retOwner,
                   provider, accts, callers, explicit, budget>>

\* The provider takes back its blocks and leaves the guest as it is.
RestoreRetainedVM == protected' = FALSE

\* The provider unblocks the guest, complete_restore gives up the claim.
FinalizeRestore ==
    /\ restore.state = "authorized" /\ RestoreValid /\ expires = restore.new
    /\ guest = "halted"
    /\ UNCHANGED <<now, status, expires, owner, deleted, prefix, handoffs, guest, accts, callers>>
    /\ \/ /\ Fine /\ RestoreRetainedVM
          /\ claimed' = FALSE /\ explicit' = FALSE
          /\ reason' = "manual_admin"
          /\ retention' = "none" /\ retOwner' = NoAccount
          /\ restore' = NoRestore
       \/ /\ Lost /\ RestoreRetainedVM
          /\ UNCHANGED <<claimed, explicit, reason, evidence>>
       \/ /\ Faulty /\ (RestoreRetainedVM \/ UNCHANGED protected)
          /\ UNCHANGED <<claimed, explicit, reason, evidence>>

----------------------------------------------------------------------------
(* The environment.                                                        *)

GuestShutsDown ==
    /\ guest = "running" /\ guest' = "halted"
    /\ UNCHANGED <<now, row, handoffs, evidence, protected, accts, callers, explicit, budget>>

Tick ==
    /\ now < MaxTime /\ now' = now + 1
    /\ UNCHANGED <<row, handoffs, evidence, provider, accts, callers, explicit, budget>>

----------------------------------------------------------------------------
Init ==
    /\ now = 0 /\ expires \in Days /\ expires <= MaxExpiry
    /\ status = "READY" /\ reason = "none" /\ claimed = FALSE
    /\ owner \in InitialOwners /\ deleted = FALSE /\ prefix = TRUE
    /\ extHandoff = None /\ extCall = FALSE /\ trHandoff = None /\ trSnap = None
    /\ retention = "none" /\ retOwner = NoAccount /\ restore = NoRestore
    /\ guest = "running" /\ protected = FALSE
    /\ disabled = {} /\ closed = {} /\ ops = [a \in Accounts |-> [k \in Kinds |-> 0]]
    /\ dpc = [d \in Destroyers |-> "idle"] /\ sweptAt = 0 /\ ident = NoAccount
    /\ explicit = FALSE
    /\ mishaps = 0 /\ transfers = 0

CustomerNext == \/ \E n \in Days : ExtendVM(n)
                \/ ResumeAfterExtension
                \/ RequestDestroy
                \/ \E a \in Accounts : ClaimVM(a) \/ DetachAccount(a)

AccountNext == \E a \in Accounts : \/ DisableAccount(a) \/ EnableAccount(a)
                                   \/ SuspendForAccount(a) \/ ResumeForAccount(a)

AdminNext == \/ AdminStart \/ AdminStop
             \/ \E n \in Days : AdminExtend(n) \/ RequestRestore(n)
             \/ \E a \in Accounts : TransferVM(a)
             \/ AuthorizeRestore \/ FinalizeRestore

WorkerNext == \/ ReconcileExtensionResume
              \/ ReconcileTransferRead \/ ReconcileTransferResume
              \/ ExpirySelect \/ ExpirySweep

DestroyNext == \E d \in Destroyers : CallDestroy(d) \/ DestroyStep(d) \/ Crash(d)

Next == \/ CustomerNext \/ AccountNext \/ AdminNext \/ WorkerNext \/ DestroyNext
        \/ GuestShutsDown \/ Tick

Spec == Init /\ [][Next]_vars

\* The worker loop runs every few minutes, an accepted request runs to its
\* end unless its process dies, and time passes.  Nobody is obliged to renew,
\* to act as an administrator or to retry an account operation.
Fairness == /\ WF_vars(Tick)
            /\ WF_vars(ReconcileExtensionResume)
            /\ WF_vars(ResumeAfterExtension)
            /\ WF_vars(ExpirySelect) /\ WF_vars(ExpirySweep)
            /\ \A d \in Destroyers : WF_vars(DestroyStep(d))

FairSpec == Spec /\ Fairness

----------------------------------------------------------------------------
(* Types.                                                                  *)

Places == {"idle", "sweep", "claim", "protect", "delete", "cleanup", "release", "quarantine"}

FlagsOK ==
    /\ claimed \in BOOLEAN /\ deleted \in BOOLEAN /\ prefix \in BOOLEAN
    /\ extCall \in BOOLEAN /\ protected \in BOOLEAN /\ explicit \in BOOLEAN

\* Every variable has the type the code's columns and locals give it.
TypeOK ==
    /\ FlagsOK
    /\ now \in 0..MaxTime /\ expires \in 0..MaxExpiry /\ sweptAt \in 0..MaxTime
    /\ status \in {"READY", "RUNNING", "SUSPENDED", "DESTROYED"}
    /\ reason \in {"none", "expired", "account_disabled", "manual_admin"}
    /\ owner \in Owners /\ retOwner \in Owners /\ ident \in Owners
    /\ extHandoff \in Owners \cup {None}
    /\ trHandoff \in Accounts \cup {None} /\ trSnap \in Accounts \cup {None}
    /\ retention \in {"none", "prepared", "retained", "restoring"}
    /\ restore \in [state : {"none", "pending", "authorized"}, prev : 0..MaxExpiry, new : 0..MaxExpiry]
    /\ guest \in {"running", "halted", "gone"}
    /\ disabled \subseteq Accounts /\ closed \subseteq Accounts
    /\ ops \in [Accounts -> [Kinds -> Nat]]
    /\ dpc \in [Destroyers -> Places]
    /\ mishaps \in Nat /\ transfers \in Nat

----------------------------------------------------------------------------
(* What must never be true.                                                *)

\* A guest that nobody asked to delete is deleted only when its paid time and
\* the whole grace period are over, however renewals, operator extensions,
\* sweeps and retries of destroy_vm interleave.
PaidTimeNeverDeleted == guest = "gone" /\ ~explicit => expires + Grace < now

\* From the first evidence of retention until recovery completes the guest
\* exists; once retained it is stopped, blocked and keeps its prefix, and it
\* stays stopped and keeps its prefix while recovery is under way.
RetainedGuestPreserved ==
    /\ retention # "none" => guest # "gone" /\ prefix /\ claimed
    /\ retention = "retained" => guest = "halted" /\ protected /\ status = "SUSPENDED"
    /\ retention = "restoring" => guest = "halted" /\ status = "SUSPENDED"

\* The owner recorded with the evidence stays the row's owner in all three
\* states of retention, so that recovery can never find it changed.
RetentionOwnerStable == retention # "none" => retOwner = owner

\* A row is DESTROYED only when its recorded guest is gone under a claim, and
\* only then is the customer's /64 given back.
DestroyedMeansGone ==
    /\ status = "DESTROYED" => guest = "gone" /\ claimed /\ deleted
    /\ ~prefix => status = "DESTROYED"

----------------------------------------------------------------------------
(* What makes the invariants above inductive.                              *)

\* A destroyer deletes under a claim without evidence, and cleans up, quarantines
\* and records only what is gone.
DestroyersFenced ==
    \A d \in Destroyers :
        /\ dpc[d] = "delete" => claimed /\ retention = "none"
        /\ dpc[d] \in {"cleanup", "release", "quarantine"} => guest = "gone"

\* A guest that is gone, or recorded as deleted, has been claimed and not kept.
GoneIsClaimed == /\ guest = "gone" => claimed /\ retention = "none"
                 /\ deleted => guest = "gone"

\* Only a recovery in progress has a claim that expiry made and time left.
ClaimTimely ==
    /\ sweptAt <= now
    /\ claimed /\ ~explicit /\ retention # "restoring" => expires + Grace < now

\* A recovery buys time; a guest it has unprotected is authorised and held for
\* an administrator.
RecoveryHeld ==
    retention = "restoring" =>
        /\ restore.state # "none" /\ restore.new > restore.prev
        /\ restore.state = "authorized" => reason = "manual_admin"
        /\ ~protected => restore.state = "authorized"

\* The inductive invariant of deletion and retention: every destroyer, sweep and
\* recovery respects the claim, the evidence and the time paid for.
DeletionInv ==
    /\ DestroyersFenced /\ GoneIsClaimed /\ ClaimTimely /\ RecoveryHeld
    /\ DestroyedMeansGone /\ RetainedGuestPreserved /\ RetentionOwnerStable

----------------------------------------------------------------------------
(* What no step may do.                                                    *)

Starts == guest = "halted" /\ guest' = "running"

PowerOnLegal ==
    Starts => /\ owner \in disabled => trHandoff # None /\ trSnap # None
              /\ claimed => reason = "account_disabled"
              /\ expires <= now => extHandoff # None
              /\ reason = "manual_admin" => AdminStart \/ trHandoff # None

RecoveryLegal ==
    claimed /\ ~claimed' => /\ guest' = "halted" /\ ~protected' /\ prefix'
                           /\ expires' > now' /\ reason' = "manual_admin"
                           /\ retention' = "none"

RenewalLegal ==
    expires' # expires => /\ expires' > expires /\ expires' > now
                          /\ claimed => restore'.state = "authorized"

\* No power-on path (renewal handoff, transfer handoff, account resume,
\* administrator) starts a guest against a fence, with the exceptions the code
\* makes: a transfer handoff can start the guest of a disabled account and one
\* an administrator has stopped, an account resume one whose deletion is
\* claimed, a renewal's handoff one that has expired since.
PowerOnFenced == [][PowerOnLegal]_vars

\* A deletion claim is given up only for a recovered guest: stopped, present,
\* with time left, and held for an administrator to start.
ClaimGivenUpOnlyByRecovery == [][RecoveryLegal]_vars

\* Purchased time is never taken back, and no renewal reaches a claimed row:
\* its expiry moves only through an authorised recovery.
ExpiryMovesForward == [][RenewalLegal]_vars

----------------------------------------------------------------------------
(* What must happen.                                                       *)

\* A VM that runs past its paid time is stopped or deleted, or renewed.
ExpiredStops == (expires < now /\ guest = "running") ~> (guest # "running" \/ expires >= now)

\* A claimed deletion ends: destroyed, retained, or in recovery.
ClaimedEnds == claimed ~> (Settled \/ retention \in {"retained", "restoring"} \/ ~claimed)

\* The start that a paid renewal promised comes: the guest is no longer suspended, or is being
\* deleted, held by an operator, owned by a disabled account, or in other hands than when it
\* was paid (_reconcile_extension_resume_locked).
PaidResumeHappens ==
    \A o \in Accounts \cup {NoAccount} :
        (extHandoff = o /\ ~claimed) ~>
            (status # "SUSPENDED" \/ claimed \/ reason \in Restricted \/ ~OwnerEnabled \/ owner # o)

=============================================================================
