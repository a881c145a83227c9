--------------------------- MODULE VMProvisioning ---------------------------
(***************************************************************************)
(* The delivery of one paid virtual machine, from the committed dispatch   *)
(* (start_provisioning) to READY, SUSPENDED, FAILED or DESTROYED.          *)
(*                                                                         *)
(* An attempt (_provision_vm_owned) runs in the API process that took the  *)
(* order or in the worker that recovers it, under an advisory lock that is *)
(* released when its process or its connection dies.  Every attempt works  *)
(* from what the row, the guest receipt and the provider say.  Meanwhile   *)
(* the guest reports, the deadline passes, the account is disabled and     *)
(* enabled, the time runs out, and destroy_vm deletes.                     *)
(*                                                                         *)
(* A generation is a number: the label of a clone, the token inside it and *)
(* the receipt that its report must match all carry the same one, and the  *)
(* provider UUID of the only clone of a generation is written as that      *)
(* number.  0 is "none".                                                   *)
(*                                                                         *)
(* Left to other modules: capacity and payment before the dispatch, the    *)
(* managed custom domain, and the retention of expired disks.              *)
(***************************************************************************)
EXTENDS Integers, FiniteSets

CONSTANTS
    Attempts,      \* processes that may run _provision_vm
    Destroyers,    \* callers of destroy_vm, of "customer" and "expiry"
    None,          \* nobody holds the attempt lock
    \* Bounds of the model.
    MaxGen,        \* generations handed out
    Mishaps,       \* what may go wrong, of "fault", "lost", "crash", "orphaned"
    MaxMishaps,    \* how often, in all, something goes wrong
    MaxToggles     \* how often the account is disabled or enabled

Gens == 1..MaxGen
Procs == Attempts \cup Destroyers

ASSUME Processes == /\ None \notin Attempts
                    /\ Attempts \cap Destroyers = {}
                    /\ Destroyers \subseteq {"customer", "expiry"}
ASSUME Bounds == MaxGen \in Nat \ {0}

VARIABLES
    status,     \* VMRow.status
    uuid,       \* VMRow.xcpng_uuid
    reason,     \* VMRow.suspension_reason
    claimed,    \* VMRow.deletion_started_at is set
    deleted,    \* metadata.provider_deleted_uuid
    prefix,     \* VMRow.ipv6_prefix is still allocated to this row
    receipt,    \* VMGuestResultRow: generation, outcome and whether it is overdue
    guest,      \* the clone of each generation on the hypervisor
    dns,        \* the AAAA record of the hostname is published
    refunds,    \* refund_owed rows for this VM
    lock,       \* who holds the provisioning_attempt lock
    pc,         \* where each attempt and each destroyer is
    mine,       \* the provider UUID it works on
    expects,    \* the generation an attempt waits for
    disabled,   \* AccountRow.disabled_at of the owner is set
    op,         \* the account operation that waits to be applied
    expired,    \* the paid time is over
    mishaps, toggles   \* what the bounds count

row == <<status, uuid, reason, claimed, deleted, prefix>>
account == <<disabled, op, toggles>>
locals == <<mine, expects>>
vars == <<row, receipt, guest, dns, refunds, lock, pc, locals, account, expired, mishaps>>

Restricted == {"account_disabled", "manual_admin"}

----------------------------------------------------------------------------
(* Outcomes and control.                                                   *)

GoesWrong(kind) == /\ kind \in Mishaps /\ mishaps < MaxMishaps
                   /\ mishaps' = mishaps + 1

\* A provider, DNS or database call fails.
Faulty == GoesWrong("fault")

\* A commit after a provider call is lost.
Lost == GoesWrong("lost")

Fine == UNCHANGED mishaps

Goto(p, place) == pc' = [pc EXCEPT ![p] = place] /\ UNCHANGED lock

\* The attempt or destroyer is over; leaving gives the attempt lock back.
End(p) == /\ pc' = [pc EXCEPT ![p] = "idle"]
          /\ lock' = IF lock = p THEN None ELSE lock

\* Mutant of CapacityFree: cloning is not serialized.
CapacityUnlocked(p) == TRUE

\* _serialize_vm_capacity_transition: from looking for a clone to storing its
\* UUID one attempt holds the capacity lock.
CapacityFree(p) == \A q \in Attempts \ {p} :
                       pc[q] \notin {"adopt", "prepare", "clone", "boot", "persist"}

Present(g) == guest[g] \in {"halted", "running"}
Set(g, power) == guest' = [guest EXCEPT ![g] = power]

----------------------------------------------------------------------------
(* One attempt, in the order of _provision_vm_owned.                       *)

\* start_provisioning or recover_tracked_provisioning, then the attempt lock.
Begin(p) ==
    /\ pc[p] = "idle" /\ lock = None /\ status = "PROVISIONING"
    /\ lock' = p
    /\ mine' = [mine EXCEPT ![p] = uuid]
    /\ pc' = [pc EXCEPT ![p] = IF uuid = 0 THEN "locate" ELSE "restrict"]
    /\ UNCHANGED <<row, receipt, guest, dns, refunds, expects, account, expired, mishaps>>

\* Under the capacity lock: a UUID stored meanwhile, else what
\* _recover_pre_uuid_guest finds under the label of the receipt's generation.
Locate(p) ==
    /\ pc[p] = "locate" /\ CapacityFree(p)
    /\ UNCHANGED <<row, receipt, guest, dns, refunds, expects, account, expired>>
    /\ \/ /\ uuid # 0
          /\ mine' = [mine EXCEPT ![p] = uuid] /\ Goto(p, "restrict") /\ Fine
       \/ /\ uuid = 0 /\ ~Present(receipt.gen)
          /\ Goto(p, IF receipt.outcome = "none" THEN "prepare" ELSE "fail")
          /\ Fine /\ UNCHANGED mine
       \/ /\ uuid = 0 /\ guest[receipt.gen] = "halted"
          /\ Goto(p, "fail") /\ Fine /\ UNCHANGED mine
       \/ /\ uuid = 0 /\ guest[receipt.gen] = "running"
          /\ mine' = [mine EXCEPT ![p] = receipt.gen] /\ Goto(p, "adopt") /\ Fine
       \/ /\ uuid = 0
          /\ Goto(p, "fail") \/ (Present(receipt.gen) /\ End(p))
          /\ Faulty /\ UNCHANGED mine

\* The recovered guest becomes the row's, unless the attempt was superseded.
Adopt(p) ==
    /\ pc[p] = "adopt"
    /\ UNCHANGED <<status, reason, claimed, deleted, prefix, receipt, guest, dns, refunds,
                   locals, account, expired>>
    /\ \/ /\ status = "PROVISIONING" /\ receipt.gen = mine[p] /\ uuid \in {0, mine[p]}
          /\ \/ uuid' = mine[p] /\ Goto(p, "restrict") /\ Fine
             \/ Goto(p, "fail") /\ Lost /\ (uuid' = mine[p] \/ UNCHANGED uuid)
       \/ /\ status # "PROVISIONING" \/ receipt.gen # mine[p] \/ uuid \notin {0, mine[p]}
          /\ End(p) /\ Fine /\ UNCHANGED uuid

\* What a clone is made with.
NewReceipt(g) == [gen |-> g, outcome |-> "none", late |-> FALSE]

\* prepare_guest_result: a new generation, token and deadline for a new clone.
Prepare(p) ==
    /\ pc[p] = "prepare"
    /\ UNCHANGED <<row, guest, dns, refunds, expects, account, expired, mishaps>>
    /\ \/ /\ status = "PROVISIONING" /\ uuid = 0 /\ receipt.gen < MaxGen
          /\ receipt' = NewReceipt(receipt.gen + 1)
          /\ mine' = [mine EXCEPT ![p] = receipt.gen + 1]
          /\ Goto(p, "clone")
       \/ /\ status # "PROVISIONING" \/ uuid # 0
          /\ Goto(p, "fail") /\ UNCHANGED <<receipt, mine>>

\* XCPNGProvider.create_vm, first half: vm.create clones without booting.
Clone(p) ==
    /\ pc[p] = "clone"
    /\ UNCHANGED <<row, receipt, dns, refunds, locals, account, expired>>
    /\ \/ Set(mine[p], "halted") /\ Goto(p, "boot") /\ Fine
       \/ (UNCHANGED guest \/ Set(mine[p], "inflight")) /\ Goto(p, "fail") /\ Faulty

\* Second half: sizing and vm.start; a failure deletes the clone if it can.
Boot(p) ==
    /\ pc[p] = "boot"
    /\ UNCHANGED <<row, receipt, dns, refunds, locals, account, expired>>
    /\ \/ Set(mine[p], "running") /\ Goto(p, "persist") /\ Fine
       \/ /\ UNCHANGED guest \/ Set(mine[p], "running") \/ Set(mine[p], "gone")
          /\ Goto(p, "fail") /\ Faulty

\* The UUID is stored; a lost commit is an ordinary exception.
Persist(p) ==
    /\ pc[p] = "persist"
    /\ UNCHANGED <<status, reason, claimed, deleted, prefix, receipt, guest, dns, refunds,
                   locals, account, expired>>
    /\ \/ /\ uuid \in {0, mine[p]}
          /\ \/ uuid' = mine[p] /\ Goto(p, "restrict") /\ Fine
             \/ Goto(p, "fail") /\ Lost /\ (uuid' = mine[p] \/ UNCHANGED uuid)
       \/ uuid \notin {0, mine[p]} /\ End(p) /\ Fine /\ UNCHANGED uuid

\* _stop_restricted_provisioned_guest, before any wait.
Restrict(p) ==
    LET doomed == claimed \/ status = "DESTROYED"
        held   == reason \in Restricted \/ disabled
    IN
    /\ pc[p] = "restrict"
    /\ UNCHANGED <<row, receipt, dns, refunds, locals, account, expired>>
    /\ \/ uuid # mine[p] /\ End(p) /\ Fine /\ UNCHANGED guest
       \/ uuid = mine[p] /\ doomed /\ Goto(p, "claim") /\ Fine /\ UNCHANGED guest
       \/ /\ uuid = mine[p] /\ ~doomed /\ held /\ End(p)
          /\ \/ Present(mine[p]) /\ Set(mine[p], "halted") /\ Fine
             \/ ~Present(mine[p]) /\ Fine /\ UNCHANGED guest
             \/ Faulty /\ UNCHANGED guest
       \/ uuid = mine[p] /\ ~doomed /\ ~held /\ Goto(p, "network") /\ Fine /\ UNCHANGED guest

\* The receipt's generation is read, then _wait_for_ipv6.
Network(p) ==
    /\ pc[p] = "network"
    /\ expects' = [expects EXCEPT ![p] = receipt.gen]
    /\ \/ guest[mine[p]] = "running" /\ Goto(p, "publish") /\ Fine
       \/ guest[mine[p]] # "running" /\ Goto(p, "fail") /\ Fine
       \/ Goto(p, "fail") /\ Faulty
    /\ UNCHANGED <<row, receipt, guest, dns, refunds, mine, account, expired>>

\* dns.create_aaaa, and the probes that decide nothing.
PublishDNS(p) ==
    /\ pc[p] = "publish"
    /\ \/ dns' = TRUE /\ Goto(p, "await") /\ Fine
       \/ Goto(p, "fail") /\ Faulty /\ (dns' = TRUE \/ UNCHANGED dns)
    /\ UNCHANGED <<row, receipt, guest, refunds, locals, account, expired>>

\* Mutant of Await: the deadline of the receipt is ignored.
AwaitForever(p) ==
    /\ pc[p] = "await" /\ receipt.outcome # "none"
    /\ \/ receipt.gen # expects[p] /\ End(p)
       \/ receipt.gen = expects[p] /\ receipt.outcome = "succeeded" /\ Goto(p, "finalize")
       \/ receipt.gen = expects[p] /\ receipt.outcome = "failed" /\ Goto(p, "fail")
    /\ UNCHANGED <<row, receipt, guest, dns, refunds, locals, account, expired, mishaps>>

\* _wait_for_guest_result: polls until the receipt decides.
Await(p) ==
    /\ pc[p] = "await"
    /\ \/ receipt.gen # expects[p] /\ End(p)
       \/ receipt.gen = expects[p] /\ receipt.outcome = "succeeded" /\ Goto(p, "finalize")
       \/ receipt.gen = expects[p] /\ receipt.outcome = "failed" /\ Goto(p, "fail")
       \/ receipt.gen = expects[p] /\ receipt.outcome = "none" /\ receipt.late /\ Goto(p, "fail")
    /\ UNCHANGED <<row, receipt, guest, dns, refunds, locals, account, expired, mishaps>>

\* The final transaction: READY, or SUSPENDED while a restriction holds.
Finalize(p) ==
    LET moot == \/ claimed
                \/ status # "PROVISIONING" /\ ~(reason \in Restricted /\ status = "SUSPENDED")
                \/ uuid # mine[p] \/ receipt.gen # expects[p]
    IN
    /\ pc[p] = "finalize"
    /\ UNCHANGED <<uuid, reason, claimed, deleted, prefix, receipt, dns, refunds, locals, account,
                   expired>>
    /\ \/ moot /\ End(p) /\ Fine /\ UNCHANGED <<status, guest>>
       \/ /\ ~moot /\ receipt.outcome # "succeeded"
          /\ Goto(p, "fail") /\ Fine /\ UNCHANGED <<status, guest>>
       \/ /\ ~moot /\ receipt.outcome = "succeeded" /\ reason # "none" /\ End(p)
          /\ \/ /\ Present(mine[p]) /\ Set(mine[p], "halted")
                /\ \/ status' = "SUSPENDED" /\ Fine
                   \/ Lost /\ UNCHANGED status
             \/ ~Present(mine[p]) /\ Fine /\ UNCHANGED <<status, guest>>
             \/ Faulty /\ UNCHANGED <<status, guest>>
       \/ /\ ~moot /\ receipt.outcome = "succeeded" /\ reason = "none" /\ UNCHANGED guest
          /\ \/ status' = "READY" /\ End(p) /\ Fine
             \/ Goto(p, "fail") /\ Lost /\ (status' = "READY" \/ UNCHANGED status)

\* Mutant of Fail: the recorded guest is not stopped.
FailRunning(p) ==
    /\ pc[p] = "fail" /\ Fine
    /\ \/ status # "PROVISIONING" /\ End(p) /\ UNCHANGED status
       \/ status = "PROVISIONING" /\ status' = "FAILED" /\ Goto(p, "refund")
    /\ UNCHANGED <<uuid, reason, claimed, deleted, prefix, receipt, guest, dns, refunds, locals,
                   account, expired>>

\* The exception handler: stop the recorded guest, then FAILED.  An exception
\* of its own ends the attempt, with the refund still to be recorded.
FailedOrLost(p) ==
    \/ status' = "FAILED" /\ Goto(p, "refund") /\ Fine
    \/ Lost /\ End(p) /\ (status' = "FAILED" \/ UNCHANGED status)

Fail(p) ==
    /\ pc[p] = "fail"
    /\ UNCHANGED <<uuid, reason, claimed, deleted, prefix, receipt, dns, refunds, locals, account,
                   expired>>
    /\ \/ status # "PROVISIONING" /\ End(p) /\ Fine /\ UNCHANGED <<status, guest>>
       \/ status = "PROVISIONING" /\ uuid = 0 /\ FailedOrLost(p) /\ UNCHANGED guest
       \/ /\ status = "PROVISIONING" /\ uuid # 0
          /\ \/ Present(uuid) /\ Set(uuid, "halted") /\ FailedOrLost(p)
             \/ ~Present(uuid) /\ End(p) /\ Fine /\ UNCHANGED <<status, guest>>
             \/ Faulty /\ End(p) /\ UNCHANGED <<status, guest>>

\* _record_vm_refund: a transaction of its own, best effort.
RecordRefund(p) ==
    /\ pc[p] = "refund"
    /\ End(p)
    /\ \/ refunds' = refunds + 1 /\ Fine
       \/ UNCHANGED refunds /\ Faulty
    /\ UNCHANGED <<row, receipt, guest, dns, locals, account, expired>>

\* The process of an attempt dies.  A request already sent to the provider may
\* still be carried out: the clone appears later, or the guest has started.
Crash(p) ==
    /\ pc[p] # "idle" /\ GoesWrong("crash")
    /\ End(p)
    /\ \/ UNCHANGED guest
       \/ pc[p] = "clone" /\ Set(mine[p], "inflight")
       \/ pc[p] = "boot" /\ Set(mine[p], "running")
    /\ UNCHANGED <<row, receipt, dns, refunds, locals, account, expired>>

\* The connection that holds the attempt lock dies before its watcher cancels
\* the attempt (provisioning_attempt.watch_connection): others may begin.
LoseLock(p) ==
    /\ lock = p /\ GoesWrong("orphaned")
    /\ lock' = None
    /\ UNCHANGED <<row, receipt, guest, dns, refunds, pc, locals, account, expired>>

AttemptStep(p) ==
    \/ Locate(p) \/ Adopt(p) \/ Prepare(p) \/ Clone(p) \/ Boot(p) \/ Persist(p)
    \/ Restrict(p) \/ Network(p) \/ PublishDNS(p) \/ Await(p) \/ Finalize(p)
    \/ Fail(p) \/ RecordRefund(p)

----------------------------------------------------------------------------
(* The guest, the clock and the provider.                                  *)

\* accept_guest_result: the first report in time for the current generation.
GuestReports ==
    /\ guest[receipt.gen] = "running" /\ receipt.outcome = "none" /\ ~receipt.late
    /\ \E o \in {"succeeded", "failed"} : receipt' = [receipt EXCEPT !.outcome = o]
    /\ UNCHANGED <<row, guest, dns, refunds, lock, pc, locals, account, expired, mishaps>>

DeadlinePasses ==
    /\ receipt.outcome = "none" /\ ~receipt.late
    /\ receipt' = [receipt EXCEPT !.late = TRUE]
    /\ UNCHANGED <<row, guest, dns, refunds, lock, pc, locals, account, expired, mishaps>>

\* A clone whose creator is gone appears; nobody boots it.
LateClone(g) ==
    /\ guest[g] = "inflight" /\ Set(g, "halted")
    /\ UNCHANGED <<row, receipt, dns, refunds, lock, pc, locals, account, expired, mishaps>>

TimeRunsOut ==
    /\ ~expired /\ expired' = TRUE
    /\ UNCHANGED <<row, receipt, guest, dns, refunds, lock, pc, locals, account, mishaps>>

\* check_expiries for a row that is not claimed: the guest of an expired VM is
\* stopped; a row still in delivery keeps its status.
ExpirySweep ==
    /\ expired /\ ~claimed /\ status \notin {"FAILED", "DESTROYED", "SUSPENDED"}
    /\ uuid # 0 /\ Present(uuid)
    /\ Set(uuid, "halted")
    /\ status' = IF status = "PROVISIONING" THEN status ELSE "SUSPENDED"
    /\ reason' = IF reason \in Restricted THEN reason ELSE "expired"
    /\ UNCHANGED <<uuid, claimed, deleted, prefix, receipt, dns, refunds, lock, pc, locals, account,
                   expired, mishaps>>

----------------------------------------------------------------------------
(* The owner's account.                                                    *)

DisableAccount ==
    /\ ~disabled /\ toggles < MaxToggles
    /\ disabled' = TRUE /\ op' = "suspend" /\ toggles' = toggles + 1
    /\ UNCHANGED <<row, receipt, guest, dns, refunds, lock, pc, locals, expired, mishaps>>

EnableAccount ==
    /\ disabled /\ toggles < MaxToggles
    /\ disabled' = FALSE /\ op' = "resume" /\ toggles' = toggles + 1
    /\ UNCHANGED <<row, receipt, guest, dns, refunds, lock, pc, locals, expired, mishaps>>

\* Mutant of SuspendForAccount: a row in delivery is suspended like any other.
SuspendAnyStatus ==
    /\ op = "suspend" /\ op' = "none" /\ status \notin {"FAILED", "DESTROYED"}
    /\ status' = "SUSPENDED" /\ reason' = "account_disabled"
    /\ guest' = IF uuid # 0 /\ Present(uuid) THEN [guest EXCEPT ![uuid] = "halted"] ELSE guest
    /\ UNCHANGED <<uuid, claimed, deleted, prefix, receipt, dns, refunds, lock, pc, locals, disabled,
                   toggles, expired, mishaps>>

\* suspend_account_resources: marks the row, stops a recorded guest.
SuspendForAccount ==
    LET moot == status = "DESTROYED" \/ (status = "FAILED" /\ uuid = 0)
        kept == status = "SUSPENDED" /\ reason \in {"manual_admin", "expired"}
    IN
    /\ op = "suspend" /\ op' = "none"
    /\ \/ moot /\ UNCHANGED <<status, reason, guest>>
       \/ /\ ~moot
          /\ \/ uuid = 0 /\ UNCHANGED guest
             \/ uuid # 0 /\ Present(uuid) /\ Set(uuid, "halted")
          /\ status' = IF kept \/ status \in {"PROVISIONING", "FAILED"} THEN status ELSE "SUSPENDED"
          /\ reason' = IF kept THEN reason ELSE "account_disabled"
    /\ UNCHANGED <<uuid, claimed, deleted, prefix, receipt, dns, refunds, lock, pc, locals, disabled,
                   toggles, expired, mishaps>>

\* renew_provisioning_report_deadline.
RenewedReceipt == IF receipt.outcome = "none" THEN [receipt EXCEPT !.late = FALSE] ELSE receipt

\* resume_account_resources: restarts the guest of a row in delivery with a
\* fresh reporting window (renew_provisioning_report_deadline).
ResumeForAccount ==
    /\ op = "resume" /\ op' = "none"
    /\ \/ /\ reason # "account_disabled"
          /\ UNCHANGED <<status, reason, guest, receipt>>
       \/ /\ reason = "account_disabled" /\ (status \in {"FAILED", "DESTROYED"} \/ expired)
          /\ reason' = IF status \in {"FAILED", "DESTROYED"} THEN "none" ELSE "expired"
          /\ UNCHANGED <<status, guest, receipt>>
       \/ /\ reason = "account_disabled" /\ ~expired /\ status \notin {"FAILED", "DESTROYED"}
          /\ reason' = "none"
          /\ \/ uuid = 0 /\ status = "PROVISIONING" /\ UNCHANGED <<status, guest, receipt>>
             \/ /\ uuid # 0 /\ Present(uuid) /\ Set(uuid, "running")
                /\ status' = IF status = "PROVISIONING" THEN status ELSE "RUNNING"
                /\ receipt' = IF status = "PROVISIONING" THEN RenewedReceipt ELSE receipt
    /\ UNCHANGED <<uuid, claimed, deleted, prefix, dns, refunds, lock, pc, locals, disabled, toggles,
                   expired, mishaps>>

----------------------------------------------------------------------------
(* destroy_vm without retention, also run by an attempt that finds a claim. *)

Settled == status = "DESTROYED" /\ ~prefix /\ (uuid = 0 \/ deleted = uuid)

\* A customer may ask at any time, the worker takes up unfinished claims.
CallDestroy(d) ==
    /\ pc[d] = "idle" /\ ~Settled /\ (d = "expiry" => claimed)
    /\ Goto(d, "claim")
    /\ UNCHANGED <<row, receipt, guest, dns, refunds, locals, account, expired, mishaps>>

\* The route of a customer acts for an enabled owner only.
ClaimDeletion(d) ==
    LET refused == d = "customer" /\ disabled IN
    /\ pc[d] = "claim"
    /\ \/ (Settled \/ refused) /\ End(d) /\ UNCHANGED <<claimed, mine>>
       \/ /\ ~Settled /\ ~refused
          /\ claimed' = TRUE
          /\ mine' = [mine EXCEPT ![d] = uuid]
          /\ Goto(d, IF uuid # 0 /\ deleted # uuid THEN "delete" ELSE "names")
    /\ UNCHANGED <<status, uuid, reason, deleted, prefix, receipt, guest, dns, refunds, expects,
                   account, expired, mishaps>>

DeleteGuest(d) ==
    /\ pc[d] = "delete"
    /\ \/ Set(mine[d], "gone") /\ Goto(d, "names") /\ Fine
       \/ (UNCHANGED guest \/ Set(mine[d], "gone")) /\ End(d) /\ Faulty
    /\ UNCHANGED <<row, receipt, dns, refunds, locals, account, expired>>

\* Mutant of CleanUpNames: no recorded UUID counts as no guest.
CleanUpUnrecorded(d) ==
    /\ pc[d] = "names"
    /\ \/ dns' = FALSE /\ Goto(d, "release") /\ Fine
       \/ UNCHANGED dns /\ Goto(d, "quarantine") /\ Faulty
    /\ UNCHANGED <<row, receipt, guest, refunds, locals, account, expired>>

\* Without a recorded UUID a guest may still come up: the prefix is kept.
CleanUpNames(d) ==
    /\ pc[d] = "names"
    /\ \/ dns' = FALSE /\ Goto(d, IF mine[d] = 0 THEN "quarantine" ELSE "release") /\ Fine
       \/ UNCHANGED dns /\ Goto(d, "quarantine") /\ Faulty
    /\ UNCHANGED <<row, receipt, guest, refunds, locals, account, expired>>

\* A clone recorded while the lock was not held also keeps the prefix.
RecordDestroyed(d) ==
    /\ pc[d] \in {"release", "quarantine"}
    /\ status' = "DESTROYED"
    /\ deleted' = IF mine[d] # 0 THEN mine[d] ELSE deleted
    /\ prefix' = (prefix /\ (pc[d] = "quarantine" \/ uuid # mine[d]))
    /\ End(d)
    /\ UNCHANGED <<uuid, reason, claimed, receipt, guest, dns, refunds, locals, account, expired,
                   mishaps>>

DestroyStep(d) == \/ ClaimDeletion(d) \/ DeleteGuest(d) \/ CleanUpNames(d)
                  \/ RecordDestroyed(d)

----------------------------------------------------------------------------
Init ==
    /\ status = "PROVISIONING" /\ uuid = 0 /\ reason = "none" /\ claimed = FALSE
    /\ deleted = 0 /\ prefix = TRUE
    /\ receipt = NewReceipt(1)
    /\ guest = [g \in Gens |-> "absent"] /\ dns = FALSE /\ refunds = 0
    /\ lock = None /\ pc = [p \in Procs |-> "idle"]
    /\ mine = [p \in Procs |-> 0] /\ expects = [p \in Procs |-> 0]
    /\ disabled = FALSE /\ op = "none" /\ expired = FALSE
    /\ mishaps = 0 /\ toggles = 0

AttemptNext == \E p \in Attempts : Begin(p) \/ AttemptStep(p) \/ LoseLock(p)
EnvironmentNext == \/ GuestReports \/ DeadlinePasses \/ TimeRunsOut \/ ExpirySweep
                   \/ \E g \in Gens : LateClone(g)
AccountNext == DisableAccount \/ EnableAccount \/ SuspendForAccount \/ ResumeForAccount
DestroyNext == \/ \E d \in Destroyers : CallDestroy(d)
               \/ \E p \in Procs : DestroyStep(p) \/ Crash(p)

Next == AttemptNext \/ EnvironmentNext \/ AccountNext \/ DestroyNext

Spec == Init /\ [][Next]_vars

\* The worker polls recover_tracked_provisioning, check_expiries and the account
\* operations for ever, a live process goes on with what it does, and time passes.
Fairness ==
    /\ WF_vars(\E p \in Attempts : Begin(p))
    /\ \A p \in Attempts : WF_vars(AttemptStep(p) \/ DestroyStep(p))
    /\ \A d \in Destroyers : WF_vars(DestroyStep(d))
    /\ WF_vars(\E d \in Destroyers \cap {"expiry"} : CallDestroy(d))
    /\ WF_vars(SuspendForAccount \/ ResumeForAccount)
    /\ WF_vars(DeadlinePasses)

FairSpec == Spec /\ Fairness

----------------------------------------------------------------------------
(* Correctness.                                                            *)

Places == {"idle", "locate", "adopt", "prepare", "clone", "boot", "persist", "restrict",
           "network", "publish", "await", "finalize", "fail", "refund",
           "claim", "delete", "names", "release", "quarantine"}

\* The columns that are set or not.
FlagsOK == /\ claimed \in BOOLEAN /\ prefix \in BOOLEAN /\ dns \in BOOLEAN
           /\ disabled \in BOOLEAN /\ expired \in BOOLEAN

\* What VMGuestResultRow may hold.
Receipts == [gen : Gens, outcome : {"none", "succeeded", "failed"}, late : BOOLEAN]

\* The attempt lock is not left behind.
LockHeld == lock # None => pc[lock] # "idle"

\* Every column and local keeps its domain (db.VMRow, VMGuestResultRow), and the
\* attempt lock is held by an attempt that is under way (provisioning_attempt).
TypeOK ==
    /\ status \in {"PROVISIONING", "READY", "RUNNING", "SUSPENDED", "FAILED", "DESTROYED"}
    /\ uuid \in 0..MaxGen /\ deleted \in 0..MaxGen
    /\ reason \in {"none", "expired", "account_disabled"}
    /\ receipt \in Receipts
    /\ guest \in [Gens -> {"absent", "inflight", "halted", "running", "gone"}]
    /\ refunds \in Nat /\ lock \in Attempts \cup {None}
    /\ pc \in [Procs -> Places]
    /\ mine \in [Procs -> 0..MaxGen] /\ expects \in [Procs -> 0..MaxGen]
    /\ op \in {"none", "suspend", "resume"}
    /\ FlagsOK /\ LockHeld

\* A VM is delivered on the report of its own guest: the receipt that succeeded
\* carries the generation of the recorded clone (_provision_vm_owned).
DeliveredIsReported ==
    status \in {"READY", "RUNNING", "SUSPENDED"} =>
        receipt.outcome = "succeeded" /\ receipt.gen = uuid

\* However attempts crash, retry and overlap, at most one guest of this VM runs on
\* its address (_recover_pre_uuid_guest, the capacity lock).
OneGuestRuns ==
    \A g, h \in Gens : guest[g] = "running" /\ guest[h] = "running" => g = h

\* A refund is owed once and is final: the row stays terminal and the recorded
\* guest stays off, whatever the account or another attempt does afterwards.
RefundIsFinal ==
    /\ refunds <= 1
    /\ refunds > 0 => /\ status \in {"FAILED", "DESTROYED"}
                      /\ uuid # 0 => guest[uuid] # "running"

\* A prefix that was given back for reuse has no guest of this VM running on it
\* (destroy_vm: quarantine until every user of the address is gone).
FreedPrefixUnused == ~prefix => \A g \in Gens : guest[g] # "running"

----------------------------------------------------------------------------
(* What makes the invariants above inductive.                              *)

Cloning == {"adopt", "prepare", "clone", "boot", "persist"}

\* Between looking for a clone and storing its UUID an attempt is alone, no UUID is
\* stored yet, and the attempt works on the generation of the receipt.
ClonersAlone ==
    \A p \in Procs : pc[p] \in Cloning =>
        /\ p \in Attempts /\ uuid = 0
        /\ \A q \in Procs \ {p} : pc[q] \notin Cloning
        /\ pc[p] # "prepare" => mine[p] = receipt.gen

\* The guest that runs, and the one that is recorded, are of the receipt's generation,
\* and no generation is replaced while its guest runs.
GenerationCurrent ==
    /\ \A g \in Gens : guest[g] = "running" => g = receipt.gen
    /\ uuid # 0 => uuid = receipt.gen
    /\ \A p \in Procs : pc[p] = "prepare" => guest[receipt.gen] # "running"

\* An attempt that waits for the network or the report works on a clone.
WaitersHaveGuest ==
    \A p \in Procs :
        pc[p] \in {"restrict", "network", "publish", "await", "finalize"} => mine[p] # 0

\* A destroyer that is past the deletion of a guest works on the recorded one, and
\* that one is gone; a guest recorded as deleted, or whose prefix was given back, too.
DestroyersExact ==
    /\ \A d \in Procs :
          /\ pc[d] = "delete" => mine[d] # 0 /\ mine[d] = uuid
          /\ pc[d] = "release" => mine[d] # 0
          /\ pc[d] \in {"names", "release", "quarantine"} /\ mine[d] # 0 =>
                mine[d] = uuid /\ guest[uuid] = "gone"
    /\ deleted # 0 => deleted = uuid /\ guest[uuid] = "gone"
    /\ ~prefix => uuid # 0 /\ guest[uuid] = "gone"

\* The inductive invariant of delivery.  It does not mention the attempt lock: the
\* capacity lock and the checks of identity suffice.
DeliveryInv == /\ ClonersAlone /\ GenerationCurrent /\ WaitersHaveGuest
               /\ DestroyersExact /\ DeliveredIsReported

\* While no connection is lost, an attempt that is under way holds the lock.
AttemptHoldsLock == \A p \in Attempts : pc[p] # "idle" => lock = p

\* From the failure that owes a refund on, the row is terminal, the recorded guest is
\* off and no attempt is under way but the one that records the refund, once.
RefundOwed == refunds > 0 \/ \E p \in Procs : pc[p] = "refund"
RefundSettles ==
    /\ RefundOwed => /\ status \in {"FAILED", "DESTROYED"}
                     /\ uuid # 0 => guest[uuid] # "running"
                     /\ \A p \in Attempts : pc[p] \in {"idle", "refund"}
    /\ \A p \in Procs : pc[p] = "refund" => p \in Attempts /\ refunds = 0
    /\ refunds <= 1

\* The inductive invariant of refunds while the attempt lock is kept.
RefundInv == AttemptHoldsLock /\ RefundSettles

----------------------------------------------------------------------------
(* What no step may do, and what must happen.                              *)

\* The receipt of a running guest is never replaced by one for another clone
\* (recover_tracked_provisioning: "never replace a running guest's credential").
CredentialKept == [][guest[receipt.gen] = "running" => receipt'.gen = receipt.gen]_vars

\* An order never stays in delivery: it is delivered, failed or claimed, or its
\* account is disabled (recover_tracked_provisioning, _poll_guest_result).
DeliveryEnds == status = "PROVISIONING" ~> status # "PROVISIONING" \/ claimed \/ disabled

=============================================================================
