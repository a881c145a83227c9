# A TLA+ verification of hyrule-cloud

hyrule-cloud sells virtual machines, domains and reverse tunnels for crypto
payments (x402, native BTC and XMR). The API process takes orders and
payments, a worker process polls, expires, recovers and reconciles, and both
act on the same PostgreSQL rows and on the same hypervisor (Xen Orchestra),
DNS servers, registrar and chains. What is hard in this code is not any single
handler: it is that a provider call and the commit that records it are two
steps, that several processes pick up the same row, and that money has been
taken by the time anything goes wrong. This directory models those parts,
checks them with TLC and proves the core for every value of the parameters.

All source paths below are relative to `src/hyrule_cloud/`.

## 1. Inventory

| Component | State | Operations | Interacts with |
|---|---|---|---|
| VM lifecycle (`orchestrator.py`, `services/vm_retention.py`) | `VMRow` (status, suspension_reason, deletion_started_at, expires_at, owner, prefix, handoff metadata), `VMRetentionRow`, `VMRestoreRow` | extend_vm, check_expiries, destroy_vm, reconcile_extension_resumes, reconcile_transfer_resumes, prepare/authorize/complete_restore | hypervisor, DNS, operation queue, account rows |
| VM provisioning (`orchestrator.py`, `services/guest_result.py`, `services/provisioning_attempt.py`) | `VMRow`, `VMGuestResultRow`, advisory locks | _provision_vm_owned, record_guest_result, recover_tracked_provisioning, the failure path with its refund | hypervisor, guest callback, DNS, refund ledger |
| VM checkout and quotes (`api/routes.py`, `services/quotes.py`, `orchestrator.py`) | `VMQuoteRow`, unpaid reservations, the capacity lock | create_vm, claim_quote, reserve/activate/release, the sweeper | payment gate, domains, provisioning |
| Native crypto intents (`services/intents.py`, `providers/native_crypto.py`) | `CryptoIntentRow` | create_intent, poll_one_intent, _trigger_provisioning, _recover_interrupted_vm_provisioning, _resume_domain_handoff | chain explorers, wallet RPC, reservation and activation, domain orders, refund ledger |
| Payment gate and ledger (`middleware/x402.py`, `services/payments_ledger.py`, `services/refunds.py`) | `PaymentEventRow`, `AdminBypassUsageRow` | verify, settle, waive, record, refund_owed | facilitator |
| Domain orders (`domains/service.py`, `domains/api.py`) | `DomainQuoteRow`, `DomainRegistrationIntentRow`, `DomainOrderRow` | create_order, create_marketplace_order, _mark_paid, expire_quotes, recover_x402_handoffs | payment gate, VM quotes, jobs |
| Domain jobs (`domains/service.py`, `providers/openprovider.py`) | `DomainJobRow`, `DomainRow` | _claim_job, _fulfill_order, _reconcile_domain, _retry_or_fail_job | registrar, checkout of a bundle's VM, refund ledger |
| Domain zones (`domains/service.py`, `domains/dns_control.py`) | `DomainRow`, `DomainDNSRecordRow`, the control plane's zone, the registrar's delegation and keys | apply_changeset, nameserver, DNSSEC and transfer operations, attach_vm, detach_vm, reconciliation | registrar, control plane, VM lifecycle |
| Accounts, sessions, keys (`api/auth.py`, `services/sessions.py`, `services/api_keys.py`, `services/account_deletion.py`, `domains/wallet_auth.py`) | `AccountRow`, `SessionRow`, `ApiKeyRow`, wallets, challenges | register, login, step-up, recover, link, create and revoke, disable, delete | VM ownership, domains |
| Administrator control plane (`api/admin.py`, `services/admin_operations.py`) | `AdminOperationRow`, `AccountRow.disabled_at` | disable, enable, start, stop, extend, transfer, delete, restore, retry; the leased queue | VM lifecycle, credentials, domains |
| Reverse tunnels (`services/tunnel/service.py`, `api/tunnel.py`) | `ReverseTunnelRow`, the daemon's leases | create, extend, revoke, sweep | daemon, payment gate |
| Worker scheduler (`worker.py`) | none of its own | the periodic tasks | all of the above |
| DNS blocklist index, notices and VM events, pricing, launch proof | caches, append-only records, pure functions | refresh, emit, price | - |
| Network intelligence APIs, clients, discovery, metrics, configuration | none | stateless requests | network |

Hard behaviours, by component, and what makes the component correct:

* **Lifecycle.** Five kinds of caller delete a VM; the sweep decides from rows
  it read earlier; a renewal can be paid between that decision and the
  deletion; a commit can be lost after the guest was stopped or started;
  retained disks are claimed and yet must survive. Correct means: paid time is
  never deleted, a retained guest survives every destroyer, a DESTROYED row has
  no guest, no power-on path passes a fence, expired guests do stop, claimed
  deletions and promised resumes do end.
* **Provisioning.** A clone exists before its UUID is recorded; a call can time
  out here and complete there; the guest reports when the deadline passes; two
  attempts can overlap when a lock connection dies. Correct means: one guest
  runs per order, what is delivered has reported, a refund is final, a prefix
  that was given back is unused, every order ends.
* **Checkout.** Capacity, quote, domain, waiver slot and money are taken in
  separate transactions, in an order that every failure must undo, while a
  sweeper deletes reservations that look abandoned. Correct means: one VM per
  quote, admitted guests fit, a charge is answered by a VM or a refund and never
  by both, waivers are audited and limited, reservations end.
* **Intents.** The handoff of a settled payment is a dozen transactions; a
  recovery lease can overtake a slow worker; refund and delivery exclude each
  other. Correct means: settled by confirmed money only, refunded or delivered
  and never both, owed once, every handoff ends.
* **Domain orders.** A buyer retries with the same or with a fresh authorization
  while nobody knows how the last settlement ended, and offers expire and are
  replaced underneath. Correct means: a registration is charged once, a recorded
  payment reaches its order in the end, money moves only for enabled accounts.
* **Domain jobs.** The registrar does what it was asked and the answer is lost;
  attempts run out; an administrator retries what was given up. Correct means:
  sold once, never refunded what was sold, own registrations only, every paid
  order ends.
* **Zones.** Table, control plane and registrar hold three copies that are
  changed call by call by customers, the worker, the orchestrator and an
  administrator. Correct means: the apex follows the attached VM, keys match the
  delegation, work is done for the owner, what is stored is served.
* **Accounts.** A proof is verified without a lock and used after it. Correct
  means: a changed password, a used code or a disabled account opens nothing,
  and an administrator remains.
* **Operation queue.** Opposite operations on one account are queued, superseded,
  retried and left by dead workers. Correct means: in the end the resources fit
  the account, nothing is started that somebody else stopped, operations end.
* **Tunnels.** Minting, recording and settling are three systems; clients replay
  on other replicas. Correct means: paid hours are granted, and a paid tunnel is
  not torn down as unpaid.

`PROJECT.json` lists every component (also those that are not modelled, with
the reason) and every hazard with its line and the properties that watch it.

## 2. The modules

| Module | What it is |
|---|---|
| `VMLifecycle` | one delivered VM and everybody who acts on it |
| `VMProvisioning` | the delivery of one paid order |
| `CryptoIntent` | one native-crypto intent up to its VM, domain order or refund; implements `PaidOrder` |
| `PaidOrder` | what a checkout promises: open, settled, then delivered or refunded |
| `VMCheckout` | concurrent POST /v1/vm/create requests; implements `PaidOrder` |
| `DomainOrders` | the checkout of one domain order or marketplace registration |
| `DomainJobs` | the fulfilment of paid domain orders; implements `PaidOrder` |
| `DomainZones` | the zone of a registered domain in table, control plane and registry |
| `Accounts` | accounts and the credentials that open them |
| `AdminOperations` | the queue by which disable and enable reach VMs and mailbox |
| `Tunnels` | leases, rows and payments of reverse tunnels |
| `Faults` | the mishaps that `DomainZones` and `DomainOrders` count |
| `VMLifecycleProofs`, `VMProvisioningProofs`, `VMCheckoutProofs`, `CryptoIntentProofs`, `DomainProofs`, `DomainJobsProofs`, `AccountsTunnelsProofs`, `AdminOperationsProofs` | the theorems |
| `MC...` | the instances for TLC; the constants are in the .cfg files |

Conventions. A block of code that holds its row locks, or one database
transaction, is one action, provider calls included; a handler that lets its
locks go between two blocks is several actions with a program counter. A call
may fail (`"error"`, `"fault"`), be applied with its answer lost (`"lost"`), or
its process may die (`"crash"`); in `VMLifecycle` and `VMProvisioning` `Lost` is
a commit whose effect at the provider stays while the row does not get it.
`MaxMishaps` bounds how many of these happen in one behaviour; in `DomainJobs`
and `Tunnels` each kind happens at most once. An operator whose comment starts
with "Mutant" is a wrong version of the definition after it and is used by no
action.

The modules meet at rows: `VMCheckout` and `CryptoIntent` end where
`VMProvisioning` begins (`start_provisioning`), which ends where `VMLifecycle`
begins (READY). `DomainOrders` ends where `DomainJobs` begins (QUEUED), and an
ACTIVE domain is what `DomainZones` starts from. Each module reduces its
neighbour to the outcomes that come back over that row.

### VMLifecycle

State: the columns of `VMRow` that decide anything, the two durable handoffs in
its metadata (`extHandoff`, `trHandoff`), the retention evidence and the active
restore, the guest at the provider with its operation block, the accounts that
are disabled or closed with their queued operations, and a program counter per
caller of `destroy_vm`. Time is a counter, `Grace` and `Days` are in its units.

* Customer: `ExtendVM`, `RequestDestroy`, `ClaimVM`, `DetachAccount`.
* Administrator: `AdminStart`, `AdminStop`, `AdminExtend`, `TransferVM`,
  `RequestRestore`, `AuthorizeRestore`, `FinalizeRestore`, `DisableAccount`,
  `EnableAccount`, and `CallDestroy("admin")`.
* Worker: `ReconcileExtensionResume`, `ReconcileTransferRead`,
  `ReconcileTransferResume`, `SuspendForAccount`, `ResumeForAccount`,
  `ExpirySelect`, `ExpirySweep`.
* `destroy_vm`: `ClaimDeletion`, `ProtectRetained`, `DeleteGuest`,
  `CleanUpNames`, `RecordDestroyed`, each a transaction or a provider call.

### VMProvisioning

State: the row, the guest receipt, one clone per generation, the DNS record,
the refund rows, the attempt lock, a program counter per attempt and per
destroyer. A generation is the number that the label of the clone, the token in
it and the receipt share. An attempt goes through `Begin`, `Locate` or `Adopt`,
`Prepare`, `Clone`, `Boot`, `Persist`, `Restrict`, `Network`, `PublishDNS`,
`Await`, `Finalize`, or `Fail` and `RecordRefund`. The guest reports or its
deadline passes, a clone that timed out completes later (`LateClone`), the lock
connection dies (`LoseLock`), the account is disabled and enabled, and
`destroy_vm` runs in its own steps. One clone per generation is what the
adoption of a running provider task after a reconnect gives
(`providers/xcpng.py`).

### VMCheckout

State: per request its terms, the VM row it reserved, a program counter and what
it has paid; the shared quote, capacity lock, domain claim, account, waiver quota,
audit events and refund obligations. A request goes through `CheckCapacity`,
`InsertReservation`, `Attach`, `Guard`, `Settle` or the waiver's `ConsumeQuota` and
`Audit`, `Bind`, `Claim`, `Activate` (or `Create` and `Link` when the reservation was
swept), `Start`, and on failure through the refund, the FAILED row, the reopening
of the quote and the release. `SweepSelect` and `SweepDelete` are the two
statements of the sweeper. `LostAt` names the commits whose acknowledgement may get
lost: that of the claim (`"activate"`) or of `start_provisioning` (`"start"`), which
is awaited inside the paid `try`, so that the caller refunds and fails a VM that the
provisioner works on.

`ImplementsPaidOrder` maps a request with an obligation to `refunded`, one whose
VM runs to `delivered`, one that has paid or was waived to `settled`.

### CryptoIntent

State: the intent row (`status`, the token `provisioning_triggered_at`, whether
it is old enough to recover, the planned VM id), the deposits on the address,
the obligations in the ledger, the planned VM's row, its guest, the price quote,
the custom-domain claim, the domain order, and a program counter with local
variables per worker process. `CreateIntent` and `EnsureOrderIntent` insert it,
`Poll` and `Apply` scan and decide (with the slippage and tolerance arithmetic of
`_decide_status`), `Trigger` takes the token, `Plan` to `Start` are the
transactions of the handoff with its five fence checks, `RefundRead` and `Owe`
are the unlocked read and the write of record_native_intent_refund,
`Release`/`Erase` and `MarkFailed`/`FreePrefix` those of the cleanup, `Recover` is
the lease, `MarkPaid`, `SettleOrder`, `Reread` and `ResumeOrder` the domain
handoff. `Dispatch`, `Clone` and `Conclude` are the attempt of `VMProvisioning`
reduced to what the payment depends on; `SelectReservation` and
`PurgeReservation` are the sweeper.

`ImplementsPaidOrder` calls an intent settled when the token is taken, delivered
when its VM is or, with one worker, its domain order is queued, and refunded when
a refund is owed.

### DomainOrders

State: the offers and which have run out, the registration intent with the hash
of the authorization it is bound to, the order, the bundle's VM quote, the
account, what the facilitator has charged, what the ledger knows and what is owed,
and a program counter per request. A request prepares (`client_order_id` or
Idempotency-Key), replaces an expired offer, writes the order, passes the guard
that binds the authorization, settles (with an answer, without, or ambiguously),
records and marks the order paid. `RecoverLook`, `RecoverMark` and `RecoverFlag` are
the worker's replay of the ledger, `ExpireQuotes` its sweep, `Disable` and `Enable`
an administrator.

Marking paid is two steps. `_mark_paid` reads the order without a lock, and its
SELECT FOR UPDATE comes in the same session without `populate_existing`, so it gets
the lock but the object, and the status, that it read first: `Look` keeps that status
in `seen` (`RecoverLook` in `scan`), and `Mark` and `RecoverMark` decide by it under
the lock. `overwritten` records that a payment was marked over the outcome of another
marking.

### DomainJobs

State: the orders, what is owed in full and for the VM alone, the bundle's VM, the
domain row, what the registrar has (and what it shows of a renewal), the jobs with
their attempts, and the one worker's place. A job is claimed (also one whose
worker died), checks, writes the marker, calls the registrar, reads back, records,
provisions the bundle, or fails, retries or refunds. `Daily` queues
reconciliations, `Decide` and `Expose` are the registrar's own progress.

A renewal checks the owner and the live price on every attempt, before it looks at the
baseline an earlier attempt stored; `TurnsDear` is the price or the owner that changed
in between (the mishap "dearer"). A worker that gives up acts on the order of the job
it holds.
`ImplementsPaidOrder` calls an order delivered when all that was bought is there
and the worker is no longer at risk of failing it (`AtRisk`: inside the `try` of
`_fulfill_order` the claim of the domain for its VM may still be refused).

### DomainZones

State: the domain row, its records, the control plane's zone, the registrar's
nameservers and keys, the lock of the row, a changeset per client, the jobs, the
VM. The six operations run step by step in the worker; attach and detach run in
the orchestrator and leave a job where they fail. The commit of the new state marks
the operation SUCCEEDED while the job that carries it still runs (status "saved");
from then on the next operation may be queued. A call whose answer is lost is tried again;
one that is refused is either tried again or ends the job at once, as the provider's
error says (`FailsWith`). That the control plane refuses an earlier revision than it
has is assumed of it, not taken from the code.

### Accounts

State: accounts with versions of password and recovery code, sessions with the
version they were issued under, keys, wallet challenges, and requests between
their two steps: authentication without a lock, and the transaction that looks
again. Every operation of `api/auth.py` that writes a credential, and the
administrator's operations on accounts and roles, is an action. `change_password`
revokes all sessions but the one it is called with, and leaves that one's
elevation alone: `set` records which password a session itself has set, and
`SessionsFollowPassword` allows that session to be older than the password.

### AdminOperations

State: the account, the operations in order of creation, the lease, VMs with
their power at the provider, the mailbox, and the workers. An operation is
claimed, superseded, applied resource by resource, completed or failed; workers
die and commits fail in between; VMs expire, fail, are stopped by hand and
become ready meanwhile.

### Tunnels

State: rows and leases by the request that minted them, the tokens made so far,
create and extend requests with the replica they run on, the owner's teardown,
the sweep, and an account of hours sold, bought and refunded.

A create request finds the row of its authorization or verifies, takes a lease,
inserts its row, settles and stamps it; one that finds a row recovers the lease and
settles what is unpaid. An extension passes the gate (`Pay`: refused, charged, or charged
and reported as failed), reaches the daemon, is persisted by the monotonic update, or
is refunded (`RefundExtension`) by a ledger entry that is best effort. Either kind of
request may die (`Crash`). The sweep selects (`SweepSelect`) and afterwards revokes
and deletes what it selected (`SweepRevoke`, `SweepDelete`), without looking at the
expiry again. A revocation is applied, refused, or applied with its answer lost, which
the code takes for refused (`Revoked`).

`PaidHoursKept` has conditions, because the code keeps paid hours only under them:

* `NothingForgotten`: the daemon has lost no lease, no revocation was applied without
  an answer, and either there is one replica or no request died. On two replicas a
  request may revoke a tunnel it had taken for unpaid and die before it deletes the
  row; `recover_lease` then starts a lease from the row's expiry, which the second
  extension reaches again: two extensions are charged for the same hour.
* `Kept`: the row is there, its owner has not begun to tear the tunnel down, the sweep
  has not revoked it and no request that took it for unpaid is past its revocation.
* Hours count when the books know them. `Lost` are the extensions that were charged
  and are neither granted nor refunded: the gate reported a failure although the
  facilitator had charged, the request died, or the ledger failed the refund.

## 3. The runs

| Run | Shows |
|---|---|
| `lifecycle` | renewals, the sweep, a customer and an administrator on one VM: paid time, deletion, and what must happen in the end |
| `retention` | two accounts, retention and recovery, two destroyers: the inductive invariant of the proofs and the power-on fences |
| `delivery` | two attempts that may overlap, a deleting customer, a disabling administrator |
| `intents` | one or two worker processes on one intent, for a VM or a domain order; refines `PaidOrder` |
| `vm_checkout` | two requests for one quote, host, domain and waiver; refines `PaidOrder` |
| `domain_orders` | two requests with a shared or with own authorizations and the worker's replay, whose markings overlap, with offers that expire, ambiguous settlements and an administrator |
| `domain_jobs` | registration, bundle, waiver and renewal with an unreliable registrar; refines `PaidOrder` |
| `zones` | all six operations, a changeset, attachment, reconciliation, change of hands |
| `accounts` | every pair of overlapping requests of three |
| `admin_operations` | two workers, three requests to disable, enable or retry, two faults or other events |
| `tunnels` | replayed creations on two replicas, two extensions, teardown and sweep, two of eleven mishaps |
| `bundle_vm_lost` | expects a violation: a place where the code does not do what its comment says (section 5) |

Bounds, and why they are enough. One VM, order, intent, domain or tunnel per module:
such rows share only what the module models (capacity, prefixes, quotes, one registrar
name). Two actors of a kind wherever the code has a race, because every race in it is
between a slow actor and one that overtook it; three requests in
`accounts`, where a third observes what two left. Two accounts for a transfer, three
for administrators who act on one another. Time reaches past expiry plus grace with a
renewal in it (`lifecycle`); in `retention` the grace is zero, which lets every claim
happen early. `MaxMishaps` is 1 where a single failure already needs recovery from
every step, 2 in `domain_jobs` and `tunnels`, where a failure
has to meet a retry that fails otherwise, and 3 in `domain_orders`, where both
requests and the replay can fail; `MaxSurprises` 2 in `admin_operations` counts
failures and what else befalls a VM, so that a VM is built and finished, or runs out
and is stopped, between two operations. `MaxAttempts` 2 stands for the code's 10: what
matters is the last attempt and one before it. For the intent, `Target` 1000 with
deposits of 900 and 1000 and a fresh target of 905 gives exact payment, underpayment
and late payment inside and outside the 1% slippage; `MaxToken` is the trigger and the
recoveries after every mishap. The theorems of section 4 hold for every value of these
constants. Deadlock is not checked: an order, a VM or an account to which nothing more
happens may rest.

In `tunnels` the grace is zero: the code's 15 minutes are less than the hour that time
is counted in there. Requests ask for an hour or two, and one of them for an hour, whose
time runs out within the two hours of the run, so that an extension is paid before, at
and after expiry. The history of `zones` begins with a domain as it is registered
(managed nameservers with DNSSEC) or with one delegated elsewhere; a managed domain
without DNSSEC is one operation away.

What the bounds leave to another run or out: `lifecycle` has one account and no
transfers, so `PaidResumeHappens` says nothing of a renewal whose owner changes before
it is resumed (`retention` has the transfers, without liveness); `delivery` has one
mishap, so a lost lock never meets a fault; `intents` has one BTC deposit (section 5 for
two XMR transfers); `vm_checkout` and `intents` do not lose the acknowledgement of
`start_provisioning`; `domain_orders` has two requests, so a third that retries what the
second unbound is left to the theorem `ChargedOnce`.

Fairness. Time passes; the worker loop (`worker.py`) calls every sweep, scan and
queue again and again and catches the exceptions of each; a request or a
background task that has started goes on unless its process dies. That is weak
fairness of the clock, of the reconcilers, sweeps and scans, and of the steps of
each process, with mishaps bounded. In `DomainJobs` the claim of a job has strong
fairness: the worker takes due jobs in the order of their time, so a job that is
due again and again is not passed over for ever. Nothing is assumed of customers,
administrators, deposits, confirmations or of when an account is enabled again.
`lifecycle` has faults and crashes but no lost commits: a lost commit after a
start leaves a SUSPENDED row with a running guest, which the sweep does not look
at before the grace period is over (`docs/` asks operators to compare row and
power in that case).

## 4. The proofs

`VMLifecycleProofs` proves, for every set of accounts and destroyers, every
grace period, every set of renewal lengths and every bound:

| Theorem | Statement |
|---|---|
| `TypeCorrect` | `Spec => []TypeOK` |
| `DeletionSafe` | `Spec => []DeletionInv`, the inductive invariant |
| `PaidTimeSafe` | `Spec => []PaidTimeNeverDeleted` |
| `RetentionSafe`, `RetentionOwnerSafe` | `Spec => []RetainedGuestPreserved`, `Spec => []RetentionOwnerStable` |
| `DestroyedSafe` | `Spec => []DestroyedMeansGone` |
| `PowerSafe` | `Spec => PowerOnFenced` |
| `ClaimSafe` | `Spec => ClaimGivenUpOnlyByRecovery` |
| `ExpirySafe` | `Spec => ExpiryMovesForward` |

Assumptions: `Distinct` (the "nobody" values are no accounts) and `Parameters`
(the callers are the four of the code, durations and bounds are naturals, a
renewal is at least one unit).

The argument. `PaidTimeNeverDeleted` is not inductive: a destroyer that is about
to delete must itself have a claim that was made when the time was over, and
nothing in the property says so. `DeletionInv` adds what the code relies on:
`DestroyersFenced` (a destroyer deletes only under a claim without evidence, and
cleans up only what is gone), `GoneIsClaimed` (a missing guest is claimed and
not retained), `ClaimTimely` (a claim that expiry made was due, unless a recovery
has bought time since) and `RecoveryHeld` (a recovery buys time and holds the VM
for an administrator before it unblocks it). Each lemma `...Step` has one case
per action, and under the actions that touch the conjuncts one step per
conjunct. The three action properties follow from the same invariant.

`VMProvisioningProofs` proves, for every set of attempts and destroyers, every
number of generations and every bound on mishaps and account changes:

| Theorem | Statement |
|---|---|
| `TypeCorrect` | `Spec => []TypeOK` |
| `DeliverySafe` | `Spec => []DeliveryInv`, the inductive invariant |
| `OneGuestSafe` | `Spec => []OneGuestRuns` |
| `ReportedSafe` | `Spec => []DeliveredIsReported` |
| `FreedPrefixSafe` | `Spec => []FreedPrefixUnused` |
| `CredentialSafe` | `Spec => CredentialKept` |
| `RefundSafe` | `"orphaned" \notin Mishaps` implies `Spec => []RefundIsFinal` |

Assumptions: `Processes` (attempts and destroyers are different processes, the
callers of `destroy_vm` are the code's) and `Bounds` (there is a generation).

The argument. `OneGuestRuns` says nothing about the attempt that is about to boot
a second clone. `DeliveryInv` does: an attempt between looking for a clone and
storing its UUID is alone and works on the receipt's generation (`ClonersAlone`);
the running and the recorded guest are of that generation, which is not replaced
while its guest runs (`GenerationCurrent`); an attempt that waits has a clone
(`WaitersHaveGuest`); and a destroyer works on the recorded guest, which is gone
before its prefix is given back (`DestroyersExact`). The invariant does not
mention the attempt lock, so these results hold when the connection that holds it
dies. `RefundIsFinal` does need it: `RefundInv` adds that an attempt under way
holds the lock and that, once a refund is owed, no attempt is under way but the
one that records it. With a lost lock it fails (section 5), hence the hypothesis.

`VMCheckoutProofs` proves, for every finite set of requests, every set of
prefixes and host sizes, every waiver limit and every bound on mishaps:

| Theorem | Statement |
|---|---|
| `CheckoutSafe` | `"start" \notin LostAt` implies `Spec => []CheckoutInv`, the inductive invariant |
| `OneVMSafe` | on the same condition, `Spec => []OneVMPerQuote` |
| `ChargedAnswered` | on the same condition, `Spec => []ChargedIsAnswered` |
| `PaidOrderImplemented` | on the same condition, `Spec => ImplementsPaidOrder`, the refinement of `PaidOrder` |

Assumptions: `NoneIsNothing`, `BoundsAreNumbers`, `RequestsAreFinite` and
`TermsAreKnown`.

The argument. None of the properties is inductive. `OneVMPerQuote` speaks of rows
that are paid, not of the request that has claimed the quote and is about to pay
for its row; `QuoteHeld` does, and says that the quote is consumed meanwhile, so
that only its holder can reopen it. `AdmittedFit` needs `InsertersFit`: whoever
passed the capacity check holds the advisory lock and there is still room.
`WaiversAccounted` needs `SlotsSpent`, which also counts the requests between the
consumed slot and its audit or restoration. `ChargedIsAnswered` needs
`ChargeFollowsRequest`: a reopened quote and a released reservation belong to
nobody who was charged. `RowFollowsRequest` and `MoneyFollowsRequest` tie the row,
the money and the refund to where `create_vm` is, and all the others use them. The
eight actions that write a row are first reduced to what they do to its fields
(`...Effect`); then every part of the invariant has a lemma `...Step` with one
case per action that can disturb it. Under the refinement, `Settle` and a granted
`Audit` settle an order, `Provision` delivers or refunds it, `Refund` refunds it,
and every other step is a stutter.

All four have the hypothesis `"start" \notin LostAt`:
the commit of `start_provisioning` is acknowledged. Without it they are false: an
instance with `LostAt = {"start"}` violates `ImplementsPaidOrder` (section 5).

`CryptoIntentProofs` proves, for every set of worker processes, every deployment
of them, every amount, and every bound on deposits, recoveries and mishaps:

| Theorem | Statement |
|---|---|
| `IntentSafe` | `"start" \notin LostAt` implies `Spec => []IntentInv`, the inductive invariant |
| `RefundSafe` | on the same condition, `Spec => []RefundedNotDelivered`, the part of the invariant that matters most |
| `PaidOrderImplemented` | on the same condition, `Spec => ImplementsPaidOrder`, the refinement of `PaidOrder` |

Assumptions: `PollersDistinct`, `FleetsOfPollers`, `AmountsPositive`,
`TermsAreKnown` and `BoundsAreNumbers`. The hypothesis excludes one event: the
commit of `start_provisioning` takes effect and its caller sees an exception. The
caller then refunds a VM that is dispatched (section 5), so without the hypothesis
the theorems are false.

The argument is the fence. Only one process ever holds token 1, the one whose
UPDATE found `provisioning_triggered_at` NULL, and every recovery makes the token
larger before it touches anything. `PollerRelies` says what follows at every place
of a worker: a handoff whose token is current works on a row that is exactly as far
as the handoff is; a recovered or fenced worker meets a token above 1; an error
releases nothing before the intent is REFUND_MANUAL or FAILED; once the intent is
PROVISIONED only the process that linked it may still act, and once the VM is
dispatched no worker may. `RowFollowsIntent` ties the VM's row and the intent to
the token, `RefundEnds` says that a refund for a VM ends the intent, also for a
worker that has read it and not yet written. `RefundReadIsCurrent` speaks of one
worker: what it read before it writes a refund still holds. In the proof every
action of a worker needs only its own lemma: `Others` says that nobody is disturbed
who is idle, overtaken, or whose intent and row are left alone, and `Assembled`
that the rest of the invariant then follows.

`DomainProofs` proves of the zone, for every set of clients, contents and accounts,
every set of operations, every number of attempts and every bound on mishaps:

| Theorem | Statement |
|---|---|
| `ZoneInvariant` | `ZoneSpec => []ZoneInv`, the inductive invariant |
| `AlwaysServedAsStored` | `ZoneSpec => []ServedAsStored` |

Assumptions: `OperationsAreKnown`, `AttemptsAreNumbers` and `NamesAreApart`.

The argument. `ApexFollowsVM` says nothing of the changeset that has read the records
and will write them; `EditKeepsApex` does, while its holder has the lock of the row.
`NoForeignKeys` speaks of keys and delegation between two calls, and is a consequence
of `DelegationInStep`: the registrar has what the row says, except while the worker is
between two calls of an operation, and then it has exactly what that operation has
done so far (`ToExternal`, `ToManaged`, `KeysChanging`). `ServedAsStored` needs the
same for the control plane: `ServedInStep` says what is served while somebody is about
to commit, and `ReadInStep` what becomes of the zone that the worker reads without a
lock, namely that the control plane refuses an earlier revision. All of them rest on
`InPlace`, which says for the step of every actor whether it holds the lock and what it
has read that the row still says. The invariants about the registrar and the control
plane hold as long as no call or commit failed (`mishaps = 0`); those about the apex,
the lock and the owner hold always. The actions are first reduced to what a call may
do (`Tries`: it is made and the actor goes on, or it fails and the actor stops), which
leaves one lemma per part and kind of actor.

It proves of the orders, for every set of requests and authorizations, every number of
offers and every bound on mishaps:

| Theorem | Statement |
|---|---|
| `OrderSafe` | `Spec => []OrderInv`, the inductive invariant |
| `ChargedOnce` | `Spec => []RegistrationChargedOnce` |
| `ChargedEnabled` | `Spec => ChargedWhileEnabled` |

Assumptions: `NoneIsNothing`, `RetriesCarryAuths`, `BoundsAreNumbers` and
`TermsAreKnown`.

The argument. That one authorization is charged at most says nothing of the
requests that are about to settle another. `BoundToOne` does, unless requests
share an authorization (the exception of section 5): until a payment has ended the
registration, every request between the order and its outcome carries the
authorization the intent is bound to, whatever was charged is that one, and the
intent is in flight exactly while it is bound; a request that has not come so far
carries one that was never charged.
`RequestsRely` says what the place of a request implies of order, intent and
ledger; with it, the parts of `OrderInv` about the queue, the refunds and the
bundle's quote are inductive. It also says what a stale read may still be: whoever has
read the order paid or over finds it so, and a read that was overtaken shows in
`overwritten`. `OwedOnce` says that one refund is owed at most, and exactly when the
order is REFUND_DUE, as long as no marking went over the outcome of another: one may
(section 5).

`DomainJobsProofs` proves, for every set of orders of a name, every number of
attempts and every bound on mishaps:

| Theorem | Statement |
|---|---|
| `FulfilmentSafe` | `Spec => []FulfilmentInv`, the inductive invariant |
| `RefundedNotSoldSafe` | `Spec => []RefundedNotSold` |
| `PaidOrderImplemented` | `Spec => ImplementsPaidOrder`, the refinement of `PaidOrder` |

Assumptions: `NoneIsNothing`, `AttemptsArePositive` and `TermsAreKnown` (a VM is
bundled with a registration only, as `create_order` demands).

The argument. `SoldOnce` and `AdoptedIsOwn` need `RowFollowsRegistrar`: the row of the
name is that of the order the registrar sold it to, and a marker was written before
the registrar was asked. `WorkerRelies` says what the place of the worker implies of
its order and its answer. `OwedIsOver` (an order with a refund is over and no job
takes it up again, but by an administrator's retry) and `SoldStaysBound` (no failure
is under way for what was sold, with the exceptions of `RefundedNotSold`) exclude the
second refund and the refund of a sold name, and `ActiveIsOver` a delivered order that
is failed later. Under the refinement `Pay` settles an order, the steps that finish a
registration, a renewal or the bundle's VM, or give up the VM alone, deliver it,
`Refund` refunds it, every other step is a stutter, and an order that the worker may
still fail stays settled.

`AccountsTunnelsProofs` proves of the accounts, for every set of accounts, wallets,
sessions, keys and scopes and every number of requests:

| Theorem | Statement |
|---|---|
| `AccountSafe` | `Spec => []AccountInv` |
| `SessionsSafe` | `Spec => []SessionsFollowPassword` |

Assumptions: `FirstAccounts`, `WriteIsScope`, `PayerIsKnown`, `BoundsAreNumbers`
and `NoneIsNothing`.

The argument. The two invariants are inductive together. Every action is first
reduced to its `Effect` on the rows: what it creates, closes, disables, re-keys or
revokes, and which proof it looked at again in its transaction. `AdminRemains`
follows from the lock on all administrators, `DisabledLockedOut` from the fact that
disabling revokes in the same transaction and that every later issue but that of
`register` rereads the account. `CodesUsedOnce` is strengthened by `CodesAreSpent`:
the code that recovered an account is older than the account's code now. Identities
are never used again (`gone`), as the random ids of the code are not.

It proves of the tunnels, for every set of create requests and replicas, every finite
set of extensions, all lengths and every grace period, and whatever goes wrong:

| Theorem | Statement |
|---|---|
| `TunnelInvariant` | `TunnelSpec => []TunnelInv` |
| `PaidTunnelStaysUp` | `TunnelSpec => PaidTunnelKept` |

Assumptions: `MishapsAreKnown`, `NothingIsApart`, `HoursAreNumbers` and
`ExtendersAreFinite`.

The argument. `PaidHoursKept` is a statement about numbers: the row's expiry is at
least the hours sold, and bought, and not refunded. What is inductive is about single
extensions (`HoursInStep`): no two are granted the same hour, and the lease is past all
of them, so that the next one gets a later hour; when there is no lease the row or the
clock is past them, and `recover_lease` starts from the later of the two. The row may
lag behind the lease, and the monotonic update may be made in any order, but an
extension that is done is within the row's expiry (`SoldKept`). The hours of the
extensions that are done are then different hours between what was sold and the row's
expiry, and counting them gives `PaidHoursKept`; `ExtensionsInStep` says that the books
count the same extensions and the lost ones, and that an extension is lost only by one
of its three mishaps. `WorkInPlace` and `KeyInPlace` say where each request is:
only one row has the key, and whoever works on the tunnel of another request found its
row, so that request is past its insertion. That no lease is dropped under a tunnel
that is kept follows from them, request by request (`Dropped`, `KeptDropped`), as long
as nothing was forgotten (`NothingForgotten`).
`Undisturbed` is what the in-process lock gives on one replica: nobody joins a request
that is creating, hence whoever is charged for a tunnel stamps it, and no request that
was charged comes to tear it down; `PaidTunnelKept` follows.

`AdminOperationsProofs` proves, for every set of VMs and workers, and every number
of requests and surprises:

| Theorem | Statement |
|---|---|
| `QueueSafe` | `Spec => []QueueInv`, the inductive invariant |
| `ResumeSafe` | `Spec => ResumesOnlyWhatItStopped` |

Assumption: `ResourcesAreDistinct`.

The argument. `SettledFits` says that the resources fit the account when nothing is
left to do. The inductive form is `FitsOrOwed`: whatever does not fit the account
is owed by an operation that is still open. `WorkFits` gives a worker its share:
what it has taken off its list fits already. `WorkMatches` says that a worker with
something left on its list applies what the account is now: the lock of the
account's row keeps everybody else away from both until it has finished or died.

Every safety property of the passing runs is proved, those of `VMCheckoutProofs`, and
those of `VMProvisioningProofs` and `CryptoIntentProofs` about refunds, under the
hypotheses stated there. Only model-checked: all liveness (`ExpiredStops`,
`ClaimedEnds`, `PaidResumeHappens`, `DeliveryEnds`, `HandoffEnds`, `ReservationEnds`,
`PaymentConverges`, `PaidOrderEnds`, `OperationsEnd`), as fairness and ENABLED are
outside the provers' reach.

## 5. Where the code and its comments part

`bundle_vm_lost` expects a violation: `_provision_bundle` commits the planned `vm_id`
and builds the VM afterwards; `_fulfill_order` of an ACTIVE order provisions the bundle
only when there is no `vm_id`. A crash in between leaves a paid VM that is neither built
nor refunded, although the comment at `domains/service.py:3033` says that it "can then
replay safely".

Three more disagreements are in the models, and the passing runs and theorems leave them
out by a constant or a stated exception:

* `create_vm` awaits `start_provisioning` inside the `try` whose handler refunds and
  calls `mark_vm_failed` (`api/routes.py:1332`, `1366`). When that commit is made and its
  acknowledgement lost, the VM may be built and delivered before the handler fails it,
  refunds it and frees its prefix; `mark_vm_failed` says "Nothing was provisioned yet"
  (`orchestrator.py:1696`). In `VMCheckout` it happens with `"start"` in `LostAt`.
* Two markings of one domain order overlap, and the second acts on the status it read
  before the first (section 2, `DomainOrders`): it finds the offer consumed and writes
  REFUND_DUE and a refund over QUEUED, or a second refund. `domains/service.py:1385`
  promises "never both", and line 2098 that `_mark_paid` "only ever mutates
  AWAITING_PAYMENT/EXPIRED orders". The run `domain_orders` has these behaviours;
  `OwedOnce` excepts them (`overwritten`).
* `scan_xmr_subaddress` adds up all transfers and reports the highest confirmation count
  of any (`providers/native_crypto.py:216-218`), so an intent settles on a transfer
  nobody has confirmed when an older, smaller one is deep. `services/intents.py:450`
  says that what is paid below the confirmations keeps waiting, and
  `native_crypto.py:43` that the count is that of the most recent transfer. In
  `CryptoIntent` it happens with two deposits of XMR; no property says that settled
  money is confirmed money, as for BTC the guard of `Decide` says it and for XMR it is
  not so.

Other exceptions, met while modelling. The properties name them, or the bounds
leave them out, where noted.

*Payments*

* `_provision_vm_owned` commits FAILED and records the refund afterwards
  (`orchestrator.py:1529`); nothing recovers a FAILED row, so a crash in between
  drops the refund that a comment (line 1648) says "is never dropped".
* `_apply_intent_scan` commits SETTLED and triggers the handoff afterwards
  (`services/intents.py:419`); `scan_pending_intents` never selects SETTLED, so a
  crash in between strands the payment.
* `record_native_intent_refund` looks for an obligation without a lock: a failing
  handoff and a recovery in another process both owe, and two workers can refund
  a domain order that one of them has queued. `OneObligation` and
  `RefundedNotQueued` speak of one worker. A slow poll can turn REFUND_MANUAL back
  into a handoff.
* A crash after the PROVISIONED commit (`services/intents.py:855`) leaves a
  pending handoff that `recover_tracked_provisioning` skips; the lost commit of
  `start_provisioning` makes the intent's handoff, like the checkout's, refund and
  free the /64 of a VM that is dispatched (so "start" is not in `LostAt` in the
  passing runs, and the theorems exclude it).
* "A paid create must never be dropped" fails when another request took the quote
  after this one was charged and its refund cannot be written, or its process
  dies: `ChargedIsAnswered` speaks of behaviours without mishaps, and says nothing
  after any fault.
* Marketplace registration: requests that share one authorization, of which one is
  refused, unbind it while another may still settle it, so that a further
  authorization is charged too (excepted in `RegistrationChargedOnce`); an offer
  that is replaced between prepare_registration and create_marketplace_order is
  paid at the old price.
* Tunnels: the docstring of `revoke` is broken by a replay whose `recover_lease`
  comes between the daemon's revocation and the deletion of the row; a crash
  before the settlement followed by a replay whose settlement is declined breaks
  `api/tunnel.py:10-12`; requests on two replicas race past the in-process lock,
  and a charge that is reported as declined is torn down (both excepted in
  `PaidTunnelKept`). Two extensions can be charged for one hour after a request on a
  second replica revoked the lease and died before it deleted the row (excepted in
  `PaidHoursKept`).
* Tunnel extensions lose hours when the gate reports a failure after the facilitator
  has charged (`x402.py:979-1008`), when the request dies between the gate and the
  grant or the refund, and when the ledger fails the refund, whose errors are
  swallowed (`api/tunnel.py:443-464`): `PaidHoursKept` does not count them. A DELETE
  that was applied with its answer lost is taken for refused
  (`tunnel_client.py:148-152`), and leaves a row without its lease (excepted by
  `NothingForgotten`). The sweep revokes what it selected before its calls, so a
  replay may revive, and an extension pay for, a tunnel that it then tears down; the
  property speaks of tunnels that are kept.

*Domains*

* A registration whose answer was lost and whose next attempt is refused is
  refunded although it was sold, and so is a delivered domain whose bundle VM
  lost its apex to another VM. A renewal whose answer was lost is refunded although
  it was sold when the live price has risen, or the owner changed, before the next
  attempt: `_fulfill_renewal` checks both (`domains/service.py:2909`, `2920`) before
  it looks at the baseline (`2932`). `RefundedNotSold` excepts "refusal", "taken" and
  "dearer".
* What the properties of the zone say of the registrar and the control plane
  (`NoForeignKeys`, `DelegationInStep`, `ServedAsStored`) holds until a call or commit
  goes wrong; after that a reconciliation has to repair it.
* A crash between the "failed" commit of a job and `_fail_paid_order` drops the
  refund until an administrator retries the job; a marker that was written without
  a request to the registrar stays pending (both excepted in `PaidOrderEnds`).
* An administrator's retry of an ACTIVE order whose VM part was refunded builds the
  VM all the same, or owes a second VM refund (`OwedOnce` ends at "retry"); a waived
  order that FAILED may be taken up again by a job that died; the error of a bundle
  in a reconciliation is dropped.
* `attach_vm` runs after the READY commit and may come after the detachment of a
  `destroy_vm` that overtook it; the apex then points to a /64 that was freed.
* An attempt past its restriction check publishes the AAAA record after
  `destroy_vm` has given the prefix back; `FreedPrefixUnused` speaks of guests.

*Power*

* `PowerOnFenced` allows four starts that the code makes against a fence, and says
  nothing of these cases. `reconcile_transfer_resume` reads the owner
  before it locks and consults only that account, so it can start the guest of a
  disabled new owner, and it undoes a manual stop made after the transfer; the
  resume operation of an enabled account does not look at `deletion_started_at`;
  a renewal's handoff may start a guest that has expired again since.
* `claim_vm` does not wait for a pending renewal handoff, which is then dropped as
  stale; `reconcile_extension_resumes` selects SUSPENDED rows only, so a handoff
  pending when an administrator starts the VM stays and blocks transfers.
  `PaidResumeHappens` therefore ends with "no longer suspended", and its run has
  an owner from the start.
* A suspension whose provider stop took effect and whose commit was lost, followed
  by an enable, leaves the guest off under a RUNNING row; an administrator's start
  whose commit is lost leaves an expired guest running. A worker whose lease
  connection dies keeps stepping through its resources.
* When the commit of the UUID is lost, the failure path refunds while the guest
  runs; `RefundIsFinal` speaks of the row. The finalization looks at
  `suspension_reason`, which a queued disable has not set yet, so the VM of a
  disabled account passes through READY.
* Two overlapping attempts of which one also fails can refund and deliver one
  order. That takes a lost lock and a fault together, which the `delivery` run's
  bound excludes and the theorem's hypothesis names.

*Accounts*

* `register` writes its session and starter key without the account's lock
  (excepted in `DisabledLockedOut`); `create_api_key` rechecks only that the account
  is enabled; a wallet login reads the wallet before the lock; API keys survive a
  change of the password, by design.
* `change_password` does not clear `admin_elevated_at` (`auth.py:881-887`): the session
  that changes the password keeps an elevation obtained with the old one
  (excepted in `SessionsFollowPassword`; the other sessions are revoked).

## 6. Not modelled

`PROJECT.json` gives the reason per component. In short: request parsing, rendering,
wording, metrics and discovery keep no state that an operation depends on; the
network-intelligence APIs are stateless; the internals of Xen Orchestra, PostgreSQL,
facilitators, chains, the registrar and the tunnel daemon appear through the effects
the code relies on. Within modelled components: the simulated provisioner; the
creation and expiry of VM quotes; address derivation and the limits on active intents;
`refresh_renewal_states`, `claim_legacy_domain` and the reveal of an authorization
code; the resolution of refunds by an operator; the lapse of sessions by age; a marker
write of a cancellation that fails and is swallowed; the repetition of an owner's
tunnel teardown. The administrator's reconcile_domain and DNS endpoints are further
callers of operations that `DomainJobs` and `DomainZones` have.

## 7. Plan

In order:

1. Composition of `DomainZones` with the deletion steps of `VMLifecycle`, where
   section 5 records a race.
