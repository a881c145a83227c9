---------------------------- MODULE DomainProofs ----------------------------
(***************************************************************************)
(* What TLC checks of DomainZones for one changeset and of DomainOrders    *)
(* for three requests holds for any number of them.                        *)
(*                                                                         *)
(* ZoneInv is itself inductive.  Its parts are proved one after another,   *)
(* each with the ones before it: the types; InPlace, which says what the   *)
(* step of each actor implies of the lock and of what it has read; the     *)
(* apex; the keys and the delegation; the account a job is done for; and   *)
(* what is served.  Each goes through the changesets, the attachments and  *)
(* the operations of the worker.                                           *)
(*                                                                         *)
(* The checkout of an order comes after the zone.  OrderInv is itself      *)
(* inductive: RequestsRely says what the place of a request implies of the *)
(* rows, BoundToOne why fresh authorizations do not charge a registration  *)
(* twice.  Its theorems speak of the variables of DomainOrders alone,      *)
(* those of the zone of the variables of DomainZones alone.                *)
(***************************************************************************)
EXTENDS DomainZones, DomainOrders, FiniteSetTheorems, TLAPS

USE DEF zoneVars, zone, outside, Fine, Does, Reconcile

\* What the constants are.
Constants == OperationsAreKnown /\ AttemptsAreNumbers /\ NamesAreApart

LEMMA ConstantsHold == Constants
  BY OperationsAreKnown, AttemptsAreNumbers, NamesAreApart DEF Constants

\* The names, apart from one another.
LEMMA Names ==
  ASSUME Constants
  PROVE  /\ Worker \in Actors /\ Worker # "provision" /\ Worker # "destroy" /\ "attach" \in Jobs /\ "detach" \in Jobs
         /\ None \notin Clients /\ None \notin Actors /\ None \notin Jobs /\ None \notin AllOperations
         /\ \A c \in Clients : c \notin Actors
         /\ \A k \in Operations : k \in AllOperations /\ k \in Jobs
         /\ Reconcile \in Jobs /\ VMJobs \subseteq Jobs
         /\ \A k \in Jobs : k \in AllOperations \cup VMJobs \cup {Reconcile}
  BY DEF Constants, OperationsAreKnown, NamesAreApart, Worker, Actors, Jobs, VMJobs

\* After a step of a job comes another of its steps.
LEMMA StepAfterIsOfJob ==
  ASSUME NEW w, w.step \in StepsOf(w.job)
  PROVE  /\ StepAfter(w) \in StepsOf(w.job)
         /\ w.step \in Steps /\ StepAfter(w) \in Steps
<1>1. CASE w.job = "external"
  BY <1>1 DEF StepsOf, StepAfter, Steps, ZoneSteps
<1>2. CASE w.job = "managed"
  BY <1>2 DEF StepsOf, StepAfter, Steps, ZoneSteps
<1>3. CASE w.job = "dnssec_managed"
  BY <1>3 DEF StepsOf, StepAfter, Steps, ZoneSteps
<1>4. CASE w.job = Reconcile
  BY <1>4 DEF StepsOf, StepAfter, Steps, ZoneSteps
<1>5. CASE w.job = "dnssec_external"
  BY <1>5 DEF StepsOf, StepAfter, Steps, ZoneSteps
<1>6. CASE w.job = "dnssec_off"
  BY <1>6 DEF StepsOf, StepAfter, Steps, ZoneSteps
<1>7. CASE w.job = "transfer"
  BY <1>7 DEF StepsOf, StepAfter, Steps, ZoneSteps
<1>8. CASE w.job \in VMJobs
  BY <1>8 DEF StepsOf, StepAfter, Steps, ZoneSteps, VMJobs
<1>9. CASE w.job \notin AllOperations \cup {Reconcile} \cup VMJobs
  BY <1>9 DEF StepsOf, StepAfter, Steps, AllOperations
<1> QED
  BY <1>1, <1>2, <1>3, <1>4, <1>5, <1>6, <1>7, <1>8, <1>9 DEF AllOperations

\* The fields of the tables.
LEMMA Fields ==
  ASSUME ZoneTypes
  PROVE  /\ row.mode \in {"managed", "external"} /\ row.dnssec \in {"managed", "external", "off"}
         /\ row.rev \in Nat /\ row.owner \in Accounts
         /\ row.vm \in BOOLEAN /\ row.ipv6 \in BOOLEAN /\ row.transfer \in BOOLEAN
         /\ records.apex \in {"none", "customer", "vm"} /\ records.rest \in Clients \cup {None}
         /\ \A a \in Actors :
              /\ work[a].job \in Jobs \cup {None} /\ work[a].zone \in Zones
              /\ work[a].mode \in {"managed", "external", None}
              /\ work[a].dnssec \in {"managed", "external", "off", None} /\ work[a].step \in Steps
         /\ \A c \in Clients :
              /\ edit[c].at \in {"idle", "begin", "push", "commit", "done"} /\ edit[c].rev \in Nat
              /\ edit[c].want \in Contents /\ edit[c].by \in Accounts
         /\ \A k \in Jobs :
              /\ jobs[k].status \in {"none", "queued", "running", "saved", "completed", "failed"}
              /\ jobs[k].attempts \in 0..MaxAttempts /\ jobs[k].by \in Accounts
         /\ \A z \in Zones : z.rev \in Nat
         /\ mishaps \in Nat /\ sweeps \in Nat
  BY DEF ZoneTypes, Contents, Zones, RowRows, WorkRows, EditRows, JobRows

\* The actor is at its next step.
GoesOn(a) ==
  /\ work'[a].job = work[a].job /\ work'[a].mode = work[a].mode /\ work'[a].dnssec = work[a].dnssec
  /\ work'[a].step = StepAfter(work[a])
  /\ \A b \in Actors : b # a => work'[b] = work[b]

\* An actor that goes on leaves the others where they are.
LEMMA Onwards ==
  ASSUME ZoneTypes, NEW a \in Actors, Onward(a) PROVE GoesOn(a)
  BY DEF ZoneTypes, Onward, GoesOn

----------------------------------------------------------------------------
(* The parts of the actions that several of them share.                    *)

\* An actor has made a call that had this effect on the plane and the registrar, or has failed.
Passed(a) == Onward(a) /\ mishaps' = mishaps /\ lock' = lock /\ jobs' = jobs
Stopped(a) == Fails(a) /\ mishaps' \in {mishaps, mishaps + 1}
Tries(a) == UNCHANGED <<row, records, edit, vm, sweeps>> /\ (Passed(a) \/ Stopped(a))

\* A table in which one row has been written.
LEMMA Put ==
  ASSUME NEW S, NEW T, NEW f \in [S -> T], NEW x \in S, NEW y \in T
  PROVE  /\ [f EXCEPT ![x] = y] \in [S -> T] /\ [f EXCEPT ![x] = y][x] = y
         /\ \A z \in S : z # x => [f EXCEPT ![x] = y][z] = f[z]
OBVIOUS

\* A failure that may be retried is a failure.
LEMMA RetryableFails == \A a : FailsWith(a, TRUE) => Fails(a)
  BY DEF Fails

\* What an actor that has failed leaves.
LEMMA FailsLeaves ==
  ASSUME Constants, ZoneTypes, NEW a \in Actors, work[a].job # None, Fails(a)
  PROVE  /\ work'[a] = Idle /\ \A b \in Actors : b # a => work'[b] = work[b]
         /\ work' \in [Actors -> WorkRows]
         /\ lock' = IF lock = a THEN None ELSE lock
         /\ jobs' \in [Jobs -> JobRows]
         /\ \A k \in Jobs : /\ jobs'[k].by = jobs[k].by
                            /\ k # work[a].job \/ (a # Worker /\ jobs[k].status # "none")
                                 => jobs'[k].status = jobs[k].status
<1> PICK retryable \in BOOLEAN : FailsWith(a, retryable)
  BY DEF Fails
<1>1. work[a].job \in Jobs
  BY Fields
<1>2. Idle \in WorkRows
  BY DEF Idle, WorkRows, NoZone, Zones, Steps
<1>3. work' \in [Actors -> WorkRows] /\ work'[a] = Idle /\ \A b \in Actors : b # a => work'[b] = work[b]
  BY <1>2 DEF ZoneTypes, FailsWith, WorkRows
<1>4. \E status \in {"none", "queued", "running", "saved", "completed", "failed"} :
        /\ jobs' = [jobs EXCEPT ![work[a].job].status = status]
        /\ a # Worker /\ jobs[work[a].job].status # "none" => status = jobs[work[a].job].status
  BY <1>1, Fields DEF FailsWith
<1>5. /\ jobs' \in [Jobs -> JobRows]
      /\ \A k \in Jobs : /\ jobs'[k].by = jobs[k].by
                         /\ k # work[a].job \/ (a # Worker /\ jobs[k].status # "none")
                                 => jobs'[k].status = jobs[k].status
  BY <1>1, <1>4 DEF ZoneTypes, JobRows
<1> QED
  BY <1>3, <1>5 DEF FailsWith, Unlocked

\* Work that has gone on has its type.
LEMMA OnwardType ==
  ASSUME ZoneTypes, NEW a \in Actors, Onward(a) PROVE work' \in [Actors -> WorkRows]
<1>1. StepAfter(work[a]) \in Steps
  BY DEF StepAfter, Steps, ZoneSteps
<1>2. NoZone \in Zones
  BY DEF NoZone, Zones
<1>3. ASSUME NEW b \in Actors PROVE work'[b] \in WorkRows
  BY <1>1, <1>2 DEF ZoneTypes, Onward, WorkRows
<1>4. work' = [b \in Actors |-> work'[b]]
  BY DEF ZoneTypes, Onward
<1> QED
  BY <1>3, <1>4

\* The calls that they make.
LEMMA SetKeysTries ==
  ASSUME NEW ds, SetKeys(ds)
  PROVE  /\ Tries(Worker) /\ work[Worker].step = KeyStep[ds] /\ plane' = plane
         /\ \/ Passed(Worker) /\ parent' = [parent EXCEPT !.ds = ds]
            \/ mishaps' = mishaps + 1 /\ Stopped(Worker)
                 /\ (parent' = parent \/ parent' = [parent EXCEPT !.ds = ds])
<1>1. \/ Passed(Worker) /\ parent' = [parent EXCEPT !.ds = ds]
      \/ mishaps' = mishaps + 1 /\ Fails(Worker)
           /\ (parent' = parent \/ parent' = [parent EXCEPT !.ds = ds])
  BY RetryableFails, Zenon DEF SetKeys, Call, GoesWrong, Passed
<1>2. /\ UNCHANGED <<row, records, edit, vm, sweeps>>
      /\ work[Worker].step = KeyStep[ds] /\ plane' = plane
  BY DEF SetKeys, Call
<1> QED
  BY <1>1, <1>2, Zenon DEF Tries, Stopped

LEMMA DelegateTries ==
  ASSUME NEW ns, Delegate(ns)
  PROVE  /\ Tries(Worker) /\ work[Worker].step = DelegationStep[ns] /\ plane' = plane
         /\ \/ Passed(Worker) /\ parent' = [parent EXCEPT !.ns = ns]
            \/ mishaps' = mishaps + 1 /\ Stopped(Worker)
                 /\ (parent' = parent \/ parent' = [parent EXCEPT !.ns = ns])
<1>1. \/ Passed(Worker) /\ parent' = [parent EXCEPT !.ns = ns]
      \/ mishaps' = mishaps + 1 /\ Fails(Worker)
           /\ (parent' = parent \/ parent' = [parent EXCEPT !.ns = ns])
  BY RetryableFails, Zenon DEF Delegate, Call, GoesWrong, Passed
<1>2. /\ UNCHANGED <<row, records, edit, vm, sweeps>>
      /\ work[Worker].step = DelegationStep[ns] /\ plane' = plane
  BY DEF Delegate, Call
<1> QED
  BY <1>1, <1>2, Zenon DEF Tries, Stopped

LEMMA DeleteZoneTries ==
  ASSUME DeleteZone
  PROVE  /\ Tries(Worker) /\ work[Worker].step = "delete" /\ parent' = parent
         /\ \/ Passed(Worker) /\ plane' = NoZone
            \/ mishaps' = mishaps + 1 /\ Stopped(Worker) /\ (plane' = plane \/ plane' = NoZone)
<1>1. \/ Passed(Worker) /\ plane' = NoZone
      \/ mishaps' = mishaps + 1 /\ Fails(Worker) /\ (plane' = plane \/ plane' = NoZone)
  BY RetryableFails, Zenon DEF DeleteZone, Call, GoesWrong, Passed
<1>2. UNCHANGED <<row, records, edit, vm, sweeps>> /\ work[Worker].step = "delete" /\ parent' = parent
  BY DEF DeleteZone, Call
<1> QED
  BY <1>1, <1>2, Zenon DEF Tries, Stopped

LEMMA UnlockTries ==
  ASSUME Unlock
  PROVE  /\ Tries(Worker) /\ work[Worker].step = "unlock" /\ plane' = plane /\ parent' = parent
         /\ Passed(Worker) \/ (mishaps' = mishaps + 1 /\ Stopped(Worker))
<1>1. Passed(Worker) \/ (mishaps' = mishaps + 1 /\ Fails(Worker))
  BY RetryableFails, Zenon DEF Unlock, Call, GoesWrong, Passed
<1>2. /\ UNCHANGED <<row, records, edit, vm, sweeps>> /\ work[Worker].step = "unlock"
      /\ plane' = plane /\ parent' = parent
  BY DEF Unlock, Call
<1> QED
  BY <1>1, <1>2, Zenon DEF Tries, Stopped

LEMMA ApplyZoneTries ==
  ASSUME ApplyZone
  PROVE  /\ Tries(Worker) /\ work[Worker].step = "apply" /\ parent' = parent
         /\ \/ Passed(Worker) /\ plane' = work[Worker].zone /\ Accepts(work[Worker].zone.rev)
            \/ Stopped(Worker) /\ mishaps' = mishaps /\ plane' = plane
            \/ Stopped(Worker) /\ mishaps' = mishaps + 1 /\ (plane' = plane \/ plane' = work[Worker].zone)
<1> DEFINE read == work[Worker].zone
<1>1. CASE Accepts(read.rev)
  <2>1. Call(Worker, plane' = read /\ UNCHANGED parent)
    BY <1>1 DEF ApplyZone
  <2>2. \/ Passed(Worker) /\ plane' = read
        \/ mishaps' = mishaps + 1 /\ Fails(Worker) /\ (plane' = plane \/ plane' = read)
    BY <2>1, RetryableFails, Zenon DEF Call, GoesWrong, Passed
  <2>3. UNCHANGED <<row, records, edit, vm, sweeps>> /\ work[Worker].step = "apply" /\ parent' = parent
    BY <2>1 DEF ApplyZone, Call
  <2> QED
    BY <1>1, <2>2, <2>3, Zenon DEF Tries, Stopped
<1>2. CASE ~Accepts(read.rev)
  <2>1. /\ Fails(Worker) /\ UNCHANGED <<row, records, edit, vm, sweeps>> /\ work[Worker].step = "apply"
        /\ parent' = parent /\ plane' = plane /\ mishaps' = mishaps
    BY <1>2 DEF ApplyZone
  <2> QED
    BY <2>1, Zenon DEF Tries, Stopped
<1> QED
  BY <1>1, <1>2

LEMMA PushVMTries ==
  ASSUME NEW a, PushVM(a)
  PROVE  /\ Tries(a) /\ work[a].step = "push" /\ parent' = parent
         /\ \/ Passed(a) /\ plane' = Published(row.rev + 1, Attached(a)) /\ Accepts(row.rev + 1)
            \/ Stopped(a) /\ mishaps' = mishaps /\ plane' = plane
            \/ Stopped(a) /\ mishaps' = mishaps + 1
                 /\ (plane' = plane \/ plane' = Published(row.rev + 1, Attached(a)))
<1> DEFINE next == Published(row.rev + 1, Attached(a))
<1>1. CASE Accepts(row.rev + 1)
  <2>1. Call(a, plane' = next /\ UNCHANGED parent)
    BY <1>1 DEF PushVM
  <2>2. \/ Passed(a) /\ plane' = next
        \/ mishaps' = mishaps + 1 /\ Fails(a) /\ (plane' = plane \/ plane' = next)
    BY <2>1, RetryableFails, Zenon DEF Call, GoesWrong, Passed
  <2>3. UNCHANGED <<row, records, edit, vm, sweeps>> /\ work[a].step = "push" /\ parent' = parent
    BY <2>1 DEF PushVM, Call
  <2> QED
    BY <1>1, <2>2, <2>3, Zenon DEF Tries, Stopped
<1>2. CASE ~Accepts(row.rev + 1)
  <2>1. /\ Fails(a) /\ UNCHANGED <<row, records, edit, vm, sweeps>> /\ work[a].step = "push"
        /\ parent' = parent /\ plane' = plane /\ mishaps' = mishaps
    BY <1>2 DEF PushVM
  <2> QED
    BY <2>1, Zenon DEF Tries, Stopped
<1> QED
  BY <1>1, <1>2

----------------------------------------------------------------------------
(* Types.                                                                  *)

\* Contents published are a zone.
LEMMA PublishedIsZone ==
  ASSUME NEW rev \in Nat, NEW contents \in Contents
  PROVE  Published(rev, contents) \in Zones /\ NoZone \in Zones
  BY DEF Published, Contents, Zones, NoZone

\* The zone with the VM's address, or without it.
LEMMA AttachedIsContents ==
  ASSUME ZoneTypes, NEW a PROVE Attached(a) \in Contents /\ Attached(a).apex = IF Attaching(a) THEN "vm" ELSE "none"
<1>1. Attached(a) = [apex |-> IF Attaching(a) THEN "vm" ELSE "none", rest |-> records.rest]
  BY DEF ZoneTypes, Attached, Contents
<1> QED
  BY <1>1, Fields DEF Contents

\* Trying keeps the types of everything but what is outside.
LEMMA TriesType ==
  ASSUME Constants, ZoneTypes, NEW a \in Actors, work[a].job # None, Tries(a),
         plane' \in Zones, parent' \in ParentRows
  PROVE  ZoneTypes'
<1>1. work' \in [Actors -> WorkRows] /\ jobs' \in [Jobs -> JobRows] /\ lock' \in Clients \cup Actors \cup {None}
      /\ mishaps' \in Nat
  <2>1. CASE Passed(a)
    BY <2>1, OnwardType DEF Passed, ZoneTypes
  <2>2. CASE Stopped(a)
    <3>1. mishaps' \in Nat
      BY <2>2 DEF Stopped, ZoneTypes
    <3>2. work' \in [Actors -> WorkRows] /\ jobs' \in [Jobs -> JobRows] /\ lock' \in {None, lock}
      BY <2>2, FailsLeaves DEF Stopped
    <3> QED
      BY <3>1, <3>2 DEF ZoneTypes
  <2> QED
    BY <2>1, <2>2 DEF Tries
<1>2. UNCHANGED <<row, records, edit, vm, sweeps>>
  BY DEF Tries
<1> QED
  BY <1>1, <1>2 DEF ZoneTypes

\* An actor whose job has a step left is at work.
LEMMA AtWork ==
  ASSUME Constants, InPlace, NEW a \in Actors
  PROVE  work[a].step \in Steps \ {"none"} => work[a].job # None
<1>1. None \notin VMJobs \cup {Reconcile} \cup AllOperations
  BY Names
<1>2. StepsOf(None) = {"none"}
  BY <1>1 DEF StepsOf, AllOperations
<1> QED
  BY <1>2 DEF InPlace, Placed

\* Whoever queues an operation is an account.
LEMMA QueuedBy ==
  ASSUME ZoneTypes, EnqueueNameserverUpdate \/ EnqueueDNSSECUpdate \/ EnqueueTransferOut
  PROVE  \E k : \E by \in Accounts : Enqueue(k, by)
<1>1. row.owner \in Accounts /\ Askers \subseteq Accounts
  BY Fields DEF Askers, Accounts
<1> QED
  BY <1>1 DEF EnqueueNameserverUpdate, EnqueueDNSSECUpdate, EnqueueTransferOut

\* What the changesets keep of the types.
LEMMA ChangesetType ==
  ASSUME Constants, ZoneTypes, NEW c \in Clients, Fetch(c) \/ Changeset(c) PROVE ZoneTypes'
<1> DEFINE e == edit[c]
<1>1. e \in EditRows /\ e.want \in Contents /\ row.rev \in Nat /\ row.owner \in Accounts
      /\ records.apex \in {"none", "customer", "vm"} /\ row.rev + 1 \in Nat
  BY Fields DEF ZoneTypes
<1>2. [NoEdit EXCEPT !.at = "done"] \in EditRows
  BY DEF NoEdit, EditRows, Contents, Accounts
<1>3. CASE Fetch(c)
  <2>1. PICK want \in Contents : edit' = [edit EXCEPT ![c] = [at |-> "begin", rev |-> row.rev, want |-> want,
                                                              by |-> row.owner]]
    BY <1>3 DEF Fetch
  <2>2. [at |-> "begin", rev |-> row.rev, want |-> want, by |-> row.owner] \in EditRows
    BY <1>1 DEF EditRows
  <2>3. edit' \in [Clients -> EditRows]
    BY <2>1, <2>2 DEF ZoneTypes
  <2> QED
    BY <1>3, <2>3 DEF Fetch, ZoneTypes
<1>4. CASE Begin(c)
  <2> DEFINE kept == [e EXCEPT !.at = "push", !.want.apex = IF row.ipv6 THEN records.apex ELSE @]
  <2>1. kept \in EditRows
    BY <1>1 DEF EditRows, Contents
  <2>2. \/ edit' = [edit EXCEPT ![c] = kept] /\ lock' = c
        \/ edit' = [edit EXCEPT ![c] = [NoEdit EXCEPT !.at = "done"]] /\ lock' = lock
    BY <1>4 DEF Begin
  <2>3. edit' \in [Clients -> EditRows] /\ lock' \in {c, lock}
    BY <1>2, <2>1, <2>2 DEF ZoneTypes
  <2> QED
    BY <1>4, <2>3 DEF Begin, ZoneTypes
<1>5. CASE Push(c)
  <2>1. [e EXCEPT !.at = "commit"] \in EditRows
    BY <1>1 DEF EditRows
  <2>2. edit' \in [Clients -> EditRows]
    BY <1>2, <1>5, <2>1 DEF Push, ZoneTypes
  <2>3. plane' \in {plane, Published(row.rev + 1, e.want)} /\ lock' \in {None, lock} /\ mishaps' \in {mishaps, mishaps + 1}
    BY <1>5 DEF Push, GoesWrong
  <2>4. plane' \in Zones
    BY <1>1, <2>3, PublishedIsZone DEF ZoneTypes
  <2> QED
    BY <1>5, <2>2, <2>3, <2>4 DEF Push, ZoneTypes
<1>6. CASE Commit(c)
  <2>1. edit' \in [Clients -> EditRows]
    BY <1>2, <1>6 DEF Commit, ZoneTypes
  <2>2. [row EXCEPT !.rev = @ + 1] \in RowRows
    BY DEF ZoneTypes, RowRows
  <2>3. row' \in RowRows /\ records' \in Contents /\ mishaps' \in Nat
    BY <1>1, <1>6, <2>2 DEF Commit, GoesWrong, ZoneTypes
  <2> QED
    BY <1>6, <2>1, <2>3 DEF Commit, ZoneTypes
<1> QED
  BY <1>3, <1>4, <1>5, <1>6 DEF Changeset

\* ... what is asked of the worker ...
LEMMA QueueType ==
  ASSUME Constants, ZoneTypes, NEW k \in Jobs, NEW by \in Accounts,
         Enqueue(k, by) \/ Sweep \/ RetryJob(k) \/ Claim(k)
  PROVE  ZoneTypes'
<1>1. jobs[k] \in JobRows /\ row.owner \in Accounts
  BY Fields DEF ZoneTypes
<1>2. /\ [jobs[k] EXCEPT !.status = "queued"] \in JobRows
      /\ [jobs[k] EXCEPT !.status = "failed"] \in JobRows
      /\ [jobs[k] EXCEPT !.status = "queued", !.by = by] \in JobRows
  BY <1>1 DEF JobRows
<1>3. [status |-> "queued", attempts |-> 0, by |-> row.owner] \in JobRows
  BY <1>1 DEF JobRows, Constants, AttemptsAreNumbers
<1>4. CASE Enqueue(k, by)
  <2>1. jobs' \in [Jobs -> JobRows]
    BY <1>2, <1>4 DEF Enqueue, ZoneTypes
  <2> QED
    BY <1>4, <2>1 DEF Enqueue, ZoneTypes
<1>5. CASE Sweep
  <2>1. jobs' \in [Jobs -> JobRows]
    BY <1>3, <1>5 DEF Sweep, ZoneTypes
  <2> QED
    BY <1>5, <2>1 DEF Sweep, ZoneTypes
<1>6. CASE RetryJob(k)
  <2>1. jobs' \in [Jobs -> JobRows]
    BY <1>2, <1>6 DEF RetryJob, ZoneTypes
  <2> QED
    BY <1>6, <2>1 DEF RetryJob, ZoneTypes
<1>7. CASE Claim(k)
  <2>1. Attempted(jobs[k]) \in JobRows
    <3> DEFINE n == IF jobs[k].attempts < MaxAttempts THEN jobs[k].attempts + 1 ELSE jobs[k].attempts
    <3>1. n \in 0..MaxAttempts
      BY <1>1 DEF JobRows, Constants, AttemptsAreNumbers
    <3>2. Attempted(jobs[k]) = [jobs[k] EXCEPT !.status = "running", !.attempts = n]
      BY DEF Attempted
    <3> HIDE DEF n
    <3> QED
      BY <1>1, <3>1, <3>2 DEF JobRows
  <2>2. FirstStep(k, row) \in Steps
    BY DEF FirstStep, Steps, ZoneSteps
  <2>3. Begun(k, row) \in WorkRows
    BY <2>2, Fields DEF Begun, Idle, WorkRows, NoZone, Zones
  <2>4. Worker \in Actors
    BY DEF Worker, Actors
  <2>5. jobs' \in [Jobs -> JobRows] /\ work' \in [Actors -> WorkRows]
    BY <1>2, <1>7, <2>1, <2>3, <2>4 DEF Claim, ZoneTypes
  <2> QED
    BY <1>7, <2>5 DEF Claim, ZoneTypes
<1> QED
  BY <1>4, <1>5, <1>6, <1>7

\* ... what happens to the VM, and to the owner ...
LEMMA VMType ==
  ASSUME Constants, ZoneTypes, ClaimAttachment \/ Provisioned \/ ProvisioningFailed \/ Destroy \/ TransferDomain
  PROVE  ZoneTypes'
<1>1. /\ [row EXCEPT !.vm = TRUE] \in RowRows /\ [row EXCEPT !.vm = FALSE] \in RowRows
      /\ [row EXCEPT !.owner = "heir"] \in RowRows
  BY DEF ZoneTypes, RowRows, Accounts
<1>2. \A state \in {"none", "claimed", "up", "gone"} : [vm EXCEPT !.state = state] \in VMRows
  BY DEF ZoneTypes, VMRows
<1>3. /\ [Idle EXCEPT !.job = "attach", !.step = "lock"] \in WorkRows
      /\ [Idle EXCEPT !.job = "detach", !.step = "lock"] \in WorkRows
  BY Names DEF Idle, WorkRows, NoZone, Zones, Steps
<1>4. "provision" \in Actors /\ "destroy" \in Actors
  BY DEF Actors
<1>5. CASE ClaimAttachment
  BY <1>1, <1>2, <1>5 DEF ClaimAttachment, ZoneTypes
<1>6. CASE Provisioned
  <2>1. work' \in [Actors -> WorkRows] /\ vm' \in VMRows
    BY <1>2, <1>3, <1>4, <1>6 DEF Provisioned, ZoneTypes
  <2> QED
    BY <1>6, <2>1 DEF Provisioned, ZoneTypes
<1>7. CASE ProvisioningFailed
  BY <1>1, <1>2, <1>7 DEF ProvisioningFailed, ZoneTypes
<1>8. CASE Destroy
  <2>1. work' \in [Actors -> WorkRows] /\ vm' \in VMRows
    BY <1>2, <1>3, <1>4, <1>8 DEF Destroy, ZoneTypes
  <2> QED
    BY <1>8, <2>1 DEF Destroy, ZoneTypes
<1>9. CASE TransferDomain
  <2>1. row' \in RowRows /\ mishaps' \in Nat
    BY <1>1, <1>9 DEF TransferDomain, GoesWrong, ZoneTypes
  <2> QED
    BY <1>9, <2>1 DEF TransferDomain, ZoneTypes
<1> QED
  BY <1>5, <1>6, <1>7, <1>8, <1>9

\* ... an actor that attaches or detaches a VM ...
LEMMA VMStepType ==
  ASSUME Constants, ZoneTypes, InPlace, NEW a \in Actors, VMStep(a) PROVE ZoneTypes'
<1>1. work[a] \in WorkRows /\ vm \in VMRows /\ row.rev + 1 \in Nat
  BY Fields DEF ZoneTypes
<1>2. Idle \in WorkRows
  BY DEF Idle, WorkRows, NoZone, Zones, Steps
<1>3. CASE LockRow(a)
  <2>1. work[a].job # None
    BY <1>3, AtWork, Fields DEF LockRow
  <2>2. CASE lock' = a /\ Onward(a) /\ UNCHANGED <<jobs, row>>
    <3>1. work' \in [Actors -> WorkRows]
      BY <2>2, OnwardType
    <3> QED
      BY <1>3, <2>2, <3>1 DEF LockRow, ZoneTypes
  <2>3. CASE Fails(a) /\ UNCHANGED row
    <3>1. work' \in [Actors -> WorkRows] /\ jobs' \in [Jobs -> JobRows] /\ lock' \in {lock, None}
      BY <2>1, <2>3, FailsLeaves
    <3> QED
      BY <1>3, <2>3, <3>1 DEF LockRow, ZoneTypes
  <2>4. CASE /\ row' = [row EXCEPT !.vm = FALSE, !.ipv6 = FALSE]
             /\ work' = [work EXCEPT ![a].step = "none"] /\ UNCHANGED <<jobs, lock>>
    <3>1. [row EXCEPT !.vm = FALSE, !.ipv6 = FALSE] \in RowRows
      BY DEF ZoneTypes, RowRows
    <3>2. [work[a] EXCEPT !.step = "none"] \in WorkRows
      BY <1>1 DEF WorkRows, Steps
    <3>3. row' \in RowRows /\ work' \in [Actors -> WorkRows]
      BY <2>4, <3>1, <3>2 DEF ZoneTypes
    <3> QED
      BY <1>3, <2>4, <3>3 DEF LockRow, ZoneTypes
  <2> QED
    BY <1>3, <2>2, <2>3, <2>4, RetryableFails DEF LockRow
<1>4. CASE PushVM(a)
  <2>1. work[a].job # None
    BY <1>4, AtWork, PushVMTries, Fields
  <2>2. Published(row.rev + 1, Attached(a)) \in Zones
    BY <1>1, PublishedIsZone, AttachedIsContents
  <2>3. plane' \in Zones /\ parent' \in ParentRows
    BY <1>4, <2>2, PushVMTries DEF ZoneTypes
  <2> QED
    BY <1>4, <2>1, <2>3, PushVMTries, TriesType
<1>5. CASE SaveVM(a)
  <2>1. Attached(a) \in Contents /\ Attaching(a) \in BOOLEAN
    BY AttachedIsContents DEF Attaching
  <2>2. [row EXCEPT !.rev = @ + 1, !.vm = Attaching(a), !.ipv6 = Attaching(a)] \in RowRows
    <3>1. \A taken \in BOOLEAN : [row EXCEPT !.rev = @ + 1, !.vm = taken, !.ipv6 = taken] \in RowRows
      BY <1>1 DEF ZoneTypes, RowRows
    <3> QED
      BY <2>1, <3>1
  <2>3. work' \in [Actors -> WorkRows]
    BY <1>5, OnwardType DEF SaveVM
  <2> QED
    BY <1>5, <2>1, <2>2, <2>3 DEF SaveVM, ZoneTypes
<1>6. CASE Complete(a)
  <2>1. work[a].job \in Jobs
    BY <1>6, Fields DEF Complete
  <2>2. [jobs[work[a].job] EXCEPT !.status = "completed"] \in JobRows
    BY <2>1 DEF ZoneTypes, JobRows
  <2>3. jobs' \in [Jobs -> JobRows]
    BY <1>6, <2>1, <2>2 DEF Complete, ZoneTypes
  <2>4. work' \in [Actors -> WorkRows]
    BY <1>2, <1>6 DEF Complete, ZoneTypes
  <2>5. vm' \in VMRows
    BY <1>6 DEF Complete, ZoneTypes, VMRows
  <2> QED
    BY <1>6, <2>3, <2>4, <2>5 DEF Complete, ZoneTypes
<1> QED
  BY <1>3, <1>4, <1>5, <1>6 DEF VMStep

\* ... and the worker in an operation on the zone.
LEMMA ZoneStepType ==
  ASSUME Constants, ZoneTypes, InPlace, ZoneStep \/ Killed PROVE ZoneTypes'
<1>1. Worker \in Actors /\ work[Worker] \in WorkRows /\ parent \in ParentRows /\ plane \in Zones
  BY DEF ZoneTypes, Worker, Actors
<1>2. work[Worker].step \in Steps \ {"none"} => work[Worker].job # None
  BY <1>1, AtWork
<1>3. ASSUME NEW ds \in {"none", "managed", "external"}, SetKeys(ds) PROVE ZoneTypes'
  <2>1. work[Worker].job # None
    <3>1. KeyStep[ds] \in Steps \ {"none"}
      BY <1>3 DEF KeyStep, Steps, ZoneSteps
    <3> QED
      BY <1>2, <1>3, <3>1, SetKeysTries
  <2>2. [parent EXCEPT !.ds = ds] \in ParentRows
    BY <1>1 DEF ParentRows
  <2>3. plane' \in Zones /\ parent' \in ParentRows
    BY <1>1, <1>3, <2>2, SetKeysTries
  <2> QED
    BY <1>1, <1>3, <2>1, <2>3, SetKeysTries, TriesType
<1>4. ASSUME NEW ns \in {"managed", "external"}, Delegate(ns) PROVE ZoneTypes'
  <2>1. work[Worker].job # None
    <3>1. DelegationStep[ns] \in Steps \ {"none"}
      BY <1>4 DEF DelegationStep, Steps, ZoneSteps
    <3> QED
      BY <1>2, <1>4, <3>1, DelegateTries
  <2>2. [parent EXCEPT !.ns = ns] \in ParentRows
    BY <1>1 DEF ParentRows
  <2>3. plane' \in Zones /\ parent' \in ParentRows
    BY <1>1, <1>4, <2>2, DelegateTries
  <2> QED
    BY <1>1, <1>4, <2>1, <2>3, DelegateTries, TriesType
<1>5. CASE DeleteZone
  <2>1. work[Worker].job # None
    BY <1>2, <1>5, DeleteZoneTries DEF Steps
  <2>2. plane' \in Zones /\ parent' \in ParentRows
    BY <1>1, <1>5, DeleteZoneTries DEF NoZone, Zones
  <2> QED
    BY <1>1, <1>5, <2>1, <2>2, DeleteZoneTries, TriesType
<1>6. CASE Unlock
  <2>1. work[Worker].job # None
    BY <1>2, <1>6, UnlockTries DEF Steps
  <2> QED
    BY <1>1, <1>6, <2>1, UnlockTries, TriesType
<1>7. CASE Load
  <2>1. StepAfter(work[Worker]) \in Steps
    BY DEF StepAfter, Steps, ZoneSteps
  <2>2. Published(row.rev, records) \in Zones
    BY PublishedIsZone, Fields DEF ZoneTypes
  <2> DEFINE w == [work[Worker] EXCEPT !.step = StepAfter(work[Worker]), !.zone = Published(row.rev, records)]
  <2>3. w \in WorkRows
    BY <1>1, <2>1, <2>2 DEF WorkRows
  <2>4. work' = [work EXCEPT ![Worker] = w]
    BY <1>1, <1>7 DEF Load, ZoneTypes
  <2>5. work' \in [Actors -> WorkRows]
    BY <1>1, <2>3, <2>4 DEF ZoneTypes
  <2> QED
    BY <1>7, <2>5 DEF Load, ZoneTypes
<1>8. CASE ApplyZone
  <2>1. work[Worker].job # None /\ work[Worker].zone \in Zones
    BY <1>1, <1>2, <1>8, ApplyZoneTries, Fields DEF Steps, ZoneSteps
  <2>2. plane' \in Zones /\ parent' \in ParentRows
    BY <1>1, <1>8, <2>1, ApplyZoneTries
  <2> QED
    BY <1>1, <1>8, <2>1, <2>2, ApplyZoneTries, TriesType
<1>9. CASE ZoneSaved
  <2>1. [row EXCEPT !.mode = "managed"] \in RowRows
    BY DEF ZoneTypes, RowRows
  <2>2. work' \in [Actors -> WorkRows]
    BY <1>1, <1>9, OnwardType DEF ZoneSaved
  <2> QED
    BY <1>9, <2>1, <2>2 DEF ZoneSaved, ZoneTypes
<1>10. CASE Saved
  <2>1. row' \in RowRows
    BY <1>10 DEF Saved, ZoneTypes, RowRows
  <2>2. work' \in [Actors -> WorkRows]
    BY <1>1, <1>10, OnwardType DEF Saved
  <2>3. jobs' \in [Jobs -> JobRows]
    BY <1>10 DEF Saved, ZoneTypes, JobRows
  <2> QED
    BY <1>10, <2>1, <2>2, <2>3 DEF Saved, ZoneTypes
<1>11. CASE Killed
  <2>1. Idle \in WorkRows
    BY DEF Idle, WorkRows, NoZone, Zones, Steps
  <2>2. work' \in [Actors -> WorkRows]
    BY <1>1, <1>11, <2>1 DEF Killed, ZoneTypes
  <2>3. lock' \in {None, lock} /\ mishaps' = mishaps + 1
    BY <1>11 DEF Killed, Unlocked, GoesWrong
  <2> QED
    BY <1>11, <2>2, <2>3 DEF Killed, ZoneTypes
<1> QED
  BY <1>3, <1>4, <1>5, <1>6, <1>7, <1>8, <1>9, <1>10, <1>11 DEF ZoneStep

\* The variables hold what they are meant to.
LEMMA TypeStep ==
  ASSUME Constants, ZoneTypes, InPlace, [ZoneNext]_zoneVars PROVE ZoneTypes'
<1>1. ASSUME EnqueueNameserverUpdate \/ EnqueueDNSSECUpdate \/ EnqueueTransferOut PROVE ZoneTypes'
  <2>1. \E k : \E by \in Accounts : k \in Jobs /\ Enqueue(k, by)
    BY <1>1, QueuedBy, Names DEF Enqueue
  <2> QED
    BY <2>1, QueueType
<1>2. CASE UNCHANGED zoneVars
  BY <1>2 DEF ZoneTypes
<1>3. "buyer" \in Accounts /\ Reconcile \in Jobs
  BY Names DEF Accounts
<1> QED
  BY <1>1, <1>2, <1>3, ChangesetType, QueueType, VMType, VMStepType, ZoneStepType, Names DEF ZoneNext
----------------------------------------------------------------------------
(* Who is at what.                                                         *)

\* The worker knows what it has read as long as neither it nor the row has changed.
LEMMA ReadStillAfter ==
  ASSUME ReadStill, Worker \in Actors, Placed(Worker), row'.mode = row.mode, row'.dnssec = row.dnssec,
         work'[Worker].job = work[Worker].job, work'[Worker].mode = work[Worker].mode,
         work'[Worker].dnssec = work[Worker].dnssec,
         \/ work'[Worker].step = work[Worker].step
         \/ work[Worker].step # "zone_saved" /\ work'[Worker].step = StepAfter(work[Worker]),
         work[Worker].job # None => jobs'[work[Worker].job].status = jobs[work[Worker].job].status
  PROVE  ReadStill'
<1> DEFINE w == work[Worker]
<1> DEFINE n == work'[Worker]
<1>1. n.step # "none" => w.step # "none"
  BY DEF StepAfter
<1>2. n.step = "ds_none" => w.step = "ds_none"
  BY DEF StepAfter
<1>3. n.step = "ds_managed" => KeysToo(n)
  BY DEF StepAfter, ReadStill, KeysToo
<1>4. ASSUME n.step = "saved", n.job = "managed" PROVE row.mode = "managed"
  <2>1. w.job = "managed" /\ w.step \in {"none", "ds_none", "saved"} \cup ZoneSteps
    <3>1. w.job = "managed" /\ w.step \in StepsOf("managed")
      BY <1>4 DEF Placed
    <3> HIDE DEF w
    <3> QED
      BY <3>1 DEF StepsOf, VMJobs
  <2>2. CASE n.step = w.step
    BY <1>4, <2>1, <2>2 DEF ReadStill
  <2>3. CASE w.step # "zone_saved" /\ n.step = StepAfter(w)
    BY <1>4, <2>1, <2>3 DEF StepAfter, ZoneSteps
  <2> QED
    BY <2>2, <2>3
<1> QED
  BY <1>1, <1>2, <1>3, <1>4 DEF ReadStill

\* An actor that stops gives up the lock.
LEMMA StoppedInPlace ==
  ASSUME Constants, ZoneTypes, InPlace, NEW a \in Actors, work[a].job # None, Fails(a), UNCHANGED <<row, edit, vm>>
  PROVE  InPlace'
<1>1. /\ work'[a] = Idle /\ \A b \in Actors : b # a => work'[b] = work[b]
      /\ lock' = IF lock = a THEN None ELSE lock
  BY FailsLeaves
<1>2. /\ None \notin Clients /\ None \notin Actors /\ \A c \in Clients : c \notin Actors
      /\ Worker \in Actors
  BY Names
<1>3. \A b \in Actors : Placed(b)'
  BY <1>1, <1>2 DEF InPlace, Placed, Idle, StepsOf
<1>4. \A c \in Clients : Locking(c)'
  BY <1>1, <1>2 DEF InPlace, Locking
<1>5. ReadStill'
  <2>1. CASE a = Worker
    BY <1>1, <2>1 DEF ReadStill, Idle
  <2>2. CASE a # Worker
    <3>1. work'[Worker] = work[Worker]
      BY <1>1, <1>2, <2>2
    <3>2. work[Worker].job # None => jobs'[work[Worker].job].status = jobs[work[Worker].job].status
      BY <1>2, <2>2, FailsLeaves, Fields DEF InPlace, ReadStill
    <3> QED
      BY <1>2, <3>1, <3>2, ReadStillAfter DEF InPlace
  <2> QED
    BY <2>1, <2>2
<1> QED
  BY <1>1, <1>3, <1>4, <1>5 DEF InPlace, Idle, Actors

\* An actor that goes on is at another of its steps.
LEMMA OnwardInPlace ==
  ASSUME Constants, ZoneTypes, InPlace, NEW a \in Actors, GoesOn(a), UNCHANGED <<row, edit, jobs, vm>>,
         lock' = IF work[a].step = "lock" THEN a ELSE lock,
         work[a].step = "lock" => lock = None /\ row.mode = "managed",
         work[a].step \notin {"vm_saved", "zone_saved"}
  PROVE  InPlace'
<1>1. /\ work'[a].job = work[a].job /\ work'[a].mode = work[a].mode /\ work'[a].dnssec = work[a].dnssec
      /\ work'[a].step = StepAfter(work[a]) /\ \A b \in Actors : b # a => work'[b] = work[b]
  BY DEF GoesOn
<1>2. /\ None \notin Clients /\ None \notin Actors /\ \A c \in Clients : c \notin Actors
      /\ Worker \in Actors
  BY Names
<1>3. Placed(a)'
  <2>1. StepAfter(work[a]) \in StepsOf(work[a].job)
    BY StepAfterIsOfJob DEF InPlace, Placed
  <2>2. StepAfter(work[a]) \in {"push", "vm_saved"} <=> work[a].step \in {"lock", "push"}
    BY DEF StepAfter
  <2> QED
    BY <1>1, <2>1, <2>2 DEF InPlace, Placed
<1>4. \A b \in Actors : Placed(b)'
  BY <1>1, <1>2, <1>3 DEF InPlace, Placed
<1>5. \A c \in Clients : Locking(c)'
  BY <1>2 DEF InPlace, Locking
<1>6. ReadStill'
  BY <1>1, <1>2, ReadStillAfter DEF InPlace
<1> QED
  BY <1>1, <1>4, <1>5, <1>6 DEF InPlace, Actors

\* Trying leaves everyone in place.
LEMMA TriesInPlace ==
  ASSUME Constants, ZoneTypes, InPlace, NEW a \in Actors, work[a].job # None, Tries(a),
         work[a].step \notin {"lock", "vm_saved", "zone_saved"}
  PROVE  InPlace'
<1>1. CASE Passed(a)
  BY <1>1, OnwardInPlace, Onwards DEF Tries, Passed
<1>2. CASE Stopped(a)
  BY <1>2, StoppedInPlace DEF Tries, Stopped
<1> QED
  BY <1>1, <1>2 DEF Tries

\* What a changeset begins with.
LEMMA BeginReads ==
  ASSUME ZoneTypes, NEW c \in Clients, Begin(c)
  PROVE  /\ \A d \in Clients : d # c => edit'[d] = edit[d]
         /\ \/ /\ row.owner = edit[c].by /\ row.mode = "managed" /\ lock' = c
               /\ edit'[c].at = "push" /\ edit'[c].by = edit[c].by
               /\ edit'[c].want.apex = IF row.ipv6 THEN records.apex ELSE edit[c].want.apex
            \/ lock' = lock /\ edit'[c].at = "done"
<1> DEFINE kept == [edit[c] EXCEPT !.at = "push", !.want.apex = IF row.ipv6 THEN records.apex ELSE @]
<1>1. \/ row.owner = edit[c].by /\ row.mode = "managed" /\ lock' = c /\ edit' = [edit EXCEPT ![c] = kept]
      \/ lock' = lock /\ edit' = [edit EXCEPT ![c] = [NoEdit EXCEPT !.at = "done"]]
  BY DEF Begin
<1>2. /\ kept.at = "push" /\ kept.by = edit[c].by
      /\ kept.want.apex = IF row.ipv6 THEN records.apex ELSE edit[c].want.apex
  BY DEF ZoneTypes, EditRows, Contents
<1> HIDE DEF kept
<1> QED
  BY <1>1, <1>2 DEF ZoneTypes, NoEdit

\* The steps of the changesets ...
LEMMA ChangesetInPlace ==
  ASSUME Constants, ZoneTypes, InPlace, NEW c \in Clients, Fetch(c) \/ Changeset(c) PROVE InPlace'
<1>1. /\ None \notin Clients /\ None \notin Actors /\ \A d \in Clients : d \notin Actors
      /\ Worker \in Actors
  BY Names
<1>2. UNCHANGED <<work, jobs, vm>> /\ row'.mode = row.mode /\ row'.dnssec = row.dnssec
  BY Fields DEF Fetch, Changeset, Begin, Push, Commit, ZoneTypes, RowRows
<1>3. ReadStill'
  BY <1>1, <1>2, ReadStillAfter DEF InPlace
<1>4. \A d \in Clients : d # c => edit'[d] = edit[d]
  BY DEF Fetch, Changeset, Begin, Push, Commit, ZoneTypes
<1>5. \/ lock' = lock /\ (edit[c].at \in {"push", "commit"} <=> edit'[c].at \in {"push", "commit"})
      \/ lock = None /\ lock' = c /\ row.mode = "managed" /\ edit'[c].at \in {"push", "commit"}
      \/ lock = c /\ lock' = None /\ edit'[c].at \notin {"push", "commit"}
  <2>1. CASE Fetch(c)
    BY <2>1 DEF Fetch, ZoneTypes
  <2>2. CASE Begin(c)
    <3>1. \/ row.mode = "managed" /\ lock' = c /\ edit'[c].at = "push"
          \/ lock' = lock /\ edit'[c].at = "done"
      BY <2>2, BeginReads
    <3> QED
      BY <2>2, <3>1 DEF Begin
  <2>3. CASE Push(c)
    <3>1. lock = c /\ edit[c].at = "push"
      BY <2>3 DEF Push, InPlace, Locking
    <3>2. \/ lock' = lock /\ edit' = [edit EXCEPT ![c].at = "commit"]
          \/ lock' = None /\ edit' = [edit EXCEPT ![c] = [NoEdit EXCEPT !.at = "done"]]
      BY <2>3, Zenon DEF Push
    <3>3. CASE lock' = lock /\ edit' = [edit EXCEPT ![c].at = "commit"]
      <4>1. edit'[c].at = "commit"
        BY <3>3 DEF ZoneTypes, EditRows
      <4> QED
        BY <3>1, <3>3, <4>1
    <3>4. CASE lock' = None /\ edit' = [edit EXCEPT ![c] = [NoEdit EXCEPT !.at = "done"]]
      <4>1. edit'[c].at = "done"
        BY <3>4 DEF ZoneTypes, NoEdit
      <4> QED
        BY <3>1, <3>4, <4>1
    <3> QED
      BY <3>2, <3>3, <3>4
  <2>4. CASE Commit(c)
    BY <2>4 DEF Commit, ZoneTypes, NoEdit, InPlace, Locking
  <2> QED
    BY <2>1, <2>2, <2>3, <2>4 DEF Changeset
<1>6. \A a \in Actors : Placed(a)'
  BY <1>1, <1>2, <1>5 DEF InPlace, Placed
<1>7. \A d \in Clients : Locking(d)'
  BY <1>1, <1>4, <1>5 DEF InPlace, Locking
<1> QED
  BY <1>2, <1>3, <1>5, <1>6, <1>7 DEF InPlace

\* ... of those that queue operations ...
LEMMA QueueInPlace ==
  ASSUME Constants, ZoneTypes, InPlace, NEW k \in Jobs, NEW by,
         Enqueue(k, by) \/ Sweep \/ RetryJob(k) \/ Claim(k)
  PROVE  InPlace'
<1>1. /\ None \notin Clients /\ None \notin Actors /\ None \notin Jobs /\ Worker \in Actors
      /\ Reconcile \in Jobs /\ work[Worker].job \in Jobs \cup {None}
  BY Names, Fields
<1>2. UNCHANGED <<row, edit, vm, lock>>
  BY DEF Enqueue, Sweep, RetryJob, Claim
<1>3. CASE Enqueue(k, by) \/ Sweep \/ RetryJob(k)
  <2>1. UNCHANGED work
    BY <1>3 DEF Enqueue, Sweep, RetryJob
  <2>2. work[Worker].job # None => jobs'[work[Worker].job].status = jobs[work[Worker].job].status
    BY <1>1, <1>3 DEF Enqueue, Sweep, RetryJob, InPlace, ReadStill, ZoneTypes
  <2>3. ReadStill'
    BY <1>1, <1>2, <2>1, <2>2, ReadStillAfter DEF InPlace
  <2> QED
    BY <1>2, <2>1, <2>3 DEF InPlace, Placed, Locking
<1>4. CASE Claim(k)
  <2>1. CASE work' = work
    BY <1>2, <1>4, <2>1 DEF Claim, InPlace, Placed, Locking, ReadStill
  <2>2. CASE /\ ~Forbids(k, row) /\ jobs' = [jobs EXCEPT ![k] = Attempted(@)]
             /\ work' = [work EXCEPT ![Worker] = Begun(k, row)]
    <3> DEFINE w == work'[Worker]
    <3>1. /\ w.job = k /\ w.mode = row.mode /\ w.dnssec = row.dnssec /\ w.step = FirstStep(k, row)
          /\ \A b \in Actors : b # Worker => work'[b] = work[b]
      BY <1>1, <2>2 DEF ZoneTypes, Begun, Idle
    <3>2. jobs'[k].status = "running"
      BY <2>2 DEF ZoneTypes, Attempted, JobRows
    <3>3. lock # Worker
      BY <1>1, <1>4, AtWork, Fields DEF Claim, InPlace, Placed, Steps
    <3>4. k \in {"external", "managed", "dnssec_managed", "dnssec_external", "dnssec_off", "transfer",
                 Reconcile, "attach", "detach"}
      BY Names DEF AllOperations, VMJobs
    <3>5. FirstStep(k, row) \in StepsOf(k) /\ FirstStep(k, row) \notin {"push", "vm_saved", "ds_managed"}
      BY <3>4 DEF FirstStep, StepsOf, VMJobs, ZoneSteps
    <3>6. \A a \in Actors : Placed(a)'
      BY <1>2, <3>1, <3>3, <3>5 DEF InPlace, Placed
    <3>7. ReadStill'
      BY <1>2, <2>2, <3>1, <3>2, <3>5 DEF ReadStill, FirstStep, Forbids
    <3> QED
      BY <1>2, <3>1, <3>6, <3>7 DEF InPlace, Locking, Worker, Actors
  <2> QED
    BY <1>4, <2>1, <2>2 DEF Claim
<1> QED
  BY <1>3, <1>4

\* ... of the VM, and of the owner ...
LEMMA VMInPlace ==
  ASSUME Constants, ZoneTypes, InPlace,
         ClaimAttachment \/ Provisioned \/ ProvisioningFailed \/ Destroy \/ TransferDomain
  PROVE  InPlace'
<1>1. /\ None \notin Clients /\ None \notin Actors /\ None \notin VMJobs /\ Worker \in Actors
      /\ Worker # "provision" /\ Worker # "destroy" /\ "provision" \in Actors /\ "destroy" \in Actors
  BY Names DEF Actors
<1>2. UNCHANGED <<edit, lock, jobs>> /\ row'.mode = row.mode /\ row'.dnssec = row.dnssec
  BY DEF ClaimAttachment, Provisioned, ProvisioningFailed, Destroy, TransferDomain, ZoneTypes, RowRows
<1>3. CASE ClaimAttachment \/ ProvisioningFailed \/ TransferDomain
  <2> UNCHANGED work
    BY <1>3 DEF ClaimAttachment, ProvisioningFailed, TransferDomain
  <2>1. ReadStill'
    BY <1>1, <1>2, ReadStillAfter DEF InPlace
  <2>2. vm' = vm \/ (vm.state \notin {"up", "gone"} /\ vm'.state = "claimed") \/ vm'.state = "gone"
    BY <1>3 DEF ClaimAttachment, ProvisioningFailed, TransferDomain, ZoneTypes, VMRows
  <2>3. vm'.state \in {"none", "claimed"} => vm.state \in {"none", "claimed"}
    BY <2>2 DEF ZoneTypes, VMRows
  <2>4. vm'.state # "gone" => vm.state # "gone"
    BY <2>2 DEF ZoneTypes, VMRows
  <2> QED
    BY <1>2, <2>1, <2>3, <2>4 DEF InPlace, Placed, Locking
<1>4. ASSUME NEW a \in {"provision", "destroy"}, NEW k \in VMJobs, work[a].job = None,
             work' = [work EXCEPT ![a] = [Idle EXCEPT !.job = k, !.step = "lock"]], UNCHANGED row,
             a = "provision" => vm'.state \in {"up", "gone"}, a = "destroy" => vm'.state = "gone",
             vm'.state \in {"none", "claimed"} => vm.state \in {"none", "claimed"},
             vm'.state # "gone" => vm.state # "gone"
      PROVE  InPlace'
  <2>1. /\ work'[a].job = k /\ work'[a].step = "lock" /\ a \in Actors /\ a # Worker
        /\ \A b \in Actors : b # a => work'[b] = work[b]
    BY <1>1, <1>4 DEF ZoneTypes, Idle
  <2>2. lock # a
    BY <1>1, <1>4, <2>1, AtWork, Fields DEF InPlace, Placed, Steps
  <2>3. "lock" \in StepsOf(k)
    BY DEF StepsOf, VMJobs
  <2>4. \A b \in Actors : Placed(b)'
    BY <1>2, <2>1, <2>2, <2>3 DEF InPlace, Placed
  <2>5. ReadStill'
    BY <1>1, <1>2, <2>1, ReadStillAfter DEF InPlace
  <2> QED
    BY <1>1, <1>2, <1>4, <2>1, <2>4, <2>5 DEF InPlace, Locking
<1>5. CASE Provisioned
  BY <1>4, <1>5 DEF Provisioned, InPlace, VMJobs, ZoneTypes, VMRows
<1>6. CASE Destroy
  BY <1>4, <1>6 DEF Destroy, InPlace, VMJobs, ZoneTypes, VMRows
<1> QED
  BY <1>3, <1>5, <1>6 DEF ClaimAttachment, ProvisioningFailed, TransferDomain

\* ... of an actor that attaches or detaches a VM ...
LEMMA VMStepInPlace ==
  ASSUME Constants, ZoneTypes, InPlace, NEW a \in Actors, VMStep(a) PROVE InPlace'
<1>1. /\ None \notin Clients /\ None \notin Actors /\ \A c \in Clients : c \notin Actors
      /\ Worker \in Actors /\ "provision" \in Actors /\ "destroy" \in Actors
  BY Names DEF Actors
<1>2. work[a].step # "none" => work[a].job # None
  BY AtWork, Fields DEF Steps
<1>3. CASE LockRow(a)
  <2>1. work[a].step = "lock" /\ lock = None /\ UNCHANGED <<edit, vm>>
    BY <1>3 DEF LockRow
  <2>2. CASE lock' = a /\ Onward(a) /\ UNCHANGED <<jobs, row>> /\ (MayAttach \/ MustRemove)
    <3>1. row.mode = "managed"
      BY <2>2 DEF MayAttach, MustRemove
    <3> QED
      BY <2>1, <2>2, <3>1, Onwards, OnwardInPlace
  <2>3. CASE Fails(a) /\ UNCHANGED row
    BY <1>2, <2>1, <2>3, StoppedInPlace
  <2>4. CASE /\ row' = [row EXCEPT !.vm = FALSE, !.ipv6 = FALSE]
             /\ work' = [work EXCEPT ![a].step = "none"] /\ UNCHANGED <<jobs, lock>>
    <3>1. /\ work'[a].job = work[a].job /\ work'[a].step = "none" /\ row'.mode = row.mode
          /\ row'.dnssec = row.dnssec /\ \A b \in Actors : b # a => work'[b] = work[b]
      BY <2>4 DEF ZoneTypes, WorkRows, RowRows
    <3>2. Placed(a)'
      BY <1>1, <2>1, <2>4, <3>1 DEF InPlace, Placed, StepsOf
    <3>3. \A b \in Actors : Placed(b)'
      BY <2>4, <3>1, <3>2 DEF InPlace, Placed
    <3>4. ReadStill'
      <4>1. CASE a = Worker
        BY <2>4, <3>1, <4>1 DEF InPlace, ReadStill
      <4>2. CASE a # Worker
        BY <1>1, <2>4, <3>1, <4>2, ReadStillAfter DEF InPlace
      <4> QED
        BY <4>1, <4>2
    <3>5. \A b \in Actors : work'[b].job = work[b].job
      BY <3>1
    <3> QED
      BY <1>1, <2>1, <2>4, <3>1, <3>3, <3>4, <3>5 DEF InPlace, Locking
  <2> QED
    BY <1>3, <2>2, <2>3, <2>4, RetryableFails DEF LockRow
<1>4. CASE PushVM(a)
  BY <1>2, <1>4, PushVMTries, TriesInPlace
<1>5. CASE SaveVM(a)
  <2>1. /\ work'[a].job = work[a].job /\ work'[a].step = "none" /\ work[a].step = "vm_saved"
        /\ \A b \in Actors : b # a => work'[b] = work[b]
    BY <1>5, Onwards DEF SaveVM, GoesOn, StepAfter
  <2>2. lock = a /\ lock' = None /\ UNCHANGED <<edit, jobs, vm>>
    BY <1>5 DEF SaveVM, InPlace, Placed
  <2>3. row'.mode = row.mode /\ row'.dnssec = row.dnssec
    BY <1>5 DEF SaveVM, ZoneTypes, RowRows
  <2>4. Placed(a)'
    BY <1>1, <2>1, <2>2 DEF InPlace, Placed, StepsOf
  <2>5. \A b \in Actors : Placed(b)'
    BY <1>1, <2>1, <2>2, <2>4 DEF InPlace, Placed
  <2>6. ReadStill'
    BY <1>1, <1>5, <2>1, <2>2, <2>3, Onwards, ReadStillAfter DEF SaveVM, GoesOn, InPlace
  <2>7. \A c \in Clients : Locking(c)'
    BY <1>1, <2>2 DEF InPlace, Locking
  <2>8. \A b \in Actors : work'[b].job = work[b].job
    BY <2>1
  <2> QED
    BY <1>1, <2>2, <2>5, <2>6, <2>7, <2>8 DEF InPlace
<1>6. CASE Complete(a)
  <2>1. /\ work'[a] = Idle /\ work[a].step = "none" /\ UNCHANGED <<row, edit, lock>>
        /\ \A b \in Actors : b # a => work'[b] = work[b]
    BY <1>6 DEF Complete, ZoneTypes
  <2>2. vm'.state = vm.state
    BY <1>6 DEF Complete, ZoneTypes, VMRows
  <2>3. \A b \in Actors : Placed(b)'
    BY <1>1, <2>1 DEF InPlace, Placed, Idle, StepsOf
  <2>4. ReadStill'
    <3>1. CASE a = Worker
      BY <2>1, <3>1 DEF ReadStill, Idle
    <3>2. CASE a # Worker
      BY <1>1, <1>6, <2>1, <3>2, ReadStillAfter DEF Complete, InPlace
    <3> QED
      BY <3>1, <3>2
  <2> QED
    BY <1>1, <2>1, <2>2, <2>3, <2>4 DEF InPlace, Locking, Idle
<1> QED
  BY <1>3, <1>4, <1>5, <1>6 DEF VMStep

\* ... and of the worker in an operation on the zone.
LEMMA ZoneStepInPlace ==
  ASSUME Constants, ZoneTypes, InPlace, ZoneStep \/ Killed PROVE InPlace'
<1>1. /\ None \notin Clients /\ None \notin Actors /\ \A c \in Clients : c \notin Actors
      /\ Worker \in Actors /\ Worker # "provision" /\ Worker # "destroy"
      /\ "provision" \in Actors /\ "destroy" \in Actors
  BY Names DEF Actors
<1>2. work[Worker].step # "none" => work[Worker].job # None
  BY <1>1, AtWork, Fields DEF Steps
<1>3. ASSUME NEW ds \in {"none", "managed", "external"}, SetKeys(ds) PROVE InPlace'
  <2>1. Tries(Worker) /\ work[Worker].step = KeyStep[ds]
    BY <1>3, SetKeysTries
  <2>2. KeyStep[ds] \notin {"none", "lock", "vm_saved", "zone_saved"}
    BY <1>3 DEF KeyStep
  <2> QED
    BY <1>1, <1>2, <2>1, <2>2, TriesInPlace
<1>4. ASSUME NEW ns \in {"managed", "external"}, Delegate(ns) PROVE InPlace'
  <2>1. Tries(Worker) /\ work[Worker].step = DelegationStep[ns]
    BY <1>4, DelegateTries
  <2>2. DelegationStep[ns] \notin {"none", "lock", "vm_saved", "zone_saved"}
    BY <1>4 DEF DelegationStep
  <2> QED
    BY <1>1, <1>2, <2>1, <2>2, TriesInPlace
<1>5. CASE DeleteZone \/ Unlock \/ ApplyZone
  <2>1. Tries(Worker) /\ work[Worker].step \in {"delete", "unlock", "apply"}
    BY <1>5, DeleteZoneTries, UnlockTries, ApplyZoneTries
  <2> QED
    BY <1>1, <1>2, <2>1, TriesInPlace
<1>6. CASE Load
  <2>1. GoesOn(Worker)
    BY <1>1, <1>6 DEF Load, GoesOn, ZoneTypes, WorkRows
  <2> QED
    BY <1>1, <1>6, <2>1, OnwardInPlace DEF Load
<1>7. CASE ZoneSaved \/ Saved
  <2> DEFINE w == work[Worker]
  <2>1. /\ work'[Worker].job = w.job /\ work'[Worker].mode = w.mode /\ work'[Worker].dnssec = w.dnssec
        /\ work'[Worker].step = StepAfter(w) /\ \A b \in Actors : b # Worker => work'[b] = work[b]
    BY <1>1, <1>7, Onwards DEF ZoneSaved, Saved, GoesOn
  <2>2. lock = None /\ UNCHANGED <<edit, vm, lock>>
    BY <1>7 DEF ZoneSaved, Saved
  <2>3. StepAfter(w) \in StepsOf(w.job)
    BY <1>1, StepAfterIsOfJob DEF InPlace, Placed
  <2>4. StepAfter(w) \in {"saved", "none"}
    BY <1>7 DEF ZoneSaved, Saved, StepAfter
  <2>5. \A b \in Actors : Placed(b)'
    BY <1>1, <2>1, <2>2, <2>3, <2>4 DEF InPlace, Placed
  <2>6. ReadStill'
    <3>1. CASE ZoneSaved
      <4>1. w.step = "zone_saved" /\ row'.mode = "managed" /\ row'.dnssec = row.dnssec
        BY <3>1 DEF ZoneSaved, ZoneTypes, RowRows
      <4>2. "zone_saved" \in StepsOf(w.job)
        BY <1>1, <4>1 DEF InPlace, Placed
      <4>3. w.job \notin {"external", "dnssec_external"}
        BY <4>2 DEF StepsOf
      <4>4. jobs' = jobs
        BY <3>1 DEF ZoneSaved
      <4> QED
        BY <2>1, <2>2, <2>4, <4>1, <4>3, <4>4 DEF InPlace, ReadStill
    <3>2. CASE Saved
      <4>1. StepAfter(w) = "none"
        BY <3>2 DEF Saved, StepAfter
      <4>2. w.job \in Jobs
        BY <1>1, <1>2, <3>2, Fields DEF Saved
      <4>3. jobs'[w.job].status = "saved"
        BY <3>2, <4>2 DEF Saved, ZoneTypes, JobRows
      <4>4. "saved" \in StepsOf(w.job)
        BY <1>1, <3>2 DEF Saved, InPlace, Placed
      <4>5. w.job # Reconcile
        BY <4>4 DEF StepsOf, ZoneSteps, Reconcile
      <4> QED
        BY <2>1, <2>2, <4>1, <4>3, <4>5 DEF ReadStill
    <3> QED
      BY <1>7, <3>1, <3>2
  <2>7. \A b \in Actors : work'[b].job = work[b].job
    BY <2>1
  <2> QED
    BY <1>1, <2>2, <2>5, <2>6, <2>7 DEF InPlace, Locking
<1>8. CASE Killed
  <2>1. /\ work'[Worker] = Idle /\ \A b \in Actors : b # Worker => work'[b] = work[b]
        /\ lock' = IF lock = Worker THEN None ELSE lock
        /\ UNCHANGED <<row, edit, vm>>
    BY <1>1, <1>8 DEF Killed, Unlocked, ZoneTypes
  <2>2. \A b \in Actors : Placed(b)'
    BY <1>1, <2>1 DEF InPlace, Placed, Idle, StepsOf
  <2>3. ReadStill'
    BY <2>1 DEF ReadStill, Idle
  <2>4. \A c \in Clients : Locking(c)'
    BY <1>1, <2>1 DEF InPlace, Locking
  <2> QED
    BY <1>1, <2>1, <2>2, <2>3, <2>4 DEF InPlace
<1> QED
  BY <1>3, <1>4, <1>5, <1>6, <1>7, <1>8 DEF ZoneStep

\* Everyone is where he should be.
LEMMA InPlaceStep ==
  ASSUME Constants, ZoneTypes, InPlace, [ZoneNext]_zoneVars PROVE InPlace'
<1>1. ASSUME EnqueueNameserverUpdate \/ EnqueueDNSSECUpdate \/ EnqueueTransferOut PROVE InPlace'
  <2>1. \E k : \E by \in Accounts : k \in Jobs /\ Enqueue(k, by)
    BY <1>1, QueuedBy, Names DEF Enqueue
  <2> QED
    BY <2>1, QueueInPlace
<1>2. CASE UNCHANGED zoneVars
  BY <1>2 DEF InPlace, Placed, Locking, ReadStill, KeysToo
<1>3. Reconcile \in Jobs
  BY Names
<1> QED
  BY <1>1, <1>2, <1>3, ChangesetInPlace, QueueInPlace, VMInPlace, VMStepInPlace, ZoneStepInPlace DEF ZoneNext

----------------------------------------------------------------------------
(* The apex of the zone.                                                   *)

\* What queues operations changes nothing else.
LEMMA QueueLeaves ==
  ASSUME \/ EnqueueNameserverUpdate \/ EnqueueDNSSECUpdate \/ EnqueueTransferOut \/ Sweep
         \/ \E k \in Jobs : RetryJob(k)
  PROVE  UNCHANGED <<row, records, plane, parent, lock, edit, work, vm, mishaps>>
  BY DEF EnqueueNameserverUpdate, EnqueueDNSSECUpdate, EnqueueTransferOut, Enqueue, Sweep, RetryJob

\* An operation on the zone leaves the records, the changesets and the attachment alone.
LEMMA ZoneStepLeaves ==
  ASSUME ZoneTypes, ZoneStep \/ Killed
  PROVE  /\ UNCHANGED <<records, edit, vm>> /\ row'.vm = row.vm /\ row'.ipv6 = row.ipv6
         /\ row'.rev = row.rev /\ row'.owner = row.owner
<1>1. ASSUME NEW ds, SetKeys(ds) PROVE UNCHANGED <<row, records, edit, vm>>
  BY <1>1, SetKeysTries DEF Tries
<1>2. ASSUME NEW ns, Delegate(ns) PROVE UNCHANGED <<row, records, edit, vm>>
  BY <1>2, DelegateTries DEF Tries
<1>3. CASE DeleteZone \/ Unlock \/ ApplyZone
  BY <1>3, DeleteZoneTries, UnlockTries, ApplyZoneTries DEF Tries
<1>4. CASE Load \/ Killed
  BY <1>4 DEF Load, Killed
<1>5. CASE ZoneSaved
  BY <1>5 DEF ZoneSaved, ZoneTypes, RowRows
<1>6. CASE Saved
  BY <1>6 DEF Saved, ZoneTypes, RowRows
<1> QED
  BY <1>1, <1>2, <1>3, <1>4, <1>5, <1>6 DEF ZoneStep

\* The apex AAAA is the VM's while it holds its prefix, and no changeset overwrites it.
LEMMA ApexStep ==
  ASSUME Constants, ZoneTypes, InPlace, ApexFollowsVM, EditKeepsApex, [ZoneNext]_zoneVars
  PROVE  ApexFollowsVM' /\ EditKeepsApex'
<1>0. /\ None \notin Clients /\ None \notin Actors /\ \A c \in Clients : c \notin Actors
  BY Names
<1>1. ASSUME UNCHANGED <<records, edit>>, row'.ipv6 = row.ipv6, row'.ipv6 => row'.vm = row.vm
      PROVE  ApexFollowsVM' /\ EditKeepsApex'
  BY <1>1 DEF ApexFollowsVM, EditKeepsApex
<1>2. ASSUME NEW c \in Clients, Fetch(c) PROVE ApexFollowsVM' /\ EditKeepsApex'
  BY <1>2 DEF Fetch, ApexFollowsVM, EditKeepsApex, ZoneTypes
<1>3. ASSUME NEW c \in Clients, Begin(c) PROVE ApexFollowsVM' /\ EditKeepsApex'
  <2>1. UNCHANGED <<row, records>>
    BY <1>3 DEF Begin
  <2> QED
    BY <1>3, <2>1, BeginReads DEF ApexFollowsVM, EditKeepsApex
<1>4. ASSUME NEW c \in Clients, Push(c) PROVE ApexFollowsVM' /\ EditKeepsApex'
  <2>1. UNCHANGED <<row, records>> /\ edit[c].at = "push"
    BY <1>4 DEF Push
  <2>2. \/ edit' = [edit EXCEPT ![c].at = "commit"]
        \/ edit' = [edit EXCEPT ![c] = [NoEdit EXCEPT !.at = "done"]]
    BY <1>4, Zenon DEF Push
  <2>3. edit'[c].at = "done" \/ edit'[c].want = edit[c].want
    BY <2>2 DEF ZoneTypes, EditRows, NoEdit
  <2>4. \A d \in Clients : d # c => edit'[d] = edit[d]
    BY <2>2 DEF ZoneTypes
  <2> QED
    BY <2>1, <2>3, <2>4 DEF ApexFollowsVM, EditKeepsApex
<1>5. ASSUME NEW c \in Clients, Commit(c) PROVE ApexFollowsVM' /\ EditKeepsApex'
  <2>1. /\ edit'[c].at = "done" /\ edit[c].at = "commit" /\ \A d \in Clients : d # c => edit'[d] = edit[d]
        /\ row'.ipv6 = row.ipv6 /\ row'.vm = row.vm
    BY <1>5 DEF Commit, ZoneTypes, NoEdit, RowRows
  <2>2. records' = edit[c].want \/ records' = records
    BY <1>5 DEF Commit
  <2> QED
    BY <2>1, <2>2 DEF ApexFollowsVM, EditKeepsApex
<1>6. ASSUME NEW a \in Actors, LockRow(a) PROVE ApexFollowsVM' /\ EditKeepsApex'
  <2>1. UNCHANGED <<records, edit>>
    BY <1>6 DEF LockRow
  <2>2. row' = row \/ row' = [row EXCEPT !.vm = FALSE, !.ipv6 = FALSE]
    BY <1>6 DEF LockRow
  <2> QED
    BY <2>1, <2>2 DEF ApexFollowsVM, EditKeepsApex, ZoneTypes, RowRows
<1>7. ASSUME NEW a \in Actors, PushVM(a) PROVE ApexFollowsVM' /\ EditKeepsApex'
  BY <1>1, <1>7, PushVMTries DEF Tries
<1>8. ASSUME NEW a \in Actors, SaveVM(a) PROVE ApexFollowsVM' /\ EditKeepsApex'
  <2>1. records'.apex = IF Attaching(a) THEN "vm" ELSE "none"
    BY <1>8, AttachedIsContents DEF SaveVM
  <2>2. row'.ipv6 = Attaching(a) /\ row'.vm = Attaching(a)
    BY <1>8 DEF SaveVM, ZoneTypes, RowRows
  <2>3. lock = a /\ UNCHANGED edit
    BY <1>8 DEF SaveVM, InPlace, Placed
  <2>4. \A c \in Clients : edit'[c].at \notin {"push", "commit"}
    BY <1>0, <2>3 DEF InPlace, Locking
  <2> QED
    BY <2>1, <2>2, <2>4 DEF ApexFollowsVM, EditKeepsApex
<1>9. ASSUME NEW a \in Actors, Complete(a) PROVE ApexFollowsVM' /\ EditKeepsApex'
  BY <1>1, <1>9 DEF Complete
<1>10. ASSUME NEW k \in Jobs, Claim(k) PROVE ApexFollowsVM' /\ EditKeepsApex'
  BY <1>1, <1>10 DEF Claim
<1>11. CASE ClaimAttachment \/ TransferDomain
  BY <1>11 DEF ClaimAttachment, TransferDomain, ApexFollowsVM, EditKeepsApex, ZoneTypes, RowRows
<1>12. CASE ProvisioningFailed
  BY <1>12 DEF ProvisioningFailed, ApexFollowsVM, EditKeepsApex, ZoneTypes, RowRows
<1>13. CASE Provisioned \/ Destroy
  BY <1>1, <1>13 DEF Provisioned, Destroy
<1>14. CASE ZoneStep \/ Killed
  BY <1>1, <1>14, ZoneStepLeaves
<1>15. CASE \/ EnqueueNameserverUpdate \/ EnqueueDNSSECUpdate \/ EnqueueTransferOut \/ Sweep
            \/ \E k \in Jobs : RetryJob(k)
  BY <1>1, <1>15, QueueLeaves
<1>16. CASE UNCHANGED zoneVars
  BY <1>1, <1>16
<1> QED
  BY <1>2, <1>3, <1>4, <1>5, <1>6, <1>7, <1>8, <1>9, <1>10, <1>11, <1>12, <1>13, <1>14, <1>15, <1>16
     DEF ZoneNext, Changeset, VMStep

----------------------------------------------------------------------------
(* Done for the owner.                                                     *)

\* A job that an actor has been given up or finished is still for the account that asked.
LEMMA OwnerStep ==
  ASSUME Constants, ZoneTypes, InPlace, DoneForOwner, [ZoneNext]_zoneVars
  PROVE  DoneForOwner'
<1>0. /\ None \notin Clients /\ None \notin Actors /\ \A c \in Clients : c \notin Actors
      /\ Worker \in Actors /\ None \notin Operations /\ Operations \subseteq Jobs
      /\ Worker # "provision" /\ Worker # "destroy" /\ Reconcile \in Jobs
  BY Names
<1> DEFINE k == work[Worker].job
<1> DEFINE n == work'[Worker].job
<1> DEFINE step == work[Worker].step
<1>1. ASSUME row'.owner = row.owner,
             n \in Operations /\ work'[Worker].step # "none" =>
               n = k /\ step # "none" /\ jobs'[k].by = jobs[k].by,
             lock' \in Clients => lock' = lock /\ edit'[lock].by = edit[lock].by
      PROVE  DoneForOwner'
  BY <1>1 DEF DoneForOwner
<1>2. ASSUME NEW c \in Clients, Fetch(c) PROVE DoneForOwner'
  <2>1. UNCHANGED <<row, jobs, work, lock>> /\ lock # c /\ \A d \in Clients : d # c => edit'[d] = edit[d]
    BY <1>2 DEF Fetch, ZoneTypes, InPlace, Locking
  <2> QED
    BY <1>1, <2>1
<1>3. ASSUME NEW c \in Clients, Begin(c) PROVE DoneForOwner'
  <2>1. UNCHANGED <<row, jobs, work>> /\ lock = None
    BY <1>3 DEF Begin
  <2> QED
    BY <1>0, <1>3, <2>1, BeginReads DEF DoneForOwner
<1>4. ASSUME NEW c \in Clients, Push(c) \/ Commit(c) PROVE DoneForOwner'
  <2>1. UNCHANGED <<jobs, work>> /\ row'.owner = row.owner
    BY <1>4 DEF Push, Commit, ZoneTypes, RowRows
  <2>2. lock' = None \/ (lock' = lock /\ edit' = [edit EXCEPT ![c].at = "commit"])
    BY <1>4, Zenon DEF Push, Commit
  <2>3. lock' \in Clients => lock' = lock /\ edit'[lock].by = edit[lock].by
    BY <1>0, <2>2 DEF ZoneTypes, EditRows
  <2> QED
    BY <1>1, <2>1, <2>3
<1>5. ASSUME NEW a \in Actors, Tries(a), work[a].job # None PROVE DoneForOwner'
  <2>1. UNCHANGED <<row, edit>>
    BY <1>5 DEF Tries
  <2>2. CASE Passed(a)
    <3>1. GoesOn(a) /\ UNCHANGED <<lock, jobs>>
      BY <2>2, Onwards DEF Passed
    <3> QED
      BY <1>0, <1>1, <2>1, <3>1 DEF GoesOn, StepAfter
  <2>3. CASE Stopped(a)
    <3>1. /\ work'[a] = Idle /\ \A b \in Actors : b # a => work'[b] = work[b]
          /\ lock' \in {lock, None} /\ \A j \in Jobs : jobs'[j].by = jobs[j].by
      BY <1>5, <2>3, FailsLeaves DEF Stopped
    <3> QED
      BY <1>0, <1>1, <2>1, <3>1 DEF Idle
  <2> QED
    BY <1>5, <2>2, <2>3 DEF Tries
<1>6. ASSUME NEW a \in Actors, LockRow(a) PROVE DoneForOwner'
  <2>1. UNCHANGED edit /\ row'.owner = row.owner
    BY <1>6 DEF LockRow, ZoneTypes, RowRows
  <2>2. work[a].job # None
    BY <1>6, AtWork, Fields DEF LockRow
  <2>3. \/ lock' = a /\ Onward(a) /\ UNCHANGED jobs
        \/ Fails(a)
        \/ work' = [work EXCEPT ![a].step = "none"] /\ UNCHANGED <<jobs, lock>>
    BY <1>6, RetryableFails, Zenon DEF LockRow
  <2>4. CASE lock' = a /\ Onward(a) /\ UNCHANGED jobs
    BY <1>0, <1>1, <2>1, <2>4, Onwards DEF GoesOn, StepAfter
  <2>5. CASE Fails(a)
    <3>1. /\ work'[a] = Idle /\ \A b \in Actors : b # a => work'[b] = work[b]
          /\ lock' \in {lock, None} /\ \A j \in Jobs : jobs'[j].by = jobs[j].by
      BY <2>2, <2>5, FailsLeaves
    <3> QED
      BY <1>0, <1>1, <2>1, <3>1 DEF Idle
  <2>6. CASE work' = [work EXCEPT ![a].step = "none"] /\ UNCHANGED <<jobs, lock>>
    <3>1. work'[Worker].job = k /\ work'[Worker].step \in {"none", step}
      BY <1>0, <2>6 DEF ZoneTypes, WorkRows
    <3> QED
      BY <1>1, <2>1, <2>6, <3>1
  <2> QED
    BY <2>3, <2>4, <2>5, <2>6
<1>7. ASSUME NEW a \in Actors, PushVM(a) PROVE DoneForOwner'
  BY <1>5, <1>7, PushVMTries, AtWork, Fields
<1>8. ASSUME NEW a \in Actors, SaveVM(a) PROVE DoneForOwner'
  <2>1. /\ lock' = None /\ UNCHANGED jobs /\ row'.owner = row.owner /\ n = k
        /\ work'[Worker].step # "none" => step # "none"
    BY <1>0, <1>8, Onwards DEF SaveVM, GoesOn, StepAfter, ZoneTypes, RowRows
  <2> QED
    BY <1>0, <1>1, <2>1
<1>9. ASSUME NEW a \in Actors, Complete(a) PROVE DoneForOwner'
  <2>1. UNCHANGED <<row, lock, edit>> /\ work'[a] = Idle /\ \A b \in Actors : b # a => work'[b] = work[b]
    BY <1>9 DEF Complete, ZoneTypes
  <2>2. a # Worker => UNCHANGED jobs
    BY <1>9 DEF Complete
  <2> QED
    BY <1>0, <1>1, <2>1, <2>2 DEF Idle
<1>10. ASSUME NEW j \in Jobs, Claim(j) PROVE DoneForOwner'
  <2>1. UNCHANGED <<row, lock, edit>>
    BY <1>10 DEF Claim
  <2>2. CASE work' = work
    <3>1. k = None
      BY <1>10 DEF Claim
    <3> QED
      BY <1>0, <1>1, <2>1, <2>2, <3>1
  <2>3. CASE /\ ~OwnerChanged(j) /\ jobs' = [jobs EXCEPT ![j] = Attempted(@)]
             /\ work' = [work EXCEPT ![Worker] = Begun(j, row)]
    <3>1. n = j /\ jobs'[j].by = jobs[j].by
      BY <1>0, <2>3 DEF ZoneTypes, Begun, Idle, Attempted, JobRows
    <3>2. j \in Operations => jobs[j].by = row.owner
      BY <2>3 DEF OwnerChanged
    <3> QED
      BY <2>1, <3>1, <3>2 DEF DoneForOwner
  <2> QED
    BY <1>10, <2>2, <2>3 DEF Claim
<1>11. CASE ClaimAttachment \/ ProvisioningFailed
  <2>1. UNCHANGED <<lock, edit, jobs, work>> /\ row'.owner = row.owner
    BY <1>11 DEF ClaimAttachment, ProvisioningFailed, ZoneTypes, RowRows
  <2> QED
    BY <1>1, <2>1
<1>12. CASE Provisioned \/ Destroy
  <2>1. UNCHANGED <<lock, edit, jobs, row>> /\ n = k /\ work'[Worker].step = step
    BY <1>0, <1>12 DEF Provisioned, Destroy, ZoneTypes
  <2> QED
    BY <1>1, <2>1
<1>13. CASE TransferDomain
  <2>1. UNCHANGED <<lock, jobs, work>> /\ lock = None
    BY <1>13 DEF TransferDomain
  <2>2. k \in Operations /\ step # "none" => jobs[k].status = "running"
    BY <1>0 DEF InPlace, ReadStill
  <2>3. k \notin Operations \/ step = "none"
    BY <1>0, <1>13, <2>2 DEF TransferDomain, Pending
  <2> QED
    BY <1>0, <2>1, <2>3 DEF DoneForOwner
<1>14. CASE ZoneStep \/ Killed
  <2>1. CASE Load \/ ZoneSaved \/ Saved
    <3>1. /\ UNCHANGED <<lock, edit>>
          /\ n = k /\ (work'[Worker].step # "none" => step # "none" /\ jobs' = jobs)
      <4>1. CASE Saved
        BY <1>0, <4>1, Onwards DEF Saved, GoesOn, StepAfter
      <4>2. CASE Load \/ ZoneSaved
        BY <1>0, <4>2, Onwards DEF Load, ZoneSaved, GoesOn, StepAfter, ZoneTypes, WorkRows
      <4> QED
        BY <2>1, <4>1, <4>2
    <3> QED
      BY <1>1, <1>14, <3>1, ZoneStepLeaves
  <2>2. CASE Killed
    <3>1. UNCHANGED edit /\ n = None /\ lock' \in {lock, None} /\ row' = row
      BY <1>0, <2>2 DEF Killed, Unlocked, Idle, ZoneTypes
    <3> QED
      BY <1>0, <1>1, <3>1
  <2>3. ASSUME NEW ds \in {"none", "managed", "external"}, SetKeys(ds) PROVE DoneForOwner'
    <3>1. Tries(Worker) /\ work[Worker].step = KeyStep[ds] /\ KeyStep[ds] # "none"
      BY <2>3, SetKeysTries DEF KeyStep
    <3> QED
      BY <1>0, <1>5, <3>1, AtWork, Fields
  <2>4. ASSUME NEW ns \in {"managed", "external"}, Delegate(ns) PROVE DoneForOwner'
    <3>1. Tries(Worker) /\ work[Worker].step = DelegationStep[ns] /\ DelegationStep[ns] # "none"
      BY <2>4, DelegateTries DEF DelegationStep
    <3> QED
      BY <1>0, <1>5, <3>1, AtWork, Fields
  <2>5. CASE DeleteZone \/ Unlock \/ ApplyZone
    <3>1. Tries(Worker) /\ work[Worker].step # "none"
      BY <2>5, DeleteZoneTries, UnlockTries, ApplyZoneTries
    <3> QED
      BY <1>0, <1>5, <3>1, AtWork, Fields
  <2> QED
    BY <1>14, <2>1, <2>2, <2>3, <2>4, <2>5 DEF ZoneStep
<1>15. CASE \/ EnqueueNameserverUpdate \/ EnqueueDNSSECUpdate \/ EnqueueTransferOut \/ Sweep
            \/ \E j \in Jobs : RetryJob(j)
  <2>1. UNCHANGED <<row, lock, edit, work>>
    BY <1>15, QueueLeaves
  <2>2. ASSUME NEW j, NEW by, Enqueue(j, by) \/ Sweep \/ (j \in Jobs /\ RetryJob(j)), k \in Operations,
               step # "none"
        PROVE jobs'[k].by = jobs[k].by
    <3>1. jobs[k].status = "running" /\ k \in Jobs
      BY <1>0, <2>2 DEF InPlace, ReadStill
    <3> QED
      BY <1>0, <2>2, <3>1 DEF Enqueue, Sweep, RetryJob, ZoneTypes, JobRows
  <2>3. k \in Operations /\ step # "none" => jobs'[k].by = jobs[k].by
    <3>1. CASE EnqueueNameserverUpdate \/ EnqueueDNSSECUpdate \/ EnqueueTransferOut
      BY <2>2, <3>1, QueuedBy
    <3>2. CASE Sweep \/ \E j \in Jobs : RetryJob(j)
      BY <2>2, <3>2
    <3> QED
      BY <1>15, <3>1, <3>2
  <2> QED
    BY <1>1, <2>1, <2>3
<1>16. CASE UNCHANGED zoneVars
  BY <1>1, <1>16
<1> QED
  BY <1>2, <1>3, <1>4, <1>6, <1>7, <1>8, <1>9, <1>10, <1>11, <1>12, <1>13, <1>14, <1>15, <1>16
     DEF ZoneNext, Changeset, VMStep

----------------------------------------------------------------------------
(* The delegation.                                                         *)

\* Not between two calls to the registrar.
Settled == ~ToExternal /\ ~ToManaged /\ ~KeysChanging

\* Whoever does nothing to the delegation leaves it in step.
LEMMA DelegationKept ==
  ASSUME NoForeignKeys, DelegationInStep, None \notin AllOperations,
         mishaps' = 0 => /\ mishaps = 0 /\ UNCHANGED parent
                         /\ row'.mode = row.mode /\ row'.dnssec = row.dnssec
                         /\ \/ work'[Worker].job = work[Worker].job /\ work'[Worker].step = work[Worker].step
                            \/ Settled /\ work'[Worker].job \in VMJobs \cup {None}
  PROVE  NoForeignKeys' /\ DelegationInStep'
<1>1. NoForeignKeys'
  BY DEF NoForeignKeys
<1>2. ASSUME mishaps' = 0, work'[Worker].job = work[Worker].job, work'[Worker].step = work[Worker].step
      PROVE  DelegationInStep'
  BY <1>2 DEF DelegationInStep, ToExternal, ToManaged, KeysChanging, Doing, Delegated
<1>3. ASSUME mishaps' = 0, Settled, work'[Worker].job \in VMJobs \cup {None}
      PROVE  DelegationInStep'
  <2>1. Delegated
    BY <1>3 DEF Settled, DelegationInStep
  <2>2. Delegated'
    BY <1>3, <2>1 DEF Delegated
  <2>3. work'[Worker].job \notin AllOperations
    BY <1>3 DEF VMJobs, AllOperations
  <2> QED
    BY <2>2, <2>3 DEF DelegationInStep, ToExternal, ToManaged, KeysChanging, Doing, AllOperations
<1> QED
  BY <1>1, <1>2, <1>3 DEF DelegationInStep

\* An actor at these steps is not between two calls to the registrar.
LEMMA SettledAt ==
  ASSUME work[Worker].step \in {"none", "lock", "push", "vm_saved", "load", "apply", "ds_none", "ds_external",
                               "ns_external", "ns_managed", "unlock"}
  PROVE  Settled
  BY DEF Settled, ToExternal, ToManaged, KeysChanging, Doing

\* The steps of an attachment are of no operation.
LEMMA AttachmentSteps ==
  ASSUME NEW k, "lock" \in StepsOf(k) \/ "push" \in StepsOf(k) \/ "vm_saved" \in StepsOf(k)
  PROVE  k \in VMJobs
  BY DEF StepsOf, ZoneSteps

\* The attachments leave the delegation alone ...
LEMMA VMStepDelegation ==
  ASSUME Constants, ZoneTypes, InPlace, NoForeignKeys, DelegationInStep, NEW a \in Actors, VMStep(a)
  PROVE  NoForeignKeys' /\ DelegationInStep'
<1>0. Worker \in Actors /\ None \notin AllOperations
  BY Names
<1>1. ASSUME UNCHANGED parent, mishaps' \in {mishaps, mishaps + 1}, row'.mode = row.mode, row'.dnssec = row.dnssec,
             work[a].step \in {"lock", "push", "vm_saved", "none"},
             work'[a].job = None \/ (work'[a].job = work[a].job /\ work[a].step # "none"),
             \A b \in Actors : b # a => work'[b] = work[b]
      PROVE  NoForeignKeys' /\ DelegationInStep'
  <2>1. mishaps' = 0 => mishaps = 0
    BY <1>1, Fields
  <2>2. CASE a = Worker
    <3>1. Settled
      BY <1>1, <2>2, SettledAt
    <3>2. work'[Worker].job \in VMJobs \cup {None}
      BY <1>1, <2>2, AttachmentSteps DEF InPlace, Placed
    <3> QED
      BY <1>0, <1>1, <2>1, <3>1, <3>2, DelegationKept
  <2>3. CASE a # Worker
    BY <1>0, <1>1, <2>1, <2>3, DelegationKept
  <2> QED
    BY <2>2, <2>3
<1>2. CASE LockRow(a)
  <2>1. /\ UNCHANGED <<parent, mishaps>> /\ row'.mode = row.mode /\ row'.dnssec = row.dnssec
        /\ work[a].step = "lock"
    BY <1>2 DEF LockRow, ZoneTypes, RowRows
  <2>2. work[a].job # None
    BY <2>1, AtWork, Fields
  <2>3. Onward(a) \/ Fails(a) \/ work' = [work EXCEPT ![a].step = "none"]
    BY <1>2, RetryableFails, Zenon DEF LockRow
  <2>4. /\ work'[a].job = None \/ work'[a].job = work[a].job
        /\ \A b \in Actors : b # a => work'[b] = work[b]
    <3>1. CASE Onward(a)
      BY <3>1, Onwards DEF GoesOn
    <3>2. CASE Fails(a)
      BY <2>2, <3>2, FailsLeaves DEF Idle
    <3>3. CASE work' = [work EXCEPT ![a].step = "none"]
      BY <3>3 DEF ZoneTypes, WorkRows
    <3> QED
      BY <2>3, <3>1, <3>2, <3>3
  <2> QED
    BY <1>1, <2>1, <2>4
<1>3. CASE PushVM(a)
  <2>1. /\ Tries(a) /\ UNCHANGED parent /\ work[a].step = "push" /\ UNCHANGED row
        /\ mishaps' \in {mishaps, mishaps + 1}
    BY <1>3, PushVMTries DEF Tries, Passed, Stopped
  <2>2. work[a].job # None
    BY <2>1, AtWork, Fields
  <2>3. /\ work'[a].job = None \/ work'[a].job = work[a].job
        /\ \A b \in Actors : b # a => work'[b] = work[b]
    <3>1. CASE Passed(a)
      BY <3>1, Onwards DEF Passed, GoesOn
    <3>2. CASE Stopped(a)
      BY <2>2, <3>2, FailsLeaves DEF Stopped, Idle
    <3> QED
      BY <2>1, <3>1, <3>2 DEF Tries
  <2> QED
    BY <1>1, <2>1, <2>3
<1>4. CASE SaveVM(a)
  <2>1. /\ UNCHANGED <<parent, mishaps>> /\ row'.mode = row.mode /\ row'.dnssec = row.dnssec
        /\ work[a].step = "vm_saved"
    BY <1>4 DEF SaveVM, ZoneTypes, RowRows
  <2> QED
    BY <1>1, <1>4, <2>1, Onwards DEF SaveVM, GoesOn
<1>5. CASE Complete(a)
  <2>1. /\ UNCHANGED <<row, parent, mishaps>> /\ work[a].step = "none" /\ work'[a].job = None
        /\ \A b \in Actors : b # a => work'[b] = work[b]
    BY <1>5 DEF Complete, ZoneTypes, Idle
  <2> QED
    BY <1>1, <2>1
<1> QED
  BY <1>2, <1>3, <1>4, <1>5 DEF VMStep

\* A step that is not to the registrar.
LEMMA StepOn ==
  ASSUME NoForeignKeys, DelegationInStep, mishaps = 0, mishaps' = 0, UNCHANGED <<row, parent>>,
         work'[Worker].job = work[Worker].job, work'[Worker].step = StepAfter(work[Worker]),
         work[Worker].step \in {"delete", "unlock", "load", "apply"},
         work[Worker].step \in StepsOf(work[Worker].job)
  PROVE  NoForeignKeys' /\ DelegationInStep'
<1> DEFINE w == work[Worker]
<1> DEFINE n == work'[Worker]
<1>1. NoForeignKeys' /\ (Delegated' <=> Delegated)
  BY DEF NoForeignKeys, Delegated
<1>2. CASE w.step = "delete"
  <2>1. w.job = "external" /\ n.step = "saved"
    BY <1>2 DEF StepsOf, ZoneSteps, StepAfter
  <2> QED
    BY <1>1, <1>2, <2>1 DEF DelegationInStep, ToExternal, ToManaged, KeysChanging, Doing
<1>3. CASE w.step = "unlock"
  <2>1. w.job = "transfer" /\ n.step = "saved"
    BY <1>3 DEF StepsOf, ZoneSteps, StepAfter
  <2> QED
    BY <1>1, <1>3, <2>1 DEF DelegationInStep, ToExternal, ToManaged, KeysChanging, Doing
<1>4. CASE w.step \in {"load", "apply"}
  <2>1. w.job \in {"managed", "dnssec_managed", Reconcile} /\ n.step \in {"apply", "ns_managed"}
    BY <1>4 DEF StepsOf, StepAfter
  <2> QED
    BY <1>1, <1>4, <2>1 DEF DelegationInStep, ToExternal, ToManaged, KeysChanging, Doing
<1> QED
  BY <1>2, <1>3, <1>4

\* ... and an operation changes it step by step.
LEMMA ZoneStepDelegation ==
  ASSUME Constants, ZoneTypes, InPlace, NoForeignKeys, DelegationInStep, mishaps' = 0, ZoneStep \/ Killed
  PROVE  NoForeignKeys' /\ DelegationInStep'
<1> DEFINE w == work[Worker]
<1> DEFINE n == work'[Worker]
<1>0. /\ Worker \in Actors /\ None \notin AllOperations
      /\ w.step \in StepsOf(w.job) /\ ReadStill /\ mishaps \in Nat
  BY Names, Fields DEF InPlace, Placed
<1>1. w.step # "none" => w.job # None
  BY <1>0, AtWork, Fields DEF Steps
<1>2. /\ parent.ds \in {"none", "managed", "external"} /\ parent.ns \in {"managed", "external"}
      /\ row.mode \in {"managed", "external"} /\ row.dnssec \in {"managed", "external", "off"}
  BY Fields DEF ZoneTypes, ParentRows
<1>3. ASSUME mishaps' = mishaps + 1 PROVE FALSE
  BY <1>0, <1>3
<1>4. ASSUME NEW ds \in {"none", "managed", "external"}, SetKeys(ds) PROVE NoForeignKeys' /\ DelegationInStep'
  <2>1. Passed(Worker) /\ parent' = [parent EXCEPT !.ds = ds] /\ w.step = KeyStep[ds] /\ UNCHANGED row
    BY <1>3, <1>4, SetKeysTries DEF Tries
  <2>2. mishaps = 0 /\ n.job = w.job /\ n.step = StepAfter(w) /\ n.dnssec = w.dnssec
    BY <1>0, <2>1, Onwards DEF Passed, GoesOn
  <2>3. parent'.ds = ds /\ parent'.ns = parent.ns
    BY <2>1 DEF ZoneTypes, ParentRows
  <2>4. CASE ds = "none"
    <3>1. w.step = "ds_none"
      BY <2>1, <2>4 DEF KeyStep
    <3>2. w.job \in {"external", "managed", "dnssec_off"}
      BY <1>0, <3>1 DEF StepsOf, ZoneSteps
    <3>3. Delegated
      BY <2>2, <3>1, SettledAt DEF DelegationInStep, Settled
    <3>4. Delegated' /\ ~ToExternal' /\ ~ToManaged' /\ ~KeysChanging'
      BY <2>1, <2>2, <2>3, <2>4, <3>1, <3>2, <3>3
         DEF Delegated, ToExternal, ToManaged, KeysChanging, Doing, StepAfter
    <3> QED
      BY <2>3, <2>4, <3>4 DEF NoForeignKeys, DelegationInStep
  <2>5. CASE ds = "managed"
    <3>1. w.step = "ds_managed" /\ n.step = "zone_saved"
      BY <2>1, <2>2, <2>5 DEF KeyStep, StepAfter
    <3>2. w.job \in {"managed", "dnssec_managed", Reconcile}
      BY <1>0, <3>1 DEF StepsOf
    <3>3. w.dnssec = row.dnssec /\ (w.job = "dnssec_managed" \/ row.dnssec = "managed")
          /\ (w.job # "managed" => row.mode = "managed")
      BY <1>0, <3>1, <3>2 DEF ReadStill, KeysToo
    <3>4. w.job # "managed" => Delegated
      BY <2>2, <3>1 DEF DelegationInStep, ToExternal, ToManaged, KeysChanging, Doing
    <3>5. w.job = "managed" => parent.ns = "managed"
      BY <2>2, <3>1 DEF DelegationInStep, ToManaged, Doing
    <3>6. NoForeignKeys' /\ parent.ns = "managed"
      BY <2>3, <2>5, <3>2, <3>3, <3>4, <3>5 DEF NoForeignKeys, Delegated
    <3>7. w.job = "dnssec_managed" => row.dnssec \in {row.mode, "off"}
      BY <3>2, <3>4 DEF Delegated
    <3>8. ~ToExternal' /\ ~Doing("external", {"ns_external"})' /\ ~Doing("dnssec_off", {"saved"})'
      BY <2>2, <3>1 DEF ToExternal, Doing
    <3>9. CASE w.job = "managed"
      BY <2>1, <2>2, <2>3, <2>5, <3>1, <3>3, <3>6, <3>8, <3>9 DEF DelegationInStep, ToManaged, KeysChanging, Doing
    <3>10. CASE w.job = "dnssec_managed"
      BY <2>1, <2>2, <2>3, <2>5, <3>1, <3>3, <3>6, <3>7, <3>8, <3>10 DEF DelegationInStep, ToManaged, KeysChanging, Doing
    <3>11. CASE w.job = Reconcile
      BY <2>1, <2>2, <2>3, <2>5, <3>1, <3>3, <3>4, <3>6, <3>8, <3>11
         DEF DelegationInStep, ToManaged, KeysChanging, Doing, Delegated
    <3> QED
      BY <3>2, <3>6, <3>9, <3>10, <3>11
  <2>6. CASE ds = "external"
    <3>1. w.step = "ds_external" /\ n.step = "saved"
      BY <2>1, <2>2, <2>6 DEF KeyStep, StepAfter
    <3>2. w.job = "dnssec_external"
      BY <1>0, <3>1 DEF StepsOf, ZoneSteps
    <3>3. row.mode = "external" /\ Delegated
      BY <1>0, <2>2, <3>1, <3>2, SettledAt DEF DelegationInStep, Settled, ReadStill
    <3> QED
      BY <2>1, <2>2, <2>3, <2>6, <3>1, <3>2, <3>3
         DEF NoForeignKeys, DelegationInStep, ToExternal, ToManaged, KeysChanging, Doing, Delegated
  <2> QED
    BY <2>4, <2>5, <2>6
<1>5. ASSUME NEW ns \in {"managed", "external"}, Delegate(ns) PROVE NoForeignKeys' /\ DelegationInStep'
  <2>1. Passed(Worker) /\ parent' = [parent EXCEPT !.ns = ns] /\ w.step = DelegationStep[ns] /\ UNCHANGED row
    BY <1>3, <1>5, DelegateTries DEF Tries
  <2>2. mishaps = 0 /\ n.job = w.job /\ n.step = StepAfter(w) /\ n.dnssec = w.dnssec
    BY <1>0, <2>1, Onwards DEF Passed, GoesOn
  <2>3. parent'.ns = ns /\ parent'.ds = parent.ds
    BY <2>1 DEF ZoneTypes, ParentRows
  <2>4. CASE ns = "external"
    <3>1. w.step = "ns_external" /\ n.step \in {"delete", "saved"}
      BY <2>1, <2>2, <2>4 DEF DelegationStep, StepAfter
    <3>2. w.job = "external"
      BY <1>0, <3>1 DEF StepsOf, ZoneSteps
    <3>3. Delegated /\ parent.ds # "managed"
      BY <2>2, <3>1, <3>2, SettledAt DEF DelegationInStep, Settled, Doing
    <3> QED
      BY <1>2, <2>1, <2>2, <2>3, <2>4, <3>1, <3>2, <3>3
         DEF NoForeignKeys, DelegationInStep, ToExternal, ToManaged, KeysChanging, Doing, Delegated
  <2>5. CASE ns = "managed"
    <3>1. w.step = "ns_managed" /\ n.step \in {"ds_managed", "zone_saved"}
      BY <2>1, <2>2, <2>5 DEF DelegationStep, StepAfter
    <3>2. w.job \in {"managed", "dnssec_managed", Reconcile}
      BY <1>0, <3>1 DEF StepsOf
    <3>3. Delegated
      BY <2>2, <3>1, SettledAt DEF DelegationInStep, Settled
    <3>4. CASE w.job = "managed"
      <4>1. parent.ds # "external"
        BY <2>2, <3>1, <3>4 DEF DelegationInStep, Doing
      <4> QED
        BY <1>2, <2>1, <2>2, <2>3, <2>5, <3>1, <3>3, <3>4, <4>1
           DEF NoForeignKeys, DelegationInStep, ToExternal, ToManaged, KeysChanging, Doing, Delegated
    <3>5. CASE w.job \in {"dnssec_managed", Reconcile}
      <4>1. row.mode = "managed" /\ (w.job = "dnssec_managed" => n.step = "ds_managed")
        BY <1>0, <2>2, <3>1, <3>5 DEF ReadStill, StepAfter, KeysToo
      <4>2. parent'.ns = parent.ns /\ parent'.ds = parent.ds
        BY <2>3, <2>5, <3>3, <4>1 DEF Delegated
      <4>3. Delegated' /\ ~ToExternal' /\ ~ToManaged' /\ ~KeysChanging'
        BY <2>1, <2>2, <3>1, <3>3, <3>5, <4>1, <4>2 DEF Delegated, ToExternal, ToManaged, KeysChanging, Doing
      <4>4. ~Doing("external", {"ns_external"})' /\ ~Doing("managed", {"load", "apply", "ns_managed"})'
            /\ ~Doing("dnssec_off", {"saved"})'
        BY <2>2, <3>1 DEF Doing
      <4>5. NoForeignKeys'
        BY <2>2, <4>2 DEF NoForeignKeys
      <4> QED
        BY <4>3, <4>4, <4>5 DEF DelegationInStep
    <3> QED
      BY <3>2, <3>4, <3>5
  <2> QED
    BY <2>4, <2>5
<1>6. ASSUME Passed(Worker), UNCHANGED <<row, parent>>, w.step \in {"delete", "unlock", "load", "apply"}
      PROVE  NoForeignKeys' /\ DelegationInStep'
  <2>1. mishaps = 0 /\ n.job = w.job /\ n.step = StepAfter(w)
    BY <1>0, <1>6, Onwards DEF Passed, GoesOn
  <2> QED
    BY <1>0, <1>6, <2>1, StepOn
<1>7. CASE DeleteZone
  <2>1. Passed(Worker) /\ UNCHANGED <<row, parent>> /\ w.step = "delete"
    BY <1>3, <1>7, DeleteZoneTries DEF Tries
  <2> QED
    BY <1>6, <2>1
<1>8. CASE Unlock
  <2>1. Passed(Worker) /\ UNCHANGED <<row, parent>> /\ w.step = "unlock"
    BY <1>3, <1>8, UnlockTries DEF Tries
  <2> QED
    BY <1>6, <2>1
<1>9. CASE Load
  <2>1. /\ mishaps = 0 /\ n.job = w.job /\ n.step = StepAfter(w) /\ UNCHANGED <<row, parent>>
        /\ w.step = "load"
    BY <1>0, <1>9 DEF Load, ZoneTypes, WorkRows
  <2> QED
    BY <1>0, <2>1, StepOn
<1>10. CASE ApplyZone
  <2>1. UNCHANGED <<row, parent>> /\ w.step = "apply"
    BY <1>10, ApplyZoneTries DEF Tries
  <2>2. Passed(Worker) \/ (Stopped(Worker) /\ mishaps' = mishaps)
    BY <1>3, <1>10, ApplyZoneTries
  <2>3. CASE Stopped(Worker) /\ mishaps' = mishaps
    <3>1. n.job = None
      BY <1>0, <1>1, <2>1, <2>3, FailsLeaves DEF Stopped, Idle
    <3> QED
      BY <1>0, <2>1, <2>3, <3>1, SettledAt, DelegationKept
  <2> QED
    BY <1>6, <2>1, <2>2, <2>3
<1>11. CASE ZoneSaved
  <2>1. /\ mishaps = 0 /\ n.job = w.job /\ n.step = StepAfter(w) /\ w.step = "zone_saved"
        /\ parent' = parent
    BY <1>0, <1>11, Onwards DEF ZoneSaved, GoesOn
  <2>2. row'.mode = "managed" /\ row'.dnssec = row.dnssec
    BY <1>11 DEF ZoneSaved, ZoneTypes, RowRows
  <2>3. w.job \in {"managed", "dnssec_managed", Reconcile}
    BY <1>0, <2>1 DEF StepsOf
  <2>4. w.job # "managed" => row.mode = "managed"
    BY <1>0, <2>1, <2>3 DEF ReadStill
  <2>5. NoForeignKeys'
    BY <2>1 DEF NoForeignKeys
  <2> QED
    BY <1>2, <2>1, <2>2, <2>3, <2>4, <2>5
       DEF DelegationInStep, ToExternal, ToManaged, KeysChanging, Doing, Delegated, StepAfter
<1>12. CASE Saved
  <2>1. /\ mishaps = 0 /\ n.job = w.job /\ n.step = "none" /\ w.step = "saved" /\ parent' = parent
    BY <1>0, <1>12, Onwards DEF Saved, GoesOn, StepAfter
  <2>2. NoForeignKeys' /\ parent.ds \in {"none", parent.ns}
    BY <2>1 DEF NoForeignKeys
  <2>3. Delegated'
    <3>1. CASE w.job = "external"
      <4>1. row'.mode = "external" /\ row'.dnssec = IF w.dnssec = "managed" THEN "off" ELSE row.dnssec
        BY <1>12, <3>1 DEF Saved, ZoneTypes, RowRows
      <4>2. w.dnssec = row.dnssec
        BY <1>0, <2>1 DEF ReadStill
      <4> QED
        BY <1>2, <2>1, <2>2, <3>1, <4>1, <4>2 DEF DelegationInStep, ToExternal, Doing, Delegated
    <3>2. CASE w.job = "managed"
      <4>1. row'.mode = "managed" /\ row'.dnssec = IF w.dnssec = "external" THEN "off" ELSE row.dnssec
        BY <1>12, <3>2 DEF Saved, ZoneTypes, RowRows
      <4>2. w.dnssec = row.dnssec
        BY <1>0, <2>1 DEF ReadStill
      <4> QED
        BY <1>2, <2>1, <2>2, <3>2, <4>1, <4>2 DEF DelegationInStep, ToManaged, Doing, Delegated
    <3>3. CASE w.job \in {"dnssec_managed", "dnssec_external"}
      <4>1. row'.mode = row.mode /\ row'.dnssec = row.mode
        <5>1. row.mode = IF w.job = "dnssec_managed" THEN "managed" ELSE "external"
          BY <1>0, <2>1, <3>3 DEF ReadStill
        <5> QED
          BY <1>12, <3>3, <5>1 DEF Saved, ZoneTypes, RowRows
      <4>2. parent.ns = row.mode
        BY <2>1, <3>3 DEF DelegationInStep, KeysChanging, Doing
      <4> QED
        BY <2>1, <2>2, <4>1, <4>2 DEF Delegated
    <3>4. CASE w.job \notin {"external", "managed", "dnssec_managed", "dnssec_external"}
      <4>1. Delegated
        BY <2>1, <3>4 DEF DelegationInStep, ToExternal, ToManaged, KeysChanging, Doing
      <4>2. CASE w.job = "transfer"
        <5>1. row'.mode = row.mode /\ row'.dnssec = row.dnssec
          BY <1>12, <4>2 DEF Saved, ZoneTypes, RowRows
        <5> QED
          BY <2>1, <4>1, <5>1 DEF Delegated
      <4>3. CASE w.job # "transfer"
        <5>1. w.job = "dnssec_off"
          BY <1>0, <2>1, <3>4, <4>3 DEF StepsOf, ZoneSteps
        <5>2. parent.ds = "none"
          BY <2>1, <5>1 DEF DelegationInStep, Doing
        <5>3. row'.mode = row.mode /\ row'.dnssec = "off"
          BY <1>12, <5>1 DEF Saved, ZoneTypes, RowRows
        <5> QED
          BY <2>1, <4>1, <5>2, <5>3 DEF Delegated
      <4> QED
        BY <4>2, <4>3
    <3> QED
      BY <3>1, <3>2, <3>3, <3>4
  <2> QED
    BY <2>1, <2>2, <2>3 DEF DelegationInStep, ToExternal, ToManaged, KeysChanging, Doing
<1>13. CASE Killed
  BY <1>3, <1>13 DEF Killed, GoesWrong
<1> QED
  BY <1>4, <1>5, <1>7, <1>8, <1>9, <1>10, <1>11, <1>12, <1>13 DEF ZoneStep

\* The parent zone has the nameservers and the keys the row names, or a step will set them.
LEMMA DelegationStepKept ==
  ASSUME Constants, ZoneTypes, InPlace, NoForeignKeys, DelegationInStep, [ZoneNext]_zoneVars
  PROVE  NoForeignKeys' /\ DelegationInStep'
<1>0. Worker \in Actors /\ None \notin AllOperations /\ Worker # "provision" /\ Worker # "destroy"
      /\ mishaps \in Nat
  BY Names, Fields
<1>1. ASSUME UNCHANGED <<parent, work>>, row'.mode = row.mode, row'.dnssec = row.dnssec,
             mishaps' \in {mishaps, mishaps + 1}
      PROVE  NoForeignKeys' /\ DelegationInStep'
  BY <1>0, <1>1, DelegationKept
<1>2. ASSUME NEW c \in Clients, Fetch(c) \/ Changeset(c) PROVE NoForeignKeys' /\ DelegationInStep'
  <2>1. CASE Fetch(c) \/ Begin(c)
    BY <1>1, <2>1 DEF Fetch, Begin
  <2>2. CASE Push(c)
    <3>1. UNCHANGED <<row, parent, work>> /\ mishaps' \in {mishaps, mishaps + 1}
      BY <2>2 DEF Push, GoesWrong
    <3> QED
      BY <1>1, <3>1
  <2>3. CASE Commit(c)
    <3>1. /\ UNCHANGED <<parent, work>> /\ mishaps' \in {mishaps, mishaps + 1}
          /\ row'.mode = row.mode /\ row'.dnssec = row.dnssec
      BY <2>3 DEF Commit, GoesWrong, ZoneTypes, RowRows
    <3> QED
      BY <1>1, <3>1
  <2> QED
    BY <1>2, <2>1, <2>2, <2>3 DEF Changeset
<1>3. ASSUME NEW k \in Jobs, Claim(k) PROVE NoForeignKeys' /\ DelegationInStep'
  <2>1. UNCHANGED <<row, parent, mishaps>>
    BY <1>3 DEF Claim
  <2>2. CASE work' = work
    BY <1>1, <2>1, <2>2
  <2>3. CASE ~Forbids(k, row) /\ work' = [work EXCEPT ![Worker] = Begun(k, row)]
    <3>1. work'[Worker].job = k /\ work'[Worker].step = FirstStep(k, row)
      BY <1>0, <2>3 DEF ZoneTypes, Begun, Idle
    <3>2. FirstStep(k, row) \notin {"delete", "saved", "ds_managed", "zone_saved", "apply", "ns_managed"}
      BY DEF FirstStep
    <3>3. k = "external" /\ FirstStep(k, row) = "ns_external" => row.dnssec # "managed"
      BY DEF FirstStep
    <3>4. k = "managed" /\ FirstStep(k, row) = "load" => row.dnssec # "external"
      BY DEF FirstStep
    <3>5. ASSUME mishaps = 0 PROVE Delegated
      <4>1. work[Worker].job = None
        BY <1>3 DEF Claim
      <4> QED
        BY <1>0, <3>5, <4>1 DEF DelegationInStep, ToExternal, ToManaged, KeysChanging, Doing, AllOperations
    <3>6. ~ToExternal' /\ ~ToManaged' /\ ~KeysChanging' /\ ~Doing("dnssec_off", {"saved"})'
      BY <3>1, <3>2 DEF ToExternal, ToManaged, KeysChanging, Doing
    <3>7. Delegated => Delegated' /\ NoForeignKeys'
      BY <2>1, Fields DEF Delegated, NoForeignKeys, ZoneTypes, ParentRows
    <3>8. Delegated => /\ Doing("external", {"ns_external"})' => parent'.ds # "managed"
                       /\ Doing("managed", {"load", "apply", "ns_managed"})' => parent'.ds # "external"
      BY <2>1, <3>1, <3>2, <3>3, <3>4 DEF Delegated, Doing
    <3> QED
      BY <2>1, <3>5, <3>6, <3>7, <3>8 DEF DelegationInStep, NoForeignKeys
  <2> QED
    BY <1>3, <2>2, <2>3 DEF Claim
<1>4. CASE \/ EnqueueNameserverUpdate \/ EnqueueDNSSECUpdate \/ EnqueueTransferOut \/ Sweep
           \/ \E k \in Jobs : RetryJob(k)
  BY <1>1, <1>4, QueueLeaves
<1>5. CASE ClaimAttachment \/ ProvisioningFailed \/ TransferDomain
  <2>1. UNCHANGED <<parent, work>> /\ row'.mode = row.mode /\ row'.dnssec = row.dnssec
        /\ mishaps' \in {mishaps, mishaps + 1}
    BY <1>5 DEF ClaimAttachment, ProvisioningFailed, TransferDomain, GoesWrong, ZoneTypes, RowRows
  <2> QED
    BY <1>1, <2>1
<1>6. CASE Provisioned \/ Destroy
  <2>1. UNCHANGED <<parent, row, mishaps>> /\ work'[Worker] = work[Worker]
    BY <1>0, <1>6 DEF Provisioned, Destroy, ZoneTypes
  <2> QED
    BY <1>0, <2>1, DelegationKept
<1>7. CASE ZoneStep \/ Killed
  BY <1>7, ZoneStepDelegation DEF NoForeignKeys, DelegationInStep
<1>8. CASE UNCHANGED zoneVars
  BY <1>1, <1>8
<1> QED
  BY <1>2, <1>3, <1>4, <1>5, <1>6, <1>7, <1>8, VMStepDelegation DEF ZoneNext

----------------------------------------------------------------------------
(* What is served.                                                         *)

\* The same commits are under way.
CommitsKept ==
  /\ \A c \in Clients : /\ edit'[c].at = "commit" <=> edit[c].at = "commit"
                        /\ edit[c].at = "commit" => edit'[c].want = edit[c].want
  /\ \A a \in Actors : /\ work'[a].step = "vm_saved" <=> work[a].step = "vm_saved"
                       /\ work[a].step = "vm_saved" => work'[a].job = work[a].job

\* Whoever changes neither the zone nor what is served, nor begins or ends a commit.
LEMMA ServedKept ==
  ASSUME ServedInStep,
         mishaps' = 0 =>
           /\ mishaps = 0 /\ UNCHANGED <<plane, records>>
           /\ row'.rev = row.rev /\ row'.mode = row.mode /\ CommitsKept
           /\ Doing("external", {"saved"}) => Doing("external", {"saved"})'
           /\ Doing("managed", {"ns_managed", "ds_managed", "zone_saved"})'
                => Doing("managed", {"ns_managed", "ds_managed", "zone_saved"})
  PROVE  ServedInStep'
<1> SUFFICES ASSUME mishaps' = 0 PROVE ServedInStep'
  BY DEF ServedInStep
<1>1. Published(row.rev, records)' = Published(row.rev, records)
  BY DEF Published
<1>2. Deleted => Deleted'
  BY DEF Deleted
<1>3. \A c \in Clients : edit[c].at = "commit" =>
        Published(row.rev + 1, edit[c].want)' = Published(row.rev + 1, edit[c].want)
  BY DEF Published, CommitsKept
<1>4. \A a \in Actors : work[a].step = "vm_saved" =>
        Published(row.rev + 1, Attached(a))' = Published(row.rev + 1, Attached(a))
  BY DEF Published, Attached, Attaching, CommitsKept
<1>5. Committing' <=> Committing
  BY DEF Committing, CommitsKept
<1>6. Stored' <=> Stored
  BY <1>1 DEF Stored
<1> QED
  BY <1>2, <1>3, <1>4, <1>5, <1>6 DEF ServedInStep, CommitsKept

\* What is about to be committed is still what was read.
LEMMA ReadKept ==
  ASSUME ReadInStep,
         work'[Worker].step = "apply" =>
           /\ work[Worker].step = "apply" /\ work'[Worker].zone = work[Worker].zone
           /\ UNCHANGED records /\ row'.rev = row.rev /\ row'.mode = row.mode
  PROVE  ReadInStep'
  BY DEF ReadInStep, Published

\* While nobody holds the lock no commit is under way, and while somebody does it is his.
LEMMA OneCommit ==
  ASSUME Constants, InPlace
  PROVE  /\ Committing => lock # None /\ row.mode = "managed"
         /\ \A c \in Clients : edit[c].at \in {"push", "commit"} => lock = c
         /\ \A a \in Actors : work[a].step \in {"push", "vm_saved"} => lock = a
         /\ \A c \in Clients : \A d \in Clients : edit[c].at \in {"push", "commit"} /\ edit[d].at = "commit" => c = d
         /\ \A c \in Clients : \A a \in Actors :
               ~(edit[c].at \in {"push", "commit"} /\ work[a].step \in {"push", "vm_saved"})
         /\ \A a \in Actors : \A b \in Actors :
               work[a].step \in {"push", "vm_saved"} /\ work[b].step = "vm_saved" => a = b
<1>1. /\ None \notin Clients /\ None \notin Actors /\ \A c \in Clients : c \notin Actors
  BY Names
<1>2. /\ \A c \in Clients : edit[c].at \in {"push", "commit"} => lock = c
      /\ \A a \in Actors : work[a].step \in {"push", "vm_saved"} => lock = a
  BY DEF InPlace, Placed, Locking
<1> QED
  BY <1>1, <1>2 DEF InPlace, Committing

\* The changesets ...
LEMMA ChangesetServed ==
  ASSUME Constants, ZoneTypes, InPlace, ServedInStep, ReadInStep, NEW c \in Clients, Fetch(c) \/ Changeset(c)
  PROVE  ServedInStep' /\ ReadInStep'
<1>0. Worker \in Actors /\ mishaps \in Nat /\ row.rev \in Nat /\ None \notin Clients
  BY Names, Fields
<1>1. UNCHANGED work
  BY DEF Fetch, Changeset, Begin, Push, Commit
<1>2. CASE Fetch(c) \/ Begin(c)
  <2>1. UNCHANGED <<row, records, plane, mishaps>>
    BY <1>2 DEF Fetch, Begin
  <2>2. edit[c].at # "commit" /\ edit'[c].at # "commit"
    BY <1>2, BeginReads DEF Fetch, Begin, ZoneTypes
  <2>3. \A d \in Clients : d # c => edit'[d] = edit[d]
    BY <1>2, BeginReads DEF Fetch, ZoneTypes
  <2> QED
    <3>1. CommitsKept
      BY <1>1, <2>2, <2>3 DEF CommitsKept
    <3> QED
      BY <1>1, <2>1, <3>1, ServedKept, ReadKept DEF Doing
<1>3. CASE Push(c)
  <2>1. UNCHANGED <<row, records>> /\ edit[c].at = "push"
    BY <1>3 DEF Push
  <2>2. ReadInStep'
    BY <1>1, <2>1, ReadKept
  <2>3. ASSUME mishaps' = 0 PROVE ServedInStep'
    <3>1. /\ plane' = Published(row.rev + 1, edit[c].want) /\ mishaps' = mishaps
          /\ edit' = [edit EXCEPT ![c].at = "commit"]
      BY <1>0, <1>3, <2>3 DEF Push, GoesWrong
    <3>2. edit'[c].at = "commit" /\ edit'[c].want = edit[c].want /\ \A d \in Clients : d # c => edit'[d] = edit[d]
      BY <3>1 DEF ZoneTypes, EditRows
    <3>3. /\ \A d \in Clients : edit'[d].at = "commit" => d = c
          /\ \A a \in Actors : work'[a].step # "vm_saved"
          /\ lock # None
      BY <1>0, <1>1, <2>1, <3>2, OneCommit
    <3>4. row'.mode = "managed" /\ Committing'
      BY <2>1, <3>2, <3>3 DEF InPlace, Committing
    <3>5. plane' = Published(row'.rev + 1, edit'[c].want)
      BY <2>1, <3>1, <3>2
    <3> QED
      BY <3>3, <3>4, <3>5 DEF ServedInStep
  <2> QED
    BY <2>2, <2>3 DEF ServedInStep
<1>4. CASE Commit(c)
  <2>1. lock = c /\ row.mode = "managed" /\ edit[c].at = "commit" /\ UNCHANGED plane
    BY <1>0, <1>4, OneCommit DEF Commit, InPlace
  <2>2. edit'[c].at = "done" /\ \A d \in Clients : d # c => edit'[d] = edit[d]
    BY <1>4 DEF Commit, ZoneTypes, NoEdit
  <2>3. /\ \A d \in Clients : edit'[d].at # "commit"
        /\ \A a \in Actors : work'[a].step # "vm_saved"
    BY <1>1, <2>1, <2>2, OneCommit
  <2>4. CASE row' = [row EXCEPT !.rev = @ + 1] /\ records' = edit[c].want /\ mishaps' = mishaps
    <3>1. row'.rev = row.rev + 1 /\ row'.mode = "managed"
      BY <2>1, <2>4 DEF ZoneTypes, RowRows
    <3>2. ReadInStep'
      <4>1. work[Worker].zone.rev \in Nat
        BY <1>0, Fields
      <4> QED
        BY <1>0, <1>1, <3>1, <4>1 DEF ReadInStep
    <3>3. ASSUME mishaps' = 0 PROVE ServedInStep'
      <4>1. Deleted \/ plane = Published(row.rev + 1, edit[c].want)
        BY <2>1, <2>4, <3>3 DEF ServedInStep
      <4>2. Deleted' \/ Stored'
        BY <1>1, <2>1, <2>4, <3>1, <4>1 DEF Deleted, Stored, Published, Doing
      <4> QED
        BY <2>3, <3>1, <4>2 DEF ServedInStep
    <3> QED
      BY <3>2, <3>3 DEF ServedInStep
  <2>5. CASE mishaps' = mishaps + 1 /\ UNCHANGED <<row, records>>
    <3>1. mishaps' # 0
      BY <1>0, <2>5
    <3> QED
      BY <1>1, <2>5, <3>1, ReadKept DEF ServedInStep
  <2> QED
    BY <1>4, <2>4, <2>5 DEF Commit, GoesWrong
<1> QED
  BY <1>2, <1>3, <1>4 DEF Changeset

\* ... an actor that attaches or detaches a VM ...
LEMMA VMStepServed ==
  ASSUME Constants, ZoneTypes, InPlace, ServedInStep, ReadInStep, NEW a \in Actors, VMStep(a)
  PROVE  ServedInStep' /\ ReadInStep'
<1>0. Worker \in Actors /\ mishaps \in Nat /\ row.rev \in Nat /\ None \notin Actors
  BY Names, Fields
<1>1. ASSUME UNCHANGED <<plane, records, mishaps, edit>>, row'.rev = row.rev, row'.mode = row.mode,
             work[a].step \in {"lock", "push", "none"}, work'[a].step \in {"none", "push"},
             \A b \in Actors : b # a => work'[b] = work[b]
      PROVE  ServedInStep' /\ ReadInStep'
  <2>1. CommitsKept
    BY <1>1 DEF CommitsKept
  <2>2. \/ work'[Worker] = work[Worker]
        \/ work[Worker].step \in {"lock", "push", "none"} /\ work'[Worker].step \in {"none", "push"}
    BY <1>0, <1>1
  <2>3. ServedInStep'
    BY <1>1, <2>1, <2>2, ServedKept DEF Doing
  <2> QED
    BY <1>1, <2>2, <2>3, ReadKept
<1>2. CASE LockRow(a)
  <2>1. /\ UNCHANGED <<plane, records, mishaps, edit>> /\ row'.mode = row.mode /\ row'.rev = row.rev
        /\ work[a].step = "lock"
    BY <1>2 DEF LockRow, ZoneTypes, RowRows
  <2>2. work[a].job # None
    BY <2>1, AtWork, Fields
  <2>3. Onward(a) \/ Fails(a) \/ work' = [work EXCEPT ![a].step = "none"]
    BY <1>2, RetryableFails, Zenon DEF LockRow
  <2>4. work'[a].step \in {"none", "push"} /\ \A b \in Actors : b # a => work'[b] = work[b]
    <3>1. CASE Onward(a)
      BY <2>1, <3>1, Onwards DEF GoesOn, StepAfter
    <3>2. CASE Fails(a)
      BY <2>2, <3>2, FailsLeaves DEF Idle
    <3>3. CASE work' = [work EXCEPT ![a].step = "none"]
      BY <3>3 DEF ZoneTypes, WorkRows
    <3> QED
      BY <2>3, <3>1, <3>2, <3>3
  <2> QED
    BY <1>1, <2>1, <2>4
<1>3. CASE PushVM(a)
  <2>1. work[a].step = "push" /\ UNCHANGED <<row, records, edit>>
    BY <1>3, PushVMTries DEF Tries
  <2>2. work[a].job # None
    BY <2>1, AtWork, Fields
  <2>3. CASE Passed(a) /\ plane' = Published(row.rev + 1, Attached(a))
    <3>1. /\ work'[a].step = "vm_saved" /\ work'[a].job = work[a].job
          /\ \A b \in Actors : b # a => work'[b] = work[b]
      BY <2>1, <2>3, Onwards DEF Passed, GoesOn, StepAfter
    <3>2. Attached(a)' = Attached(a)
      BY <2>1, <3>1 DEF Attached, Attaching
    <3>3. /\ \A b \in Actors : work'[b].step = "vm_saved" => b = a
          /\ \A c \in Clients : edit'[c].at # "commit"
          /\ lock = a
      BY <2>1, <3>1, OneCommit
    <3>4. row'.mode = "managed" /\ Committing'
      BY <1>0, <2>1, <3>1, <3>3 DEF InPlace, Committing
    <3>5. plane' = Published(row'.rev + 1, Attached(a)')
      BY <2>1, <2>3, <3>2
    <3>6. ServedInStep'
      BY <3>3, <3>4, <3>5 DEF ServedInStep
    <3>7. work'[Worker].step = "apply" => work'[Worker] = work[Worker]
      BY <1>0, <3>1
    <3> QED
      BY <2>1, <3>6, <3>7, ReadKept
  <2>4. CASE Stopped(a) /\ (mishaps' = mishaps + 1 \/ (mishaps' = mishaps /\ plane' = plane))
    <3>1. work'[a] = Idle /\ \A b \in Actors : b # a => work'[b] = work[b]
      BY <2>2, <2>4, FailsLeaves DEF Stopped
    <3>2. work'[Worker].step = "apply" => work'[Worker] = work[Worker]
      BY <1>0, <3>1 DEF Idle
    <3>3. ReadInStep'
      BY <2>1, <3>2, ReadKept
    <3>4. CASE mishaps' = mishaps /\ UNCHANGED plane
      BY <1>1, <2>1, <3>1, <3>4 DEF Idle
    <3>5. CASE mishaps' = mishaps + 1
      BY <1>0, <3>3, <3>5 DEF ServedInStep
    <3> QED
      BY <2>4, <3>4, <3>5
  <2> QED
    BY <1>3, <2>3, <2>4, PushVMTries
<1>4. CASE SaveVM(a)
  <2>1. /\ work[a].step = "vm_saved" /\ work'[a].step = "none" /\ UNCHANGED <<plane, mishaps, edit>>
        /\ \A b \in Actors : b # a => work'[b] = work[b]
    BY <1>4, Onwards DEF SaveVM, GoesOn, StepAfter
  <2>2. row'.rev = row.rev + 1 /\ row'.mode = row.mode /\ records' = Attached(a)
    BY <1>4 DEF SaveVM, ZoneTypes, RowRows
  <2>3. /\ \A b \in Actors : work'[b].step # "vm_saved"
        /\ \A c \in Clients : edit'[c].at # "commit"
        /\ lock = a
    BY <2>1, OneCommit
  <2>4. row.mode = "managed"
    BY <1>0, <2>3 DEF InPlace
  <2>5. ReadInStep'
    <3>1. work'[Worker].step = "apply" => work'[Worker] = work[Worker] /\ work[Worker].zone.rev \in Nat
      BY <1>0, <2>1, Fields
    <3> QED
      BY <1>0, <2>2, <2>4, <3>1 DEF ReadInStep
  <2>6. ASSUME mishaps' = 0 PROVE ServedInStep'
    <3>1. Deleted \/ plane = Published(row.rev + 1, Attached(a))
      BY <2>1, <2>6 DEF ServedInStep
    <3>2. Doing("external", {"saved"}) => Doing("external", {"saved"})'
      BY <1>0, <2>1 DEF Doing
    <3>3. Deleted' \/ Stored'
      BY <2>1, <2>2, <3>1, <3>2 DEF Deleted, Stored, Published
    <3> QED
      BY <2>2, <2>3, <2>4, <3>3 DEF ServedInStep
  <2> QED
    BY <2>5, <2>6 DEF ServedInStep
<1>5. CASE Complete(a)
  <2>1. /\ UNCHANGED <<row, plane, records, mishaps, edit>> /\ work[a].step = "none" /\ work'[a].step = "none"
        /\ \A b \in Actors : b # a => work'[b] = work[b]
    BY <1>5 DEF Complete, ZoneTypes, Idle
  <2> QED
    BY <1>1, <2>1
<1> QED
  BY <1>2, <1>3, <1>4, <1>5 DEF VMStep

\* ... the worker in an operation ...
LEMMA ZoneStepServed ==
  ASSUME Constants, ZoneTypes, InPlace, ServedInStep, ReadInStep, ZoneStep \/ Killed
  PROVE  ServedInStep' /\ ReadInStep'
<1> DEFINE w == work[Worker]
<1> DEFINE n == work'[Worker]
<1>0. /\ Worker \in Actors /\ w.step \in StepsOf(w.job) /\ ReadStill /\ mishaps \in Nat
      /\ row.rev \in Nat /\ row.mode \in {"managed", "external"} /\ plane.rev \in Nat
  BY Names, Fields DEF InPlace, Placed, ZoneTypes
<1>1. w.step # "none" => w.job # None
  BY <1>0, AtWork, Fields DEF Steps
<1>2. UNCHANGED <<records, edit>> /\ row'.rev = row.rev
  BY ZoneStepLeaves
\* A call to the registrar, or one that fails.
<1>3. ASSUME UNCHANGED <<row, plane>>, n.job = w.job, n.step = StepAfter(w), mishaps' = mishaps,
             \A b \in Actors : b # Worker => work'[b] = work[b],
             w.step \in {"ds_none", "ds_managed", "ds_external", "ns_managed", "ns_external", "unlock", "load"}
      PROVE  ServedInStep'
  <2>1. n.step \notin {"vm_saved"} /\ w.step \notin {"vm_saved", "saved"}
    BY <1>3 DEF StepAfter
  <2>2. Doing("managed", {"ns_managed", "ds_managed", "zone_saved"})'
          => Doing("managed", {"ns_managed", "ds_managed", "zone_saved"})
    BY <1>3 DEF Doing, StepAfter
  <2>3. ~Doing("external", {"saved"})
    BY <2>1 DEF Doing
  <2>4. CommitsKept
    BY <1>2, <1>3, <2>1 DEF CommitsKept
  <2> QED
    BY <1>2, <1>3, <2>2, <2>3, <2>4, ServedKept
<1>4. ASSUME Stopped(Worker), w.step \in {"ds_none", "ds_managed", "ds_external", "ns_managed", "ns_external",
                                          "unlock", "apply", "delete"},
             mishaps' = mishaps => UNCHANGED plane /\ w.step # "delete", UNCHANGED row
      PROVE  ServedInStep' /\ ReadInStep'
  <2>1. n = Idle /\ \A b \in Actors : b # Worker => work'[b] = work[b]
    BY <1>0, <1>1, <1>4, FailsLeaves DEF Stopped
  <2>2. ReadInStep'
    BY <2>1, ReadKept DEF Idle
  <2>3. CASE mishaps' = mishaps
    <3>1. ~Doing("external", {"saved"}) /\ ~Doing("managed", {"ns_managed", "ds_managed", "zone_saved"})'
      BY <1>4, <2>1 DEF Doing, Idle
    <3>2. CommitsKept
      BY <1>2, <1>4, <2>1 DEF Idle, CommitsKept
    <3> QED
      BY <1>2, <1>4, <2>2, <2>3, <3>1, <3>2, ServedKept
  <2>4. CASE mishaps' = mishaps + 1
    BY <1>0, <2>2, <2>4 DEF ServedInStep
  <2> QED
    BY <1>4, <2>3, <2>4 DEF Stopped
<1>5. ASSUME Passed(Worker), UNCHANGED <<row, plane>>,
             w.step \in {"ds_none", "ds_managed", "ds_external", "ns_managed", "ns_external", "unlock"}
      PROVE  ServedInStep' /\ ReadInStep'
  <2>1. /\ n.job = w.job /\ n.step = StepAfter(w) /\ mishaps' = mishaps
        /\ \A b \in Actors : b # Worker => work'[b] = work[b]
    BY <1>0, <1>5, Onwards DEF Passed, GoesOn
  <2>2. n.step # "apply"
    BY <1>5, <2>1 DEF StepAfter
  <2> QED
    BY <1>3, <1>5, <2>1, <2>2, ReadKept
<1>6. ASSUME NEW ds \in {"none", "managed", "external"}, SetKeys(ds) PROVE ServedInStep' /\ ReadInStep'
  <2>1. /\ UNCHANGED <<row, plane>> /\ w.step = KeyStep[ds]
        /\ Passed(Worker) \/ (Stopped(Worker) /\ mishaps' = mishaps + 1)
    BY <1>6, SetKeysTries DEF Tries
  <2>2. KeyStep[ds] \in {"ds_none", "ds_managed", "ds_external"}
    BY <1>6 DEF KeyStep
  <2> QED
    BY <1>0, <1>4, <1>5, <2>1, <2>2
<1>7. ASSUME NEW ns \in {"managed", "external"}, Delegate(ns) PROVE ServedInStep' /\ ReadInStep'
  <2>1. /\ UNCHANGED <<row, plane>> /\ w.step = DelegationStep[ns]
        /\ Passed(Worker) \/ (Stopped(Worker) /\ mishaps' = mishaps + 1)
    BY <1>7, DelegateTries DEF Tries
  <2>2. DelegationStep[ns] \in {"ns_managed", "ns_external"}
    BY <1>7 DEF DelegationStep
  <2> QED
    BY <1>0, <1>4, <1>5, <2>1, <2>2
<1>8. CASE Unlock
  <2>1. /\ UNCHANGED <<row, plane>> /\ w.step = "unlock"
        /\ Passed(Worker) \/ (Stopped(Worker) /\ mishaps' = mishaps + 1)
    BY <1>8, UnlockTries DEF Tries
  <2> QED
    BY <1>0, <1>4, <1>5, <2>1
<1>9. CASE DeleteZone
  <2>1. /\ UNCHANGED row /\ w.step = "delete"
        /\ \/ Passed(Worker) /\ plane' = NoZone
           \/ Stopped(Worker) /\ mishaps' = mishaps + 1
    BY <1>9, DeleteZoneTries DEF Tries
  <2>2. CASE Passed(Worker) /\ plane' = NoZone
    <3>1. n.job = w.job /\ n.step = "saved"
      BY <1>0, <2>1, <2>2, Onwards DEF Passed, GoesOn, StepAfter
    <3>2. w.job = "external"
      BY <1>0, <2>1 DEF StepsOf, ZoneSteps
    <3>3. Deleted'
      BY <2>2, <3>1, <3>2 DEF Deleted, Doing
    <3>4. ~Doing("managed", {"ns_managed", "ds_managed", "zone_saved"})'
      BY <3>1 DEF Doing
    <3>5. ServedInStep'
      BY <3>3, <3>4 DEF ServedInStep
    <3> QED
      BY <3>1, <3>5, ReadKept
  <2> QED
    BY <1>0, <1>4, <2>1, <2>2
<1>10. CASE Load
  <2>1. /\ UNCHANGED <<row, plane, mishaps>> /\ w.step = "load" /\ n.job = w.job /\ n.step = StepAfter(w)
        /\ n.zone = Published(row.rev, records) /\ \A b \in Actors : b # Worker => work'[b] = work[b]
    BY <1>0, <1>10 DEF Load, ZoneTypes, WorkRows
  <2>2. ReadInStep'
    BY <1>0, <1>2, <2>1 DEF ReadInStep, Published
  <2> QED
    BY <1>3, <2>1, <2>2
<1>11. CASE ApplyZone
  <2>1. /\ UNCHANGED row /\ w.step = "apply" /\ w.zone \in Zones /\ w.zone.rev \in Nat
    BY <1>0, <1>11, ApplyZoneTries, Fields DEF Tries
  <2>2. CASE Passed(Worker) /\ plane' = w.zone /\ Accepts(w.zone.rev)
    <3>1. /\ n.job = w.job /\ n.step = "ns_managed" /\ mishaps' = mishaps
          /\ \A b \in Actors : b # Worker => work'[b] = work[b]
      BY <1>0, <2>1, <2>2, Onwards DEF Passed, GoesOn, StepAfter
    <3>2. ReadInStep'
      BY <3>1, ReadKept
    <3>3. /\ w.zone.rev <= row.rev /\ (w.zone.rev = row.rev => w.zone = Published(row.rev, records))
          /\ (row.mode = "external" => w.zone.rev = row.rev) /\ plane.rev <= w.zone.rev
      BY <1>0, <2>1, <2>2 DEF ReadInStep, Accepts
    <3>4. ASSUME mishaps' = 0 PROVE ServedInStep'
      <4>1. mishaps = 0 /\ ~Doing("external", {"saved"})
        BY <2>1, <3>1, <3>4 DEF Doing
      <4>2. \A contents : plane # Published(row.rev + 1, contents)
        BY <1>0, <2>1, <3>3 DEF Published
      <4>3. Committing => ~Deleted
        BY <4>1, OneCommit DEF Deleted
      <4>4. ~Committing
        BY <4>1, <4>2, <4>3 DEF Committing, ServedInStep
      <4>5. Stored \/ (Deleted /\ row.mode = "external")
        BY <4>1, <4>4 DEF ServedInStep, Deleted
      <4>6. w.zone = Published(row.rev, records)
        <5>1. CASE Stored
          BY <1>0, <2>1, <3>3, <5>1 DEF Stored, Published
        <5>2. CASE Deleted /\ row.mode = "external"
          BY <3>3, <5>2
        <5> QED
          BY <4>5, <5>1, <5>2
      <4>7. Stored'
        BY <1>2, <2>1, <2>2, <4>6 DEF Stored, Published
      <4>8. /\ \A c \in Clients : edit'[c].at # "commit"
            /\ \A b \in Actors : work'[b].step # "vm_saved"
        BY <1>2, <3>1, <4>4 DEF Committing
      <4> QED
        BY <4>7, <4>8 DEF ServedInStep
    <3> QED
      BY <3>2, <3>4 DEF ServedInStep
  <2>3. CASE Stopped(Worker) /\ (mishaps' = mishaps + 1 \/ (mishaps' = mishaps /\ plane' = plane))
    BY <1>0, <1>4, <2>1, <2>3
  <2> QED
    BY <1>11, <2>2, <2>3, ApplyZoneTries
<1>12. CASE ZoneSaved \/ Saved
  <2>1. /\ n.job = w.job /\ n.step = StepAfter(w) /\ UNCHANGED <<plane, mishaps>> /\ lock = None
        /\ w.step \in {"zone_saved", "saved"} /\ \A b \in Actors : b # Worker => work'[b] = work[b]
    BY <1>0, <1>12, Onwards DEF ZoneSaved, Saved, GoesOn
  <2>2. n.step \in {"saved", "none"} /\ (w.step = "saved" => n.step = "none")
    BY <2>1 DEF StepAfter
  <2>3. ReadInStep'
    BY <2>2, ReadKept
  <2>4. /\ \A c \in Clients : edit'[c].at # "commit"
        /\ \A b \in Actors : work'[b].step # "vm_saved"
        /\ ~Committing
    BY <1>0, <1>2, <2>1, <2>2, OneCommit, Names DEF Committing
  <2>5. ~Doing("managed", {"ns_managed", "ds_managed", "zone_saved"})'
    BY <2>2 DEF Doing
  <2>6. Stored => Stored'
    BY <1>2, <2>1 DEF Stored, Published
  <2>7. ASSUME mishaps = 0 PROVE Stored' \/ Deleted'
    <3>1. Stored \/ Deleted
      BY <2>4, <2>7 DEF ServedInStep
    <3>2. CASE ZoneSaved
      <4>1. w.step = "zone_saved"
        BY <3>2 DEF ZoneSaved
      <4>2. w.job \in {"managed", "dnssec_managed", Reconcile}
        BY <1>0, <4>1 DEF StepsOf
      <4>3. CASE w.job = "managed"
        BY <2>6, <2>7, <3>1, <4>1, <4>3 DEF ServedInStep, Deleted, Doing
      <4>4. CASE w.job # "managed"
        BY <1>0, <2>6, <3>1, <4>1, <4>2, <4>4 DEF ReadStill, Deleted, Doing
      <4> QED
        BY <4>3, <4>4
    <3>3. CASE Saved
      <4>1. w.step = "saved"
        BY <3>3 DEF Saved
      <4>2. CASE w.job = "external"
        <5>1. row'.mode = "external"
          BY <3>3, <4>2 DEF Saved, ZoneTypes, RowRows
        <5> QED
          BY <2>1, <2>6, <3>1, <5>1 DEF Deleted
      <4>3. CASE w.job = "managed"
        <5>1. row.mode = "managed" /\ ~Doing("external", {"saved"})
          BY <1>0, <4>1, <4>3 DEF ReadStill, Doing
        <5> QED
          BY <2>6, <3>1, <5>1 DEF Deleted
      <4>4. CASE w.job \notin {"external", "managed"}
        <5>1. row'.mode = row.mode /\ ~Doing("external", {"saved"})
          BY <3>3, <4>4 DEF Saved, ZoneTypes, RowRows, Doing
        <5> QED
          BY <2>1, <2>6, <3>1, <5>1 DEF Deleted
      <4> QED
        BY <4>2, <4>3, <4>4
    <3> QED
      BY <1>12, <3>2, <3>3
  <2> QED
    BY <2>1, <2>3, <2>4, <2>5, <2>7 DEF ServedInStep
<1>13. CASE Killed
  <2>1. n = Idle /\ mishaps' = mishaps + 1
    BY <1>0, <1>13 DEF Killed, GoesWrong, ZoneTypes
  <2>2. ReadInStep'
    BY <2>1, ReadKept DEF Idle
  <2> QED
    BY <1>0, <2>1, <2>2 DEF ServedInStep
<1> QED
  BY <1>6, <1>7, <1>8, <1>9, <1>10, <1>11, <1>12, <1>13 DEF ZoneStep

\* ... and everyone else.
LEMMA ServedStep ==
  ASSUME Constants, ZoneTypes, InPlace, ServedInStep, ReadInStep, [ZoneNext]_zoneVars
  PROVE  ServedInStep' /\ ReadInStep'
<1>0. Worker \in Actors /\ None \notin AllOperations /\ Worker # "provision" /\ Worker # "destroy"
      /\ mishaps \in Nat
  BY Names, Fields
<1>1. ASSUME UNCHANGED <<plane, records, edit, work>>, row'.rev = row.rev, row'.mode = row.mode,
             mishaps' \in {mishaps, mishaps + 1}
      PROVE  ServedInStep' /\ ReadInStep'
  <2>1. mishaps' = 0 => mishaps = 0
    BY <1>0, <1>1
  <2> QED
    <3>1. CommitsKept
      BY <1>1 DEF CommitsKept
    <3> QED
      BY <1>1, <2>1, <3>1, ServedKept, ReadKept DEF Doing
<1>2. ASSUME NEW k \in Jobs, Claim(k) PROVE ServedInStep' /\ ReadInStep'
  <2>1. UNCHANGED <<row, plane, records, edit, mishaps>>
    BY <1>2 DEF Claim
  <2>2. CASE work' = work
    BY <1>1, <2>1, <2>2
  <2>3. CASE work' = [work EXCEPT ![Worker] = Begun(k, row)]
    <3>1. /\ work'[Worker].step = FirstStep(k, row) /\ work[Worker].job = None
          /\ \A b \in Actors : b # Worker => work'[b] = work[b]
      BY <1>0, <1>2, <2>3 DEF Claim, ZoneTypes, Begun, Idle
    <3>2. FirstStep(k, row) \notin {"apply", "vm_saved", "ns_managed", "ds_managed", "zone_saved"}
      BY DEF FirstStep
    <3>3. work[Worker].step = "none"
      BY <1>0, <3>1, AtWork, Fields
    <3>4. ~Doing("external", {"saved"}) /\ ~Doing("managed", {"ns_managed", "ds_managed", "zone_saved"})'
      BY <3>1, <3>2, <3>3 DEF Doing
    <3>5. CommitsKept
      BY <2>1, <3>1, <3>2, <3>3 DEF CommitsKept
    <3> QED
      BY <2>1, <3>1, <3>2, <3>4, <3>5, ServedKept, ReadKept
  <2> QED
    BY <1>2, <2>2, <2>3 DEF Claim
<1>3. CASE \/ EnqueueNameserverUpdate \/ EnqueueDNSSECUpdate \/ EnqueueTransferOut \/ Sweep
           \/ \E k \in Jobs : RetryJob(k)
  BY <1>1, <1>3, QueueLeaves
<1>4. CASE ClaimAttachment \/ ProvisioningFailed \/ TransferDomain
  <2>1. UNCHANGED <<plane, records, edit, work>> /\ row'.mode = row.mode /\ row'.rev = row.rev
        /\ mishaps' \in {mishaps, mishaps + 1}
    BY <1>4 DEF ClaimAttachment, ProvisioningFailed, TransferDomain, GoesWrong, ZoneTypes, RowRows
  <2> QED
    BY <1>1, <2>1
<1>5. CASE Provisioned \/ Destroy
  <2>1. \E a \in {"provision", "destroy"} :
          /\ UNCHANGED <<plane, records, edit, row, mishaps>> /\ work[a].job = None /\ work'[a].step = "lock"
          /\ \A b \in Actors : b # a => work'[b] = work[b]
    BY <1>5 DEF Provisioned, Destroy, ZoneTypes, Idle, InPlace, Actors, VMRows
  <2>2. PICK a \in {"provision", "destroy"} :
          /\ UNCHANGED <<plane, records, edit, row, mishaps>> /\ work[a].job = None /\ work'[a].step = "lock"
          /\ \A b \in Actors : b # a => work'[b] = work[b]
    BY <2>1
  <2>3. a \in Actors /\ work'[Worker] = work[Worker]
    BY <1>0, <2>2 DEF Actors
  <2>4. work[a].step = "none"
    BY <2>2, <2>3, AtWork, Fields
  <2>5. CommitsKept
    BY <2>2, <2>4 DEF CommitsKept
  <2> QED
    BY <2>2, <2>3, <2>5, ServedKept, ReadKept DEF Doing
<1>6. CASE UNCHANGED zoneVars
  BY <1>1, <1>6
<1> QED
  BY <1>2, <1>3, <1>4, <1>5, <1>6, ChangesetServed, VMStepServed, ZoneStepServed DEF ZoneNext

----------------------------------------------------------------------------
(* The theorems.                                                           *)

\* A domain just registered is served as it is stored, and nothing is under way.
LEMMA ZoneBegins == ASSUME Constants, ZoneInit PROVE ZoneInv
<1>0. /\ None \notin Clients /\ None \notin Actors /\ None \notin Jobs
      /\ MaxAttempts \in Nat
  BY Names DEF Constants, AttemptsAreNumbers
<1>1. ZoneTypes
  <2>1. /\ records \in Contents /\ plane \in Zones /\ row \in RowRows /\ parent \in ParentRows
    BY DEF ZoneInit, Contents, Zones, NoZone, Published, RowRows, ParentRows, Accounts
  <2>2. NoEdit \in EditRows /\ NoOperation \in JobRows /\ Idle \in WorkRows
    BY <1>0 DEF NoEdit, EditRows, Contents, Accounts, NoOperation, JobRows, Idle, WorkRows, NoZone, Zones, Steps
  <2>3. vm \in VMRows
    BY DEF ZoneInit, VMRows
  <2> QED
    BY <2>1, <2>2, <2>3 DEF ZoneInit, ZoneTypes
<1>2. \A a \in Actors : work[a] = Idle
  BY DEF ZoneInit
<1>3. \A c \in Clients : edit[c] = NoEdit
  BY DEF ZoneInit
<1>4. Worker \in Actors /\ "provision" \in Actors /\ "destroy" \in Actors /\ lock = None
  BY DEF Worker, Actors, ZoneInit
<1>5. InPlace
  BY <1>0, <1>2, <1>3, <1>4 DEF InPlace, Placed, Locking, ReadStill, StepsOf, Idle, NoEdit
<1>6. ApexFollowsVM /\ EditKeepsApex
  BY <1>3 DEF ZoneInit, ApexFollowsVM, EditKeepsApex, NoEdit
<1>7. NoForeignKeys /\ DelegationInStep
  BY <1>2, <1>4 DEF ZoneInit, NoForeignKeys, DelegationInStep, Delegated, ToExternal, ToManaged, KeysChanging, Doing, Idle
<1>8. DoneForOwner
  BY <1>0, <1>2, <1>4 DEF DoneForOwner, Idle, Jobs
<1>9. ServedInStep /\ ReadInStep
  BY <1>2, <1>3, <1>4 DEF ZoneInit, ServedInStep, ReadInStep, Stored, Deleted, Doing, Idle, NoEdit, Published
<1> QED
  BY <1>1, <1>5, <1>6, <1>7, <1>8, <1>9 DEF ZoneInv

\* ZoneInv is inductive.
LEMMA ZoneInvStep == ASSUME Constants, ZoneInv, [ZoneNext]_zoneVars PROVE ZoneInv'
  BY TypeStep, InPlaceStep, ApexStep, DelegationStepKept, OwnerStep, ServedStep DEF ZoneInv

\* For any number of changesets, attempts and mishaps: the VM's apex record follows the VM, no
\* changeset overwrites it, no keys but the zone's are at the registrar, what the registrar has
\* delegated is what the row says or is about to say, and no operation is done for an account that
\* no longer owns the domain (_apply_nameservers, _apply_dnssec, attach_vm, detach_vm, transfer_domain).
THEOREM ZoneInvariant == ZoneSpec => []ZoneInv
<1>1. ZoneInit => ZoneInv
  BY ConstantsHold, ZoneBegins
<1>2. ZoneInv /\ [ZoneNext]_zoneVars => ZoneInv'
  BY ConstantsHold, ZoneInvStep
<1> QED
  BY <1>1, <1>2, PTL DEF ZoneSpec

\* Nobody is committing while nobody holds the lock.
LEMMA ServedFollows == ASSUME Constants, ZoneInv PROVE ServedAsStored
<1> SUFFICES ASSUME mishaps = 0, row.mode = "managed", lock = None, work[Worker].job # "external"
             PROVE  plane = Published(row.rev, records)
  BY DEF ServedAsStored
<1>1. ~Committing
  BY OneCommit DEF ZoneInv
<1>2. ~Deleted
  BY DEF Deleted, Doing
<1> QED
  BY <1>1, <1>2 DEF ZoneInv, ServedInStep, Stored

\* While no call has gone wrong, a managed zone that nobody holds the lock of is served with the
\* records and the revision of the table (apply_changeset, attach_vm, detach_vm, _reconcile_domain).
THEOREM AlwaysServedAsStored == ZoneSpec => []ServedAsStored
  BY ConstantsHold, ZoneInvariant, ServedFollows, PTL


----------------------------------------------------------------------------
(* The checkout of an order.                                               *)

USE DEF vars, At, Goto, offer, people, funds, marking, Fine

\* The fields of the rows, which the provers do not get from the sets of records at once.
LEMMA OrderFields ==
  ASSUME TypeOK
  PROVE  /\ order.status \in OrderStates /\ order.quote \in 0..MaxQuotes /\ order.paid \in BOOLEAN
         /\ order = [status |-> order.status, quote |-> order.quote, paid |-> order.paid]
         /\ intent.quote \in 0..MaxQuotes /\ intent.hash \in Auths \cup {None}
         /\ intent.state \in {"awaiting_payment", "settled", "settlement_failed"} \cup InFlight
         /\ order.status # "none" => order.quote \in QuoteIds
         /\ intent.quote # 0 => intent.quote \in QuoteIds
         /\ 1 \in QuoteIds /\ 1 \in 0..MaxQuotes /\ QuoteIds \subseteq 0..MaxQuotes
  BY BoundsAreNumbers DEF TypeOK, OrderRows, IntentRows, QuoteIds, OrderStates

\* A mishap is counted within its bound.
LEMMA Counted == ASSUME mishaps \in 0..MaxMishaps, NEW kind, GoesWrong(kind) PROVE mishaps' \in 0..MaxMishaps
  BY BoundsAreNumbers DEF GoesWrong

----------------------------------------------------------------------------
(* The parts of the actions that several of them share.                    *)

\* Marking an order paid ends it, with the money that is behind it; it is not refunded twice,
\* unless its outcome was overwritten.
LEMMA MarkPaidEnds ==
  ASSUME OrderInv, NEW was, MarkPaid(was), NoteOverwriting(was), order.status # "none",
         was \in Unpaid \/ Final,
         UNCHANGED <<terms, vmQuote, charged, ledger>>, charged # {} \/ (Waived /\ ledger # {})
  PROVE  /\ Final' /\ order'.quote = order.quote /\ order' \in OrderRows
         /\ quotes' \in [QuoteIds -> QuoteStates] /\ owed' \in Nat
         /\ QueuedIsPaid' /\ OwedOnce' /\ BundleQuoteFollowsOrder'
<1> DEFINE Goal == /\ Final' /\ order'.quote = order.quote /\ order' \in OrderRows
                   /\ quotes' \in [QuoteIds -> QuoteStates] /\ owed' \in Nat
                   /\ QueuedIsPaid' /\ OwedOnce' /\ BundleQuoteFollowsOrder'
<1>0. TypeOK /\ QueuedIsPaid /\ OwedOnce /\ BundleQuoteFollowsOrder
  BY DEF OrderInv
<1>1. /\ order.status \in OrderStates /\ order.quote \in QuoteIds /\ order.quote \in 0..MaxQuotes
      /\ order \in OrderRows /\ quotes \in [QuoteIds -> QuoteStates] /\ owed \in Nat
      /\ overwritten \in BOOLEAN
  BY <1>0, OrderFields DEF TypeOK
<1>2. CASE UNCHANGED <<order, owed, quotes>> /\ was \notin Unpaid
  <2>1. Final /\ (~overwritten' => ~overwritten)
    BY <1>2 DEF NoteOverwriting
  <2> QED
    BY <1>0, <1>1, <1>2, <2>1 DEF Final, OrderStates, QueuedIsPaid, OwedOnce, BundleQuoteFollowsOrder, Waived
<1>a. ASSUME was \in Unpaid, ~overwritten' PROVE ~overwritten /\ order.status \in Unpaid /\ owed = 0
  <2>1. ~overwritten /\ order.status \in Unpaid
    BY <1>a, <1>1 DEF NoteOverwriting
  <2> QED
    BY <1>0, <1>1, <2>1 DEF OwedOnce, Unpaid
<1>3. CASE /\ was \in Unpaid /\ order' = [order EXCEPT !.status = "FAILED"]
           /\ UNCHANGED <<owed, quotes>>
  <2>1. order'.status = "FAILED" /\ order'.quote = order.quote /\ order' \in OrderRows
    BY <1>1, <1>3 DEF OrderRows, OrderStates
  <2>2. OwedOnce'
    BY <1>0, <1>1, <1>3, <1>a, <2>1 DEF OwedOnce
  <2> QED
    BY <1>0, <1>1, <1>3, <2>1, <2>2 DEF Final, QueuedIsPaid, BundleQuoteFollowsOrder, Waived
<1>4. ASSUME was \in Unpaid, GiveBack, quotes' \in [QuoteIds -> QuoteStates]
      PROVE  Goal
  <2>1. /\ order'.status = IF Waived THEN "FAILED" ELSE "REFUND_DUE"
        /\ order'.quote = order.quote /\ order' \in OrderRows
    BY <1>1, <1>4 DEF OrderRows, OrderStates, GiveBack
  <2>2. owed' = (IF Waived THEN owed ELSE owed + 1) /\ owed' \in Nat
    BY <1>1, <1>4 DEF GiveBack
  <2>3. owed' > 0 => charged # {}
    BY <1>0, <1>1, <2>2 DEF OwedOnce
  <2>4. ~overwritten' => owed' <= 1 /\ ((owed' = 1) <=> (order'.status = "REFUND_DUE"))
    BY <1>1, <1>4, <1>a, <2>1, <2>2
  <2>5. OwedOnce'
    BY <2>3, <2>4 DEF OwedOnce
  <2> QED
    BY <1>0, <1>1, <1>4, <2>1, <2>2, <2>5 DEF Final, QueuedIsPaid, BundleQuoteFollowsOrder, Waived
<1>5. CASE /\ was \in Unpaid /\ ~(terms.bundle /\ vmQuote # "CONSUMED")
           /\ quotes' = [quotes EXCEPT ![order.quote] = "consumed"]
           /\ order' = [order EXCEPT !.paid = TRUE, !.status = "QUEUED"] /\ UNCHANGED owed
  <2>1. order'.status = "QUEUED" /\ order'.quote = order.quote /\ order' \in OrderRows /\ order'.paid
    BY <1>1, <1>5 DEF OrderRows, OrderStates
  <2>2. quotes' \in [QuoteIds -> QuoteStates] /\ quotes'[order.quote] = "consumed"
    BY <1>1, <1>5 DEF QuoteStates
  <2>3. OwedOnce'
    BY <1>0, <1>1, <1>5, <1>a, <2>1 DEF OwedOnce
  <2> QED
    BY <1>0, <1>1, <1>5, <2>1, <2>2, <2>3 DEF Final, QueuedIsPaid, BundleQuoteFollowsOrder, Waived
<1>6. \/ quotes' = quotes
      \/ quotes' = [quotes EXCEPT ![order.quote] = "consumed"]
      \/ quotes' = [quotes EXCEPT ![order.quote] = IF order.quote \in overdue THEN "expired" ELSE @]
  BY DEF MarkPaid
<1>7. quotes' \in [QuoteIds -> QuoteStates]
  BY <1>1, <1>6 DEF QuoteStates
<1> QED
  BY <1>2, <1>3, <1>4, <1>5, <1>7 DEF MarkPaid, Unpaid

\* An order that expires gives its VM quote back.
LEMMA Expires ==
  ASSUME OrderInv, ExpireOrder, order.status = "AWAITING_PAYMENT",
         UNCHANGED <<terms, owed, charged, overwritten>>
  PROVE  /\ order'.status = "EXPIRED" /\ order'.quote = order.quote /\ order' \in OrderRows
         /\ vmQuote' \in {"CREATED", "CONSUMED", "EXPIRED"}
         /\ QueuedIsPaid' /\ OwedOnce' /\ BundleQuoteFollowsOrder'
<1>0. TypeOK /\ OwedOnce
  BY DEF OrderInv
<1>1. order'.status = "EXPIRED" /\ order'.quote = order.quote /\ order' \in OrderRows
  BY <1>0, OrderFields DEF ExpireOrder, OrderRows, OrderStates
<1>2. vmQuote' \in {"CREATED", "CONSUMED", "EXPIRED"} /\ (terms.bundle => vmQuote' # "CONSUMED")
  BY <1>0 DEF ExpireOrder, TypeOK
<1>3. owed \in Nat
  BY <1>0 DEF TypeOK
<1> QED
  BY <1>0, <1>1, <1>2, <1>3 DEF QueuedIsPaid, OwedOnce, BundleQuoteFollowsOrder

\* An offer that is reserved has an order to it, which nobody has paid yet.
LEMMA Reserves ==
  ASSUME OrderInv, NEW q \in QuoteIds, Reserve(q), order.status = "none",
         UNCHANGED <<terms, owed, charged, overwritten>>,
         terms.bundle => vmQuote' = "CONSUMED"
  PROVE  /\ order'.status = "AWAITING_PAYMENT" /\ order'.quote = q /\ order' \in OrderRows
         /\ quotes' \in [QuoteIds -> QuoteStates]
         /\ QueuedIsPaid' /\ OwedOnce' /\ BundleQuoteFollowsOrder'
<1>0. TypeOK /\ OwedOnce
  BY DEF OrderInv
<1>1. order'.status = "AWAITING_PAYMENT" /\ order'.quote = q /\ order' \in OrderRows
  BY <1>0, OrderFields DEF Reserve, OrderRows, OrderStates
<1>2. quotes' \in [QuoteIds -> QuoteStates] /\ owed \in Nat
  BY <1>0 DEF TypeOK, Reserve, QuoteStates
<1> QED
  BY <1>0, <1>1, <1>2 DEF QueuedIsPaid, OwedOnce, BundleQuoteFollowsOrder

----------------------------------------------------------------------------
(* The rows and the money.                                                 *)

Rows == /\ (Registers /\ order.status # "none") => order.quote = intent.quote
        /\ order.status # "none" => order.quote # 0
        /\ quotes \in [QuoteIds -> QuoteStates]
        /\ vmQuote \in {"CREATED", "CONSUMED", "EXPIRED"}
        /\ intent \in IntentRows /\ order \in OrderRows /\ owed \in Nat
        /\ QueuedIsPaid /\ OwedOnce /\ BundleQuoteFollowsOrder

\* What every lemma on a step starts from.
LEMMA Parts ==
  ASSUME OrderInv
  PROVE  /\ TypeOK /\ Rows /\ RequestsRely /\ BoundToOne
         /\ Registers => ~Waived /\ ~terms.bundle
         /\ order.status # "none" => order.quote \in QuoteIds
         /\ 1 \in QuoteIds /\ QuoteIds \subseteq 0..MaxQuotes /\ 0 \notin QuoteIds
  BY OrderFields DEF OrderInv, TypeOK, Rows, QuoteIds

\* Intent and order agree on their offer; an order is queued with its offer consumed, refunded
\* once, and holds the VM quote of its bundle.
LEMMA RowsStep == OrderInv /\ [Next]_vars => Rows'
<1> SUFFICES ASSUME OrderInv, [Next]_vars PROVE Rows'
  OBVIOUS
<1> USE Parts
<1>0. terms' = terms
  BY DEF Next, Request, Crash, Prepare, Rebind, Verify, CreateMarketplaceOrder, CreateOrder, Recovered,
         Guard, Settle, MarkSettlement, Look, Mark, Flag, RecoverLook, RecoverMark, RecoverFlag,
         ExpireQuotes, Disable, Enable, Revoke, Overdue
<1>1. ASSUME NEW r \in Requests, Prepare(r) PROVE Rows'
  <2>0. UNCHANGED <<order, vmQuote, owed, charged, ledger, overwritten>>
    BY <1>1 DEF Prepare
  <2>1. \/ UNCHANGED <<quotes, intent>>
        \/ Registers /\ intent.quote = 0 /\ NewQuote(1) /\ intent' = [intent EXCEPT !.quote = 1]
        \/ \E q \in QuoteIds : quotes[q] = "none" /\ NewQuote(q) /\ intent' = intent
    BY <1>1 DEF Prepare, Unused
  <2>2. CASE UNCHANGED <<quotes, intent>>
    BY <1>0, <2>0, <2>2 DEF Rows, Registers, QueuedIsPaid, OwedOnce, BundleQuoteFollowsOrder, Waived
  <2>3. CASE Registers /\ intent.quote = 0 /\ NewQuote(1) /\ intent' = [intent EXCEPT !.quote = 1]
    <3>1. order.status = "none"
      BY <2>3 DEF Rows
    <3>2. intent' \in IntentRows /\ quotes' \in [QuoteIds -> QuoteStates]
      BY <2>3, OrderFields DEF Rows, IntentRows, NewQuote, QuoteStates
    <3> QED
      BY <1>0, <2>0, <3>1, <3>2 DEF Rows, QueuedIsPaid, OwedOnce, BundleQuoteFollowsOrder, Waived
  <2>4. ASSUME NEW q \in QuoteIds, quotes[q] = "none", NewQuote(q), intent' = intent PROVE Rows'
    <3>1. quotes' \in [QuoteIds -> QuoteStates]
      BY <2>4 DEF Rows, NewQuote, QuoteStates
    <3>2. QueuedIsPaid'
      BY <1>0, <2>0, <2>4 DEF Rows, QueuedIsPaid, NewQuote, Waived
    <3> QED
      BY <1>0, <2>0, <2>4, <3>1, <3>2 DEF Rows, Registers, OwedOnce, BundleQuoteFollowsOrder, Waived
  <2> QED
    BY <2>1, <2>2, <2>3, <2>4
<1>2. ASSUME NEW r \in Requests, Rebind(r) PROVE Rows'
  <2>1. \/ intent' = intent
        \/ order.status = "none" /\ intent' = [intent EXCEPT !.quote = Replacement(r)]
    BY <1>2 DEF Rebind
  <2>2. Replacement(r) \in 0..MaxQuotes
    BY DEF TypeOK, Replacement
  <2>3. intent' \in IntentRows
    BY <2>1, <2>2 DEF Rows, IntentRows
  <2> QED
    BY <1>0, <1>2, <2>1, <2>3
    DEF Rebind, Rows, Registers, QueuedIsPaid, OwedOnce, BundleQuoteFollowsOrder, Waived
<1>3. ASSUME NEW r \in Requests, CreateMarketplaceOrder(r) PROVE Rows'
  <2>0. intent.quote \in QuoteIds /\ ~terms.bundle /\ auth[r] \in Auths
    BY <1>3, OrderFields DEF CreateMarketplaceOrder, RequestsRely, TypeOK
  <2>1. intent' \in IntentRows /\ intent'.quote = intent.quote
    BY <1>3, <2>0 DEF CreateMarketplaceOrder, Rows, IntentRows, InFlight
  <2>2. CASE order.status = "none" /\ Reserve(intent.quote)
    BY <1>0, <1>3, <2>0, <2>1, <2>2, Reserves DEF CreateMarketplaceOrder, Rows
  <2>3. CASE UNCHANGED <<quotes, order>>
    BY <1>0, <1>3, <2>1, <2>3
    DEF CreateMarketplaceOrder, Rows, Registers, QueuedIsPaid, OwedOnce, BundleQuoteFollowsOrder, Waived
  <2> QED
    BY <1>3, <2>2, <2>3 DEF CreateMarketplaceOrder
<1>4. ASSUME NEW r \in Requests, CreateOrder(r) PROVE Rows'
  <2>1. CASE order.status = "none" /\ Reserve(1) /\ vmQuote' = IF terms.bundle THEN "CONSUMED" ELSE vmQuote
    BY <1>0, <1>4, <2>1, Reserves DEF CreateOrder, Rows, Registers
  <2>2. CASE UNCHANGED <<quotes, order, vmQuote>>
    BY <1>0, <1>4, <2>2
    DEF CreateOrder, Rows, Registers, QueuedIsPaid, OwedOnce, BundleQuoteFollowsOrder, Waived
  <2> QED
    BY <1>4, <2>1, <2>2 DEF CreateOrder
<1>5. ASSUME NEW r \in Requests, Guard(r) PROVE Rows'
  <2>1. CASE UNCHANGED <<order, quotes, vmQuote>>
    BY <1>0, <1>5, <2>1
    DEF Guard, Rows, Registers, QueuedIsPaid, OwedOnce, BundleQuoteFollowsOrder, Waived
  <2>2. CASE /\ order.status = "AWAITING_PAYMENT" /\ ExpireOrder
             /\ quotes' = [quotes EXCEPT ![order.quote] = IF order.quote \in overdue THEN "expired" ELSE @]
    <3>1. quotes' \in [QuoteIds -> QuoteStates]
      BY <2>2 DEF Rows, QuoteStates
    <3> QED
      BY <1>0, <1>5, <2>2, <3>1, Expires DEF Guard, Rows, Registers
  <2> QED
    BY <1>5, <2>1, <2>2 DEF Guard
<1>6. ASSUME NEW r \in Requests, Settle(r) PROVE Rows'
  <2>1. (charged # {} => charged' # {}) /\ (ledger # {} => ledger' # {})
    BY <1>6 DEF Settle, Record
  <2> QED
    BY <1>0, <1>6, <2>1
    DEF Settle, Rows, Registers, QueuedIsPaid, OwedOnce, BundleQuoteFollowsOrder, Waived
<1>7. ASSUME NEW r \in Requests, MarkSettlement(r) \/ Flag(r) PROVE Rows'
  <2>1. intent' \in IntentRows /\ intent'.quote = intent.quote
    BY <1>7 DEF MarkSettlement, Flag, Rows, IntentRows, InFlight
  <2> QED
    BY <1>0, <1>7, <2>1
    DEF MarkSettlement, Flag, Rows, Registers, QueuedIsPaid, OwedOnce, BundleQuoteFollowsOrder, Waived
<1>8. ASSUME NEW r \in Requests, Mark(r) PROVE Rows'
  <2>0. UNCHANGED <<intent, vmQuote, charged, ledger>>
    BY <1>8 DEF Mark
  <2>1. CASE MarkPaid(seen[r]) /\ NoteOverwriting(seen[r])
    <3>1. /\ order.status # "none" /\ (charged # {} \/ (Waived /\ ledger # {}))
          /\ seen[r] \in Unpaid \/ Final
      BY <1>8 DEF Mark, RequestsRely, Bound
    <3> QED
      BY <1>0, <2>0, <2>1, <3>1, MarkPaidEnds DEF Rows, Registers
  <2>2. CASE UNCHANGED <<order, owed, quotes, overwritten>>
    BY <1>0, <2>0, <2>2
    DEF Rows, Registers, QueuedIsPaid, OwedOnce, BundleQuoteFollowsOrder, Waived
  <2> QED
    BY <1>8, <2>1, <2>2 DEF Mark
<1>9. ASSUME RecoverMark PROVE Rows'
  <2>0. UNCHANGED <<intent, vmQuote, charged, ledger>> /\ MarkPaid(scan) /\ NoteOverwriting(scan)
    BY <1>9 DEF RecoverMark
  <2>1. /\ order.status # "none" /\ (charged # {} \/ (Waived /\ ledger # {}))
        /\ scan \in Unpaid
    BY <1>9 DEF RecoverMark, RequestsRely
  <2> QED
    BY <1>0, <2>0, <2>1, MarkPaidEnds DEF Rows, Registers
<1>10. ASSUME RecoverFlag PROVE Rows'
  <2>1. intent' \in IntentRows /\ intent'.quote = intent.quote
    BY <1>10 DEF RecoverFlag, Rows, IntentRows
  <2> QED
    BY <1>0, <1>10, <2>1
    DEF RecoverFlag, Rows, Registers, QueuedIsPaid, OwedOnce, BundleQuoteFollowsOrder, Waived
<1>11. ASSUME ExpireQuotes PROVE Rows'
  <2>1. quotes' \in [QuoteIds -> QuoteStates]
    BY <1>11 DEF ExpireQuotes, Rows, QuoteStates
  <2>2. CASE order.status = "AWAITING_PAYMENT" /\ ExpireOrder
    BY <1>0, <1>11, <2>1, <2>2, Expires DEF ExpireQuotes, Rows, Registers
  <2>3. CASE UNCHANGED <<order, vmQuote>>
    <3>1. QueuedIsPaid'
      BY <1>0, <1>11, <2>3 DEF ExpireQuotes, Rows, QueuedIsPaid, Waived
    <3> QED
      BY <1>0, <1>11, <2>1, <2>3, <3>1 DEF ExpireQuotes, Rows, Registers, OwedOnce, BundleQuoteFollowsOrder
  <2> QED
    BY <1>11, <2>2, <2>3 DEF ExpireQuotes
<1> QED
  <2>1. CASE UNCHANGED <<order, quotes, vmQuote, intent, owed, charged, ledger, overwritten>>
    BY <1>0, <2>1 DEF Rows, Registers, QueuedIsPaid, OwedOnce, BundleQuoteFollowsOrder, Waived
  <2> QED
    BY <1>1, <1>2, <1>3, <1>4, <1>5, <1>6, <1>7, <1>8, <1>9, <1>10, <1>11, <2>1
    DEF Next, Request, Verify, Recovered, Look, Crash, RecoverLook, Disable, Enable, Revoke, Overdue

----------------------------------------------------------------------------
(* Types.                                                                  *)

\* The types of everything besides the rows.
LEMMA OrderTypeStep == OrderInv /\ [Next]_vars => TypeOK'
<1> SUFFICES ASSUME OrderInv, [Next]_vars PROVE TypeOK'
  OBVIOUS
<1> DEFINE Rest == /\ overdue \subseteq QuoteIds /\ {enabled, admin} \subseteq BOOLEAN
                   /\ charged \subseteq Auths /\ ledger \subseteq Auths
                   /\ fresh \in [Requests -> (0..MaxQuotes) \X (0..MaxQuotes)]
                   /\ mishaps \in 0..MaxMishaps /\ pc \in [Requests -> Places]
                   /\ seen \in [Requests -> OrderStates] /\ scan \in OrderStates
                   /\ overwritten \in BOOLEAN /\ order.status \in OrderStates
<1>0. /\ terms' = terms /\ auth' = auth /\ TypeOK /\ Rows' /\ Rest
      /\ \A r \in Requests : auth[r] \in Auths
  BY Parts, OrderFields, RowsStep
  DEF TypeOK, Next, Request, Crash, Prepare, Rebind, Verify, CreateMarketplaceOrder, CreateOrder,
      Recovered, Guard, Settle, MarkSettlement, Look, Mark, Flag, RecoverLook, RecoverMark, RecoverFlag,
      ExpireQuotes, Disable, Enable, Revoke, Overdue
<1>1. overdue' \subseteq QuoteIds /\ {enabled', admin'} \subseteq BOOLEAN
  BY <1>0
  DEF Next, Request, Crash, Prepare, Rebind, Verify, CreateMarketplaceOrder, CreateOrder, Recovered,
      Guard, Settle, MarkSettlement, Look, Mark, Flag, RecoverLook, RecoverMark, RecoverFlag,
      ExpireQuotes, Disable, Enable, Revoke, Overdue
<1>2. charged' \subseteq Auths /\ ledger' \subseteq Auths
  <2>1. ASSUME NEW r \in Requests, Request(r) \/ Crash(r)
        PROVE  charged' \subseteq Auths /\ ledger' \subseteq Auths
    <3>1. CASE Settle(r)
      BY <1>0, <3>1 DEF Settle, Record
    <3>2. CASE UNCHANGED <<charged, ledger>>
      BY <1>0, <3>2
    <3> QED
      BY <2>1, <3>1, <3>2
      DEF Request, Crash, Prepare, Rebind, Verify, CreateMarketplaceOrder, CreateOrder, Recovered, Guard,
          MarkSettlement, Look, Mark, Flag
  <2> QED
    BY <1>0, <2>1 DEF Next, RecoverLook, RecoverMark, RecoverFlag, ExpireQuotes, Disable, Enable, Revoke,
                      Overdue
<1>3. mishaps' \in 0..MaxMishaps
  <2>1. mishaps' = mishaps \/ \E kind : GoesWrong(kind)
    BY DEF Next, Request, Crash, Prepare, Rebind, Verify, CreateMarketplaceOrder, CreateOrder, Recovered,
           Guard, Settle, MarkSettlement, Look, Mark, Flag, RecoverLook, RecoverMark, RecoverFlag,
           ExpireQuotes, Disable, Enable, Revoke, Overdue
  <2> QED
    BY <1>0, <2>1, Counted
<1>4. fresh' \in [Requests -> (0..MaxQuotes) \X (0..MaxQuotes)]
  <2>1. ASSUME NEW r \in Requests, Request(r) \/ Crash(r)
        PROVE  fresh' = fresh \/ \E v \in (0..MaxQuotes) \X (0..MaxQuotes) : fresh' = [fresh EXCEPT ![r] = v]
    <3>1. Nothing \in (0..MaxQuotes) \X (0..MaxQuotes)
      BY BoundsAreNumbers DEF Nothing
    <3>2. CASE Prepare(r)
      <4>1. fresh' = fresh \/ \E q \in QuoteIds : fresh' = [fresh EXCEPT ![r] = <<intent.quote, q>>]
        BY <3>2 DEF Prepare, Unused
      <4> QED
        BY <1>0, <4>1, OrderFields
    <3>3. CASE Rebind(r) \/ Crash(r)
      BY <3>1, <3>3 DEF Rebind, Crash
    <3> QED
      BY <2>1, <3>2, <3>3
      DEF Request, Verify, CreateMarketplaceOrder, CreateOrder, Recovered, Guard, Settle, MarkSettlement,
          Look, Mark, Flag
  <2> QED
    BY <1>0, <2>1 DEF Next, RecoverLook, RecoverMark, RecoverFlag, ExpireQuotes, Disable, Enable, Revoke,
                      Overdue
<1>5. pc' \in [Requests -> Places]
  <2>1. pc' = pc \/ \E r \in Requests, place \in Places : pc' = [pc EXCEPT ![r] = place]
    <3>1. ASSUME NEW r \in Requests, Request(r) \/ Crash(r)
          PROVE \E place \in Places : pc' = [pc EXCEPT ![r] = place]
      BY <3>1 DEF Places, Before, Bound, Request, Crash, Prepare, Rebind, Verify, CreateMarketplaceOrder,
                  CreateOrder, Recovered, Guard, Settle, MarkSettlement, Look, Mark, Flag
    <3> QED
      BY <3>1 DEF Next, RecoverLook, RecoverMark, RecoverFlag, ExpireQuotes, Disable, Enable, Revoke,
                  Overdue
  <2> QED
    BY <1>0, <2>1
<1>6. seen' \in [Requests -> OrderStates]
  <2>1. ASSUME NEW r \in Requests, Request(r) \/ Crash(r) PROVE seen' \in [Requests -> OrderStates]
    <3>1. seen' = seen \/ \E was \in OrderStates : seen' = [seen EXCEPT ![r] = was]
      BY <1>0, <2>1 DEF OrderStates, Request, Crash, Prepare, Rebind, Verify, CreateMarketplaceOrder,
                        CreateOrder, Recovered, Guard, Settle, MarkSettlement, Look, Mark, Flag
    <3> QED
      BY <1>0, <3>1
  <2> QED
    BY <1>0, <2>1 DEF Next, RecoverLook, RecoverMark, RecoverFlag, ExpireQuotes, Disable, Enable, Revoke,
                      Overdue
<1>7. scan' \in OrderStates
  <2>1. ASSUME NEW r \in Requests, Request(r) \/ Crash(r) PROVE scan' = scan
    BY <2>1
    DEF Request, Crash, Prepare, Rebind, Verify, CreateMarketplaceOrder, CreateOrder, Recovered, Guard,
        Settle, MarkSettlement, Look, Mark, Flag
  <2> QED
    BY <1>0, <2>1
    DEF OrderStates, Next, RecoverLook, RecoverMark, RecoverFlag, ExpireQuotes, Disable, Enable, Revoke,
        Overdue
<1>8. overwritten' \in BOOLEAN
  <2>1. ASSUME NEW was, NoteOverwriting(was) PROVE overwritten' \in BOOLEAN
    BY <2>1 DEF NoteOverwriting
  <2> QED
    BY <1>0, <2>1
    DEF Next, Request, Crash, Prepare, Rebind, Verify, CreateMarketplaceOrder, CreateOrder, Recovered,
        Guard, Settle, MarkSettlement, Look, Mark, Flag, RecoverLook, RecoverMark, RecoverFlag,
        ExpireQuotes, Disable, Enable, Revoke, Overdue
<1> QED
  BY <1>0, <1>1, <1>2, <1>3, <1>4, <1>5, <1>6, <1>7, <1>8 DEF TypeOK, Rows, Registers, Waived

----------------------------------------------------------------------------
(* What requests rely on.                                                  *)

\* The order never goes back from an end, and is not removed.
LEMMA Forward ==
  ASSUME OrderInv, [Next]_vars
  PROVE  /\ Final => Final'
         /\ order.status # "none" => order'.status # "none"
         /\ intent.quote # 0 => intent'.quote # 0
         /\ charged \subseteq charged' /\ ledger \subseteq ledger'
         /\ terms' = terms /\ auth' = auth
<1> USE Parts
<1>1. /\ charged \subseteq charged' /\ ledger \subseteq ledger'
      /\ terms' = terms /\ auth' = auth
  BY DEF Next, Request, Crash, Prepare, Rebind, Verify, CreateMarketplaceOrder, CreateOrder, Recovered,
         Guard, Settle, Record, MarkSettlement, Look, Mark, Flag, RecoverLook, RecoverMark, RecoverFlag,
         ExpireQuotes, Disable, Enable, Revoke, Overdue
<1>2. order.status # "none" =>
        order' = order \/ (order'.status = "EXPIRED" /\ ~Final) \/ Final'
  <2> SUFFICES ASSUME order.status # "none" PROVE order' = order \/ (order'.status = "EXPIRED" /\ ~Final) \/ Final'
    OBVIOUS
  <2>1. ASSUME NEW was, MarkPaid(was) PROVE order' = order \/ Final'
    <3>1. \A s \in OrderStates : /\ [order EXCEPT !.status = s].status = s
                              /\ [order EXCEPT !.paid = TRUE, !.status = s].status = s
      BY DEF Rows, OrderRows
    <3> QED
      BY <2>1, <3>1 DEF MarkPaid, GiveBack, Final, OrderStates
  <2>2. ASSUME ExpireOrder, order.status = "AWAITING_PAYMENT" PROVE order'.status = "EXPIRED" /\ ~Final
    BY <2>2 DEF ExpireOrder, Rows, OrderRows, Final
  <2> QED
    BY <2>1, <2>2 DEF Next, Request, Crash, Prepare, Rebind, Verify, CreateMarketplaceOrder, CreateOrder,
                      Recovered, Guard, Settle, MarkSettlement, Look, Mark, Flag, RecoverLook,
                      RecoverMark, RecoverFlag, ExpireQuotes, Disable, Enable, Revoke, Overdue
<1>3. intent.quote # 0 => intent'.quote # 0
  <2>1. ASSUME NEW r \in Requests, Rebind(r) PROVE intent.quote # 0 => intent'.quote # 0
    <3>1. Replacement(r) # 0
      BY <2>1 DEF Rebind, RequestsRely
    <3> QED
      BY <2>1, <3>1 DEF Rebind, Rows, IntentRows
  <2>2. ASSUME NEW r \in Requests, Prepare(r), intent.quote # 0 PROVE intent' = intent
    BY <2>2 DEF Prepare
  <2>3. ASSUME NEW r \in Requests,
               CreateMarketplaceOrder(r) \/ MarkSettlement(r) \/ Flag(r)
        PROVE  intent'.quote = intent.quote
    BY <2>3 DEF CreateMarketplaceOrder, MarkSettlement, Flag, Rows, IntentRows
  <2>4. ASSUME RecoverFlag PROVE intent'.quote = intent.quote
    BY <2>4 DEF RecoverFlag, Rows, IntentRows
  <2> QED
    BY <2>1, <2>2, <2>3, <2>4 DEF Next, Request, Crash, Verify, CreateOrder, Recovered, Guard, Settle,
                                  Look, Mark, RecoverLook, RecoverMark, ExpireQuotes, Disable, Enable,
                                  Revoke, Overdue
<1> QED
  BY <1>1, <1>2, <1>3 DEF Final

\* While the facilitator settles, nobody else touches the order or its owner's account.
LEMMA Guarded ==
  ASSUME OrderInv, [Next]_vars, NEW s \in Requests, At(s, "settle")
  PROVE  order' = order /\ enabled' = enabled
<1>1. Locked /\ order.status # "none" /\ enabled
  BY Parts DEF Locked, RequestsRely, Bound
<1>2. ASSUME NEW r \in Requests, Request(r) \/ Crash(r) PROVE order' = order /\ enabled' = enabled
  <2>1. CASE CreateMarketplaceOrder(r) \/ CreateOrder(r) \/ Guard(r) \/ Mark(r)
    BY <1>1, <2>1 DEF CreateMarketplaceOrder, CreateOrder, Guard, Mark
  <2> QED
    BY <1>2, <2>1 DEF Request, Crash, Prepare, Rebind, Verify, Recovered, Settle, MarkSettlement, Look,
                      Flag
<1> QED
  BY <1>1, <1>2 DEF Next, RecoverLook, RecoverMark, RecoverFlag, ExpireQuotes, Disable, Enable, Revoke,
                    Overdue

\* Only the request itself moves.
LEMMA Moves ==
  ASSUME OrderInv, [Next]_vars, NEW s \in Requests
  PROVE  pc'[s] = pc[s] \/ Request(s) \/ Crash(s)
<1>1. pc \in [Requests -> Places]
  BY Parts DEF TypeOK
<1>2. ASSUME NEW r \in Requests, Request(r) \/ Crash(r), r # s PROVE pc'[s] = pc[s]
  BY <1>1, <1>2 DEF Request, Crash, Prepare, Rebind, Verify, CreateMarketplaceOrder, CreateOrder,
                    Recovered, Guard, Settle, MarkSettlement, Look, Mark, Flag
<1> QED
  BY <1>2 DEF Next, RecoverLook, RecoverMark, RecoverFlag, ExpireQuotes, Disable, Enable, Revoke, Overdue

Relies(r) == /\ Registers /\ pc[r] \notin {"idle", "done"} => intent.quote # 0
             /\ At(r, "rebind") => Replacement(r) # 0
             /\ pc[r] \in Bound => order.status # "none"
             /\ At(r, "settle") => order.status = "AWAITING_PAYMENT" /\ enabled
             /\ pc[r] \in {"mark", "apply", "replay"} => charged # {} \/ (Waived /\ ledger # {})
             /\ At(r, "flag") => Final

\* What a request has read of the order.
Saw(r) == /\ pc[r] \in {"apply", "replay"} => seen[r] # "none"
          /\ seen[r] \notin Unpaid \cup {"none"} => Final

\* What a request has read stays true, if it was an outcome.
LEMMA SawStep ==
  ASSUME OrderInv, [Next]_vars, NEW s \in Requests
  PROVE  Saw(s)'
<1> USE Parts, Forward
<1>0. pc \in [Requests -> Places] /\ seen \in [Requests -> OrderStates] /\ Saw(s)
  BY DEF TypeOK, RequestsRely, Saw
<1>1. ASSUME NEW r \in Requests, Look(r) \/ Mark(r) \/ Crash(r), r # s
      PROVE  pc'[s] = pc[s] /\ (seen'[s] = seen[s])
  BY <1>0, <1>1 DEF Look, Mark, Crash
<1>2. ASSUME Look(s) PROVE Saw(s)'
  <2>1. seen'[s] = order.status /\ order' = order /\ order.status \in OrderStates /\ order.status # "none"
    BY <1>0, <1>2, OrderFields DEF Look, RequestsRely, Bound
  <2> QED
    BY <2>1 DEF Saw, Final, OrderStates, Unpaid
<1>3. ASSUME Mark(s) \/ Crash(s) PROVE Saw(s)'
  <2>1. seen'[s] = "none" /\ pc'[s] \notin {"apply", "replay"}
    BY <1>0, <1>3 DEF Mark, Crash
  <2> QED
    BY <2>1 DEF Saw
<1>4. ASSUME seen'[s] = seen[s], pc'[s] \in {"apply", "replay"} => pc'[s] = pc[s] PROVE Saw(s)'
  BY <1>0, <1>4 DEF Saw, Unpaid
<1>5. ASSUME NEW r \in Requests,
             \/ Prepare(r) \/ Rebind(r) \/ Verify(r) \/ CreateMarketplaceOrder(r) \/ CreateOrder(r)
             \/ Recovered(r) \/ Guard(r) \/ Settle(r) \/ MarkSettlement(r) \/ Flag(r)
      PROVE  Saw(s)'
  <2>1. seen' = seen /\ \E place : pc' = [pc EXCEPT ![r] = place] /\ place \notin {"apply", "replay"}
    BY <1>5 DEF Prepare, Rebind, Verify, CreateMarketplaceOrder, CreateOrder, Recovered, Guard, Settle,
                MarkSettlement, Flag
  <2> QED
    BY <1>0, <1>4, <2>1
<1>6. ASSUME UNCHANGED <<pc, seen>> PROVE Saw(s)'
  BY <1>4, <1>6
<1>7. Saw(s)'
  BY <1>1, <1>2, <1>3, <1>4, <1>5, <1>6
  DEF Next, Request, RecoverLook, RecoverMark, RecoverFlag, ExpireQuotes, Disable, Enable, Revoke, Overdue
<1> QED
  BY <1>7

\* The worker only takes up what the ledger has.
LEMMA ScanStep == OrderInv /\ [Next]_vars => (scan' # "none" => ledger' # {} /\ scan' \in Unpaid)
<1> SUFFICES ASSUME OrderInv, [Next]_vars PROVE scan' # "none" => ledger' # {} /\ scan' \in Unpaid
  OBVIOUS
<1> USE Parts, Forward
<1>1. scan' = scan \/ scan' = "none" \/ RecoverLook
  BY DEF Next, Request, Crash, Prepare, Rebind, Verify, CreateMarketplaceOrder, CreateOrder, Recovered,
         Guard, Settle, MarkSettlement, Look, Mark, Flag, RecoverMark, RecoverFlag, ExpireQuotes, Disable,
         Enable, Revoke, Overdue
<1> QED
  BY <1>1 DEF RequestsRely, RecoverLook

\* The place of every request keeps its meaning.
LEMMA RelyStep == OrderInv /\ [Next]_vars => RequestsRely'
<1> SUFFICES ASSUME OrderInv, [Next]_vars PROVE RequestsRely'
  OBVIOUS
<1> USE Parts, Forward
<1>0. \A r \in Requests : Relies(r)
  BY DEF RequestsRely, Relies
<1>1. ASSUME NEW s \in Requests PROVE Relies(s)'
  <2>0. pc \in [Requests -> Places] /\ Relies(s)
    BY <1>0 DEF TypeOK
  <2>1. CASE pc'[s] = pc[s]
    <3>1. At(s, "rebind") => Replacement(s)' # 0
      <4> SUFFICES ASSUME At(s, "rebind") PROVE Replacement(s)' # 0
        OBVIOUS
      <4>1. fresh'[s] = fresh[s]
        <5>1. ASSUME NEW r \in Requests, Prepare(r) PROVE r # s /\ (fresh'[s] = fresh[s])
          <6>1. r # s
            BY <5>1 DEF Prepare
          <6>2. fresh' = fresh \/ \E q : fresh' = [fresh EXCEPT ![r] = q]
            BY <5>1 DEF Prepare
          <6> QED
            BY <6>1, <6>2 DEF TypeOK
        <5>2. ASSUME NEW r \in Requests, Rebind(r) \/ Crash(r) PROVE fresh'[s] = fresh[s]
          BY <2>0, <2>1, <5>2 DEF Rebind, Crash, TypeOK
        <5> QED
          BY <5>1, <5>2 DEF Next, Request, Verify, CreateMarketplaceOrder, CreateOrder, Recovered, Guard,
                            Settle, MarkSettlement, Look, Mark, Flag, RecoverLook, RecoverMark,
                            RecoverFlag, ExpireQuotes, Disable, Enable, Revoke, Overdue
      <4> QED
        BY <2>0, <4>1 DEF Relies, Replacement
    <3>2. At(s, "settle") => (order.status = "AWAITING_PAYMENT" /\ enabled)'
      BY <2>0, Guarded DEF Relies
    <3> QED
      BY <2>0, <2>1, <3>1, <3>2 DEF Relies, Registers, Waived
  <2>2. CASE Crash(s) \/ MarkSettlement(s) \/ Flag(s)
    <3>1. pc'[s] = "done"
      BY <2>0, <2>2 DEF Crash, MarkSettlement, Flag
    <3> QED
      BY <3>1 DEF Relies, Bound
  <2>3. CASE Prepare(s)
    <3>1. ASSUME Registers, pc'[s] # "done" PROVE intent'.quote # 0
      BY <2>0, <2>3, <3>1 DEF Prepare, Rows, IntentRows
    <3>2. ASSUME pc'[s] = "rebind" PROVE Replacement(s)' # 0
      BY <2>0, <2>3, <3>2 DEF Prepare, TypeOK, Unused, Replacement, QuoteIds
    <3>3. pc'[s] \in {"verify", "rebind", "done", "create"}
      BY <2>0, <2>3 DEF Prepare
    <3> QED
      BY <2>3, <3>1, <3>2, <3>3 DEF Relies, Bound, Registers
  <2>4. CASE Rebind(s) \/ Verify(s)
    <3>1. pc'[s] \in {"verify", "create", "done"} /\ pc[s] \in {"rebind", "verify"}
      BY <2>0, <2>4 DEF Rebind, Verify
    <3> QED
      BY <2>0, <3>1 DEF Relies, Bound, Registers
  <2>5. CASE CreateMarketplaceOrder(s) \/ CreateOrder(s)
    <3>1. pc'[s] \in {"recover", "check", "done"} /\ pc[s] = "create"
      BY <2>0, <2>5 DEF CreateMarketplaceOrder, CreateOrder
    <3>2. pc'[s] \in Bound => order'.status # "none"
      BY <2>0, <2>5 DEF CreateMarketplaceOrder, CreateOrder, Reserve, Bound
    <3> QED
      BY <2>0, <3>1, <3>2 DEF Relies, Registers
  <2>6. CASE Recovered(s) \/ Guard(s)
    <3>1. pc'[s] \in {"check", "settle", "done"} /\ pc[s] \in {"recover", "check"}
      BY <2>0, <2>6 DEF Recovered, Guard
    <3>2. pc'[s] = "settle" => (order.status = "AWAITING_PAYMENT" /\ enabled)'
      BY <2>0, <2>6 DEF Recovered, Guard
    <3> QED
      BY <2>0, <3>1, <3>2 DEF Relies, Registers, Bound
  <2>7. CASE Settle(s)
    <3>1. pc'[s] \in {"mark", "failed", "uncertain", "done"} /\ pc[s] = "settle"
      BY <2>0, <2>7 DEF Settle
    <3>2. pc'[s] = "mark" => (charged # {} \/ (Waived /\ ledger # {}))'
      BY <2>0, <2>7 DEF Settle, Record, Waived
    <3> QED
      BY <2>0, <3>1, <3>2 DEF Relies, Registers, Bound
  <2>8. CASE Look(s)
    <3>1. pc'[s] \in {"apply", "replay"} /\ pc[s] \in {"mark", "recover"}
      BY <2>0, <2>8 DEF Look
    <3>2. charged' # {} \/ (Waived' /\ ledger' # {})
      BY <2>0, <2>8 DEF Look, Relies, RequestsRely, Waived
    <3> QED
      BY <2>0, <3>1, <3>2 DEF Relies, Registers, Bound
  <2>9. CASE Mark(s)
    <3>1. pc'[s] \in {"flag", "check", "done"} /\ pc[s] \in {"apply", "replay"}
      BY <2>0, <2>9 DEF Mark
    <3>2. ASSUME pc'[s] = "flag" PROVE Final'
      <4>0. MarkPaid(seen[s]) /\ NoteOverwriting(seen[s]) /\ UNCHANGED <<terms, vmQuote, charged, ledger>>
        BY <2>0, <2>9, <3>1, <3>2 DEF Mark
      <4>1. /\ order.status # "none" /\ (charged # {} \/ (Waived /\ ledger # {}))
            /\ seen[s] \in Unpaid \/ Final
        BY <2>0, <3>1 DEF Relies, Bound, RequestsRely
      <4> QED
        BY <4>0, <4>1, MarkPaidEnds
    <3> QED
      BY <2>0, <3>1, <3>2 DEF Relies, Registers, Bound
  <2> QED
    BY <2>1, <2>2, <2>3, <2>4, <2>5, <2>6, <2>7, <2>8, <2>9, Moves DEF Request
<1>2. /\ charged' # {} => order'.status # "none"
      /\ ledger' # {} => order'.status # "none" /\ (charged' # {} \/ Waived')
  <2>1. ASSUME NEW s \in Requests, Settle(s)
        PROVE  order'.status # "none" /\ (ledger' # {} => charged' # {} \/ Waived)
    BY <1>0, <2>1 DEF Settle, Relies, Bound, RequestsRely
  <2>2. CASE UNCHANGED <<charged, ledger>>
    BY <2>2 DEF RequestsRely, Waived
  <2> QED
    BY <2>1, <2>2 DEF Waived, Next, Request, Crash, Prepare, Rebind, Verify, CreateMarketplaceOrder,
                      CreateOrder, Recovered, Guard, MarkSettlement, Look, Mark, Flag, RecoverLook,
                      RecoverMark, RecoverFlag, ExpireQuotes, Disable, Enable, Revoke, Overdue
<1>3. intent'.state = "settled" => Final'
  <2>1. ASSUME NEW s \in Requests, Flag(s) PROVE Final'
    BY <1>0, <2>1 DEF Flag, Relies
  <2>2. ASSUME RecoverFlag PROVE Final'
    BY <2>2, OrderFields DEF RecoverFlag, RequestsRely, Final, OrderStates, Unpaid
  <2>3. ASSUME NEW s \in Requests, Prepare(s) \/ Rebind(s) PROVE intent'.state = intent.state
    BY <2>3 DEF Prepare, Rebind, Rows, IntentRows
  <2>4. ASSUME NEW s \in Requests, CreateMarketplaceOrder(s) \/ MarkSettlement(s)
        PROVE  intent' = intent \/ intent'.state # "settled"
    BY <2>4 DEF CreateMarketplaceOrder, MarkSettlement, Rows, IntentRows
  <2> QED
    BY <2>1, <2>2, <2>3, <2>4 DEF RequestsRely, Next, Request, Crash, Verify, CreateOrder, Recovered,
                                  Guard, Settle, Look, Mark, RecoverLook, RecoverMark, ExpireQuotes,
                                  Disable, Enable, Revoke, Overdue
<1>4. \A s \in Requests : Saw(s)'
  BY SawStep
<1> QED
  BY <1>1, <1>2, <1>3, <1>4, ScanStep DEF RequestsRely, Relies, Saw

----------------------------------------------------------------------------
(* One authorization at a time.                                            *)

\* A registration stays bound to one authorization until it ends.
LEMMA BoundStep == OrderInv /\ [Next]_vars => BoundToOne'
<1> SUFFICES ASSUME OrderInv, [Next]_vars, Registers, Unshared PROVE BoundToOne'
  BY Forward DEF BoundToOne, Registers, Unshared
<1> USE Parts, Forward
<1>0. /\ \A r \in Requests : pc[r] \in Before => auth[r] \notin charged
      /\ ~Final => /\ \A r \in Requests : pc[r] \in Bound => intent.hash = auth[r]
                   /\ charged \subseteq {intent.hash}
                   /\ intent.state \in InFlight <=> intent.hash # None
  BY DEF BoundToOne
<1>a. \A r \in Requests : auth[r] \in Auths /\ auth[r] # None
  BY NoneIsNothing DEF TypeOK
<1>b. pc \in [Requests -> Places]
  BY DEF TypeOK
<1>1. ASSUME NEW s \in Requests, pc'[s] \in Before PROVE auth[s] \notin charged'
  <2>1. pc[s] \in Before
    <3>1. CASE Request(s)
      BY <1>1, <1>b, <3>1 DEF Before, Request, Prepare, Rebind, Verify, CreateMarketplaceOrder,
                              CreateOrder, Recovered, Guard, Settle, MarkSettlement, Look, Mark, Flag
    <3>2. CASE Crash(s)
      BY <1>1, <1>b, <3>2 DEF Before, Crash
    <3> QED
      BY <1>1, <3>1, <3>2, Moves
  <2>2. ASSUME NEW r \in Requests, Settle(r) PROVE auth[s] \notin charged'
    <3>1. CASE r = s
      BY <1>0, <1>1, <1>b, <2>1, <2>2, <3>1 DEF Settle, Before
    <3>2. CASE r # s
      <4>1. auth[r] # auth[s]
        BY <3>2 DEF Unshared
      <4> QED
        BY <1>0, <2>1, <2>2, <4>1 DEF Settle
    <3> QED
      BY <3>1, <3>2
  <2>3. CASE charged' = charged
    BY <1>0, <2>1, <2>3
  <2> QED
    BY <2>2, <2>3 DEF Next, Request, Crash, Prepare, Rebind, Verify, CreateMarketplaceOrder, CreateOrder,
                      Recovered, Guard, MarkSettlement, Look, Mark, Flag, RecoverLook, RecoverMark,
                      RecoverFlag, ExpireQuotes, Disable, Enable, Revoke, Overdue
<1> DEFINE Goal == ~Final' => /\ \A r \in Requests : pc'[r] \in Bound => intent'.hash = auth[r]
                              /\ charged' \subseteq {intent'.hash}
                              /\ intent'.state \in InFlight <=> intent'.hash # None
<1>2. ~Final' => ~Final
  OBVIOUS
<1>3. ASSUME NEW s \in Requests, NEW place, pc' = [pc EXCEPT ![s] = place], place \in Bound => pc[s] \in Bound,
             charged' = charged, intent'.hash = intent.hash, intent'.state = intent.state
      PROVE  Goal
  BY <1>0, <1>2, <1>3, <1>b
<1>4. ASSUME UNCHANGED <<pc, charged, intent>> PROVE Goal
  BY <1>0, <1>2, <1>4
<1>5. ASSUME NEW s \in Requests, Prepare(s) \/ Rebind(s) \/ Verify(s) \/ Crash(s) PROVE Goal
  <2>1. intent'.hash = intent.hash /\ intent'.state = intent.state
    BY <1>5 DEF Prepare, Rebind, Verify, Crash, Rows, IntentRows
  <2>2. \E place : pc' = [pc EXCEPT ![s] = place] /\ place \notin Bound
    BY <1>5 DEF Prepare, Rebind, Verify, Crash, Bound
  <2>3. charged' = charged
    BY <1>5 DEF Prepare, Rebind, Verify, Crash
  <2> QED
    BY <1>3, <2>1, <2>2, <2>3
<1>6. ASSUME NEW s \in Requests, Recovered(s) \/ Guard(s) \/ Look(s) \/ Mark(s) PROVE Goal
  <2>1. \E place : pc' = [pc EXCEPT ![s] = place] /\ pc[s] \in Bound
    BY <1>6 DEF Recovered, Guard, Look, Mark, Bound
  <2>2. charged' = charged /\ intent' = intent
    BY <1>6 DEF Recovered, Guard, Look, Mark
  <2> QED
    BY <1>3, <2>1, <2>2
<1>7. ASSUME NEW s \in Requests, CreateMarketplaceOrder(s) PROVE Goal
  <2>0. charged' = charged
    BY <1>7 DEF CreateMarketplaceOrder
  <2>1. CASE order.status = "none" /\ intent' = [intent EXCEPT !.hash = auth[s], !.state = "settlement_pending"]
    <3>1. charged = {} /\ \A r \in Requests : pc[r] \notin Bound
      BY <2>1 DEF RequestsRely
    <3>2. intent'.hash = auth[s] /\ intent'.state \in InFlight
      BY <2>1 DEF Rows, IntentRows, InFlight
    <3>3. \E place : pc' = [pc EXCEPT ![s] = place]
      BY <1>7 DEF CreateMarketplaceOrder
    <3> QED
      BY <1>a, <1>b, <2>0, <3>1, <3>2, <3>3
  <2>2. CASE intent' = intent /\ Goto(s, "done")
    BY <1>3, <2>0, <2>2 DEF Bound
  <2>3. CASE intent' = intent /\ intent.state \in InFlight /\ intent.hash \in {None, auth[s]} /\ Goto(s, "recover")
    BY <1>0, <1>2, <1>a, <1>b, <2>0, <2>3
  <2>4. CASE intent' = intent /\ intent.state = "settled"
    BY <1>2, <2>4 DEF RequestsRely
  <2>5. CASE /\ intent.state \notin InFlight /\ intent.state # "settled"
             /\ intent' = [intent EXCEPT !.hash = auth[s], !.state = "settlement_pending"]
             /\ Goto(s, "recover")
    <3>1. ~Final => charged = {} /\ \A r \in Requests : pc[r] \notin Bound
      BY <1>0, <1>a, <2>5, NoneIsNothing DEF TypeOK
    <3>2. intent'.hash = auth[s] /\ intent'.state \in InFlight
      BY <2>5 DEF Rows, IntentRows, InFlight
    <3> QED
      BY <1>2, <1>a, <1>b, <2>0, <2>5, <3>1, <3>2
  <2> QED
    BY <1>7, <2>1, <2>2, <2>3, <2>4, <2>5 DEF CreateMarketplaceOrder
<1>8. ASSUME NEW s \in Requests, Settle(s) PROVE Goal
  <2>1. intent' = intent /\ (~Final => charged' \subseteq charged \cup {auth[s]})
    BY <1>8 DEF Settle
  <2>2. \E place : pc' = [pc EXCEPT ![s] = place]
    BY <1>8 DEF Settle
  <2>3. pc[s] \in Bound
    BY <1>8 DEF Settle, Bound
  <2> QED
    BY <1>0, <1>2, <1>b, <2>1, <2>2, <2>3
<1>9. ASSUME NEW s \in Requests, MarkSettlement(s) PROVE Goal
  <2>0. pc' = [pc EXCEPT ![s] = "done"] /\ "done" \notin Bound /\ charged' = charged /\ pc[s] \in Bound
    BY <1>9 DEF MarkSettlement, Bound
  <2>1. CASE pc[s] = "failed"
    <3>1. intent'.hash = None /\ intent'.state \notin InFlight
      BY <1>9, <2>1 DEF MarkSettlement, Rows, IntentRows, InFlight
    <3>2. ~Final => charged = {}
      BY <1>0, <2>0, <2>1 DEF Before
    <3>3. ~Final => \A r \in Requests : pc[r] \in Bound => r = s
      BY <1>0, <2>0 DEF Unshared
    <3> QED
      BY <1>2, <1>b, <2>0, <3>1, <3>2, <3>3
  <2>2. CASE pc[s] = "uncertain"
    <3>1. intent'.hash = intent.hash /\ intent'.state \in InFlight
      BY <1>9, <2>2 DEF MarkSettlement, Rows, IntentRows, InFlight
    <3>2. ~Final => intent.hash # None
      BY <1>0, <1>a, <2>0
    <3> QED
      BY <1>0, <1>2, <1>b, <2>0, <3>1, <3>2
  <2> QED
    BY <1>9, <2>1, <2>2 DEF MarkSettlement
<1>10. ASSUME NEW s \in Requests, Flag(s) PROVE Final
  BY <1>10 DEF Flag, RequestsRely
<1>11. ASSUME RecoverFlag PROVE Final
  BY <1>11, OrderFields DEF RecoverFlag, RequestsRely, Final, OrderStates, Unpaid
<1>12. Goal
  <2>1. ASSUME NEW s \in Requests, CreateOrder(s) PROVE FALSE
    BY <2>1 DEF CreateOrder
  <2> QED
    BY <1>2, <1>4, <1>5, <1>6, <1>7, <1>8, <1>9, <1>10, <1>11, <2>1
    DEF Next, Request, RecoverLook, RecoverMark, ExpireQuotes, Disable, Enable, Revoke, Overdue
<1>13. ASSUME NEW a \in charged', NEW b \in charged' PROVE a = b
  <2>1. ASSUME NEW s \in Requests, Settle(s) PROVE a = b
    <3>1. ~Final /\ pc[s] \in Bound /\ charged' \subseteq charged \cup {auth[s]}
      BY <2>1 DEF Settle, RequestsRely, Bound, Final
    <3> QED
      BY <1>0, <3>1
  <2>2. CASE charged' = charged
    BY <2>2 DEF BoundToOne
  <2> QED
    BY <2>1, <2>2 DEF Next, Request, Crash, Prepare, Rebind, Verify, CreateMarketplaceOrder, CreateOrder,
                      Recovered, Guard, MarkSettlement, Look, Mark, Flag, RecoverLook, RecoverMark,
                      RecoverFlag, ExpireQuotes, Disable, Enable, Revoke, Overdue
<1> QED
  BY <1>1, <1>12, <1>13 DEF BoundToOne

----------------------------------------------------------------------------
(* The theorems.                                                           *)

\* Before the first request there is neither an offer nor an order.
LEMMA OrderInit == Init => OrderInv
<1> SUFFICES ASSUME Init PROVE OrderInv
  OBVIOUS
<1>1. order = NoOrder /\ order.status = "none" /\ order.quote = 0 /\ order \in OrderRows
  BY BoundsAreNumbers DEF Init, NoOrder, OrderRows, OrderStates
<1>2. /\ intent.quote = 0 /\ intent.hash = None /\ intent.state = "awaiting_payment"
      /\ intent \in IntentRows
  BY BoundsAreNumbers DEF Init, NoIntent, IntentRows
<1>3. TypeOK
  <2>1. 0 \in 0..MaxQuotes /\ 0 \in 0..MaxMishaps
    BY BoundsAreNumbers
  <2>2. terms \in [kind : {"registration", "order"}, billing : {"charged", "admin_waived"}, bundle : BOOLEAN]
    BY TermsAreKnown DEF Init
  <2>3. Registers => ~Waived /\ ~terms.bundle
    BY DEF Init, Registers, Waived
  <2>4. auth \in [Requests -> Auths]
    BY RetriesCarryAuths DEF Init
  <2>5. fresh \in [Requests -> (0..MaxQuotes) \X (0..MaxQuotes)] /\ pc \in [Requests -> Places]
    BY <2>1 DEF Init, Nothing, Places, Before
  <2> QED
    BY <1>1, <1>2, <2>1, <2>2, <2>3, <2>4, <2>5 DEF Init, TypeOK, QuoteStates, OrderStates
<1> QED
  BY <1>1, <1>2, <1>3
  DEF Init, OrderInv, QueuedIsPaid, OwedOnce, BundleQuoteFollowsOrder, RequestsRely, BoundToOne, Bound,
      InFlight

\* OrderInv is inductive.
LEMMA OrderInvStep == OrderInv /\ [Next]_vars => OrderInv'
  BY RowsStep, OrderTypeStep, RelyStep, BoundStep DEF OrderInv, Rows

\* For any number of requests, authorizations and offers: an order is queued only when it is paid
\* and its offer consumed, refunded once and not both, and holds the VM quote of its bundle
\* (_mark_paid, create_order, create_marketplace_order, expire_quotes).
THEOREM OrderSafe == Spec => []OrderInv
  BY OrderInit, OrderInvStep, PTL DEF Spec

\* However many authorizations a marketplace buyer tries, one is charged at most
\* (create_marketplace_order, mark_registration_settlement).
THEOREM ChargedOnce == Spec => []RegistrationChargedOnce
<1>1. OrderInv => RegistrationChargedOnce
  <2> SUFFICES ASSUME OrderInv, Registers, Unshared PROVE Cardinality(charged) <= 1
    BY DEF RegistrationChargedOnce
  <2>1. \A a, b \in charged : a = b
    BY DEF OrderInv, BoundToOne
  <2>2. CASE charged = {}
    BY <2>2, FS_EmptySet
  <2>3. ASSUME NEW a \in charged PROVE Cardinality(charged) = 1
    <3>1. charged = {a}
      BY <2>1
    <3> QED
      BY <3>1, FS_Singleton
  <2> QED
    BY <2>2, <2>3
<1> QED
  BY <1>1, OrderSafe, PTL

\* Money moves only while the owner's account is enabled, whatever an administrator does
\* meanwhile (x402_payment_guard).
THEOREM ChargedEnabled == Spec => ChargedWhileEnabled
<1>1. OrderInv /\ [Next]_vars => [charged' # charged => enabled]_vars
  <2> SUFFICES ASSUME OrderInv, [Next]_vars, charged' # charged PROVE enabled
    OBVIOUS
  <2>1. \E r \in Requests : Settle(r)
    BY DEF Next, Request, Crash, Prepare, Rebind, Verify, CreateMarketplaceOrder, CreateOrder, Recovered,
           Guard, MarkSettlement, Look, Mark, Flag, RecoverLook, RecoverMark, RecoverFlag, ExpireQuotes,
           Disable, Enable, Revoke, Overdue
  <2> QED
    BY <2>1, Parts DEF Settle, RequestsRely
<1> QED
  BY <1>1, OrderSafe, PTL DEF Spec, ChargedWhileEnabled

=============================================================================
