------------------------ MODULE AdminOperationsProofs ------------------------
(***************************************************************************)
(* What TLC checks of AdminOperations for two workers, one VM and three    *)
(* requests holds for any number of them.  The inductive invariant is      *)
(* QueueInv; its parts are proved one after the other.                     *)
(***************************************************************************)
EXTENDS AdminOperations, TLAPS

USE DEF vars, account, resources

\* What happens to the resources outside of the queue.
Surprise(v) == \/ CreateGuest(v) \/ Restrict(v) \/ Finalize(v) \/ ProvisioningFails(v)
               \/ AdminStart(v) \/ AdminStop(v) \/ Expire(v) \/ Destroy(v)

\* No operation is lost and none changes its kind.
OpsKept == /\ ops' \in Seq(OperationRows) /\ DOMAIN ops \subseteq DOMAIN ops'
           /\ \A i \in DOMAIN ops : ops'[i].kind = ops[i].kind
\* None is completed.
NoneEnds == \A i \in DOMAIN ops : ops[i].status # "completed" => ops'[i].status # "completed"
\* A request has queued an operation for what the account has become.
Requested == /\ lease = None /\ lease' = None
             /\ \E i \in DOMAIN ops' : /\ ops'[i].status = "queued"
                                       /\ (ops'[i].kind = "suspend") <=> disabled'

----------------------------------------------------------------------------
(* The queue.                                                              *)

\* A row of a sequence is replaced.
LEMMA RowWritten ==
  ASSUME NEW S, NEW s \in Seq(S), NEW i \in DOMAIN s, NEW row \in S
  PROVE  LET t == [s EXCEPT ![i] = row]
         IN  t \in Seq(S) /\ DOMAIN t = DOMAIN s /\ t[i] = row /\ \A j \in DOMAIN s : j # i => t[j] = s[j]
<1>1. DOMAIN s = 1..Len(s) /\ Len(s) \in Nat /\ s \in [1..Len(s) -> S]
  OBVIOUS
<1>2. [s EXCEPT ![i] = row] \in [1..Len(s) -> S]
  BY <1>1
<1>3. [s EXCEPT ![i] = row] \in Seq(S)
  BY <1>1, <1>2
<1> QED
  BY <1>1, <1>2, <1>3

\* The same of the operations: its kind is kept, and unless the row says so nothing ends.
LEMMA OperationWritten ==
  ASSUME ops \in Seq(OperationRows), NEW i \in DOMAIN ops, NEW row \in OperationRows,
         row.kind = ops[i].kind, ops' = [ops EXCEPT ![i] = row]
  PROVE  /\ OpsKept
         /\ row.status # "completed" \/ ops[i].status = "completed" => NoneEnds
         /\ \A j \in DOMAIN ops : j # i => ops'[j] = ops[j]
  BY RowWritten DEF OpsKept, NoneEnds

\* A request appends its operation.
LEMMA OperationQueued ==
  ASSUME ops \in Seq(OperationRows), NEW other \in Kinds, NEW kind \in Kinds,
         ops' = Append(Supersede(other), Operation(kind))
  PROVE  /\ OpsKept
         /\ \E i \in DOMAIN ops' : ops'[i] = Operation(kind)
<1> DEFINE s == Supersede(other)
<1>1. DOMAIN ops = 1..Len(ops) /\ Len(ops) \in Nat
  OBVIOUS
<1>2. \A i \in 1..Len(ops) : ops[i] \in OperationRows
  OBVIOUS
<1>3. \A i \in 1..Len(ops) : s[i] \in OperationRows /\ s[i].kind = ops[i].kind
  BY <1>1, <1>2 DEF Supersede, OperationRows
<1>4. s \in [1..Len(ops) -> OperationRows]
  BY <1>1, <1>3 DEF Supersede
<1>5. s \in Seq(OperationRows) /\ Len(s) = Len(ops)
  BY <1>1, <1>4
<1>6. Operation(kind) \in OperationRows
  BY DEF Operation, OperationRows
<1> HIDE DEF s
<1>7. ops' = Append(s, Operation(kind))
  BY DEF s
<1> QED
  BY <1>1, <1>3, <1>5, <1>6, <1>7 DEF OpsKept

\* What each step does to the operations: it completes none of them, or it is a request, or
\* the worker that finishes one.
LEMMA OpsStep ==
  ASSUME TypeOK, [Next]_vars
  PROVE  /\ OpsKept
         /\ \/ disabled' = disabled /\ NoneEnds
            \/ Requested /\ UNCHANGED <<resources, work>>
            \/ \E w \in Workers :
                 /\ Finish(w)
                 /\ \A i \in DOMAIN ops : i # work[w].op => ops'[i] = ops[i]
<1> DEFINE Goal == /\ OpsKept
                   /\ \/ disabled' = disabled /\ NoneEnds
                      \/ Requested /\ UNCHANGED <<resources, work>>
                      \/ \E w \in Workers :
                           /\ Finish(w)
                           /\ \A i \in DOMAIN ops : i # work[w].op => ops'[i] = ops[i]
<1>0. ops \in Seq(OperationRows) /\ \A i \in DOMAIN ops : ops[i] \in OperationRows
  BY DEF TypeOK
<1>1. CASE DisableAccount
  <2>1. OpsKept /\ \E i \in DOMAIN ops' : ops'[i] = Operation("suspend")
    BY <1>0, <1>1, OperationQueued DEF DisableAccount, Kinds
  <2>2. PICK i \in DOMAIN ops' : ops'[i] = Operation("suspend")
    BY <2>1
  <2>3. disabled' = TRUE /\ lease = None /\ UNCHANGED <<lease, resources, work>>
    BY <1>1 DEF DisableAccount
  <2>4. ops'[i].status = "queued" /\ ((ops'[i].kind = "suspend") <=> disabled')
    BY <2>2, <2>3 DEF Operation
  <2> QED
    BY <2>1, <2>3, <2>4 DEF Requested
<1>2. CASE EnableAccount
  <2>1. OpsKept /\ \E i \in DOMAIN ops' : ops'[i] = Operation("resume")
    BY <1>0, <1>2, OperationQueued DEF EnableAccount, Kinds
  <2>2. PICK i \in DOMAIN ops' : ops'[i] = Operation("resume")
    BY <2>1
  <2>3. disabled' = FALSE /\ lease = None /\ UNCHANGED <<lease, resources, work>>
    BY <1>2 DEF EnableAccount
  <2>4. ops'[i].status = "queued" /\ ((ops'[i].kind = "suspend") <=> disabled')
    BY <2>2, <2>3 DEF Operation
  <2> QED
    BY <2>1, <2>3, <2>4 DEF Requested
<1>3. ASSUME NEW i \in DOMAIN ops, RetryAdminOperation(i) PROVE Goal
  <2>1. Operation(ops[i].kind) \in OperationRows
    BY <1>0 DEF Operation, OperationRows
  <2> QED
    BY <1>0, <1>3, <2>1, OperationWritten DEF RetryAdminOperation, Operation
<1>4. ASSUME NEW i \in DOMAIN ops, GoesStale(i) PROVE Goal
  <2> DEFINE row == [ops[i] EXCEPT !.fresh = FALSE]
  <2>1. row \in OperationRows /\ row.kind = ops[i].kind /\ row.status = ops[i].status
    BY <1>0 DEF OperationRows
  <2>2. ops' = [ops EXCEPT ![i] = row] /\ disabled' = disabled /\ row.status # "completed"
    BY <1>4, <2>1 DEF GoesStale
  <2> HIDE DEF row
  <2> QED
    BY <1>0, <2>1, <2>2, OperationWritten
<1>5. ASSUME NEW w \in Workers, Claim(w) PROVE Goal
  <2>1. PICK i \in DOMAIN ops : ops' = [ops EXCEPT ![i].status = "running", ![i].fresh = TRUE]
    BY <1>5 DEF Claim, Eligible
  <2> DEFINE row == [ops[i] EXCEPT !.status = "running", !.fresh = TRUE]
  <2>2. row \in OperationRows /\ row.kind = ops[i].kind /\ row.status # "completed"
    BY <1>0 DEF OperationRows
  <2>3. ops' = [ops EXCEPT ![i] = row] /\ disabled' = disabled
    BY <1>0, <1>5, <2>1 DEF Claim
  <2> HIDE DEF row
  <2> QED
    BY <1>0, <2>2, <2>3, OperationWritten
<1>6. ASSUME NEW w \in Workers, Finish(w) \/ StepFails(w) \/ Fallback(w) PROVE Goal
  <2> DEFINE i == work[w].op
  <2>1. i \in DOMAIN ops
    BY <1>6 DEF TypeOK, Finish, StepFails, Fallback
  <2>2. \A st \in {"failed", "completed"} : LET row == [ops[i] EXCEPT !.status = st] IN
          row \in OperationRows /\ row.kind = ops[i].kind /\ row.status = st
    BY <1>0, <2>1 DEF OperationRows
  <2>3. CASE Finish(w)
    <3>1. ops' = [ops EXCEPT ![i] = [ops[i] EXCEPT !.status = "completed"]]
      BY <2>3 DEF Finish
    <3>2. OpsKept /\ \A j \in DOMAIN ops : j # i => ops'[j] = ops[j]
      BY <1>0, <2>1, <2>2, <3>1, OperationWritten
    <3> QED
      BY <2>3, <3>2
  <2>4. CASE StepFails(w)
    <3>1. ops' = [ops EXCEPT ![i] = [ops[i] EXCEPT !.status = "failed"]] /\ disabled' = disabled
      BY <2>4 DEF StepFails
    <3> QED
      BY <1>0, <2>1, <2>2, <3>1, OperationWritten
  <2>5. CASE Fallback(w)
    <3> DEFINE row == [ops[i] EXCEPT !.status = IF @ = "running" THEN "failed" ELSE @]
    <3>1. ops' = [ops EXCEPT ![i] = row] /\ disabled' = disabled
      BY <2>5 DEF Fallback
    <3>2. /\ row \in OperationRows /\ row.kind = ops[i].kind
          /\ row.status = "completed" => ops[i].status = "completed"
      BY <1>0, <2>1 DEF OperationRows
    <3> HIDE DEF row
    <3> QED
      BY <1>0, <2>1, <3>1, <3>2, OperationWritten
  <2> QED
    BY <1>6, <2>3, <2>4, <2>5
<1>7. CASE UNCHANGED <<disabled, ops>>
  BY <1>0, <1>7 DEF OpsKept, NoneEnds
<1>8. QED
  BY <1>1, <1>2, <1>3, <1>4, <1>5, <1>6, <1>7
     DEF Next, Work, Lease, StepVM, StepMail, FinishFails, Crash, CreateGuest, Restrict, Finalize,
         ProvisioningFails, AdminStart, AdminStop, Expire, Destroy, Befalls, TimePasses

----------------------------------------------------------------------------
(* Types.                                                                  *)

\* A VM's row stays one, whichever way the worker brings it in line.
LEMMA AppliedType ==
  ASSUME TypeOK, NEW w \in Workers, NEW v \in VMs
  PROVE  Applied(w, v) \in VMRows
<1>1. vm[v] \in VMRows
  BY DEF TypeOK
<1>2. Halted(vm[v]) \in {"none", "on", "off"} /\ Started(vm[v]) \in {"none", "on", "off"}
  BY <1>1 DEF Halted, Started, VMRows
<1>3. Suspended(vm[v]) \in VMRows
  BY <1>1, <1>2 DEF Suspended, VMRows, Terminal
<1>4. Resumed(vm[v], v \in overdue) \in VMRows
  BY <1>1, <1>2 DEF Resumed, VMRows, Terminal
<1> QED
  BY <1>3, <1>4 DEF Applied

\* A surprise writes one well-formed row and leaves the queue alone.
LEMMA SurpriseEffect ==
  ASSUME TypeOK, NEW v \in VMs, Surprise(v)
  PROVE  /\ UNCHANGED <<account, mail, overdue, work>>
         /\ \E row \in VMRows : vm' = [vm EXCEPT ![v] = row]
<1>1. vm[v] \in VMRows
  BY DEF TypeOK
<1>2. Halted(vm[v]) \in {"none", "on", "off"} /\ Started(vm[v]) \in {"none", "on", "off"}
  BY <1>1 DEF Halted, Started, VMRows
<1> USE <1>1, <1>2 DEF Befalls, VMRows, Terminal
<1>3. CASE CreateGuest(v)
  BY <1>3 DEF CreateGuest
<1>4. CASE Restrict(v)
  BY <1>4 DEF Restrict
<1>5. CASE Finalize(v)
  BY <1>5 DEF Finalize
<1>6. CASE ProvisioningFails(v)
  BY <1>6 DEF ProvisioningFails
<1>7. CASE AdminStart(v)
  BY <1>7 DEF AdminStart
<1>8. CASE AdminStop(v)
  BY <1>8 DEF AdminStop
<1>9. CASE Expire(v)
  BY <1>9 DEF Expire
<1>10. CASE Destroy(v)
  BY <1>10 DEF Destroy
<1> QED
  BY <1>3, <1>4, <1>5, <1>6, <1>7, <1>8, <1>9, <1>10 DEF Surprise

\* Every step keeps the types of the VMs, the mailbox and the account.
LEMMA ResourcesStep ==
  ASSUME TypeOK, [Next]_vars
  PROVE  /\ vm' \in [VMs -> VMRows] /\ mail' \in MailRows /\ overdue' \subseteq VMs \cup {Mail}
         /\ disabled' \in BOOLEAN
<1> DEFINE Goal == /\ vm' \in [VMs -> VMRows] /\ mail' \in MailRows
                   /\ overdue' \subseteq VMs \cup {Mail} /\ disabled' \in BOOLEAN
<1>0. /\ vm \in [VMs -> VMRows] /\ mail \in MailRows /\ overdue \subseteq VMs \cup {Mail}
      /\ disabled \in BOOLEAN
  BY DEF TypeOK
<1>1. CASE DisableAccount \/ EnableAccount
  BY <1>0, <1>1 DEF DisableAccount, EnableAccount
<1>2. ASSUME NEW v \in VMs, Surprise(v) PROVE Goal
  BY <1>0, <1>2, SurpriseEffect
<1>3. ASSUME NEW w \in Workers, NEW v \in VMs, StepVM(w, v) PROVE Goal
  BY <1>0, <1>3, AppliedType DEF StepVM
<1>4. ASSUME NEW w \in Workers, StepMail(w) PROVE Goal
  BY <1>0, <1>4 DEF StepMail, MailRows
<1>5. ASSUME NEW w \in Workers, StepFails(w) \/ Crash(w) PROVE Goal
  <2>1. UNCHANGED <<disabled, mail, overdue>>
    BY <1>5 DEF StepFails, Crash
  <2>2. CASE vm' = vm
    BY <1>0, <2>1, <2>2
  <2>3. ASSUME NEW v \in VMs, vm' = [vm EXCEPT ![v].guest = Applied(w, v).guest] PROVE Goal
    <3>1. Applied(w, v).guest \in {"none", "on", "off"}
      BY AppliedType DEF VMRows
    <3> QED
      BY <1>0, <2>1, <2>3, <3>1 DEF VMRows
  <2>4. work[w].todo \ {Mail} \subseteq VMs
    BY DEF TypeOK, WorkRows
  <2> QED
    BY <1>5, <2>2, <2>3, <2>4 DEF StepFails, Crash
<1>6. ASSUME NEW r \in VMs \cup {Mail}, TimePasses(r) PROVE Goal
  BY <1>0, <1>6 DEF TimePasses
<1>7. CASE UNCHANGED <<resources, disabled>>
  BY <1>0, <1>7
<1>8. QED
  BY <1>1, <1>2, <1>3, <1>4, <1>5, <1>6, <1>7
     DEF Next, Work, Surprise, RetryAdminOperation, GoesStale, Claim, Lease, Finish, FinishFails,
         Fallback

\* Every step keeps what the workers have in hand.
LEMMA WorkStep ==
  ASSUME TypeOK, [Next]_vars, OpsKept
  PROVE  /\ lease' \in Workers \cup {None}
         /\ work' \in [Workers -> WorkRows]
         /\ \A w \in Workers : /\ work'[w].at = "applying" <=> lease' = w
                               /\ work'[w].at # "idle" => work'[w].op \in DOMAIN ops'
                               /\ work'[w].todo # {} => work'[w].at = "applying"
<1> DEFINE Goal == /\ lease' \in Workers \cup {None}
                   /\ work' \in [Workers -> WorkRows]
                   /\ \A w \in Workers : /\ work'[w].at = "applying" <=> lease' = w
                                         /\ work'[w].at # "idle" => work'[w].op \in DOMAIN ops'
                                         /\ work'[w].todo # {} => work'[w].at = "applying"
<1>0. /\ lease \in Workers \cup {None} /\ None \notin Workers /\ work \in [Workers -> WorkRows]
      /\ \A w \in Workers : /\ work[w] \in WorkRows
                            /\ work[w].at = "applying" <=> lease = w
                            /\ work[w].at # "idle" => work[w].op \in DOMAIN ops
                            /\ work[w].todo # {} => work[w].at = "applying"
      /\ DOMAIN ops \subseteq DOMAIN ops' /\ DOMAIN ops \subseteq Nat
  BY ResourcesAreDistinct DEF TypeOK, OpsKept
<1> USE <1>0 DEF WorkRows, Idle
<1>1. ASSUME NEW w \in Workers, Claim(w) PROVE Goal
  BY <1>1 DEF Claim, Eligible
<1>2. ASSUME NEW w \in Workers, Lease(w) PROVE Goal
  BY <1>2 DEF Lease
<1>3. ASSUME NEW w \in Workers, NEW v \in VMs, StepVM(w, v) PROVE Goal
  BY <1>3 DEF StepVM
<1>4. ASSUME NEW w \in Workers, StepMail(w) PROVE Goal
  BY <1>4 DEF StepMail
<1>5. ASSUME NEW w \in Workers, Finish(w) \/ StepFails(w) PROVE Goal
  BY <1>5 DEF Finish, StepFails
<1>6. ASSUME NEW w \in Workers, FinishFails(w) PROVE Goal
  BY <1>6 DEF FinishFails
<1>7. ASSUME NEW w \in Workers, Fallback(w) PROVE Goal
  BY <1>7 DEF Fallback
<1>8. ASSUME NEW w \in Workers, Crash(w) PROVE Goal
  BY <1>8 DEF Crash
<1>9. CASE UNCHANGED <<lease, work>>
  BY <1>9
<1>10. ASSUME NEW v \in VMs, Surprise(v) PROVE Goal
  BY <1>9, <1>10, SurpriseEffect
<1>11. QED
  BY <1>1, <1>2, <1>3, <1>4, <1>5, <1>6, <1>7, <1>8, <1>9, <1>10
     DEF Next, Work, Surprise, RetryAdminOperation, GoesStale, DisableAccount, EnableAccount,
         TimePasses

\* The type invariant holds initially.
LEMMA TypeInit == Init => TypeOK
<1> SUFFICES ASSUME Init PROVE TypeOK
  OBVIOUS
<1>1. ops \in Seq(OperationRows)
  BY DEF Init
<1>2. work \in [Workers -> WorkRows] /\ \A w \in Workers : work[w].at = "idle" /\ work[w].todo = {}
  BY DEF Init, WorkRows, Idle
<1>3. NewVM \in VMRows /\ RunningVM \in VMRows /\ LegacyVM \in VMRows
  BY DEF VMRows, NewVM, RunningVM, LegacyVM
<1>4. vm \in [VMs -> VMRows]
  BY <1>3 DEF Init
<1>5. mail \in MailRows
  BY DEF Init, MailRows
<1>6. disabled \in BOOLEAN
  BY Zenon DEF Init
<1> QED
  BY <1>1, <1>2, <1>4, <1>5, <1>6, ResourcesAreDistinct DEF Init, TypeOK

\* The type invariant is kept by every step.
LEMMA TypeStep == TypeOK /\ [Next]_vars => TypeOK'
<1> SUFFICES ASSUME TypeOK, [Next]_vars PROVE TypeOK'
  OBVIOUS
<1>1. OpsKept
  BY OpsStep
<1> QED
  BY <1>1, ResourcesStep, WorkStep DEF TypeOK, OpsKept

----------------------------------------------------------------------------
(* The resources and the account.                                          *)

\* VMFits of a row.
RowFits(row) == IF disabled
                THEN \/ row.status \in Terminal
                     \/ row.status = "SUSPENDED" /\ row.guest # "on"
                     \/ row.status = "PROVISIONING" /\ row.reason # "none"
                ELSE row.reason # "account_disabled"

\* A worker that applies an operation for what the account is leaves a row that fits, and
\* does no harm to one that did when only its provider call takes effect.
LEMMA AppliedFits ==
  ASSUME TypeOK, NEW w \in Workers, NEW v \in VMs, Matches(ops[work[w].op].kind)
  PROVE  /\ RowFits(Applied(w, v))
         /\ RowFits(vm[v]) => RowFits([vm[v] EXCEPT !.guest = Applied(w, v).guest])
<1>1. vm[v] \in VMRows
  BY DEF TypeOK
<1>2. CASE disabled
  <2>1. Applied(w, v) = Suspended(vm[v])
    BY <1>2 DEF Applied, Matches
  <2>2. Halted(vm[v]) # "on"
    BY DEF Halted
  <2>3. RowFits(Suspended(vm[v]))
    BY <1>1, <1>2, <2>2 DEF RowFits, Suspended, VMRows, Terminal
  <2>4. vm[v].guest # "on" => Suspended(vm[v]).guest # "on"
    BY <1>1, <2>2 DEF Suspended, VMRows
  <2>5. RowFits(vm[v]) => RowFits([vm[v] EXCEPT !.guest = Suspended(vm[v]).guest])
    BY <1>1, <1>2, <2>4 DEF RowFits, VMRows
  <2> QED
    BY <2>1, <2>3, <2>5
<1>3. CASE ~disabled
  <2>1. Applied(w, v) = Resumed(vm[v], v \in overdue)
    BY <1>3 DEF Applied, Matches
  <2>2. RowFits(Resumed(vm[v], v \in overdue))
    BY <1>1, <1>3 DEF RowFits, Resumed, VMRows
  <2>3. \A g : RowFits(vm[v]) => RowFits([vm[v] EXCEPT !.guest = g])
    BY <1>1, <1>3 DEF RowFits, VMRows
  <2> QED
    BY <2>1, <2>2, <2>3
<1> QED
  BY <1>2, <1>3

\* What befalls a VM otherwise does not unsettle a row that fits.
LEMMA SurpriseFits ==
  ASSUME TypeOK, NEW v \in VMs, Surprise(v), RowFits(vm[v])
  PROVE  RowFits(vm'[v])
<1>1. vm[v] \in VMRows /\ vm \in [VMs -> VMRows]
  BY DEF TypeOK
<1>2. Halted(vm[v]) # "on"
  BY DEF Halted
<1> USE <1>1, <1>2 DEF Befalls, VMRows, Terminal, RowFits
<1>3. CASE CreateGuest(v)
  BY <1>3 DEF CreateGuest
<1>4. CASE Restrict(v)
  BY <1>4 DEF Restrict
<1>5. CASE Finalize(v)
  BY <1>5 DEF Finalize
<1>6. CASE ProvisioningFails(v)
  BY <1>6 DEF ProvisioningFails
<1>7. CASE AdminStart(v)
  BY <1>7 DEF AdminStart
<1>8. CASE AdminStop(v)
  BY <1>8 DEF AdminStop
<1>9. CASE Expire(v)
  BY <1>9 DEF Expire
<1>10. CASE Destroy(v)
  BY <1>10 DEF Destroy
<1> QED
  BY <1>3, <1>4, <1>5, <1>6, <1>7, <1>8, <1>9, <1>10 DEF Surprise

\* While the account stays what it is, what fits goes on fitting.
LEMMA FitsKept ==
  ASSUME TypeOK, WorkMatches, [Next]_vars, disabled' = disabled
  PROVE  /\ \A v \in VMs : RowFits(vm[v]) => RowFits(vm'[v])
         /\ MailFits => MailFits'
<1> DEFINE Goal == /\ \A v \in VMs : RowFits(vm[v]) => RowFits(vm'[v])
                   /\ MailFits => MailFits'
<1>0. vm \in [VMs -> VMRows] /\ mail \in MailRows
  BY DEF TypeOK
<1>1. CASE UNCHANGED <<vm, mail>>
  BY <1>1 DEF MailFits
<1>2. ASSUME NEW v \in VMs, Surprise(v) PROVE Goal
  <2>1. /\ mail' = mail
        /\ \E row \in VMRows : vm' = [vm EXCEPT ![v] = row]
    BY <1>2, SurpriseEffect
  <2>2. \A u \in VMs : u # v => vm'[u] = vm[u]
    BY <1>0, <2>1
  <2>3. MailFits => MailFits'
    BY <2>1 DEF MailFits
  <2> QED
    BY <1>2, <2>2, <2>3, SurpriseFits
<1>3. ASSUME NEW w \in Workers, NEW v \in VMs, StepVM(w, v) PROVE Goal
  <2>1. Matches(ops[work[w].op].kind)
    BY <1>3 DEF WorkMatches, StepVM
  <2>2. mail' = mail /\ vm' = [vm EXCEPT ![v] = Applied(w, v)]
    BY <1>3 DEF StepVM
  <2> QED
    BY <1>0, <2>1, <2>2, AppliedFits DEF MailFits
<1>4. ASSUME NEW w \in Workers, StepMail(w) PROVE Goal
  <2>1. Matches(ops[work[w].op].kind)
    BY <1>4 DEF WorkMatches, StepMail
  <2>2. vm' = vm
    BY <1>4 DEF StepMail
  <2>3. MailFits'
    BY <1>0, <1>4, <2>1 DEF StepMail, MailFits, Matches, MailRows
  <2> QED
    BY <2>2, <2>3
<1>5. ASSUME NEW w \in Workers, StepFails(w) \/ Crash(w) PROVE Goal
  <2>1. mail' = mail
    BY <1>5 DEF StepFails, Crash
  <2>2. CASE vm' = vm
    BY <1>1, <2>1, <2>2
  <2>3. ASSUME NEW v \in VMs, work[w].todo # {},
               vm' = [vm EXCEPT ![v].guest = Applied(w, v).guest]
        PROVE Goal
    <3>1. Matches(ops[work[w].op].kind)
      BY <2>3 DEF WorkMatches
    <3>2. vm'[v] = [vm[v] EXCEPT !.guest = Applied(w, v).guest] /\ \A u \in VMs : u # v => vm'[u] = vm[u]
      BY <1>0, <2>3
    <3>3. RowFits(vm[v]) => RowFits(vm'[v])
      BY <3>1, <3>2, AppliedFits
    <3>4. MailFits => MailFits'
      BY <2>1 DEF MailFits
    <3> QED
      BY <3>2, <3>3, <3>4
  <2>4. work[w].todo \ {Mail} \subseteq VMs
    BY DEF TypeOK, WorkRows
  <2> QED
    BY <1>5, <2>2, <2>3, <2>4 DEF StepFails, Crash
<1>6. QED
  BY <1>1, <1>2, <1>3, <1>4, <1>5
     DEF Next, Work, Surprise, RetryAdminOperation, GoesStale, Claim, Lease, Finish, FinishFails,
         Fallback, TimePasses, DisableAccount, EnableAccount

\* Whoever is applying after a step was applying before, or has just taken the lease; and
\* what it has behind it by the step fits.
LEMMA ApplyingStep ==
  ASSUME TypeOK, [Next]_vars, NEW w \in Workers, work'[w].at = "applying"
  PROVE  \/ Lease(w)
         \/ /\ work[w].at = "applying" /\ work'[w].op = work[w].op /\ work'[w].todo \subseteq work[w].todo
            /\ disabled' = disabled
            /\ \A v \in work[w].todo \ work'[w].todo : StepMail(w) \/ (v \in VMs /\ StepVM(w, v))
<1> DEFINE Goal ==
         \/ Lease(w)
         \/ /\ work[w].at = "applying" /\ work'[w].op = work[w].op /\ work'[w].todo \subseteq work[w].todo
            /\ disabled' = disabled
            /\ \A v \in work[w].todo \ work'[w].todo : StepMail(w) \/ (v \in VMs /\ StepVM(w, v))
<1>0. /\ work \in [Workers -> WorkRows] /\ work[w] \in WorkRows /\ None \notin Workers
      /\ \A x \in Workers : work[x].at = "applying" <=> lease = x
  BY ResourcesAreDistinct DEF TypeOK
<1> USE <1>0 DEF WorkRows, Idle
<1>1. ASSUME NEW x \in Workers, Claim(x) PROVE Goal
  BY <1>1 DEF Claim
<1>2. ASSUME NEW x \in Workers, Lease(x) PROVE Goal
  BY <1>2 DEF Lease
<1>3. ASSUME NEW x \in Workers, NEW v \in VMs, StepVM(x, v) PROVE Goal
  <2>1. work' = [work EXCEPT ![x].todo = @ \ {v}] /\ disabled' = disabled
    BY <1>3 DEF StepVM
  <2>2. CASE x = w
    <3>1. /\ work'[w].todo = work[w].todo \ {v} /\ work'[w].op = work[w].op
          /\ work[w].at = "applying"
      BY <1>3, <2>1, <2>2 DEF StepVM
    <3>2. \A u \in work[w].todo \ work'[w].todo : u = v
      BY <3>1
    <3> QED
      BY <1>3, <2>1, <2>2, <3>1, <3>2
  <2>3. CASE x # w
    BY <2>1, <2>3
  <2> QED
    BY <2>2, <2>3
<1>4. ASSUME NEW x \in Workers, StepMail(x) PROVE Goal
  <2>1. work' = [work EXCEPT ![x].todo = {}] /\ disabled' = disabled
    BY <1>4 DEF StepMail
  <2>2. CASE x = w
    <3>1. work[w].at = "applying" /\ work'[w].op = work[w].op /\ work'[w].todo = {}
      BY <1>4, <2>1, <2>2 DEF StepMail
    <3> QED
      BY <1>4, <2>1, <2>2, <3>1
  <2>3. CASE x # w
    BY <2>1, <2>3
  <2> QED
    BY <2>2, <2>3
<1>5. ASSUME NEW x \in Workers, Finish(x) \/ StepFails(x) PROVE Goal
  BY <1>5 DEF Finish, StepFails
<1>6. ASSUME NEW x \in Workers, FinishFails(x) PROVE Goal
  BY <1>6 DEF FinishFails
<1>7. ASSUME NEW x \in Workers, Fallback(x) PROVE Goal
  BY <1>7 DEF Fallback
<1>8. ASSUME NEW x \in Workers, Crash(x) PROVE Goal
  BY <1>8 DEF Crash
<1>9. CASE UNCHANGED <<disabled, work>>
  BY <1>9
<1>10. ASSUME NEW v \in VMs, Surprise(v) PROVE Goal
  BY <1>9, <1>10, SurpriseEffect
<1>11. CASE DisableAccount \/ EnableAccount
  BY <1>11 DEF DisableAccount, EnableAccount
<1>12. QED
  BY <1>1, <1>2, <1>3, <1>4, <1>5, <1>6, <1>7, <1>8, <1>9, <1>10, <1>11
     DEF Next, Work, Surprise, RetryAdminOperation, GoesStale, TimePasses

\* A worker has resources ahead only for an operation that asks for what the account is.
LEMMA WorkMatchesStep == TypeOK /\ WorkMatches /\ [Next]_vars => WorkMatches'
<1> SUFFICES ASSUME TypeOK, WorkMatches, [Next]_vars, NEW w \in Workers, work'[w].todo # {}
             PROVE  Matches(ops[work[w].op].kind)'
  BY DEF WorkMatches
<1>1. TypeOK' /\ OpsKept
  BY TypeStep, OpsStep
<1>2. work'[w].at = "applying"
  BY <1>1 DEF TypeOK
<1>3. CASE Lease(w)
  <2>1. work[w] \in WorkRows /\ work \in [Workers -> WorkRows] /\ UNCHANGED <<disabled, ops>>
    BY <1>3 DEF TypeOK, Lease
  <2>2. /\ work'[w].op = work[w].op
        /\ work'[w].todo = IF Matches(ops[work[w].op].kind) THEN VMs \cup {Mail} ELSE {}
    BY <1>3, <2>1 DEF Lease, WorkRows
  <2> QED
    BY <2>1, <2>2 DEF Matches
<1>4. ASSUME work[w].at = "applying", work'[w].op = work[w].op,
             work'[w].todo \subseteq work[w].todo, disabled' = disabled
      PROVE  Matches(ops[work[w].op].kind)'
  <2>1. Matches(ops[work[w].op].kind)
    BY <1>4 DEF WorkMatches
  <2>2. ops'[work'[w].op].kind = ops[work[w].op].kind
    BY <1>1, <1>4 DEF TypeOK, OpsKept
  <2> QED
    BY <1>4, <2>1, <2>2 DEF Matches
<1> QED
  BY <1>2, <1>3, <1>4, ApplyingStep

\* What a worker has behind it fits the account.
LEMMA WorkFitsStep == TypeOK /\ WorkMatches /\ WorkFits /\ [Next]_vars => WorkFits'
<1> SUFFICES ASSUME TypeOK, WorkMatches, WorkFits, [Next]_vars, NEW w \in Workers,
                    work'[w].at = "applying", Matches(ops[work[w].op].kind)'
             PROVE  /\ \A v \in VMs : v \notin work'[w].todo => VMFits(v)'
                    /\ Mail \notin work'[w].todo => MailFits'
  BY DEF WorkFits
<1>1. OpsKept
  BY OpsStep
<1>2. CASE Lease(w)
  <2>1. work[w] \in WorkRows /\ work \in [Workers -> WorkRows] /\ UNCHANGED <<disabled, ops>>
    BY <1>2 DEF TypeOK, Lease
  <2>2. /\ work'[w].op = work[w].op
        /\ work'[w].todo = IF Matches(ops[work[w].op].kind) THEN VMs \cup {Mail} ELSE {}
    BY <1>2, <2>1 DEF Lease, WorkRows
  <2>3. work'[w].todo = VMs \cup {Mail}
    BY <2>1, <2>2 DEF Matches
  <2> QED
    BY <2>3
<1>3. ASSUME work[w].at = "applying", work'[w].op = work[w].op,
             work'[w].todo \subseteq work[w].todo, disabled' = disabled,
             \A v \in work[w].todo \ work'[w].todo : StepMail(w) \/ (v \in VMs /\ StepVM(w, v))
      PROVE  /\ \A v \in VMs : v \notin work'[w].todo => VMFits(v)'
             /\ Mail \notin work'[w].todo => MailFits'
  <2>1. Matches(ops[work[w].op].kind)
    <3>1. ops'[work'[w].op].kind = ops[work[w].op].kind
      BY <1>1, <1>3 DEF TypeOK, OpsKept
    <3> QED
      BY <1>3, <3>1 DEF Matches
  <2>2. \A v \in VMs : (VMFits(v) <=> RowFits(vm[v])) /\ (VMFits(v)' <=> RowFits(vm'[v]))
    BY <1>3 DEF VMFits, RowFits
  <2>3. ASSUME NEW v \in VMs, v \notin work'[w].todo PROVE VMFits(v)'
    <3>1. CASE v \notin work[w].todo
      <4>1. VMFits(v)
        BY <1>3, <2>1, <3>1 DEF WorkFits
      <4> QED
        BY <1>3, <2>2, <4>1, FitsKept
    <3>2. CASE StepVM(w, v)
      <4>1. vm'[v] = Applied(w, v)
        BY <3>2 DEF StepVM, TypeOK
      <4> QED
        BY <2>1, <2>2, <4>1, AppliedFits
    <3>3. CASE v \in work[w].todo /\ StepMail(w)
      BY <3>3, ResourcesAreDistinct DEF StepMail
    <3> QED
      BY <1>3, <2>3, <3>1, <3>2, <3>3
  <2>4. ASSUME Mail \notin work'[w].todo PROVE MailFits'
    <3>1. CASE Mail \notin work[w].todo
      <4>1. MailFits
        BY <1>3, <2>1, <3>1 DEF WorkFits
      <4> QED
        BY <1>3, <4>1, FitsKept
    <3>2. CASE StepMail(w)
      <4>1. mail \in MailRows
        BY DEF TypeOK
      <4> QED
        BY <1>3, <2>1, <3>2, <4>1 DEF StepMail, MailFits, Matches, MailRows
    <3> QED
      BY <1>3, <2>4, <3>1, <3>2, ResourcesAreDistinct
  <2> QED
    BY <2>3, <2>4
<1> QED
  BY <1>2, <1>3, ApplyingStep

\* The account's resources fit, or an operation that is not over will see to it.
LEMMA OwedStep == TypeOK /\ WorkMatches /\ WorkFits /\ FitsOrOwed /\ [Next]_vars => FitsOrOwed'
<1> SUFFICES ASSUME TypeOK, WorkMatches, WorkFits, FitsOrOwed, [Next]_vars PROVE FitsOrOwed'
  OBVIOUS
<1>1. OpsKept
  BY OpsStep
<1>2. ASSUME disabled' = disabled, Fits PROVE FitsOrOwed'
  <2>1. \A v \in VMs : (VMFits(v) <=> RowFits(vm[v])) /\ (VMFits(v)' <=> RowFits(vm'[v]))
    BY <1>2 DEF VMFits, RowFits
  <2>2. Fits'
    BY <1>2, <2>1, FitsKept DEF Fits
  <2> QED
    BY <2>2 DEF FitsOrOwed
<1>3. ASSUME disabled' = disabled, NEW i \in DOMAIN ops, Matches(ops[i].kind),
             ops'[i].status # "completed"
      PROVE  FitsOrOwed'
  <2>1. i \in DOMAIN ops' /\ ops'[i].kind = ops[i].kind
    BY <1>1 DEF OpsKept
  <2>2. Matches(ops[i].kind)'
    BY <1>3, <2>1 DEF Matches
  <2> QED
    BY <1>3, <2>1, <2>2 DEF FitsOrOwed
<1>4. CASE disabled' = disabled /\ NoneEnds
  BY <1>2, <1>3, <1>4 DEF FitsOrOwed, NoneEnds
<1>5. CASE Requested
  <2>1. PICK i \in DOMAIN ops' : ops'[i].status = "queued" /\ ((ops'[i].kind = "suspend") <=> disabled')
    BY <1>5 DEF Requested
  <2>2. Matches(ops[i].kind)'
    BY <2>1 DEF Matches
  <2> QED
    BY <2>1, <2>2 DEF FitsOrOwed
<1>6. ASSUME NEW w \in Workers, Finish(w), \A i \in DOMAIN ops : i # work[w].op => ops'[i] = ops[i]
      PROVE  FitsOrOwed'
  <2>1. disabled' = disabled /\ UNCHANGED resources /\ work[w].at = "applying" /\ work[w].todo = {}
    BY <1>6 DEF Finish
  <2>2. CASE Matches(ops[work[w].op].kind)
    BY <1>2, <2>1, <2>2 DEF WorkFits, Fits
  <2>3. CASE Fits
    BY <1>2, <2>1, <2>3
  <2>4. ASSUME NEW i \in DOMAIN ops, Matches(ops[i].kind), ops[i].status # "completed",
               i # work[w].op
        PROVE  FitsOrOwed'
    BY <1>3, <1>6, <2>1, <2>4
  <2> QED
    BY <2>2, <2>3, <2>4 DEF FitsOrOwed
<1> QED
  BY <1>4, <1>5, <1>6, OpsStep

\* The invariant holds initially.
LEMMA QueueInit == Init => QueueInv
<1> SUFFICES ASSUME Init PROVE QueueInv
  OBVIOUS
<1>1. TypeOK
  BY TypeInit
<1>2. \A w \in Workers : work[w].at = "idle" /\ work[w].todo = {}
  BY DEF Init, Idle
<1>3. WorkFits /\ WorkMatches
  BY <1>2 DEF WorkFits, WorkMatches
<1>4. ASSUME disabled = FALSE, mail = [status |-> "active", reason |-> "none"],
             vm \in [VMs -> {NewVM, RunningVM}]
      PROVE  Fits
  <2>1. NewVM.reason = "none" /\ RunningVM.reason = "none" /\ mail.reason = "none"
    BY <1>4 DEF NewVM, RunningVM
  <2>2. \A v \in VMs : vm[v].reason = "none"
    BY <1>4, <2>1
  <2>3. MailFits /\ \A v \in VMs : VMFits(v)
    BY <1>4, <2>1, <2>2 DEF VMFits, MailFits
  <2> QED
    BY <2>3 DEF Fits
<1>5. ASSUME disabled = TRUE, mail = [status |-> "suspended", reason |-> "account_disabled"],
             vm = [v \in VMs |-> LegacyVM]
      PROVE  Fits
  <2>1. mail.status = "suspended" /\ \A v \in VMs : vm[v].status = "SUSPENDED" /\ vm[v].guest = "none"
    BY <1>5 DEF LegacyVM
  <2>2. MailFits /\ \A v \in VMs : VMFits(v)
    BY <1>5, <2>1 DEF VMFits, MailFits
  <2> QED
    BY <2>2 DEF Fits
<1>6. Fits
  BY <1>4, <1>5 DEF Init
<1> QED
  BY <1>1, <1>3, <1>6 DEF QueueInv, FitsOrOwed, SettledFits

\* The invariant is kept by every step: what is completed is not owed, so the rest fits.
LEMMA QueueStep == QueueInv /\ [Next]_vars => QueueInv'
<1> SUFFICES ASSUME QueueInv, [Next]_vars PROVE QueueInv'
  OBVIOUS
<1>1. TypeOK' /\ WorkMatches' /\ WorkFits' /\ FitsOrOwed'
  BY TypeStep, WorkMatchesStep, WorkFitsStep, OwedStep DEF QueueInv
<1>2. SettledFits'
  BY <1>1 DEF FitsOrOwed, SettledFits
<1> QED
  BY <1>1, <1>2 DEF QueueInv

----------------------------------------------------------------------------
\* In whatever order administrators disable, enable and retry, and workers claim, apply, fail,
\* die and are taken over, a queue with nothing left to do leaves every VM and the mailbox as
\* the account is now (process_admin_operations, _apply_account_operation).
THEOREM QueueSafe == Spec => []QueueInv
  BY QueueInit, QueueStep, PTL DEF Spec

\* A worker never starts a guest of a disabled account, one that an operator has stopped or
\* one whose time is over, also when it dies between the provider's answer and its commit
\* (_apply_locked_account_operation).
THEOREM ResumeSafe == Spec => ResumesOnlyWhatItStopped
<1>1. ASSUME QueueInv, [Next]_vars, NEW v \in VMs,
             vm[v].guest = "off", vm'[v].guest = "on", lease # None
      PROVE  ~disabled /\ vm[v].reason = "account_disabled" /\ v \notin overdue
  <2> DEFINE Goal == ~disabled /\ vm[v].reason = "account_disabled" /\ v \notin overdue
  <2>0. /\ vm \in [VMs -> VMRows] /\ vm[v] \in VMRows
        /\ \A w \in Workers : work[w].todo \ {Mail} \subseteq VMs
    BY <1>1 DEF QueueInv, TypeOK, WorkRows
  <2>1. ASSUME NEW w \in Workers, work[w].todo # {}, Applied(w, v).guest = "on" PROVE Goal
    <3>1. Matches(ops[work[w].op].kind)
      BY <1>1, <2>1 DEF QueueInv, WorkMatches
    <3>2. Suspended(vm[v]).guest # "on"
      BY <1>1, <2>0 DEF Suspended, Halted, VMRows
    <3>3. ~disabled /\ Resumed(vm[v], v \in overdue).guest = "on"
      BY <2>1, <3>1, <3>2 DEF Applied, Matches
    <3>4. vm[v].reason = "account_disabled" /\ v \notin overdue
      BY <1>1, <2>0, <3>3 DEF Resumed, VMRows
    <3> QED
      BY <3>3, <3>4
  <2>2. ASSUME NEW w \in Workers, NEW u \in VMs, StepVM(w, u) PROVE Goal
    <3>1. u = v /\ vm'[v] = Applied(w, v)
      BY <1>1, <2>0, <2>2 DEF StepVM
    <3> QED
      BY <1>1, <2>1, <2>2, <3>1 DEF StepVM
  <2>3. ASSUME NEW w \in Workers, StepFails(w) \/ Crash(w) PROVE Goal
    <3>1. PICK u \in work[w].todo \ {Mail} : vm' = [vm EXCEPT ![u].guest = Applied(w, u).guest]
      BY <1>1, <2>3 DEF StepFails, Crash
    <3>2. u = v /\ Applied(w, v).guest = "on"
      BY <1>1, <2>0, <3>1 DEF VMRows
    <3> QED
      BY <2>1, <3>1, <3>2
  <2>4. ASSUME NEW u \in VMs, Surprise(u) PROVE Goal
    <3>1. u = v
      BY <1>1, <2>0, <2>4, SurpriseEffect DEF QueueInv
    <3>2. CreateGuest(v)
      BY <1>1, <2>4, <3>1 DEF Surprise, Restrict, Finalize, ProvisioningFails, AdminStart,
         AdminStop, Expire, Destroy
    <3> QED
      BY <1>1, <3>2 DEF CreateGuest
  <2>5. CASE vm' = vm
    BY <1>1, <2>5
  <2>6. QED
    BY <1>1, <2>2, <2>3, <2>4, <2>5
       DEF Next, Work, Surprise, RetryAdminOperation, GoesStale, Claim, Lease, StepMail, Finish,
           FinishFails, Fallback, TimePasses, DisableAccount, EnableAccount
<1>2. QueueInv /\ [Next]_vars =>
        [\A v \in VMs : vm[v].guest = "off" /\ vm'[v].guest = "on" /\ lease # None =>
            ~disabled /\ vm[v].reason = "account_disabled" /\ v \notin overdue]_vars
  BY <1>1
<1> QED
  BY <1>2, QueueSafe, PTL DEF Spec, ResumesOnlyWhatItStopped

=============================================================================
