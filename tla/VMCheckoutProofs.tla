-------------------------- MODULE VMCheckoutProofs --------------------------
(***************************************************************************)
(* What TLC checks of VMCheckout for two requests holds for any finite set *)
(* of them, any number of prefixes and slots and any number of mishaps,    *)
(* unless the commit of start_provisioning is made and not acknowledged.   *)
(* The inductive invariant is CheckoutInv: its parts are proved one after  *)
(* the other, each from the ones before.  The actions that write a row are *)
(* first reduced to what they do to its fields.                            *)
(***************************************************************************)
EXTENDS VMCheckout, FiniteSetTheorems, TLAPS

USE DEF vars, setting, gate, rows, authority, At, Goto, Fine, GoesWrong

\* A row of the table, as TypeOK has it.
RowType == [status : {"none", "PROVISIONING", "RUNNING", "FAILED"}, paid : BOOLEAN,
            prefix : Prefixes \cup {None}, handoff : {"none", "pending", "ready"},
            admitted : BOOLEAN]
RowOK(v) == /\ v \in RowType
            /\ (v.prefix # None) <=> v.status \in {"PROVISIONING", "RUNNING"}
            /\ (v.handoff # "none") <=> v.paid
RestOK ==
    /\ terms \in [Requests -> AllTerms] /\ slots \in HostSizes
    /\ quote \in QuoteRows
    /\ capLock \in Requests \cup {None} /\ domain \in Requests \cup {None}
    /\ {enabled, admin} \subseteq BOOLEAN
    /\ quota \in Nat /\ audits \subseteq Requests
    /\ money \in [Requests -> Payments]
    /\ owed \in [Requests -> Nat]
    /\ {owner, stale, swept} \subseteq SUBSET Requests
    /\ pc \in [Requests -> Places]
    /\ mishaps \in 0..MaxMishaps
RowsOK == vms \in [Requests -> RowType] /\ \A r \in Requests : RowOK(vms[r])

\* TypeOK is what it says of the rows and what it says of everything else.
LEMMA TypeSplit == TypeOK <=> RowsOK /\ RestOK
  BY DEF TypeOK, RowsOK, RestOK, RowOK, RowType, Live

\* The type invariant holds initially.
LEMMA TypeInit == Init => TypeOK
<1> SUFFICES ASSUME Init PROVE TypeOK
  OBVIOUS
<1> QED
  BY NoneIsNothing, BoundsAreNumbers, TermsAreKnown DEF Init, TypeOK, NewQuote, QuoteRows, Places,
     Payments, NoRow, Live

\* Every step keeps the types of everything but the rows.
LEMMA RestStep == RestOK /\ [Next]_vars => RestOK'
<1> SUFFICES ASSUME RestOK, [Next]_vars PROVE RestOK'
  OBVIOUS
<1> USE BoundsAreNumbers DEF RestOK, Places, Payments, QuoteRows
<1>1. ASSUME NEW r \in Requests, Read(r) PROVE RestOK'
  BY <1>1 DEF Read
<1>2. ASSUME NEW r \in Requests, CheckCapacity(r) PROVE RestOK'
  BY <1>2 DEF CheckCapacity, Fits
<1>3. ASSUME NEW r \in Requests, InsertReservation(r) PROVE RestOK'
  BY <1>3 DEF InsertReservation, Unlocked
<1>4. ASSUME NEW r \in Requests, Attach(r) PROVE RestOK'
  BY <1>4 DEF Attach
<1>5. ASSUME NEW r \in Requests, Guard(r) PROVE RestOK'
  BY <1>5 DEF Guard
<1>6. ASSUME NEW r \in Requests, Settle(r) PROVE RestOK'
  BY <1>6 DEF Settle
<1>7. ASSUME NEW r \in Requests, ConsumeQuota(r) PROVE RestOK'
  BY <1>7 DEF ConsumeQuota
<1>8. ASSUME NEW r \in Requests, Audit(r) PROVE RestOK'
  BY <1>8 DEF Audit, Record
<1>9. ASSUME NEW r \in Requests, RestoreQuota(r) PROVE RestOK'
  BY <1>9 DEF RestoreQuota
<1>10. ASSUME NEW r \in Requests, Bind(r) PROVE RestOK'
  BY <1>10 DEF Bind
<1>11. ASSUME NEW r \in Requests, Claim(r) PROVE RestOK'
  BY <1>11 DEF Claim
<1>12. ASSUME NEW r \in Requests, Activate(r) PROVE RestOK'
  BY <1>12 DEF Activate, AfterRow
<1>13. ASSUME NEW r \in Requests, Create(r) PROVE RestOK'
  BY <1>13 DEF Create, AfterRow
<1>14. ASSUME NEW r \in Requests, Link(r) PROVE RestOK'
  BY <1>14 DEF Link
<1>15. ASSUME NEW r \in Requests, Start(r) PROVE RestOK'
  BY <1>15 DEF Start
<1>16. ASSUME NEW r \in Requests, Refund(r) PROVE RestOK'
  BY <1>16 DEF Refund, RecordOwed
<1>17. ASSUME NEW r \in Requests, MarkFailed(r) PROVE RestOK'
  BY <1>17 DEF MarkFailed
<1>18. ASSUME NEW r \in Requests, ReopenQuote(r) PROVE RestOK'
  BY <1>18 DEF ReopenQuote
<1>19. ASSUME NEW r \in Requests, Release(r) PROVE RestOK'
  BY <1>19 DEF Release
<1>20. ASSUME NEW r \in Requests, Crash(r) PROVE RestOK'
  BY <1>20 DEF Crash, Unlocked
<1>21. ASSUME NEW r \in Requests, Provision(r) PROVE RestOK'
  BY <1>21 DEF Provision, RecordOwed
<1>22. ASSUME NEW r \in Requests, Age(r) PROVE RestOK'
  BY <1>22 DEF Age
<1>23. CASE SweepSelect
  BY <1>23 DEF SweepSelect
<1>24. CASE SweepDelete
  BY <1>24 DEF SweepDelete
<1>25. CASE Disable
  BY <1>25 DEF Disable
<1>26. CASE Revoke
  BY <1>26 DEF Revoke
<1>27. CASE UNCHANGED vars
  BY <1>27
<1>q. QED
  BY <1>1, <1>2, <1>3, <1>4, <1>5, <1>6, <1>7, <1>8, <1>9, <1>10, <1>11, <1>12, <1>13, <1>14,
     <1>15, <1>16, <1>17, <1>18, <1>19, <1>20, <1>21, <1>22, <1>23, <1>24, <1>25, <1>26, <1>27
     DEF Next, Request


\* Writing one well-formed row keeps all rows well-formed.
LEMMA OtherRows ==
  ASSUME RowsOK, NEW r \in Requests, NEW v, RowOK(v), vms' = [vms EXCEPT ![r] = v]
  PROVE  RowsOK'
  BY DEF RowsOK, RowOK

\* Every step keeps the rows well-formed: a /64 exactly while live, a handoff exactly when paid.
LEMMA RowsStep == RowsOK /\ RestOK /\ RowFollowsRequest /\ [Next]_vars => RowsOK'
<1> SUFFICES ASSUME RowsOK, RestOK, RowFollowsRequest, [Next]_vars PROVE RowsOK'
  OBVIOUS
<1>0. ASSUME vms' = vms PROVE RowsOK'
  BY <1>0 DEF RowsOK
<1>1. ASSUME NEW r \in Requests, InsertReservation(r) PROVE RowsOK'
  <2>1. CASE vms' = vms
    BY <1>0, <2>1
  <2>2. ASSUME NEW p \in FreePrefixes,
               vms' = [vms EXCEPT ![r] = [NoRow EXCEPT !.status = "PROVISIONING",
                                          !.prefix = p, !.admitted = TRUE]]
        PROVE  RowsOK'
    <3> DEFINE v == [NoRow EXCEPT !.status = "PROVISIONING", !.prefix = p, !.admitted = TRUE]
    <3>1. RowOK(v)
      BY NoneIsNothing DEF RowOK, RowType, NoRow, FreePrefixes
    <3> QED
      BY <2>2, <3>1, OtherRows
  <2> QED
    BY <1>1, <2>1, <2>2 DEF InsertReservation
<1>2. ASSUME NEW r \in Requests, Activate(r) PROVE RowsOK'
  <2>1. CASE vms' = vms
    BY <1>0, <2>1
  <2>2. CASE vms' = [vms EXCEPT ![r].paid = TRUE, ![r].handoff = "pending"]
    <3> DEFINE v == [vms[r] EXCEPT !.paid = TRUE, !.handoff = "pending"]
    <3>1. RowOK(v)
      BY DEF RowsOK, RowOK, RowType
    <3>2. vms' = [vms EXCEPT ![r] = v]
      BY <2>2 DEF RowsOK, RowType
    <3> QED
      BY <3>1, <3>2, OtherRows
  <2> QED
    BY <1>2, <2>1, <2>2 DEF Activate
<1>3. ASSUME NEW r \in Requests, Create(r) PROVE RowsOK'
  <2>1. CASE vms' = vms
    BY <1>0, <2>1
  <2>2. CASE /\ FreePrefixes # {}
             /\ vms' = [vms EXCEPT ![r] = [status |-> "PROVISIONING", paid |-> TRUE,
                         prefix |-> AllocatePrefix, handoff |-> "pending", admitted |-> FALSE]]
    <3> DEFINE v == [status |-> "PROVISIONING", paid |-> TRUE, prefix |-> AllocatePrefix,
                     handoff |-> "pending", admitted |-> FALSE]
    <3>1. AllocatePrefix \in Prefixes
      BY <2>2 DEF AllocatePrefix, FreePrefixes
    <3>2. RowOK(v)
      BY <3>1, NoneIsNothing DEF RowOK, RowType
    <3> QED
      BY <2>2, <3>2, OtherRows
  <2> QED
    BY <1>3, <2>1, <2>2 DEF Create
<1>4. ASSUME NEW r \in Requests, Start(r) PROVE RowsOK'
  <2>1. CASE vms' = vms
    BY <1>0, <2>1
  <2>2. CASE vms' = [vms EXCEPT ![r].handoff =
                       IF vms[r].status = "PROVISIONING" THEN "ready" ELSE @]
    <3> DEFINE v == [vms[r] EXCEPT !.handoff = "ready"]
    <3>0. vms[r].status = "PROVISIONING" /\ vms[r].paid
      BY <1>4 DEF Start, RowFollowsRequest
    <3>1. RowOK(v)
      BY <3>0 DEF RowsOK, RowOK, RowType
    <3>2. vms' = [vms EXCEPT ![r] = v]
      BY <2>2, <3>0 DEF RowsOK, RowType
    <3> QED
      BY <3>1, <3>2, OtherRows
  <2> QED
    BY <1>4, <2>1, <2>2 DEF Start
<1>5. ASSUME NEW r \in Requests, MarkFailed(r) PROVE RowsOK'
  <2> DEFINE v == IF Live(r) THEN [vms[r] EXCEPT !.status = "FAILED", !.prefix = None]
                             ELSE vms[r]
  <2>1. RowOK(v)
    BY DEF RowsOK, RowOK, RowType, Live
  <2>2. vms' = [vms EXCEPT ![r] = v]
    BY <1>5 DEF MarkFailed, RowsOK
  <2> QED
    BY <2>1, <2>2, OtherRows
<1>6. ASSUME NEW r \in Requests, Release(r) PROVE RowsOK'
  <2> DEFINE v == IF Reserved(r) THEN NoRow ELSE vms[r]
  <2>1. RowOK(v)
    BY NoneIsNothing DEF RowsOK, RowOK, RowType, NoRow
  <2>2. vms' = [vms EXCEPT ![r] = v]
    BY <1>6 DEF Release, RowsOK
  <2> QED
    BY <2>1, <2>2, OtherRows
<1>7. ASSUME NEW r \in Requests, Provision(r) PROVE RowsOK'
  <2>1. CASE vms' = [vms EXCEPT ![r].status = "RUNNING"]
    <3> DEFINE v == [vms[r] EXCEPT !.status = "RUNNING"]
    <3>1. RowOK(v)
      BY <1>7 DEF Provision, RowsOK, RowOK, RowType
    <3>2. vms' = [vms EXCEPT ![r] = v]
      BY <2>1 DEF RowsOK, RowType
    <3> QED
      BY <3>1, <3>2, OtherRows
  <2>2. CASE vms' = [vms EXCEPT ![r].status = "FAILED", ![r].prefix = None]
    <3> DEFINE v == [vms[r] EXCEPT !.status = "FAILED", !.prefix = None]
    <3>1. RowOK(v)
      BY DEF RowsOK, RowOK, RowType
    <3>2. vms' = [vms EXCEPT ![r] = v]
      BY <2>2 DEF RowsOK, RowType
    <3> QED
      BY <3>1, <3>2, OtherRows
  <2> QED
    BY <1>7, <2>1, <2>2 DEF Provision
<1>8. CASE SweepDelete
  <2>1. RowOK(NoRow)
    BY NoneIsNothing DEF RowOK, RowType, NoRow
  <2> QED
    BY <1>8, <2>1 DEF SweepDelete, RowsOK, RowOK
<1>9. ASSUME NEW r \in Requests,
             \/ Read(r) \/ CheckCapacity(r) \/ Attach(r) \/ Guard(r) \/ Settle(r)
             \/ ConsumeQuota(r) \/ Audit(r) \/ RestoreQuota(r) \/ Bind(r) \/ Claim(r)
             \/ Link(r) \/ Refund(r) \/ ReopenQuote(r) \/ Crash(r) \/ Age(r)
      PROVE  vms' = vms
  BY <1>9 DEF Read, CheckCapacity, Attach, Guard, Settle, ConsumeQuota, Audit, RestoreQuota, Bind,
     Claim, Link, Refund, ReopenQuote, Crash, Age
<1>10. CASE SweepSelect \/ Disable \/ Revoke \/ UNCHANGED vars
  BY <1>0, <1>10 DEF SweepSelect, Disable, Revoke
<1> QED
  BY <1>0, <1>1, <1>2, <1>3, <1>4, <1>5, <1>6, <1>7, <1>8, <1>9, <1>10 DEF Next, Request

\* The fields of the row that is not there.
LEMMA NoRowIs == /\ NoRow.status = "none" /\ NoRow.paid = FALSE
                 /\ NoRow.handoff = "none" /\ NoRow.admitted = FALSE
  BY DEF NoRow

\* A step of r leaves the other requests and their rows alone.
Others(r) == \A s \in Requests \ {r} : pc'[s] = pc[s] /\ vms'[s] = vms[s]

(* What the actions that write a row do to it, field by field.             *)

InsertDoes(r) ==
    /\ Others(r) /\ UNCHANGED <<setting, quote, domain, gate, owed, stale, swept>>
    /\ pc[r] = "insert" /\ vms[r] = NoRow
    /\ \/ pc'[r] = "done" /\ vms' = vms
       \/ /\ pc'[r] \in {"attach", "guard"} /\ vms'[r].status = "PROVISIONING"
          /\ vms'[r].paid = FALSE /\ vms'[r].handoff = "none" /\ vms'[r].admitted = TRUE

LEMMA InsertEffect ==
  ASSUME RestOK, RowsOK, RowFollowsRequest, NEW r \in Requests, InsertReservation(r)
  PROVE  InsertDoes(r)
<1> USE DEF InsertDoes
<1>0. UNCHANGED <<setting, quote, domain, gate, owed, stale, swept>> /\ pc[r] = "insert"
  BY DEF InsertReservation
<1>1. vms[r] = NoRow
  BY <1>0 DEF RowFollowsRequest, BeforeRow
<1>2. CASE pc' = [pc EXCEPT ![r] = "done"] /\ vms' = vms
  BY <1>0, <1>1, <1>2 DEF Others, RestOK
<1>3. ASSUME NEW p, NEW place \in {"attach", "guard"}, pc' = [pc EXCEPT ![r] = place],
             vms' = [vms EXCEPT ![r] = [NoRow EXCEPT !.status = "PROVISIONING",
                                        !.prefix = p, !.admitted = TRUE]]
      PROVE  /\ Others(r) /\ pc'[r] = place /\ vms'[r].status = "PROVISIONING"
             /\ vms'[r].paid = FALSE /\ vms'[r].handoff = "none" /\ vms'[r].admitted = TRUE
  BY <1>3 DEF Others, RestOK, RowsOK, NoRow
<1> QED
  BY <1>0, <1>1, <1>2, <1>3 DEF InsertReservation

ActivateDoes(r) ==
    /\ Others(r)
    /\ UNCHANGED <<setting, quote, domain, gate, owed, stale, swept>>
    /\ pc[r] = "activate"
    /\ \/ pc'[r] \in {"reopen", "create", "refund"} /\ vms' = vms
       \/ /\ pc'[r] \in {AfterRow(r), "refund"} /\ vms[r].status = "PROVISIONING"
          /\ vms'[r].status = "PROVISIONING" /\ vms'[r].paid = TRUE
          /\ vms'[r].handoff = "pending" /\ vms'[r].admitted = vms[r].admitted

LEMMA ActivateEffect ==
  ASSUME RestOK, RowsOK, RowFollowsRequest, NEW r \in Requests, Activate(r)
  PROVE  ActivateDoes(r)
<1> USE DEF ActivateDoes
<1>0. UNCHANGED <<setting, quote, domain, gate, owed, stale, swept>> /\ pc[r] = "activate"
  BY DEF Activate
<1>1. ASSUME NEW place \in {"reopen", "create", "refund"}, pc' = [pc EXCEPT ![r] = place],
             vms' = vms
      PROVE  Others(r) /\ pc'[r] = place
  BY <1>1 DEF Others, RestOK
<1>2. ASSUME NEW place \in {AfterRow(r), "refund"}, pc' = [pc EXCEPT ![r] = place],
             vms[r].status # "none",
             vms' = [vms EXCEPT ![r].paid = TRUE, ![r].handoff = "pending"]
      PROVE  /\ Others(r) /\ pc'[r] = place /\ vms[r].status = "PROVISIONING"
             /\ vms'[r].status = "PROVISIONING" /\ vms'[r].paid = TRUE
             /\ vms'[r].handoff = "pending" /\ vms'[r].admitted = vms[r].admitted
  <2>1. vms[r].status = "PROVISIONING"
    BY <1>0, <1>2 DEF RowFollowsRequest, Undecided, RowsOK, RowType
  <2> QED
    BY <1>2, <2>1 DEF Others, RestOK, RowsOK, RowType
<1> QED
  BY <1>0, <1>1, <1>2 DEF Activate

CreateDoes(r) ==
    /\ Others(r) /\ UNCHANGED <<setting, quote, domain, gate, owed, stale, swept>>
    /\ pc[r] = "create"
    /\ \/ pc'[r] \in {"reopen", "refund"} /\ vms' = vms
       \/ /\ pc'[r] = AfterRow(r) /\ vms'[r].status = "PROVISIONING"
          /\ vms'[r].paid = TRUE /\ vms'[r].handoff = "pending"
          /\ vms'[r].admitted = FALSE

LEMMA CreateEffect ==
  ASSUME RestOK, RowsOK, RowFollowsRequest, NEW r \in Requests, Create(r)
  PROVE  CreateDoes(r)
<1> USE DEF CreateDoes
<1>0. UNCHANGED <<setting, quote, domain, gate, owed, stale, swept>> /\ pc[r] = "create"
  BY DEF Create
<1>1. ASSUME NEW place \in {"reopen", "refund"}, pc' = [pc EXCEPT ![r] = place], vms' = vms
      PROVE  Others(r) /\ pc'[r] = place
  BY <1>1 DEF Others, RestOK
<1>2. ASSUME NEW p, pc' = [pc EXCEPT ![r] = AfterRow(r)],
             vms' = [vms EXCEPT ![r] = [status |-> "PROVISIONING", paid |-> TRUE,
                       prefix |-> p, handoff |-> "pending", admitted |-> FALSE]]
      PROVE  /\ Others(r) /\ pc'[r] = AfterRow(r) /\ vms'[r].status = "PROVISIONING"
             /\ vms'[r].paid = TRUE /\ vms'[r].handoff = "pending"
             /\ vms'[r].admitted = FALSE
  BY <1>2 DEF Others, RestOK, RowsOK
<1> QED
  BY <1>0, <1>1, <1>2 DEF Create

\* The handoff of no request is published behind its back (start_provisioning).
Acknowledged == "start" \notin LostAt

StartDoes(r) ==
    /\ Others(r) /\ UNCHANGED <<setting, quote, domain, gate, owed, stale, swept>>
    /\ pc[r] = "start" /\ vms[r].status = "PROVISIONING" /\ vms[r].paid
    /\ \/ pc'[r] = "refund" /\ vms' = vms
       \/ /\ pc'[r] = "done" /\ vms'[r].status = "PROVISIONING" /\ vms'[r].paid = TRUE
          /\ vms'[r].handoff = "ready" /\ vms'[r].admitted = vms[r].admitted

LEMMA StartEffect ==
  ASSUME Acknowledged, RestOK, RowsOK, RowFollowsRequest, NEW r \in Requests, Start(r)
  PROVE  StartDoes(r)
<1> USE DEF StartDoes
<1>0. UNCHANGED <<setting, quote, domain, gate, owed, stale, swept>> /\ pc[r] = "start"
  BY DEF Start
<1>1. vms[r].status = "PROVISIONING" /\ vms[r].paid
  BY <1>0 DEF RowFollowsRequest
<1>2. CASE pc' = [pc EXCEPT ![r] = "refund"] /\ vms' = vms
  BY <1>0, <1>1, <1>2 DEF Others, RestOK
<1>3. CASE /\ pc' = [pc EXCEPT ![r] = "done"]
           /\ vms' = [vms EXCEPT ![r].handoff =
                         IF vms[r].status = "PROVISIONING" THEN "ready" ELSE @]
  BY <1>0, <1>1, <1>3 DEF Others, RestOK, RowsOK, RowType
<1> QED
  BY <1>2, <1>3 DEF Start, Acknowledged

MarkFailedDoes(r) ==
    /\ Others(r) /\ UNCHANGED <<setting, quote, gate, owed, stale, swept>>
    /\ pc[r] = "fail" /\ pc'[r] = "done" /\ domain' = IF domain = r THEN None ELSE domain
    /\ \/ ~Live(r) /\ vms' = vms
       \/ /\ Live(r) /\ vms'[r].status = "FAILED" /\ vms'[r].paid = vms[r].paid
          /\ vms'[r].handoff = vms[r].handoff /\ vms'[r].admitted = vms[r].admitted

LEMMA MarkFailedEffect ==
  ASSUME RestOK, RowsOK, RowFollowsRequest, NEW r \in Requests, MarkFailed(r)
  PROVE  MarkFailedDoes(r)
<1> USE DEF MarkFailedDoes
<1>0. /\ UNCHANGED <<setting, quote, gate, owed, stale, swept>> /\ pc[r] = "fail"
      /\ pc' = [pc EXCEPT ![r] = "done"] /\ domain' = IF domain = r THEN None ELSE domain
  BY DEF MarkFailed
<1>1. CASE Live(r)
  <2>1. vms' = [vms EXCEPT ![r] = [vms[r] EXCEPT !.status = "FAILED", !.prefix = None]]
    BY <1>1 DEF MarkFailed, RowsOK
  <2> QED
    BY <1>0, <1>1, <2>1 DEF Others, RestOK, RowsOK, RowType
<1>2. CASE ~Live(r)
  <2>1. vms' = vms
    BY <1>2 DEF MarkFailed, RowsOK
  <2> QED
    BY <1>0, <1>2, <2>1 DEF Others, RestOK
<1> QED
  BY <1>1, <1>2

ReleaseDoes(r) ==
    /\ Others(r) /\ UNCHANGED <<setting, quote, gate, owed, swept>>
    /\ \/ pc[r] = "release" /\ pc'[r] = "done"
       \/ pc[r] = "outbid" /\ pc'[r] = "lost"
    /\ stale' \subseteq stale
    /\ domain' = IF Reserved(r) /\ domain = r THEN None ELSE domain
    /\ vms'[r] = IF Reserved(r) THEN NoRow ELSE vms[r]

LEMMA ReleaseEffect ==
  ASSUME RestOK, RowsOK, RowFollowsRequest, NEW r \in Requests, Release(r)
  PROVE  ReleaseDoes(r)
  BY DEF ReleaseDoes, Release, Others, RestOK, RowsOK

ProvisionDoes(r) ==
    /\ Others(r) /\ UNCHANGED <<setting, quote, gate, pc, stale, swept>>
    /\ pc[r] = "done" /\ vms[r].status = "PROVISIONING" /\ vms[r].paid
    /\ vms[r].handoff = "ready"
    /\ vms'[r].paid = TRUE /\ vms'[r].handoff = "ready"
    /\ vms'[r].admitted = vms[r].admitted
    /\ \/ vms'[r].status = "RUNNING" /\ UNCHANGED <<owed, domain>>
       \/ /\ vms'[r].status = "FAILED" /\ RecordOwed(r)
          /\ domain' = IF domain = r THEN None ELSE domain

LEMMA ProvisionEffect ==
  ASSUME RestOK, RowsOK, RowFollowsRequest, NEW r \in Requests, Provision(r)
  PROVE  ProvisionDoes(r)
<1> USE DEF ProvisionDoes
<1>0. /\ UNCHANGED <<setting, quote, gate, pc, stale, swept>>
      /\ pc[r] = "done" /\ vms[r].status = "PROVISIONING" /\ vms[r].paid
      /\ vms[r].handoff = "ready"
  BY DEF Provision, RowFollowsRequest
<1>1. CASE vms' = [vms EXCEPT ![r].status = "RUNNING"] /\ UNCHANGED <<owed, domain>>
  BY <1>0, <1>1 DEF Others, RowsOK, RowType
<1>2. CASE /\ vms' = [vms EXCEPT ![r].status = "FAILED", ![r].prefix = None]
           /\ RecordOwed(r) /\ domain' = IF domain = r THEN None ELSE domain
  BY <1>0, <1>2 DEF Others, RowsOK, RowType
<1> QED
  BY <1>1, <1>2 DEF Provision

SweepDoes ==
    /\ UNCHANGED <<setting, quote, gate, owed, pc>>
    /\ swept' = {} /\ stale' = stale \ swept
    /\ domain' = IF domain \in swept THEN None ELSE domain
    /\ \A s \in Requests : vms'[s] = IF s \in swept /\ Reserved(s) THEN NoRow ELSE vms[s]

LEMMA SweepEffect ==
  ASSUME RestOK, RowsOK, SweepDelete
  PROVE  SweepDoes
  BY DEF SweepDoes, SweepDelete

\* Every step keeps the rows where their requests are.
LEMMA RowStep == Acknowledged /\ RestOK /\ RowsOK /\ RowFollowsRequest /\ [Next]_vars => RowFollowsRequest'
<1> SUFFICES ASSUME Acknowledged, RestOK, RowsOK, RowFollowsRequest, [Next]_vars PROVE RowFollowsRequest'
  OBVIOUS
<1>1. ASSUME NEW r \in Requests,
             \/ Read(r) \/ CheckCapacity(r) \/ Attach(r) \/ Guard(r) \/ Settle(r)
             \/ ConsumeQuota(r) \/ Audit(r) \/ RestoreQuota(r) \/ Bind(r) \/ Claim(r)
             \/ Link(r) \/ Refund(r) \/ ReopenQuote(r) \/ Crash(r)
      PROVE  RowFollowsRequest'
  BY <1>1 DEF Read, CheckCapacity, Fits, Attach, Guard, Settle, ConsumeQuota, Audit, Record,
     RestoreQuota, Bind, Claim, Link, Refund, RecordOwed, ReopenQuote, Crash, Unlocked,
     RestOK, RowFollowsRequest, BeforeRow, BeforePayment, Undecided, Reserved
<1>2. CASE Disable \/ Revoke \/ UNCHANGED vars
  BY <1>2 DEF Disable, Revoke, RestOK, RowFollowsRequest, BeforeRow, BeforePayment, Undecided,
     Reserved
<1>3. ASSUME NEW r \in Requests, InsertReservation(r) PROVE RowFollowsRequest'
  <2>1. InsertDoes(r)
    BY <1>3, InsertEffect
  <2> QED
    BY <2>1, NoRowIs DEF InsertDoes, Others, RestOK, RowFollowsRequest, BeforeRow,
       BeforePayment, Undecided, Reserved
<1>4. ASSUME NEW r \in Requests, Activate(r) PROVE RowFollowsRequest'
  <2>1. ActivateDoes(r)
    BY <1>4, ActivateEffect
  <2> QED
    BY <2>1, NoRowIs DEF ActivateDoes, Others, AfterRow, RestOK, RowFollowsRequest, BeforeRow,
       BeforePayment, Undecided, Reserved
<1>5. ASSUME NEW r \in Requests, Create(r) PROVE RowFollowsRequest'
  <2>1. CreateDoes(r)
    BY <1>5, CreateEffect
  <2> QED
    BY <2>1, NoRowIs DEF CreateDoes, Others, AfterRow, RestOK, RowFollowsRequest, BeforeRow,
       BeforePayment, Undecided, Reserved
<1>6. ASSUME NEW r \in Requests, Start(r) PROVE RowFollowsRequest'
  <2>1. StartDoes(r)
    BY <1>6, StartEffect
  <2> QED
    BY <2>1, NoRowIs DEF StartDoes, Others, RestOK, RowFollowsRequest, BeforeRow, BeforePayment,
       Undecided, Reserved
<1>7. ASSUME NEW r \in Requests, MarkFailed(r) PROVE RowFollowsRequest'
  <2>1. MarkFailedDoes(r)
    BY <1>7, MarkFailedEffect
  <2> QED
    BY <2>1, NoRowIs DEF MarkFailedDoes, Others, RestOK, RowFollowsRequest, BeforeRow,
       BeforePayment, Undecided, Reserved
<1>8. ASSUME NEW r \in Requests, Release(r) PROVE RowFollowsRequest'
  <2>1. ReleaseDoes(r)
    BY <1>8, ReleaseEffect
  <2> QED
    BY <2>1, NoRowIs DEF ReleaseDoes, Others, RestOK, RowFollowsRequest, BeforeRow,
       BeforePayment, Undecided, Reserved
<1>9. ASSUME NEW r \in Requests, Provision(r) PROVE RowFollowsRequest'
  <2>1. ProvisionDoes(r)
    BY <1>9, ProvisionEffect
  <2> QED
    BY <2>1, NoRowIs DEF ProvisionDoes, Others, RecordOwed, RestOK, RowFollowsRequest,
       BeforeRow, BeforePayment, Undecided, Reserved
<1>10. ASSUME NEW r \in Requests, Age(r) PROVE RowFollowsRequest'
  BY <1>10, NoRowIs DEF Age, RestOK, RowFollowsRequest, BeforeRow, BeforePayment, Undecided,
     Reserved
<1>11. CASE SweepSelect
  BY <1>11 DEF SweepSelect, RestOK, RowFollowsRequest, BeforeRow, BeforePayment, Undecided,
     Reserved
<1>12. CASE SweepDelete
  <2>1. SweepDoes
    BY <1>12, SweepEffect
  <2> QED
    BY <2>1, NoRowIs DEF SweepDoes, Others, RestOK, RowFollowsRequest, BeforeRow, BeforePayment,
       Undecided, Reserved
<1> QED
  BY <1>1, <1>2, <1>3, <1>4, <1>5, <1>6, <1>7, <1>8, <1>9, <1>10, <1>11, <1>12 DEF Next,
     Request

\* Every step keeps the money and the refunds where their requests are.
LEMMA MoneyStep ==
  Acknowledged /\ RestOK /\ RowsOK /\ RowFollowsRequest /\ MoneyFollowsRequest /\ [Next]_vars
    => MoneyFollowsRequest'
<1> SUFFICES ASSUME Acknowledged, RestOK, RowsOK, RowFollowsRequest, MoneyFollowsRequest, [Next]_vars
             PROVE  MoneyFollowsRequest'
  OBVIOUS
<1>1. ASSUME NEW r \in Requests,
             \/ Read(r) \/ CheckCapacity(r) \/ Attach(r) \/ Guard(r) \/ ConsumeQuota(r)
             \/ RestoreQuota(r) \/ Bind(r) \/ Claim(r) \/ Link(r) \/ ReopenQuote(r)
             \/ Crash(r) \/ Age(r)
      PROVE  MoneyFollowsRequest'
  BY <1>1 DEF Read, CheckCapacity, Fits, Attach, Guard, ConsumeQuota, RestoreQuota, Bind, Claim,
     Link, ReopenQuote, Crash, Unlocked, Age, RestOK, MoneyFollowsRequest, RowFollowsRequest,
     BeforeRow, BeforePayment, Undecided, Holding, Reserved
<1>2. CASE SweepSelect \/ Disable \/ Revoke \/ UNCHANGED vars
  BY <1>2 DEF SweepSelect, Disable, Revoke, RestOK, MoneyFollowsRequest, RowFollowsRequest,
     BeforeRow, BeforePayment, Undecided, Holding, Reserved
<1>3. ASSUME NEW r \in Requests, InsertReservation(r) PROVE MoneyFollowsRequest'
  <2>1. InsertDoes(r)
    BY <1>3, InsertEffect
  <2> QED
    BY <2>1, NoRowIs DEF InsertDoes, Others, RestOK, MoneyFollowsRequest, RowFollowsRequest,
       BeforeRow, BeforePayment, Undecided, Holding, Reserved
<1>4. ASSUME NEW r \in Requests, Settle(r) PROVE MoneyFollowsRequest'
  BY <1>4 DEF Settle, RestOK, MoneyFollowsRequest, RowFollowsRequest, BeforeRow, BeforePayment,
     Undecided, Holding, Reserved
<1>5. ASSUME NEW r \in Requests, Audit(r) PROVE MoneyFollowsRequest'
  BY <1>5 DEF Audit, Record, RestOK, MoneyFollowsRequest, RowFollowsRequest, BeforeRow,
     BeforePayment, Undecided, Holding, Reserved
<1>6. ASSUME NEW r \in Requests, Activate(r) PROVE MoneyFollowsRequest'
  <2>1. ActivateDoes(r)
    BY <1>6, ActivateEffect
  <2> QED
    BY <2>1, NoRowIs DEF ActivateDoes, Others, AfterRow, RestOK, MoneyFollowsRequest,
       RowFollowsRequest, BeforeRow, BeforePayment, Undecided, Holding, Reserved
<1>7. ASSUME NEW r \in Requests, Create(r) PROVE MoneyFollowsRequest'
  <2>1. CreateDoes(r)
    BY <1>7, CreateEffect
  <2> QED
    BY <2>1, NoRowIs DEF CreateDoes, Others, AfterRow, RestOK, MoneyFollowsRequest,
       RowFollowsRequest, BeforeRow, BeforePayment, Undecided, Holding, Reserved
<1>8. ASSUME NEW r \in Requests, Start(r) PROVE MoneyFollowsRequest'
  <2>1. StartDoes(r)
    BY <1>8, StartEffect
  <2> QED
    BY <2>1, NoRowIs DEF StartDoes, Others, RestOK, MoneyFollowsRequest, RowFollowsRequest,
       BeforeRow, BeforePayment, Undecided, Holding, Reserved
<1>9. ASSUME NEW r \in Requests, Refund(r) PROVE MoneyFollowsRequest'
  BY <1>9 DEF Refund, RecordOwed, RestOK, MoneyFollowsRequest, RowFollowsRequest, BeforeRow,
     BeforePayment, Undecided, Holding, Reserved
<1>10. ASSUME NEW r \in Requests, MarkFailed(r) PROVE MoneyFollowsRequest'
  <2>1. MarkFailedDoes(r)
    BY <1>10, MarkFailedEffect
  <2> QED
    BY <2>1, NoRowIs DEF MarkFailedDoes, Others, RestOK, MoneyFollowsRequest, RowFollowsRequest,
       BeforeRow, BeforePayment, Undecided, Holding, Reserved
<1>11. ASSUME NEW r \in Requests, Release(r) PROVE MoneyFollowsRequest'
  <2>1. ReleaseDoes(r)
    BY <1>11, ReleaseEffect
  <2> QED
    BY <2>1, NoRowIs DEF ReleaseDoes, Others, RestOK, MoneyFollowsRequest, RowFollowsRequest,
       BeforeRow, BeforePayment, Undecided, Holding, Reserved
<1>12. ASSUME NEW r \in Requests, Provision(r) PROVE MoneyFollowsRequest'
  <2>1. ProvisionDoes(r)
    BY <1>12, ProvisionEffect
  <2> QED
    BY <2>1, NoRowIs DEF ProvisionDoes, Others, RecordOwed, RestOK, MoneyFollowsRequest,
       RowFollowsRequest, BeforeRow, BeforePayment, Undecided, Holding, Reserved
<1>13. CASE SweepDelete
  <2>1. SweepDoes
    BY <1>13, SweepEffect
  <2> QED
    BY <2>1, NoRowIs DEF SweepDoes, Others, RestOK, MoneyFollowsRequest, RowFollowsRequest,
       BeforeRow, BeforePayment, Undecided, Holding, Reserved
<1> QED
  BY <1>1, <1>2, <1>3, <1>4, <1>5, <1>6, <1>7, <1>8, <1>9, <1>10, <1>11, <1>12, <1>13 DEF
     Next, Request

\* No step owes a second refund.
LEMMA OwedStep ==
  Acknowledged /\ RestOK /\ RowsOK /\ RowFollowsRequest /\ MoneyFollowsRequest /\ OwedOnce /\ [Next]_vars
    => OwedOnce'
<1> SUFFICES ASSUME Acknowledged, RestOK, RowsOK, RowFollowsRequest, MoneyFollowsRequest, OwedOnce, [Next]_vars
             PROVE  OwedOnce'
  OBVIOUS
<1>1. ASSUME NEW r \in Requests,
             \/ Read(r) \/ CheckCapacity(r) \/ InsertReservation(r) \/ Attach(r) \/ Guard(r)
             \/ Settle(r) \/ ConsumeQuota(r) \/ Audit(r) \/ RestoreQuota(r) \/ Bind(r)
             \/ Claim(r) \/ Activate(r) \/ Create(r) \/ Link(r) \/ Start(r) \/ MarkFailed(r)
             \/ ReopenQuote(r) \/ Release(r) \/ Crash(r) \/ Age(r)
      PROVE  OwedOnce'
  BY <1>1 DEF Read, CheckCapacity, Fits, InsertReservation, Unlocked, Attach, Guard, Settle,
     ConsumeQuota, Audit, Record, RestoreQuota, Bind, Claim, Activate, AfterRow, Create, Link,
     Start, MarkFailed, ReopenQuote, Release, Crash, Age, RestOK, MoneyFollowsRequest,
     OwedOnce
<1>2. CASE SweepSelect \/ SweepDelete \/ Disable \/ Revoke \/ UNCHANGED vars
  BY <1>2 DEF SweepSelect, SweepDelete, Disable, Revoke, RestOK, MoneyFollowsRequest, OwedOnce
<1>3. ASSUME NEW r \in Requests, Refund(r) PROVE OwedOnce'
  BY <1>3 DEF Refund, RecordOwed, RestOK, MoneyFollowsRequest, OwedOnce
<1>4. ASSUME NEW r \in Requests, Provision(r) PROVE OwedOnce'
  <2>1. ProvisionDoes(r)
    BY <1>4, ProvisionEffect
  <2> QED
    BY <2>1, NoRowIs DEF ProvisionDoes, Others, RecordOwed, RestOK, MoneyFollowsRequest,
       OwedOnce
<1> QED
  BY <1>1, <1>2, <1>3, <1>4 DEF Next, Request

\* The quote passes from nobody to one request and back, never between requests.
LEMMA QuoteStep ==
  Acknowledged /\ RestOK /\ RowsOK /\ RowFollowsRequest /\ MoneyFollowsRequest /\ QuoteHeld /\ [Next]_vars
    => QuoteHeld'
<1> SUFFICES ASSUME Acknowledged, RestOK, RowsOK, RowFollowsRequest, MoneyFollowsRequest, QuoteHeld, [Next]_vars
             PROVE  QuoteHeld'
  OBVIOUS
<1>1. ASSUME NEW r \in Requests,
             \/ Read(r) \/ CheckCapacity(r) \/ Attach(r) \/ Guard(r) \/ Settle(r)
             \/ ConsumeQuota(r) \/ Audit(r) \/ RestoreQuota(r) \/ Link(r) \/ Refund(r)
             \/ Crash(r) \/ Age(r)
      PROVE  QuoteHeld'
  BY <1>1 DEF Read, CheckCapacity, Fits, Attach, Guard, Settle, ConsumeQuota, Audit, Record,
     RestoreQuota, Link, Refund, RecordOwed, Crash, Unlocked, Age, RestOK, RowFollowsRequest,
     QuoteHeld, Holds, Holding, BeforeRow, BeforePayment, Undecided, Live, QuoteRows
<1>2. CASE SweepSelect \/ Disable \/ Revoke \/ UNCHANGED vars
  BY <1>2 DEF SweepSelect, Disable, Revoke, RestOK, RowFollowsRequest, QuoteHeld, Holds, Holding,
     BeforeRow, BeforePayment, Undecided, Live, QuoteRows
<1>3. ASSUME NEW r \in Requests, InsertReservation(r) PROVE QuoteHeld'
  <2>1. InsertDoes(r)
    BY <1>3, InsertEffect
  <2> QED
    BY <2>1, NoRowIs DEF InsertDoes, Others, RestOK, RowFollowsRequest, QuoteHeld, Holds,
       Holding, BeforeRow, BeforePayment, Undecided, Live, QuoteRows
<1>4. ASSUME NEW r \in Requests, Bind(r) PROVE QuoteHeld'
  BY <1>4 DEF Bind, RestOK, RowFollowsRequest, QuoteHeld, Holds, Holding, BeforeRow,
     BeforePayment, Undecided, Live, QuoteRows
<1>5. ASSUME NEW r \in Requests, Claim(r) PROVE QuoteHeld'
  BY <1>5 DEF Claim, RestOK, RowFollowsRequest, QuoteHeld, Holds, Holding, BeforeRow,
     BeforePayment, Undecided, Live, QuoteRows
<1>6. ASSUME NEW r \in Requests, Activate(r) PROVE QuoteHeld'
  <2>1. ActivateDoes(r)
    BY <1>6, ActivateEffect
  <2> QED
    BY <2>1, NoRowIs DEF ActivateDoes, Others, AfterRow, RestOK, RowFollowsRequest, QuoteHeld,
       Holds, Holding, BeforeRow, BeforePayment, Undecided, Live, QuoteRows
<1>7. ASSUME NEW r \in Requests, Create(r) PROVE QuoteHeld'
  <2>1. CreateDoes(r)
    BY <1>7, CreateEffect
  <2> QED
    BY <2>1, NoRowIs DEF CreateDoes, Others, AfterRow, RestOK, RowFollowsRequest, QuoteHeld,
       Holds, Holding, BeforeRow, BeforePayment, Undecided, Live, QuoteRows
<1>8. ASSUME NEW r \in Requests, Start(r) PROVE QuoteHeld'
  <2>1. StartDoes(r)
    BY <1>8, StartEffect
  <2> QED
    BY <2>1, NoRowIs DEF StartDoes, Others, RestOK, RowFollowsRequest, QuoteHeld, Holds,
       Holding, BeforeRow, BeforePayment, Undecided, Live, QuoteRows
<1>9. ASSUME NEW r \in Requests, MarkFailed(r) PROVE QuoteHeld'
  <2>1. MarkFailedDoes(r)
    BY <1>9, MarkFailedEffect
  <2> QED
    BY <2>1, NoRowIs DEF MarkFailedDoes, Others, RestOK, RowFollowsRequest, QuoteHeld, Holds,
       Holding, BeforeRow, BeforePayment, Undecided, Live, QuoteRows
<1>10. ASSUME NEW r \in Requests, ReopenQuote(r) PROVE QuoteHeld'
  BY <1>10 DEF ReopenQuote, RestOK, RowFollowsRequest, QuoteHeld, Holds, Holding, BeforeRow,
     BeforePayment, Undecided, Live, QuoteRows
<1>11. ASSUME NEW r \in Requests, Release(r) PROVE QuoteHeld'
  <2>1. ReleaseDoes(r)
    BY <1>11, ReleaseEffect
  <2> QED
    BY <2>1, NoRowIs DEF ReleaseDoes, Others, RestOK, RowFollowsRequest, QuoteHeld, Holds,
       Holding, BeforeRow, BeforePayment, Undecided, Live, QuoteRows
<1>12. ASSUME NEW r \in Requests, Provision(r) PROVE QuoteHeld'
  <2>1. ProvisionDoes(r)
    BY <1>12, ProvisionEffect
  <2> QED
    BY <2>1, NoRowIs DEF ProvisionDoes, Others, RecordOwed, RestOK, RowFollowsRequest,
       QuoteHeld, Holds, Holding, BeforeRow, BeforePayment, Undecided, Live, QuoteRows
<1>13. CASE SweepDelete
  <2>1. SweepDoes
    BY <1>13, SweepEffect
  <2> QED
    BY <2>1, NoRowIs DEF SweepDoes, Others, RestOK, RowFollowsRequest, QuoteHeld, Holds,
       Holding, BeforeRow, BeforePayment, Undecided, Live, QuoteRows
<1> QED
  BY <1>1, <1>2, <1>3, <1>4, <1>5, <1>6, <1>7, <1>8, <1>9, <1>10, <1>11, <1>12, <1>13 DEF
     Next, Request

\* No step leaves the domain with a row that is not live.
LEMMA DomainStep ==
  Acknowledged /\ RestOK /\ RowsOK /\ RowFollowsRequest /\ DomainClaimLive /\ [Next]_vars => DomainClaimLive'
<1> SUFFICES ASSUME Acknowledged, RestOK, RowsOK, RowFollowsRequest, DomainClaimLive, [Next]_vars
             PROVE  DomainClaimLive'
  OBVIOUS
<1>1. ASSUME NEW r \in Requests,
             \/ Read(r) \/ CheckCapacity(r) \/ Guard(r) \/ Settle(r) \/ ConsumeQuota(r)
             \/ Audit(r) \/ RestoreQuota(r) \/ Bind(r) \/ Claim(r) \/ Link(r) \/ Refund(r)
             \/ ReopenQuote(r) \/ Crash(r) \/ Age(r)
      PROVE  DomainClaimLive'
  BY <1>1 DEF Read, CheckCapacity, Fits, Guard, Settle, ConsumeQuota, Audit, Record,
     RestoreQuota, Bind, Claim, Link, Refund, RecordOwed, ReopenQuote, Crash, Unlocked, Age,
     RestOK, RowFollowsRequest, DomainClaimLive, Live, Reserved
<1>2. CASE SweepSelect \/ Disable \/ Revoke \/ UNCHANGED vars
  BY <1>2 DEF SweepSelect, Disable, Revoke, RestOK, RowFollowsRequest, DomainClaimLive, Live,
     Reserved
<1>3. ASSUME NEW r \in Requests, InsertReservation(r) PROVE DomainClaimLive'
  <2>1. InsertDoes(r)
    BY <1>3, InsertEffect
  <2> QED
    BY <2>1, NoRowIs DEF InsertDoes, Others, RestOK, RowFollowsRequest, DomainClaimLive, Live,
       Reserved
<1>4. ASSUME NEW r \in Requests, Attach(r) PROVE DomainClaimLive'
  BY <1>4 DEF Attach, RestOK, RowFollowsRequest, DomainClaimLive, Live, Reserved
<1>5. ASSUME NEW r \in Requests, Activate(r) PROVE DomainClaimLive'
  <2>1. ActivateDoes(r)
    BY <1>5, ActivateEffect
  <2> QED
    BY <2>1, NoRowIs DEF ActivateDoes, Others, AfterRow, RestOK, RowFollowsRequest,
       DomainClaimLive, Live, Reserved
<1>6. ASSUME NEW r \in Requests, Create(r) PROVE DomainClaimLive'
  <2>1. CreateDoes(r)
    BY <1>6, CreateEffect
  <2> QED
    BY <2>1, NoRowIs DEF CreateDoes, Others, AfterRow, RestOK, RowFollowsRequest,
       DomainClaimLive, Live, Reserved
<1>7. ASSUME NEW r \in Requests, Start(r) PROVE DomainClaimLive'
  <2>1. StartDoes(r)
    BY <1>7, StartEffect
  <2> QED
    BY <2>1, NoRowIs DEF StartDoes, Others, RestOK, RowFollowsRequest, DomainClaimLive, Live,
       Reserved
<1>8. ASSUME NEW r \in Requests, MarkFailed(r) PROVE DomainClaimLive'
  <2>1. MarkFailedDoes(r)
    BY <1>8, MarkFailedEffect
  <2> QED
    BY <2>1, NoRowIs DEF MarkFailedDoes, Others, RestOK, RowFollowsRequest, DomainClaimLive,
       Live, Reserved
<1>9. ASSUME NEW r \in Requests, Release(r) PROVE DomainClaimLive'
  <2>1. ReleaseDoes(r)
    BY <1>9, ReleaseEffect
  <2> QED
    BY <2>1, NoRowIs DEF ReleaseDoes, Others, RestOK, RowFollowsRequest, DomainClaimLive, Live,
       Reserved
<1>10. ASSUME NEW r \in Requests, Provision(r) PROVE DomainClaimLive'
  <2>1. ProvisionDoes(r)
    BY <1>10, ProvisionEffect
  <2> QED
    BY <2>1, NoRowIs DEF ProvisionDoes, Others, RecordOwed, RestOK, RowFollowsRequest,
       DomainClaimLive, Live, Reserved
<1>11. CASE SweepDelete
  <2>1. SweepDoes
    BY <1>11, SweepEffect
  <2> QED
    BY <2>1, NoRowIs DEF SweepDoes, Others, RestOK, RowFollowsRequest, DomainClaimLive, Live,
       Reserved
<1> QED
  BY <1>1, <1>2, <1>3, <1>4, <1>5, <1>6, <1>7, <1>8, <1>9, <1>10, <1>11 DEF Next, Request

(* The host and the waiver window.                                         *)

Admitted == {s \in Requests : Live(s) /\ vms[s].admitted}
Spenders == {r \in Requests : money[r] = "waived" \/ pc[r] \in {"audit", "restore"}}
RoomInv == AdmittedFit /\ InsertersFit
WindowInv == SlotsSpent /\ WaiversAccounted

\* Nobody is admitted and nobody is about to insert who was not before.
RoomKept == /\ slots' = slots /\ Admitted' \subseteq Admitted
            /\ \A s \in Requests : pc'[s] = "insert" => pc[s] = "insert" /\ capLock' = capLock
\* Nobody spends a slot who did not before, and every waiver is audited.
WindowKept == /\ quota' = quota /\ Spenders' \subseteq Spenders
              /\ \A s \in Requests : money'[s] = "waived" => s \in audits'

\* Sets of requests are finite and their parts are no larger.
LEMMA FewerThan ==
  ASSUME NEW S \in SUBSET Requests, NEW T \in SUBSET S
  PROVE  /\ IsFiniteSet(S) /\ Cardinality(S) \in Nat
         /\ Cardinality(T) \in Nat /\ Cardinality(T) <= Cardinality(S)
<1>1. IsFiniteSet(S)
  BY RequestsAreFinite, FS_Subset
<1>2. IsFiniteSet(T) /\ Cardinality(T) <= Cardinality(S)
  BY <1>1, FS_Subset
<1> QED
  BY <1>1, <1>2, FS_CardinalityType

\* A step that admits nobody keeps the room on the host.
LEMMA RoomIsKept == ASSUME RestOK, RoomInv, RoomKept PROVE RoomInv'
<1>1. /\ Cardinality(Admitted) \in Nat /\ Cardinality(Admitted') \in Nat
      /\ Cardinality(Admitted') <= Cardinality(Admitted)
  <2>1. Admitted \in SUBSET Requests /\ Admitted' \in SUBSET Admitted
    BY DEF RoomKept, Admitted
  <2> QED
    BY <2>1, FewerThan
<1>2. slots \in Nat /\ slots' = slots
  BY BoundsAreNumbers DEF RestOK, RoomKept
<1>3. AdmittedFit'
  BY <1>1, <1>2 DEF RoomInv, AdmittedFit, Admitted
<1>4. InsertersFit'
  BY <1>1, <1>2 DEF RoomInv, InsertersFit, Admitted, RoomKept
<1> QED
  BY <1>3, <1>4 DEF RoomInv

\* A step that spends no slot keeps the waiver window.
LEMMA WindowIsKept == ASSUME RestOK, WindowInv, WindowKept PROVE WindowInv'
<1>1. /\ Cardinality(Spenders) \in Nat /\ Cardinality(Spenders') \in Nat
      /\ Cardinality(Spenders') <= Cardinality(Spenders)
  <2>1. Spenders \in SUBSET Requests /\ Spenders' \in SUBSET Spenders
    BY DEF WindowKept, Spenders
  <2> QED
    BY <2>1, FewerThan
<1>2. quota \in Nat /\ quota' = quota
  BY DEF RestOK, WindowKept
<1>3. SlotsSpent'
  BY <1>1, <1>2 DEF WindowInv, SlotsSpent, Spenders
<1> DEFINE waived == {r \in Requests : money'[r] = "waived"}
<1>4. Cardinality(waived) \in Nat /\ Cardinality(waived) <= Cardinality(Spenders')
  <2>1. waived \in SUBSET Spenders' /\ Spenders' \in SUBSET Requests
    BY DEF Spenders
  <2> QED
    BY <2>1, FewerThan
<1>5. Cardinality(Spenders') <= quota'
  BY <1>3 DEF SlotsSpent, Spenders
<1>6. WaiversAccounted'
  BY <1>1, <1>2, <1>4, <1>5 DEF WindowInv, WaiversAccounted, WindowKept
<1> QED
  BY <1>3, <1>6 DEF WindowInv

\* The host keeps its room: only a request under the lock is admitted.
LEMMA RoomStep == Acknowledged /\ RestOK /\ RowsOK /\ RowFollowsRequest /\ RoomInv /\ [Next]_vars => RoomInv'
<1> SUFFICES ASSUME Acknowledged, RestOK, RowsOK, RowFollowsRequest, RoomInv, [Next]_vars PROVE RoomInv'
  OBVIOUS
<1>1. ASSUME NEW r \in Requests,
             \/ Read(r) \/ Attach(r) \/ Guard(r) \/ Settle(r) \/ ConsumeQuota(r) \/ Audit(r)
             \/ RestoreQuota(r) \/ Bind(r) \/ Claim(r) \/ Link(r) \/ Refund(r)
             \/ ReopenQuote(r) \/ Crash(r) \/ Age(r)
      PROVE  RoomInv'
  <2>1. RoomKept
    BY <1>1 DEF Read, Attach, Guard, Settle, ConsumeQuota, Audit, Record, RestoreQuota, Bind,
       Claim, Link, Refund, RecordOwed, ReopenQuote, Crash, Unlocked, Age, RoomKept, RestOK,
       RoomInv, InsertersFit, Admitted, Live
  <2> QED
    BY <2>1, RoomIsKept
<1>2. CASE SweepSelect \/ Disable \/ Revoke \/ UNCHANGED vars
  <2>1. RoomKept
    BY <1>2 DEF SweepSelect, Disable, Revoke, RoomKept, RestOK, RoomInv, InsertersFit, Admitted,
       Live
  <2> QED
    BY <2>1, RoomIsKept
<1>3. ASSUME NEW r \in Requests, CheckCapacity(r) PROVE RoomInv'
  <2>0. /\ slots' = slots /\ Admitted' = Admitted /\ slots \in Nat
        /\ \A s \in Requests : pc[s] # "insert"
        /\ \A s \in Requests \ {r} : pc'[s] = pc[s]
    BY <1>3, NoneIsNothing, BoundsAreNumbers
       DEF CheckCapacity, Admitted, Live, RestOK, RoomInv, InsertersFit
  <2>1. Cardinality(Admitted) <= Cardinality(Placed) /\ Cardinality(Admitted) \in Nat
        /\ Cardinality(Placed) \in Nat
    <3>1. Placed \in SUBSET Requests /\ Admitted \in SUBSET Placed
      BY DEF Placed, Admitted
    <3> QED
      BY <3>1, FewerThan
  <2>2. pc'[r] = "insert" => Cardinality(Placed) < slots /\ capLock' = r
    BY <1>3 DEF CheckCapacity, Fits, RestOK
  <2>3. AdmittedFit'
    BY <2>0 DEF RoomInv, AdmittedFit, Admitted
  <2>4. \A s \in Requests : pc'[s] = "insert" => capLock' = s /\ Cardinality(Admitted') < slots'
    BY <2>0, <2>1, <2>2
  <2>5. InsertersFit'
    BY <2>4 DEF InsertersFit, Admitted
  <2> QED
    BY <2>3, <2>5 DEF RoomInv
<1>4. ASSUME NEW r \in Requests, InsertReservation(r) PROVE RoomInv'
  <2>0. InsertDoes(r) /\ slots \in Nat /\ slots' = slots
    BY <1>4, InsertEffect, BoundsAreNumbers DEF RestOK, InsertDoes
  <2>1. CASE pc'[r] = "done" /\ vms' = vms
    <3>1. RoomKept
      BY <1>4, <2>0, <2>1
         DEF InsertReservation, Unlocked, InsertDoes, Others, RoomKept, RoomInv, InsertersFit,
         Admitted, Live
    <3> QED
      BY <3>1, RoomIsKept
  <2>2. CASE /\ pc'[r] # "insert" /\ vms'[r].status = "PROVISIONING" /\ vms'[r].admitted = TRUE
    <3>1. Admitted' = Admitted \cup {r} /\ r \notin Admitted /\ IsFiniteSet(Admitted)
      <4>1. Admitted' = Admitted \cup {r} /\ r \notin Admitted
        BY <2>0, <2>2, NoRowIs DEF InsertDoes, Others, Admitted, Live
      <4>2. Admitted \in SUBSET Requests
        BY DEF Admitted
      <4> QED
        BY <4>1, <4>2, FewerThan
    <3>2. Cardinality(Admitted') = Cardinality(Admitted) + 1 /\ Cardinality(Admitted) \in Nat
      BY <3>1, FS_AddElement, FS_CardinalityType
    <3>3. Cardinality(Admitted) < slots /\ \A s \in Requests \ {r} : pc[s] # "insert"
      BY <2>0 DEF InsertDoes, RoomInv, InsertersFit, Admitted
    <3>4. AdmittedFit'
      BY <2>0, <3>2, <3>3 DEF AdmittedFit, Admitted
    <3>5. InsertersFit'
      BY <2>0, <2>2, <3>3 DEF InsertersFit, InsertDoes, Others
    <3> QED
      BY <3>4, <3>5 DEF RoomInv
  <2> QED
    BY <2>0, <2>1, <2>2 DEF InsertDoes
<1>5. ASSUME NEW r \in Requests, Activate(r) PROVE RoomInv'
  <2>1. ActivateDoes(r)
    BY <1>5, ActivateEffect
  <2>2. capLock' = capLock
    BY <1>5 DEF Activate
  <2>3. RoomKept
    BY <2>1, <2>2, NoRowIs DEF ActivateDoes, Others, RoomKept, Admitted, Live, AfterRow
  <2> QED
    BY <2>3, RoomIsKept
<1>6. ASSUME NEW r \in Requests, Create(r) PROVE RoomInv'
  <2>1. CreateDoes(r)
    BY <1>6, CreateEffect
  <2>2. capLock' = capLock
    BY <1>6 DEF Create
  <2>3. RoomKept
    BY <2>1, <2>2, NoRowIs DEF CreateDoes, Others, RoomKept, Admitted, Live, AfterRow
  <2> QED
    BY <2>3, RoomIsKept
<1>7. ASSUME NEW r \in Requests, Start(r) PROVE RoomInv'
  <2>1. StartDoes(r)
    BY <1>7, StartEffect
  <2>2. capLock' = capLock
    BY <1>7 DEF Start
  <2>3. RoomKept
    BY <2>1, <2>2, NoRowIs DEF StartDoes, Others, RoomKept, Admitted, Live
  <2> QED
    BY <2>3, RoomIsKept
<1>8. ASSUME NEW r \in Requests, MarkFailed(r) PROVE RoomInv'
  <2>1. MarkFailedDoes(r)
    BY <1>8, MarkFailedEffect
  <2>2. capLock' = capLock
    BY <1>8 DEF MarkFailed
  <2>3. RoomKept
    BY <2>1, <2>2, NoRowIs DEF MarkFailedDoes, Others, RoomKept, Admitted, Live
  <2> QED
    BY <2>3, RoomIsKept
<1>9. ASSUME NEW r \in Requests, Release(r) PROVE RoomInv'
  <2>1. ReleaseDoes(r)
    BY <1>9, ReleaseEffect
  <2>2. capLock' = capLock
    BY <1>9 DEF Release
  <2>3. RoomKept
    BY <2>1, <2>2, NoRowIs DEF ReleaseDoes, Others, RoomKept, Admitted, Live, Reserved
  <2> QED
    BY <2>3, RoomIsKept
<1>10. ASSUME NEW r \in Requests, Provision(r) PROVE RoomInv'
  <2>1. ProvisionDoes(r)
    BY <1>10, ProvisionEffect
  <2>2. capLock' = capLock
    BY <1>10 DEF Provision
  <2>3. RoomKept
    BY <2>1, <2>2, NoRowIs DEF ProvisionDoes, Others, RoomKept, Admitted, Live
  <2> QED
    BY <2>3, RoomIsKept
<1>11. CASE SweepDelete
  <2>1. SweepDoes
    BY <1>11, SweepEffect
  <2>2. capLock' = capLock
    BY <1>11 DEF SweepDelete
  <2>3. RoomKept
    BY <2>1, <2>2, NoRowIs DEF SweepDoes, Others, RoomKept, Admitted, Live, Reserved
  <2> QED
    BY <2>3, RoomIsKept
<1> QED
  BY <1>1, <1>2, <1>3, <1>4, <1>5, <1>6, <1>7, <1>8, <1>9, <1>10, <1>11 DEF Next, Request

\* The waiver window is never overdrawn.
LEMMA WindowStep ==
  RestOK /\ RowsOK /\ RowFollowsRequest /\ MoneyFollowsRequest /\ WindowInv /\ [Next]_vars
    => WindowInv'
<1> SUFFICES ASSUME RestOK, RowsOK, RowFollowsRequest, MoneyFollowsRequest, WindowInv, [Next]_vars
             PROVE  WindowInv'
  OBVIOUS
<1>1. ASSUME NEW r \in Requests,
             \/ Read(r) \/ CheckCapacity(r) \/ InsertReservation(r) \/ Attach(r) \/ Guard(r)
             \/ Bind(r) \/ Claim(r) \/ Activate(r) \/ Create(r) \/ Link(r) \/ Start(r)
             \/ Refund(r) \/ MarkFailed(r) \/ ReopenQuote(r) \/ Release(r) \/ Crash(r)
             \/ Provision(r) \/ Age(r)
      PROVE  WindowInv'
  <2>1. WindowKept
    BY <1>1 DEF Read, CheckCapacity, Fits, InsertReservation, Unlocked, Attach, Guard, Bind,
       Claim,
       Activate, AfterRow, Create, Link, Start, Refund, RecordOwed, MarkFailed, ReopenQuote,
       Release, Crash, Provision, Age, WindowKept, RestOK, WindowInv, WaiversAccounted, Spenders
  <2> QED
    BY <2>1, WindowIsKept
<1>2. CASE SweepSelect \/ SweepDelete \/ Disable \/ Revoke \/ UNCHANGED vars
  <2>1. WindowKept
    BY <1>2 DEF SweepSelect, SweepDelete, Disable, Revoke, WindowKept, RestOK, WindowInv,
       WaiversAccounted, Spenders
  <2> QED
    BY <2>1, WindowIsKept
<1>3. ASSUME NEW r \in Requests, Settle(r) PROVE WindowInv'
  <2>1. WindowKept
    BY <1>3 DEF Settle, WindowKept, RestOK, WindowInv, WaiversAccounted, Spenders
  <2> QED
    BY <2>1, WindowIsKept
<1>4. ASSUME NEW r \in Requests, ConsumeQuota(r) PROVE WindowInv'
  <2>1. CASE quota' = quota /\ pc' = [pc EXCEPT ![r] = "release"]
    <3>1. WindowKept
      BY <1>4, <2>1 DEF ConsumeQuota, WindowKept, RestOK, WindowInv, WaiversAccounted, Spenders
    <3> QED
      BY <3>1, WindowIsKept
  <2>2. CASE quota' = quota + 1 /\ pc' = [pc EXCEPT ![r] = "audit"] /\ quota < WaiverLimit
    <3>1. money' = money /\ audits' = audits /\ money[r] = "none" /\ pc[r] = "quota"
      BY <1>4 DEF ConsumeQuota, MoneyFollowsRequest, BeforePayment
    <3>2. Spenders' = Spenders \cup {r} /\ r \notin Spenders
      BY <2>2, <3>1 DEF Spenders, RestOK
    <3>3. /\ Cardinality(Spenders') = Cardinality(Spenders) + 1
          /\ Cardinality(Spenders) \in Nat
      <4>1. Spenders \in SUBSET Requests
        BY DEF Spenders
      <4>2. IsFiniteSet(Spenders) /\ Cardinality(Spenders) \in Nat
        BY <4>1, FewerThan
      <4> QED
        BY <3>2, <4>2, FS_AddElement
    <3>4. SlotsSpent'
      BY <2>2, <3>3 DEF WindowInv, SlotsSpent, Spenders, RestOK
    <3>5. WaiversAccounted'
      <4> DEFINE waived == {s \in Requests : money[s] = "waived"}
      <4>1. Cardinality(waived) \in Nat
        <5>1. waived \in SUBSET Requests
          OBVIOUS
        <5> QED
          BY <5>1, FewerThan
      <4>2. waived \subseteq audits /\ Cardinality(waived) <= quota
        BY DEF WindowInv, WaiversAccounted
      <4> HIDE DEF waived
      <4>3. waived \subseteq audits' /\ Cardinality(waived) <= quota' /\ quota' <= WaiverLimit
        BY <2>2, <3>1, <4>1, <4>2, BoundsAreNumbers DEF RestOK
      <4> QED
        BY <3>1, <4>3 DEF WaiversAccounted, waived
    <3> QED
      BY <3>4, <3>5 DEF WindowInv
  <2> QED
    BY <1>4, <2>1, <2>2 DEF ConsumeQuota
<1>5. ASSUME NEW r \in Requests, Audit(r) PROVE WindowInv'
  <2>1. WindowKept
    BY <1>5 DEF Audit, Record, WindowKept, RestOK, WindowInv, WaiversAccounted, Spenders
  <2> QED
    BY <2>1, WindowIsKept
<1>6. ASSUME NEW r \in Requests, RestoreQuota(r) PROVE WindowInv'
  <2>0. /\ money' = money /\ audits' = audits /\ money[r] = "none" /\ pc[r] = "restore"
        /\ pc' = [pc EXCEPT ![r] = "release"]
    BY <1>6 DEF RestoreQuota, MoneyFollowsRequest, BeforePayment
  <2>1. CASE quota' = quota
    <3>1. WindowKept
      BY <2>0, <2>1 DEF WindowKept, RestOK, WindowInv, WaiversAccounted, Spenders
    <3> QED
      BY <3>1, WindowIsKept
  <2>2. CASE quota' = IF quota > 0 THEN quota - 1 ELSE 0
    <3>1. Spenders' = Spenders \ {r} /\ r \in Spenders
      BY <2>0 DEF Spenders, RestOK
    <3>2. /\ Cardinality(Spenders') = Cardinality(Spenders) - 1
          /\ Cardinality(Spenders) \in Nat /\ Cardinality(Spenders') \in Nat
      <4>1. Spenders \in SUBSET Requests /\ Spenders' \in SUBSET Requests
        BY DEF Spenders
      <4>2. /\ IsFiniteSet(Spenders) /\ Cardinality(Spenders) \in Nat
            /\ Cardinality(Spenders') \in Nat
        BY <4>1, FewerThan
      <4> QED
        BY <3>1, <4>2, FS_RemoveElement
    <3>3. Cardinality(Spenders) <= quota /\ quota \in Nat /\ quota <= WaiverLimit
      BY DEF WindowInv, SlotsSpent, Spenders, WaiversAccounted, RestOK
    <3>4. quota' = quota - 1 /\ Cardinality(Spenders') <= quota' /\ quota' <= WaiverLimit
          /\ quota' \in Nat
      BY <2>2, <3>2, <3>3, BoundsAreNumbers
    <3>5. SlotsSpent'
      BY <3>4 DEF SlotsSpent, Spenders
    <3>6. WaiversAccounted'
      <4> DEFINE waived == {s \in Requests : money[s] = "waived"}
      <4>1. waived \in SUBSET Spenders' /\ Spenders' \in SUBSET Requests
        BY <2>0, <3>1 DEF Spenders
      <4>2. Cardinality(waived) \in Nat /\ Cardinality(waived) <= Cardinality(Spenders')
        BY <4>1, FewerThan
      <4>3. waived \subseteq audits
        BY DEF WindowInv, WaiversAccounted
      <4> HIDE DEF waived
      <4>4. Cardinality(waived) <= quota'
        BY <3>2, <3>4, <4>2
      <4> QED
        BY <2>0, <3>4, <4>3, <4>4 DEF WaiversAccounted, waived
    <3> QED
      BY <3>5, <3>6 DEF WindowInv
  <2> QED
    BY <1>6, <2>1, <2>2 DEF RestoreQuota
<1> QED
  BY <1>1, <1>2, <1>3, <1>4, <1>5, <1>6 DEF Next, Request

(* The charges.                                                            *)

AnswerInv == ChargeFollowsRequest /\ ChargedIsAnswered

\* Every step keeps the answer to a charge.
LEMMA AnswerStep ==
  Acknowledged /\ RestOK /\ RowsOK /\ RowFollowsRequest /\ MoneyFollowsRequest /\ AnswerInv /\ [Next]_vars
    => AnswerInv'
<1> SUFFICES ASSUME Acknowledged, RestOK, RowsOK, RowFollowsRequest, MoneyFollowsRequest, AnswerInv, [Next]_vars
             PROVE  AnswerInv'
  OBVIOUS
<1>1. ASSUME NEW r \in Requests,
             \/ Read(r) \/ CheckCapacity(r) \/ Attach(r) \/ ConsumeQuota(r)
             \/ RestoreQuota(r) \/ Bind(r) \/ Claim(r) \/ Link(r) \/ ReopenQuote(r)
             \/ Crash(r) \/ Age(r)
      PROVE  AnswerInv'
  BY <1>1 DEF Read, CheckCapacity, Fits, Attach, ConsumeQuota, RestoreQuota, Bind, Claim, Link,
     ReopenQuote, Crash, Unlocked, Age, RestOK, AnswerInv, ChargeFollowsRequest,
     ChargedIsAnswered, Answered, Live, RowFollowsRequest, MoneyFollowsRequest, BeforeRow,
     BeforePayment, Undecided, Holding
<1>2. CASE SweepSelect \/ Disable \/ Revoke \/ UNCHANGED vars
  BY <1>2 DEF SweepSelect, Disable, Revoke, RestOK, AnswerInv, ChargeFollowsRequest,
     ChargedIsAnswered, Answered, Live, RowFollowsRequest, MoneyFollowsRequest, BeforeRow,
     BeforePayment, Undecided, Holding
<1>3. ASSUME NEW r \in Requests, InsertReservation(r) PROVE AnswerInv'
  <2>1. InsertDoes(r)
    BY <1>3, InsertEffect
  <2>2. mishaps' = 0 => mishaps = 0
    BY <1>3 DEF InsertReservation, RestOK
  <2> QED
    BY <2>1, <2>2, NoRowIs DEF InsertDoes, Others, RestOK, AnswerInv, ChargeFollowsRequest,
       ChargedIsAnswered, Answered, Live, RowFollowsRequest, MoneyFollowsRequest, BeforeRow,
       BeforePayment, Undecided, Holding
<1>4. ASSUME NEW r \in Requests, Guard(r) PROVE AnswerInv'
  BY <1>4 DEF Guard, AllTerms, RestOK, AnswerInv, ChargeFollowsRequest, ChargedIsAnswered,
     Answered, Live, RowFollowsRequest, MoneyFollowsRequest, BeforeRow, BeforePayment,
     Undecided, Holding
<1>5. ASSUME NEW r \in Requests, Settle(r) PROVE AnswerInv'
  BY <1>5 DEF Settle, RestOK, AnswerInv, ChargeFollowsRequest, ChargedIsAnswered, Answered, Live,
     RowFollowsRequest, MoneyFollowsRequest, BeforeRow, BeforePayment, Undecided, Holding
<1>6. ASSUME NEW r \in Requests, Audit(r) PROVE AnswerInv'
  BY <1>6 DEF Audit, Record, RestOK, AnswerInv, ChargeFollowsRequest, ChargedIsAnswered,
     Answered, Live, RowFollowsRequest, MoneyFollowsRequest, BeforeRow, BeforePayment,
     Undecided, Holding
<1>7. ASSUME NEW r \in Requests, Activate(r) PROVE AnswerInv'
  <2>1. ActivateDoes(r)
    BY <1>7, ActivateEffect
  <2>2. /\ mishaps' = 0 => mishaps = 0
        /\ pc'[r] = "reopen" => terms[r].payment = "waiver"
    BY <1>7 DEF Activate, AfterRow, Rejected, RestOK
  <2> QED
    BY <2>1, <2>2, NoRowIs DEF ActivateDoes, Others, AfterRow, RestOK, AnswerInv,
       ChargeFollowsRequest, ChargedIsAnswered, Answered, Live, RowFollowsRequest,
       MoneyFollowsRequest, BeforeRow, BeforePayment, Undecided, Holding
<1>8. ASSUME NEW r \in Requests, Create(r) PROVE AnswerInv'
  <2>1. CreateDoes(r)
    BY <1>8, CreateEffect
  <2>2. /\ mishaps' = 0 => mishaps = 0
        /\ pc'[r] = "reopen" => terms[r].payment = "waiver"
    BY <1>8 DEF Create, AfterRow, Rejected, RestOK
  <2> QED
    BY <2>1, <2>2, NoRowIs DEF CreateDoes, Others, AfterRow, RestOK, AnswerInv,
       ChargeFollowsRequest, ChargedIsAnswered, Answered, Live, RowFollowsRequest,
       MoneyFollowsRequest, BeforeRow, BeforePayment, Undecided, Holding
<1>9. ASSUME NEW r \in Requests, Start(r) PROVE AnswerInv'
  <2>1. StartDoes(r)
    BY <1>9, StartEffect
  <2>2. mishaps' = 0 => mishaps = 0
    BY <1>9 DEF Start, RestOK
  <2> QED
    BY <2>1, <2>2, NoRowIs DEF StartDoes, Others, RestOK, AnswerInv, ChargeFollowsRequest,
       ChargedIsAnswered, Answered, Live, RowFollowsRequest, MoneyFollowsRequest, BeforeRow,
       BeforePayment, Undecided, Holding
<1>10. ASSUME NEW r \in Requests, Refund(r) PROVE AnswerInv'
  BY <1>10 DEF Refund, RecordOwed, RestOK, AnswerInv, ChargeFollowsRequest, ChargedIsAnswered,
     Answered, Live, RowFollowsRequest, MoneyFollowsRequest, BeforeRow, BeforePayment,
     Undecided, Holding
<1>11. ASSUME NEW r \in Requests, MarkFailed(r) PROVE AnswerInv'
  <2>1. MarkFailedDoes(r)
    BY <1>11, MarkFailedEffect
  <2>2. mishaps' = 0 => mishaps = 0
    BY <1>11 DEF MarkFailed, RestOK
  <2> QED
    BY <2>1, <2>2, NoRowIs DEF MarkFailedDoes, Others, RestOK, AnswerInv, ChargeFollowsRequest,
       ChargedIsAnswered, Answered, Live, RowFollowsRequest, MoneyFollowsRequest, BeforeRow,
       BeforePayment, Undecided, Holding
<1>12. ASSUME NEW r \in Requests, Release(r) PROVE AnswerInv'
  <2>1. ReleaseDoes(r)
    BY <1>12, ReleaseEffect
  <2>2. mishaps' = 0 => mishaps = 0
    BY <1>12 DEF Release, RestOK
  <2> QED
    BY <2>1, <2>2, NoRowIs DEF ReleaseDoes, Others, Reserved, RestOK, AnswerInv,
       ChargeFollowsRequest, ChargedIsAnswered, Answered, Live, RowFollowsRequest,
       MoneyFollowsRequest, BeforeRow, BeforePayment, Undecided, Holding
<1>13. ASSUME NEW r \in Requests, Provision(r) PROVE AnswerInv'
  <2>1. ProvisionDoes(r)
    BY <1>13, ProvisionEffect
  <2>2. mishaps' = 0 => mishaps = 0
    BY <1>13 DEF Provision, RestOK
  <2> QED
    BY <2>1, <2>2, NoRowIs DEF ProvisionDoes, Others, RecordOwed, RestOK, AnswerInv,
       ChargeFollowsRequest, ChargedIsAnswered, Answered, Live, RowFollowsRequest,
       MoneyFollowsRequest, BeforeRow, BeforePayment, Undecided, Holding
<1>14. CASE SweepDelete
  <2>1. SweepDoes
    BY <1>14, SweepEffect
  <2>2. mishaps' = 0 => mishaps = 0
    BY <1>14 DEF SweepDelete, RestOK
  <2> QED
    BY <2>1, <2>2, NoRowIs DEF SweepDoes, Others, Reserved, RestOK, AnswerInv,
       ChargeFollowsRequest, ChargedIsAnswered, Answered, Live, RowFollowsRequest,
       MoneyFollowsRequest, BeforeRow, BeforePayment, Undecided, Holding
<1> QED
  BY <1>1, <1>2, <1>3, <1>4, <1>5, <1>6, <1>7, <1>8, <1>9, <1>10, <1>11, <1>12, <1>13, <1>14
     DEF Next, Request

(* The theorems.                                                           *)

\* The inductive invariant holds initially.
LEMMA InvInit == Init => CheckoutInv /\ ChargedIsAnswered
<1> SUFFICES ASSUME Init PROVE CheckoutInv /\ ChargedIsAnswered
  OBVIOUS
<1>1. TypeOK
  BY TypeInit
<1>2. /\ \A r \in Requests : /\ pc[r] = "idle" /\ vms[r] = NoRow /\ money[r] = "none"
                             /\ owed[r] = 0 /\ r \notin stale \cup swept
      /\ domain = None /\ quota = 0 /\ slots \in Nat
  BY BoundsAreNumbers DEF Init
<1> DEFINE waived == {r \in Requests : money[r] = "waived"}
<1>3. Admitted = {} /\ Spenders = {} /\ waived = {}
  BY <1>2, NoRowIs DEF Admitted, Spenders
<1>4. AdmittedFit /\ SlotsSpent /\ WaiversAccounted
  <2>1. Cardinality(Admitted) = 0 /\ Cardinality(Spenders) = 0 /\ Cardinality(waived) = 0
    BY <1>3, FS_EmptySet
  <2>2. waived \subseteq audits /\ Cardinality(waived) <= quota /\ quota <= WaiverLimit
    BY <1>2, <1>3, <2>1, BoundsAreNumbers
  <2>3. AdmittedFit /\ SlotsSpent
    BY <1>2, <2>1 DEF AdmittedFit, SlotsSpent, Admitted, Spenders
  <2> QED
    BY <2>2, <2>3 DEF WaiversAccounted
<1>5. DomainClaimLive /\ OwedOnce /\ InsertersFit
  BY <1>2 DEF DomainClaimLive, OwedOnce, InsertersFit
<1>6. RowFollowsRequest /\ MoneyFollowsRequest
  BY <1>2, NoRowIs DEF RowFollowsRequest, MoneyFollowsRequest, BeforeRow, BeforePayment, Holding
<1>8. ChargeFollowsRequest /\ ChargedIsAnswered
  BY <1>2 DEF ChargeFollowsRequest, ChargedIsAnswered
<1>7. QuoteHeld
  BY <1>2, NoRowIs DEF QuoteHeld, Holds, Holding
<1> QED
  BY <1>1, <1>4, <1>5, <1>6, <1>7, <1>8 DEF CheckoutInv

\* Every step keeps the inductive invariant.
LEMMA InvStep ==
  Acknowledged /\ CheckoutInv /\ ChargedIsAnswered /\ [Next]_vars
    => CheckoutInv' /\ ChargedIsAnswered'
<1> SUFFICES ASSUME Acknowledged, CheckoutInv, ChargedIsAnswered, [Next]_vars
             PROVE  CheckoutInv' /\ ChargedIsAnswered'
  OBVIOUS
<1>1. /\ RowsOK /\ RestOK /\ RowFollowsRequest /\ MoneyFollowsRequest /\ OwedOnce
      /\ QuoteHeld /\ DomainClaimLive /\ RoomInv /\ WindowInv /\ AnswerInv
  BY TypeSplit DEF CheckoutInv, RoomInv, WindowInv, AnswerInv
<1>2. TypeOK'
  <2>1. RowsOK' /\ RestOK'
    BY <1>1, RowsStep, RestStep
  <2>2. (RowsOK /\ RestOK)' <=> TypeOK'
    BY TypeSplit, PTL
  <2> QED
    BY <2>1, <2>2
<1>3. RowFollowsRequest' /\ MoneyFollowsRequest' /\ OwedOnce'
  BY <1>1, RowStep, MoneyStep, OwedStep
<1>4. QuoteHeld' /\ DomainClaimLive'
  BY <1>1, QuoteStep, DomainStep
<1>5. RoomInv' /\ WindowInv' /\ AnswerInv'
  BY <1>1, RoomStep, WindowStep, AnswerStep
<1> QED
  BY <1>2, <1>3, <1>4, <1>5 DEF CheckoutInv, RoomInv, WindowInv, AnswerInv

\* The inductive invariant holds always.
LEMMA InvAlways == ASSUME Acknowledged PROVE Spec => [](CheckoutInv /\ ChargedIsAnswered)
<1>1. CheckoutInv /\ ChargedIsAnswered /\ [Next]_vars => CheckoutInv' /\ ChargedIsAnswered'
  BY InvStep
<1> QED
  BY <1>1, InvInit, PTL DEF Spec

\* The theorems suppose that a commit of start_provisioning which is made is also
\* acknowledged: a request that takes a published handoff for a failure refunds and
\* fails a VM that the provisioner delivers.

\* However many requests, prefixes and host slots there are, and however often something
\* else goes wrong: the host, the domain, the waiver window, the quote and the refunds of
\* concurrent checkouts stay consistent (create_vm and what it calls).
THEOREM CheckoutSafe == "start" \notin LostAt => (Spec => []CheckoutInv)
<1> SUFFICES ASSUME "start" \notin LostAt PROVE Spec => []CheckoutInv
  OBVIOUS
<1>1. Acknowledged
  BY DEF Acknowledged
<1>2. Spec => [](CheckoutInv /\ ChargedIsAnswered)
  BY <1>1, InvAlways
<1> QED
  BY <1>2, PTL

\* While no process dies and no write is lost, a customer who was charged ends with a paid
\* VM or with a refund that is owed, whatever the other requests, the sweeper and the
\* administrators do (create_vm, record_create_failure_refund).
THEOREM ChargedAnswered == "start" \notin LostAt => (Spec => []ChargedIsAnswered)
<1> SUFFICES ASSUME "start" \notin LostAt PROVE Spec => []ChargedIsAnswered
  OBVIOUS
<1>1. Acknowledged
  BY DEF Acknowledged
<1>2. Spec => [](CheckoutInv /\ ChargedIsAnswered)
  BY <1>1, InvAlways
<1> QED
  BY <1>2, PTL

\* No quote is sold twice, however many requests pay for it (claim_quote).
THEOREM OneVMSafe == "start" \notin LostAt => (Spec => []OneVMPerQuote)
<1> SUFFICES ASSUME "start" \notin LostAt PROVE Spec => []OneVMPerQuote
  OBVIOUS
<1>1. CheckoutInv => OneVMPerQuote
  <2> SUFFICES ASSUME CheckoutInv PROVE OneVMPerQuote
    OBVIOUS
  <2> DEFINE sold == {r \in Requests : terms[r].quoted /\ vms[r].paid /\ Live(r)}
  <2>1. \A r, s \in sold : r = s
    BY DEF CheckoutInv, QuoteHeld, Holds
  <2>2. CASE sold = {}
    <3>1. Cardinality(sold) = 0
      BY <2>2, FS_EmptySet
    <3> QED
      BY <3>1 DEF OneVMPerQuote
  <2>3. CASE sold # {}
    <3>1. PICK x : x \in sold
      BY <2>3
    <3>2. sold = {x}
      BY <2>1, <3>1
    <3>3. Cardinality(sold) = 1
      BY <3>2, FS_Singleton
    <3> QED
      BY <3>3 DEF OneVMPerQuote
  <2> QED
    BY <2>2, <2>3
<1> QED
  BY <1>1, CheckoutSafe, PTL

\* The phase of a request in PaidOrder, without the CASE.
PhaseOf(r) == IF owed[r] > 0 THEN "refunded"
              ELSE IF vms[r].status = "RUNNING" THEN "delivered"
              ELSE IF money[r] # "none" THEN "settled" ELSE "open"
Phases == [r \in Requests |-> PhaseOf(r)]
Becomes(r, from, to) == Phases[r] = from /\ Phases' = [Phases EXCEPT ![r] = to]
OrderStep == \/ Phases' = Phases
             \/ \E r \in Requests : \/ Becomes(r, "open", "settled")
                                    \/ Becomes(r, "settled", "delivered")
                                    \/ Becomes(r, "settled", "refunded")

\* A step of r that takes its phase from one to the next and no other.
LEMMA OneBecomes ==
  ASSUME NEW r \in Requests, NEW from, NEW to, PhaseOf(r) = from, PhaseOf(r)' = to,
         \A s \in Requests \ {r} : PhaseOf(s)' = PhaseOf(s)
  PROVE  Becomes(r, from, to)
<1>1. Phases[r] = from
  BY DEF Phases
<1>2. Phases' = [s \in Requests |-> PhaseOf(s)']
  BY DEF Phases
<1>3. \A s \in Requests : PhaseOf(s)' = [Phases EXCEPT ![r] = to][s]
  BY DEF Phases
<1> QED
  BY <1>1, <1>2, <1>3 DEF Becomes, Phases

\* A step that changes no phase is a stutter of PaidOrder.
LEMMA NoneBecomes ==
  ASSUME \A s \in Requests : PhaseOf(s)' = PhaseOf(s) PROVE OrderStep
  BY DEF OrderStep, Phases

\* Every step is a step of PaidOrder or a stutter.
LEMMA OrderSteps ==
  Acknowledged /\ RestOK /\ RowsOK /\ RowFollowsRequest /\ MoneyFollowsRequest /\ OwedOnce /\ [Next]_vars
    => OrderStep
<1> SUFFICES ASSUME Acknowledged, RestOK, RowsOK, RowFollowsRequest, MoneyFollowsRequest, OwedOnce, [Next]_vars
             PROVE  OrderStep
  OBVIOUS
<1>1. ASSUME NEW r \in Requests,
             \/ Read(r) \/ CheckCapacity(r) \/ Attach(r) \/ Guard(r) \/ ConsumeQuota(r)
             \/ RestoreQuota(r) \/ Bind(r) \/ Claim(r) \/ Link(r) \/ ReopenQuote(r)
             \/ Crash(r) \/ Age(r)
      PROVE  OrderStep
  <2>1. \A s \in Requests : PhaseOf(s)' = PhaseOf(s)
    BY <1>1 DEF Read, CheckCapacity, Fits, Attach, Guard, ConsumeQuota, RestoreQuota, Bind, Claim,
       Link, ReopenQuote, Crash, Unlocked, Age, RestOK, PhaseOf
  <2> QED
    BY <2>1, NoneBecomes
<1>2. CASE SweepSelect \/ Disable \/ Revoke \/ UNCHANGED vars
  <2>1. \A s \in Requests : PhaseOf(s)' = PhaseOf(s)
    BY <1>2 DEF SweepSelect, Disable, Revoke, RestOK, PhaseOf
  <2> QED
    BY <2>1, NoneBecomes
<1>3. ASSUME NEW r \in Requests, InsertReservation(r) PROVE OrderStep
  <2>1. InsertDoes(r)
    BY <1>3, InsertEffect
  <2>2. \A s \in Requests : PhaseOf(s)' = PhaseOf(s)
    BY <2>1, NoRowIs DEF InsertDoes, Others, RowFollowsRequest, PhaseOf
  <2> QED
    BY <2>2, NoneBecomes
<1>4. ASSUME NEW r \in Requests, Settle(r) PROVE OrderStep
  <2>1. \A s \in Requests \ {r} : PhaseOf(s)' = PhaseOf(s)
    BY <1>4 DEF Settle, RestOK, PhaseOf
  <2>2. PhaseOf(r) = "open" /\ (PhaseOf(r)' = "settled" \/ PhaseOf(r)' = PhaseOf(r))
    BY <1>4 DEF Settle, RestOK, RowFollowsRequest, MoneyFollowsRequest, BeforePayment,
       Holding, PhaseOf
  <2> QED
    BY <2>1, <2>2, OneBecomes, NoneBecomes DEF OrderStep
<1>5. ASSUME NEW r \in Requests, Audit(r) PROVE OrderStep
  <2>1. \A s \in Requests \ {r} : PhaseOf(s)' = PhaseOf(s)
    BY <1>5 DEF Audit, Record, RestOK, PhaseOf
  <2>2. PhaseOf(r) = "open" /\ (PhaseOf(r)' = "settled" \/ PhaseOf(r)' = PhaseOf(r))
    BY <1>5 DEF Audit, Record, RestOK, RowFollowsRequest, MoneyFollowsRequest, BeforePayment,
       Holding, PhaseOf
  <2> QED
    BY <2>1, <2>2, OneBecomes, NoneBecomes DEF OrderStep
<1>6. ASSUME NEW r \in Requests, Activate(r) PROVE OrderStep
  <2>1. ActivateDoes(r)
    BY <1>6, ActivateEffect
  <2>2. \A s \in Requests : PhaseOf(s)' = PhaseOf(s)
    BY <2>1, NoRowIs DEF ActivateDoes, Others, AfterRow, RowFollowsRequest, PhaseOf
  <2> QED
    BY <2>2, NoneBecomes
<1>7. ASSUME NEW r \in Requests, Create(r) PROVE OrderStep
  <2>1. CreateDoes(r)
    BY <1>7, CreateEffect
  <2>2. \A s \in Requests : PhaseOf(s)' = PhaseOf(s)
    BY <2>1, NoRowIs DEF CreateDoes, Others, AfterRow, RowFollowsRequest, PhaseOf
  <2> QED
    BY <2>2, NoneBecomes
<1>8. ASSUME NEW r \in Requests, Start(r) PROVE OrderStep
  <2>1. StartDoes(r)
    BY <1>8, StartEffect
  <2>2. \A s \in Requests : PhaseOf(s)' = PhaseOf(s)
    BY <2>1, NoRowIs DEF StartDoes, Others, RowFollowsRequest, PhaseOf
  <2> QED
    BY <2>2, NoneBecomes
<1>9. ASSUME NEW r \in Requests, Refund(r) PROVE OrderStep
  <2>1. \A s \in Requests \ {r} : PhaseOf(s)' = PhaseOf(s)
    BY <1>9 DEF Refund, RecordOwed, RestOK, PhaseOf
  <2>2. PhaseOf(r) = "settled" /\ (PhaseOf(r)' = "refunded" \/ PhaseOf(r)' = PhaseOf(r))
    BY <1>9 DEF Refund, RecordOwed, RestOK, RowFollowsRequest, MoneyFollowsRequest,
       BeforePayment, Holding, PhaseOf
  <2> QED
    BY <2>1, <2>2, OneBecomes, NoneBecomes DEF OrderStep
<1>10. ASSUME NEW r \in Requests, MarkFailed(r) PROVE OrderStep
  <2>1. MarkFailedDoes(r)
    BY <1>10, MarkFailedEffect
  <2>2. \A s \in Requests : PhaseOf(s)' = PhaseOf(s)
    BY <2>1, NoRowIs DEF MarkFailedDoes, Others, Live, RowFollowsRequest, PhaseOf
  <2> QED
    BY <2>2, NoneBecomes
<1>11. ASSUME NEW r \in Requests, Release(r) PROVE OrderStep
  <2>1. ReleaseDoes(r)
    BY <1>11, ReleaseEffect
  <2>2. \A s \in Requests : PhaseOf(s)' = PhaseOf(s)
    BY <2>1, NoRowIs DEF ReleaseDoes, Others, Reserved, RowFollowsRequest, PhaseOf
  <2> QED
    BY <2>2, NoneBecomes
<1>12. ASSUME NEW r \in Requests, Provision(r) PROVE OrderStep
  <2>0. ProvisionDoes(r)
    BY <1>12, ProvisionEffect
  <2>1. \A s \in Requests \ {r} : PhaseOf(s)' = PhaseOf(s)
    BY <2>0 DEF ProvisionDoes, Others, RecordOwed, RestOK, PhaseOf
  <2>2. /\ PhaseOf(r) = "settled"
        /\ \/ PhaseOf(r)' = "delivered" \/ PhaseOf(r)' = "refunded"
           \/ PhaseOf(r)' = PhaseOf(r)
    BY <2>0 DEF ProvisionDoes, RecordOwed, RestOK, MoneyFollowsRequest, PhaseOf
  <2> QED
    BY <2>1, <2>2, OneBecomes, NoneBecomes DEF OrderStep
<1>13. CASE SweepDelete
  <2>1. SweepDoes
    BY <1>13, SweepEffect
  <2>2. \A s \in Requests : PhaseOf(s)' = PhaseOf(s)
    BY <2>1, NoRowIs DEF SweepDoes, Others, Reserved, RowFollowsRequest, PhaseOf
  <2> QED
    BY <2>2, NoneBecomes
<1> QED
  BY <1>1, <1>2, <1>3, <1>4, <1>5, <1>6, <1>7, <1>8, <1>9, <1>10, <1>11, <1>12, <1>13 DEF
     Next, Request

\* A checkout is an order in the sense of PaidOrder, with any number of requests: what is
\* delivered was settled before, and a settled order is delivered or refunded, never both
\* (create_vm, record_create_failure_refund).
THEOREM PaidOrderImplemented == "start" \notin LostAt => (Spec => ImplementsPaidOrder)
<1> SUFFICES ASSUME "start" \notin LostAt PROVE Spec => ImplementsPaidOrder
  OBVIOUS
<1>0. Acknowledged
  BY DEF Acknowledged
<1> DEFINE phase == [r \in Requests |->
                CASE owed[r] > 0 -> "refunded"
                  [] owed[r] = 0 /\ vms[r].status = "RUNNING" -> "delivered"
                  [] owed[r] = 0 /\ vms[r].status # "RUNNING" /\ money[r] # "none"
                       -> "settled"
                  [] OTHER -> "open"]
<1>1. ASSUME RestOK PROVE phase = Phases
  BY <1>1 DEF RestOK, Phases, PhaseOf
<1>2. Init => Order!Init
  <2> SUFFICES ASSUME Init PROVE Order!Init
    OBVIOUS
  <2>1. \A r \in Requests : PhaseOf(r) = "open"
    BY NoRowIs DEF Init, PhaseOf
  <2>2. RestOK
    BY TypeInit, TypeSplit
  <2> QED
    BY <1>1, <2>1, <2>2 DEF Order!Init, Phases
<1>3. CheckoutInv /\ CheckoutInv' /\ [Next]_vars => [Order!Next]_phase
  <2> SUFFICES ASSUME CheckoutInv, CheckoutInv', [Next]_vars PROVE [Order!Next]_phase
    OBVIOUS
  <2>1. RestOK /\ RowsOK /\ RowFollowsRequest /\ MoneyFollowsRequest /\ OwedOnce
    BY TypeSplit DEF CheckoutInv
  <2>2. RestOK'
    BY <2>1, RestStep
  <2>3. OrderStep
    BY <1>0, <2>1, OrderSteps
  <2>4. phase = Phases /\ phase' = Phases'
    BY <2>1, <2>2, <1>1 DEF RestOK, Phases, PhaseOf
  <2> QED
    BY <2>3, <2>4 DEF OrderStep, Becomes, Order!Next, Order!Settle, Order!Deliver, Order!Refund,
       Order!Become
<1> QED
  BY <1>2, <1>3, CheckoutSafe, PTL DEF Spec, ImplementsPaidOrder, Order!Spec

=============================================================================
