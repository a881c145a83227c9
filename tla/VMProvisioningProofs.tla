------------------------ MODULE VMProvisioningProofs ------------------------
(***************************************************************************)
(* Proofs about VMProvisioning for every set of attempts and destroyers,   *)
(* every number of generations and every bound on mishaps and toggles.     *)
(*                                                                         *)
(* TypeOK comes first; DeliveryInv is inductive with it and gives the      *)
(* safety invariants and the action property without any use of the        *)
(* attempt lock; RefundInv, which needs the lock, gives RefundIsFinal      *)
(* where no lock is lost.                                                  *)
(***************************************************************************)
EXTENDS VMProvisioning, TLAPS

USE DEF NewReceipt, RenewedReceipt, vars, row, account, locals

----------------------------------------------------------------------------
(* Types.                                                                  *)

\* The row, receipt, guests and processes of a fresh dispatch have their types.
LEMMA TypeInit == Init => TypeOK
<1> SUFFICES ASSUME Init PROVE TypeOK
  OBVIOUS
<1>1. FlagsOK
  BY Zenon DEF Init, FlagsOK
<1>2. receipt \in Receipts
  BY Bounds DEF Init, Receipts, Gens
<1>q. QED
  BY Processes, Bounds, <1>1, <1>2 DEF Init, TypeOK, LockHeld, Gens, Procs, Places

\* Every step of every actor keeps the types, and the lock with a process under way.
LEMMA TypeStep == TypeOK /\ [Next]_vars => TypeOK'
<1> SUFFICES ASSUME TypeOK, [Next]_vars PROVE TypeOK'
  OBVIOUS
<1> USE Processes, Bounds DEF TypeOK, Gens, Procs, Places
<1>1. CASE \E p \in Attempts : Begin(p)
  BY <1>1 DEF FlagsOK, LockHeld, Receipts, Begin
<1>2. CASE \E p \in Attempts : Locate(p)
  <2>p. PICK p \in Attempts : Locate(p)
    BY <1>2
  <2>1. mine' \in [Procs -> 0..MaxGen]
    <3>1. receipt.gen \in 0..MaxGen
      BY DEF Receipts
    <3>2. UNCHANGED mine \/ \E x \in 0..MaxGen : mine' = [mine EXCEPT ![p] = x]
      BY <2>p, <3>1 DEF Locate
    <3>q. QED
      BY <3>2
  <2>2. LockHeld'
    BY <2>p DEF LockHeld, Locate, Goto, End
  <2>3. pc' \in [Procs -> Places] /\ lock' \in Attempts \cup {None}
    BY <2>p DEF Locate, Goto, End
  <2>q. QED
    BY <2>p, <2>1, <2>2, <2>3 DEF FlagsOK, Locate
<1>3. CASE \E p \in Attempts : Adopt(p)
  BY <1>3 DEF FlagsOK, LockHeld, Receipts, Adopt, Goto, End, GoesWrong, Lost, Fine
<1>4. CASE \E p \in Attempts : Prepare(p)
  <2>p. PICK p \in Attempts : Prepare(p)
    BY <1>4
  <2>1. receipt' \in Receipts /\ mine' \in [Procs -> 0..MaxGen]
    <3>1. CASE UNCHANGED <<receipt, mine>>
      BY <3>1
    <3>2. CASE /\ receipt.gen < MaxGen
               /\ receipt' = [gen |-> receipt.gen + 1, outcome |-> "none", late |-> FALSE]
               /\ mine' = [mine EXCEPT ![p] = receipt.gen + 1]
      <4>1. receipt.gen + 1 \in Gens
        BY <3>2 DEF Receipts
      <4>q. QED
        BY <3>2, <4>1 DEF Receipts
    <3>q. QED
      BY <2>p, <3>1, <3>2 DEF Prepare
  <2>2. LockHeld'
    BY <2>p DEF LockHeld, Prepare, Goto
  <2>3. pc' \in [Procs -> Places] /\ lock' \in Attempts \cup {None}
    BY <2>p DEF Prepare, Goto
  <2>q. QED
    BY <2>p, <2>1, <2>2, <2>3 DEF FlagsOK, Prepare
<1>5. CASE \E p \in Attempts : Clone(p)
  <2>p. PICK p \in Attempts : Clone(p)
    BY <1>5
  <2>1. FlagsOK'
    BY <2>p, Zenon DEF FlagsOK, Clone, Set, Goto, GoesWrong, Faulty, Fine
  <2>2. LockHeld'
    BY <2>p DEF LockHeld, Clone, Set, Goto, GoesWrong, Faulty, Fine
  <2>q. QED
    BY <2>p, <2>1, <2>2 DEF Clone, Set, Goto, GoesWrong, Faulty, Fine
<1>6. CASE \E p \in Attempts : Boot(p)
  <2>p. PICK p \in Attempts : Boot(p)
    BY <1>6
  <2>1. FlagsOK'
    BY <2>p, Zenon DEF FlagsOK, Boot, Set, Goto, GoesWrong, Faulty, Fine
  <2>2. LockHeld'
    BY <2>p DEF LockHeld, Boot, Set, Goto, GoesWrong, Faulty, Fine
  <2>q. QED
    BY <2>p, <2>1, <2>2 DEF Boot, Set, Goto, GoesWrong, Faulty, Fine
<1>7. CASE \E p \in Attempts : Persist(p)
  BY <1>7 DEF FlagsOK, LockHeld, Receipts, Persist, Goto, End, GoesWrong, Lost, Fine
<1>8. CASE \E p \in Attempts : Restrict(p)
  <2>p. PICK p \in Attempts : Restrict(p)
    BY <1>8
  <2>1. FlagsOK'
    BY <2>p, Zenon DEF FlagsOK, Restrict, Present, Set, Goto, End, GoesWrong, Faulty, Fine
  <2>2. LockHeld'
    BY <2>p DEF LockHeld, Restrict, Present, Set, Goto, End, GoesWrong, Faulty, Fine
  <2>q. QED
    BY <2>p, <2>1, <2>2 DEF Restrict, Present, Set, Goto, End, GoesWrong, Faulty, Fine
<1>9. CASE \E p \in Attempts : Network(p)
  BY <1>9 DEF FlagsOK, LockHeld, Receipts, Network, Goto, GoesWrong, Faulty, Fine
<1>10. CASE \E p \in Attempts : PublishDNS(p)
  <2>p. PICK p \in Attempts : PublishDNS(p)
    BY <1>10
  <2>1. FlagsOK'
    BY <2>p, Zenon DEF FlagsOK, PublishDNS, Goto, GoesWrong, Faulty, Fine
  <2>2. LockHeld'
    BY <2>p DEF LockHeld, PublishDNS, Goto, GoesWrong, Faulty, Fine
  <2>q. QED
    BY <2>p, <2>1, <2>2 DEF PublishDNS, Goto, GoesWrong, Faulty, Fine
<1>11. CASE \E p \in Attempts : Await(p)
  <2>p. PICK p \in Attempts : Await(p)
    BY <1>11
  <2>1. FlagsOK'
    BY <2>p, Zenon DEF FlagsOK, Await, Goto, End
  <2>2. LockHeld'
    BY <2>p DEF LockHeld, Await, Goto, End
  <2>q. QED
    BY <2>p, <2>1, <2>2 DEF Await, Goto, End
<1>12. CASE \E p \in Attempts : Finalize(p)
  <2>p. PICK p \in Attempts : Finalize(p)
    BY <1>12
  <2>1. FlagsOK'
    BY <2>p, Zenon
       DEF FlagsOK, Finalize, Present, Set, Goto, End, GoesWrong, Lost, Faulty, Fine
  <2>2. LockHeld'
    BY <2>p DEF LockHeld, Finalize, Present, Set, Goto, End, GoesWrong, Lost, Faulty, Fine
  <2>q. QED
    BY <2>p, <2>1, <2>2 DEF Finalize, Present, Set, Goto, End, GoesWrong, Lost, Faulty, Fine
<1>13. CASE \E p \in Attempts : Fail(p)
  <2>p. PICK p \in Attempts : Fail(p)
    BY <1>13
  <2>1. FlagsOK'
    BY <2>p, Zenon
       DEF FlagsOK, Fail, FailedOrLost, Present, Set, Goto, End, GoesWrong, Lost, Faulty,
           Fine
  <2>2. LockHeld'
    BY <2>p
       DEF LockHeld, Fail, FailedOrLost, Present, Set, Goto, End, GoesWrong, Lost, Faulty,
           Fine
  <2>q. QED
    BY <2>p, <2>1, <2>2
       DEF Fail, FailedOrLost, Present, Set, Goto, End, GoesWrong, Lost, Faulty, Fine
<1>14. CASE \E p \in Attempts : RecordRefund(p)
  BY <1>14 DEF FlagsOK, LockHeld, Receipts, RecordRefund, End, GoesWrong, Faulty, Fine
<1>15. CASE \E p \in Attempts : LoseLock(p)
  BY <1>15 DEF FlagsOK, LockHeld, Receipts, LoseLock, GoesWrong
<1>16. CASE GuestReports
  BY <1>16 DEF FlagsOK, LockHeld, Receipts, GuestReports
<1>17. CASE DeadlinePasses
  <2>1. FlagsOK'
    BY <1>17, Zenon DEF FlagsOK, DeadlinePasses
  <2>2. LockHeld'
    BY <1>17 DEF LockHeld, DeadlinePasses
  <2>3. receipt' \in Receipts
    BY <1>17 DEF Receipts, DeadlinePasses
  <2>q. QED
    BY <1>17, <2>1, <2>2, <2>3 DEF DeadlinePasses
<1>18. CASE TimeRunsOut
  BY <1>18 DEF FlagsOK, LockHeld, Receipts, TimeRunsOut
<1>19. CASE ExpirySweep
  BY <1>19 DEF FlagsOK, LockHeld, Receipts, ExpirySweep, Present, Set, Restricted
<1>20. CASE \E g \in Gens : LateClone(g)
  BY <1>20 DEF FlagsOK, LockHeld, Receipts, LateClone, Set
<1>21. CASE DisableAccount
  BY <1>21 DEF FlagsOK, LockHeld, Receipts, DisableAccount
<1>22. CASE EnableAccount
  <2>1. FlagsOK'
    BY <1>22, Zenon DEF FlagsOK, EnableAccount
  <2>2. LockHeld'
    BY <1>22 DEF LockHeld, EnableAccount
  <2>q. QED
    BY <1>22, <2>1, <2>2 DEF EnableAccount
<1>23. CASE SuspendForAccount
  BY <1>23 DEF FlagsOK, LockHeld, Receipts, SuspendForAccount, Present, Set
<1>24. CASE ResumeForAccount
  <2>1. receipt' \in Receipts
    <3>1. [receipt EXCEPT !.late = FALSE] \in Receipts
      BY DEF Receipts
    <3>q. QED
      BY <1>24, <3>1 DEF ResumeForAccount
  <2>2. status' \in {"PROVISIONING", "READY", "RUNNING", "SUSPENDED", "FAILED", "DESTROYED"}
    BY <1>24 DEF ResumeForAccount
  <2>3. guest' \in [Gens -> {"absent", "inflight", "halted", "running", "gone"}]
    BY <1>24 DEF ResumeForAccount, Set
  <2>q. QED
    BY <1>24, <2>1, <2>2, <2>3 DEF FlagsOK, LockHeld, ResumeForAccount
<1>25. CASE \E d \in Destroyers : CallDestroy(d)
  BY <1>25 DEF FlagsOK, LockHeld, Receipts, CallDestroy, Goto
<1>26. CASE \E d \in Procs : ClaimDeletion(d)
  <2>p. PICK d \in Procs : ClaimDeletion(d)
    BY <1>26
  <2>1. FlagsOK'
    BY <2>p, Zenon DEF FlagsOK, ClaimDeletion
  <2>2. LockHeld'
    BY <2>p DEF LockHeld, ClaimDeletion, Goto, End
  <2>3. pc' \in [Procs -> Places] /\ lock' \in Attempts \cup {None}
    BY <2>p DEF ClaimDeletion, Goto, End
  <2>4. mine' \in [Procs -> 0..MaxGen]
    BY <2>p DEF ClaimDeletion
  <2>q. QED
    BY <2>p, <2>1, <2>2, <2>3, <2>4 DEF ClaimDeletion
<1>27. CASE \E d \in Procs : DeleteGuest(d)
  <2>p. PICK d \in Procs : DeleteGuest(d)
    BY <1>27
  <2>1. FlagsOK'
    BY <2>p, Zenon DEF FlagsOK, DeleteGuest, Set, Goto, End, GoesWrong, Faulty, Fine
  <2>2. LockHeld'
    BY <2>p DEF LockHeld, DeleteGuest, Set, Goto, End, GoesWrong, Faulty, Fine
  <2>q. QED
    BY <2>p, <2>1, <2>2 DEF DeleteGuest, Set, Goto, End, GoesWrong, Faulty, Fine
<1>28. CASE \E d \in Procs : CleanUpNames(d)
  <2>p. PICK d \in Procs : CleanUpNames(d)
    BY <1>28
  <2>1. FlagsOK'
    BY <2>p, Zenon DEF FlagsOK, CleanUpNames, Goto, GoesWrong, Faulty, Fine
  <2>2. LockHeld'
    BY <2>p DEF LockHeld, CleanUpNames, Goto, GoesWrong, Faulty, Fine
  <2>q. QED
    BY <2>p, <2>1, <2>2 DEF CleanUpNames, Goto, GoesWrong, Faulty, Fine
<1>29. CASE \E d \in Procs : RecordDestroyed(d)
  BY <1>29 DEF FlagsOK, LockHeld, Receipts, RecordDestroyed, End
<1>30. CASE \E d \in Procs : Crash(d)
  <2>p. PICK d \in Procs : Crash(d)
    BY <1>30
  <2>1. FlagsOK'
    BY <2>p, Zenon DEF FlagsOK, Crash, Set, End, GoesWrong
  <2>2. LockHeld'
    BY <2>p DEF LockHeld, Crash, Set, End, GoesWrong
  <2>q. QED
    BY <2>p, <2>1, <2>2 DEF Crash, Set, End, GoesWrong
<1>31. CASE UNCHANGED vars
  BY <1>31 DEF FlagsOK, LockHeld
<1>q. QED
  BY <1>1, <1>2, <1>3, <1>4, <1>5, <1>6, <1>7, <1>8, <1>9, <1>10, <1>11, <1>12, <1>13,
     <1>14, <1>15, <1>16, <1>17, <1>18, <1>19, <1>20, <1>21, <1>22, <1>23, <1>24, <1>25,
     <1>26, <1>27, <1>28, <1>29, <1>30, <1>31
     DEF Next, AttemptNext, AttemptStep, EnvironmentNext, AccountNext, DestroyNext, DestroyStep

\* Every column and local keeps its domain, and the attempt lock is never left behind by
\* an attempt that is over (_provision_vm, provisioning_attempt).
THEOREM TypeCorrect == Spec => []TypeOK
  BY TypeInit, TypeStep, PTL DEF Spec

----------------------------------------------------------------------------
(* Clones, generations and deletion.                                       *)

\* At dispatch there is no guest, no UUID and nobody under way.
LEMMA DeliveryInit == Init => DeliveryInv
  BY Processes, Bounds
     DEF Init, DeliveryInv, Gens, Procs, ClonersAlone, GenerationCurrent,
         WaitersHaveGuest, DestroyersExact, DeliveredIsReported, Cloning

\* Every step keeps clones, generations, destroyers and the delivered status consistent.
LEMMA DeliveryStep == TypeOK /\ DeliveryInv /\ [Next]_vars => DeliveryInv'
<1> SUFFICES ASSUME TypeOK, DeliveryInv, [Next]_vars PROVE DeliveryInv'
  OBVIOUS
<1> USE Processes, Bounds DEF TypeOK, FlagsOK, Receipts, Gens, Procs
<1> USE DEF DeliveryInv, ClonersAlone, GenerationCurrent, WaitersHaveGuest,
            DestroyersExact, DeliveredIsReported, Cloning
<1>1. CASE \E p \in Attempts : Begin(p)
  BY <1>1 DEF Begin
<1>2. CASE \E p \in Attempts : Locate(p)
  <2>p. PICK p \in Attempts : Locate(p)
    BY <1>2
  <2>1. ClonersAlone'
    <3> SUFFICES ASSUME NEW q \in Procs, (pc[q] \in Cloning)'
                 PROVE  /\ q \in Attempts /\ uuid' = 0
                        /\ \A r \in Procs \ {q} : (pc[r] \notin Cloning)'
                        /\ (pc[q] # "prepare" => mine[q] = receipt.gen)'
      BY DEF ClonersAlone
    <3>1. pc' = [pc EXCEPT ![p] = pc'[p]]
      BY <2>p DEF Locate, CapacityFree, Present, Goto, End, GoesWrong, Faulty, Fine
    <3>2. \A r \in Procs \ {p} : pc[r] \notin Cloning
      BY <2>p DEF Locate, CapacityFree, Present, Goto, End, GoesWrong, Faulty, Fine
    <3>3. q = p
      BY <3>1, <3>2
    <3>4. p \in Attempts /\ uuid' = 0
      BY <2>p, <3>3 DEF Locate, CapacityFree, Present, Goto, End, GoesWrong, Faulty, Fine
    <3>5. (pc[p] # "prepare" => mine[p] = receipt.gen)'
      BY <2>p, <3>3 DEF Locate, CapacityFree, Present, Goto, End, GoesWrong, Faulty, Fine
    <3>q. QED
      BY <3>1, <3>2, <3>3, <3>4, <3>5
  <2>2. GenerationCurrent'
    BY <2>p DEF Locate, CapacityFree, Present, Goto, End, GoesWrong, Faulty, Fine
  <2>3. WaitersHaveGuest'
    BY <2>p DEF Locate, CapacityFree, Present, Goto, End, GoesWrong, Faulty, Fine
  <2>4. DestroyersExact'
    BY <2>p DEF Locate, CapacityFree, Present, Goto, End, GoesWrong, Faulty, Fine
  <2>5. DeliveredIsReported'
    BY <2>p DEF Locate, CapacityFree, Present, Goto, End, GoesWrong, Faulty, Fine
  <2>q. QED
    BY <2>1, <2>2, <2>3, <2>4, <2>5
<1>3. CASE \E p \in Attempts : Adopt(p)
  BY <1>3 DEF Adopt, Goto, End, GoesWrong, Lost, Fine
<1>4. CASE \E p \in Attempts : Prepare(p)
  <2>p. PICK p \in Attempts : Prepare(p)
    BY <1>4
  <2>1. ClonersAlone'
    <3> SUFFICES ASSUME NEW q \in Procs, (pc[q] \in Cloning)'
                 PROVE  /\ q \in Attempts /\ uuid' = 0
                        /\ \A r \in Procs \ {q} : (pc[r] \notin Cloning)'
                        /\ (pc[q] # "prepare" => mine[q] = receipt.gen)'
      BY DEF ClonersAlone
    <3>1. pc' = [pc EXCEPT ![p] = pc'[p]]
      BY <2>p DEF Prepare, Goto
    <3>2. \A r \in Procs \ {p} : pc[r] \notin Cloning
      BY <2>p DEF Prepare, Goto
    <3>3. q = p
      BY <3>1, <3>2
    <3>4. p \in Attempts /\ uuid' = 0
      BY <2>p, <3>3 DEF Prepare, Goto
    <3>5. (pc[p] # "prepare" => mine[p] = receipt.gen)'
      BY <2>p, <3>3 DEF Prepare, Goto
    <3>q. QED
      BY <3>1, <3>2, <3>3, <3>4, <3>5
  <2>2. GenerationCurrent'
    BY <2>p DEF Prepare, Goto
  <2>3. WaitersHaveGuest'
    BY <2>p DEF Prepare, Goto
  <2>4. DestroyersExact'
    BY <2>p DEF Prepare, Goto
  <2>5. DeliveredIsReported'
    BY <2>p DEF Prepare, Goto
  <2>q. QED
    BY <2>1, <2>2, <2>3, <2>4, <2>5
<1>5. CASE \E p \in Attempts : Clone(p)
  <2>p. PICK p \in Attempts : Clone(p)
    BY <1>5
  <2>1. ClonersAlone'
    <3> SUFFICES ASSUME NEW q \in Procs, (pc[q] \in Cloning)'
                 PROVE  /\ q \in Attempts /\ uuid' = 0
                        /\ \A r \in Procs \ {q} : (pc[r] \notin Cloning)'
                        /\ (pc[q] # "prepare" => mine[q] = receipt.gen)'
      BY DEF ClonersAlone
    <3>1. pc' = [pc EXCEPT ![p] = pc'[p]]
      BY <2>p DEF Clone, Set, Goto, GoesWrong, Faulty, Fine
    <3>2. \A r \in Procs \ {p} : pc[r] \notin Cloning
      BY <2>p DEF Clone, Set, Goto, GoesWrong, Faulty, Fine
    <3>3. q = p
      BY <3>1, <3>2
    <3>4. p \in Attempts /\ uuid' = 0
      BY <2>p, <3>3 DEF Clone, Set, Goto, GoesWrong, Faulty, Fine
    <3>5. (pc[p] # "prepare" => mine[p] = receipt.gen)'
      BY <2>p, <3>3 DEF Clone, Set, Goto, GoesWrong, Faulty, Fine
    <3>q. QED
      BY <3>1, <3>2, <3>3, <3>4, <3>5
  <2>2. GenerationCurrent'
    BY <2>p DEF Clone, Set, Goto, GoesWrong, Faulty, Fine
  <2>3. WaitersHaveGuest'
    BY <2>p DEF Clone, Set, Goto, GoesWrong, Faulty, Fine
  <2>4. DestroyersExact'
    BY <2>p DEF Clone, Set, Goto, GoesWrong, Faulty, Fine
  <2>5. DeliveredIsReported'
    BY <2>p DEF Clone, Set, Goto, GoesWrong, Faulty, Fine
  <2>q. QED
    BY <2>1, <2>2, <2>3, <2>4, <2>5
<1>6. CASE \E p \in Attempts : Boot(p)
  <2>p. PICK p \in Attempts : Boot(p)
    BY <1>6
  <2>1. ClonersAlone'
    <3> SUFFICES ASSUME NEW q \in Procs, (pc[q] \in Cloning)'
                 PROVE  /\ q \in Attempts /\ uuid' = 0
                        /\ \A r \in Procs \ {q} : (pc[r] \notin Cloning)'
                        /\ (pc[q] # "prepare" => mine[q] = receipt.gen)'
      BY DEF ClonersAlone
    <3>1. pc' = [pc EXCEPT ![p] = pc'[p]]
      BY <2>p DEF Boot, Set, Goto, GoesWrong, Faulty, Fine
    <3>2. \A r \in Procs \ {p} : pc[r] \notin Cloning
      BY <2>p DEF Boot, Set, Goto, GoesWrong, Faulty, Fine
    <3>3. q = p
      BY <3>1, <3>2
    <3>4. p \in Attempts /\ uuid' = 0
      BY <2>p, <3>3 DEF Boot, Set, Goto, GoesWrong, Faulty, Fine
    <3>5. (pc[p] # "prepare" => mine[p] = receipt.gen)'
      BY <2>p, <3>3 DEF Boot, Set, Goto, GoesWrong, Faulty, Fine
    <3>q. QED
      BY <3>1, <3>2, <3>3, <3>4, <3>5
  <2>2. GenerationCurrent'
    BY <2>p DEF Boot, Set, Goto, GoesWrong, Faulty, Fine
  <2>3. WaitersHaveGuest'
    BY <2>p DEF Boot, Set, Goto, GoesWrong, Faulty, Fine
  <2>4. DestroyersExact'
    BY <2>p DEF Boot, Set, Goto, GoesWrong, Faulty, Fine
  <2>5. DeliveredIsReported'
    BY <2>p DEF Boot, Set, Goto, GoesWrong, Faulty, Fine
  <2>q. QED
    BY <2>1, <2>2, <2>3, <2>4, <2>5
<1>7. CASE \E p \in Attempts : Persist(p)
  BY <1>7 DEF Persist, Goto, End, GoesWrong, Lost, Fine
<1>8. CASE \E p \in Attempts : Restrict(p)
  BY <1>8 DEF Restrict, Present, Set, Goto, End, GoesWrong, Faulty, Fine
<1>9. CASE \E p \in Attempts : Network(p)
  BY <1>9 DEF Network, Goto, GoesWrong, Faulty, Fine
<1>10. CASE \E p \in Attempts : PublishDNS(p)
  <2>p. PICK p \in Attempts : PublishDNS(p)
    BY <1>10
  <2>1. ClonersAlone'
    BY <2>p DEF PublishDNS, Goto, GoesWrong, Faulty, Fine
  <2>2. GenerationCurrent'
    BY <2>p DEF PublishDNS, Goto, GoesWrong, Faulty, Fine
  <2>3. WaitersHaveGuest'
    BY <2>p DEF PublishDNS, Goto, GoesWrong, Faulty, Fine
  <2>4. DestroyersExact'
    BY <2>p DEF PublishDNS, Goto, GoesWrong, Faulty, Fine
  <2>5. DeliveredIsReported'
    BY <2>p DEF PublishDNS, Goto, GoesWrong, Faulty, Fine
  <2>q. QED
    BY <2>1, <2>2, <2>3, <2>4, <2>5
<1>11. CASE \E p \in Attempts : Await(p)
  <2>p. PICK p \in Attempts : Await(p)
    BY <1>11
  <2>1. ClonersAlone'
    BY <2>p DEF Await, Goto, End
  <2>2. GenerationCurrent'
    BY <2>p DEF Await, Goto, End
  <2>3. WaitersHaveGuest'
    BY <2>p DEF Await, Goto, End
  <2>4. DestroyersExact'
    BY <2>p DEF Await, Goto, End
  <2>5. DeliveredIsReported'
    BY <2>p DEF Await, Goto, End
  <2>q. QED
    BY <2>1, <2>2, <2>3, <2>4, <2>5
<1>12. CASE \E p \in Attempts : Finalize(p)
  BY <1>12 DEF Finalize, Present, Set, Goto, End, GoesWrong, Lost, Faulty, Fine
<1>13. CASE \E p \in Attempts : Fail(p)
  BY <1>13 DEF Fail, FailedOrLost, Present, Set, Goto, End, GoesWrong, Lost, Faulty, Fine
<1>14. CASE \E p \in Attempts : RecordRefund(p)
  BY <1>14 DEF RecordRefund, End, GoesWrong, Faulty, Fine
<1>15. CASE \E p \in Attempts : LoseLock(p)
  BY <1>15 DEF LoseLock, GoesWrong
<1>16. CASE GuestReports
  BY <1>16 DEF GuestReports
<1>17. CASE DeadlinePasses
  BY <1>17 DEF DeadlinePasses
<1>18. CASE TimeRunsOut
  BY <1>18 DEF TimeRunsOut
<1>19. CASE ExpirySweep
  BY <1>19 DEF ExpirySweep, Present, Set, Restricted
<1>20. CASE \E g \in Gens : LateClone(g)
  BY <1>20 DEF LateClone, Set
<1>21. CASE DisableAccount
  BY <1>21 DEF DisableAccount
<1>22. CASE EnableAccount
  BY <1>22 DEF EnableAccount
<1>23. CASE SuspendForAccount
  BY <1>23 DEF SuspendForAccount, Present, Set
<1>24. CASE ResumeForAccount
  BY <1>24 DEF ResumeForAccount, Present, Set
<1>25. CASE \E d \in Destroyers : CallDestroy(d)
  BY <1>25 DEF CallDestroy, Goto
<1>26. CASE \E d \in Procs : ClaimDeletion(d)
  BY <1>26 DEF ClaimDeletion, Goto, End
<1>27. CASE \E d \in Procs : DeleteGuest(d)
  BY <1>27 DEF DeleteGuest, Set, Goto, End, GoesWrong, Faulty, Fine
<1>28. CASE \E d \in Procs : CleanUpNames(d)
  BY <1>28 DEF CleanUpNames, Goto, GoesWrong, Faulty, Fine
<1>29. CASE \E d \in Procs : RecordDestroyed(d)
  BY <1>29 DEF RecordDestroyed, End
<1>30. CASE \E d \in Procs : Crash(d)
  BY <1>30 DEF Crash, Set, End, GoesWrong
<1>31. CASE UNCHANGED vars
  BY <1>31
<1>q. QED
  BY <1>1, <1>2, <1>3, <1>4, <1>5, <1>6, <1>7, <1>8, <1>9, <1>10, <1>11, <1>12, <1>13,
     <1>14, <1>15, <1>16, <1>17, <1>18, <1>19, <1>20, <1>21, <1>22, <1>23, <1>24, <1>25,
     <1>26, <1>27, <1>28, <1>29, <1>30, <1>31
     DEF Next, AttemptNext, AttemptStep, EnvironmentNext, AccountNext, DestroyNext, DestroyStep

\* The inductive invariant holds for any number of attempts, also attempts that lost
\* their lock and go on (_provision_vm_owned, destroy_vm).
THEOREM DeliverySafe == Spec => []DeliveryInv
<1>1. Init => TypeOK /\ DeliveryInv
  BY TypeInit, DeliveryInit
<1>2. TypeOK /\ DeliveryInv /\ [Next]_vars => (TypeOK /\ DeliveryInv)'
  BY TypeStep, DeliveryStep
<1>q. QED
  BY <1>1, <1>2, PTL DEF Spec

\* However attempts crash, retry and overlap, at most one guest of the VM runs
\* (_recover_pre_uuid_guest, _serialize_vm_capacity_transition).
THEOREM OneGuestSafe == Spec => []OneGuestRuns
<1>1. DeliveryInv => OneGuestRuns
  BY DEF DeliveryInv, GenerationCurrent, OneGuestRuns
<1>q. QED
  BY <1>1, DeliverySafe, PTL

\* A VM is delivered only on the successful report of the guest that is recorded
\* (_wait_for_guest_result and the final transaction of _provision_vm_owned).
THEOREM ReportedSafe == Spec => []DeliveredIsReported
<1>1. DeliveryInv => DeliveredIsReported
  BY DEF DeliveryInv
<1>q. QED
  BY <1>1, DeliverySafe, PTL

\* A prefix that was given back has no guest of this VM running on it (destroy_vm).
THEOREM FreedPrefixSafe == Spec => []FreedPrefixUnused
<1>1. DeliveryInv => FreedPrefixUnused
  BY DEF DeliveryInv, GenerationCurrent, DestroyersExact, FreedPrefixUnused
<1>q. QED
  BY <1>1, DeliverySafe, PTL

\* Only prepare_guest_result replaces a receipt, and never that of a running guest.
LEMMA CredentialStep ==
    ASSUME TypeOK, DeliveryInv, [Next]_vars
    PROVE  guest[receipt.gen] = "running" => receipt'.gen = receipt.gen
<1> SUFFICES ASSUME guest[receipt.gen] = "running" PROVE receipt'.gen = receipt.gen
  OBVIOUS
<1> USE DEF TypeOK, Receipts
<1>1. CASE \E p \in Attempts : Prepare(p)
  BY <1>1 DEF Prepare, DeliveryInv, GenerationCurrent, Procs
<1>2. CASE \E p \in Attempts : \/ Begin(p) \/ Locate(p) \/ Adopt(p) \/ Clone(p) \/ Boot(p)
                               \/ Persist(p) \/ Restrict(p) \/ Network(p) \/ PublishDNS(p)
                               \/ Await(p) \/ Finalize(p) \/ Fail(p) \/ RecordRefund(p)
                               \/ LoseLock(p)
  BY <1>2
     DEF Begin, Locate, Adopt, Clone, Boot, Persist, Restrict, Network, PublishDNS, Await,
         Finalize, Fail, RecordRefund, LoseLock
<1>3. CASE EnvironmentNext
  BY <1>3
     DEF EnvironmentNext, GuestReports, DeadlinePasses, TimeRunsOut, ExpirySweep,
         LateClone
<1>4. CASE AccountNext
  BY <1>4
     DEF AccountNext, DisableAccount, EnableAccount, SuspendForAccount, ResumeForAccount
<1>5. CASE DestroyNext
  BY <1>5
     DEF DestroyNext, DestroyStep, CallDestroy, ClaimDeletion, DeleteGuest, CleanUpNames,
         RecordDestroyed, Crash
<1>6. CASE UNCHANGED vars
  BY <1>6
<1>q. QED
  BY <1>1, <1>2, <1>3, <1>4, <1>5, <1>6 DEF Next, AttemptNext, AttemptStep

\* The receipt of a running guest is never replaced by one for another clone
\* (prepare_guest_result, recover_tracked_provisioning).
THEOREM CredentialSafe == Spec => CredentialKept
<1>1. TypeOK /\ DeliveryInv /\ [Next]_vars
        => [guest[receipt.gen] = "running" => receipt'.gen = receipt.gen]_vars
  BY CredentialStep
<1>q. QED
  BY <1>1, TypeCorrect, DeliverySafe, PTL DEF Spec, CredentialKept

----------------------------------------------------------------------------
(* Refunds.                                                                *)

\* At dispatch nothing is owed.
LEMMA RefundInit == Init => RefundInv
  BY Processes, Bounds
     DEF Init, RefundInv, AttemptHoldsLock, RefundSettles, RefundOwed, Procs

\* While no lock is lost, every step keeps an owed refund single and final.
LEMMA RefundStep ==
    ASSUME "orphaned" \notin Mishaps, TypeOK, DeliveryInv, RefundInv, [Next]_vars
    PROVE  RefundInv'
<1> USE Processes, Bounds DEF TypeOK, FlagsOK, Receipts, Gens, Procs
<1> USE DEF DeliveryInv, ClonersAlone, Cloning, RefundInv, AttemptHoldsLock, RefundSettles,
            RefundOwed
<1>1. CASE \E p \in Attempts : Begin(p)
  BY <1>1 DEF Begin
<1>2. CASE \E p \in Attempts : Locate(p)
  BY <1>2 DEF Locate, CapacityFree, Present, Goto, End, GoesWrong, Faulty, Fine
<1>3. CASE \E p \in Attempts : Adopt(p)
  BY <1>3 DEF Adopt, Goto, End, GoesWrong, Lost, Fine
<1>4. CASE \E p \in Attempts : Prepare(p)
  BY <1>4 DEF Prepare, Goto
<1>5. CASE \E p \in Attempts : Clone(p)
  BY <1>5 DEF Clone, Set, Goto, GoesWrong, Faulty, Fine
<1>6. CASE \E p \in Attempts : Boot(p)
  BY <1>6 DEF Boot, Set, Goto, GoesWrong, Faulty, Fine
<1>7. CASE \E p \in Attempts : Persist(p)
  BY <1>7 DEF Persist, Goto, End, GoesWrong, Lost, Fine
<1>8. CASE \E p \in Attempts : Restrict(p)
  BY <1>8 DEF Restrict, Present, Set, Goto, End, GoesWrong, Faulty, Fine
<1>9. CASE \E p \in Attempts : Network(p)
  BY <1>9 DEF Network, Goto, GoesWrong, Faulty, Fine
<1>10. CASE \E p \in Attempts : PublishDNS(p)
  BY <1>10 DEF PublishDNS, Goto, GoesWrong, Faulty, Fine
<1>11. CASE \E p \in Attempts : Await(p)
  BY <1>11 DEF Await, Goto, End
<1>12. CASE \E p \in Attempts : Finalize(p)
  BY <1>12 DEF Finalize, Present, Set, Goto, End, GoesWrong, Lost, Faulty, Fine
<1>13. CASE \E p \in Attempts : Fail(p)
  <2>p. PICK p \in Attempts : Fail(p)
    BY <1>13
  <2>1. AttemptHoldsLock'
    BY <2>p DEF Fail, FailedOrLost, Present, Set, Goto, End, GoesWrong, Lost, Faulty, Fine
  <2>2. RefundSettles'
    <3>1. ~RefundOwed /\ refunds = 0 /\ \A q \in Attempts \ {p} : pc[q] = "idle"
      BY <2>p DEF Fail
    <3>2. /\ pc' = [pc EXCEPT ![p] = pc'[p]] /\ pc'[p] \in {"idle", "refund"}
          /\ refunds' = refunds
      BY <2>p DEF Fail, FailedOrLost, Goto, End
    <3>3. pc'[p] = "refund" => /\ status' = "FAILED" /\ uuid' = uuid
                               /\ uuid # 0 => guest'[uuid] = "halted"
      BY <2>p DEF Fail, FailedOrLost, Present, Set, Goto, End, GoesWrong, Lost, Faulty, Fine
    <3>4. \A q \in Procs \ {p} : pc'[q] # "refund" /\ (q \in Attempts => pc'[q] = "idle")
      BY <3>1, <3>2
    <3>5. \A q \in Procs : pc'[q] = "refund" => q \in Attempts /\ refunds' = 0
      BY <3>1, <3>2, <3>4
    <3>6. CASE RefundOwed'
      <4>1. pc'[p] = "refund"
        BY <3>1, <3>2, <3>4, <3>6
      <4>2. status' \in {"FAILED", "DESTROYED"} /\ (uuid' # 0 => guest'[uuid'] # "running")
        BY <3>3, <4>1
      <4>3. \A q \in Attempts : pc'[q] \in {"idle", "refund"}
        BY <3>2, <3>4
      <4>q. QED
        BY <3>1, <3>2, <3>5, <4>2, <4>3 DEF RefundSettles
    <3>7. CASE ~RefundOwed'
      BY <3>1, <3>2, <3>5, <3>7
    <3>q. QED
      BY <3>6, <3>7
  <2>q. QED
    BY <2>1, <2>2
<1>14. CASE \E p \in Attempts : RecordRefund(p)
  BY <1>14 DEF RecordRefund, End, GoesWrong, Faulty, Fine
<1>15. CASE \E p \in Attempts : LoseLock(p)
  BY <1>15 DEF LoseLock, GoesWrong
<1>16. CASE GuestReports
  BY <1>16 DEF GuestReports
<1>17. CASE DeadlinePasses
  BY <1>17 DEF DeadlinePasses
<1>18. CASE TimeRunsOut
  BY <1>18 DEF TimeRunsOut
<1>19. CASE ExpirySweep
  BY <1>19 DEF ExpirySweep, Present, Set, Restricted
<1>20. CASE \E g \in Gens : LateClone(g)
  BY <1>20 DEF LateClone, Set
<1>21. CASE DisableAccount
  BY <1>21 DEF DisableAccount
<1>22. CASE EnableAccount
  BY <1>22 DEF EnableAccount
<1>23. CASE SuspendForAccount
  BY <1>23 DEF SuspendForAccount, Present, Set
<1>24. CASE ResumeForAccount
  BY <1>24 DEF ResumeForAccount, Present, Set
<1>25. CASE \E d \in Destroyers : CallDestroy(d)
  BY <1>25 DEF CallDestroy, Goto
<1>26. CASE \E d \in Procs : ClaimDeletion(d)
  <2>p. PICK d \in Procs : ClaimDeletion(d)
    BY <1>26
  <2>1. AttemptHoldsLock'
    BY <2>p DEF ClaimDeletion, Goto, End
  <2>2. RefundSettles'
    BY <2>p DEF ClaimDeletion, Goto, End
  <2>q. QED
    BY <2>1, <2>2
<1>27. CASE \E d \in Procs : DeleteGuest(d)
  <2>p. PICK d \in Procs : DeleteGuest(d)
    BY <1>27
  <2>1. AttemptHoldsLock'
    BY <2>p DEF DeleteGuest, Set, Goto, End, GoesWrong, Faulty, Fine
  <2>2. RefundSettles'
    BY <2>p DEF DeleteGuest, Set, Goto, End, GoesWrong, Faulty, Fine
  <2>q. QED
    BY <2>1, <2>2
<1>28. CASE \E d \in Procs : CleanUpNames(d)
  <2>p. PICK d \in Procs : CleanUpNames(d)
    BY <1>28
  <2>1. AttemptHoldsLock'
    BY <2>p DEF CleanUpNames, Goto, GoesWrong, Faulty, Fine
  <2>2. RefundSettles'
    BY <2>p DEF CleanUpNames, Goto, GoesWrong, Faulty, Fine
  <2>q. QED
    BY <2>1, <2>2
<1>29. CASE \E d \in Procs : RecordDestroyed(d)
  BY <1>29 DEF RecordDestroyed, End
<1>30. CASE \E d \in Procs : Crash(d)
  BY <1>30 DEF Crash, Set, End, GoesWrong
<1>31. CASE UNCHANGED vars
  BY <1>31
<1>q. QED
  BY <1>1, <1>2, <1>3, <1>4, <1>5, <1>6, <1>7, <1>8, <1>9, <1>10, <1>11, <1>12, <1>13,
     <1>14, <1>15, <1>16, <1>17, <1>18, <1>19, <1>20, <1>21, <1>22, <1>23, <1>24, <1>25,
     <1>26, <1>27, <1>28, <1>29, <1>30, <1>31
     DEF Next, AttemptNext, AttemptStep, EnvironmentNext, AccountNext, DestroyNext, DestroyStep

\* While no connection that holds the attempt lock is lost, a refund is owed at most once,
\* and from then on the row is terminal and the recorded guest off (_record_vm_refund).
THEOREM RefundSafe ==
    ASSUME "orphaned" \notin Mishaps PROVE Spec => []RefundIsFinal
<1>1. Init => TypeOK /\ DeliveryInv /\ RefundInv
  BY TypeInit, DeliveryInit, RefundInit
<1>2. TypeOK /\ DeliveryInv /\ RefundInv /\ [Next]_vars
        => (TypeOK /\ DeliveryInv /\ RefundInv)'
  BY TypeStep, DeliveryStep, RefundStep
<1>3. RefundInv => RefundIsFinal
  BY DEF RefundInv, RefundSettles, RefundOwed, RefundIsFinal
<1>q. QED
  BY <1>1, <1>2, <1>3, PTL DEF Spec

=============================================================================
