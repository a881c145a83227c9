------------------------- MODULE VMLifecycleProofs -------------------------
(***************************************************************************)
(* Proofs about VMLifecycle for every set of accounts and destroyers, every *)
(* grace period and every bound on time, renewals, mishaps and transfers.  *)
(*                                                                         *)
(* The chain is TypeOK, then DeletionInv (inductive together with TypeOK), *)
(* from which the safety invariants the runs check follow; the action      *)
(* properties follow from the same invariant, one action at a time.        *)
(***************************************************************************)
EXTENDS VMLifecycle, TLAPS

USE DEF ProtectRetainedVM, RestoreRetainedVM, vars, row, handoffs, evidence, provider, accts,
        callers, budget

----------------------------------------------------------------------------
(* Types.                                                                  *)

\* Every step of every actor keeps the types.
LEMMA TypeStep == TypeOK /\ [Next]_vars => TypeOK'
<1> SUFFICES ASSUME TypeOK, [Next]_vars PROVE TypeOK'
  OBVIOUS
<1> USE Parameters DEF TypeOK, Owners, Kinds, Places
<1>1. CASE \E n \in Days : ExtendVM(n)
  BY <1>1 DEF FlagsOK, ExtendVM, PowerDrift, Later
<1>2. CASE ResumeAfterExtension
  <2>1. FlagsOK'
    BY <1>2, Zenon
       DEF FlagsOK, ResumeAfterExtension, ExtensionResumeLocked, CanStart, GoesWrong, Lost,
          Faulty, Fine
  <2>q. QED
    BY <2>1, <1>2
       DEF ResumeAfterExtension, ExtensionResumeLocked, CanStart, GoesWrong, Lost, Faulty,
          Fine
<1>3. CASE RequestDestroy
  BY <1>3 DEF FlagsOK, RequestDestroy
<1>4. CASE \E a \in Accounts : ClaimVM(a)
  BY <1>4 DEF FlagsOK, ClaimVM
<1>5. CASE \E a \in Accounts : DetachAccount(a)
  BY <1>5 DEF FlagsOK, DetachAccount
<1>6. CASE \E a \in Accounts : DisableAccount(a)
  BY <1>6 DEF FlagsOK, DisableAccount, Queue
<1>7. CASE \E a \in Accounts : EnableAccount(a)
  BY <1>7 DEF FlagsOK, EnableAccount, Queue
<1>8. CASE \E a \in Accounts : SuspendForAccount(a)
  BY <1>8 DEF FlagsOK, SuspendForAccount, Done, GoesWrong, Lost, Fine
<1>9. CASE \E a \in Accounts : ResumeForAccount(a)
  BY <1>9 DEF FlagsOK, ResumeForAccount, Done, GoesWrong, Lost, Fine
<1>10. CASE AdminStart
  BY <1>10 DEF FlagsOK, AdminStart, GoesWrong, Lost, Fine
<1>11. CASE AdminStop
  BY <1>11 DEF FlagsOK, AdminStop, GoesWrong, Lost, Fine
<1>12. CASE \E n \in Days : AdminExtend(n)
  BY <1>12 DEF FlagsOK, AdminExtend, Later
<1>13. CASE \E n \in Days : RequestRestore(n)
  BY <1>13 DEF FlagsOK, RequestRestore, Later
<1>14. CASE \E a \in Accounts : TransferVM(a)
  BY <1>14 DEF FlagsOK, TransferVM
<1>15. CASE AuthorizeRestore
  BY <1>15 DEF FlagsOK, AuthorizeRestore
<1>16. CASE FinalizeRestore
  <2>1. FlagsOK'
    BY <1>16, Zenon DEF FlagsOK, FinalizeRestore, GoesWrong, Lost, Faulty, Fine, NoRestore
  <2>q. QED
    BY <2>1, <1>16 DEF FinalizeRestore, GoesWrong, Lost, Faulty, Fine, NoRestore
<1>17. CASE ReconcileExtensionResume
  BY <1>17
     DEF FlagsOK, ReconcileExtensionResume, ExtensionResumeLocked, GoesWrong, Lost, Faulty,
        Fine
<1>18. CASE ReconcileTransferRead
  BY <1>18 DEF FlagsOK, ReconcileTransferRead
<1>19. CASE ReconcileTransferResume
  BY <1>19 DEF FlagsOK, ReconcileTransferResume, GoesWrong, Lost, Faulty, Fine
<1>20. CASE ExpirySelect
  BY <1>20 DEF FlagsOK, ExpirySelect, Goto
<1>21. CASE ExpirySweep
  BY <1>21 DEF FlagsOK, ExpirySweep, ExpiredReason, Goto, GoesWrong, Lost, Faulty, Fine
<1>22. CASE \E d \in Destroyers : CallDestroy(d)
  BY <1>22 DEF FlagsOK, CallDestroy, Goto
<1>23. CASE \E d \in Destroyers : ClaimDeletion(d)
  <2>1. FlagsOK'
    BY <1>23, Zenon DEF FlagsOK, ClaimDeletion, Goto, GoesWrong, Faulty, Fine
  <2>q. QED
    BY <2>1, <1>23 DEF ClaimDeletion, Goto, GoesWrong, Faulty, Fine
<1>24. CASE \E d \in Destroyers : ProtectRetained(d)
  <2>1. FlagsOK'
    BY <1>24, Zenon
       DEF FlagsOK, ProtectRetained, ExpiredReason, Goto, GoesWrong, Lost, Faulty, Fine
  <2>q. QED
    BY <2>1, <1>24 DEF ProtectRetained, ExpiredReason, Goto, GoesWrong, Lost, Faulty, Fine
<1>25. CASE \E d \in Destroyers : DeleteGuest(d)
  BY <1>25 DEF FlagsOK, DeleteGuest, Goto, GoesWrong, Faulty, Fine
<1>26. CASE \E d \in Destroyers : CleanUpNames(d)
  BY <1>26 DEF FlagsOK, CleanUpNames, Goto, GoesWrong, Faulty, Fine
<1>27. CASE \E d \in Destroyers : RecordDestroyed(d)
  BY <1>27 DEF FlagsOK, RecordDestroyed, Goto
<1>28. CASE \E d \in Destroyers : Crash(d)
  BY <1>28 DEF FlagsOK, Crash, Goto, GoesWrong
<1>29. CASE GuestShutsDown
  BY <1>29 DEF FlagsOK, GuestShutsDown
<1>30. CASE Tick
  BY <1>30 DEF FlagsOK, Tick
<1>31. CASE UNCHANGED vars
  BY <1>31 DEF FlagsOK
<1>q. QED
  BY <1>1, <1>2, <1>3, <1>4, <1>5, <1>6, <1>7, <1>8, <1>9, <1>10, <1>11, <1>12, <1>13,
     <1>14, <1>15, <1>16, <1>17, <1>18, <1>19, <1>20, <1>21, <1>22, <1>23, <1>24, <1>25,
     <1>26, <1>27, <1>28, <1>29, <1>30, <1>31
     DEF Next, CustomerNext, AccountNext, AdminNext, WorkerNext, DestroyNext, DestroyStep

\* The initial row, guest and callers have the types.
LEMMA TypeInit == Init => TypeOK
<1> SUFFICES ASSUME Init PROVE TypeOK
  OBVIOUS
<1>1. FlagsOK
  BY Zenon DEF Init, FlagsOK
<1>2. restore \in [state : {"none", "pending", "authorized"},
                 prev : 0..MaxExpiry, new : 0..MaxExpiry]
  BY Parameters DEF Init, NoRestore
<1>3. ops \in [Accounts -> [Kinds -> Nat]] /\ dpc \in [Destroyers -> Places]
  BY DEF Init, Kinds, Places
<1>q. QED
  BY Parameters, <1>1, <1>2, <1>3 DEF Init, TypeOK, Owners

\* Every variable keeps the type that the columns and locals of the code have.
THEOREM TypeCorrect == Spec => []TypeOK
  BY TypeInit, TypeStep, PTL DEF Spec

----------------------------------------------------------------------------
(* Deletion and retention.                                                 *)

\* A delivered VM is neither claimed nor retained.
LEMMA DeletionInit == Init => DeletionInv
  BY Parameters
     DEF Init, DeletionInv, DestroyersFenced, GoneIsClaimed, ClaimTimely, RecoveryHeld,
         DestroyedMeansGone, RetainedGuestPreserved, RetentionOwnerStable, NoRestore

\* Every step keeps the claim, the evidence and the guest consistent.
LEMMA DeletionStep == TypeOK /\ DeletionInv /\ [Next]_vars => DeletionInv'
<1> SUFFICES ASSUME TypeOK, DeletionInv, [Next]_vars PROVE DeletionInv'
  OBVIOUS
<1> USE Parameters DEF TypeOK, FlagsOK, Owners, Places
<1> USE DEF DeletionInv, DestroyersFenced, GoneIsClaimed, ClaimTimely, RecoveryHeld,
            DestroyedMeansGone, RetainedGuestPreserved, RetentionOwnerStable
<1>1. CASE \E n \in Days : ExtendVM(n)
  BY <1>1 DEF ExtendVM, PowerDrift, Later
<1>2. CASE ResumeAfterExtension
  BY <1>2
     DEF ResumeAfterExtension, ExtensionResumeLocked, CanStart, GoesWrong, Lost, Faulty,
        Fine, ExtensionStale
<1>3. CASE RequestDestroy
  BY <1>3 DEF RequestDestroy
<1>4. CASE \E a \in Accounts : ClaimVM(a)
  BY <1>4 DEF ClaimVM
<1>5. CASE \E a \in Accounts : DetachAccount(a)
  BY <1>5 DEF DetachAccount
<1>6. CASE \E a \in Accounts : DisableAccount(a)
  BY <1>6 DEF DisableAccount, Queue
<1>7. CASE \E a \in Accounts : EnableAccount(a)
  BY <1>7 DEF EnableAccount, Queue
<1>8. CASE \E a \in Accounts : SuspendForAccount(a)
  BY <1>8 DEF SuspendForAccount, Done, GoesWrong, Lost, Fine, CanStop
<1>9. CASE \E a \in Accounts : ResumeForAccount(a)
  BY <1>9 DEF ResumeForAccount, Done, GoesWrong, Lost, Fine, CanStart
<1>10. CASE AdminStart
  BY <1>10 DEF AdminStart, GoesWrong, Lost, Fine, CanStart
<1>11. CASE AdminStop
  BY <1>11 DEF AdminStop, GoesWrong, Lost, Fine, CanStop
<1>12. CASE \E n \in Days : AdminExtend(n)
  BY <1>12 DEF AdminExtend, Later
<1>13. CASE \E n \in Days : RequestRestore(n)
  BY <1>13 DEF RequestRestore, Later
<1>14. CASE \E a \in Accounts : TransferVM(a)
  BY <1>14 DEF TransferVM
<1>15. CASE AuthorizeRestore
  <2>1. ClaimTimely' /\ RecoveryHeld'
    BY <1>15 DEF AuthorizeRestore, RestoreValid
  <2>2. DestroyersFenced' /\ GoneIsClaimed' /\ DestroyedMeansGone'
    BY <1>15 DEF AuthorizeRestore, RestoreValid
  <2>3. RetainedGuestPreserved' /\ RetentionOwnerStable'
    BY <1>15 DEF AuthorizeRestore, RestoreValid
  <2>q. QED
    BY <2>1, <2>2, <2>3 DEF DeletionInv
<1>16. CASE FinalizeRestore
  <2>1. DestroyersFenced' /\ GoneIsClaimed' /\ DestroyedMeansGone'
    BY <1>16 DEF FinalizeRestore, GoesWrong, Lost, Faulty, Fine, NoRestore, RestoreValid
  <2>2. ClaimTimely' /\ RetentionOwnerStable'
    BY <1>16 DEF FinalizeRestore, GoesWrong, Lost, Faulty, Fine, NoRestore, RestoreValid
  <2>3. RetainedGuestPreserved' /\ RecoveryHeld'
    BY <1>16 DEF FinalizeRestore, GoesWrong, Lost, Faulty, Fine, NoRestore, RestoreValid
  <2>q. QED
    BY <2>1, <2>2, <2>3 DEF DeletionInv
<1>17. CASE ReconcileExtensionResume
  BY <1>17
     DEF ReconcileExtensionResume, ExtensionResumeLocked, GoesWrong, Lost, Faulty, Fine,
        CanStart, ExtensionStale
<1>18. CASE ReconcileTransferRead
  BY <1>18 DEF ReconcileTransferRead
<1>19. CASE ReconcileTransferResume
  BY <1>19 DEF ReconcileTransferResume, GoesWrong, Lost, Faulty, Fine, CanStart
<1>20. CASE ExpirySelect
  BY <1>20 DEF ExpirySelect, Goto
<1>21. CASE ExpirySweep
  BY <1>21
     DEF ExpirySweep, ExpiredReason, Goto, GoesWrong, Lost, Faulty, Fine, CanStop, Settled,
        DeleteDue
<1>22. CASE \E d \in Destroyers : CallDestroy(d)
  BY <1>22 DEF CallDestroy, Goto
<1>23. CASE \E d \in Destroyers : ClaimDeletion(d)
  <2>0. PICK d \in Destroyers : ClaimDeletion(d)
    BY <1>23
  <2>1. DestroyersFenced'
    BY <2>0 DEF ClaimDeletion, Goto, GoesWrong, Faulty, Fine, Declines
  <2>2. ClaimTimely'
    BY <2>0 DEF ClaimDeletion, Goto, GoesWrong, Faulty, Fine, Declines
  <2>3. GoneIsClaimed' /\ RetainedGuestPreserved' /\ RetentionOwnerStable'
    BY <2>0 DEF ClaimDeletion, Goto, GoesWrong, Faulty, Fine, Declines
  <2>4. RecoveryHeld' /\ DestroyedMeansGone'
    BY <2>0 DEF ClaimDeletion, Goto, GoesWrong, Faulty, Fine, Declines
  <2>q. QED
    BY <2>1, <2>2, <2>3, <2>4 DEF DeletionInv
<1>24. CASE \E d \in Destroyers : ProtectRetained(d)
  <2>0. PICK d \in Destroyers : ProtectRetained(d)
    BY <1>24
  <2>1. RetainedGuestPreserved' /\ RecoveryHeld'
    BY <2>0 DEF ProtectRetained, ExpiredReason, Goto, GoesWrong, Lost, Faulty, Fine
  <2>2. DestroyersFenced' /\ GoneIsClaimed' /\ DestroyedMeansGone'
    BY <2>0 DEF ProtectRetained, ExpiredReason, Goto, GoesWrong, Lost, Faulty, Fine
  <2>3. ClaimTimely' /\ RetentionOwnerStable'
    BY <2>0 DEF ProtectRetained, ExpiredReason, Goto, GoesWrong, Lost, Faulty, Fine
  <2>q. QED
    BY <2>1, <2>2, <2>3 DEF DeletionInv
<1>25. CASE \E d \in Destroyers : DeleteGuest(d)
  <2>0. PICK d \in Destroyers : DeleteGuest(d)
    BY <1>25
  <2>1. DestroyersFenced' /\ GoneIsClaimed'
    BY <2>0 DEF DeleteGuest, Goto, GoesWrong, Faulty, Fine
  <2>2. RetainedGuestPreserved' /\ RetentionOwnerStable' /\ RecoveryHeld'
    BY <2>0 DEF DeleteGuest, Goto, GoesWrong, Faulty, Fine
  <2>3. ClaimTimely' /\ DestroyedMeansGone'
    BY <2>0 DEF DeleteGuest, Goto, GoesWrong, Faulty, Fine
  <2>q. QED
    BY <2>1, <2>2, <2>3 DEF DeletionInv
<1>26. CASE \E d \in Destroyers : CleanUpNames(d)
  BY <1>26 DEF CleanUpNames, Goto, GoesWrong, Faulty, Fine
<1>27. CASE \E d \in Destroyers : RecordDestroyed(d)
  <2>0. PICK d \in Destroyers : RecordDestroyed(d)
    BY <1>27
  <2>1. DestroyersFenced' /\ GoneIsClaimed'
    BY <2>0 DEF RecordDestroyed, Goto
  <2>2. DestroyedMeansGone'
    BY <2>0 DEF RecordDestroyed, Goto
  <2>3. RetainedGuestPreserved' /\ RetentionOwnerStable' /\ RecoveryHeld' /\ ClaimTimely'
    BY <2>0 DEF RecordDestroyed, Goto
  <2>q. QED
    BY <2>1, <2>2, <2>3 DEF DeletionInv
<1>28. CASE \E d \in Destroyers : Crash(d)
  BY <1>28 DEF Crash, Goto, GoesWrong
<1>29. CASE GuestShutsDown
  BY <1>29 DEF GuestShutsDown
<1>30. CASE Tick
  BY <1>30 DEF Tick
<1>31. CASE UNCHANGED vars
  BY <1>31
<1>q. QED
  BY <1>1, <1>2, <1>3, <1>4, <1>5, <1>6, <1>7, <1>8, <1>9, <1>10, <1>11, <1>12, <1>13,
     <1>14, <1>15, <1>16, <1>17, <1>18, <1>19, <1>20, <1>21, <1>22, <1>23, <1>24, <1>25,
     <1>26, <1>27, <1>28, <1>29, <1>30, <1>31
     DEF Next, CustomerNext, AccountNext, AdminNext, WorkerNext, DestroyNext, DestroyStep

\* The claim, the evidence, the guest and the callers stay consistent for ever.
THEOREM DeletionSafe == Spec => []DeletionInv
<1>1. Init => TypeOK /\ DeletionInv
  BY TypeInit, DeletionInit
<1>2. TypeOK /\ DeletionInv /\ [Next]_vars => (TypeOK /\ DeletionInv)'
  BY TypeStep, DeletionStep
<1>3. Spec => [](TypeOK /\ DeletionInv)
  BY <1>1, <1>2, PTL DEF Spec
<1>q. QED
  BY <1>3, PTL

\* A guest nobody asked to delete is gone only when paid time and grace are over.
THEOREM PaidTimeSafe == Spec => []PaidTimeNeverDeleted
<1>1. DeletionInv => PaidTimeNeverDeleted
  BY DEF DeletionInv, GoneIsClaimed, ClaimTimely, PaidTimeNeverDeleted
<1>q. QED
  BY <1>1, DeletionSafe, PTL

\* A retained guest exists, is stopped and blocked, and keeps its prefix.
THEOREM RetentionSafe == Spec => []RetainedGuestPreserved
<1>1. DeletionInv => RetainedGuestPreserved
  BY DEF DeletionInv
<1>q. QED
  BY <1>1, DeletionSafe, PTL

\* The owner recorded with the evidence never differs from the row's owner.
THEOREM RetentionOwnerSafe == Spec => []RetentionOwnerStable
<1>1. DeletionInv => RetentionOwnerStable
  BY DEF DeletionInv
<1>q. QED
  BY <1>1, DeletionSafe, PTL

\* A DESTROYED row has no guest, and only such a row gives back its prefix.
THEOREM DestroyedSafe == Spec => []DestroyedMeansGone
<1>1. DeletionInv => DestroyedMeansGone
  BY DEF DeletionInv
<1>q. QED
  BY <1>1, DeletionSafe, PTL

----------------------------------------------------------------------------
(* What no step may do.                                                    *)

\* Whoever starts the guest, it is through one of the fenced paths.
LEMMA PowerStep == TypeOK /\ DeletionInv /\ [Next]_vars => [PowerOnLegal]_vars
<1> SUFFICES ASSUME TypeOK, DeletionInv, Next PROVE PowerOnLegal
  OBVIOUS
<1> USE Parameters, Distinct DEF TypeOK, FlagsOK, Starts, PowerOnLegal, Restricted, Owners
<1>1. CASE \E n \in Days : ExtendVM(n)
  BY <1>1 DEF ExtendVM, PowerDrift, Later
<1>2. CASE ResumeAfterExtension
  BY <1>2
     DEF ResumeAfterExtension, ExtensionResumeLocked, CanStart, GoesWrong, Lost, Faulty,
        Fine, ExtensionStale, OwnerEnabled
<1>3. CASE RequestDestroy
  BY <1>3 DEF RequestDestroy
<1>4. CASE \E a \in Accounts : ClaimVM(a)
  BY <1>4 DEF ClaimVM
<1>5. CASE \E a \in Accounts : DetachAccount(a)
  BY <1>5 DEF DetachAccount
<1>6. CASE \E a \in Accounts : DisableAccount(a)
  BY <1>6 DEF DisableAccount, Queue
<1>7. CASE \E a \in Accounts : EnableAccount(a)
  BY <1>7 DEF EnableAccount, Queue
<1>8. CASE \E a \in Accounts : SuspendForAccount(a)
  BY <1>8 DEF SuspendForAccount, Done, GoesWrong, Lost, Fine
<1>9. CASE \E a \in Accounts : ResumeForAccount(a)
  BY <1>9 DEF ResumeForAccount, Done, GoesWrong, Lost, Fine
<1>10. CASE AdminStart
  BY <1>10 DEF AdminStart, GoesWrong, Lost, Fine, OwnerEnabled
<1>11. CASE AdminStop
  BY <1>11 DEF AdminStop, GoesWrong, Lost, Fine
<1>12. CASE \E n \in Days : AdminExtend(n)
  BY <1>12 DEF AdminExtend, Later
<1>13. CASE \E n \in Days : RequestRestore(n)
  BY <1>13 DEF RequestRestore, Later
<1>14. CASE \E a \in Accounts : TransferVM(a)
  BY <1>14 DEF TransferVM
<1>15. CASE AuthorizeRestore
  BY <1>15 DEF AuthorizeRestore, RestoreValid
<1>16. CASE FinalizeRestore
  BY <1>16 DEF FinalizeRestore, GoesWrong, Lost, Faulty, Fine, NoRestore, RestoreValid
<1>17. CASE ReconcileExtensionResume
  BY <1>17
     DEF ReconcileExtensionResume, ExtensionResumeLocked, GoesWrong, Lost, Faulty, Fine,
        ExtensionStale, OwnerEnabled
<1>18. CASE ReconcileTransferRead
  BY <1>18 DEF ReconcileTransferRead
<1>19. CASE ReconcileTransferResume
  BY <1>19 DEF ReconcileTransferResume, GoesWrong, Lost, Faulty, Fine
<1>20. CASE ExpirySelect
  BY <1>20 DEF ExpirySelect, Goto
<1>21. CASE ExpirySweep
  BY <1>21 DEF ExpirySweep, ExpiredReason, Goto, GoesWrong, Lost, Faulty, Fine
<1>22. CASE \E d \in Destroyers : CallDestroy(d)
  BY <1>22 DEF CallDestroy, Goto
<1>23. CASE \E d \in Destroyers : ClaimDeletion(d)
  BY <1>23 DEF ClaimDeletion, Goto, GoesWrong, Faulty, Fine
<1>24. CASE \E d \in Destroyers : ProtectRetained(d)
  BY <1>24 DEF ProtectRetained, ExpiredReason, Goto, GoesWrong, Lost, Faulty, Fine
<1>25. CASE \E d \in Destroyers : DeleteGuest(d)
  BY <1>25 DEF DeleteGuest, Goto, GoesWrong, Faulty, Fine
<1>26. CASE \E d \in Destroyers : CleanUpNames(d)
  BY <1>26 DEF CleanUpNames, Goto, GoesWrong, Faulty, Fine
<1>27. CASE \E d \in Destroyers : RecordDestroyed(d)
  BY <1>27 DEF RecordDestroyed, Goto
<1>28. CASE \E d \in Destroyers : Crash(d)
  BY <1>28 DEF Crash, Goto, GoesWrong
<1>29. CASE GuestShutsDown
  BY <1>29 DEF GuestShutsDown
<1>30. CASE Tick
  BY <1>30 DEF Tick
<1>q. QED
  BY <1>1, <1>2, <1>3, <1>4, <1>5, <1>6, <1>7, <1>8, <1>9, <1>10, <1>11, <1>12, <1>13,
     <1>14, <1>15, <1>16, <1>17, <1>18, <1>19, <1>20, <1>21, <1>22, <1>23, <1>24, <1>25,
     <1>26, <1>27, <1>28, <1>29, <1>30
     DEF Next, CustomerNext, AccountNext, AdminNext, WorkerNext, DestroyNext, DestroyStep

\* Each power-on path respects every fence but the one PowerOnFenced names for it.
THEOREM PowerSafe == Spec => PowerOnFenced
<1>1. TypeOK /\ DeletionInv /\ [Next]_vars => [PowerOnLegal]_vars
  BY PowerStep
<1>q. QED
  BY <1>1, TypeCorrect, DeletionSafe, PTL DEF Spec, PowerOnFenced

\* Only complete_restore clears a claim.
LEMMA ClaimStep == TypeOK /\ DeletionInv /\ [Next]_vars => [RecoveryLegal]_vars
<1> SUFFICES ASSUME TypeOK, DeletionInv, Next PROVE RecoveryLegal
  OBVIOUS
<1> USE Parameters DEF TypeOK, FlagsOK, RecoveryLegal, DeletionInv, RetainedGuestPreserved
<1>1. CASE \E n \in Days : ExtendVM(n)
  BY <1>1 DEF ExtendVM, PowerDrift, Later
<1>2. CASE ResumeAfterExtension
  BY <1>2
     DEF ResumeAfterExtension, ExtensionResumeLocked, CanStart, GoesWrong, Lost, Faulty,
        Fine, ExtensionStale, OwnerEnabled
<1>3. CASE RequestDestroy
  BY <1>3 DEF RequestDestroy
<1>4. CASE \E a \in Accounts : ClaimVM(a)
  BY <1>4 DEF ClaimVM
<1>5. CASE \E a \in Accounts : DetachAccount(a)
  BY <1>5 DEF DetachAccount
<1>6. CASE \E a \in Accounts : DisableAccount(a)
  BY <1>6 DEF DisableAccount, Queue
<1>7. CASE \E a \in Accounts : EnableAccount(a)
  BY <1>7 DEF EnableAccount, Queue
<1>8. CASE \E a \in Accounts : SuspendForAccount(a)
  BY <1>8 DEF SuspendForAccount, Done, GoesWrong, Lost, Fine
<1>9. CASE \E a \in Accounts : ResumeForAccount(a)
  BY <1>9 DEF ResumeForAccount, Done, GoesWrong, Lost, Fine
<1>10. CASE AdminStart
  BY <1>10 DEF AdminStart, GoesWrong, Lost, Fine, OwnerEnabled
<1>11. CASE AdminStop
  BY <1>11 DEF AdminStop, GoesWrong, Lost, Fine
<1>12. CASE \E n \in Days : AdminExtend(n)
  BY <1>12 DEF AdminExtend, Later
<1>13. CASE \E n \in Days : RequestRestore(n)
  BY <1>13 DEF RequestRestore, Later
<1>14. CASE \E a \in Accounts : TransferVM(a)
  BY <1>14 DEF TransferVM
<1>15. CASE AuthorizeRestore
  BY <1>15 DEF AuthorizeRestore, RestoreValid
<1>16. CASE FinalizeRestore
  BY <1>16 DEF FinalizeRestore, GoesWrong, Lost, Faulty, Fine, NoRestore, RestoreValid
<1>17. CASE ReconcileExtensionResume
  BY <1>17
     DEF ReconcileExtensionResume, ExtensionResumeLocked, GoesWrong, Lost, Faulty, Fine,
        ExtensionStale, OwnerEnabled
<1>18. CASE ReconcileTransferRead
  BY <1>18 DEF ReconcileTransferRead
<1>19. CASE ReconcileTransferResume
  BY <1>19 DEF ReconcileTransferResume, GoesWrong, Lost, Faulty, Fine
<1>20. CASE ExpirySelect
  BY <1>20 DEF ExpirySelect, Goto
<1>21. CASE ExpirySweep
  BY <1>21 DEF ExpirySweep, ExpiredReason, Goto, GoesWrong, Lost, Faulty, Fine
<1>22. CASE \E d \in Destroyers : CallDestroy(d)
  BY <1>22 DEF CallDestroy, Goto
<1>23. CASE \E d \in Destroyers : ClaimDeletion(d)
  BY <1>23 DEF ClaimDeletion, Goto, GoesWrong, Faulty, Fine
<1>24. CASE \E d \in Destroyers : ProtectRetained(d)
  BY <1>24 DEF ProtectRetained, ExpiredReason, Goto, GoesWrong, Lost, Faulty, Fine
<1>25. CASE \E d \in Destroyers : DeleteGuest(d)
  BY <1>25 DEF DeleteGuest, Goto, GoesWrong, Faulty, Fine
<1>26. CASE \E d \in Destroyers : CleanUpNames(d)
  BY <1>26 DEF CleanUpNames, Goto, GoesWrong, Faulty, Fine
<1>27. CASE \E d \in Destroyers : RecordDestroyed(d)
  BY <1>27 DEF RecordDestroyed, Goto
<1>28. CASE \E d \in Destroyers : Crash(d)
  BY <1>28 DEF Crash, Goto, GoesWrong
<1>29. CASE GuestShutsDown
  BY <1>29 DEF GuestShutsDown
<1>30. CASE Tick
  BY <1>30 DEF Tick
<1>q. QED
  BY <1>1, <1>2, <1>3, <1>4, <1>5, <1>6, <1>7, <1>8, <1>9, <1>10, <1>11, <1>12, <1>13,
     <1>14, <1>15, <1>16, <1>17, <1>18, <1>19, <1>20, <1>21, <1>22, <1>23, <1>24, <1>25,
     <1>26, <1>27, <1>28, <1>29, <1>30
     DEF Next, CustomerNext, AccountNext, AdminNext, WorkerNext, DestroyNext, DestroyStep

\* A deletion claim is given up only for a guest recovered with time left.
THEOREM ClaimSafe == Spec => ClaimGivenUpOnlyByRecovery
<1>1. TypeOK /\ DeletionInv /\ [Next]_vars => [RecoveryLegal]_vars
  BY ClaimStep
<1>q. QED
  BY <1>1, TypeCorrect, DeletionSafe, PTL DEF Spec, ClaimGivenUpOnlyByRecovery

\* Whoever changes the expiry moves it forward.
LEMMA ExpiryStep == TypeOK /\ DeletionInv /\ [Next]_vars => [RenewalLegal]_vars
<1> SUFFICES ASSUME TypeOK, DeletionInv, Next PROVE RenewalLegal
  OBVIOUS
<1> USE Parameters DEF TypeOK, FlagsOK, RenewalLegal, DeletionInv, RecoveryHeld
<1>1. CASE \E n \in Days : ExtendVM(n)
  BY <1>1 DEF ExtendVM, PowerDrift, Later
<1>2. CASE ResumeAfterExtension
  BY <1>2
     DEF ResumeAfterExtension, ExtensionResumeLocked, CanStart, GoesWrong, Lost, Faulty,
        Fine, ExtensionStale, OwnerEnabled
<1>3. CASE RequestDestroy
  BY <1>3 DEF RequestDestroy
<1>4. CASE \E a \in Accounts : ClaimVM(a)
  BY <1>4 DEF ClaimVM
<1>5. CASE \E a \in Accounts : DetachAccount(a)
  BY <1>5 DEF DetachAccount
<1>6. CASE \E a \in Accounts : DisableAccount(a)
  BY <1>6 DEF DisableAccount, Queue
<1>7. CASE \E a \in Accounts : EnableAccount(a)
  BY <1>7 DEF EnableAccount, Queue
<1>8. CASE \E a \in Accounts : SuspendForAccount(a)
  BY <1>8 DEF SuspendForAccount, Done, GoesWrong, Lost, Fine
<1>9. CASE \E a \in Accounts : ResumeForAccount(a)
  BY <1>9 DEF ResumeForAccount, Done, GoesWrong, Lost, Fine
<1>10. CASE AdminStart
  BY <1>10 DEF AdminStart, GoesWrong, Lost, Fine, OwnerEnabled
<1>11. CASE AdminStop
  BY <1>11 DEF AdminStop, GoesWrong, Lost, Fine
<1>12. CASE \E n \in Days : AdminExtend(n)
  BY <1>12 DEF AdminExtend, Later
<1>13. CASE \E n \in Days : RequestRestore(n)
  BY <1>13 DEF RequestRestore, Later
<1>14. CASE \E a \in Accounts : TransferVM(a)
  BY <1>14 DEF TransferVM
<1>15. CASE AuthorizeRestore
  BY <1>15 DEF AuthorizeRestore, RestoreValid
<1>16. CASE FinalizeRestore
  BY <1>16 DEF FinalizeRestore, GoesWrong, Lost, Faulty, Fine, NoRestore, RestoreValid
<1>17. CASE ReconcileExtensionResume
  BY <1>17
     DEF ReconcileExtensionResume, ExtensionResumeLocked, GoesWrong, Lost, Faulty, Fine,
        ExtensionStale, OwnerEnabled
<1>18. CASE ReconcileTransferRead
  BY <1>18 DEF ReconcileTransferRead
<1>19. CASE ReconcileTransferResume
  BY <1>19 DEF ReconcileTransferResume, GoesWrong, Lost, Faulty, Fine
<1>20. CASE ExpirySelect
  BY <1>20 DEF ExpirySelect, Goto
<1>21. CASE ExpirySweep
  BY <1>21 DEF ExpirySweep, ExpiredReason, Goto, GoesWrong, Lost, Faulty, Fine
<1>22. CASE \E d \in Destroyers : CallDestroy(d)
  BY <1>22 DEF CallDestroy, Goto
<1>23. CASE \E d \in Destroyers : ClaimDeletion(d)
  BY <1>23 DEF ClaimDeletion, Goto, GoesWrong, Faulty, Fine
<1>24. CASE \E d \in Destroyers : ProtectRetained(d)
  BY <1>24 DEF ProtectRetained, ExpiredReason, Goto, GoesWrong, Lost, Faulty, Fine
<1>25. CASE \E d \in Destroyers : DeleteGuest(d)
  BY <1>25 DEF DeleteGuest, Goto, GoesWrong, Faulty, Fine
<1>26. CASE \E d \in Destroyers : CleanUpNames(d)
  BY <1>26 DEF CleanUpNames, Goto, GoesWrong, Faulty, Fine
<1>27. CASE \E d \in Destroyers : RecordDestroyed(d)
  BY <1>27 DEF RecordDestroyed, Goto
<1>28. CASE \E d \in Destroyers : Crash(d)
  BY <1>28 DEF Crash, Goto, GoesWrong
<1>29. CASE GuestShutsDown
  BY <1>29 DEF GuestShutsDown
<1>30. CASE Tick
  BY <1>30 DEF Tick
<1>q. QED
  BY <1>1, <1>2, <1>3, <1>4, <1>5, <1>6, <1>7, <1>8, <1>9, <1>10, <1>11, <1>12, <1>13,
     <1>14, <1>15, <1>16, <1>17, <1>18, <1>19, <1>20, <1>21, <1>22, <1>23, <1>24, <1>25,
     <1>26, <1>27, <1>28, <1>29, <1>30
     DEF Next, CustomerNext, AccountNext, AdminNext, WorkerNext, DestroyNext, DestroyStep

\* Purchased time is never taken back, and no renewal reaches a claimed row.
THEOREM ExpirySafe == Spec => ExpiryMovesForward
<1>1. TypeOK /\ DeletionInv /\ [Next]_vars => [RenewalLegal]_vars
  BY ExpiryStep
<1>q. QED
  BY <1>1, TypeCorrect, DeletionSafe, PTL DEF Spec, ExpiryMovesForward

=============================================================================
