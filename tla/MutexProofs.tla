---------------------------- MODULE MutexProofs ----------------------------
(***************************************************************************)
(* Theorems about Mutex, for any set of threads, whatever is interleaved   *)
(* with what.  Ownership is sound without further assumptions; mutual      *)
(* exclusion needs that nobody initializes the mutex again while it is in  *)
(* use, which is the one assumption its theorem makes.                     *)
(***************************************************************************)
EXTENDS Mutex, TLAPS

LEMMA TypeInit == Init => TypeOK
BY DEF Init, TypeOK, Labels

LEMMA TypeNext == TypeOK /\ [Next]_vars => TypeOK'
<1> SUFFICES ASSUME TypeOK, [Next]_vars PROVE TypeOK'
  OBVIOUS
<1> USE DEF TypeOK, Labels, Goto
<1>1. ASSUME NEW t \in Threads, Running(t)
      PROVE  TypeOK'
  <2>1. CASE SpinOn(t)
    BY <2>1 DEF SpinOn, vars
  <2>2. CASE TestAndSet(t)
    BY <2>2 DEF TestAndSet
  <2>3. CASE SetOwner(t)
    BY <2>3 DEF SetOwner
  <2>4. CASE ClearOwner(t)
    BY <2>4 DEF ClearOwner
  <2>5. CASE Release(t)
    BY <2>5 DEF Release
  <2>6. CASE DestroySteps(t)
    BY <2>6 DEF DestroySteps
  <2>7. CASE InitSteps(t)
    BY <2>7 DEF InitSteps
  <2> QED
    BY <1>1, <2>1, <2>2, <2>3, <2>4, <2>5, <2>6, <2>7 DEF Running
<1>2. ASSUME NEW t \in Threads, Unlock(t)
      PROVE  TypeOK'
  BY <1>2 DEF Unlock, UnlockCall, UnlockRefused
<1>3. ASSUME NEW t \in Threads, LockCall(t) \/ DestroyCall(t) \/ InitCall(t)
      PROVE  TypeOK'
  BY <1>3 DEF LockCall, DestroyCall, InitCall
<1>4. CASE UNCHANGED vars
  BY <1>4 DEF vars
<1> QED BY <1>1, <1>2, <1>3, <1>4 DEF Next

(* Type correctness of the mutex.                                          *)
THEOREM MutexTypeCorrect == Spec => []TypeOK
BY TypeInit, TypeNext, PTL DEF Spec

-----------------------------------------------------------------------------
(* Only a thread itself enters its name as owner, on its way to "held",    *)
(* and it leaves "clear" by taking the name out again.                     *)
LEMMA OwnerNext == TypeOK /\ OwnerHolds /\ [Next]_vars => OwnerHolds'
<1> SUFFICES ASSUME TypeOK, OwnerHolds, [Next]_vars PROVE OwnerHolds'
  OBVIOUS
<1> USE ThreadsAssumption DEF TypeOK, OwnerHolds, Goto
<1>1. ASSUME NEW t \in Threads, Running(t)
      PROVE  OwnerHolds'
  <2>1. CASE SpinOn(t)
    BY <2>1 DEF SpinOn, vars
  <2>2. CASE TestAndSet(t)
    BY <2>2 DEF TestAndSet
  <2>3. CASE SetOwner(t)
    BY <2>3 DEF SetOwner
  <2>4. CASE ClearOwner(t)
    BY <2>4 DEF ClearOwner
  <2>5. CASE Release(t)
    BY <2>5 DEF Release
  <2>6. CASE DestroySteps(t)
    BY <2>6 DEF DestroySteps
  <2>7. CASE InitSteps(t)
    BY <2>7 DEF InitSteps
  <2> QED
    BY <1>1, <2>1, <2>2, <2>3, <2>4, <2>5, <2>6, <2>7 DEF Running
<1>2. ASSUME NEW t \in Threads, Unlock(t)
      PROVE  OwnerHolds'
  BY <1>2 DEF Unlock, UnlockCall, UnlockRefused
<1>3. ASSUME NEW t \in Threads, LockCall(t) \/ DestroyCall(t) \/ InitCall(t)
      PROVE  OwnerHolds'
  BY <1>3 DEF LockCall, DestroyCall, InitCall
<1>4. CASE UNCHANGED vars
  BY <1>4 DEF vars
<1> QED BY <1>1, <1>2, <1>3, <1>4 DEF Next

(* However calls of lock, unlock, destroy and init are interleaved, unlock *)
(* only ever gets past its owner check for a thread that took the mutex    *)
(* and has not given it back.                                              *)
THEOREM OwnerSound == Spec => []OwnerHolds
<1>1. Init => OwnerHolds
  BY DEF Init, OwnerHolds
<1> QED BY <1>1, OwnerNext, MutexTypeCorrect, PTL DEF Spec

-----------------------------------------------------------------------------
(* Where a thread may be when nobody initializes again.                    *)
NotInitializing ==
  \A t \in Threads : pc[t] \notin {"init lock", "init owner",
                                   "init destroyed", "init initialized"}

(* The inductive invariant behind mutual exclusion: a mutex somebody holds *)
(* is locked, so that no second test-and-set can succeed, and an unlock in *)
(* progress is its holder's.                                               *)
Exclusion ==
  /\ TypeOK
  /\ NotInitializing
  /\ MutualExclusion
  /\ Holders # {} => lock = 1

LEMMA ExclusionInit == Init => Exclusion
<1> SUFFICES ASSUME Init PROVE Exclusion
  OBVIOUS
<1>1. Holders = {}
  BY DEF Init, Holders
<1> QED BY <1>1, TypeInit DEF Init, Exclusion, NotInitializing, MutualExclusion

(* What each step does to the set of holders.                              *)
LEMMA HoldersStep ==
  ASSUME Exclusion, OwnerHolds, Initers = {}, NEW t \in Threads,
         \/ Running(t) \/ Unlock(t) \/ LockCall(t) \/ DestroyCall(t)
         \/ InitCall(t)
  PROVE  \/ UNCHANGED <<Holders, lock>> /\ NotInitializing'
         \/ /\ Holders = {} /\ Holders' = {t} /\ lock' = 1
            /\ NotInitializing'
         \/ /\ Holders = {t} /\ Holders' = {} /\ NotInitializing'
<1>0. lock = 0 => Holders = {}
  BY DEF Exclusion
<1> USE DEF Exclusion, TypeOK, NotInitializing, Holders, Goto
<1>1. CASE SpinOn(t)
  BY <1>1 DEF SpinOn, vars
<1>2. CASE TestAndSet(t)
  BY <1>0, <1>2 DEF TestAndSet
<1>3. CASE SetOwner(t) \/ ClearOwner(t)
  BY <1>3 DEF SetOwner, ClearOwner
<1>4. CASE Release(t)
  <2>1. Holders = {t}
    BY <1>4 DEF Release, MutualExclusion
  <2> QED BY <1>4, <2>1 DEF Release
<1>5. CASE DestroySteps(t)
  BY <1>5 DEF DestroySteps
<1>6. CASE InitSteps(t)
  BY <1>6 DEF InitSteps
<1>7. CASE UnlockCall(t)
  <2>1. pc[t] = "held"
    BY <1>7, ThreadsAssumption DEF UnlockCall, OwnerHolds
  <2> QED BY <1>7, <2>1 DEF UnlockCall
<1>8. CASE UnlockRefused(t)
  <2>1. Holders = {t}
    BY <1>8 DEF UnlockRefused, MutualExclusion
  <2> QED BY <1>8, <2>1 DEF UnlockRefused
<1>9. CASE LockCall(t) \/ DestroyCall(t) \/ InitCall(t)
  BY <1>9 DEF LockCall, DestroyCall, InitCall
<1> QED
  BY <1>1, <1>2, <1>3, <1>4, <1>5, <1>6, <1>7, <1>8, <1>9
  DEF Running, Unlock

LEMMA ExclusionNext ==
  ASSUME Initers = {}
  PROVE  Exclusion /\ OwnerHolds /\ [Next]_vars => Exclusion'
<1> SUFFICES ASSUME Exclusion, OwnerHolds, [Next]_vars PROVE Exclusion'
  OBVIOUS
<1>1. TypeOK'
  BY TypeNext DEF Exclusion
<1>2. ASSUME NEW t \in Threads,
             \/ Running(t) \/ Unlock(t) \/ LockCall(t) \/ DestroyCall(t)
             \/ InitCall(t)
      PROVE  Exclusion'
  BY <1>1, <1>2, HoldersStep DEF Exclusion, MutualExclusion
<1>3. CASE UNCHANGED vars
  BY <1>3 DEF vars, Exclusion, TypeOK, NotInitializing, MutualExclusion,
              Holders
<1> QED BY <1>2, <1>3 DEF Next

(* At most one thread is inside the mutex, whoever destroys it meanwhile,  *)
(* as long as nobody initializes it again.                                 *)
THEOREM MutualExclusionHolds ==
  ASSUME Initers = {}
  PROVE  Spec => []MutualExclusion
<1>1. Exclusion => MutualExclusion
  BY DEF Exclusion
<1> QED
  BY <1>1, ExclusionInit, ExclusionNext, OwnerSound, PTL DEF Spec

-----------------------------------------------------------------------------
(* A thread in destroy might clear the owner of a held mutex.              *)
NotDestroying ==
  \A t \in Threads : pc[t] \notin {"destroy", "disown", "uninitialize"}

LEMMA HolderOwnsNext ==
  ASSUME Initers = {}, Destroyers = {}
  PROVE  Exclusion /\ NotDestroying /\ HolderOwns /\ [Next]_vars
           => NotDestroying' /\ HolderOwns'
<1> SUFFICES ASSUME Exclusion, NotDestroying, HolderOwns, [Next]_vars
             PROVE  NotDestroying' /\ HolderOwns'
  OBVIOUS
<1> USE DEF Exclusion, TypeOK, NotInitializing, NotDestroying, HolderOwns, Goto
<1>1. ASSUME NEW t \in Threads, SetOwner(t) \/ ClearOwner(t)
      PROVE  NotDestroying' /\ HolderOwns'
  <2>1. \A u \in Threads : pc[u] = "held" => u = t
    BY <1>1 DEF SetOwner, ClearOwner, MutualExclusion, Holders
  <2> QED BY <1>1, <2>1 DEF SetOwner, ClearOwner
<1>2. ASSUME NEW t \in Threads,
             \/ SpinOn(t) \/ TestAndSet(t) \/ Release(t) \/ UnlockCall(t)
             \/ UnlockRefused(t) \/ LockCall(t)
      PROVE  NotDestroying' /\ HolderOwns'
  BY <1>2
  DEF SpinOn, TestAndSet, Release, UnlockCall, UnlockRefused, LockCall, vars
<1>3. ASSUME NEW t \in Threads
      PROVE  ~ DestroySteps(t) /\ ~ InitSteps(t) /\ ~ DestroyCall(t)
             /\ ~ InitCall(t)
  BY DEF DestroySteps, InitSteps, DestroyCall, InitCall
<1>4. CASE UNCHANGED vars
  BY <1>4 DEF vars
<1> QED BY <1>1, <1>2, <1>3, <1>4 DEF Next, Running, Unlock

(* A thread that holds the mutex is named as its owner, so that its unlock *)
(* is not refused, as long as nobody destroys or initializes it meanwhile. *)
THEOREM HolderIsOwner ==
  ASSUME Initers = {}, Destroyers = {}
  PROVE  Spec => []HolderOwns
<1>1. Init => NotDestroying /\ HolderOwns
  BY DEF Init, NotDestroying, HolderOwns
<1> QED
  BY <1>1, HolderOwnsNext, ExclusionInit, ExclusionNext, OwnerSound, PTL
  DEF Spec

=============================================================================
