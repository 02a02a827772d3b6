-------------------------- MODULE PreemptionProofs --------------------------
(***************************************************************************)
(* Theorems about Preemption, for every number of threads and with the     *)
(* timer striking wherever it likes.                                       *)
(***************************************************************************)
EXTENDS Preemption, TcbQueuesProofs

(* Who is between the lock and the unlock of my_pthread_create holds       *)
(* count_lock, and number_of_threads is still what it loaded.              *)
CountLocked ==
  \A t \in Tids :
    /\ at[t] \in {"load", "store", "unlock"} => count_lock = t
    /\ at[t] \in {"load", "store"} => number_of_threads < MaxTid
    /\ at[t] = "store" => local[t].ptr = number_of_threads + 1

(* Where a local is used as a tcb it is one, and a search is in a run      *)
(* queue.                                                                  *)
LocalsFit ==
  \A t \in Tids :
    /\ at[t] \in {"wake", "armed", "swap"} => local[t].ptr \in Tids
    /\ at[t] = "search" => local[t].list \in Ranks

Inv == TypeOK /\ CountLocked /\ LocalsFit

-----------------------------------------------------------------------------
LEMMA Numbers ==
  /\ Ranks = {0, 1, 2} /\ TcbLists = {0, 1, 2, 3} /\ WaitQueue = 3
  /\ NULL = 0 /\ Main \in Tids
  /\ \A n \in Nat : n < MaxTid => n + 1 \in Tids /\ n + 1 \in Ptr
  /\ \A p : p \in Tids <=> p \in Nat /\ 1 <= p /\ p <= MaxTid
BY MaxTidAssumption
   DEF Ranks, MAX_PRIORITY, TcbLists, WaitQueue, NULL, Main, Tids, Ptr

LEMMA InitInv == Init => Inv
<1> SUFFICES ASSUME Init PROVE Inv
  OBVIOUS
<1> USE Numbers, Pointers
<1>1. /\ q \in ListRecord(TcbLists)
      /\ local \in [Tids -> Locals]
  BY DEF Init, ListRecord, EmptyLists, Locals, Thens
<1>2. /\ join \in [Tids -> Ptr] /\ priority \in [Tids -> Ranks]
      /\ thread_state \in [Tids -> States]
      /\ at \in [Tids -> Labels]
  BY DEF Init, Labels, States
<1>5. torn \in 0 .. MaxTorn
  BY MaxTornAssumption DEF Init
<1>6. /\ number_of_threads \in Tids /\ count_lock \in Ptr
      /\ current_thread \in Tids /\ exec \in Tids /\ armed \in BOOLEAN
      /\ exit_stack \subseteq Tids /\ joined \subseteq Ptr
      /\ mode \in {"on", "ended", "wild"}
  BY DEF Init, Main
<1>4. TypeOK
  BY <1>1, <1>2, <1>5, <1>6 DEF TypeOK
<1>3. CountLocked /\ LocalsFit
  BY DEF Init, CountLocked, LocalsFit
<1> QED BY <1>3, <1>4 DEF Inv

(* Stores into the running thread's locals.                                *)
LEMMA LocalStores ==
  ASSUME TypeOK, NEW k \in TcbLists, NEW p \in Ptr, NEW l \in Thens
  PROVE  /\ [local EXCEPT ![exec].ptr = p] \in [Tids -> Locals]
         /\ [local EXCEPT ![exec].then = l] \in [Tids -> Locals]
         /\ [local EXCEPT ![exec].list = k] \in [Tids -> Locals]
         /\ [local EXCEPT ![exec].list = k, ![exec].ptr = p]
              \in [Tids -> Locals]
         /\ [local EXCEPT ![exec].then = l, ![exec].list = k]
              \in [Tids -> Locals]
         /\ [local EXCEPT ![exec].ptr = p, ![exec].then = l]
              \in [Tids -> Locals]
BY DEF TypeOK, Locals

LEMMA LocalFields ==
  ASSUME TypeOK, NEW t \in Tids
  PROVE  /\ local[t].list \in TcbLists /\ local[t].ptr \in Ptr
         /\ local[t].arg \in Ptr /\ local[t].then \in Thens
BY DEF TypeOK, Locals

(* What get_tcb takes is a thread.                                         *)
LEMMA PickedType ==
  ASSUME NEW l \in ListRecord(TcbLists), Runnable(l)
  PROVE  /\ Picked(l) \in Tids
         /\ Dequeue(l, FirstRank(l)) \in ListRecord(TcbLists)
<1>1. FirstRank(l) \in Ranks /\ l.head[FirstRank(l)] # NULL
  BY FirstRankExists DEF FirstRank, IsFirstRank
<1>2. l.head[FirstRank(l)] \in Ptr
  BY <1>1, Numbers DEF ListRecord
<1> QED BY <1>1, <1>2, Pointers, DequeueType DEF Picked

LEMMA TypeStep == Inv /\ [Next]_vars => TypeOK'
<1> SUFFICES ASSUME Inv, [Next]_vars PROVE TypeOK'
  OBVIOUS
<1> USE Numbers, Pointers DEF Inv, TypeOK, Here, GoTo, my, Labels, Thens,
        States, counter, tcbs, cpu, history
<1> HIDE DEF Inv
<1>a. TypeOK /\ LocalsFit /\ CountLocked /\ exec \in Tids
  BY DEF Inv
<1>b. /\ local[exec].list \in TcbLists /\ local[exec].ptr \in Ptr
      /\ local[exec].arg \in Ptr /\ local[exec].then \in Thens
  BY <1>a, LocalFields
<1>c. \A p \in Ptr : [local EXCEPT ![exec].ptr = p] \in [Tids -> Locals]
  BY <1>a, <1>b, LocalStores
<1>1. CASE CreateCall
  BY <1>a, <1>b, <1>1, LocalStores DEF CreateCall
<1>2. CASE LockCount
  BY <1>a, <1>b, <1>2 DEF LockCount
<1>3. CASE LoadCount
  BY <1>a, <1>b, <1>3, LocalStores DEF LoadCount, CountLocked
<1>4. CASE StoreCount
  <2>1. local' \in [Tids -> Locals]
    BY <1>a, <1>4, LocalStores DEF StoreCount
  <2>2. number_of_threads' \in Tids
    BY <1>a, <1>4 DEF StoreCount, CountLocked
  <2> QED BY <1>a, <1>4, <2>1, <2>2 DEF StoreCount
<1>5. CASE UnlockCount
  BY <1>a, <1>b, <1>5 DEF UnlockCount
<1>6. CASE AppendTest
  BY <1>a, <1>b, <1>6 DEF AppendTest
<1>7. CASE Smashed
  BY <1>a, <1>b, <1>7 DEF Smashed
<1>8. CASE Disarm
  BY <1>a, <1>b, <1>8 DEF Disarm, StopTimer
<1>9. CASE PickNone
  BY <1>a, <1>b, <1>9 DEF PickNone
<1>10. CASE SwapContext
  BY <1>a, <1>b, <1>10 DEF SwapContext, LocalsFit
<1>11. CASE TakeOver
  BY <1>a, <1>b, <1>11 DEF TakeOver, LocalsFit
<1>12. CASE Gone
  BY <1>a, <1>b, <1>12 DEF Gone
<1>13. CASE Wait
  BY <1>a, <1>b, <1>13 DEF Wait
<1>14. CASE Collect
  <2>1. local' \in [Tids -> Locals]
    <3>1. local' = [local EXCEPT ![exec].then = "user"]
      BY <1>14 DEF Collect
    <3> QED BY <1>a, <3>1, LocalStores
  <2>2. joined' \subseteq Ptr
    BY <1>a, <1>b, <1>14 DEF Collect
  <2> QED BY <1>a, <1>14, <2>1, <2>2 DEF Collect
<1>15. CASE Walk
  <2>1. CASE my.ptr = NULL
    BY <1>a, <1>15, <2>1 DEF Walk
  <2>2. CASE my.ptr # NULL
    <3>1. q.next[my.ptr] \in Ptr
      BY <1>a, <1>b, <2>2 DEF ListRecord
    <3>2. local' \in [Tids -> Locals]
      <4>1. \/ local' = local
            \/ local' = [local EXCEPT ![exec].ptr = q.next[my.ptr]]
        BY <1>15, <2>2 DEF Walk
      <4> QED BY <1>a, <1>c, <3>1, <4>1
    <3> QED BY <1>a, <1>15, <2>2, <3>2 DEF Walk, Deref
  <2> QED BY <2>1, <2>2
<1>16. CASE Wake
  <2>1. priority[my.ptr] \in TcbLists
    BY <1>a, <1>16 DEF Wake, LocalsFit
  <2>2. local' \in [Tids -> Locals]
    BY <1>a, <1>16, <2>1, LocalStores DEF Wake
  <2> QED BY <1>a, <1>16, <2>2 DEF Wake
<1>17. CASE Search
  <2>1. my.list \in Ranks
    BY <1>a, <1>17 DEF Search, LocalsFit
  <2>2. my.ptr # NULL => q.next[my.ptr] \in Ptr
    BY <1>a, <1>b DEF ListRecord
  <2>3. CASE my.ptr # NULL
    <3>1. local' \in [Tids -> Locals]
      <4>1. \/ local' = local
            \/ local' = [local EXCEPT ![exec].ptr = q.next[my.ptr]]
        BY <1>17, <2>3 DEF Search
      <4> QED BY <1>a, <1>c, <2>2, <2>3, <4>1
    <3> QED BY <1>a, <1>17, <2>3, <3>1 DEF Search, Deref
  <2>4. CASE my.ptr = NULL /\ my.list # MAX_PRIORITY
    <3>1. my.list + 1 \in TcbLists /\ q.head[my.list + 1] \in Ptr
      BY <1>a, <2>1, <2>4 DEF ListRecord, MAX_PRIORITY
    <3>2. local' \in [Tids -> Locals]
      <4>1. local' = [local EXCEPT ![exec].list = my.list + 1,
                                   ![exec].ptr = q.head[my.list + 1]]
        BY <1>17, <2>4 DEF Search
      <4> QED BY <1>a, <3>1, <4>1, LocalStores
    <3> QED BY <1>a, <1>17, <2>4, <3>2 DEF Search
  <2>5. CASE my.ptr = NULL /\ my.list = MAX_PRIORITY
    BY <1>a, <1>17, <2>5 DEF Search
  <2> QED BY <2>3, <2>4, <2>5
<1>18. CASE SetJoin
  <2>1. local' \in [Tids -> Locals] /\ join' \in [Tids -> Ptr]
    BY <1>a, <1>b, <1>18, LocalStores DEF SetJoin
  <2> QED BY <1>a, <1>18, <2>1 DEF SetJoin
<1>19. CASE AppendFirst
  <2>1. q' \in ListRecord(TcbLists)
    BY <1>a, <1>b, <1>19 DEF AppendFirst, ListRecord
  <2> QED BY <1>a, <1>19, <2>1 DEF AppendFirst
<1>20. CASE AppendTail
  <2>1. q' \in ListRecord(TcbLists)
    BY <1>a, <1>b, <1>20 DEF AppendTail, ListRecord
  <2> QED BY <1>a, <1>20, <2>1 DEF AppendTail
<1>21. ASSUME NEW k \in TcbLists, NEW m \in Ptr, StoreNext(k, m)
       PROVE  q' \in ListRecord(TcbLists) /\ mode' \in {mode, "wild"}
  BY <1>a, <1>21 DEF StoreNext, Deref, ListRecord
<1>22. CASE AppendLink
  <2>1. q' \in ListRecord(TcbLists) /\ mode' \in {mode, "wild"}
    BY <1>b, <1>21, <1>22 DEF AppendLink
  <2> QED BY <1>a, <1>22, <2>1 DEF AppendLink
<1>23. CASE AppendEnd
  <2>1. q' \in ListRecord(TcbLists) /\ mode' \in {mode, "wild"}
    BY <1>b, <1>21, <1>23 DEF AppendEnd
  <2> QED BY <1>a, <1>23, <2>1 DEF AppendEnd
<1>24. ASSUME NEW returned \in BOOLEAN, ExitCall(returned) PROVE TypeOK'
  <2>1. q.head[WaitQueue] \in Ptr
    BY <1>a DEF ListRecord
  <2>2. local' \in [Tids -> Locals]
    BY <1>a, <1>24, <2>1, LocalStores DEF ExitCall
  <2>3. at' \in [Tids -> Labels]
    BY <1>a, <1>24 DEF ExitCall
  <2> QED BY <1>a, <1>24, <2>2, <2>3 DEF ExitCall
<1>25. ASSUME NEW t \in Tids, JoinCall(t) PROVE TypeOK'
  <2>1. q.head[0] \in Ptr
    BY <1>a DEF ListRecord
  <2>2. [list |-> 0, ptr |-> q.head[0], arg |-> t, then |-> "collect"]
          \in Locals
    BY <2>1 DEF Locals
  <2>3. local' \in [Tids -> Locals]
    BY <1>a, <1>25, <2>2 DEF JoinCall
  <2> QED BY <1>a, <1>25, <2>3 DEF JoinCall
<1>26. ASSUME NEW c \in Tids, NEW boosted \in BOOLEAN
       PROVE  /\ Ranked(c, boosted) \in Ranks
              /\ Left(c, Ranked(c, boosted)) \in ListRecord(TcbLists)
              /\ StateOnLeaving(c) \in {"FREED", "WAITING", "READY"}
  <2>1. Ranked(c, boosted) \in Ranks
    BY <1>a DEF Ranked, Demoted, MAX_PRIORITY
  <2>2. Left(c, Ranked(c, boosted)) \in ListRecord(TcbLists)
    BY <1>a, <2>1, EnqueueType DEF Left
  <2> QED BY <2>1, <2>2 DEF StateOnLeaving
<1>27. ASSUME NEW boosted \in BOOLEAN, Requeue(boosted) PROVE TypeOK'
  <2>1. q' \in ListRecord(TcbLists) /\ Ranked(exec, boosted) \in Ranks
    BY <1>a, <1>26, <1>27 DEF Requeue
  <2>2. /\ priority' \in [Tids -> Ranks]
        /\ thread_state' \in [Tids -> States]
    BY <1>a, <1>26, <1>27 DEF Requeue
  <2> QED BY <1>a, <1>27, <2>1, <2>2 DEF Requeue
<1>28. CASE Pick
  <2>1. q' \in ListRecord(TcbLists) /\ Picked(q) \in Ptr
    BY <1>a, PickedType, <1>28 DEF Pick
  <2>2. local' \in [Tids -> Locals]
    <3>1. local' = [local EXCEPT ![exec].ptr = Picked(q)]
      BY <1>28 DEF Pick
    <3> QED BY <1>a, <2>1, <3>1, LocalStores
  <2>3. mode' \in {mode, "wild"}
    BY <1>28 DEF Pick, Deref
  <2> QED BY <1>a, <1>28, <2>1, <2>2, <2>3 DEF Pick
<1>29. ASSUME NEW boosted \in BOOLEAN, Tick(boosted) PROVE TypeOK'
  <2> DEFINE rank == Ranked(current_thread, boosted)
             l == Left(current_thread, rank)
  <2>1. /\ rank \in Ranks /\ l \in ListRecord(TcbLists)
        /\ StateOnLeaving(current_thread) \in {"FREED", "WAITING", "READY"}
    BY <1>a, <1>26
  <2>2. Runnable(l) => Picked(l) \in Tids
                       /\ Dequeue(l, FirstRank(l)) \in ListRecord(TcbLists)
    BY <2>1, PickedType
  <2> HIDE DEF l, rank
  <2>3. /\ q' \in ListRecord(TcbLists) /\ current_thread' \in Tids
        /\ exec' \in Tids /\ armed' \in BOOLEAN
    BY <1>a, <1>29, <2>1, <2>2 DEF Tick, l, rank
  <2>4. priority' \in [Tids -> Ranks]
    BY <1>a, <1>29, <2>1 DEF Tick, l, rank
  <2>5. thread_state' \in [Tids -> States]
    <3>1. \/ thread_state' = [thread_state EXCEPT ![current_thread] = "FREED"]
          \/ thread_state' = [thread_state EXCEPT ![current_thread] =
                                           StateOnLeaving(current_thread)]
          \/ thread_state' = [thread_state EXCEPT
                                ![current_thread] =
                                   StateOnLeaving(current_thread),
                                ![Picked(l)] = "RUNNING"]
      BY <1>29 DEF Tick, l, rank
    <3> QED BY <1>a, <2>1, <3>1
  <2>6. torn' \in 0 .. MaxTorn
    <3>1. \/ torn' = torn
          \/ torn < MaxTorn /\ torn' = torn + 1
      BY <1>29 DEF Tick
    <3> QED BY <1>a, <3>1, MaxTornAssumption
  <2>7. mode' \in {"on", "ended", "wild"}
    <3>1. mode' \in Outcomes(current_thread, rank, l)
      BY <1>29 DEF Tick, l, rank
    <3> QED BY <3>1 DEF Outcomes
  <2> QED BY <1>a, <1>29, <2>3, <2>4, <2>5, <2>6, <2>7 DEF Tick
<1>30. CASE UNCHANGED vars
  BY <1>a, <1>30 DEF vars
<1> QED
  BY <1>1, <1>2, <1>3, <1>4, <1>5, <1>6, <1>7, <1>8, <1>9, <1>10, <1>11,
     <1>12, <1>13, <1>14, <1>15, <1>16, <1>17, <1>18, <1>19, <1>20, <1>22,
     <1>23, <1>24, <1>25, <1>27, <1>28, <1>29, <1>30 DEF Next

(* count_lock keeps two threads from being between its lock and its unlock *)
(* at once, and nobody else stores number_of_threads.                      *)
LEMMA CountStep == Inv /\ [Next]_vars => CountLocked' /\ LocalsFit'
<1> SUFFICES ASSUME Inv, [Next]_vars PROVE CountLocked' /\ LocalsFit'
  OBVIOUS
<1> USE Numbers DEF Here, GoTo, my, counter, tcbs, cpu, history
<1>a. TypeOK /\ LocalsFit /\ CountLocked /\ exec \in Tids
      /\ at \in [Tids -> Labels] /\ local \in [Tids -> Locals]
      /\ number_of_threads \in Tids /\ count_lock \in Ptr
  BY DEF Inv, TypeOK
<1>1. CASE CreateCall
  BY <1>a, <1>1 DEF CreateCall, CountLocked, LocalsFit, Locals
<1>2. CASE LockCount
  BY <1>a, <1>2 DEF LockCount, CountLocked, LocalsFit, Locals, MayTake
<1>3. CASE LoadCount
  BY <1>a, <1>3 DEF LoadCount, CountLocked, LocalsFit, Locals
<1>4. CASE StoreCount
  BY <1>a, <1>4 DEF StoreCount, CountLocked, LocalsFit, Locals
<1>5. CASE UnlockCount
  BY <1>a, <1>5 DEF UnlockCount, CountLocked, LocalsFit, Locals
<1>6. CASE AppendTest
  BY <1>a, <1>6 DEF AppendTest, CountLocked, LocalsFit, Locals
<1>7. CASE AppendFirst
  BY <1>a, <1>7 DEF AppendFirst, CountLocked, LocalsFit, Locals
<1>8. CASE AppendLink
  BY <1>a, <1>8 DEF AppendLink, CountLocked, LocalsFit, Locals
<1>9. CASE AppendTail
  BY <1>a, <1>9 DEF AppendTail, CountLocked, LocalsFit, Locals
<1>10. CASE AppendEnd
  BY <1>a, <1>10 DEF AppendEnd, CountLocked, LocalsFit, Locals
<1>11. CASE Disarm
  BY <1>a, <1>11 DEF Disarm, CountLocked, LocalsFit, Locals
<1>12. CASE PickNone
  BY <1>a, <1>12 DEF PickNone, CountLocked, LocalsFit, Locals, Thens
<1>13. CASE Pick
  <2>1. q \in ListRecord(TcbLists) /\ Picked(q) \in Tids
    BY <1>a, <1>13, PickedType DEF Pick, TypeOK
  <2> QED BY <1>a, <1>13, <2>1 DEF Pick, CountLocked, LocalsFit, Locals
<1>14. CASE TakeOver
  BY <1>a, <1>14 DEF TakeOver, CountLocked, LocalsFit, Locals
<1>15. CASE SwapContext
  BY <1>a, <1>15 DEF SwapContext, CountLocked, LocalsFit, Locals, Thens
<1>16. CASE Smashed
  BY <1>a, <1>16 DEF Smashed, CountLocked, LocalsFit, Locals
<1>17. CASE Walk
  <2>1. my.ptr \in Ptr
    BY <1>a, LocalFields
  <2> QED BY <1>a, <1>17, <2>1, Pointers DEF Walk, CountLocked, LocalsFit, Locals
<1>18. CASE Wake
  BY <1>a, <1>18 DEF Wake, CountLocked, LocalsFit, Locals
<1>19. CASE Gone
  BY <1>a, <1>19 DEF Gone, CountLocked, LocalsFit, Locals
<1>20. CASE Search
  BY <1>a, <1>20 DEF Search, CountLocked, LocalsFit, Locals, MAX_PRIORITY
<1>21. CASE Wait
  BY <1>a, <1>21 DEF Wait, CountLocked, LocalsFit, Locals
<1>22. CASE SetJoin
  BY <1>a, <1>22 DEF SetJoin, CountLocked, LocalsFit, Locals
<1>23. CASE Collect
  BY <1>a, <1>23 DEF Collect, CountLocked, LocalsFit, Locals
<1>24. ASSUME NEW boosted \in BOOLEAN, Requeue(boosted) \/ Tick(boosted)
       PROVE  CountLocked' /\ LocalsFit'
  BY <1>a, <1>24 DEF Requeue, Tick, CountLocked, LocalsFit
<1>25. ASSUME NEW returned \in BOOLEAN, ExitCall(returned)
       PROVE  CountLocked' /\ LocalsFit'
  BY <1>a, <1>25 DEF ExitCall, CountLocked, LocalsFit, Locals
<1>26. ASSUME NEW t \in Tids, JoinCall(t) PROVE CountLocked' /\ LocalsFit'
  BY <1>a, <1>26 DEF JoinCall, CountLocked, LocalsFit, Locals
<1>27. CASE UNCHANGED vars
  BY <1>a, <1>27 DEF vars, CountLocked, LocalsFit
<1> QED
  BY <1>1, <1>2, <1>3, <1>4, <1>5, <1>6, <1>7, <1>8, <1>9, <1>10, <1>11, <1>12, <1>13, <1>14, <1>15, <1>16, <1>17, <1>18, <1>19, <1>20, <1>21, <1>22, <1>23, <1>24, <1>25, <1>26, <1>27 DEF Next
LEMMA NextInv == Inv /\ [Next]_vars => Inv'
BY TypeStep, CountStep DEF Inv

-----------------------------------------------------------------------------
THEOREM Invariance == Spec => []Inv
BY InitInv, NextInv, PTL DEF Spec

(* Every variable has its type, also once the lists are torn.              *)
THEOREM TypeCorrect == Spec => []TypeOK
<1>1. Inv => TypeOK
  BY DEF Inv
<1> QED BY <1>1, Invariance, PTL

(* my_pthread_create numbers its threads 2, 3, ... without a gap and       *)
(* without using a number twice, wherever the timer strikes.               *)
THEOREM TidsStayFresh == Spec => TidsFresh
<1>1. Inv /\ [Next]_vars =>
        [number_of_threads' # number_of_threads =>
           number_of_threads' = number_of_threads + 1
           /\ \A t \in Tids \ {exec} :
                at[t] \notin {"load", "store", "unlock"}]_vars
  <2> SUFFICES ASSUME Inv, Next, number_of_threads' # number_of_threads
               PROVE  number_of_threads' = number_of_threads + 1
                      /\ \A t \in Tids \ {exec} :
                           at[t] \notin {"load", "store", "unlock"}
    OBVIOUS
  <2>1. StoreCount
    BY DEF Next, counter, CreateCall, LockCount, LoadCount, UnlockCount,
           AppendTest, AppendFirst, AppendLink, AppendTail, AppendEnd, Disarm,
           PickNone, Pick, TakeOver, SwapContext, Smashed, Walk, Wake, Gone,
           Search, Wait, SetJoin, Collect, Requeue, Tick, ExitCall, JoinCall
  <2>2. exec \in Tids /\ at[exec] = "store" /\ count_lock = exec
    BY <2>1 DEF StoreCount, Here, Inv, TypeOK, CountLocked
  <2> QED BY <2>1, <2>2 DEF StoreCount, my, Inv, CountLocked
<1> QED BY <1>1, Invariance, PTL DEF Spec, TidsFresh

-----------------------------------------------------------------------------
(***************************************************************************)
(* As long as the timer has spared the fragile labels, the running thread  *)
(* is the only one on its way through a list, and every list is what it    *)
(* was when that thread began, but for its own half-done append.           *)
(***************************************************************************)

(* The labels at which a thread may have been left by the timer, or by its *)
(* own yield.                                                              *)
Rested ==
  {"user", "lock", "load", "store", "unlock", "yield", "wake", "collect"}

Switching == {"pick", "armed", "swap"}

(* The threads that are in no run queue although they are READY, or may    *)
(* be: the running one, until it has been requeued, and one in its hand.   *)
Away ==
  IF at[exec] = "pick" THEN {}
  ELSE IF at[exec] \in {"armed", "swap"} THEN {my.ptr}
  ELSE IF at[exec] \in Appending THEN {exec, my.ptr}
  ELSE {exec}

Queued ==
  [r \in Ranks |-> {t \in Tids : /\ t \notin Away
                                 /\ thread_state[t] = "READY"
                                 /\ priority[t] = r}]

(* Lists l with the nodes B in the run queues.  Main, the only thread that *)
(* joins, is never taken out of the WaitQueue again; a node that is in no  *)
(* run queue has no next.                                                  *)
Neat(l, B) ==
  /\ l \in ListRecord(TcbLists)
  /\ Acyclic(l)
  /\ \A r \in Ranks : Holds(l, r, B[r])
  /\ \A t \in Tids : (\A r \in Ranks : t \notin B[r]) => l.next[t] = NULL
  /\ l.head[WaitQueue] \in {NULL, Main}
  /\ l.tail[WaitQueue] = l.head[WaitQueue]

Disjoint(B) == \A i, j \in Ranks : i # j => B[i] \cap B[j] = {}

(* What the append of m to list k has made of lists l before a label.      *)
Linked(l, k, m) ==
  IF l.head[k] = NULL THEN [l EXCEPT !.head[k] = m]
  ELSE [l EXCEPT !.next[l.tail[k]] = m]

Half(l, k, m, label) ==
  CASE label = "tail" -> Linked(l, k, m)
    [] label = "end"  -> [Linked(l, k, m) EXCEPT !.tail[k] = m]
    [] OTHER          -> l

Begun(l, k, m, label) ==
  /\ q = Half(l, k, m, label)
  /\ label = "first" => l.head[k] = NULL
  /\ label = "link" => l.head[k] # NULL

Lists ==
  \E l \in ListRecord(TcbLists) :
    Neat(l, Queued) /\ Begun(l, my.list, my.ptr, at[exec])

-----------------------------------------------------------------------------
LEMMA QueuedType == Disjoint(Queued) /\ Queued \in [Ranks -> SUBSET Tids]
BY DEF Disjoint, Queued

(* Where a walk down a run queue, or down the WaitQueue, gets to.          *)
LEMMA NeatWalk ==
  ASSUME NEW B \in [Ranks -> SUBSET Tids], NEW l, Neat(l, B)
  PROVE  /\ \A r \in Ranks :
              /\ Members(l, r) = B[r]
              /\ l.head[r] \in B[r] \cup {NULL}
              /\ l.head[r] = NULL <=> B[r] = {}
              /\ l.head[r] # NULL => l.tail[r] \in B[r]
              /\ \A t \in B[r] : l.next[t] \in B[r] \cup {NULL}
         /\ \A t \in Tids :
              l.next[t] = NULL \/ \E r \in Ranks : t \in B[r]
         /\ Runnable(l) <=> \E r \in Ranks : B[r] # {}
<1>1. ASSUME NEW r \in Ranks
      PROVE  /\ Members(l, r) = B[r]
             /\ l.head[r] \in B[r] \cup {NULL}
             /\ l.head[r] = NULL <=> B[r] = {}
             /\ l.head[r] # NULL => l.tail[r] \in B[r]
             /\ \A t \in B[r] : l.next[t] \in B[r] \cup {NULL}
  <2>1. l.head[r] \in Ptr /\ r \in TcbLists /\ l \in ListRecord(TcbLists)
    BY DEF Neat, ListRecord, TcbLists
  <2>2. Members(l, r) = B[r] /\ EndsAtTail(l, r)
    BY DEF Neat, Holds
  <2>3. /\ Closed(l, B[r])
        /\ l.head[r] # NULL => l.head[r] \in B[r]
        /\ l.head[r] = NULL => B[r] = {}
    BY <2>1, <2>2, FromClosed DEF Members
  <2> QED BY <2>2, <2>3 DEF Closed, EndsAtTail
<1>2. Runnable(l) <=> \E r \in Ranks : B[r] # {}
  BY <1>1 DEF Runnable
<1> QED BY <1>1, <1>2 DEF Neat

LEMMA NeatEnqueue ==
  ASSUME NEW B \in [Ranks -> SUBSET Tids], Disjoint(B), NEW l, Neat(l, B),
         NEW k \in Ranks, NEW m \in Tids, \A r \in Ranks : m \notin B[r]
  PROVE  /\ Neat(Enqueue(l, k, m), [B EXCEPT ![k] = @ \cup {m}])
         /\ Enqueue(l, k, m).head[WaitQueue] = l.head[WaitQueue]
<1> DEFINE e == Enqueue(l, k, m)
           D == [B EXCEPT ![k] = @ \cup {m}]
<1>1. /\ l \in ListRecord(TcbLists) /\ Acyclic(l) /\ k \in TcbLists
      /\ WaitQueue \in TcbLists /\ WaitQueue # k
  BY Numbers DEF Neat, TcbLists
<1>2. e \in ListRecord(TcbLists) /\ Acyclic(e)
  BY <1>1, EnqueueType, EnqueueAcyclic
<1>3. ASSUME NEW r \in Ranks PROVE Holds(e, r, D[r])
  <2>1. r \in TcbLists /\ Holds(l, r, B[r]) /\ Holds(l, k, B[k])
    BY DEF Neat, TcbLists
  <2>2. CASE r = k
    BY <1>1, <2>1, <2>2, EnqueueHolds
  <2>3. CASE r # k
    BY <1>1, <2>1, <2>3, EnqueueOther DEF Disjoint
  <2> QED BY <2>2, <2>3
<1>4. /\ e.head[WaitQueue] = l.head[WaitQueue]
      /\ e.tail[WaitQueue] = l.tail[WaitQueue]
  BY <1>1 DEF Enqueue, ListRecord
<1>5. ASSUME NEW t \in Tids, \A r \in Ranks : t \notin D[r]
      PROVE  e.next[t] = NULL
  <2>1. t # m /\ \A r \in Ranks : t \notin B[r]
    BY <1>5
  <2>2. l.head[k] # NULL => t # l.tail[k]
    BY <2>1, NeatWalk
  <2>3. l.next[t] = NULL
    BY <2>1 DEF Neat
  <2> QED BY <1>1, <2>1, <2>2, <2>3 DEF Enqueue, ListRecord
<1> HIDE DEF e, D
<1>6. /\ e.head[WaitQueue] \in {NULL, Main}
      /\ e.tail[WaitQueue] = e.head[WaitQueue]
  BY <1>4 DEF Neat
<1>7. Neat(e, D)
  BY <1>2, <1>3, <1>5, <1>6 DEF Neat
<1> QED BY <1>4, <1>7 DEF e, D

LEMMA NeatDequeue ==
  ASSUME NEW B \in [Ranks -> SUBSET Tids], Disjoint(B), NEW l, Neat(l, B),
         Runnable(l)
  PROVE  /\ FirstRank(l) \in Ranks /\ Picked(l) \in B[FirstRank(l)]
         /\ Neat(Dequeue(l, FirstRank(l)),
                 [r \in Ranks |-> B[r] \ {Picked(l)}])
         /\ Dequeue(l, FirstRank(l)).head[WaitQueue] = l.head[WaitQueue]
<1> DEFINE k == FirstRank(l)
           h == Picked(l)
           d == Dequeue(l, k)
           D == [r \in Ranks |-> B[r] \ {h}]
<1>1. k \in Ranks /\ l.head[k] # NULL /\ h = l.head[k]
  BY FirstRankExists DEF FirstRank, IsFirstRank, Picked
<1> HIDE DEF k, h
<1>2. /\ l \in ListRecord(TcbLists) /\ Acyclic(l) /\ k \in TcbLists
      /\ WaitQueue \in TcbLists /\ WaitQueue # k
      /\ h \in B[k] /\ h \in Tids /\ k \in Ranks
  BY <1>1, Numbers, NeatWalk DEF Neat, TcbLists
<1>3. d \in ListRecord(TcbLists)
  BY <1>1, <1>2, DequeueType
<1>4. \A r \in Ranks : Holds(d, r, D[r])
  BY <1>1, <1>2, PickHolds DEF Neat, Disjoint
<1>5. /\ d.head[WaitQueue] = l.head[WaitQueue]
      /\ d.tail[WaitQueue] = l.tail[WaitQueue]
      /\ \A t \in Tids \ {h} : d.next[t] = l.next[t]
      /\ d.next[h] = NULL
  BY <1>1, <1>2 DEF Dequeue, ListRecord
<1>6. Acyclic(d)
  BY <1>2, <1>5, Pointers DEF Acyclic
<1>7. ASSUME NEW t \in Tids, \A r \in Ranks : t \notin D[r]
      PROVE  d.next[t] = NULL
  BY <1>5, <1>7 DEF Neat
<1> HIDE DEF d, D
<1>8. /\ d.head[WaitQueue] \in {NULL, Main}
      /\ d.tail[WaitQueue] = d.head[WaitQueue]
  BY <1>5 DEF Neat
<1>9. Neat(d, D)
  BY <1>3, <1>4, <1>6, <1>7, <1>8 DEF Neat
<1> QED BY <1>2, <1>5, <1>9 DEF d, D, h, k

(* Main joins the WaitQueue, as its only thread and perhaps once more.     *)
LEMMA NeatWait ==
  ASSUME NEW B \in [Ranks -> SUBSET Tids], NEW l, Neat(l, B),
         \A r \in Ranks : Main \notin B[r]
  PROVE  /\ Neat(Enqueue(l, WaitQueue, Main), B)
         /\ Enqueue(l, WaitQueue, Main).head[WaitQueue] = Main
<1> DEFINE e == Enqueue(l, WaitQueue, Main)
<1>1. /\ l \in ListRecord(TcbLists) /\ Acyclic(l) /\ Main \in Tids
      /\ WaitQueue \in TcbLists /\ WaitQueue \notin Ranks
      /\ l.tail[WaitQueue] = l.head[WaitQueue]
      /\ l.head[WaitQueue] \in {NULL, Main}
      /\ Ranks \subseteq TcbLists
  BY Numbers DEF Neat, TcbLists
<1>2. e \in ListRecord(TcbLists) /\ Acyclic(e)
  BY <1>1, EnqueueType, EnqueueAcyclic
<1>3. /\ e.head[WaitQueue] = Main /\ e.tail[WaitQueue] = Main
      /\ e.next[Main] = NULL
      /\ \A t \in Tids \ {Main} : e.next[t] = l.next[t]
      /\ \A r \in Ranks : e.head[r] = l.head[r] /\ e.tail[r] = l.tail[r]
  BY <1>1 DEF Enqueue, ListRecord
<1>4. ASSUME NEW r \in Ranks PROVE Holds(e, r, B[r])
  <2>1. \A t \in B[r] : e.next[t] = l.next[t]
    BY <1>3
  <2> QED BY <1>1, <1>2, <1>3, <2>1, HoldsLocal DEF Neat
<1>5. \A t \in Tids : (\A r \in Ranks : t \notin B[r]) => e.next[t] = NULL
  BY <1>3 DEF Neat
<1> HIDE DEF e
<1>6. Neat(e, B)
  BY <1>2, <1>3, <1>4, <1>5 DEF Neat
<1> QED BY <1>3, <1>6 DEF e

(* The store that ends an append makes an Enqueue of it.                   *)
LEMMA HalfEnds ==
  ASSUME NEW l \in ListRecord(TcbLists), NEW k \in TcbLists, NEW m \in Tids
  PROVE  LET h == Half(l, k, m, "end") IN
           /\ h.tail[k] = m
           /\ [h EXCEPT !.next[h.tail[k]] = NULL] = Enqueue(l, k, m)
<1> DEFINE h == Half(l, k, m, "end")
<1>1. h = [Linked(l, k, m) EXCEPT !.tail[k] = m]
  BY DEF Half
<1>2. CASE l.head[k] = NULL
  <2>1. h = [[l EXCEPT !.head[k] = m] EXCEPT !.tail[k] = m]
    BY <1>1, <1>2 DEF Linked
  <2> QED BY <1>2, <2>1 DEF Enqueue, ListRecord
<1>3. CASE l.head[k] # NULL
  <2>1. h = [[l EXCEPT !.next[l.tail[k]] = m] EXCEPT !.tail[k] = m]
    BY <1>1, <1>3 DEF Linked
  <2>2. h = [head |-> l.head, tail |-> [l.tail EXCEPT ![k] = m],
             next |-> [l.next EXCEPT ![l.tail[k]] = m]]
    BY <2>1 DEF ListRecord
  <2>3. h.tail = [l.tail EXCEPT ![k] = m] /\ h.tail[k] = m
    BY <2>2 DEF ListRecord
  <2>4. [h EXCEPT !.next[m] = NULL]
          = [head |-> l.head, tail |-> [l.tail EXCEPT ![k] = m],
             next |-> [[l.next EXCEPT ![l.tail[k]] = m] EXCEPT ![m] = NULL]]
    BY <2>2
  <2> HIDE DEF h
  <2>5. [h EXCEPT !.next[h.tail[k]] = NULL] = Enqueue(l, k, m)
    BY <1>3, <2>3, <2>4 DEF Enqueue
  <2> QED BY <2>3, <2>5 DEF h
<1> QED BY <1>2, <1>3

(* Nobody is missing from a run queue in the course of an append to it.    *)
LEMMA HalfMembers ==
  ASSUME NEW B \in [Ranks -> SUBSET Tids], Disjoint(B), NEW l, Neat(l, B),
         NEW k \in TcbLists, NEW m \in Tids, \A r \in Ranks : m \notin B[r],
         k = WaitQueue => m = Main,
         NEW label, NEW r \in Ranks
  PROVE  /\ B[r] \subseteq Members(Half(l, k, m, label), r)
         /\ Members(Half(l, k, m, label), r) \subseteq B[r] \cup {m}
<1> DEFINE d == Half(l, k, m, label)
           h == l.head[r]
           z == l.tail[r]
<1>1. /\ l \in ListRecord(TcbLists) /\ r \in TcbLists /\ h \in Ptr
      /\ From(l, h) = B[r] /\ Closed(l, B[r]) /\ B[r] \subseteq Tids
      /\ h \in B[r] \cup {NULL}
      /\ h = NULL <=> B[r] = {}
      /\ h # NULL => z \in B[r] /\ l.next[z] = NULL
      /\ l.next[m] = NULL
  <2>1. l \in ListRecord(TcbLists) /\ r \in TcbLists /\ Holds(l, r, B[r])
    BY DEF Neat, TcbLists
  <2>2. l.head[r] \in Ptr
    BY <2>1 DEF ListRecord
  <2>3. l.next[m] = NULL
    BY DEF Neat
  <2>4. h # NULL => l.next[z] = NULL
    BY <2>1 DEF Holds, EndsAtTail
  <2> QED BY <2>1, <2>2, <2>3, <2>4, FromClosed, NeatWalk DEF Holds, Members
<1>2. CASE label \notin {"tail", "end"}
  <2>1. d = l
    BY <1>2 DEF Half
  <2> QED BY <1>1, <2>1 DEF Members
<1>3. CASE label \in {"tail", "end"} /\ l.head[k] = NULL
  <2>1. /\ d.head = [l.head EXCEPT ![k] = m] /\ d.next = l.next
        /\ d.head[r] = IF k = r THEN m ELSE h
    BY <1>1, <1>3 DEF Half, Linked, ListRecord
  <2>2. \A p : From(d, p) = From(l, p)
    BY <2>1 DEF From, Closed
  <2>3. CASE k = r
    <3>1. From(l, m) = {m} \cup From(l, NULL) /\ From(l, NULL) = {}
      BY <1>1, FromStep DEF From
    <3> QED BY <1>1, <1>3, <2>1, <2>2, <2>3, <3>1 DEF Members
  <2>4. CASE k # r
    BY <1>1, <2>1, <2>2, <2>4 DEF Members
  <2> QED BY <2>3, <2>4
<1>4. CASE label \in {"tail", "end"} /\ l.head[k] # NULL
  <2> DEFINE y == l.tail[k]
             G == From(d, h)
  <2>1. /\ d.head = l.head /\ d.next = [l.next EXCEPT ![y] = m]
        /\ d.tail = IF label = "end" THEN [l.tail EXCEPT ![k] = m] ELSE l.tail
    BY <1>1, <1>4 DEF Half, Linked, ListRecord
  <2>2. /\ k = r => y = z
        /\ k # r => y \notin B[r]
        /\ y \in Tids /\ m \in Ptr
    <3>1. CASE k \in Ranks
      <4>1. y \in B[k]
        BY <1>4, <3>1, NeatWalk
      <4> QED BY <3>1, <4>1, Pointers DEF Disjoint
    <3>2. CASE k = WaitQueue
      BY <1>4, <3>2, Numbers, Pointers DEF Neat
    <3> QED BY <3>1, <3>2 DEF TcbLists
  <2>3. /\ d \in ListRecord(TcbLists)
        /\ \A t \in Tids \ {y} : d.next[t] = l.next[t]
        /\ d.next[y] = m
    <3>1. d = [head |-> d.head, tail |-> d.tail, next |-> d.next]
      BY <1>1, <1>4 DEF Half, Linked, ListRecord
    <3> HIDE DEF d
    <3> QED BY <1>1, <2>1, <2>2, <3>1 DEF ListRecord
  <2>4. Members(d, r) = G
    BY <2>1 DEF Members
  <2> HIDE DEF d, h, y, z
  <2>5. CASE k # r
    <3>1. \A t \in B[r] : d.next[t] = l.next[t]
      BY <1>1, <2>2, <2>3, <2>5
    <3>2. G = From(l, h)
      BY <1>1, <2>3, <3>1, FromLocal
    <3> QED BY <1>1, <2>4, <3>2 DEF d
  <2>6. CASE k = r
    <3>1. h # NULL /\ z \in B[r] /\ y = z /\ z # m /\ l.next[z] = NULL
      BY <1>1, <1>4, <2>2, <2>6 DEF h
    <3>2. G \subseteq B[r] \cup {m}
      <4>1. Closed(d, B[r] \cup {m})
        BY <1>1, <2>3, <3>1 DEF Closed
      <4> QED BY <1>1, <3>1, <4>1, FromLeast
    <3>3. B[r] \subseteq G
      <4>1. G \subseteq Tids /\ Closed(d, G) /\ h \in G
        BY <1>1, <2>3, <3>1, FromClosed
      <4>2. Closed(l, G \cap B[r])
        BY <1>1, <2>3, <3>1, <4>1 DEF Closed
      <4>3. From(l, h) \subseteq G \cap B[r]
        BY <1>1, <3>1, <4>1, <4>2, FromLeast
      <4> QED BY <1>1, <4>3
    <3> QED BY <2>4, <3>2, <3>3 DEF d
  <2> QED BY <2>5, <2>6
<1> QED BY <1>2, <1>3, <1>4

-----------------------------------------------------------------------------
(* A thread that exits, from where its walk has shown whether main waits   *)
(* for it.                                                                 *)
Leaving(u) == local[u].then = "gone" /\ at[u] \notin {"walk", "wake"}

(* Main has said that it waits, and is not in the WaitQueue yet.           *)
Joining ==
  at[Main] \in Appending \cup {"join"} /\ local[Main].then = "collect"

(* Who has the processor, and what the states say of it.                   *)
Turn ==
  /\ current_thread = IF at[exec] = "swap" THEN my.ptr ELSE exec
  /\ at[exec] = "armed" => thread_state[my.ptr] = "READY"
  /\ at[exec] = "swap" => thread_state[my.ptr] \in {"READY", "RUNNING"}
  /\ at[exec] \in {"requeue", "pick"} => ~ armed
  /\ \A t \in Tids :
       /\ thread_state[t] = "RUNNING" => t = current_thread
       /\ thread_state[t] = "WAITING" => t = Main
       /\ thread_state[t] = "EXITED" => t = exec

Stands ==
  LET s == thread_state[exec] IN
  /\ at[exec] \in {"pick", "armed"} => s \in {"READY", "WAITING", "FREED"}
  /\ at[exec] = "swap" => s \in {"READY", "WAITING", "FREED", "RUNNING"}
  /\ at[exec] \in {"yield", "requeue"} =>
       /\ s \in {"RUNNING", "READY", "WAITING", "EXITED"}
       /\ s = "EXITED" <=> my.then = "gone"
  /\ Joining => thread_state[Main] = "WAITING"
  /\ ~ Joining /\ at[exec] \notin Switching \cup {"yield", "requeue"} =>
       s \in {"RUNNING", "READY"}

(* Where each thread is, and where it will go on after its yield.          *)
Placed(u) ==
  /\ u \in Freed => Leaving(u)
  /\ u # exec /\ u \notin Freed => at[u] \in Rested
  /\ at[exec] # "smashed"
  /\ local[u].then = "gone" =>
       /\ u # Main
       /\ \/ at[u] \in {"walk", "wake"} \/ u \in Freed
          \/ /\ u = exec
             /\ at[u] \in Appending \cup {"gone", "yield", "requeue"}
  /\ at[u] \in {"walk", "wake", "gone"} => local[u].then = "gone"
  /\ local[u].then = "collect" => u = Main
  /\ at[u] \in {"search", "wait", "join", "collect"} =>
       local[u].then = "collect"
  /\ at[u] \in {"lock", "load", "store"} => local[u].then = "lock"
  /\ at[u] = "unlock" => local[u].then = "user" /\ local[u].list = 0
  /\ u \in exit_stack /\ u \notin Freed =>
       u = exec /\ local[u].then = "gone"
  /\ u # Main => join[u] = NULL

Labelled == \A u \in Tids : Placed(u)

(* A thread that my_pthread_create has not made yet.                       *)
Fresh ==
  \A u \in Tids :
    /\ at[u] = "unlock" => /\ local[u].ptr \in 1 .. number_of_threads
                           /\ thread_state[local[u].ptr] = "NONE"
    /\ u > number_of_threads => thread_state[u] = "NONE"
    /\ thread_state[u] = "NONE" => at[u] = "user" /\ priority[u] = 0

(* What the running thread knows in the middle of an append, of a search   *)
(* and of a walk.                                                          *)
InAppend ==
  at[exec] \in Appending =>
    IF my.then = "collect"
    THEN my.ptr = Main /\ exec = Main /\ my.list = WaitQueue
    ELSE /\ my.ptr \in Tids \ {exec} /\ thread_state[my.ptr] = "READY"
         /\ my.list = priority[my.ptr]
         /\ my.then = "gone" <=> my.ptr = Main

InSearch ==
  /\ at[exec] \in {"search", "wait", "join"} =>
       /\ my.arg \in Tids \ {Main}
       /\ thread_state[my.arg] \in {"READY", "FREED"}
  /\ at[exec] \in {"wait", "join"} => thread_state[my.arg] = "READY"
  /\ at[exec] = "search" =>
       /\ my.ptr \in Queued[my.list] \cup {NULL}
       /\ thread_state[my.arg] = "READY" =>
            \/ priority[my.arg] > my.list
            \/ priority[my.arg] = my.list /\ my.arg \in From(q, my.ptr)

InWalk ==
  at[exec] = "walk" =>
    /\ my.ptr # NULL /\ my.ptr # Main =>
         my.ptr # exec /\ thread_state[my.ptr] = "READY"
    /\ thread_state[Main] = "WAITING" /\ join[Main] = exec => my.ptr = Main
    /\ my.ptr # NULL => q.head[WaitQueue] = Main

(* Main waits exactly until the thread it has joined is leaving.           *)
MainWaits ==
  /\ thread_state[Main] \notin {"NONE", "FREED", "EXITED"}
  /\ ~ Joining =>
       /\ thread_state[Main] = "WAITING" => q.head[WaitQueue] = Main
       /\ q.head[WaitQueue] = Main =>
            /\ join[Main] \in Tids \ {Main}
            /\ thread_state[join[Main]] # "NONE"
            /\ thread_state[Main] = "WAITING" <=> ~ Leaving(join[Main])
  /\ Joining /\ at[Main] # "join" =>
       /\ join[Main] = local[Main].arg /\ join[Main] \in Tids \ {Main}
       /\ thread_state[join[Main]] = "READY"

(* The join main comes back from is of a thread that it has waited for, or *)
(* of one that was gone.                                                   *)
MainReturns ==
  /\ at[Main] \in Switching \cup {"yield", "requeue", "collect"}
  /\ local[Main].then = "collect"
  => /\ local[Main].arg \in Tids
     /\ \/ thread_state[local[Main].arg] = "FREED"
        \/ join[Main] = local[Main].arg /\ q.head[WaitQueue] = Main

AtWake ==
  \A u \in Tids : at[u] = "wake" =>
    /\ local[u].ptr = Main /\ ~ Joining
    /\ thread_state[Main] = "WAITING" /\ join[Main] = u

Spared ==
  /\ mode # "wild" /\ joined \subseteq Freed
  /\ mode = "on" =>
       /\ Turn /\ Stands /\ Labelled /\ Fresh
       /\ InAppend /\ InSearch /\ InWalk /\ AtWake
       /\ MainWaits /\ MainReturns
       /\ Lists

Between ==
  /\ Inv /\ mode = "on" /\ joined \subseteq Freed
  /\ Turn /\ Stands /\ Labelled /\ Fresh
  /\ InAppend /\ InSearch /\ InWalk /\ AtWake
  /\ MainWaits /\ MainReturns
  /\ Lists

LEMMA Types ==
  ASSUME Inv
  PROVE  /\ number_of_threads \in Tids /\ q \in ListRecord(TcbLists)
         /\ join \in [Tids -> Ptr] /\ priority \in [Tids -> Ranks]
         /\ thread_state \in [Tids -> States] /\ current_thread \in Tids
         /\ exec \in Tids /\ at \in [Tids -> Labels] /\ local \in [Tids -> Locals]
         /\ exit_stack \subseteq Tids /\ Main \in Tids /\ Main # NULL
BY Numbers DEF Inv, TypeOK

LEMMA Made ==
  ASSUME Inv
  PROVE  1 .. number_of_threads \subseteq Tids
<1>1. number_of_threads \in Tids
  BY Types
<1> QED BY <1>1, MaxTidAssumption DEF Tids

(* The lists are as they were when nothing has been done to them.          *)
LEMMA ListsKept ==
  ASSUME Lists, q' = q, Queued' = Queued,
         at[exec] \notin {"first", "link", "tail", "end"},
         at'[exec'] \notin {"first", "link", "tail", "end"}
  PROVE  Lists'
BY DEF Lists, Begun, Half

(* A thread in its own code, or in a call that has not come to its yield.  *)
LEMMA Own ==
  ASSUME Between, at[exec] \notin Switching \cup Appending
                                  \cup {"yield", "requeue", "join"}
  PROVE  /\ thread_state[exec] \in {"RUNNING", "READY"}
         /\ current_thread = exec /\ exec \notin Freed
         /\ ~ Joining
         /\ local[exec].then = "gone" => at[exec] \in {"walk", "wake", "gone"}
<1>1. exec \in Tids /\ Main \in Tids
  BY Types DEF Between
<1>2. Placed(exec) /\ Placed(Main)
  BY <1>1 DEF Between, Labelled
<1>3. Main \notin Freed
  BY DEF Between, MainWaits, Freed
<1>4. ~ Joining
  BY <1>2, <1>3 DEF Joining, Placed, Rested, Appending
<1>5. thread_state[exec] \in {"RUNNING", "READY"} /\ current_thread = exec
  BY <1>4 DEF Between, Stands, Turn, Switching
<1>6. exec \notin Freed
  BY <1>5 DEF Freed
<1> QED BY <1>2, <1>4, <1>5, <1>6 DEF Placed

(* The way of my_pthread_create to its new tcb.                            *)
LEMMA OwnStep ==
  ASSUME Between, exec' = exec,
         at[exec] \in {"user", "lock", "load", "store"},
         at'[exec] \in {"lock", "load", "store", "unlock", "yield"},
         \A t \in Tids \ {exec} : at'[t] = at[t] /\ local'[t] = local[t],
         local'[exec].then = IF at'[exec] = "unlock" THEN "user" ELSE "lock",
         at'[exec] = "unlock" =>
           /\ local'[exec].list = 0
           /\ local'[exec].ptr \in 1 .. number_of_threads'
           /\ thread_state[local'[exec].ptr] = "NONE",
         number_of_threads' \in Tids, number_of_threads <= number_of_threads',
         UNCHANGED <<q, join, priority, thread_state, current_thread, armed,
                     exit_stack, mode, joined>>
  PROVE  Spared'
<1>1. /\ thread_state \in [Tids -> States] /\ exec \in Tids
      /\ Main \in Tids
  BY Types DEF Between
<1>2. Freed' = Freed
  BY DEF Freed
<1>3. /\ thread_state[exec] \in {"RUNNING", "READY"}
      /\ current_thread = exec /\ exec \notin Freed
      /\ ~ Joining /\ local[exec].then # "gone"
  BY Own DEF Switching, Appending
<1>4. /\ \A u \in Tids : Leaving(u)' <=> Leaving(u)
      /\ ~ Joining'
  BY <1>1, <1>3 DEF Joining, Leaving, Appending
<1>5. Turn' /\ Stands'
  BY <1>1, <1>3, <1>4 DEF Between, Turn, Stands, Switching, my
<1>6. Labelled'
  <2> SUFFICES ASSUME NEW u \in Tids PROVE Placed(u)'
    BY DEF Labelled
  <2>1. Placed(u) /\ Placed(exec)
    BY <1>1 DEF Between, Labelled
  <2> QED BY <1>1, <1>2, <1>3, <1>4, <2>1 DEF Placed, Appending, Rested
<1>7. Fresh'
  <2>1. number_of_threads \in Tids /\ \A u \in Tids : u \in Nat
    BY Types, Numbers DEF Between
  <2>2. /\ \A k : k \in 1 .. number_of_threads => k \in 1 .. number_of_threads'
        /\ \A u \in Tids : u > number_of_threads' => u > number_of_threads
    BY <2>1
  <2> QED BY <1>1, <1>3, <2>2 DEF Between, Fresh
<1>8. InAppend' /\ InSearch' /\ InWalk' /\ AtWake'
  BY <1>1, <1>4 DEF Between, InAppend, InSearch, InWalk, AtWake, Appending
<1>9. MainWaits' /\ MainReturns'
  <2>1. MainWaits'
    <3>1. MainWaits /\ Main \in Tids
      BY <1>1 DEF Between
    <3> QED BY <1>3, <1>4, <3>1 DEF MainWaits, Leaving
  <2>2. MainReturns'
    BY <1>1 DEF Between, MainReturns, Switching
  <2> QED BY <2>1, <2>2
<1>10. Lists'
  <2>1. Queued' = Queued
    BY <1>1 DEF Queued, Away, Appending
  <2> QED BY <2>1, ListsKept DEF Between
<1> QED
  BY <1>2, <1>5, <1>6, <1>7, <1>8, <1>9, <1>10 DEF Spared, Between

LEMMA CreateSpared ==
  ASSUME Between, CreateCall \/ LockCount \/ LoadCount \/ StoreCount
  PROVE  Spared'
<1> USE DEF Here, GoTo, counter, tcbs, cpu, history
<1>1. /\ number_of_threads \in Tids /\ thread_state \in [Tids -> States]
      /\ exec \in Tids /\ at \in [Tids -> Labels] /\ local \in [Tids -> Locals]
      /\ Placed(exec) /\ Fresh /\ CountLocked
  BY Types DEF Between, Labelled, Inv
<1>2. CASE CreateCall
  BY <1>1, <1>2, Numbers, OwnStep DEF CreateCall, Locals
<1>3. CASE LockCount
  BY <1>1, <1>3, Numbers, OwnStep DEF LockCount, Locals, Placed
<1>4. CASE LoadCount
  BY <1>1, <1>4, Numbers, OwnStep DEF LoadCount, Locals, Placed
<1>5. CASE StoreCount
  <2>1. /\ my.ptr = number_of_threads + 1 /\ my.ptr \in Tids
        /\ thread_state[my.ptr] = "NONE"
    BY <1>1, <1>5, Numbers DEF StoreCount, CountLocked, my, Fresh
  <2>2. /\ local'[exec].then = "user" /\ local'[exec].list = 0
        /\ local'[exec].ptr = my.ptr
        /\ at'[exec] = "unlock" /\ at[exec] = "store"
        /\ \A t \in Tids \ {exec} : at'[t] = at[t] /\ local'[t] = local[t]
    BY <1>1, <1>5 DEF StoreCount, Locals, my
  <2>3. /\ number_of_threads' = my.ptr /\ number_of_threads' \in Tids
        /\ number_of_threads <= number_of_threads'
        /\ my.ptr \in 1 .. number_of_threads'
    BY <1>1, <1>5, <2>1, Numbers DEF StoreCount
  <2> QED BY <1>5, <2>1, <2>2, <2>3, OwnStep DEF StoreCount
<1> QED BY <1>2, <1>3, <1>4, <1>5

(* The new tcb, which is in no list yet, in its maker's hand.              *)
LEMMA UnlockSpared ==
  ASSUME Between, UnlockCount
  PROVE  Spared'
<1> DEFINE m == my.ptr
<1>1. /\ thread_state \in [Tids -> States] /\ exec \in Tids
      /\ at \in [Tids -> Labels] /\ local \in [Tids -> Locals]
      /\ Main \in Tids /\ priority \in [Tids -> Ranks]
  BY Types DEF Between
<1>2. /\ at[exec] = "unlock" /\ at'[exec] = "test"
      /\ \A t \in Tids \ {exec} : at'[t] = at[t]
      /\ UNCHANGED <<number_of_threads, q, join, priority, current_thread,
                     exec, armed, local, exit_stack, mode, joined>>
  BY <1>1 DEF UnlockCount, Here, GoTo, cpu, history
<1>3. /\ thread_state[exec] \in {"RUNNING", "READY"}
      /\ current_thread = exec /\ exec \notin Freed
      /\ ~ Joining /\ local[exec].then # "gone"
  BY <1>2, Own DEF Switching, Appending
<1>4. /\ m \in Tids /\ thread_state[m] = "NONE" /\ m # exec /\ m # Main
      /\ at[m] = "user" /\ priority[m] = 0
      /\ my.then = "user" /\ my.list = 0
  <2>1. Placed(exec)
    BY <1>1 DEF Between, Labelled
  <2>2. m \in Tids /\ thread_state[m] = "NONE"
    <3>1. m \in 1 .. number_of_threads /\ thread_state[m] = "NONE"
      BY <1>1, <1>2 DEF Between, Fresh, my
    <3>2. number_of_threads \in Tids
      BY Types DEF Between
    <3> HIDE DEF m
    <3> QED BY <3>1, <3>2, MaxTidAssumption DEF Tids
  <2> QED BY <1>1, <1>2, <1>3, <2>1, <2>2 DEF Between, Fresh, MainWaits, Placed, my
<1> HIDE DEF m
<1>5. /\ thread_state'[m] = "READY"
      /\ \A t \in Tids \ {m} : thread_state'[t] = thread_state[t]
      /\ Freed' = Freed
  <2>1. thread_state' = [thread_state EXCEPT ![m] = "READY"]
    BY DEF UnlockCount, m
  <2> QED BY <1>1, <1>4, <2>1 DEF Freed
<1>6. /\ \A u \in Tids : Leaving(u)' <=> Leaving(u)
      /\ ~ Joining'
  <2>1. Main = exec => local[Main].then # "collect"
    BY <1>2, <1>4 DEF my
  <2> QED BY <1>1, <1>2, <1>3, <2>1 DEF Joining, Leaving
<1>7. Turn' /\ Stands'
  BY <1>1, <1>2, <1>3, <1>4, <1>5, <1>6
  DEF Between, Turn, Stands, Switching, my, Appending
<1>8. Labelled'
  <2> SUFFICES ASSUME NEW u \in Tids PROVE Placed(u)'
    BY DEF Labelled
  <2>1. Placed(u) /\ Placed(exec)
    BY <1>1 DEF Between, Labelled
  <2> QED BY <1>1, <1>2, <1>3, <1>5, <1>6, <2>1 DEF Placed, Appending
<1>9. Fresh'
  <2>1. \A u \in Tids \ {exec} : at[u] # "unlock"
    BY <1>1, <1>2 DEF Between, Inv, CountLocked
  <2>2. \A u \in Tids : u > number_of_threads => u # m
    <3>1. m \in 1 .. number_of_threads
      BY <1>1, <1>2 DEF Between, Fresh, m, my
    <3> QED BY <3>1, Types, Numbers DEF Between
  <2> QED BY <1>1, <1>2, <1>3, <1>4, <1>5, <2>1, <2>2 DEF Between, Fresh
<1>10. InAppend' /\ InSearch' /\ InWalk' /\ AtWake'
  <2>1. InAppend'
    BY <1>1, <1>2, <1>4, <1>5 DEF InAppend, Appending, my, m
  <2>2. AtWake'
    BY <1>1, <1>2, <1>4, <1>5, <1>6 DEF Between, AtWake
  <2> QED BY <1>1, <1>2, <2>1, <2>2 DEF InSearch, InWalk
<1>11. MainWaits' /\ MainReturns'
  <2>1. /\ MainWaits /\ ~ Joining'
        /\ join'[Main] = join[Main] /\ q'.head[WaitQueue] = q.head[WaitQueue]
        /\ thread_state'[Main] = thread_state[Main]
    BY <1>1, <1>2, <1>4, <1>5, <1>6 DEF Between
  <2>2. MainWaits'
    <3> SUFFICES ASSUME q.head[WaitQueue] = Main
                 PROVE  /\ join[Main] \in Tids \ {Main}
                        /\ thread_state'[join[Main]] # "NONE"
                        /\ thread_state[Main] = "WAITING" <=> ~ Leaving(join[Main])'
      BY <1>3, <2>1 DEF MainWaits, Leaving
    <3>1. /\ join[Main] \in Tids \ {Main}
          /\ thread_state[join[Main]] # "NONE"
          /\ thread_state[Main] = "WAITING" <=> ~ Leaving(join[Main])
      BY <1>3, <2>1 DEF MainWaits
    <3> QED BY <1>2, <1>4, <1>5, <1>6, <3>1 DEF Leaving
  <2>3. MainReturns'
    BY <1>1, <1>2, <1>4, <1>5 DEF Between, MainReturns, Switching
  <2> QED BY <2>2, <2>3
<1>12. Lists'
  <2>1. Away = {exec} /\ Away' = {exec, m}
    BY <1>2 DEF Away, Appending, m, my
  <2>2. Queued' = Queued
    BY <1>2, <1>4, <1>5, <2>1 DEF Queued
  <2> QED BY <1>2, <2>2, ListsKept DEF Between
<1> QED
  BY <1>2, <1>5, <1>7, <1>8, <1>9, <1>10, <1>11, <1>12 DEF Spared, Between

(* The list an append works on, and the node it appends.                   *)
LEMMA AppendFacts ==
  ASSUME Between, at[exec] \in Appending
  PROVE  /\ my.list \in TcbLists /\ my.ptr \in Tids /\ my.ptr \notin Freed
         /\ Away = {exec, my.ptr}
         /\ \A r \in Ranks : my.ptr \notin Queued[r] /\ exec \notin Queued[r]
         /\ my.list = WaitQueue => my.ptr = Main /\ exec = Main /\ Joining
         /\ my.list # WaitQueue => ~ Joining /\ my.list \in Ranks
         /\ current_thread = exec /\ exec \notin Freed
         /\ Joining => exec = Main
         /\ Joining <=> my.then = "collect"
<1>1. /\ exec \in Tids /\ Main \in Tids /\ priority \in [Tids -> Ranks]
      /\ local \in [Tids -> Locals] /\ WaitQueue \in TcbLists
      /\ WaitQueue \notin Ranks /\ Ranks \subseteq TcbLists
  BY Types, Numbers DEF Between
<1>2. Placed(exec) /\ Placed(Main) /\ Main \notin Freed
  BY <1>1 DEF Between, Labelled, MainWaits, Freed
<1>3. Joining <=> my.then = "collect"
  BY <1>1, <1>2 DEF Joining, Placed, Rested, Appending, my
<1>4. Joining => exec = Main
  BY <1>2, <1>3 DEF Placed, my
<1>5. Away = {exec, my.ptr}
  BY DEF Away, Appending
<1>6. /\ my.ptr \in Tids
      /\ my.list = WaitQueue => my.ptr = Main /\ my.then = "collect"
      /\ my.list # WaitQueue => my.then # "collect" /\ my.list \in Ranks
      /\ thread_state[my.ptr] = "READY" \/ my.ptr = Main
  BY <1>1 DEF Between, InAppend
<1>7. current_thread = exec /\ exec \notin Freed
  <2>1. thread_state[exec] \in {"RUNNING", "READY", "WAITING"}
    BY <1>4 DEF Between, Stands, Appending, Switching
  <2> QED BY <2>1 DEF Between, Turn, Appending, Freed
<1>8. \A r \in Ranks : my.ptr \notin Queued[r] /\ exec \notin Queued[r]
  BY <1>5 DEF Queued
<1>9. my.list \in TcbLists /\ my.ptr \notin Freed
  BY <1>1, <1>2, <1>6 DEF Freed
<1> QED BY <1>3, <1>4, <1>5, <1>6, <1>7, <1>8, <1>9

(* From one label of an append to another.                                 *)
LEMMA AppendStep ==
  ASSUME Between, at[exec] \in Appending, at'[exec] \in Appending,
         exec' = exec, \A t \in Tids \ {exec} : at'[t] = at[t],
         my.list = WaitQueue \/ q'.head[WaitQueue] = q.head[WaitQueue],
         UNCHANGED <<number_of_threads, tcbs, current_thread, armed, local,
                     exit_stack, mode, joined>>,
         Lists'
  PROVE  Spared'
<1>1. /\ thread_state \in [Tids -> States] /\ exec \in Tids /\ Main \in Tids
      /\ UNCHANGED <<join, priority, thread_state>> /\ Freed' = Freed
  BY Types DEF Between, tcbs, Freed
<1>2. /\ my.list = WaitQueue => Joining
      /\ current_thread = exec /\ exec \notin Freed
      /\ Joining => exec = Main
      /\ Placed(exec)
  BY <1>1, AppendFacts DEF Between, Labelled
<1>3. /\ \A u \in Tids : Leaving(u)' <=> Leaving(u)
      /\ Joining' <=> Joining
      /\ my' = my
  BY <1>1, <1>2 DEF Joining, Leaving, Appending, my
<1>4. Turn' /\ Stands'
  BY <1>1, <1>2, <1>3 DEF Between, Turn, Stands, Switching, Appending
<1>5. Labelled'
  <2> SUFFICES ASSUME NEW u \in Tids PROVE Placed(u)'
    BY DEF Labelled
  <2>1. Placed(u)
    BY <1>1 DEF Between, Labelled
  <2> QED BY <1>1, <1>2, <1>3, <2>1 DEF Placed, Appending
<1>6. Fresh'
  <2>1. thread_state[exec] # "NONE"
    BY <1>1, <1>2 DEF Between, Fresh, Appending
  <2> QED BY <1>1, <2>1 DEF Between, Fresh, Appending
<1>7. InAppend' /\ InSearch' /\ InWalk' /\ AtWake'
  BY <1>1, <1>3 DEF Between, InAppend, InSearch, InWalk, AtWake, Appending
<1>8. MainWaits'
  <2>1. MainWaits
    BY DEF Between
  <2>2. Joining => at[Main] # "join"
    BY <1>2 DEF Appending
  <2> QED BY <1>1, <1>2, <1>3, <2>1, <2>2 DEF MainWaits, Leaving
<1>9. MainReturns'
  BY <1>1, <1>2 DEF Between, MainReturns, Switching, Appending, Joining
<1> QED BY <1>1, <1>4, <1>5, <1>6, <1>7, <1>8, <1>9 DEF Spared, Between

LEMMA AppendSpared ==
  ASSUME Between, AppendTest \/ AppendFirst \/ AppendLink \/ AppendTail
  PROVE  Spared'
<1> DEFINE k == my.list
           m == my.ptr
<1>1. /\ exec \in Tids /\ at \in [Tids -> Labels] /\ q \in ListRecord(TcbLists)
      /\ at[exec] \in Appending /\ at'[exec] \in Appending /\ exec' = exec
      /\ at[exec] # "end"
      /\ \A t \in Tids \ {exec} : at'[t] = at[t]
      /\ UNCHANGED <<number_of_threads, tcbs, current_thread, armed, local,
                     exit_stack, joined>>
  <2>1. exec \in Tids /\ at \in [Tids -> Labels] /\ q \in ListRecord(TcbLists)
    BY Types DEF Between
  <2> QED
    BY <2>1 DEF AppendTest, AppendFirst, AppendLink, AppendTail, Here, GoTo,
                cpu, counter, history, Appending, StoreNext
<1>2. /\ k \in TcbLists /\ m \in Tids /\ m \notin Freed
      /\ k = WaitQueue => m = Main
      /\ k # WaitQueue => k \in Ranks
  BY <1>1, AppendFacts
<1>3. PICK l \in ListRecord(TcbLists) : Neat(l, Queued) /\ Begun(l, k, m, at[exec])
  BY DEF Between, Lists
<1>4. Queued' = Queued /\ my' = my
  BY <1>1 DEF Queued, Away, Appending, my, tcbs
<1> HIDE DEF k, m
<1>5. l.head[k] # NULL => l.tail[k] \in Tids /\ l.tail[k] \notin Freed
  <2>1. CASE k \in Ranks
    <3>1. l.head[k] # NULL => l.tail[k] \in Queued[k]
      BY <1>3, <2>1, NeatWalk, QueuedType
    <3> QED BY <2>1, <3>1 DEF Queued, Freed
  <2>2. CASE k = WaitQueue
    BY <1>3, <2>2, Numbers DEF Neat, Between, MainWaits, Freed
  <2> QED BY <1>2, <2>1, <2>2
<1>6. /\ q' = Half(l, k, m, at'[exec])
      /\ at'[exec] = "first" => l.head[k] = NULL
      /\ at'[exec] = "link" => l.head[k] # NULL
      /\ mode' = mode
      /\ k = WaitQueue \/ q'.head[WaitQueue] = q.head[WaitQueue]
  <2>1. CASE AppendTest
    <3>1. at[exec] = "test" /\ q' = q /\ mode' = mode
          /\ at'[exec] = IF q.head[k] = NULL THEN "first" ELSE "link"
      BY <1>1, <2>1 DEF AppendTest, Here, GoTo, k
    <3>2. q = l
      BY <1>3, <3>1 DEF Begun, Half
    <3> QED BY <1>1, <3>1, <3>2 DEF Begun, Half
  <2>2. CASE AppendFirst
    <3>1. /\ at[exec] = "first" /\ q' = [q EXCEPT !.head[k] = m] /\ mode' = mode
          /\ at'[exec] = "tail"
      BY <1>1, <2>2 DEF AppendFirst, Here, GoTo, k, m
    <3>2. q = l /\ l.head[k] = NULL
      BY <1>3, <3>1 DEF Begun, Half
    <3>3. q' = Linked(l, k, m)
      BY <3>1, <3>2 DEF Linked
    <3> QED BY <1>1, <1>2, <3>1, <3>2, <3>3 DEF Begun, Half, ListRecord
  <2>3. CASE AppendLink
    <3>1. /\ at[exec] = "link" /\ StoreNext(k, m)
          /\ at'[exec] = "tail"
      BY <1>1, <2>3 DEF AppendLink, Here, GoTo, k, m
    <3>2. q = l /\ l.head[k] # NULL
      BY <1>3, <3>1 DEF Begun, Half
    <3>3. l.tail[k] # NULL /\ l.tail[k] \notin Freed
      BY <1>5, <3>2, Pointers
    <3>4. mode' = mode /\ q' = [q EXCEPT !.next[q.tail[k]] = m]
      BY <3>1, <3>2, <3>3 DEF StoreNext, Deref
    <3>5. q' = Linked(l, k, m)
      BY <3>2, <3>4 DEF Linked
    <3> QED BY <1>1, <1>2, <3>1, <3>2, <3>4, <3>5 DEF Begun, Half, ListRecord
  <2>4. CASE AppendTail
    <3>1. /\ at[exec] = "tail" /\ q' = [q EXCEPT !.tail[k] = m] /\ mode' = mode
          /\ at'[exec] = "end"
      BY <1>1, <2>4 DEF AppendTail, Here, GoTo, k, m
    <3>2. q = Linked(l, k, m)
      BY <1>3, <3>1 DEF Begun, Half
    <3> QED BY <1>1, <1>2, <3>1, <3>2 DEF Begun, Half, ListRecord
  <2> QED BY <2>1, <2>2, <2>3, <2>4
<1>7. Lists'
  <2>1. Begun(l, my.list, my.ptr, at[exec])'
    BY <1>1, <1>4, <1>6 DEF Begun, k, m
  <2> QED BY <1>3, <1>4, <2>1 DEF Lists
<1> QED BY <1>1, <1>6, <1>7, AppendStep DEF k

(* The store that ends the append puts the node where it belongs.          *)
LEMMA EndSpared ==
  ASSUME Between, AppendEnd
  PROVE  Spared'
<1> DEFINE k == my.list
           m == my.ptr
<1>1. /\ exec \in Tids /\ at \in [Tids -> Labels] /\ q \in ListRecord(TcbLists)
      /\ thread_state \in [Tids -> States] /\ priority \in [Tids -> Ranks]
      /\ Main \in Tids
  BY Types DEF Between
<1>2. /\ at[exec] = "end" /\ StoreNext(k, NULL)
      /\ at'[exec] = IF my.then = "gone" THEN "gone" ELSE "yield"
      /\ \A t \in Tids \ {exec} : at'[t] = at[t]
      /\ UNCHANGED <<number_of_threads, join, priority, thread_state,
                     current_thread, exec, armed, local, exit_stack, joined>>
  BY <1>1 DEF AppendEnd, Here, GoTo, counter, tcbs, cpu, history
<1>3. /\ k \in TcbLists /\ m \in Tids /\ m \notin Freed
      /\ Away = {exec, m}
      /\ \A r \in Ranks : m \notin Queued[r] /\ exec \notin Queued[r]
      /\ k = WaitQueue => m = Main /\ exec = Main /\ Joining
      /\ k # WaitQueue => ~ Joining /\ k \in Ranks
      /\ current_thread = exec /\ exec \notin Freed
      /\ Joining => exec = Main
      /\ Joining <=> my.then = "collect"
  BY <1>2, AppendFacts DEF Appending
<1> HIDE DEF k, m
<1>4. PICK l \in ListRecord(TcbLists) : Neat(l, Queued) /\ Begun(l, k, m, "end")
  BY <1>2 DEF Between, Lists, k, m
<1>5. q' = Enqueue(l, k, m) /\ mode' = mode
  <2>1. q = Half(l, k, m, "end")
    BY <1>4 DEF Begun
  <2>2. q.tail[k] = m /\ [q EXCEPT !.next[q.tail[k]] = NULL] = Enqueue(l, k, m)
    BY <1>3, <1>4, <2>1, HalfEnds
  <2>3. m # NULL
    BY <1>3, Pointers
  <2> QED BY <1>2, <1>3, <2>2, <2>3 DEF StoreNext, Deref
<1>6. /\ Freed' = Freed /\ my' = my /\ Placed(exec)
      /\ \A u \in Tids : Leaving(u)' <=> Leaving(u)
      /\ ~ Joining'
  <2>1. Freed' = Freed /\ my' = my /\ Placed(exec)
    BY <1>1, <1>2 DEF Between, Labelled, Freed, my
  <2>2. \A u \in Tids : Leaving(u)' <=> Leaving(u)
    BY <1>1, <1>2 DEF Leaving
  <2>3. ~ Joining'
    BY <1>1, <1>2, <1>3 DEF Joining, Appending
  <2> QED BY <2>1, <2>2, <2>3
<1>7. Away' = {exec}
  BY <1>2 DEF Away, Appending
<1>8. /\ q'.head[WaitQueue] = IF k = WaitQueue THEN Main ELSE q.head[WaitQueue]
      /\ Neat(q', Queued')
  <2>1. CASE k = WaitQueue
    <3>1. Queued' = Queued
      BY <1>2, <1>3, <1>7, <2>1 DEF Queued
    <3> QED BY <1>3, <1>4, <1>5, <2>1, <3>1, NeatWait, QueuedType
  <2>2. CASE k # WaitQueue
    <3>1. thread_state[m] = "READY" /\ k = priority[m] /\ m # exec
      BY <1>1, <1>2, <1>3, <2>2 DEF Between, InAppend, Appending, k, m
    <3>2. Queued' = [Queued EXCEPT ![k] = @ \cup {m}]
      <4>1. ASSUME NEW r \in Ranks
            PROVE  Queued'[r] = IF r = k THEN Queued[r] \cup {m} ELSE Queued[r]
        BY <1>2, <1>3, <1>7, <3>1, <4>1 DEF Queued
      <4> QED BY <1>3, <2>2, <4>1 DEF Queued
    <3>3. /\ Neat(q', Queued')
          /\ q'.head[WaitQueue] = l.head[WaitQueue]
      BY <1>3, <1>4, <1>5, <2>2, <3>2, NeatEnqueue, QueuedType
    <3>4. q.head[WaitQueue] = l.head[WaitQueue]
      <4>1. q = [Linked(l, k, m) EXCEPT !.tail[k] = m]
        BY <1>4 DEF Begun, Half
      <4> QED BY <1>3, <2>2, <4>1, Numbers DEF Linked, ListRecord
    <3> QED BY <2>2, <3>3, <3>4
  <2> QED BY <2>1, <2>2
<1>9. Lists'
  BY <1>2, <1>8 DEF Lists, Begun, Half, Neat
<1>10. Turn' /\ Stands'
  <2>1. /\ thread_state[exec] \in {"RUNNING", "READY", "WAITING"}
        /\ ~ Joining => thread_state[exec] \in {"RUNNING", "READY"}
    BY <1>2, <1>3 DEF Between, Stands, Switching
  <2> QED BY <1>1, <1>2, <1>3, <1>6, <2>1 DEF Between, Turn, Stands, Switching
<1>11. Labelled'
  <2> SUFFICES ASSUME NEW u \in Tids PROVE Placed(u)'
    BY DEF Labelled
  <2>1. Placed(u)
    BY <1>1 DEF Between, Labelled
  <2> QED BY <1>1, <1>2, <1>3, <1>6, <2>1 DEF Placed, Appending, my
<1>12. Fresh'
  <2>1. thread_state[exec] # "NONE"
    BY <1>1, <1>2 DEF Between, Fresh
  <2> QED BY <1>1, <1>2, <2>1 DEF Between, Fresh
<1>13. InAppend' /\ InSearch' /\ InWalk'
  BY <1>2 DEF InAppend, InSearch, InWalk, Appending
<1>14. MainWaits'
  <2>1. MainWaits /\ (Joining => thread_state[Main] = "WAITING")
    BY DEF Between, Stands
  <2>2. CASE k = WaitQueue
    <3>1. /\ thread_state[Main] = "WAITING" /\ q'.head[WaitQueue] = Main
          /\ join[Main] \in Tids \ {Main} /\ thread_state[join[Main]] = "READY"
      BY <1>2, <1>3, <1>8, <2>1, <2>2 DEF MainWaits
    <3>2. ~ Leaving(join[Main])
      BY <1>3, <2>2, <3>1 DEF Between, Labelled, Placed, Leaving, Freed
    <3> QED BY <1>2, <1>6, <2>1, <3>1, <3>2 DEF MainWaits, Leaving
  <2>3. CASE k # WaitQueue
    <3>1. q'.head[WaitQueue] = q.head[WaitQueue] /\ ~ Joining
      BY <1>3, <1>8, <2>3
    <3> QED BY <1>2, <1>6, <2>1, <3>1 DEF MainWaits, Leaving
  <2> QED BY <2>2, <2>3
<1>15. MainReturns'
  <2>1. MainWaits
    BY DEF Between
  <2>2. CASE exec = Main /\ my.then = "collect"
    BY <1>1, <1>2, <1>3, <1>8, <2>1, <2>2 DEF MainWaits, MainReturns, my
  <2>3. CASE exec # Main
    BY <1>1, <1>2, <1>3, <1>8, <2>3 DEF Between, MainReturns, Switching
  <2>4. CASE exec = Main /\ my.then # "collect"
    BY <1>1, <1>2, <2>4 DEF MainReturns, my
  <2> QED BY <2>2, <2>3, <2>4
<1>16. AtWake'
  BY <1>1, <1>2, <1>6 DEF Between, AtWake
<1> QED
  BY <1>2, <1>5, <1>6, <1>9, <1>10, <1>11, <1>12, <1>13, <1>14, <1>15, <1>16
  DEF Spared, Between

(* A step that changes the running thread's label and locals, and no more  *)
(* of the others' than the frames of threads that are gone.                *)
LEMMA LocalStep ==
  ASSUME Between, exec' = exec,
         at[exec] \notin Switching \cup Appending \cup {"join"},
         at'[exec] \notin Switching \cup Appending \cup {"join", "unlock"},
         at'[exec] = "requeue" => ~ armed',
         at'[exec] = "wake" => /\ local'[exec].ptr = Main /\ join[Main] = exec
                               /\ thread_state[Main] = "WAITING",
         \A t \in Tids \ {exec} :
           /\ local'[t] = local[t]
           /\ at'[t] = at[t] \/ (t \in Freed /\ at'[t] = "smashed"),
         join[Main] = exec /\ q.head[WaitQueue] = Main =>
           (Leaving(exec)' <=> Leaving(exec)),
         UNCHANGED <<number_of_threads, q, join, priority, thread_state,
                     current_thread, mode>>,
         joined' \subseteq Freed, exit_stack' \subseteq exit_stack \cup {exec},
         Placed(exec)', Stands', InSearch', InWalk',
         exec = Main => MainReturns'
  PROVE  Spared'
<1>1. /\ thread_state \in [Tids -> States] /\ exec \in Tids
      /\ Main \in Tids /\ join \in [Tids -> Ptr]
      /\ Freed' = Freed /\ Main \notin Freed
  BY Types DEF Between, Freed, MainWaits
<1>2. /\ current_thread = exec /\ ~ Joining
      /\ thread_state[exec] \in {"RUNNING", "READY", "WAITING", "EXITED"}
      /\ exec \notin Freed
  <2>1. Placed(Main)
    BY <1>1 DEF Between, Labelled
  <2>2. ~ Joining
    BY <1>1, <2>1 DEF Joining, Placed, Rested, Appending
  <2> QED BY <1>1, <2>2 DEF Between, Turn, Stands, Switching, Freed
<1>3. /\ \A u \in Tids \ {exec} : Leaving(u)' <=> Leaving(u)
      /\ ~ Joining'
  <2>1. \A u \in Freed : Leaving(u)
    BY <1>1 DEF Between, Labelled, Placed, Freed
  <2>2. \A u \in Tids \ {exec} : Leaving(u)' <=> Leaving(u)
    BY <1>1, <2>1 DEF Leaving
  <2>3. ~ Joining'
    BY <1>1, <1>2 DEF Joining, Appending
  <2> QED BY <2>2, <2>3
<1>4. Turn'
  BY <1>1, <1>2 DEF Between, Turn, Switching
<1>5. Labelled'
  <2> SUFFICES ASSUME NEW u \in Tids, u # exec PROVE Placed(u)'
    BY DEF Labelled
  <2>1. Placed(u) /\ Placed(exec)'
    BY <1>1 DEF Between, Labelled
  <2>2. at[u] # at'[u] => u \in Freed /\ at'[u] = "smashed"
    OBVIOUS
  <2> QED BY <1>1, <1>3, <2>1, <2>2 DEF Placed
<1>6. Fresh'
  BY <1>1, <1>2 DEF Between, Fresh, Freed
<1>7. InAppend' /\ AtWake'
  BY <1>1, <1>2, <1>3 DEF Between, InAppend, AtWake
<1>8. MainWaits'
  <2>1. MainWaits
    BY DEF Between
  <2>2. join[Main] \in Tids \ {Main} /\ q.head[WaitQueue] = Main =>
          (Leaving(join[Main])' <=> Leaving(join[Main]))
    BY <1>1, <1>3 DEF Leaving
  <2> QED BY <1>1, <1>2, <1>3, <2>1, <2>2 DEF MainWaits, Leaving
<1>9. MainReturns'
  BY <1>1 DEF Between, MainReturns
<1>10. Lists'
  <2>1. Queued' = Queued
    BY <1>1 DEF Queued, Away, Switching
  <2> QED BY <2>1, ListsKept DEF Between, Appending
<1> QED
  BY <1>1, <1>4, <1>5, <1>6, <1>7, <1>8, <1>9, <1>10 DEF Spared, Between

(* Lists that nobody is working on.                                        *)
LEMMA NeatNow ==
  ASSUME Between, at[exec] \notin {"tail", "end"}
  PROVE  Neat(q, Queued)
BY DEF Between, Lists, Begun, Half

LEMMA DisarmSpared ==
  ASSUME Between, Disarm
  PROVE  Spared'
<1>1. /\ exec \in Tids /\ at \in [Tids -> Labels] /\ Placed(exec)
  BY Types DEF Between, Labelled
<1>2. /\ at[exec] = "yield" /\ at'[exec] = "requeue" /\ ~ armed'
      /\ \A t \in Tids \ {exec} : at'[t] = at[t]
      /\ UNCHANGED <<number_of_threads, q, join, priority, thread_state, mode,
                     current_thread, exec, local, exit_stack, joined>>
      /\ Freed' = Freed
  BY <1>1 DEF Disarm, Here, GoTo, StopTimer, counter, tcbs, history, Freed
<1>3. Placed(exec)' /\ (Leaving(exec)' <=> Leaving(exec))
  BY <1>1, <1>2 DEF Placed, Leaving, Appending
<1>4. Stands'
  <2>1. /\ Stands /\ Placed(Main) /\ Main \notin Freed /\ Main \in Tids
    BY Types DEF Between, Labelled, MainWaits, Freed
  <2>2. ~ Joining'
    BY <1>1, <1>2, <2>1 DEF Joining, Placed, Rested, Appending
  <2> QED BY <1>2, <2>1, <2>2 DEF Stands, Switching, my
<1>5. InSearch' /\ InWalk'
  BY <1>2 DEF InSearch, InWalk
<1>6. exec = Main => MainReturns'
  BY <1>1, <1>2 DEF Between, MainReturns, Switching
<1> QED
  BY <1>1, <1>2, <1>3, <1>4, <1>5, <1>6, LocalStep
  DEF Between, Switching, Appending

(* The call of my_pthread_exit, which begins at the head of the WaitQueue. *)
LEMMA ExitSpared ==
  ASSUME Between, NEW returned \in BOOLEAN, ExitCall(returned)
  PROVE  Spared'
<1>1. /\ exec \in Tids /\ at \in [Tids -> Labels] /\ Placed(exec)
      /\ local \in [Tids -> Locals] /\ Main \in Tids
  BY Types DEF Between, Labelled
<1>2. /\ at[exec] = "user" /\ at'[exec] = "walk" /\ exec # Main
      /\ \A t \in Tids \ {exec} :
           at'[t] = at[t] \/ (t \in exit_stack /\ at'[t] = "smashed")
      /\ local' = [local EXCEPT ![exec].ptr = q.head[WaitQueue],
                                ![exec].then = "gone"]
      /\ exit_stack' \subseteq exit_stack \cup {exec}
      /\ UNCHANGED <<number_of_threads, q, join, priority, thread_state, mode,
                     current_thread, exec, joined>>
      /\ Freed' = Freed
  BY <1>1 DEF ExitCall, Here, counter, tcbs, cpu, history, Freed
<1>3. /\ local'[exec].ptr = q.head[WaitQueue] /\ local'[exec].then = "gone"
      /\ \A t \in Tids \ {exec} : local'[t] = local[t]
  BY <1>1, <1>2 DEF Locals
<1>4. \A t \in Tids \ {exec} : t \in exit_stack => t \in Freed
  BY DEF Between, Labelled, Placed
<1>5. /\ thread_state[exec] \in {"RUNNING", "READY"} /\ exec \notin Freed
      /\ ~ Joining /\ local[exec].then # "gone"
  BY <1>2, Own DEF Switching, Appending
<1>6. ~ Leaving(exec)' /\ ~ Leaving(exec)
  BY <1>2, <1>3, <1>5 DEF Leaving
<1>7. Placed(exec)'
  BY <1>1, <1>2, <1>3, <1>5 DEF Placed
<1>8. Stands'
  BY <1>1, <1>2, <1>3, <1>5 DEF Stands, Switching, Joining, Appending
<1>9. InSearch' /\ InWalk'
  <2>1. q.head[WaitQueue] \in {NULL, Main}
    BY <1>2, NeatNow DEF Neat
  <2>2. thread_state[Main] = "WAITING" => q.head[WaitQueue] = Main
    BY <1>5 DEF Between, MainWaits
  <2> QED BY <1>2, <1>3, <2>1, <2>2 DEF InSearch, InWalk, my
<1> QED
  BY <1>2, <1>3, <1>4, <1>6, <1>7, <1>8, <1>9, LocalStep
  DEF Between, Switching, Appending

(* A walk that runs off the end of the WaitQueue has shown that main does  *)
(* not wait, and one that finds a thread has found main.                   *)
LEMMA WalkSpared ==
  ASSUME Between, Walk
  PROVE  Spared'
<1> DEFINE p == my.ptr
<1>1. /\ exec \in Tids /\ at \in [Tids -> Labels] /\ Placed(exec)
      /\ local \in [Tids -> Locals] /\ Main \in Tids /\ p \in Ptr
      /\ InWalk /\ MainWaits
  BY Types, LocalFields DEF Between, Labelled, Inv, my
<1>2. /\ at[exec] = "walk"
      /\ \A t \in Tids \ {exec} : at'[t] = at[t]
      /\ UNCHANGED <<number_of_threads, q, join, priority, thread_state,
                     current_thread, exec, exit_stack, joined>>
      /\ Freed' = Freed
  BY <1>1 DEF Walk, Here, GoTo, counter, tcbs, cpu, history, Freed
<1>3. /\ thread_state[exec] \in {"RUNNING", "READY"} /\ exec \notin Freed
      /\ ~ Joining /\ exec # Main /\ local[exec].then = "gone"
      /\ current_thread = exec /\ Main \notin Freed
  BY <1>1, <1>2, Own DEF Switching, Appending, Placed, MainWaits, Freed
<1>4. p # NULL => p \in Tids /\ p \notin Freed /\ q.head[WaitQueue] = Main
  BY <1>1, <1>2, <1>3, Pointers DEF InWalk, Freed
<1>5. ASSUME at'[exec] \in {"walk", "wake", "gone"}, mode' = mode,
             \A t \in Tids \ {exec} : local'[t] = local[t],
             local'[exec].then = "gone",
             at'[exec] = "gone" => p = NULL,
             at'[exec] = "wake" => /\ local'[exec].ptr = Main
                                   /\ join[Main] = exec
                                   /\ thread_state[Main] = "WAITING",
             InWalk'
      PROVE  Spared'
  <2>1. join[Main] = exec /\ q.head[WaitQueue] = Main =>
          (Leaving(exec)' <=> Leaving(exec))
    <3> SUFFICES ASSUME join[Main] = exec, q.head[WaitQueue] = Main
                 PROVE  Leaving(exec)' <=> Leaving(exec)
      OBVIOUS
    <3>1. ~ Leaving(exec)
      BY <1>2 DEF Leaving
    <3>2. thread_state[Main] = "WAITING"
      BY <1>1, <1>3, <3>1 DEF MainWaits, Leaving
    <3>3. p # NULL
      BY <1>1, <1>2, <3>2, Pointers DEF InWalk
    <3> QED BY <1>2, <1>5, <3>1, <3>3 DEF Leaving
  <2>2. Placed(exec)'
    BY <1>1, <1>2, <1>3, <1>5 DEF Placed
  <2>3. Stands'
    BY <1>1, <1>2, <1>3, <1>5 DEF Stands, Switching, Joining, Appending
  <2>4. InSearch'
    BY <1>2, <1>5 DEF InSearch
  <2> QED
    BY <1>2, <1>3, <1>5, <2>1, <2>2, <2>3, <2>4, LocalStep
    DEF Between, Switching, Appending
<1> HIDE DEF p
<1>6. CASE p = NULL
  <2>1. at'[exec] = "gone" /\ local' = local /\ mode' = mode
    BY <1>1, <1>6 DEF Walk, GoTo, p
  <2> QED BY <1>3, <1>5, <1>6, <2>1, <1>2 DEF InWalk
<1>7. CASE p # NULL /\ join[p] = exec
  <2>1. at'[exec] = "wake" /\ local' = local /\ mode' = mode
    BY <1>1, <1>4, <1>7 DEF Walk, GoTo, p, Deref
  <2>2. p = Main
    <3>1. exec # NULL /\ Placed(p)
      BY <1>1, <1>4, <1>7, Pointers DEF Between, Labelled
    <3> QED BY <1>7, <3>1 DEF Placed
  <2>3. ~ Leaving(exec)
    BY <1>2 DEF Leaving
  <2>4. thread_state[Main] = "WAITING"
    BY <1>1, <1>3, <1>4, <1>7, <2>2, <2>3 DEF MainWaits, Leaving
  <2>5. InWalk'
    BY <1>2, <2>1 DEF InWalk
  <2> QED BY <1>3, <1>5, <1>7, <2>1, <2>2, <2>4, <2>5 DEF p, my
<1>8. CASE p # NULL /\ join[p] # exec
  <2>1. /\ at' = at /\ mode' = mode
        /\ local' = [local EXCEPT ![exec].ptr = q.next[p]]
    BY <1>1, <1>4, <1>7, <1>8 DEF Walk, GoTo, p, Deref
  <2>2. /\ \A t \in Tids \ {exec} : local'[t] = local[t]
        /\ local'[exec].ptr = q.next[p] /\ local'[exec].then = "gone"
    BY <1>1, <1>3, <2>1 DEF Locals
  <2>3. q.next[p] = NULL \/ (q.next[p] # exec /\ thread_state[q.next[p]] = "READY")
    <3>1. q.next[p] = NULL \/ \E r \in Ranks : q.next[p] \in Queued[r]
      BY <1>2, <1>4, <1>8, NeatNow, NeatWalk, QueuedType
    <3>2. exec \in Away
      BY <1>2 DEF Away, Appending
    <3> QED BY <3>1, <3>2 DEF Queued
  <2>4. ~ (thread_state[Main] = "WAITING" /\ join[Main] = exec)
    BY <1>1, <1>2, <1>8, Pointers DEF InWalk, p
  <2>5. InWalk'
    BY <1>2, <1>4, <1>8, <2>2, <2>3, <2>4 DEF InWalk, my
  <2> QED BY <1>2, <1>5, <2>1, <2>2, <2>5
<1> QED BY <1>6, <1>7, <1>8

(* Main's joins.                                                           *)
LEMMA JoinSpared ==
  ASSUME Between, NEW t \in Tids, JoinCall(t)
  PROVE  Spared'
<1>1. /\ exec \in Tids /\ at \in [Tids -> Labels] /\ Placed(exec)
      /\ local \in [Tids -> Locals] /\ Main \in Tids
      /\ thread_state \in [Tids -> States] /\ priority \in [Tids -> Ranks]
  BY Types DEF Between, Labelled
<1>2. /\ at[exec] = "user" /\ at'[exec] = "search" /\ exec = Main
      /\ thread_state[t] # "NONE" /\ t # Main
      /\ \A u \in Tids \ {exec} : at'[u] = at[u] /\ local'[u] = local[u]
      /\ local'[exec] = [list |-> 0, ptr |-> q.head[0], arg |-> t,
                         then |-> "collect"]
      /\ UNCHANGED <<number_of_threads, q, join, priority, thread_state, mode,
                     current_thread, exec, exit_stack, joined>>
      /\ Freed' = Freed
  BY <1>1 DEF JoinCall, Here, GoTo, counter, tcbs, cpu, history, Freed
<1>3. /\ thread_state[exec] \in {"RUNNING", "READY"} /\ exec \notin Freed
      /\ ~ Joining /\ local[exec].then # "gone" /\ current_thread = exec
  BY <1>2, Own DEF Switching, Appending
<1>4. (Leaving(exec)' <=> Leaving(exec)) /\ Placed(exec)'
  BY <1>1, <1>2, <1>3 DEF Leaving, Placed
<1>5. Stands'
  BY <1>1, <1>2, <1>3 DEF Stands, Switching, Joining, Appending
<1>6. InSearch'
  <2>1. thread_state[t] \in {"READY", "FREED"}
    BY <1>1, <1>2, <1>3 DEF Between, Turn, States
  <2>2. Away = {exec} /\ Queued' = Queued
    BY <1>1, <1>2 DEF Away, Queued, Appending, Switching
  <2>3. Members(q, 0) = Queued[0] /\ q.head[0] \in Queued[0] \cup {NULL}
    BY <1>2, NeatNow, NeatWalk, QueuedType, Numbers
  <2>4. thread_state[t] = "READY" =>
          priority[t] > 0 \/ (priority[t] = 0 /\ t \in From(q, q.head[0]))
    <3>1. priority[t] \in {0, 1, 2}
      BY <1>1, Numbers
    <3>2. thread_state[t] = "READY" /\ priority[t] = 0 => t \in Queued[0]
      BY <1>2, <2>2, Numbers DEF Queued
    <3> QED BY <2>3, <3>1, <3>2 DEF Members
  <2> QED BY <1>2, <2>1, <2>2, <2>3, <2>4 DEF InSearch, my
<1>7. InWalk' /\ MainReturns'
  BY <1>2 DEF InWalk, MainReturns, Switching
<1> QED
  BY <1>2, <1>4, <1>5, <1>6, <1>7, LocalStep
  DEF Between, Switching, Appending

LEMMA SearchSpared ==
  ASSUME Between, Search
  PROVE  Spared'
<1> DEFINE p == my.ptr
           i == my.list
           a == my.arg
<1>1. /\ exec \in Tids /\ at \in [Tids -> Labels] /\ Placed(exec)
      /\ local \in [Tids -> Locals] /\ Main \in Tids
      /\ thread_state \in [Tids -> States] /\ priority \in [Tids -> Ranks]
      /\ q \in ListRecord(TcbLists)
  BY Types DEF Between, Labelled
<1>2. /\ at[exec] = "search"
      /\ \A t \in Tids \ {exec} : at'[t] = at[t]
      /\ UNCHANGED <<number_of_threads, q, join, priority, thread_state,
                     current_thread, exec, exit_stack, joined>>
      /\ Freed' = Freed
  BY <1>1 DEF Search, Here, GoTo, counter, tcbs, cpu, history, Freed
<1>3. /\ thread_state[exec] \in {"RUNNING", "READY"} /\ exec \notin Freed
      /\ ~ Joining /\ current_thread = exec
      /\ exec = Main /\ local[exec].then = "collect"
  BY <1>1, <1>2, Own DEF Switching, Appending, Placed
<1>4. /\ a \in Tids \ {Main} /\ thread_state[a] \in {"READY", "FREED"}
      /\ i \in Ranks /\ p \in Queued[i] \cup {NULL}
      /\ thread_state[a] = "READY" =>
           priority[a] > i \/ (priority[a] = i /\ a \in From(q, p))
  BY <1>1, <1>2 DEF Between, InSearch, Inv, LocalsFit, my
<1>5. Away = {exec}
  BY <1>2 DEF Away, Appending
<1>6. \A r \in Ranks : /\ Members(q, r) = Queued[r]
                       /\ q.head[r] \in Queued[r] \cup {NULL}
                       /\ \A t \in Queued[r] : q.next[t] \in Queued[r] \cup {NULL}
  BY <1>2, NeatNow, NeatWalk, QueuedType
<1>7. From(q, NULL) = {}
  BY DEF From
<1>8. p # NULL => p \in Tids /\ p \notin Freed /\ thread_state[p] = "READY"
  BY <1>4 DEF Queued, Freed
<1>9. ASSUME at'[exec] \in {"search", "wait", "collect"}, mode' = mode,
             \A t \in Tids \ {exec} : local'[t] = local[t],
             local'[exec].then = "collect", local'[exec].arg = a,
             at'[exec] = "collect" => thread_state[a] = "FREED",
             at'[exec] = "wait" => thread_state[a] = "READY",
             at'[exec] = "search" =>
               /\ local'[exec].list \in Ranks
               /\ local'[exec].ptr \in Queued[local'[exec].list] \cup {NULL}
               /\ thread_state[a] = "READY" =>
                    \/ priority[a] > local'[exec].list
                    \/ /\ priority[a] = local'[exec].list
                       /\ a \in From(q, local'[exec].ptr)
      PROVE  Spared'
  <2>1. Queued' = Queued
    BY <1>1, <1>2, <1>9 DEF Away, Queued, Appending, Switching
  <2>2. (Leaving(exec)' <=> Leaving(exec)) /\ Placed(exec)'
    BY <1>1, <1>2, <1>3, <1>9 DEF Leaving, Placed
  <2>3. Stands' /\ InWalk'
    BY <1>1, <1>2, <1>3, <1>9 DEF Stands, Switching, Joining, Appending, InWalk
  <2>4. InSearch'
    BY <1>2, <1>4, <1>9, <2>1 DEF InSearch, my
  <2>5. MainReturns'
    BY <1>2, <1>3, <1>4, <1>9 DEF MainReturns, Switching
  <2> QED
    BY <1>2, <1>9, <2>2, <2>3, <2>4, <2>5, LocalStep
    DEF Between, Switching, Appending
<1>10. local[exec].arg = a /\ local[exec].list = i /\ local[exec].ptr = p
  BY DEF my
<1> HIDE DEF p, i, a
<1>11. CASE p = NULL /\ i = MAX_PRIORITY
  <2>1. at'[exec] = "collect" /\ local' = local /\ mode' = mode
    BY <1>1, <1>11 DEF Search, GoTo, p, i
  <2>2. thread_state[a] = "FREED"
    BY <1>1, <1>4, <1>7, <1>11, Numbers DEF MAX_PRIORITY
  <2> QED BY <1>3, <1>9, <1>10, <2>1, <2>2
<1>12. CASE p = NULL /\ i # MAX_PRIORITY
  <2>1. /\ at' = at /\ mode' = mode
        /\ local' = [local EXCEPT ![exec].list = i + 1,
                                  ![exec].ptr = q.head[i + 1]]
    BY <1>1, <1>12 DEF Search, GoTo, p, i
  <2>2. /\ \A t \in Tids \ {exec} : local'[t] = local[t]
        /\ local'[exec].list = i + 1 /\ local'[exec].ptr = q.head[i + 1]
        /\ local'[exec].then = "collect" /\ local'[exec].arg = a
    BY <1>1, <1>3, <1>10, <2>1 DEF Locals
  <2>3. /\ i + 1 \in Ranks /\ q.head[i + 1] \in Queued[i + 1] \cup {NULL}
        /\ Members(q, i + 1) = Queued[i + 1]
    BY <1>4, <1>6, <1>12, Numbers DEF MAX_PRIORITY
  <2>4. thread_state[a] = "READY" =>
          priority[a] > i + 1 \/ (priority[a] = i + 1 /\ a \in From(q, q.head[i + 1]))
    <3> SUFFICES ASSUME thread_state[a] = "READY"
                 PROVE  priority[a] > i + 1 \/ (priority[a] = i + 1
                                               /\ a \in From(q, q.head[i + 1]))
      OBVIOUS
    <3>1. priority[a] > i
      BY <1>4, <1>7, <1>12
    <3>2. priority[a] = i + 1 => a \in Queued[i + 1]
      BY <1>3, <1>4, <1>5, <2>3 DEF Queued
    <3>3. priority[a] > i + 1 \/ priority[a] = i + 1
      BY <1>1, <1>4, <3>1, Numbers
    <3> QED BY <2>3, <3>2, <3>3 DEF Members
  <2> QED BY <1>2, <1>9, <2>1, <2>2, <2>3, <2>4
<1>13. CASE p # NULL /\ p = a
  <2>1. at'[exec] = "wait" /\ local' = local /\ mode' = mode
    BY <1>1, <1>8, <1>13 DEF Search, GoTo, p, a, Deref
  <2> QED BY <1>3, <1>8, <1>9, <1>10, <1>13, <2>1
<1>14. CASE p # NULL /\ p # a
  <2>1. /\ at' = at /\ mode' = mode
        /\ local' = [local EXCEPT ![exec].ptr = q.next[p]]
    BY <1>1, <1>8, <1>14 DEF Search, GoTo, p, a, Deref
  <2>2. /\ \A t \in Tids \ {exec} : local'[t] = local[t]
        /\ local'[exec].list = i /\ local'[exec].ptr = q.next[p]
        /\ local'[exec].then = "collect" /\ local'[exec].arg = a
    BY <1>1, <1>3, <1>10, <2>1 DEF Locals
  <2>3. From(q, p) = {p} \cup From(q, q.next[p])
    BY <1>1, <1>8, <1>14, FromStep
  <2>4. q.next[p] \in Queued[i] \cup {NULL}
    BY <1>4, <1>6, <1>14
  <2> QED BY <1>2, <1>4, <1>9, <1>14, <2>1, <2>2, <2>3, <2>4
<1> QED BY <1>11, <1>12, <1>13, <1>14

(* Main comes back from a join: the thread is gone.                        *)
LEMMA CollectSpared ==
  ASSUME Between, Collect
  PROVE  Spared'
<1> DEFINE a == my.arg
<1>1. /\ exec \in Tids /\ at \in [Tids -> Labels] /\ Placed(exec)
      /\ local \in [Tids -> Locals] /\ Main \in Tids
  BY Types DEF Between, Labelled
<1>2. /\ at[exec] = "collect" /\ at'[exec] = "user"
      /\ \A t \in Tids \ {exec} : at'[t] = at[t]
      /\ local' = [local EXCEPT ![exec].then = "user"]
      /\ joined' = joined \cup {a}
      /\ UNCHANGED <<number_of_threads, q, join, priority, thread_state, mode,
                     current_thread, exec, exit_stack>>
      /\ Freed' = Freed
  BY <1>1 DEF Collect, Here, GoTo, counter, tcbs, cpu, Freed
<1>3. /\ thread_state[exec] \in {"RUNNING", "READY"} /\ exec \notin Freed
      /\ ~ Joining /\ exec = Main /\ local[exec].then = "collect"
  BY <1>1, <1>2, Own DEF Switching, Appending, Placed
<1>4. /\ local'[exec].then = "user"
      /\ \A t \in Tids \ {exec} : local'[t] = local[t]
  BY <1>1, <1>2 DEF Locals
<1>5. a \in Freed
  <2>1. /\ a \in Tids
        /\ thread_state[a] = "FREED"
           \/ (join[Main] = a /\ q.head[WaitQueue] = Main)
    BY <1>2, <1>3 DEF Between, MainReturns, my
  <2>2. CASE join[Main] = a /\ q.head[WaitQueue] = Main
    <3>1. a # Main /\ Leaving(a)
      BY <1>3, <2>2 DEF Between, MainWaits, Leaving
    <3>2. Placed(a)
      BY <2>1 DEF Between, Labelled
    <3> QED BY <1>3, <3>1, <3>2 DEF Placed, Leaving
  <2> QED BY <2>1, <2>2 DEF Freed
<1>6. /\ Leaving(exec)' <=> Leaving(exec)
      /\ Placed(exec)'
  BY <1>1, <1>2, <1>3, <1>4 DEF Leaving, Placed
<1>7. Stands' /\ InSearch' /\ InWalk' /\ MainReturns'
  BY <1>1, <1>2, <1>3, <1>4
  DEF Stands, Switching, Joining, Appending, InSearch, InWalk, MainReturns
<1> QED
  BY <1>2, <1>4, <1>5, <1>6, <1>7, LocalStep
  DEF Between, Switching, Appending

(* Main says that it waits, before it is in the WaitQueue.                 *)
LEMMA WaitSpared ==
  ASSUME Between, Wait
  PROVE  Spared'
<1>1. /\ exec \in Tids /\ at \in [Tids -> Labels] /\ Placed(exec)
      /\ Main \in Tids /\ thread_state \in [Tids -> States]
  BY Types DEF Between, Labelled
<1>2. /\ at[exec] = "wait" /\ at'[exec] = "join"
      /\ \A t \in Tids \ {exec} : at'[t] = at[t]
      /\ thread_state' = [thread_state EXCEPT ![exec] = "WAITING"]
      /\ UNCHANGED <<number_of_threads, q, join, priority, current_thread,
                     exec, armed, local, exit_stack, mode, joined>>
  BY <1>1 DEF Wait, Here, GoTo, counter, cpu, history
<1>3. /\ thread_state[exec] \in {"RUNNING", "READY"} /\ exec \notin Freed
      /\ ~ Joining /\ current_thread = exec
      /\ exec = Main /\ local[exec].then = "collect"
  BY <1>1, <1>2, Own DEF Switching, Appending, Placed
<1>4. /\ thread_state'[Main] = "WAITING"
      /\ \A t \in Tids \ {Main} : thread_state'[t] = thread_state[t]
  BY <1>1, <1>2, <1>3
<1>5. /\ Freed' = Freed /\ Joining'
      /\ \A u \in Tids : Leaving(u)' <=> Leaving(u)
  BY <1>1, <1>2, <1>3, <1>4 DEF Freed, Joining, Leaving
<1>6. Turn' /\ Stands'
  BY <1>1, <1>2, <1>3, <1>4, <1>5 DEF Between, Turn, Stands, Switching
<1>7. Labelled'
  <2> SUFFICES ASSUME NEW u \in Tids PROVE Placed(u)'
    BY DEF Labelled
  <2>1. Placed(u)
    BY <1>1 DEF Between, Labelled
  <2> QED BY <1>1, <1>2, <1>3, <1>5, <2>1 DEF Placed
<1>8. Fresh'
  <2>1. \A u \in Tids : at'[u] = "unlock" =>
          local[u].ptr # Main /\ local[u].ptr \in 1 .. number_of_threads
    BY <1>1, <1>2, <1>3 DEF Between, Fresh
  <2>2. 1 .. number_of_threads \subseteq Tids
    BY Made DEF Between
  <2> QED BY <1>1, <1>2, <1>3, <1>4, <2>1, <2>2 DEF Between, Fresh
<1>9. InAppend' /\ InSearch' /\ InWalk'
  BY <1>1, <1>2, <1>3, <1>4
  DEF Between, InAppend, InSearch, InWalk, Appending, my
<1>10. AtWake'
  BY <1>1, <1>2, <1>3 DEF Between, AtWake
<1>11. MainWaits' /\ MainReturns'
  BY <1>2, <1>3, <1>4, <1>5 DEF MainWaits, MainReturns, Switching
<1>12. Lists'
  <2>1. Away = {Main} /\ Away' = {Main}
    BY <1>2, <1>3 DEF Away, Appending
  <2>2. Queued' = Queued
    BY <1>2, <1>4, <2>1 DEF Queued
  <2> QED BY <1>2, <2>2, ListsKept DEF Between
<1> QED
  BY <1>2, <1>5, <1>6, <1>7, <1>8, <1>9, <1>10, <1>11, <1>12
  DEF Spared, Between

(* ... and for whom.                                                       *)
LEMMA SetJoinSpared ==
  ASSUME Between, SetJoin
  PROVE  Spared'
<1>1. /\ exec \in Tids /\ at \in [Tids -> Labels] /\ Placed(exec)
      /\ local \in [Tids -> Locals] /\ join \in [Tids -> Ptr]
      /\ Main \in Tids /\ thread_state \in [Tids -> States]
  BY Types DEF Between, Labelled
<1>2. /\ at[exec] = "join" /\ at'[exec] = "test"
      /\ \A t \in Tids \ {exec} : at'[t] = at[t]
      /\ join' = [join EXCEPT ![exec] = my.arg]
      /\ local' = [local EXCEPT ![exec].list = WaitQueue, ![exec].ptr = exec]
      /\ UNCHANGED <<number_of_threads, q, priority, thread_state,
                     current_thread, exec, armed, exit_stack, mode, joined>>
      /\ Freed' = Freed
  BY <1>1 DEF SetJoin, Here, GoTo, counter, cpu, history, Freed
<1>3. /\ exec = Main /\ local[exec].then = "collect" /\ Joining
      /\ current_thread = exec /\ thread_state[Main] = "WAITING"
  BY <1>1, <1>2 DEF Between, Placed, Joining, Turn, Stands
<1>4. /\ local'[exec].list = WaitQueue /\ local'[exec].ptr = Main
      /\ local'[exec].then = "collect" /\ local'[exec].arg = my.arg
      /\ \A t \in Tids \ {exec} : local'[t] = local[t]
      /\ join'[Main] = my.arg
      /\ \A t \in Tids \ {Main} : join'[t] = join[t]
  <2>1. WaitQueue \in TcbLists /\ exec \in Ptr
    BY <1>1, Numbers, Pointers
  <2> QED BY <1>1, <1>2, <1>3, <2>1 DEF Locals, my
<1>5. /\ Joining'
      /\ \A u \in Tids : Leaving(u)' <=> Leaving(u)
  BY <1>1, <1>2, <1>3, <1>4 DEF Joining, Leaving, Appending
<1>6. Turn' /\ Stands'
  BY <1>1, <1>2, <1>3, <1>5 DEF Between, Turn, Stands, Switching
<1>7. Labelled'
  <2> SUFFICES ASSUME NEW u \in Tids PROVE Placed(u)'
    BY DEF Labelled
  <2>1. Placed(u)
    BY <1>1 DEF Between, Labelled
  <2> QED BY <1>1, <1>2, <1>3, <1>4, <1>5, <2>1 DEF Placed, Freed
<1>8. Fresh'
  BY <1>1, <1>2, <1>3, <1>4 DEF Between, Fresh
<1>9. InAppend' /\ InSearch' /\ InWalk'
  BY <1>2, <1>3, <1>4 DEF InAppend, InSearch, InWalk, my
<1>10. AtWake'
  BY <1>1, <1>2, <1>3 DEF Between, AtWake
<1>11. MainWaits' /\ MainReturns'
  <2>1. my.arg \in Tids \ {Main} /\ thread_state[my.arg] = "READY"
    BY <1>2 DEF Between, InSearch
  <2> QED
    BY <1>2, <1>3, <1>4, <1>5, <2>1 DEF MainWaits, MainReturns, Switching
<1>12. Lists'
  <2>1. Away = {Main} /\ Away' = {Main}
    BY <1>2, <1>3, <1>4 DEF Away, Appending, my
  <2>2. Queued' = Queued
    BY <1>2, <2>1 DEF Queued
  <2> QED BY <1>2, <2>2, ListsKept DEF Between
<1> QED
  BY <1>2, <1>5, <1>6, <1>7, <1>8, <1>9, <1>10, <1>11, <1>12
  DEF Spared, Between

(* The thread main waits for makes it READY ...                            *)
LEMMA WakeSpared ==
  ASSUME Between, Wake
  PROVE  Spared'
<1>1. /\ exec \in Tids /\ at \in [Tids -> Labels] /\ Placed(exec)
      /\ local \in [Tids -> Locals] /\ priority \in [Tids -> Ranks]
      /\ Main \in Tids /\ thread_state \in [Tids -> States]
      /\ Placed(Main) /\ MainWaits
  BY Types DEF Between, Labelled
<1>2. /\ at[exec] = "wake" /\ at'[exec] = "test"
      /\ \A t \in Tids \ {exec} : at'[t] = at[t]
      /\ thread_state' = [thread_state EXCEPT ![my.ptr] = "READY"]
      /\ local' = [local EXCEPT ![exec].list = priority[my.ptr]]
      /\ UNCHANGED <<number_of_threads, q, join, priority, current_thread,
                     exec, armed, exit_stack, mode, joined>>
  BY <1>1 DEF Wake, Here, GoTo, counter, cpu, history
<1>3. /\ thread_state[exec] \in {"RUNNING", "READY"} /\ exec \notin Freed
      /\ ~ Joining /\ current_thread = exec /\ exec # Main
      /\ local[exec].then = "gone"
  BY <1>1, <1>2, Own DEF Switching, Appending, Placed
<1>4. /\ my.ptr = Main /\ thread_state[Main] = "WAITING" /\ join[Main] = exec
      /\ \A u \in Tids \ {exec} : at[u] # "wake"
  BY <1>1, <1>2 DEF Between, AtWake, my
<1>5. /\ thread_state'[Main] = "READY"
      /\ \A t \in Tids \ {Main} : thread_state'[t] = thread_state[t]
      /\ local'[exec].list = priority[Main] /\ local'[exec].ptr = Main
      /\ local'[exec].then = "gone"
      /\ \A t \in Tids \ {exec} : local'[t] = local[t]
  <2>1. priority[Main] \in TcbLists
    BY <1>1, Numbers
  <2> QED BY <1>1, <1>2, <1>3, <1>4, <2>1 DEF Locals, my
<1>6. Freed' = Freed /\ Main \notin Freed
  BY <1>1, <1>2, <1>4, <1>5 DEF Freed
<1>7. /\ ~ Joining' /\ Leaving(exec)' /\ ~ Leaving(exec)
      /\ \A u \in Tids \ {exec} : Leaving(u)' <=> Leaving(u)
  BY <1>1, <1>2, <1>3, <1>5, <1>6 DEF Joining, Leaving, Placed, Rested, Appending
<1>8. Turn' /\ Stands'
  BY <1>1, <1>2, <1>3, <1>5, <1>7 DEF Between, Turn, Stands, Switching
<1>9. Labelled'
  <2> SUFFICES ASSUME NEW u \in Tids PROVE Placed(u)'
    BY DEF Labelled
  <2>1. Placed(u) /\ \A t \in Freed : Leaving(t)
    BY <1>1 DEF Between, Labelled, Placed, Freed
  <2> QED
    BY <1>1, <1>2, <1>3, <1>5, <1>6, <1>7, <2>1 DEF Placed, Freed, Appending
<1>10. Fresh'
  <2>1. \A u \in Tids : at'[u] = "unlock" =>
          local[u].ptr # Main /\ local[u].ptr \in 1 .. number_of_threads
    BY <1>1, <1>2, <1>4 DEF Between, Fresh
  <2>2. 1 .. number_of_threads \subseteq Tids
    BY Made DEF Between
  <2> QED BY <1>1, <1>2, <1>3, <1>4, <1>5, <2>1, <2>2 DEF Between, Fresh
<1>11. InAppend' /\ InSearch' /\ InWalk'
  BY <1>1, <1>2, <1>3, <1>5 DEF InAppend, InSearch, InWalk, my
<1>12. AtWake'
  BY <1>1, <1>2, <1>4 DEF AtWake
<1>13. MainWaits'
  BY <1>1, <1>2, <1>3, <1>4, <1>5, <1>7 DEF MainWaits, Leaving
<1>14. MainReturns'
  BY <1>1, <1>2, <1>3, <1>4, <1>5 DEF Between, MainReturns
<1>15. Lists'
  <2>1. Away = {exec} /\ Away' = {exec, Main}
    BY <1>2, <1>5 DEF Away, Appending, my
  <2>2. Queued' = Queued
    BY <1>2, <1>4, <1>5, <2>1 DEF Queued
  <2> QED BY <1>2, <2>2, ListsKept DEF Between
<1> QED
  BY <1>2, <1>6, <1>8, <1>9, <1>10, <1>11, <1>12, <1>13, <1>14, <1>15
  DEF Spared, Between

(* ... and is gone.                                                        *)
LEMMA GoneSpared ==
  ASSUME Between, Gone
  PROVE  Spared'
<1>1. /\ exec \in Tids /\ at \in [Tids -> Labels] /\ Placed(exec)
      /\ Main \in Tids /\ thread_state \in [Tids -> States]
      /\ MainWaits
  BY Types DEF Between, Labelled
<1>2. /\ at[exec] = "gone" /\ at'[exec] = "yield"
      /\ \A t \in Tids \ {exec} : at'[t] = at[t]
      /\ thread_state' = [thread_state EXCEPT ![exec] = "EXITED"]
      /\ UNCHANGED <<number_of_threads, q, join, priority, current_thread,
                     exec, armed, local, exit_stack, mode, joined>>
  BY <1>1 DEF Gone, Here, GoTo, counter, cpu, history
<1>3. /\ thread_state[exec] \in {"RUNNING", "READY"} /\ exec \notin Freed
      /\ ~ Joining /\ current_thread = exec /\ exec # Main
      /\ local[exec].then = "gone"
  BY <1>1, <1>2, Own DEF Switching, Appending, Placed
<1>4. /\ thread_state'[exec] = "EXITED"
      /\ \A t \in Tids \ {exec} : thread_state'[t] = thread_state[t]
  BY <1>1, <1>2
<1>5. /\ Freed' = Freed
      /\ \A u \in Tids : Leaving(u)' <=> Leaving(u)
      /\ ~ Joining'
  BY <1>1, <1>2, <1>3, <1>4 DEF Freed, Joining, Leaving
<1>6. Turn' /\ Stands'
  BY <1>1, <1>2, <1>3, <1>4, <1>5 DEF Between, Turn, Stands, Switching, my
<1>7. Labelled'
  <2> SUFFICES ASSUME NEW u \in Tids PROVE Placed(u)'
    BY DEF Labelled
  <2>1. Placed(u)
    BY <1>1 DEF Between, Labelled
  <2> QED BY <1>1, <1>2, <1>3, <1>5, <2>1 DEF Placed
<1>8. Fresh'
  <2>1. \A u \in Tids : at'[u] = "unlock" =>
          local[u].ptr # exec /\ local[u].ptr \in 1 .. number_of_threads
    BY <1>1, <1>2, <1>3 DEF Between, Fresh
  <2>2. 1 .. number_of_threads \subseteq Tids
    BY Made DEF Between
  <2> QED BY <1>1, <1>2, <1>3, <1>4, <2>1, <2>2 DEF Between, Fresh
<1>9. InAppend' /\ InSearch' /\ InWalk'
  BY <1>2 DEF InAppend, InSearch, InWalk, Appending
<1>10. AtWake'
  BY <1>1, <1>2, <1>3, <1>4, <1>5 DEF Between, AtWake
<1>11. MainWaits'
  BY <1>1, <1>2, <1>3, <1>4, <1>5 DEF MainWaits, Leaving
<1>12. MainReturns'
  BY <1>1, <1>2, <1>3, <1>4 DEF Between, MainReturns
<1>13. Lists'
  <2>1. Away = {exec} /\ Away' = {exec}
    BY <1>2 DEF Away, Appending
  <2>2. Queued' = Queued
    BY <1>2, <1>4, <2>1 DEF Queued
  <2> QED BY <1>2, <2>2, ListsKept DEF Between
<1> QED
  BY <1>2, <1>5, <1>6, <1>7, <1>8, <1>9, <1>10, <1>11, <1>12, <1>13
  DEF Spared, Between

(* The next thread becomes the current one ...                             *)
LEMMA TakeOverSpared ==
  ASSUME Between, TakeOver
  PROVE  Spared'
<1> DEFINE m == my.ptr
<1>1. /\ exec \in Tids /\ at \in [Tids -> Labels] /\ Placed(Main)
      /\ Main \in Tids /\ thread_state \in [Tids -> States]
      /\ m \in Tids /\ MainWaits /\ Main \notin Freed
  BY Types DEF Between, Labelled, Inv, LocalsFit, my, TakeOver, Here,
               MainWaits, Freed
<1> HIDE DEF m
<1>2. /\ at[exec] = "armed" /\ at'[exec] = "swap"
      /\ \A t \in Tids \ {exec} : at'[t] = at[t]
      /\ current_thread' = m
      /\ thread_state' = IF exec \in Freed THEN thread_state
                         ELSE [thread_state EXCEPT ![m] = "RUNNING"]
      /\ UNCHANGED <<number_of_threads, q, join, priority, exec, armed, local,
                     exit_stack, mode, joined>>
  BY <1>1 DEF TakeOver, Here, GoTo, counter, history, m
<1>3. /\ thread_state[m] = "READY" /\ my' = my /\ my.ptr = m
      /\ current_thread = exec
      /\ thread_state[exec] \in {"READY", "WAITING", "FREED"}
      /\ \A t \in Tids : /\ thread_state[t] # "RUNNING"
                         /\ thread_state[t] = "WAITING" => t = Main
                         /\ thread_state[t] # "EXITED"
  BY <1>1, <1>2 DEF Between, Turn, Stands, m, my
<1>4. /\ thread_state'[m] \in {"READY", "RUNNING"}
      /\ \A t \in Tids \ {m} : thread_state'[t] = thread_state[t]
      /\ exec # m => thread_state'[exec] = thread_state[exec]
  BY <1>1, <1>2, <1>3
<1>5. /\ Freed' = Freed /\ ~ Joining /\ ~ Joining'
      /\ \A u \in Tids : Leaving(u)' <=> Leaving(u)
  <2>1. Freed' = Freed
    BY <1>3, <1>4 DEF Freed
  <2>2. ~ Joining /\ ~ Joining'
    BY <1>1, <1>2 DEF Joining, Placed, Rested, Appending
  <2>3. \A u \in Tids : Leaving(u)' <=> Leaving(u)
    BY <1>1, <1>2 DEF Leaving
  <2> QED BY <2>1, <2>2, <2>3
<1>6. Turn' /\ Stands'
  <2>1. Turn'
    BY <1>1, <1>2, <1>3, <1>4 DEF Turn
  <2>2. Stands'
    BY <1>1, <1>2, <1>3, <1>4, <1>5 DEF Stands, Switching
  <2> QED BY <2>1, <2>2
<1>7. Labelled'
  <2> SUFFICES ASSUME NEW u \in Tids PROVE Placed(u)'
    BY DEF Labelled
  <2>1. Placed(u)
    BY <1>1 DEF Between, Labelled
  <2> QED BY <1>1, <1>2, <1>5, <2>1 DEF Placed, Appending
<1>8. Fresh'
  <2>1. \A u \in Tids : at'[u] = "unlock" =>
          local[u].ptr # m /\ local[u].ptr \in 1 .. number_of_threads
    BY <1>1, <1>2, <1>3 DEF Between, Fresh
  <2>2. 1 .. number_of_threads \subseteq Tids
    BY Made DEF Between
  <2>3. thread_state[exec] # "NONE"
    BY <1>3
  <2> QED BY <1>1, <1>2, <1>3, <1>4, <2>1, <2>2, <2>3 DEF Between, Fresh
<1>9. InAppend' /\ InSearch' /\ InWalk'
  BY <1>2 DEF InAppend, InSearch, InWalk, Appending
<1>10. AtWake'
  BY <1>1, <1>2, <1>3, <1>4, <1>5 DEF Between, AtWake
<1>11. MainWaits'
  BY <1>1, <1>2, <1>3, <1>4, <1>5 DEF MainWaits, Leaving
<1>12. MainReturns'
  BY <1>1, <1>2, <1>3, <1>4 DEF Between, MainReturns, Switching
<1>13. Lists'
  <2>1. Away = {m} /\ Away' = {m}
    BY <1>2, <1>3 DEF Away
  <2>2. Queued' = Queued
    BY <1>2, <1>4, <2>1 DEF Queued
  <2> QED BY <1>2, <2>2, ListsKept DEF Between
<1> QED
  BY <1>2, <1>5, <1>6, <1>7, <1>8, <1>9, <1>10, <1>11, <1>12, <1>13
  DEF Spared, Between

(* ... and gets the processor, while the last one has left nothing undone. *)
LEMMA SwapSpared ==
  ASSUME Between, SwapContext
  PROVE  Spared'
<1> DEFINE m == my.ptr
<1>1. /\ exec \in Tids /\ at \in [Tids -> Labels] /\ Placed(Main)
      /\ Main \in Tids /\ thread_state \in [Tids -> States]
      /\ m \in Tids /\ MainWaits /\ Main \notin Freed
      /\ Placed(exec) /\ Placed(m) /\ my.then \in Thens
  BY Types, LocalFields
  DEF Between, Labelled, Inv, LocalsFit, my, SwapContext, Here,
      MainWaits, Freed
<1> HIDE DEF m
<1>2. /\ at[exec] = "swap" /\ at'[exec] = my.then
      /\ \A t \in Tids \ {exec} : at'[t] = at[t]
      /\ exec' = m
      /\ UNCHANGED <<number_of_threads, q, join, priority, thread_state,
                     current_thread, armed, local, exit_stack, mode, joined>>
      /\ Freed' = Freed
  BY <1>1 DEF SwapContext, Here, GoTo, counter, tcbs, history, m, Freed
<1>3. /\ thread_state[m] \in {"READY", "RUNNING"} /\ current_thread = m
      /\ thread_state[exec] \in {"READY", "WAITING", "FREED", "RUNNING"}
      /\ m \notin Freed
      /\ \A t \in Tids : /\ thread_state[t] = "RUNNING" => t = m
                         /\ thread_state[t] = "WAITING" => t = Main
                         /\ thread_state[t] # "EXITED"
  BY <1>1, <1>2 DEF Between, Turn, Stands, m, my, Freed
<1>4. /\ exec \notin Freed => my.then \in {"user", "lock", "collect"}
      /\ \A t \in Tids \ Freed : at'[t] \in Rested
  <2>1. exec \notin Freed => my.then # "gone"
    BY <1>1, <1>2 DEF Placed, Appending, my
  <2>2. \A t \in Tids \ Freed : t # exec => at[t] \in Rested
    BY DEF Between, Labelled, Placed
  <2> QED BY <1>1, <1>2, <2>1, <2>2 DEF Thens, Rested
<1>5. /\ ~ Joining /\ ~ Joining'
      /\ \A u \in Tids : Leaving(u)' <=> Leaving(u)
  <2>1. ~ Joining /\ ~ Joining'
    BY <1>1, <1>2, <1>4 DEF Joining, Placed, Rested, Appending
  <2>2. my.then \notin {"walk", "wake"}
    BY <1>1 DEF Thens
  <2>3. \A u \in Tids : Leaving(u)' <=> Leaving(u)
    BY <1>1, <1>2, <2>2 DEF Leaving
  <2> QED BY <2>1, <2>3
<1>6. Turn'
  BY <1>1, <1>2, <1>3, <1>4 DEF Turn, Rested
<1>7. \A u \in Tids \ Freed : local[u].then = "gone" => at'[u] \in {"walk", "wake"}
  <2> SUFFICES ASSUME NEW u \in Tids \ Freed, local[u].then = "gone"
               PROVE  at'[u] \in {"walk", "wake"}
    OBVIOUS
  <2>1. u # exec
    BY <1>4 DEF my
  <2>2. Placed(u)
    BY DEF Between, Labelled
  <2> QED BY <1>2, <2>1, <2>2 DEF Placed
<1>8. Stands'
  <2>1. at'[m] \in Rested /\ (at'[m] = "yield" => local[m].then # "gone")
    BY <1>1, <1>3, <1>4, <1>7
  <2> QED BY <1>2, <1>3, <1>5, <2>1 DEF Stands, Switching, Rested, my
<1>9. Labelled'
  <2> SUFFICES ASSUME NEW u \in Tids PROVE Placed(u)'
    BY DEF Labelled
  <2>1. Placed(u)
    BY <1>1 DEF Between, Labelled
  <2>2. at'[m] \in Rested
    BY <1>1, <1>3, <1>4
  <2>3. u \in exit_stack => u \in Freed
    BY <1>2, <1>4, <2>1 DEF Placed, my
  <2>4. at'[exec] \in {"user", "lock", "gone", "collect"} /\ at'[exec] = local[exec].then
    BY <1>1, <1>2 DEF Thens, my
  <2>5. /\ at'[u] \in {"walk", "wake", "gone"} => local[u].then = "gone"
        /\ at'[u] \in {"search", "wait", "join", "collect"} =>
             local[u].then = "collect"
        /\ at'[u] \in {"lock", "load", "store"} => local[u].then = "lock"
        /\ at'[u] = "unlock" => local[u].then = "user" /\ local[u].list = 0
    BY <1>2, <2>1, <2>4 DEF Placed
  <2> QED
    BY <1>2, <1>4, <1>5, <1>7, <2>1, <2>2, <2>3, <2>5 DEF Placed, Rested
<1>10. Fresh'
  <2>1. thread_state[exec] # "NONE" /\ my.then # "unlock"
    BY <1>1, <1>3 DEF Thens
  <2> QED BY <1>1, <1>2, <2>1 DEF Between, Fresh
<1>11. InAppend' /\ InSearch' /\ InWalk'
  <2>1. at'[m] \in Rested
    BY <1>1, <1>3, <1>4
  <2> QED BY <1>2, <2>1 DEF InAppend, InSearch, InWalk, Appending, Rested
<1>12. AtWake'
  <2>1. my.then # "wake"
    BY <1>1 DEF Thens
  <2> QED BY <1>1, <1>2, <1>5, <2>1 DEF Between, AtWake
<1>13. MainWaits'
  BY <1>1, <1>2, <1>5 DEF MainWaits, Leaving
<1>14. MainReturns'
  BY <1>1, <1>2 DEF Between, MainReturns, Switching
<1>15. Lists'
  <2>1. at'[m] \in Rested
    BY <1>1, <1>3, <1>4
  <2>2. Away = {m} /\ Away' = {m}
    BY <1>2, <2>1 DEF Away, Rested, Appending, m
  <2>3. Queued' = Queued
    BY <1>2, <2>2 DEF Queued
  <2> QED BY <1>2, <2>1, <2>3, ListsKept DEF Between, Rested
<1> QED
  BY <1>2, <1>6, <1>8, <1>9, <1>10, <1>11, <1>12, <1>13, <1>14, <1>15
  DEF Spared, Between

-----------------------------------------------------------------------------
(* The threads that the states S and priorities P put in the run queues.   *)
Waiting(S, P) ==
  [r \in Ranks |-> {t \in Tids : S[t] = "READY" /\ P[t] = r}]

(* Whoever leaves the processor, somebody can take it: the leaving thread  *)
(* itself, main, or the thread main waits for.                             *)
LEMMA SomeoneReady ==
  ASSUME Between, at[exec] \in Rested \cup {"requeue", "pick"},
         NEW S \in [Tids -> States],
         \A t \in Tids \ {exec} : S[t] = thread_state[t],
         S[exec] \in {"READY", "WAITING", "FREED"},
         S[exec] = "WAITING" => thread_state[exec] = "WAITING",
         S[exec] = "FREED" => Leaving(exec)
  PROVE  \E t \in Tids : S[t] = "READY"
<1>1. /\ exec \in Tids /\ Main \in Tids /\ thread_state \in [Tids -> States]
      /\ Placed(Main) /\ MainWaits /\ Main \notin Freed /\ Placed(exec)
  BY Types DEF Between, Labelled, MainWaits, Freed
<1>2. /\ current_thread = exec
      /\ \A t \in Tids \ {exec} : thread_state[t] \notin {"RUNNING", "EXITED"}
      /\ \A t \in Tids : thread_state[t] = "WAITING" => t = Main
  BY <1>1 DEF Between, Turn, Rested
<1>3. ~ Joining
  BY <1>1 DEF Joining, Placed, Rested, Appending
<1>4. Leaving(exec) => exec # Main
  BY <1>1 DEF Placed, Leaving
<1>5. CASE S[exec] = "READY"
  BY <1>1, <1>5
<1>6. CASE S[exec] # "READY" /\ S[Main] = "READY"
  BY <1>1, <1>6
<1>7. CASE S[exec] # "READY" /\ S[Main] # "READY"
  <2>1. thread_state[Main] = "WAITING"
    <3>1. CASE exec = Main
      BY <1>4, <1>7, <3>1
    <3>2. CASE exec # Main
      <4>1. S[Main] = thread_state[Main]
        BY <1>1, <3>2
      <4> QED BY <1>1, <1>2, <1>7, <3>2, <4>1 DEF MainWaits, States
    <3> QED BY <3>1, <3>2
  <2> DEFINE j == join[Main]
  <2>2. /\ j \in Tids \ {Main} /\ thread_state[j] # "NONE" /\ ~ Leaving(j)
    BY <1>1, <1>3, <2>1 DEF MainWaits, Leaving
  <2>3. j # exec
    <3>1. exec # Main => S[exec] = "FREED"
      BY <1>1, <1>2, <1>7
    <3> QED BY <2>2, <3>1 DEF Leaving
  <2>4. j \notin Freed
    BY <2>2 DEF Between, Labelled, Placed
  <2>5. thread_state[j] = "READY"
    BY <1>1, <1>2, <2>2, <2>3, <2>4 DEF States, Freed
  <2> QED BY <2>2, <2>3, <2>5
<1> QED BY <1>5, <1>6, <1>7

(* The top of schedule_threads, for the running thread: what it leaves of  *)
(* the lists, and of them what get_tcb leaves.                             *)
LEMMA LeaveNeat ==
  ASSUME Between, at[exec] \in Rested \cup {"requeue"},
         NEW boosted \in BOOLEAN
  PROVE  LET rank == Ranked(exec, boosted)
             S == [thread_state EXCEPT ![exec] = StateOnLeaving(exec)]
             P == [priority EXCEPT ![exec] = rank]
             l == Left(exec, rank)
         IN  /\ rank \in Ranks
             /\ S \in [Tids -> States] /\ P \in [Tids -> Ranks]
             /\ S[exec] \in {"READY", "WAITING", "FREED"}
             /\ S[exec] = "WAITING" <=> thread_state[exec] = "WAITING"
             /\ S[exec] = "FREED" <=> thread_state[exec] = "EXITED"
             /\ S[exec] = "FREED" =>
                  /\ at[exec] \in {"yield", "requeue"}
                  /\ local[exec].then = "gone"
             /\ Neat(l, Waiting(S, P))
             /\ l.head[WaitQueue] = q.head[WaitQueue]
             /\ Runnable(l)
             /\ ~ LeadsAstray(exec, rank)
<1> DEFINE rank == Ranked(exec, boosted)
           S == [thread_state EXCEPT ![exec] = StateOnLeaving(exec)]
           P == [priority EXCEPT ![exec] = rank]
           l == Left(exec, rank)
<1>1. /\ exec \in Tids /\ priority \in [Tids -> Ranks]
      /\ thread_state \in [Tids -> States] /\ Placed(exec)
  BY Types DEF Between, Labelled
<1>2. rank \in Ranks
  <2>1. priority[exec] \in {0, 1, 2}
    BY <1>1, Numbers
  <2>2. Demoted(0) \in Ranks /\ Demoted(priority[exec]) \in Ranks
    BY <2>1, Numbers DEF Demoted, MAX_PRIORITY
  <2> QED BY <1>1, <2>2, Numbers DEF Ranked
<1> HIDE DEF rank
<1>3. thread_state[exec] \in {"RUNNING", "READY", "WAITING", "EXITED"}
  <2>1. CASE at[exec] \in {"yield", "requeue"}
    BY <2>1 DEF Between, Stands
  <2>2. CASE at[exec] \notin {"yield", "requeue"}
    BY <2>2, Own DEF Rested, Switching, Appending
  <2> QED BY <2>1, <2>2
<1>4. thread_state[exec] = "EXITED" =>
        at[exec] \in {"yield", "requeue"} /\ local[exec].then = "gone"
  <2>1. at[exec] \notin {"yield", "requeue"} => thread_state[exec] # "EXITED"
    BY Own DEF Rested, Switching, Appending
  <2> QED BY <2>1 DEF Between, Stands, my
<1>5. /\ S \in [Tids -> States] /\ P \in [Tids -> Ranks]
      /\ S[exec] \in {"READY", "WAITING", "FREED"}
      /\ S[exec] = "WAITING" <=> thread_state[exec] = "WAITING"
      /\ S[exec] = "FREED" <=> thread_state[exec] = "EXITED"
      /\ \A t \in Tids \ {exec} : S[t] = thread_state[t] /\ P[t] = priority[t]
      /\ P[exec] = rank
      /\ S[exec] = "READY" <=> ~ Leaves(exec)
  BY <1>1, <1>2, <1>3 DEF StateOnLeaving, States, Leaves
<1> HIDE DEF S, P
<1>6. Away = {exec} /\ Neat(q, Queued)
  BY NeatNow DEF Away, Rested, Appending
<1>7. Neat(l, Waiting(S, P)) /\ l.head[WaitQueue] = q.head[WaitQueue]
  <2>1. CASE Leaves(exec)
    <3>1. Waiting(S, P) = Queued
      BY <1>5, <1>6, <2>1 DEF Waiting, Queued
    <3> QED BY <1>6, <2>1, <3>1 DEF Left
  <2>2. CASE ~ Leaves(exec)
    <3>1. \A r \in Ranks : exec \notin Queued[r]
      BY <1>6 DEF Queued
    <3>2. Waiting(S, P) = [Queued EXCEPT ![rank] = @ \cup {exec}]
      <4>1. ASSUME NEW r \in Ranks
            PROVE  Waiting(S, P)[r]
                     = IF r = rank THEN Queued[r] \cup {exec} ELSE Queued[r]
        BY <1>1, <1>5, <1>6, <2>2, <4>1 DEF Waiting, Queued
      <4> QED BY <1>2, <4>1 DEF Waiting, Queued
    <3>3. l = Enqueue(q, rank, exec)
      BY <2>2 DEF Left
    <3>4. /\ Neat(Enqueue(q, rank, exec), [Queued EXCEPT ![rank] = @ \cup {exec}])
          /\ Enqueue(q, rank, exec).head[WaitQueue] = q.head[WaitQueue]
      BY <1>1, <1>2, <1>6, <3>1, NeatEnqueue, QueuedType
    <3> HIDE DEF l
    <3> QED BY <3>2, <3>3, <3>4
  <2> QED BY <2>1, <2>2
<1> HIDE DEF l
<1>8. Runnable(l)
  <2>1. S[exec] = "FREED" => Leaving(exec)
    BY <1>4, <1>5 DEF Leaving
  <2>2. PICK t \in Tids : S[t] = "READY"
    BY <1>5, <2>1, SomeoneReady
  <2>3. P[t] \in Ranks /\ t \in Waiting(S, P)[P[t]]
    BY <1>5, <2>2 DEF Waiting
  <2>4. Waiting(S, P) \in [Ranks -> SUBSET Tids]
    BY DEF Waiting
  <2> QED BY <1>7, <2>3, <2>4, NeatWalk
<1>9. S[exec] = "FREED" =>
        at[exec] \in {"yield", "requeue"} /\ local[exec].then = "gone"
  BY <1>4, <1>5
<1>10. ~ LeadsAstray(exec, rank)
  <2>1. Holds(q, rank, Queued[rank])
    BY <1>2, <1>6 DEF Neat
  <2>2. EnqueueTouches(q, rank) \subseteq Queued[rank]
    BY <2>1 DEF EnqueueTouches, Holds, EndsAtTail
  <2>3. Queued[rank] \cap ({NULL} \cup Freed) = {}
    BY <1>2, Pointers DEF Queued, Freed
  <2> QED BY <2>2, <2>3 DEF LeadsAstray
<1> QED BY <1>2, <1>5, <1>7, <1>8, <1>9, <1>10 DEF l, S, P, rank

(* The running thread goes where it belongs, while the timer is off.       *)
LEMMA RequeueSpared ==
  ASSUME Between, NEW boosted \in BOOLEAN, Requeue(boosted)
  PROVE  Spared'
<1> DEFINE rank == Ranked(exec, boosted)
           S == [thread_state EXCEPT ![exec] = StateOnLeaving(exec)]
           P == [priority EXCEPT ![exec] = rank]
           l == Left(exec, rank)
<1>1. /\ exec \in Tids /\ at \in [Tids -> Labels] /\ Placed(Main)
      /\ priority \in [Tids -> Ranks]
      /\ Main \in Tids /\ thread_state \in [Tids -> States]
      /\ MainWaits /\ Main \notin Freed /\ Placed(exec)
  BY Types DEF Between, Labelled, MainWaits, Freed
<1>2. /\ at[exec] = "requeue" /\ at'[exec] = "pick"
      /\ \A t \in Tids \ {exec} : at'[t] = at[t]
      /\ priority' = P /\ thread_state' = S /\ q' = l
      /\ UNCHANGED <<number_of_threads, join, current_thread, exec, armed,
                     local, exit_stack, joined>>
      /\ mode' = IF LeadsAstray(exec, rank) THEN "wild" ELSE mode
  BY <1>1 DEF Requeue, Here, GoTo, counter, cpu, history
<1>3. /\ rank \in Ranks
      /\ S \in [Tids -> States] /\ P \in [Tids -> Ranks]
      /\ S[exec] \in {"READY", "WAITING", "FREED"}
      /\ S[exec] = "WAITING" <=> thread_state[exec] = "WAITING"
      /\ S[exec] = "FREED" <=> thread_state[exec] = "EXITED"
      /\ S[exec] = "FREED" =>
           /\ at[exec] \in {"yield", "requeue"}
           /\ local[exec].then = "gone"
      /\ Neat(l, Waiting(S, P))
      /\ l.head[WaitQueue] = q.head[WaitQueue]
      /\ mode' = mode
  BY <1>2, LeaveNeat
<1>4. \A t \in Tids \ {exec} : S[t] = thread_state[t] /\ P[t] = priority[t]
  BY <1>1
<1> HIDE DEF S, P, rank, l
<1>5. /\ current_thread = exec /\ ~ armed
      /\ thread_state[exec] \in {"RUNNING", "READY", "WAITING", "EXITED"}
      /\ thread_state[exec] = "EXITED" <=> local[exec].then = "gone"
      /\ \A t \in Tids : /\ thread_state[t] = "RUNNING" => t = exec
                         /\ thread_state[t] = "WAITING" => t = Main
                         /\ thread_state[t] = "EXITED" => t = exec
  BY <1>1, <1>2 DEF Between, Turn, Stands, my
<1>6. /\ ~ Joining /\ ~ Joining'
      /\ \A u \in Tids : Leaving(u)' <=> Leaving(u)
      /\ Freed' = Freed \cup (IF local[exec].then = "gone" THEN {exec} ELSE {})
  <2>1. ~ Joining /\ ~ Joining'
    BY <1>1, <1>2 DEF Joining, Placed, Rested, Appending
  <2>2. \A u \in Tids : Leaving(u)' <=> Leaving(u)
    BY <1>1, <1>2 DEF Leaving
  <2>3. \A t \in Tids : thread_state'[t] = "FREED" <=>
          thread_state[t] = "FREED" \/ (t = exec /\ local[exec].then = "gone")
    BY <1>2, <1>3, <1>4, <1>5
  <2> QED BY <1>1, <2>1, <2>2, <2>3 DEF Freed
<1>7. Turn' /\ Stands'
  <2>1. Turn'
    BY <1>1, <1>2, <1>3, <1>4, <1>5 DEF Turn
  <2>2. Stands'
    BY <1>1, <1>2, <1>3, <1>6 DEF Stands, Switching
  <2> QED BY <2>1, <2>2
<1>8. Labelled'
  <2> SUFFICES ASSUME NEW u \in Tids PROVE Placed(u)'
    BY DEF Labelled
  <2>1. Placed(u)
    BY <1>1 DEF Between, Labelled
  <2>2. u # exec => (u \in Freed' <=> u \in Freed)
    BY <1>6
  <2>3. exec \in Freed' <=> local[exec].then = "gone"
    BY <1>1, <1>5, <1>6 DEF Freed
  <2> QED BY <1>1, <1>2, <1>6, <2>1, <2>2, <2>3 DEF Placed, Leaving
<1>9. Fresh'
  <2>1. \A u \in Tids : at'[u] = "unlock" =>
          local[u].ptr # exec /\ local[u].ptr \in 1 .. number_of_threads
    BY <1>1, <1>2, <1>5 DEF Between, Fresh
  <2>2. 1 .. number_of_threads \subseteq Tids
    BY Made DEF Between
  <2> QED BY <1>1, <1>2, <1>3, <1>4, <1>5, <2>1, <2>2 DEF Between, Fresh
<1>10. InAppend' /\ InSearch' /\ InWalk'
  BY <1>2 DEF InAppend, InSearch, InWalk, Appending
<1>11. AtWake'
  BY <1>1, <1>2, <1>3, <1>4, <1>6 DEF Between, AtWake
<1>12. MainWaits'
  <2>1. /\ thread_state'[Main] \notin {"NONE", "FREED", "EXITED"}
        /\ thread_state'[Main] = "WAITING" <=> thread_state[Main] = "WAITING"
    BY <1>1, <1>2, <1>3, <1>4, <1>5 DEF MainWaits
  <2>2. \A t \in Tids : thread_state[t] # "NONE" => thread_state'[t] # "NONE"
    BY <1>2, <1>3, <1>4
  <2>3. q'.head[WaitQueue] = q.head[WaitQueue]
    BY <1>2, <1>3
  <2> QED BY <1>1, <1>2, <1>6, <2>1, <2>2, <2>3 DEF MainWaits, Leaving
<1>13. MainReturns'
  <2>1. \A t \in Tids : thread_state[t] = "FREED" => thread_state'[t] = "FREED"
    BY <1>2, <1>4, <1>5
  <2> QED BY <1>1, <1>2, <1>3, <2>1 DEF Between, MainReturns, Switching
<1>14. Lists'
  <2>1. Queued' = Waiting(S, P)
    BY <1>2 DEF Queued, Away, Waiting
  <2>2. l \in ListRecord(TcbLists)
    BY <1>3 DEF Neat
  <2> QED BY <1>2, <1>3, <2>1, <2>2 DEF Lists, Begun, Half
<1>15. joined' \subseteq Freed' /\ mode' # "wild"
  BY <1>2, <1>3, <1>6 DEF Between
<1> QED
  BY <1>7, <1>8, <1>9, <1>10, <1>11, <1>12, <1>13, <1>14, <1>15
  DEF Spared, Between

(* get_tcb finds somebody, and a tcb that is still there.                  *)
LEMMA PickSpared ==
  ASSUME Between, Pick
  PROVE  Spared'
<1> DEFINE m == Picked(q)
           d == Dequeue(q, FirstRank(q))
<1>1. /\ exec \in Tids /\ at \in [Tids -> Labels] /\ Placed(Main)
      /\ local \in [Tids -> Locals] /\ Placed(exec)
      /\ Main \in Tids /\ MainWaits /\ Main \notin Freed
  BY Types DEF Between, Labelled, MainWaits, Freed
<1>2. /\ at[exec] = "pick" /\ at'[exec] = "armed" /\ Runnable(q) /\ Deref(m)
      /\ \A t \in Tids \ {exec} : at'[t] = at[t]
      /\ q' = d /\ local' = [local EXCEPT ![exec].ptr = m]
      /\ UNCHANGED <<number_of_threads, join, priority, thread_state,
                     current_thread, exec, exit_stack, joined>>
      /\ Freed' = Freed
  BY <1>1 DEF Pick, Here, GoTo, counter, tcbs, history, Freed
<1>3. /\ FirstRank(q) \in Ranks /\ m \in Queued[FirstRank(q)]
      /\ Neat(d, [r \in Ranks |-> Queued[r] \ {m}])
      /\ d.head[WaitQueue] = q.head[WaitQueue]
  BY <1>2, NeatNow, NeatDequeue, QueuedType
<1> HIDE DEF m, d
<1>4. /\ m \in Tids /\ thread_state[m] = "READY" /\ m \notin Freed
      /\ mode' = mode
  <2>1. m \in Tids /\ thread_state[m] = "READY" /\ m \notin Freed
    BY <1>3 DEF Queued, Freed
  <2> QED BY <1>2, <2>1, Pointers DEF Deref
<1>5. /\ local'[exec].ptr = m
      /\ \A t \in Tids : /\ local'[t].then = local[t].then
                         /\ local'[t].list = local[t].list
                         /\ local'[t].arg = local[t].arg
                         /\ t # exec => local'[t] = local[t]
  BY <1>1, <1>2, <1>4, Pointers DEF Locals
<1>6. /\ ~ Joining /\ ~ Joining'
      /\ \A u \in Tids : Leaving(u)' <=> Leaving(u)
  <2>1. ~ Joining /\ ~ Joining'
    BY <1>1, <1>2, <1>5 DEF Joining, Placed, Rested, Appending
  <2>2. \A u \in Tids : Leaving(u)' <=> Leaving(u)
    BY <1>1, <1>2, <1>5 DEF Leaving
  <2> QED BY <2>1, <2>2
<1>7. Turn' /\ Stands'
  BY <1>1, <1>2, <1>4, <1>5, <1>6 DEF Between, Turn, Stands, Switching, my
<1>8. Labelled'
  <2> SUFFICES ASSUME NEW u \in Tids PROVE Placed(u)'
    BY DEF Labelled
  <2>1. Placed(u)
    BY <1>1 DEF Between, Labelled
  <2> QED BY <1>1, <1>2, <1>5, <1>6, <2>1 DEF Placed, Appending
<1>9. Fresh'
  BY <1>1, <1>2, <1>4, <1>5 DEF Between, Fresh
<1>10. InAppend' /\ InSearch' /\ InWalk'
  BY <1>2 DEF InAppend, InSearch, InWalk, Appending
<1>11. AtWake'
  BY <1>1, <1>2, <1>5, <1>6 DEF Between, AtWake
<1>12. MainWaits'
  BY <1>1, <1>2, <1>3, <1>6 DEF MainWaits, Leaving
<1>13. MainReturns'
  BY <1>1, <1>2, <1>3, <1>5 DEF Between, MainReturns, Switching
<1>14. Lists'
  <2>1. Away = {} /\ Away' = {m}
    BY <1>2, <1>5 DEF Away, my
  <2>2. Queued' = [r \in Ranks |-> Queued[r] \ {m}]
    BY <1>2, <2>1 DEF Queued
  <2>3. d \in ListRecord(TcbLists)
    BY <1>3 DEF Neat
  <2> QED BY <1>2, <1>3, <2>2, <2>3 DEF Lists, Begun, Half
<1> QED
  BY <1>2, <1>4, <1>7, <1>8, <1>9, <1>10, <1>11, <1>12, <1>13, <1>14
  DEF Spared, Between

LEMMA NeverNone ==
  ASSUME Between
  PROVE  ~ PickNone /\ ~ Smashed
<1>1. exec \in Tids /\ Placed(exec) /\ thread_state \in [Tids -> States]
  BY Types DEF Between, Labelled
<1>2. ~ Smashed
  BY <1>1 DEF Smashed, Here, Placed
<1>3. ASSUME PickNone PROVE FALSE
  <2>1. at[exec] = "pick" /\ ~ Runnable(q)
    BY <1>3 DEF PickNone, Here
  <2>2. thread_state[exec] \in {"READY", "WAITING", "FREED"}
    BY <2>1 DEF Between, Stands
  <2>3. thread_state[exec] = "FREED" => Leaving(exec)
    BY <1>1 DEF Placed, Freed
  <2>4. PICK t \in Tids : thread_state[t] = "READY"
    BY <1>1, <2>1, <2>2, <2>3, SomeoneReady
  <2>5. priority[t] \in Ranks /\ t \in Queued[priority[t]]
    BY <2>1, <2>4, Types DEF Between, Queued, Away
  <2> QED BY <2>1, <2>5, NeatNow, NeatWalk, QueuedType
<1> QED BY <1>2, <1>3

(* The timer strikes a thread that is doing nothing to the lists.          *)
LEMMA TickSpared ==
  ASSUME Between, NEW boosted \in BOOLEAN, Tick(boosted), ~ Fragile
  PROVE  Spared'
<1> DEFINE rank == Ranked(exec, boosted)
           S == [thread_state EXCEPT ![exec] = StateOnLeaving(exec)]
           P == [priority EXCEPT ![exec] = rank]
           l == Left(exec, rank)
           m == Picked(l)
           d == Dequeue(l, FirstRank(l))
<1>1. /\ exec \in Tids /\ at \in [Tids -> Labels] /\ Placed(Main)
      /\ priority \in [Tids -> Ranks] /\ Placed(exec)
      /\ Main \in Tids /\ thread_state \in [Tids -> States]
      /\ MainWaits /\ Main \notin Freed
  BY Types DEF Between, Labelled, MainWaits, Freed
<1>2. /\ at[exec] \in Rested /\ exec \notin exit_stack
      /\ current_thread = exec
  <2>1. armed
    BY DEF Tick
  <2>2. at[exec] \notin {"requeue", "pick", "smashed"}
    BY <1>1, <2>1 DEF Between, Turn, Placed
  <2>3. at[exec] \in Rested /\ exec \notin exit_stack
    BY <1>1, <2>2 DEF Fragile, Labels, Rested, Appending
  <2> QED BY <2>3 DEF Between, Turn, Rested
<1>3. /\ rank \in Ranks
      /\ S \in [Tids -> States] /\ P \in [Tids -> Ranks]
      /\ S[exec] \in {"READY", "WAITING", "FREED"}
      /\ S[exec] = "WAITING" <=> thread_state[exec] = "WAITING"
      /\ S[exec] = "FREED" <=> thread_state[exec] = "EXITED"
      /\ S[exec] = "FREED" =>
           /\ at[exec] \in {"yield", "requeue"}
           /\ local[exec].then = "gone"
      /\ Neat(l, Waiting(S, P))
      /\ l.head[WaitQueue] = q.head[WaitQueue]
      /\ Runnable(l) /\ ~ LeadsAstray(exec, rank)
  BY <1>2, LeaveNeat
<1>4. /\ \A t \in Tids \ {exec} : S[t] = thread_state[t] /\ P[t] = priority[t]
      /\ thread_state[exec] = "EXITED" => S = [thread_state EXCEPT ![exec] = "FREED"]
  BY <1>1 DEF StateOnLeaving
<1> HIDE DEF S, P, rank, l
<1>5. /\ m \in Tids /\ S[m] = "READY"
      /\ Neat(d, [r \in Ranks |-> Waiting(S, P)[r] \ {m}])
      /\ d.head[WaitQueue] = q.head[WaitQueue]
  <2>1. /\ Waiting(S, P) \in [Ranks -> SUBSET Tids]
        /\ Disjoint(Waiting(S, P))
    BY DEF Waiting, Disjoint
  <2>2. /\ FirstRank(l) \in Ranks /\ m \in Waiting(S, P)[FirstRank(l)]
        /\ Neat(d, [r \in Ranks |-> Waiting(S, P)[r] \ {m}])
        /\ d.head[WaitQueue] = l.head[WaitQueue]
    BY <1>3, <2>1, NeatDequeue
  <2> HIDE DEF m, d
  <2> QED BY <1>3, <2>2 DEF Waiting
<1>6. /\ priority' = P /\ mode' \in Outcomes(exec, rank, l)
      /\ q' = d /\ current_thread' = m /\ exec' = m
      /\ thread_state' = IF thread_state[exec] = "EXITED"
                         THEN [thread_state EXCEPT ![exec] = "FREED"]
                         ELSE [thread_state EXCEPT
                                 ![exec] = StateOnLeaving(exec),
                                 ![m] = "RUNNING"]
      /\ UNCHANGED <<number_of_threads, join, armed, at, local, exit_stack,
                     joined>>
  BY <1>2, <1>3 DEF Tick, counter, P, rank, l
<1> HIDE DEF m, d
<1>7. \A t \in Tids :
        thread_state'[t] = IF t = m /\ thread_state[exec] # "EXITED"
                           THEN "RUNNING" ELSE S[t]
  <2>1. CASE thread_state[exec] = "EXITED"
    BY <1>4, <1>6, <2>1
  <2>2. CASE thread_state[exec] # "EXITED"
    <3>1. thread_state' = [S EXCEPT ![m] = "RUNNING"]
      BY <1>6, <2>2 DEF S
    <3> QED BY <1>3, <1>5, <2>2, <3>1
  <2> QED BY <2>1, <2>2
<1>8. /\ thread_state[exec] \in {"RUNNING", "READY", "WAITING", "EXITED"}
      /\ local[exec].then = "gone" =>
           thread_state[exec] = "EXITED" \/ at[exec] \in {"walk", "wake"}
      /\ \A t \in Tids : /\ thread_state[t] = "RUNNING" => t = exec
                         /\ thread_state[t] = "WAITING" => t = Main
                         /\ thread_state[t] = "EXITED" => t = exec
  <2>1. CASE at[exec] = "yield"
    BY <1>1, <1>2, <2>1 DEF Between, Turn, Stands, my
  <2>2. CASE at[exec] # "yield"
    <3>1. /\ thread_state[exec] \in {"RUNNING", "READY"}
          /\ local[exec].then = "gone" => at[exec] \in {"walk", "wake", "gone"}
      BY <1>2, <2>2, Own DEF Rested, Switching, Appending
    <3> QED BY <1>1, <1>2, <3>1 DEF Between, Turn, Rested
  <2> QED BY <2>1, <2>2
<1>9. /\ thread_state'[m] \in {"READY", "RUNNING"}
      /\ \A t \in Tids :
           /\ thread_state'[t] = "RUNNING" => t = m
           /\ thread_state'[t] = "WAITING" <=> thread_state[t] = "WAITING"
           /\ thread_state'[t] # "EXITED"
           /\ thread_state'[t] = "NONE" <=> thread_state[t] = "NONE"
           /\ thread_state'[t] = "FREED" <=>
                \/ thread_state[t] = "FREED"
                \/ (t = exec /\ thread_state[t] = "EXITED")
           /\ t # m => (thread_state'[t] = "READY" <=> S[t] = "READY")
  <2>1. \A t \in Tids : t # exec => S[t] = thread_state[t]
    BY <1>4
  <2> QED BY <1>3, <1>5, <1>7, <1>8, <2>1
<1>10. /\ Freed' = Freed \cup {t \in {exec} : thread_state[t] = "EXITED"}
       /\ m \notin Freed' /\ m \notin Freed
  BY <1>1, <1>5, <1>9 DEF Freed
<1>11. mode' = "on"
  <2>1. exec \notin Freed
    BY <1>8 DEF Freed
  <2>2. m \notin NoTcb(exec)
    BY <1>3, <1>5, <1>10 DEF NoTcb
  <2>3. ~ ReadsFresh
    BY <1>2 DEF ReadsFresh, Rested
  <2> QED BY <1>3, <1>6, <2>1, <2>2, <2>3 DEF Outcomes, m
<1>12. /\ ~ Joining /\ ~ Joining'
       /\ \A u \in Tids : Leaving(u)' <=> Leaving(u)
  <2>1. ~ Joining
    BY <1>1, <1>2 DEF Joining, Placed, Rested, Appending
  <2> QED BY <1>6, <2>1 DEF Joining, Leaving
<1>13. at[m] \in Rested /\ (at[m] = "yield" => local[m].then # "gone")
  <2>1. Placed(m)
    BY <1>5 DEF Between, Labelled
  <2>2. m = exec => thread_state[exec] # "EXITED"
    BY <1>3, <1>5
  <2> QED BY <1>2, <1>8, <1>10, <2>1, <2>2 DEF Placed
<1>14. Turn' /\ Stands'
  <2>1. Turn'
    BY <1>6, <1>9, <1>13 DEF Between, Turn, Rested
  <2>2. Stands'
    BY <1>6, <1>9, <1>12, <1>13 DEF Stands, Switching, Rested, my
  <2> QED BY <2>1, <2>2
<1>15. Labelled'
  <2> SUFFICES ASSUME NEW u \in Tids PROVE Placed(u)'
    BY DEF Labelled
  <2>1. Placed(u)
    BY <1>1 DEF Between, Labelled
  <2>2. /\ u # exec => (u \in Freed' <=> u \in Freed)
        /\ u = exec => (u \in Freed' <=> thread_state[exec] = "EXITED")
        /\ u = exec => u \notin Freed
    BY <1>1, <1>8, <1>10 DEF Freed
  <2>3. u \in Freed' => Leaving(u)
    BY <1>3, <2>1, <2>2 DEF Placed, Leaving
  <2>4. u # m /\ u \notin Freed' => at[u] \in Rested
    BY <1>2, <2>1, <2>2 DEF Placed
  <2>5. at[m] # "smashed"
    BY <1>13 DEF Rested
  <2>6. local[u].then = "gone" =>
          u # Main /\ (at[u] \in {"walk", "wake"} \/ u \in Freed')
    BY <1>8, <2>1, <2>2 DEF Placed
  <2>7. u \in exit_stack => u \in Freed'
    BY <1>2, <2>1, <2>2 DEF Placed
  <2> QED
    BY <1>6, <1>12, <2>1, <2>3, <2>4, <2>5, <2>6, <2>7 DEF Placed
<1>16. Fresh'
  <2>1. 1 .. number_of_threads \subseteq Tids
    BY Made DEF Between
  <2>2. thread_state[exec] # "NONE"
    BY <1>8
  <2> QED BY <1>1, <1>4, <1>6, <1>9, <2>1, <2>2 DEF Between, Fresh
<1>17. InAppend' /\ InSearch' /\ InWalk'
  BY <1>6, <1>13 DEF InAppend, InSearch, InWalk, Appending, Rested
<1>18. AtWake'
  BY <1>1, <1>6, <1>9, <1>12 DEF Between, AtWake
<1>19. MainWaits'
  <2>1. thread_state'[Main] \notin {"NONE", "FREED", "EXITED"}
    BY <1>1, <1>9 DEF MainWaits
  <2>2. q'.head[WaitQueue] = q.head[WaitQueue]
    BY <1>5, <1>6
  <2> QED BY <1>1, <1>6, <1>9, <1>12, <2>1, <2>2 DEF MainWaits, Leaving
<1>20. MainReturns'
  BY <1>5, <1>6, <1>9 DEF Between, MainReturns
<1>21. Lists'
  <2>1. Away' = {m}
    BY <1>6, <1>13 DEF Away, Rested, Appending
  <2>2. Queued' = [r \in Ranks |-> Waiting(S, P)[r] \ {m}]
    BY <1>6, <1>9, <2>1 DEF Queued, Waiting
  <2>3. d \in ListRecord(TcbLists)
    BY <1>5 DEF Neat
  <2>4. at'[exec'] \notin {"first", "link", "tail", "end"}
    BY <1>6, <1>13 DEF Rested
  <2> QED BY <1>5, <1>6, <2>2, <2>3, <2>4 DEF Lists, Begun, Half
<1> QED
  BY <1>6, <1>10, <1>11, <1>14, <1>15, <1>16, <1>17, <1>18, <1>19, <1>20, <1>21
  DEF Spared, Between

-----------------------------------------------------------------------------
LEMMA InitSpared == Init => Spared
<1> SUFFICES ASSUME Init PROVE Spared
  OBVIOUS
<1> USE Numbers
<1>1. /\ number_of_threads = 1 /\ q = EmptyLists(TcbLists)
      /\ \A t \in Tids \ {Main} : join[t] = NULL
      /\ \A t \in Tids : /\ priority[t] = 0
                         /\ thread_state[t] = IF t = Main THEN "RUNNING" ELSE "NONE"
                         /\ at[t] = IF t = Main THEN "lock" ELSE "user"
                         /\ local[t].then = at[t]
      /\ current_thread = Main /\ exec = Main
      /\ exit_stack = {} /\ mode = "on" /\ joined = {}
  BY DEF Init
<1>2. Turn /\ Stands /\ Labelled
  BY <1>1 DEF Turn, Stands, Labelled, Placed, Switching, Joining, Appending,
              Freed, my, Rested
<1>3. Fresh
  BY <1>1 DEF Fresh, Main
<1>4. InAppend /\ InSearch /\ InWalk /\ AtWake /\ MainReturns
  BY <1>1 DEF InAppend, InSearch, InWalk, AtWake, MainReturns, Appending,
              Switching
<1>5. /\ q \in ListRecord(TcbLists)
      /\ \A k \in TcbLists : q.head[k] = NULL /\ q.tail[k] = NULL
      /\ \A t \in Tids : q.next[t] = NULL
  BY <1>1, Pointers DEF EmptyLists, ListRecord
<1>6. MainWaits
  BY <1>1, <1>5 DEF MainWaits, Joining, Appending
<1>7. Lists
  <2>1. \A r \in Ranks : Queued[r] = {}
    BY <1>1 DEF Queued
  <2>2. \A k \in TcbLists : Members(q, k) = {} /\ EndsAtTail(q, k)
    BY <1>5 DEF Members, From, EndsAtTail
  <2>3. Acyclic(q)
    BY <1>5, Pointers DEF Acyclic
  <2>4. \A r \in Ranks : r \in TcbLists /\ Holds(q, r, Queued[r])
    BY <2>1, <2>2 DEF Holds, TcbLists
  <2>5. Neat(q, Queued)
    BY <1>5, <2>3, <2>4 DEF Neat
  <2> QED BY <1>1, <1>5, <2>5 DEF Lists, Begun, Half
<1> QED BY <1>1, <1>2, <1>3, <1>4, <1>6, <1>7 DEF Spared

LEMMA SparedKept ==
  ASSUME Spared, UNCHANGED vars
  PROVE  Spared'
<1> USE DEF vars, counter, tcbs, cpu, history
<1>1. Freed' = Freed /\ my' = my /\ (Joining' <=> Joining)
  BY DEF Freed, my, Joining
<1>2. Queued' = Queued
  BY <1>1 DEF Queued, Away
<1>3. Turn /\ Stands => Turn' /\ Stands'
  BY <1>1 DEF Turn, Stands
<1>4. Labelled => Labelled'
  BY <1>1 DEF Labelled, Placed, Leaving
<1>5. Fresh /\ InAppend /\ InSearch /\ InWalk /\ AtWake
        => Fresh' /\ InAppend' /\ InSearch' /\ InWalk' /\ AtWake'
  BY <1>1, <1>2 DEF Fresh, InAppend, InSearch, InWalk, AtWake
<1>6. MainWaits /\ MainReturns => MainWaits' /\ MainReturns'
  BY <1>1 DEF MainWaits, MainReturns, Leaving
<1>7. Lists => Lists'
  BY <1>1, <1>2 DEF Lists, Begun
<1> QED BY <1>1, <1>3, <1>4, <1>5, <1>6, <1>7 DEF Spared

LEMMA NextSpared ==
  Inv /\ (torn = 0 => Spared) /\ [Next]_vars => (torn' = 0 => Spared')
<1> SUFFICES ASSUME Inv, torn = 0 => Spared, [Next]_vars, torn' = 0
             PROVE  Spared'
  OBVIOUS
<1>1. CASE UNCHANGED vars
  BY <1>1, SparedKept DEF vars, history
<1>2. CASE Next
  <2>1. torn = 0 /\ \A boosted \in BOOLEAN : Tick(boosted) => ~ Fragile
    <3>1. torn \in Nat
      BY MaxTornAssumption DEF Inv, TypeOK
    <3>2. ASSUME NEW boosted \in BOOLEAN, Tick(boosted)
          PROVE  torn = 0 /\ ~ Fragile
      BY <3>1, <3>2 DEF Tick
    <3>3. (\A boosted \in BOOLEAN : ~ Tick(boosted)) => torn' = torn
      BY <1>2
      DEF Next, history, CreateCall, LockCount, LoadCount, StoreCount,
          UnlockCount, AppendTest, AppendFirst, AppendLink, AppendTail,
          AppendEnd, Disarm, PickNone, Pick, TakeOver, SwapContext, Smashed,
          Walk, Wake, Gone, Search, Wait, SetJoin, Collect, Requeue, ExitCall,
          JoinCall
    <3> QED BY <3>2, <3>3
  <2>2. Between
    <3>1. mode = "on"
      BY <1>2
      DEF Next, Here, Tick, CreateCall, LockCount, LoadCount, StoreCount,
          UnlockCount, AppendTest, AppendFirst, AppendLink, AppendTail,
          AppendEnd, Disarm, PickNone, Pick, TakeOver, SwapContext, Smashed,
          Walk, Wake, Gone, Search, Wait, SetJoin, Collect, Requeue, ExitCall,
          JoinCall
    <3> QED BY <2>1, <3>1 DEF Spared, Between
  <2>3. CASE CreateCall \/ LockCount \/ LoadCount \/ StoreCount \/ UnlockCount
    BY <2>2, <2>3, CreateSpared, UnlockSpared
  <2>4. CASE AppendTest \/ AppendFirst \/ AppendLink \/ AppendTail \/ AppendEnd
    BY <2>2, <2>4, AppendSpared, EndSpared
  <2>5. CASE Disarm \/ PickNone \/ Pick \/ TakeOver \/ SwapContext
    BY <2>2, <2>5, DisarmSpared, NeverNone, PickSpared, TakeOverSpared,
       SwapSpared
  <2>6. CASE Smashed \/ Walk \/ Wake \/ Gone
    BY <2>2, <2>6, NeverNone, WalkSpared, WakeSpared, GoneSpared
  <2>7. CASE Search \/ Wait \/ SetJoin \/ Collect
    BY <2>2, <2>7, SearchSpared, WaitSpared, SetJoinSpared, CollectSpared
  <2>8. CASE \E boosted \in BOOLEAN : Requeue(boosted) \/ Tick(boosted)
    BY <2>1, <2>2, <2>8, RequeueSpared, TickSpared
  <2>9. CASE \E returned \in BOOLEAN : ExitCall(returned)
    BY <2>2, <2>9, ExitSpared
  <2>10. CASE \E t \in Tids : JoinCall(t)
    BY <2>2, <2>10, JoinSpared
  <2> QED
    BY <1>2, <2>3, <2>4, <2>5, <2>6, <2>7, <2>8, <2>9, <2>10 DEF Next
<1> QED BY <1>1, <1>2

LEMMA SparedSafe == Inv /\ Spared => NobodyStranded /\ JoinWaits
<1> SUFFICES ASSUME Inv, Spared PROVE NobodyStranded /\ JoinWaits
  OBVIOUS
<1>1. JoinWaits
  BY DEF Spared, JoinWaits, Freed
<1>2. ASSUME mode = "on", NEW t \in Tids \ InHand
      PROVE  IF t = exec
             THEN at[t] \notin {"pick", "armed", "swap"} =>
                    \A r \in Ranks : t \notin Members(q, r)
             ELSE /\ thread_state[t] = "READY" => t \in Members(q, priority[t])
                  /\ thread_state[t] = "WAITING" =>
                       /\ t \in Members(q, WaitQueue)
                       /\ thread_state[join[t]] \notin {"NONE", "FREED"}
  <2>1. Between
    BY <1>2 DEF Spared, Between
  <2>2. /\ exec \in Tids /\ Main \in Tids /\ priority \in [Tids -> Ranks]
        /\ q \in ListRecord(TcbLists) /\ Placed(Main) /\ MainWaits
        /\ Main \notin Freed
    BY <2>1, Types DEF Between, Labelled, MainWaits, Freed
  <2>3. at[exec] \in Appending \cup {"armed", "swap"} => t # my.ptr
    BY <1>2, <2>2 DEF InHand, my
  <2>4. ASSUME NEW r \in Ranks
        PROVE  /\ Queued[r] \subseteq Members(q, r)
               /\ t \in Members(q, r) => t \in Queued[r]
    <3>1. CASE at[exec] \in Appending
      <4>1. PICK l \in ListRecord(TcbLists) :
              Neat(l, Queued) /\ Begun(l, my.list, my.ptr, at[exec])
        BY <2>1 DEF Between, Lists
      <4>2. /\ Queued[r] \subseteq Members(Half(l, my.list, my.ptr, at[exec]), r)
            /\ Members(Half(l, my.list, my.ptr, at[exec]), r)
                 \subseteq Queued[r] \cup {my.ptr}
        BY <2>1, <3>1, <4>1, AppendFacts, HalfMembers, QueuedType
      <4> QED BY <2>3, <3>1, <4>1, <4>2 DEF Begun
    <3>2. CASE at[exec] \notin Appending
      <4>1. Members(q, r) = Queued[r]
        BY <2>1, <3>2, NeatNow, NeatWalk, QueuedType DEF Appending
      <4> QED BY <4>1
    <3> QED BY <3>1, <3>2
  <2>5. CASE t = exec
    <3>1. at[exec] \notin Switching => exec \in Away
      BY DEF Switching, Away
    <3> QED BY <2>4, <2>5, <3>1 DEF Switching, Queued
  <2>6. CASE t # exec
    <3>1. t \notin Away
      BY <2>3, <2>6 DEF Away
    <3>2. thread_state[t] = "READY" => t \in Members(q, priority[t])
      <4>1. thread_state[t] = "READY" => t \in Queued[priority[t]]
        BY <2>2, <3>1 DEF Queued
      <4> QED BY <2>2, <2>4, <4>1
    <3>3. ASSUME thread_state[t] = "WAITING"
          PROVE  /\ t \in Members(q, WaitQueue)
                 /\ thread_state[join[t]] \notin {"NONE", "FREED"}
      <4>1. t = Main
        BY <2>1, <3>3 DEF Between, Turn
      <4>2. ~ Joining
        BY <2>2, <2>6, <4>1 DEF Joining, Placed, Rested, Appending
      <4>3. /\ q.head[WaitQueue] = Main /\ join[Main] \in Tids
            /\ thread_state[join[Main]] # "NONE" /\ ~ Leaving(join[Main])
        BY <2>2, <3>3, <4>1, <4>2 DEF MainWaits, Leaving
      <4>4. join[Main] \notin Freed
        BY <2>1, <4>3 DEF Between, Labelled, Placed
      <4>5. Main \in Members(q, WaitQueue)
        BY <2>2, <4>3, FromClosed, Pointers DEF Members
      <4> QED BY <4>1, <4>3, <4>4, <4>5 DEF Freed
    <3> QED BY <2>6, <3>2, <3>3
  <2> QED BY <2>5, <2>6
<1>3. mode # "wild"
  BY DEF Spared
<1> QED BY <1>1, <1>2, <1>3 DEF NobodyStranded

(* Preemption alone strands nobody and makes no join return early: as long *)
(* as the timer has struck only where a thread is in its own code, in      *)
(* my_pthread_create up to the append or at the start of a yield, every    *)
(* READY thread is in the run queue of its rank, a waiting main is in the  *)
(* WaitQueue for a thread that is still to exit, and every thread main's   *)
(* joins have returned for has been freed.                                 *)
THEOREM OnlyTornStrands == Spec => []SafeUnlessTorn
<1>1. Init => Inv /\ (torn = 0 => Spared)
  BY InitInv, InitSpared
<1>2. Inv /\ (torn = 0 => Spared) /\ [Next]_vars
        => Inv' /\ (torn = 0 => Spared)'
  BY NextInv, NextSpared
<1>3. Inv /\ (torn = 0 => Spared) => SafeUnlessTorn
  BY SparedSafe DEF SafeUnlessTorn
<1> QED BY <1>1, <1>2, <1>3, PTL DEF Spec
=============================================================================
