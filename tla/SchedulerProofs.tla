-------------------------- MODULE SchedulerProofs --------------------------
(***************************************************************************)
(* Theorems about Scheduler, for every number of threads and every choice  *)
(* of who joins whom.  The invariant the proofs carry along is that the    *)
(* lists are well formed: a list with a head has a tail, so an append      *)
(* never writes through NULL, and the next pointers close no cycle.        *)
(***************************************************************************)
EXTENDS Scheduler, TcbQueuesProofs

-----------------------------------------------------------------------------
(* What schedule_threads leaves behind, whoever called it: well-formed     *)
(* lists, a thread in current_thread, and no tcb still marked EXITED.      *)
LEMMA ScheduleType ==
  ASSUME TypeOK,
         NEW l \in ListRecord(TcbLists), WellFormed(l, TcbLists),
         NEW st \in [Tids -> States],
         \A t \in Tids : t # current_thread => st[t] # "EXITED",
         NEW seen, NEW over \in SUBSET Wild,
         Schedule(l, st, seen, over)
  PROVE  /\ q' \in ListRecord(TcbLists) /\ WellFormed(q', TcbLists)
         /\ priority' \in [Tids -> Ranks]
         /\ run_time' \in [Tids -> 0 .. BoostAt]
         /\ thread_state' \in [Tids -> States \ {"EXITED"}]
         /\ current_thread' \in Tids
         /\ armed' \in BOOLEAN
         /\ mode' \in {"on", "ended"} \cup Wild
<1> DEFINE c       == current_thread
           charged == Charged(c)
           boosted == Boosted(priority[c], charged)
           gone    == st[c] = "EXITED"
           back    == Requeued(st[c])
           p0      == IF boosted THEN 0 ELSE priority[c]
           p       == IF back THEN Demoted(p0) ELSE p0
           l1      == IF back THEN Enqueue(l, p, c) ELSE l
           st1     == [st EXCEPT ![c] = IF back THEN "READY"
                                        ELSE IF gone THEN "FREED" ELSE @]
<1>1. c \in Tids /\ priority[c] \in Ranks /\ 0 \in Ranks
  BY DEF TypeOK, Ranks, MAX_PRIORITY
<1>2. charged \in 0 .. BoostAt /\ 0 \in 0 .. BoostAt
  BY <1>1, BoostAtAssumption DEF Charged, Charge, TypeOK, Ranks, MAX_PRIORITY
<1>3. p \in Ranks /\ p \in TcbLists
  BY <1>1 DEF Demoted, Ranks, MAX_PRIORITY, TcbLists
<1>4. l1 \in ListRecord(TcbLists) /\ WellFormed(l1, TcbLists)
  BY <1>1, <1>3, EnqueueType, EnqueueWellFormed
<1>5. st1 \in [Tids -> States \ {"EXITED"}]
  BY <1>1 DEF Requeued, States
<1>6. /\ priority' = [priority EXCEPT ![c] = IF gone THEN 0 ELSE p]
      /\ run_time' = [run_time EXCEPT ![c] = IF gone \/ boosted
                                             THEN 0 ELSE charged]
      /\ armed' = Runnable(l1)
  BY DEF Schedule
<1>7. /\ priority' \in [Tids -> Ranks]
      /\ run_time' \in [Tids -> 0 .. BoostAt]
  BY <1>1, <1>2, <1>3, <1>6 DEF TypeOK
<1>8. armed' \in BOOLEAN
  BY <1>6 DEF Runnable
<1>9. mode' \in {"on", "ended"} \cup Wild
  <2>1. \A kinds \in SUBSET Wild : After(kinds) \subseteq {"on", "ended"} \cup Wild
    BY DEF After, TypeOK
  <2>2. "tcb" \in Wild
    BY DEF Wild
  <2>3. mode' \in {"ended"} \cup Wild \/ \E kinds \in SUBSET Wild : mode' \in After(kinds)
    <3> DEFINE stray(T) == over \cup IF T \cap Freed # {} THEN {"tcb"} ELSE {}
    <3>1. \A T : stray(T) \in SUBSET Wild
      BY <2>2
    <3>2. over \cup {"tcb"} \in SUBSET Wild
      BY <2>2
    <3> HIDE DEF stray
    <3> QED BY <3>1, <3>2 DEF Schedule, stray
  <2> QED BY <2>1, <2>3
<1>10. CASE ~ Runnable(l1)
  <2>1. q' = l1 /\ thread_state' = st1 /\ current_thread' = current_thread
    BY <1>10 DEF Schedule, Runnable, IsFirstRank
  <2> QED BY <2>1, <1>1, <1>4, <1>5, <1>7, <1>8, <1>9
<1>11. CASE Runnable(l1)
  <2>1. PICK r \in Ranks :
          /\ IsFirstRank(l1, r)
          /\ q' = Dequeue(l1, r)
          /\ current_thread' = l1.head[r]
          /\ thread_state' = IF gone THEN st1
                             ELSE [st1 EXCEPT ![l1.head[r]] = "RUNNING"]
    BY <1>11 DEF Schedule
  <2>2. l1.head[r] # NULL /\ l1.head[r] \in Tids
    BY <1>4, <2>1, Pointers DEF IsFirstRank, ListRecord, TcbLists
  <2>3. q' \in ListRecord(TcbLists) /\ WellFormed(q', TcbLists)
    BY <1>4, <2>1, <2>2, DequeueWellFormed
  <2>4. thread_state' \in [Tids -> States \ {"EXITED"}]
    BY <1>5, <2>1, <2>2 DEF States
  <2> QED BY <2>1, <2>2, <2>3, <2>4, <1>7, <1>8, <1>9
<1> QED BY <1>10, <1>11

-----------------------------------------------------------------------------
(* A thread inside my_pthread_join has said whom it waits for; main's join *)
(* field is garbage only until then.                                       *)
JoinersNamed == \A u \in Tids : at[u] = "join" => join[u] \in Tids

Inv ==
  /\ TypeOK
  /\ JoinersNamed
  /\ WellFormed(q, TcbLists)
  /\ WellFormed(return_list, {Ret})

LEMMA EmptyWellFormed ==
  ASSUME NEW keys
  PROVE  /\ EmptyLists(keys) \in ListRecord(keys)
         /\ WellFormed(EmptyLists(keys), keys)
<1> DEFINE l == EmptyLists(keys)
<1>1. l \in ListRecord(keys)
  BY Pointers DEF EmptyLists, ListRecord
<1>2. \A k \in keys : l.head[k] # NULL => l.tail[k] # NULL
  BY DEF EmptyLists
<1>3. ASSUME NEW S \in SUBSET Tids, S # {}
      PROVE  \E t \in S : l.next[t] \notin S
  <2>1. \A t \in Tids : l.next[t] = NULL
    BY DEF EmptyLists
  <2> QED BY <1>3, <2>1, Pointers
<1> QED BY <1>1, <1>2, <1>3 DEF WellFormed, Acyclic

LEMMA InitInv == Init => Inv
<1> SUFFICES ASSUME Init PROVE Inv
  OBVIOUS
<1>1. /\ q \in ListRecord(TcbLists) /\ WellFormed(q, TcbLists)
      /\ return_list \in ListRecord({Ret}) /\ WellFormed(return_list, {Ret})
  BY EmptyWellFormed DEF Init
<1>2. number_of_threads \in 0 .. MaxTid /\ current_thread \in Tids
  BY MaxTidAssumption DEF Init, Tids, Main
<1>3. join \in [Tids -> Ptr]
  <2>1. PICK g \in Ptr : join = [t \in Tids |-> IF t = Main THEN g ELSE 0]
    BY DEF Init
  <2> QED BY <2>1, Pointers DEF NULL
<1>4. priority \in [Tids -> Ranks] /\ run_time \in [Tids -> 0 .. BoostAt]
  BY BoostAtAssumption DEF Init, Ranks, MAX_PRIORITY
<1>5. thread_state \in [Tids -> States \ {"EXITED"}]
  BY DEF Init, States
<1>6. /\ armed \in BOOLEAN /\ at \in [Tids -> {"user", "join"}]
      /\ mode \in {"on", "ended"} \cup Wild
      /\ unclaimed \subseteq Tids /\ joined \subseteq Tids \X Tids
  BY DEF Init
<1> QED BY <1>1, <1>2, <1>3, <1>4, <1>5, <1>6 DEF Inv, TypeOK, JoinersNamed, Init

(* The second half of my_pthread_join, taking the value of t.              *)
LEMMA CollectInv ==
  ASSUME Inv, NEW t \in Ptr, Collect(t)
  PROVE  /\ return_list' \in ListRecord({Ret})
         /\ WellFormed(return_list', {Ret})
         /\ unclaimed' \subseteq Tids
<1>1. CASE t \in Members(return_list, Ret)
  <2>1. t \in Tids
    BY <1>1, Pointers DEF Members, From
  <2>2. /\ return_list' = Remove(return_list, Ret, t)
        /\ unclaimed' = unclaimed \ {t}
    BY <1>1 DEF Collect
  <2>3. /\ Remove(return_list, Ret, t) \in ListRecord({Ret})
        /\ WellFormed(Remove(return_list, Ret, t), {Ret})
    BY <2>1, RemoveWellFormed DEF Inv, TypeOK
  <2> QED BY <2>2, <2>3 DEF Inv, TypeOK
<1>2. CASE t \notin Members(return_list, Ret)
  BY <1>2 DEF Collect, Inv, TypeOK
<1> QED BY <1>1, <1>2

LEMMA OversteppedWild ==
  ASSUME NEW way
  PROVE  Overstepped(way) \in SUBSET Wild /\ {} \in SUBSET Wild
BY DEF Overstepped, Wild

(* An invocation of schedule_threads by an action that leaves the lists l  *)
(* and the thread states st, and disturbs nothing but what the premises    *)
(* speak of, preserves the invariant.                                      *)
LEMMA ScheduleInv ==
  ASSUME Inv,
         NEW l \in ListRecord(TcbLists), WellFormed(l, TcbLists),
         NEW st \in [Tids -> States],
         \A t \in Tids : t # current_thread => st[t] # "EXITED",
         NEW seen, NEW over \in SUBSET Wild,
         Schedule(l, st, seen, over),
         number_of_threads' \in 0 .. MaxTid,
         return_list' \in ListRecord({Ret}), WellFormed(return_list', {Ret}),
         join' \in [Tids -> Ptr], at' \in [Tids -> {"user", "join"}],
         JoinersNamed',
         unclaimed' \subseteq Tids, joined' \subseteq Tids \X Tids
  PROVE  Inv'
BY ScheduleType DEF Inv, TypeOK

LEMMA NextInv == Inv /\ [Next]_vars => Inv'
<1> SUFFICES ASSUME Inv, [Next]_vars PROVE Inv'
  OBVIOUS
<1> USE DEF Inv
<1>1. current_thread \in Tids /\ 0 \in TcbLists /\ WaitQueue \in TcbLists
  BY DEF TypeOK, TcbLists, Ranks, MAX_PRIORITY
<1>2. \A t \in Tids : thread_state[t] \in States /\ thread_state[t] # "EXITED"
  BY DEF TypeOK
<1>3. CASE Create
  <2> DEFINE tid == IF number_of_threads = 0 THEN 2 ELSE number_of_threads + 1
             l   == Enqueue(q, 0, tid)
             st  == [thread_state EXCEPT ![tid] = "READY"]
  <2>1. tid \in Tids
    BY <1>3, MaxTidAssumption DEF Create, TypeOK, Tids
  <2>2. l \in ListRecord(TcbLists) /\ WellFormed(l, TcbLists)
    BY <1>1, <2>1, EnqueueType, EnqueueWellFormed DEF TypeOK
  <2>3. /\ st \in [Tids -> States]
        /\ \A t \in Tids : st[t] # "EXITED"
    BY <1>2, <2>1 DEF TypeOK, States
  <2>4. number_of_threads' \in 0 .. MaxTid
    BY <1>3, <2>1 DEF Create, Tids
  <2>5. Schedule(l, st, EnqueueTouches(q, 0), {})
    BY <1>3 DEF Create
  <2>6. UNCHANGED <<return_list, join, at, unclaimed, joined>>
    BY <1>3 DEF Create
  <2> HIDE DEF l, st, tid
  <2> QED
    BY <2>2, <2>3, <2>4, <2>5, <2>6, OversteppedWild, ScheduleInv DEF TypeOK, JoinersNamed
<1>4. CASE Yield \/ Tick
  <2>1. /\ Schedule(q, thread_state, {}, {})
        /\ UNCHANGED <<number_of_threads, return_list, join, at, unclaimed,
                       joined>>
    BY <1>4 DEF Yield, Tick
  <2>2. thread_state \in [Tids -> States]
    BY DEF TypeOK
  <2> QED BY <1>2, <2>1, <2>2, OversteppedWild, ScheduleInv DEF TypeOK, JoinersNamed
<1>5. ASSUME NEW t \in Tids, NEW way \in Ways, Exit(t, way)
      PROVE  Inv'
  <2>1. /\ t = current_thread
        /\ return_list' = WithValue(way)
        /\ unclaimed' = IF way = "value" THEN unclaimed \cup {t} ELSE unclaimed
        /\ UNCHANGED <<number_of_threads, join, at, joined>>
    BY <1>5 DEF Exit
  <2>2. return_list' \in ListRecord({Ret}) /\ WellFormed(return_list', {Ret})
    BY <1>1, <2>1, EnqueueType, EnqueueWellFormed DEF WithValue, TypeOK
  <2>3. unclaimed' \subseteq Tids
    BY <2>1 DEF TypeOK
  <2>4. CASE Waiters = {} /\ Schedule(q, [thread_state EXCEPT ![t] = "EXITED"],
                                      Members(q, WaitQueue),
                                      Overstepped(way))
    <3> DEFINE st == [thread_state EXCEPT ![t] = "EXITED"]
    <3>1. /\ st \in [Tids -> States]
          /\ \A u \in Tids : u # current_thread => st[u] # "EXITED"
      BY <1>2, <2>1 DEF TypeOK, States
    <3> HIDE DEF st
    <3> QED
      BY <2>1, <2>2, <2>3, <2>4, <3>1, OversteppedWild, ScheduleInv
      DEF TypeOK, JoinersNamed, st
  <2>5. ASSUME NEW w \in Tids,
               Schedule(Woken(w),
                 [[thread_state EXCEPT ![w] = "READY"] EXCEPT ![t] = "EXITED"],
                 Upto(WaitQueue, w) \cup EnqueueTouches(q, priority[w]),
                 Overstepped(way))
        PROVE  Inv'
    <3> DEFINE st == [[thread_state EXCEPT ![w] = "READY"]
                        EXCEPT ![t] = "EXITED"]
    <3>1. /\ st \in [Tids -> States]
          /\ \A u \in Tids : u # current_thread => st[u] # "EXITED"
      BY <1>2, <2>1 DEF TypeOK, States
    <3>2. priority[w] \in TcbLists
      BY DEF TypeOK, TcbLists
    <3>3. Woken(w) \in ListRecord(TcbLists) /\ WellFormed(Woken(w), TcbLists)
      BY <3>2, EnqueueType, EnqueueWellFormed DEF Woken, TypeOK
    <3> QED
      BY <2>1, <2>2, <2>3, <2>5, <3>1, <3>3, OversteppedWild, ScheduleInv
      DEF TypeOK, JoinersNamed
  <2> QED BY <1>5, <2>4, <2>5 DEF Exit
<1>6. ASSUME NEW t \in Tids, JoinCall(t)
      PROVE  Inv'
  <2> DEFINE c == current_thread
  <2>1. number_of_threads' = number_of_threads
    BY <1>6 DEF JoinCall
  <2>2. CASE InRunQueue(t)
    <3> DEFINE l  == Enqueue(q, WaitQueue, c)
               st == [thread_state EXCEPT ![c] = "WAITING"]
               seen == Searched(t) \cup EnqueueTouches(q, WaitQueue)
    <3>1. l \in ListRecord(TcbLists) /\ WellFormed(l, TcbLists)
      BY <1>1, EnqueueType, EnqueueWellFormed DEF TypeOK
    <3>2. /\ st \in [Tids -> States]
          /\ \A u \in Tids : st[u] # "EXITED"
      BY <1>1, <1>2 DEF TypeOK, States
    <3>3. /\ join' = [join EXCEPT ![c] = t]
          /\ at' = [at EXCEPT ![c] = "join"]
          /\ Schedule(l, st, seen, {})
          /\ UNCHANGED <<return_list, unclaimed, joined>>
      BY <1>6, <2>2 DEF JoinCall
    <3>4. join' \in [Tids -> Ptr] /\ at' \in [Tids -> {"user", "join"}]
      BY <3>3, Pointers DEF TypeOK
    <3>5. JoinersNamed'
      BY <1>1, <3>3 DEF JoinersNamed, TypeOK
    <3> HIDE DEF l, st, seen
    <3> QED BY <2>1, <3>1, <3>2, <3>3, <3>4, <3>5, OversteppedWild, ScheduleInv DEF TypeOK
  <2>3. CASE ~ InRunQueue(t)
    <3>1. /\ Collect(t)
          /\ mode' \in {mode} \cup Wild
          /\ UNCHANGED <<q, join, at, priority, run_time, thread_state,
                         current_thread, armed>>
      BY <1>6, <2>3 DEF JoinCall, Wild
    <3>2. /\ return_list' \in ListRecord({Ret})
          /\ WellFormed(return_list', {Ret})
          /\ unclaimed' \subseteq Tids
      BY <3>1, Pointers, CollectInv
    <3>3. joined' \subseteq Tids \X Tids
      BY <1>1, <3>1 DEF Collect, TypeOK
    <3> QED BY <2>1, <3>1, <3>2, <3>3 DEF TypeOK, JoinersNamed
  <2> QED BY <2>2, <2>3
<1>7. CASE JoinResume
  <2>1. /\ at' = [at EXCEPT ![current_thread] = "user"]
        /\ Collect(join[current_thread])
        /\ UNCHANGED <<number_of_threads, q, join, priority, run_time,
                       thread_state, current_thread, armed, mode>>
    BY <1>7 DEF JoinResume
  <2>2. join[current_thread] \in Ptr
    BY <1>1 DEF TypeOK
  <2>3. /\ return_list' \in ListRecord({Ret})
        /\ WellFormed(return_list', {Ret})
        /\ unclaimed' \subseteq Tids
    BY <2>1, <2>2, CollectInv
  <2>4. /\ joined' \subseteq Tids \X Tids
        /\ at' \in [Tids -> {"user", "join"}]
    BY <1>1, <1>7, <2>1 DEF JoinResume, JoinersNamed, TypeOK, Collect
  <2>5. JoinersNamed'
    BY <1>1, <2>1 DEF JoinersNamed, TypeOK
  <2> QED BY <2>1, <2>3, <2>4, <2>5 DEF TypeOK
<1>8. CASE MainReturns
  BY <1>8 DEF MainReturns, TypeOK, JoinersNamed
<1>9. CASE UNCHANGED vars
  BY <1>9 DEF vars, TypeOK, JoinersNamed
<1> QED BY <1>3, <1>4, <1>5, <1>6, <1>7, <1>8, <1>9 DEF Next

-----------------------------------------------------------------------------
THEOREM Invariance == Spec => []Inv
BY InitInv, NextInv, PTL DEF Spec

(* Type correctness of the thread library.                                 *)
THEOREM TypeCorrect == Spec => []TypeOK
<1>1. Inv => TypeOK
  BY DEF Inv
<1> QED BY <1>1, Invariance, PTL

(* However many threads there are and whoever joins whom, the queues and   *)
(* the return list never close a cycle, so the loops of my_pthread_exit,   *)
(* my_pthread_join and search_by_tid over them end.                        *)
THEOREM ListsStayAcyclic == Spec => []ListsAcyclic
<1>1. Inv => ListsAcyclic
  BY DEF Inv, WellFormed, ListsAcyclic
<1> QED BY <1>1, Invariance, PTL

-----------------------------------------------------------------------------
(* Return values.  A value is in return_list only under the tid of a       *)
(* thread that is gone, so no thread that exits is there already, and its  *)
(* value is appended and cuts nothing off.  That a thread which is gone    *)
(* does not come back takes two things: that it is not created again, for  *)
(* which the queues hold none but created threads, and that the scheduler  *)
(* does not go on with it, unless freed memory has been dereferenced.      *)
Created == {Main} \cup {t \in Tids : t <= number_of_threads}

Numbered ==
  /\ Within(q, TcbLists, Created)
  /\ current_thread \in Created
  /\ \A t \in Tids \ Created : thread_state[t] = "NONE"

Returned ==
  mode = "on" =>
    /\ thread_state[current_thread] # "FREED"
    /\ Members(return_list, Ret) \subseteq Freed

LEMMA ScheduleNumbered ==
  ASSUME Inv,
         NEW l \in ListRecord(TcbLists),
         NEW st \in [Tids -> States],
         NEW P \in SUBSET Tids, Within(l, TcbLists, P), current_thread \in P,
         \A t \in Tids \ P : st[t] = "NONE",
         NEW seen, NEW over \in SUBSET Wild,
         Schedule(l, st, seen, over)
  PROVE  /\ Within(q', TcbLists, P)
         /\ current_thread' \in P
         /\ \A t \in Tids \ P : thread_state'[t] = "NONE"
<1> DEFINE c       == current_thread
           gone    == st[c] = "EXITED"
           back    == Requeued(st[c])
           p0      == IF Boosted(priority[c], Charged(c)) THEN 0
                      ELSE priority[c]
           p       == IF back THEN Demoted(p0) ELSE p0
           l1      == IF back THEN Enqueue(l, p, c) ELSE l
           st1     == [st EXCEPT ![c] = IF back THEN "READY"
                                        ELSE IF gone THEN "FREED" ELSE @]
<1>1. c \in Tids /\ p \in TcbLists
  BY DEF Inv, TypeOK, Demoted, Ranks, MAX_PRIORITY, TcbLists
<1>2. l1 \in ListRecord(TcbLists) /\ Within(l1, TcbLists, P)
  BY <1>1, EnqueueType, EnqueueWithin
<1>3. \A t \in Tids \ P : st1[t] = "NONE"
  BY <1>1
<1>4. CASE ~ Runnable(l1)
  <2>1. q' = l1 /\ thread_state' = st1 /\ current_thread' = current_thread
    BY <1>4 DEF Schedule, Runnable, IsFirstRank
  <2> QED BY <1>2, <1>3, <2>1
<1>5. CASE Runnable(l1)
  <2>1. PICK r \in Ranks :
          /\ IsFirstRank(l1, r)
          /\ q' = Dequeue(l1, r)
          /\ current_thread' = l1.head[r]
          /\ thread_state' = IF gone THEN st1
                             ELSE [st1 EXCEPT ![l1.head[r]] = "RUNNING"]
    BY <1>5 DEF Schedule
  <2>2. l1.head[r] # NULL /\ l1.head[r] \in P
    BY <1>2, <2>1 DEF IsFirstRank, Within, TcbLists
  <2>3. Within(q', TcbLists, P)
    BY <1>2, <2>1, <2>2, DequeueWithin
  <2>4. \A t \in Tids \ P : thread_state'[t] = "NONE"
    <3> HIDE DEF st1, l1
    <3>1. st1 \in [Tids -> States]
      BY <1>1 DEF st1, States
    <3> QED BY <1>3, <2>1, <2>2, <3>1
  <2> QED BY <2>1, <2>2, <2>3, <2>4
<1> QED BY <1>4, <1>5

(* Whoever is gone stays gone, and is not scheduled.                       *)
LEMMA ScheduleFreed ==
  ASSUME Inv, mode' = "on", thread_state[current_thread] # "FREED",
         NEW l \in ListRecord(TcbLists), WellFormed(l, TcbLists),
         NEW st \in [Tids -> States],
         NEW seen, NEW over \in SUBSET Wild,
         Schedule(l, st, seen, over),
         \A t \in Freed \ seen : st[t] = "FREED"
  PROVE  /\ thread_state'[current_thread'] # "FREED"
         /\ Freed \subseteq Freed'
         /\ st[current_thread] = "EXITED" => current_thread \in Freed'
<1> DEFINE c       == current_thread
           gone    == st[c] = "EXITED"
           back    == Requeued(st[c])
           p0      == IF Boosted(priority[c], Charged(c)) THEN 0
                      ELSE priority[c]
           p       == IF back THEN Demoted(p0) ELSE p0
           l1      == IF back THEN Enqueue(l, p, c) ELSE l
           st1     == [st EXCEPT ![c] = IF back THEN "READY"
                                        ELSE IF gone THEN "FREED" ELSE @]
           seen1   == seen \cup IF back THEN EnqueueTouches(l, p) ELSE {}
<1>1. c \in Tids /\ p \in TcbLists /\ c \notin Freed /\ Freed \subseteq Tids
  BY DEF Inv, TypeOK, Demoted, Ranks, MAX_PRIORITY, TcbLists, Freed
<1>2. l1 \in ListRecord(TcbLists)
  BY <1>1, EnqueueType
<1>3. st1 \in [Tids -> States]
  BY <1>1 DEF States
<1>4. (gone => st1[c] = "FREED") /\ (~ gone => st1[c] # "FREED")
  BY <1>1 DEF Requeued
<1> DEFINE stray(T) == over \cup IF T \cap Freed # {} THEN {"tcb"} ELSE {}
<1>5. /\ \A T : stray(T) \in SUBSET Wild
      /\ \A T : "tcb" \notin stray(T) => T \cap Freed = {}
      /\ over \cup {"tcb"} \in SUBSET Wild
      /\ "on" \notin Wild
  BY DEF Wild
<1>6. \A kinds \in SUBSET Wild : "on" \in After(kinds) => "tcb" \notin kinds
  BY <1>5 DEF After
<1>7. CASE ~ Runnable(l1)
  <2>1. /\ thread_state' = st1 /\ current_thread' = c
        /\ mode' \in IF ~ gone THEN After(stray(seen1))
                     ELSE IF stray(seen1) = {} THEN {"ended"}
                     ELSE stray(seen1)
    BY <1>7 DEF Schedule, Runnable, IsFirstRank
  <2> HIDE DEF st1, seen1, stray
  <2>2. ~ gone /\ seen1 \cap Freed = {}
    BY <1>5, <1>6, <2>1
  <2> USE DEF st1, seen1
  <2>3. \A t \in Freed : st1[t] = "FREED"
    BY <1>1, <2>2
  <2> HIDE DEF st1
  <2> QED BY <1>1, <1>4, <2>1, <2>3, <2>2 DEF Freed
<1>8. CASE Runnable(l1)
  <2>1. PICK r \in Ranks :
          /\ IsFirstRank(l1, r)
          /\ current_thread' = l1.head[r]
          /\ thread_state' = IF gone THEN st1
                             ELSE [st1 EXCEPT ![l1.head[r]] = "RUNNING"]
          /\ mode' \in After(IF st1[l1.head[r]] = "FREED"
                             THEN over \cup {"tcb"}
                             ELSE stray(seen1 \cup {l1.head[r]}))
    BY <1>8 DEF Schedule
  <2>2. l1.head[r] \in Tids
    BY <1>2, <2>1, Pointers DEF IsFirstRank, ListRecord, TcbLists
  <2>3. /\ (seen1 \cup {l1.head[r]}) \cap Freed = {}
        /\ st1[l1.head[r]] # "FREED"
    <3> HIDE DEF st1, seen1, l1, stray
    <3>1. CASE st1[l1.head[r]] = "FREED"
      BY <1>5, <1>6, <2>1, <3>1
    <3>2. CASE st1[l1.head[r]] # "FREED"
      BY <1>5, <1>6, <2>1, <3>2
    <3> QED BY <3>1, <3>2
  <2>4. \A t \in Freed : st1[t] = "FREED"
    BY <1>1, <2>3
  <2> HIDE DEF st1, l1, seen1
  <2>5. \A t \in Freed : thread_state'[t] = "FREED"
    BY <1>1, <1>3, <2>1, <2>2, <2>4, <2>3
  <2>6. thread_state'[current_thread'] # "FREED"
    BY <1>3, <2>1, <2>2, <2>3
  <2>7. gone => thread_state'[c] = "FREED"
    BY <1>4, <2>1
  <2> QED BY <1>1, <2>5, <2>6, <2>7 DEF Freed
<1> QED BY <1>7, <1>8

(* A call that leaves return_list alone, or takes something out of it.     *)
LEMMA StillReturned ==
  ASSUME Inv, Numbered, Returned, mode = "on",
         Members(return_list', Ret) \subseteq Members(return_list, Ret),
         NEW l \in ListRecord(TcbLists), WellFormed(l, TcbLists),
         NEW st \in [Tids -> States],
         NEW seen, NEW over \in SUBSET Wild,
         Schedule(l, st, seen, over),
         \A t \in Freed \ seen : st[t] = "FREED"
  PROVE  Returned'
<1> SUFFICES ASSUME mode' = "on"
             PROVE  /\ thread_state'[current_thread'] # "FREED"
                    /\ Members(return_list', Ret) \subseteq Freed'
  BY DEF Returned
<1> QED BY ScheduleFreed DEF Returned

LEMMA InitNumbered == Init => Numbered /\ Returned
<1> SUFFICES ASSUME Init PROVE Numbered /\ Returned
  OBVIOUS
<1>1. Main \in Created /\ Main \in Tids
  BY MaxTidAssumption DEF Created, Main, Tids
<1>2. Within(q, TcbLists, Created)
  BY DEF Init, Within, EmptyLists
<1>3. Members(return_list, Ret) = {}
  BY DEF Init, EmptyLists, Members, From
<1> QED BY <1>1, <1>2, <1>3 DEF Numbered, Returned, Init

(* What my_pthread_join takes out of return_list.                          *)
LEMMA CollectMembers ==
  ASSUME Inv, NEW t \in Ptr, Collect(t)
  PROVE  /\ Members(return_list', Ret) \subseteq Members(return_list, Ret)
         /\ unclaimed' \subseteq unclaimed
         /\ \A u \in unclaimed' : u \in Members(return_list, Ret) =>
                                   u \in Members(return_list', Ret)
<1>1. CASE t \in Members(return_list, Ret)
  <2>1. /\ return_list' = Remove(return_list, Ret, t)
        /\ unclaimed' = unclaimed \ {t}
    BY <1>1 DEF Collect
  <2>2. Members(return_list', Ret) = Members(return_list, Ret) \ {t}
    BY <1>1, <2>1, RemoveMembers DEF Inv, TypeOK, WellFormed
  <2> QED BY <2>1, <2>2
<1>2. CASE t \notin Members(return_list, Ret)
  BY <1>2 DEF Collect
<1> QED BY <1>1, <1>2

(* my_pthread_create takes a tid no thread has had.                        *)
LEMMA CreateNumbered ==
  ASSUME Inv, Numbered, Returned, Create
  PROVE  Numbered' /\ Returned'
<1> DEFINE tid == IF number_of_threads = 0 THEN 2 ELSE number_of_threads + 1
           l   == Enqueue(q, 0, tid)
           st  == [thread_state EXCEPT ![tid] = "READY"]
           P   == Created'
<1>1. /\ mode = "on" /\ number_of_threads' = tid
      /\ Schedule(l, st, EnqueueTouches(q, 0), {})
      /\ return_list' = return_list /\ tid <= MaxTid
  BY DEF Create
<1>2. /\ tid \in Tids /\ tid \notin Created /\ tid \in P
      /\ Created \subseteq P /\ P \subseteq Tids
  <2>1. number_of_threads \in Nat /\ number_of_threads < tid /\ tid \in Tids
        /\ tid # Main /\ Main \in Tids
    BY <1>1, MaxTidAssumption DEF Inv, TypeOK, Tids, Main
  <2> QED BY <1>1, <2>1 DEF Created, Tids
<1>3. 0 \in TcbLists
  BY DEF TcbLists, Ranks, MAX_PRIORITY
<1>4. q \in ListRecord(TcbLists) /\ Within(q, TcbLists, P)
  BY <1>2 DEF Inv, TypeOK, Numbered, Within
<1> HIDE DEF tid, P
<1>5. /\ l \in ListRecord(TcbLists) /\ Within(l, TcbLists, P)
      /\ WellFormed(l, TcbLists)
  BY <1>2, <1>3, <1>4, EnqueueType, EnqueueWithin, EnqueueWellFormed DEF Inv
<1>6. /\ st \in [Tids -> States]
      /\ \A t \in Tids \ P : st[t] = "NONE"
      /\ \A t \in Freed : st[t] = "FREED"
  <2>1. thread_state \in [Tids -> States] /\ "READY" \in States
    BY DEF Inv, TypeOK, States
  <2>2. thread_state[tid] = "NONE" /\ \A t \in Tids \ P : thread_state[t] = "NONE"
    BY <1>2 DEF Numbered
  <2> QED BY <1>2, <2>1, <2>2 DEF Freed
<1>7. current_thread \in P
  BY <1>2 DEF Numbered
<1> HIDE DEF l, st
<1>8. /\ Within(q', TcbLists, P)
      /\ current_thread' \in P
      /\ \A t \in Tids \ P : thread_state'[t] = "NONE"
  BY <1>1, <1>2, <1>5, <1>6, <1>7, ScheduleNumbered
<1>9. Returned'
  BY <1>1, <1>5, <1>6, StillReturned
<1> QED BY <1>8, <1>9 DEF Numbered, P

(* A call by a created thread that creates none: its lists and states.     *)
LEMMA StillNumbered ==
  ASSUME Inv, Numbered, number_of_threads' = number_of_threads,
         NEW l \in ListRecord(TcbLists), Within(l, TcbLists, Created),
         NEW st \in [Tids -> States],
         \A t \in Tids \ Created : st[t] = "NONE",
         NEW seen, NEW over \in SUBSET Wild,
         Schedule(l, st, seen, over)
  PROVE  Numbered'
<1>1. Created' = Created /\ Created \in SUBSET Tids
  BY MaxTidAssumption DEF Created, Main, Tids
<1>2. current_thread \in Created
  BY DEF Numbered
<1>3. /\ Within(q', TcbLists, Created)
      /\ current_thread' \in Created
      /\ \A t \in Tids \ Created : thread_state'[t] = "NONE"
  BY <1>1, <1>2, ScheduleNumbered
<1> QED BY <1>1, <1>3 DEF Numbered

(* The thread that exits is created and not gone, and so is the one it     *)
(* wakes, unless a freed tcb has been found in the WaitQueue.              *)
LEMMA ExitNumbered ==
  ASSUME Inv, Numbered, Returned,
         NEW t \in Tids, NEW way \in Ways, Exit(t, way)
  PROVE  Numbered' /\ Returned'
<1>1. /\ mode = "on" /\ t = current_thread /\ t \in Created
      /\ thread_state[t] # "FREED" /\ t \notin Freed
      /\ return_list' = WithValue(way)
      /\ number_of_threads' = number_of_threads
  BY DEF Exit, Calling, Numbered, Returned, Freed
<1>2. /\ q \in ListRecord(TcbLists) /\ WellFormed(q, TcbLists)
      /\ Within(q, TcbLists, Created) /\ Created \in SUBSET Tids
      /\ WaitQueue \in TcbLists
  BY MaxTidAssumption
  DEF Inv, TypeOK, Numbered, TcbLists, Created, Main, Tids
<1>3. Members(return_list', Ret) \subseteq Members(return_list, Ret) \cup {t}
  BY <1>1, EnqueueMembers DEF WithValue, Inv, TypeOK
<1>4. PICK l, st, seen :
        /\ Schedule(l, st, seen, Overstepped(way))
        /\ l \in ListRecord(TcbLists) /\ WellFormed(l, TcbLists)
        /\ Within(l, TcbLists, Created)
        /\ st \in [Tids -> States]
        /\ \A u \in Tids \ Created : st[u] = "NONE"
        /\ \A u \in Freed \ seen : st[u] = "FREED"
        /\ st[t] = "EXITED"
  <2>1. CASE Waiters = {} /\ Schedule(q, [thread_state EXCEPT ![t] = "EXITED"],
                                      Members(q, WaitQueue),
                                      Overstepped(way))
    <3> DEFINE st == [thread_state EXCEPT ![t] = "EXITED"]
    <3>1. /\ st \in [Tids -> States]
          /\ \A u \in Tids \ Created : st[u] = "NONE"
          /\ \A u \in Freed : st[u] = "FREED"
          /\ st[t] = "EXITED"
      BY <1>1 DEF Inv, TypeOK, Numbered, Freed, States
    <3> HIDE DEF st
    <3> QED BY <1>2, <2>1, <3>1 DEF st
  <2>2. ASSUME NEW w \in Tids, IsFirstWaiter(w),
               Schedule(Woken(w),
                 [[thread_state EXCEPT ![w] = "READY"] EXCEPT ![t] = "EXITED"],
                 Upto(WaitQueue, w) \cup EnqueueTouches(q, priority[w]),
                 Overstepped(way))
        PROVE  \E l, st, seen :
                 /\ Schedule(l, st, seen, Overstepped(way))
                 /\ l \in ListRecord(TcbLists) /\ WellFormed(l, TcbLists)
                 /\ Within(l, TcbLists, Created)
                 /\ st \in [Tids -> States]
                 /\ \A u \in Tids \ Created : st[u] = "NONE"
                 /\ \A u \in Freed \ seen : st[u] = "FREED"
                 /\ st[t] = "EXITED"
    <3> DEFINE st == [[thread_state EXCEPT ![w] = "READY"]
                        EXCEPT ![t] = "EXITED"]
               seen == Upto(WaitQueue, w) \cup EnqueueTouches(q, priority[w])
    <3>1. w \in Members(q, WaitQueue) /\ w \in Created
      BY <1>2, <2>2, MembersWithin DEF IsFirstWaiter, Waiters
    <3>2. w \in seen
      BY <3>1 DEF Upto, Members
    <3>3. priority[w] \in TcbLists
      BY DEF Inv, TypeOK, TcbLists
    <3>4. /\ Woken(w) \in ListRecord(TcbLists)
          /\ WellFormed(Woken(w), TcbLists)
          /\ Within(Woken(w), TcbLists, Created)
      BY <1>2, <3>1, <3>3, EnqueueType, EnqueueWellFormed, EnqueueWithin
      DEF Woken
    <3>5. /\ thread_state \in [Tids -> States]
          /\ "READY" \in States /\ "EXITED" \in States
          /\ \A u \in Tids \ Created : thread_state[u] = "NONE"
      BY DEF Inv, TypeOK, Numbered, States
    <3>6. /\ st \in [Tids -> States]
          /\ \A u \in Tids \ Created : st[u] = "NONE"
          /\ st[t] = "EXITED"
      BY <1>1, <3>1, <3>5
    <3>7. \A u \in Freed \ seen : st[u] = "FREED"
      <4>1. \A u \in Freed \ seen : u \in Tids /\ u # w /\ u # t
                                    /\ thread_state[u] = "FREED"
        BY <1>1, <3>2 DEF Freed
      <4> HIDE DEF seen
      <4> QED BY <3>5, <4>1
    <3> HIDE DEF st, seen
    <3> QED BY <2>2, <3>4, <3>6, <3>7 DEF st, seen
  <2> QED BY <2>1, <2>2 DEF Exit
<1>5. Numbered'
  BY <1>1, <1>4, OversteppedWild, StillNumbered
<1>6. Returned'
  <2> SUFFICES ASSUME mode' = "on"
               PROVE  /\ thread_state'[current_thread'] # "FREED"
                      /\ Members(return_list', Ret) \subseteq Freed'
    BY DEF Returned
  <2>1. /\ thread_state'[current_thread'] # "FREED"
        /\ Freed \subseteq Freed' /\ t \in Freed'
    BY <1>1, <1>4, OversteppedWild, ScheduleFreed
  <2> QED BY <1>1, <1>3, <2>1 DEF Returned
<1> QED BY <1>5, <1>6

LEMMA JoinNumbered ==
  ASSUME Inv, Numbered, Returned, NEW t \in Tids, JoinCall(t)
  PROVE  Numbered' /\ Returned'
<1> DEFINE c == current_thread
<1>1. /\ mode = "on" /\ number_of_threads' = number_of_threads
      /\ c \in Created /\ thread_state[c] # "FREED" /\ c \in Tids
      /\ Created' = Created /\ Created \in SUBSET Tids
  BY MaxTidAssumption
  DEF JoinCall, Calling, Numbered, Returned, Inv, TypeOK, Created, Main, Tids
<1>2. /\ q \in ListRecord(TcbLists) /\ WellFormed(q, TcbLists)
      /\ Within(q, TcbLists, Created) /\ WaitQueue \in TcbLists
  BY DEF Inv, TypeOK, Numbered, TcbLists
<1>3. CASE InRunQueue(t)
  <2> DEFINE l  == Enqueue(q, WaitQueue, c)
             st == [thread_state EXCEPT ![c] = "WAITING"]
             seen == Searched(t) \cup EnqueueTouches(q, WaitQueue)
  <2>1. /\ l \in ListRecord(TcbLists) /\ WellFormed(l, TcbLists)
        /\ Within(l, TcbLists, Created)
    BY <1>1, <1>2, EnqueueType, EnqueueWellFormed, EnqueueWithin
  <2>2. /\ st \in [Tids -> States]
        /\ \A u \in Tids \ Created : st[u] = "NONE"
        /\ \A u \in Freed : st[u] = "FREED"
    BY <1>1 DEF Inv, TypeOK, Numbered, States, Freed
  <2>3. Schedule(l, st, seen, {}) /\ return_list' = return_list
    BY <1>3 DEF JoinCall
  <2> HIDE DEF l, st, seen
  <2>4. Numbered'
    BY <1>1, <2>1, <2>2, <2>3, OversteppedWild, StillNumbered
  <2>5. Returned'
    BY <1>1, <2>1, <2>2, <2>3, OversteppedWild, StillReturned
  <2> QED BY <2>4, <2>5
<1>4. CASE ~ InRunQueue(t)
  <2>1. /\ Collect(t)
        /\ UNCHANGED <<q, current_thread, thread_state>>
    BY <1>4 DEF JoinCall
  <2>2. Members(return_list', Ret) \subseteq Members(return_list, Ret)
    BY <2>1, Pointers, CollectMembers
  <2> QED BY <1>1, <2>1, <2>2 DEF Numbered, Returned, Freed
<1> QED BY <1>3, <1>4

LEMMA NextNumbered ==
  Inv /\ Numbered /\ Returned /\ [Next]_vars => Numbered' /\ Returned'
<1> SUFFICES ASSUME Inv, Numbered, Returned, [Next]_vars
             PROVE  Numbered' /\ Returned'
  OBVIOUS
<1>1. CASE Yield \/ Tick
  <2>1. /\ mode = "on" /\ Schedule(q, thread_state, {}, {})
        /\ UNCHANGED <<number_of_threads, return_list>>
    BY <1>1 DEF Yield, Tick, Calling
  <2>2. /\ q \in ListRecord(TcbLists) /\ WellFormed(q, TcbLists)
        /\ Within(q, TcbLists, Created)
        /\ thread_state \in [Tids -> States]
        /\ \A t \in Tids \ Created : thread_state[t] = "NONE"
        /\ \A t \in Freed : thread_state[t] = "FREED"
    BY DEF Inv, TypeOK, Numbered, Freed
  <2>3. Numbered'
    BY <2>1, <2>2, OversteppedWild, StillNumbered
  <2>4. Returned'
    BY <2>1, <2>2, OversteppedWild, StillReturned
  <2> QED BY <2>3, <2>4
<1>2. CASE JoinResume
  <2>1. /\ Collect(join[current_thread])
        /\ UNCHANGED <<number_of_threads, q, current_thread, thread_state,
                       mode>>
    BY <1>2 DEF JoinResume
  <2>2. join[current_thread] \in Ptr
    BY DEF Inv, TypeOK
  <2>3. Members(return_list', Ret) \subseteq Members(return_list, Ret)
    BY <2>1, <2>2, CollectMembers
  <2> QED BY <2>1, <2>3 DEF Numbered, Returned, Created, Freed
<1>3. CASE MainReturns \/ UNCHANGED vars
  <2>1. /\ UNCHANGED <<number_of_threads, q, current_thread, thread_state,
                       return_list>>
        /\ mode' = "on" => mode = "on"
    BY <1>3 DEF MainReturns, vars
  <2> QED BY <2>1 DEF Numbered, Returned, Created, Freed
<1> QED
  BY <1>1, <1>2, <1>3, CreateNumbered, ExitNumbered, JoinNumbered DEF Next

-----------------------------------------------------------------------------
(* The tail of return_list, also where a join has left it on a node that   *)
(* is in the list no more, is a last node.                                 *)
TailEnds ==
  IF return_list.head[Ret] = NULL
  THEN return_list.tail[Ret] = NULL
  ELSE return_list.next[return_list.tail[Ret]] = NULL

LEMMA NextTailEnds ==
  ASSUME Inv, TailEnds, [Next]_vars
  PROVE  TailEnds'
<1>1. /\ return_list \in ListRecord({Ret}) /\ current_thread \in Tids
      /\ return_list.tail[Ret] \in Ptr
      /\ return_list.head[Ret] # NULL => return_list.tail[Ret] \in Tids
      /\ return_list.head[Ret] # NULL => return_list.head[Ret] \in Tids
  BY Pointers DEF Inv, TypeOK, WellFormed, ListRecord
<1>2. CASE UNCHANGED return_list
  BY <1>2 DEF TailEnds
<1>3. ASSUME NEW t \in Ptr, Collect(t) PROVE TailEnds'
  <2>1. CASE t \notin Members(return_list, Ret)
    BY <1>2, <1>3, <2>1 DEF Collect
  <2>2. CASE t \in Members(return_list, Ret)
    <3>1. return_list' = Remove(return_list, Ret, t) /\ t \in Tids
      BY <1>3, <2>2 DEF Collect, Members, From
    <3>2. return_list.head[Ret] # NULL
      BY <2>2 DEF Members, From
    <3>3. CASE return_list.head[Ret] = t
      BY <1>1, <3>1, <3>2, <3>3 DEF Remove, TailEnds, ListRecord
    <3>4. CASE return_list.head[Ret] # t
      <4>1. /\ return_list'.head = return_list.head
            /\ return_list'.tail = return_list.tail
            /\ \A u \in Tids : return_list.next[u] = NULL =>
                                return_list'.next[u] = NULL
        BY <1>1, <3>1, <3>4, Pointers DEF Remove, ListRecord
      <4> QED BY <1>1, <3>2, <4>1 DEF TailEnds
    <3> QED BY <3>3, <3>4
  <2> QED BY <2>1, <2>2
<1>4. ASSUME NEW t \in Tids, NEW way \in Ways, Exit(t, way) PROVE TailEnds'
  <2>1. return_list' = WithValue(way)
    BY <1>4 DEF Exit
  <2>2. CASE way # "value"
    BY <1>2, <2>1, <2>2 DEF WithValue
  <2>3. CASE way = "value"
    BY <1>1, <2>1, <2>3, Pointers DEF WithValue, Enqueue, TailEnds, ListRecord
  <2> QED BY <2>2, <2>3
<1>5. ASSUME NEW t \in Tids, JoinCall(t) PROVE TailEnds'
  BY <1>2, <1>3, <1>5, Pointers DEF JoinCall
<1>6. CASE JoinResume
  <2>1. join[current_thread] \in Ptr /\ Collect(join[current_thread])
    BY <1>1, <1>6 DEF JoinResume, Inv, TypeOK
  <2> QED BY <1>3, <2>1
<1>7. CASE Create \/ Yield \/ Tick \/ MainReturns \/ UNCHANGED vars
  BY <1>2, <1>7 DEF Create, Yield, Tick, MainReturns, vars
<1> QED BY <1>4, <1>5, <1>6, <1>7 DEF Next

(* A call that writes through a freed node of return_list is one nothing   *)
(* is claimed of.                                                          *)
LEMMA NodeIsWild ==
  ASSUME NEW l, NEW st, NEW seen, NEW over \in SUBSET Wild, "node" \in over,
         Schedule(l, st, seen, over)
  PROVE  mode' \in Wild
<1> DEFINE stray(T) == over \cup IF T \cap Freed # {} THEN {"tcb"} ELSE {}
<1>1. /\ \A T : stray(T) \in SUBSET Wild /\ "node" \in stray(T)
      /\ over \cup {"tcb"} \in SUBSET Wild
  BY DEF Wild
<1>2. \A kinds \in SUBSET Wild : "node" \in kinds => After(kinds) \subseteq Wild
  BY DEF After
<1>3. \/ \E T : mode' \in After(stray(T)) \/ mode' \in stray(T)
      \/ \E T : stray(T) = {}
      \/ mode' \in After(over \cup {"tcb"})
  <2> HIDE DEF stray
  <2> QED BY DEF Schedule, stray
<1> HIDE DEF stray
<1> QED BY <1>1, <1>2, <1>3

(* The value of a thread that exits is appended to return_list, and taking *)
(* one out keeps the others: no value is lost, whoever joins whom and      *)
(* however many have exited, unless it is linked in behind a freed node.   *)
THEOREM ValuesStayKept == Spec => ValuesKept
<1>1. ASSUME Inv, Numbered, Returned, TailEnds, [Next]_vars,
             mode' \notin Wild, NEW t \in unclaimed'
      PROVE  \/ t \in Members(return_list', Ret)
             \/ t \in unclaimed \ Members(return_list, Ret)
  <2> DEFINE Kept == \/ t \in Members(return_list', Ret)
                     \/ t \in unclaimed \ Members(return_list, Ret)
  <2>1. CASE UNCHANGED <<return_list, unclaimed>>
    BY <1>1, <2>1
  <2>2. ASSUME NEW u \in Ptr, Collect(u)
        PROVE  Kept
    BY <1>1, <2>2, CollectMembers
  <2>3. ASSUME NEW u \in Tids, NEW way \in Ways, Exit(u, way)
        PROVE  Kept
    <3>1. /\ mode = "on" /\ u = current_thread
          /\ return_list' = WithValue(way)
          /\ unclaimed' = IF way = "value" THEN unclaimed \cup {u} ELSE unclaimed
      BY <2>3 DEF Exit, Calling
    <3>2. CASE way = "value"
      <4>1. u \notin Members(return_list, Ret)
        BY <1>1, <3>1 DEF Returned, Freed
      <4>2. ~ StaleTail
        <5>1. \E l, st, seen : Schedule(l, st, seen, Overstepped(way))
          BY <2>3 DEF Exit
        <5>2. StaleTail => "node" \in Overstepped(way)
          BY <3>2 DEF Overstepped
        <5> QED BY <1>1, <5>1, <5>2, OversteppedWild, NodeIsWild
      <4>3. Holds(return_list, Ret, Members(return_list, Ret))
        BY <1>1, <4>2 DEF Holds, StaleTail, TailEnds, EndsAtTail
      <4>4. return_list \in ListRecord({Ret})
        BY <1>1 DEF Inv, TypeOK
      <4>5. Members(return_list', Ret) = Members(return_list, Ret) \cup {u}
        BY <3>1, <3>2, <4>1, <4>3, <4>4, EnqueueHolds DEF WithValue, Holds
      <4> QED BY <1>1, <3>1, <3>2, <4>5
    <3>3. CASE way # "value"
      BY <2>1, <3>1, <3>3 DEF WithValue
    <3> QED BY <3>2, <3>3
  <2>4. ASSUME NEW u \in Tids, JoinCall(u)
        PROVE  Kept
    BY <2>1, <2>2, <2>4, Pointers DEF JoinCall
  <2>5. CASE JoinResume
    <3>1. join[current_thread] \in Ptr /\ Collect(join[current_thread])
      BY <1>1, <2>5 DEF JoinResume, Inv, TypeOK
    <3> QED BY <2>2, <3>1
  <2>6. CASE Create \/ Yield \/ Tick \/ MainReturns \/ UNCHANGED vars
    BY <2>1, <2>6 DEF Create, Yield, Tick, MainReturns, vars
  <2> QED BY <1>1, <2>3, <2>4, <2>5, <2>6 DEF Next
<1>2. Inv /\ Numbered /\ Returned /\ TailEnds /\ [Next]_vars =>
        [mode' \notin Wild =>
           \A t \in unclaimed' :
             \/ t \in Members(return_list', Ret)
             \/ t \in unclaimed \ Members(return_list, Ret)]_vars
  BY <1>1
<1>3. Init => TailEnds
  BY DEF Init, TailEnds, EmptyLists
<1> QED
  BY <1>2, <1>3, InitInv, NextInv, InitNumbered, NextNumbered, NextTailEnds, PTL
  DEF Spec, ValuesKept
=============================================================================
