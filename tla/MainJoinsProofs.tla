-------------------------- MODULE MainJoinsProofs --------------------------
(***************************************************************************)
(* Theorems about Scheduler when only main joins, as in every test program *)
(* of the repository, for every number of threads: the queues hold what    *)
(* they must, a freed tcb is never used, and the library keeps the         *)
(* promise of ThreadLife.                                                  *)
(***************************************************************************)
EXTENDS MCScheduler, SchedulerProofs

MainJoins == Joins \subseteq {Main} \X Tids

-----------------------------------------------------------------------------
(* The threads that belong in run queue r, by their states st and their    *)
(* priorities pr, when c has the processor.                                *)
InRank(st, pr, c, r) ==
  {t \in Tids : t # c /\ st[t] = "READY" /\ pr[t] = r}

Exact ==
  \A r \in Ranks :
    Holds(q, r, InRank(thread_state, priority, current_thread, r))

(* The thread that has the processor may be marked READY: the switch away  *)
(* from an exited thread marks nothing.                                    *)
Turn ==
  /\ thread_state[current_thread] \in {"RUNNING", "READY"}
  /\ \A t \in Tids : t # current_thread => thread_state[t] # "RUNNING"

Fresh ==
  \A t \in Tids : /\ thread_state[t] = "NONE" <=> t \notin Created
                  /\ thread_state[t] = "NONE" => priority[t] = 0

Others ==
  \A t \in Tids \ {Main} :
    join[t] = 0 /\ at[t] = "user" /\ thread_state[t] # "WAITING"

(* Main is never taken out of the WaitQueue again.  It is found there only *)
(* by the exit of the thread that its join field names, which is over when *)
(* main runs on.                                                           *)
MainWaits ==
  /\ thread_state[Main] # "FREED"
  /\ q.head[WaitQueue] \in {NULL, Main}
  /\ q.tail[WaitQueue] = q.head[WaitQueue]
  /\ q.head[WaitQueue] = Main =>
       /\ join[Main] \in Live \cup Freed
       /\ thread_state[Main] = "WAITING" <=> join[Main] \in Live
  /\ thread_state[Main] = "WAITING" =>
       /\ q.head[WaitQueue] = Main /\ q.next[Main] = NULL
       /\ at[Main] = "join" /\ join[Main] # Main
  /\ at[Main] = "join" => q.head[WaitQueue] = Main

MainInv ==
  /\ Inv /\ Numbered /\ Returned
  /\ Exact /\ Turn /\ Fresh /\ Others /\ MainWaits
  /\ mode # "tcb"

-----------------------------------------------------------------------------
(* What schedule_threads does to a thread's state, apart from who runs.    *)
Settled(s) ==
  CASE s = "RUNNING" -> "READY" [] s = "EXITED" -> "FREED" [] OTHER -> s

(* The run queues before the head of one is taken: those the caller left,  *)
(* with the caller in its place if it stays runnable.                      *)
LEMMA RequeueHolds ==
  ASSUME NEW l \in ListRecord(TcbLists), NEW st \in [Tids -> States],
         NEW pr \in [Tids -> Ranks], NEW c \in Tids, NEW p \in Ranks,
         \A r \in Ranks : Holds(l, r, InRank(st, pr, c, r)),
         NEW r \in Ranks
  PROVE  Holds(Enqueue(l, p, c), r,
               IF r = p THEN InRank(st, pr, c, r) \cup {c}
               ELSE InRank(st, pr, c, r))
<1>1. p \in TcbLists /\ r \in TcbLists
  BY DEF TcbLists
<1>2. \A i \in Ranks : c \notin InRank(st, pr, c, i)
  BY DEF InRank
<1>3. CASE r = p
  BY <1>1, <1>2, <1>3, EnqueueHolds
<1>4. CASE r # p
  <2>1. InRank(st, pr, c, r) \cap InRank(st, pr, c, p) = {}
    BY <1>4 DEF InRank
  <2> QED BY <1>1, <1>2, <1>4, <2>1, EnqueueOther
<1> QED BY <1>3, <1>4

(* An invocation of schedule_threads by an action that leaves the lists l  *)
(* with the runnable threads in them, the thread states st, and somebody   *)
(* to run if the caller does not.                                          *)
LEMMA ScheduleExact ==
  ASSUME Inv, mode = "on",
         NEW l \in ListRecord(TcbLists), Acyclic(l),
         NEW st \in [Tids -> States],
         \A r \in Ranks : Holds(l, r, InRank(st, priority, current_thread, r)),
         \A t \in Tids : t # current_thread => st[t] \notin {"RUNNING", "EXITED"},
         st[current_thread] \in {"RUNNING", "READY", "WAITING", "EXITED"},
         st[current_thread] \in {"WAITING", "EXITED"} =>
           \E t \in Tids : t # current_thread /\ st[t] = "READY",
         \A t \in Tids : st[t] # "FREED" => t \notin Freed,
         NEW seen, seen \cap Freed = {},
         NEW over \in SUBSET {"node", "stack"}, Schedule(l, st, seen, over)
  PROVE  /\ Exact' /\ Turn' /\ mode' # "tcb"
         /\ \A t \in Tids : Settled(thread_state'[t]) = Settled(st[t])
         /\ \A t \in Tids : t # current_thread => priority'[t] = priority[t]
         /\ q'.head[WaitQueue] = l.head[WaitQueue]
         /\ q'.tail[WaitQueue] = l.tail[WaitQueue]
         /\ \A t \in Tids : st[t] = "WAITING" => q'.next[t] = l.next[t]
<1> DEFINE c       == current_thread
           gone    == st[c] = "EXITED"
           back    == Requeued(st[c])
           p0      == IF Boosted(priority[c], Charged(c)) THEN 0
                      ELSE priority[c]
           p       == IF back THEN Demoted(p0) ELSE p0
           l1      == IF back THEN Enqueue(l, p, c) ELSE l
           st1     == [st EXCEPT ![c] = IF back THEN "READY"
                                        ELSE IF gone THEN "FREED" ELSE @]
           seen1   == seen \cup IF back THEN EnqueueTouches(l, p) ELSE {}
           stray(T) == over \cup IF T \cap Freed # {} THEN {"tcb"} ELSE {}
           pr1     == [priority EXCEPT ![c] = IF gone THEN 0 ELSE p]
           A(r)    == InRank(st, priority, c, r)
           B       == [i \in Ranks |-> {t \in Tids : /\ st1[t] = "READY"
                                                     /\ pr1[t] = i}]
<1>1. c \in Tids /\ p \in Ranks /\ p \in TcbLists /\ WaitQueue \notin Ranks
  BY DEF Inv, TypeOK, Demoted, Ranks, MAX_PRIORITY, TcbLists, WaitQueue
<1>2. priority \in [Tids -> Ranks] /\ 0 \in Ranks
  BY DEF Inv, TypeOK, Ranks, MAX_PRIORITY
<1>3. /\ back <=> st[c] \in {"RUNNING", "READY"}
      /\ st1 \in [Tids -> States]
      /\ st1[c] = IF back THEN "READY" ELSE IF gone THEN "FREED" ELSE "WAITING"
      /\ \A t \in Tids \ {c} : st1[t] = st[t]
  BY <1>1 DEF Requeued, States
<1>4. /\ priority' = pr1 /\ pr1 \in [Tids -> Ranks]
      /\ pr1[c] = IF gone THEN 0 ELSE p
      /\ \A t \in Tids \ {c} : pr1[t] = priority[t]
  BY <1>1, <1>2 DEF Schedule
<1>5. l1 \in ListRecord(TcbLists) /\ Acyclic(l1)
  BY <1>1, EnqueueType, EnqueueAcyclic
<1> HIDE DEF p, l1, st1, pr1
<1>6. \A i \in Ranks : B[i] = A(i) \cup IF back /\ i = p THEN {c} ELSE {}
  <2> SUFFICES ASSUME NEW i \in Ranks
               PROVE  B[i] = A(i) \cup IF back /\ i = p THEN {c} ELSE {}
    OBVIOUS
  <2>1. ASSUME NEW t \in Tids
        PROVE  t \in B[i] <=> t \in A(i) \cup IF back /\ i = p THEN {c} ELSE {}
    <3>1. CASE t = c
      BY <1>1, <1>3, <1>4, <3>1 DEF InRank
    <3>2. CASE t # c
      BY <1>3, <1>4, <3>2 DEF InRank
    <3> QED BY <3>1, <3>2
  <2>2. A(i) \subseteq Tids
    BY DEF InRank
  <2> QED BY <1>1, <2>1, <2>2
<1>7. \A i \in Ranks : Holds(l1, i, B[i])
  <2> SUFFICES ASSUME NEW i \in Ranks PROVE Holds(l1, i, B[i])
    OBVIOUS
  <2>1. CASE back
    <3>1. Holds(Enqueue(l, p, c), i, IF i = p THEN A(i) \cup {c} ELSE A(i))
      BY <1>1, <1>2, RequeueHolds
    <3>2. B[i] = IF i = p THEN A(i) \cup {c} ELSE A(i)
      BY <1>6, <2>1
    <3> HIDE DEF B, A
    <3> QED BY <2>1, <3>1, <3>2 DEF l1
  <2>2. CASE ~ back
    <3>1. B[i] = A(i)
      BY <1>6, <2>2
    <3> QED BY <2>2, <3>1 DEF l1
  <2> QED BY <2>1, <2>2
<1>8. \A i, j \in Ranks : i # j => B[i] \cap B[j] = {}
  OBVIOUS
<1>9. Runnable(l1)
  <2>1. PICK t \in Tids : st1[t] = "READY"
    BY <1>1, <1>3
  <2>2. pr1[t] \in Ranks /\ t \in B[pr1[t]]
    BY <1>4, <2>1
  <2>3. t \in Members(l1, pr1[t])
    BY <1>7, <2>2 DEF Holds
  <2> QED BY <2>2, <2>3 DEF Runnable, Members, From
<1>10. PICK r \in Ranks :
         /\ IsFirstRank(l1, r)
         /\ q' = Dequeue(l1, r)
         /\ current_thread' = l1.head[r]
         /\ thread_state' = IF gone THEN st1
                            ELSE [st1 EXCEPT ![l1.head[r]] = "RUNNING"]
         /\ mode' \in After(IF st1[l1.head[r]] = "FREED"
                            THEN over \cup {"tcb"}
                            ELSE stray(seen1 \cup {l1.head[r]}))
  BY <1>9 DEF Schedule, l1, st1, p
<1> DEFINE h == l1.head[r]
<1>11. /\ h # NULL
       /\ \A i \in Ranks : Holds(q', i, B[i] \ {h})
       /\ h \in B[r]
  <2>1. h # NULL
    BY <1>10 DEF IsFirstRank
  <2> HIDE DEF B
  <2> QED BY <1>5, <1>7, <1>8, <1>10, <2>1, PickHolds
<1>12. h \in Tids /\ st1[h] = "READY" /\ pr1[h] = r
  BY <1>11
<1> HIDE DEF h
<1>13. /\ \A t \in Tids \ {h} : thread_state'[t] = st1[t]
       /\ thread_state'[h] \in {"RUNNING", "READY"}
       /\ current_thread' = h
  BY <1>3, <1>10, <1>12 DEF h
<1>14. Exact'
  <2> SUFFICES ASSUME NEW i \in Ranks
               PROVE  Holds(q', i, InRank(thread_state', pr1, h, i))
    BY <1>4, <1>13 DEF Exact
  <2>1. InRank(thread_state', pr1, h, i) = B[i] \ {h}
    BY <1>13 DEF InRank
  <2> QED BY <1>11, <2>1
<1>15. Turn'
  BY <1>1, <1>3, <1>13 DEF Turn
<1>16. mode' # "tcb"
  <2>1. h \notin Freed /\ c \notin Freed
    BY <1>1, <1>3, <1>12
  <2>2. back => EnqueueTouches(l, p) \cap Freed = {}
    <3>1. EnqueueTouches(l, p) \subseteq A(p)
      <4>1. Holds(l, p, A(p))
        BY <1>1
      <4> QED BY <4>1 DEF EnqueueTouches, Holds, EndsAtTail
    <3>2. A(p) \cap Freed = {}
      BY DEF InRank
    <3> QED BY <3>1, <3>2
  <2>3. seen1 \cap Freed = {}
    BY <2>2
  <2> HIDE DEF seen1
  <2>4. stray(seen1 \cup {h}) = over
    BY <2>1, <2>3
  <2>5. "tcb" \notin After(over)
    BY DEF After
  <2> HIDE DEF stray
  <2> QED BY <1>10, <1>12, <2>4, <2>5 DEF h
<1>17. \A t \in Tids : Settled(thread_state'[t]) = Settled(st[t])
  <2> SUFFICES ASSUME NEW t \in Tids
               PROVE  Settled(thread_state'[t]) = Settled(st[t])
    OBVIOUS
  <2>1. Settled(st1[t]) = Settled(st[t])
    BY <1>1, <1>3 DEF Settled
  <2>2. Settled(thread_state'[t]) = Settled(st1[t])
    BY <1>12, <1>13 DEF Settled
  <2> QED BY <2>1, <2>2
<1>18. /\ q'.head[WaitQueue] = l1.head[WaitQueue]
       /\ q'.tail[WaitQueue] = l1.tail[WaitQueue]
       /\ \A t \in Tids \ {h} : q'.next[t] = l1.next[t]
  BY <1>1, <1>5, <1>10, <1>12 DEF Dequeue, ListRecord, h, TcbLists
<1>19. /\ l1.head[WaitQueue] = l.head[WaitQueue]
       /\ l1.tail[WaitQueue] = l.tail[WaitQueue]
       /\ \A t \in Tids : st[t] = "WAITING" => l1.next[t] = l.next[t]
  <2>1. CASE ~ back
    BY <2>1 DEF l1
  <2>2. CASE back
    <3>1. l.head[p] # NULL => l.tail[p] \in A(p)
      <4>1. Holds(l, p, A(p))
        BY <1>1
      <4> QED BY <4>1 DEF Holds, EndsAtTail
    <3>2. \A t \in Tids : st[t] = "WAITING" => t # c /\ t \notin A(p)
      BY <1>3, <2>2 DEF InRank
    <3> HIDE DEF A, back
    <3> QED BY <1>1, <2>2, <3>1, <3>2 DEF l1, Enqueue, ListRecord, TcbLists
  <2> QED BY <2>1, <2>2
<1>20. \A t \in Tids : st[t] = "WAITING" => q'.next[t] = l.next[t]
  <2>1. \A t \in Tids : st[t] = "WAITING" => t # h
    BY <1>3, <1>12
  <2> QED BY <1>18, <1>19, <2>1
<1>21. \A t \in Tids : t # c => priority'[t] = priority[t]
  BY <1>4
<1> QED BY <1>14, <1>15, <1>16, <1>17, <1>18, <1>19, <1>20, <1>21

LEMMA SettledStates ==
  ASSUME NEW s \in States \ {"EXITED"}, NEW old \in States,
         Settled(s) = Settled(old)
  PROVE  /\ s = "NONE" <=> old = "NONE"
         /\ s = "WAITING" <=> old = "WAITING"
         /\ s = "FREED" <=> old \in {"FREED", "EXITED"}
BY DEF Settled, States

-----------------------------------------------------------------------------
(* Who is in what state between calls.                                     *)
LEMMA Standing ==
  ASSUME MainInv
  PROVE  /\ current_thread \in Tids /\ current_thread \in Live
         /\ current_thread \notin Freed /\ Main \in Tids
         /\ thread_state \in [Tids -> States]
         /\ \A t \in Tids : t # current_thread =>
              thread_state[t] \in {"NONE", "READY", "WAITING", "FREED"}
         /\ current_thread # Main => thread_state[Main] \in {"READY", "WAITING"}
<1>1. /\ current_thread \in Tids /\ Main \in Tids
      /\ thread_state \in [Tids -> States \ {"EXITED"}]
  BY MaxTidAssumption DEF MainInv, Inv, TypeOK, Main, Tids
<1>2. \A t \in Tids : t # current_thread =>
         thread_state[t] \in {"NONE", "READY", "WAITING", "FREED"}
  BY <1>1 DEF MainInv, Turn, States
<1>3. thread_state[Main] # "NONE" /\ thread_state[Main] # "FREED"
  BY <1>1 DEF MainInv, Fresh, Created, MainWaits
<1>4. thread_state[current_thread] \in {"RUNNING", "READY"}
  BY DEF MainInv, Turn
<1> QED BY <1>1, <1>2, <1>3, <1>4 DEF Live, Freed

(* What the searches of the queues come across: no tcb that is freed, and  *)
(* nobody who waits for the thread that exits but main.                    *)
LEMMA Searches ==
  ASSUME MainInv
  PROVE  /\ \A r \in Ranks :
              /\ Members(q, r) \cap Freed = {}
              /\ EnqueueTouches(q, r) \subseteq Members(q, r)
         /\ current_thread # Main => Members(q, WaitQueue) \cap Freed = {}
         /\ current_thread # Main =>
              Waiters = IF /\ thread_state[Main] = "WAITING"
                           /\ join[Main] = current_thread
                        THEN {Main} ELSE {}
<1>1. ASSUME NEW r \in Ranks
      PROVE  /\ Members(q, r) \cap Freed = {}
             /\ EnqueueTouches(q, r) \subseteq Members(q, r)
             /\ Members(q, r) \subseteq
                  {t \in Tids : t # current_thread /\ thread_state[t] = "READY"}
  <2>1. Holds(q, r, InRank(thread_state, priority, current_thread, r))
    BY DEF MainInv, Exact
  <2> QED BY <2>1 DEF Holds, InRank, Freed, EnqueueTouches, EndsAtTail
<1>2. ASSUME current_thread # Main
      PROVE  /\ Members(q, WaitQueue) \cap Freed = {}
             /\ Waiters = IF /\ thread_state[Main] = "WAITING"
                             /\ join[Main] = current_thread
                          THEN {Main} ELSE {}
  <2>1. /\ q \in ListRecord(TcbLists) /\ priority \in [Tids -> Ranks]
        /\ join \in [Tids -> Ptr]
        /\ Main \in Ptr /\ Main # NULL /\ NULL \in Ptr
        /\ current_thread # 0 /\ Main \in Tids
    BY Standing, Pointers DEF MainInv, Inv, TypeOK, Main, NULL
  <2>2. /\ q.head[WaitQueue] \in {NULL, Main}
        /\ thread_state[Main] = "WAITING" =>
             q.head[WaitQueue] = Main /\ q.next[Main] = NULL
        /\ q.head[WaitQueue] = Main => join[Main] \in Live \cup Freed
        /\ q.head[WaitQueue] = Main =>
             (thread_state[Main] = "WAITING" <=> join[Main] \in Live)
    BY DEF MainInv, MainWaits
  <2>3. \A t \in Tids \ {Main} : join[t] = 0
    BY DEF MainInv, Others
  <2>4. current_thread \in Live
    BY Standing
  <2>5. CASE q.head[WaitQueue] = NULL
    <3>1. Members(q, WaitQueue) = {}
      BY <2>5 DEF Members, From
    <3>2. thread_state[Main] # "WAITING"
      BY <2>1, <2>2, <2>5
    <3> QED BY <3>1, <3>2 DEF Waiters
  <2>6. CASE q.head[WaitQueue] = Main
    <3> DEFINE W == Members(q, WaitQueue)
    <3>1. W = From(q, Main) /\ Main \in W /\ W \subseteq Tids
      BY <2>1, <2>6, FromClosed DEF Members
    <3>2. W \cap Freed = {}
      <4>1. CASE thread_state[Main] = "WAITING"
        <5>1. From(q, NULL) = {}
          BY DEF From
        <5>2. W = {Main}
          BY <2>1, <2>2, <3>1, <4>1, <5>1, FromStep
        <5> QED BY <4>1, <5>2 DEF Freed
      <4>2. CASE thread_state[Main] = "READY"
        <5> DEFINE r == priority[Main]
                   R == Members(q, r)
        <5>1. r \in Ranks /\ r \in TcbLists
          BY <2>1 DEF TcbLists
        <5>2. Main \in R
          BY <1>2, <2>1, <4>2, <5>1 DEF MainInv, Exact, Holds, InRank
        <5>3. q.head[r] \in Ptr
          BY <2>1, <5>1 DEF ListRecord
        <5>4. Closed(q, R) /\ R \in SUBSET Tids
          BY <2>1, <5>3, FromClosed DEF Members
        <5>5. W \subseteq R
          BY <3>1, <5>2, <5>4, FromLeast
        <5>6. R \cap Freed = {}
          BY <1>1, <5>1
        <5> QED BY <5>5, <5>6
      <4> QED BY <1>2, <4>1, <4>2, Standing
    <3>3. Waiters = IF join[Main] = current_thread THEN {Main} ELSE {}
      BY <2>1, <2>3, <3>1 DEF Waiters
    <3>4. join[Main] = current_thread => thread_state[Main] = "WAITING"
      BY <2>2, <2>4, <2>6
    <3> QED BY <3>2, <3>3, <3>4
  <2> QED BY <2>2, <2>5, <2>6
<1> QED BY <1>1, <1>2

(* search_by_tid comes across nobody else.                                 *)
LEMMA SearchesSpare ==
  ASSUME MainInv, NEW t
  PROVE  Searched(t) \cap Freed = {}
<1>1. \A r \in Ranks : Upto(r, t) \cap Freed = {}
  BY Searches DEF Upto
<1> QED BY <1>1 DEF Searched

(* What an exit may do to freed memory that is no tcb.                     *)
LEMMA OversteppedNoTcb ==
  ASSUME NEW way
  PROVE  Overstepped(way) \in SUBSET {"node", "stack"}
BY DEF Overstepped

(* ScheduleExact for a caller in the invariant, with what becomes of each  *)
(* thread.                                                                 *)
LEMMA ScheduleStep ==
  ASSUME MainInv, Inv', mode = "on",
         NEW l \in ListRecord(TcbLists), Acyclic(l),
         NEW st \in [Tids -> States],
         \A r \in Ranks : Holds(l, r, InRank(st, priority, current_thread, r)),
         \A t \in Tids : t # current_thread => st[t] \notin {"RUNNING", "EXITED"},
         st[current_thread] \in {"RUNNING", "READY", "WAITING", "EXITED"},
         st[current_thread] \in {"WAITING", "EXITED"} =>
           \E t \in Tids : t # current_thread /\ st[t] = "READY",
         \A t \in Tids : st[t] # "FREED" => t \notin Freed,
         NEW seen, seen \cap Freed = {},
         NEW over \in SUBSET {"node", "stack"}, Schedule(l, st, seen, over)
  PROVE  /\ Exact' /\ Turn' /\ mode' # "tcb"
         /\ \A t \in Tids :
              /\ thread_state'[t] = "NONE" <=> st[t] = "NONE"
              /\ thread_state'[t] = "WAITING" <=> st[t] = "WAITING"
              /\ thread_state'[t] = "FREED" <=> st[t] \in {"FREED", "EXITED"}
              /\ t # current_thread => priority'[t] = priority[t]
         /\ q'.head[WaitQueue] = l.head[WaitQueue]
         /\ q'.tail[WaitQueue] = l.tail[WaitQueue]
         /\ \A t \in Tids : st[t] = "WAITING" => q'.next[t] = l.next[t]
<1>1. /\ Exact' /\ Turn' /\ mode' # "tcb"
      /\ \A t \in Tids : Settled(thread_state'[t]) = Settled(st[t])
      /\ \A t \in Tids : t # current_thread => priority'[t] = priority[t]
      /\ q'.head[WaitQueue] = l.head[WaitQueue]
      /\ q'.tail[WaitQueue] = l.tail[WaitQueue]
      /\ \A t \in Tids : st[t] = "WAITING" => q'.next[t] = l.next[t]
  BY ScheduleExact DEF MainInv
<1>2. \A t \in Tids : /\ thread_state'[t] \in States \ {"EXITED"}
                      /\ st[t] \in States
  BY DEF Inv, TypeOK
<1> QED BY <1>1, <1>2, SettledStates

-----------------------------------------------------------------------------
(* The variable waits of ThreadLife, in the state of the library.          *)
Waits == [u \in Tids |-> IF thread_state[u] = "WAITING" THEN join[u] ELSE 0]

(* A new thread is appended to the first rank, whose tail is not freed.    *)
LEMMA CreateMain ==
  ASSUME MainInv, Inv', Numbered', Create
  PROVE  /\ Exact' /\ Turn' /\ Fresh' /\ Others' /\ MainWaits'
         /\ mode' # "tcb"
         /\ \E t \in Tids : Life!Start(t)
<1> DEFINE tid == IF number_of_threads = 0 THEN 2 ELSE number_of_threads + 1
           l   == Enqueue(q, 0, tid)
           st  == [thread_state EXCEPT ![tid] = "READY"]
           c   == current_thread
<1>1. /\ mode = "on" /\ number_of_threads' = tid /\ tid <= MaxTid
      /\ Schedule(l, st, EnqueueTouches(q, 0), {})
      /\ UNCHANGED <<return_list, join, at, unclaimed, joined>>
  BY DEF Create
<1>2. /\ tid \in Tids /\ tid \notin Created /\ tid # Main
      /\ Created' = Created \cup {tid} /\ Main \in Created
  <2>1. /\ number_of_threads \in Nat /\ number_of_threads < tid /\ tid \in Tids
        /\ Main \in Tids /\ tid # Main
        /\ number_of_threads = 0 \/ tid = number_of_threads + 1
        /\ number_of_threads = 0 => tid = 2
    BY <1>1, MaxTidAssumption DEF MainInv, Inv, TypeOK, Tids, Main
  <2>2. \A t \in Tids : /\ t \in Nat \ {0}
                        /\ t <= tid <=> \/ t <= number_of_threads \/ t = tid
                                        \/ number_of_threads = 0 /\ t = Main
    BY <2>1 DEF Tids, Main
  <2> QED BY <1>1, <2>1, <2>2 DEF Created
<1> HIDE DEF tid
<1>3. /\ thread_state[tid] = "NONE" /\ priority[tid] = 0 /\ tid # c
      /\ c \in Tids /\ thread_state \in [Tids -> States]
  BY <1>2, Standing DEF MainInv, Fresh, Numbered
<1>4. /\ q \in ListRecord(TcbLists) /\ Acyclic(q) /\ 0 \in Ranks /\ 0 \in TcbLists
      /\ WellFormed(q, TcbLists)
  BY DEF MainInv, Inv, TypeOK, WellFormed, TcbLists, Ranks, MAX_PRIORITY
<1>5. l \in ListRecord(TcbLists) /\ Acyclic(l)
  BY <1>2, <1>4, EnqueueType, EnqueueWellFormed DEF WellFormed
<1>6. /\ st \in [Tids -> States] /\ st[tid] = "READY"
      /\ \A t \in Tids \ {tid} : st[t] = thread_state[t]
  BY <1>2, <1>3 DEF States
<1>7. ASSUME NEW r \in Ranks
      PROVE  Holds(l, r, InRank(st, priority, c, r))
  <2> DEFINE A(i) == InRank(thread_state, priority, c, i)
  <2>1. Holds(q, 0, A(0)) /\ Holds(q, r, A(r)) /\ r \in TcbLists
    BY <1>4 DEF MainInv, Exact, TcbLists
  <2>2. \A i : tid \notin A(i)
    BY <1>3 DEF InRank
  <2>3. InRank(st, priority, c, r) = A(r) \cup IF r = 0 THEN {tid} ELSE {}
    BY <1>2, <1>3, <1>6 DEF InRank
  <2>4. r # 0 => A(r) \cap A(0) = {}
    BY DEF InRank
  <2> HIDE DEF A, st
  <2>5. CASE r = 0
    BY <1>2, <1>4, <2>1, <2>2, <2>3, <2>5, EnqueueHolds
  <2>6. CASE r # 0
    BY <1>2, <1>4, <2>1, <2>2, <2>3, <2>4, <2>6, EnqueueOther
  <2> QED BY <2>5, <2>6
<1>8. EnqueueTouches(q, 0) \cap Freed = {}
  BY <1>4, Searches
<1>9. /\ \A t \in Tids : t # c => st[t] \notin {"RUNNING", "EXITED"}
      /\ st[c] \in {"RUNNING", "READY"}
      /\ \A t \in Tids : st[t] # "FREED" => t \notin Freed
  BY <1>2, <1>3, <1>6, Standing DEF MainInv, Turn, Freed
<1>10. /\ l.head[WaitQueue] = q.head[WaitQueue]
       /\ l.tail[WaitQueue] = q.tail[WaitQueue]
       /\ thread_state[Main] = "WAITING" => l.next[Main] = q.next[Main]
  <2>1. Main \notin Members(q, 0) \/ thread_state[Main] # "WAITING"
    BY <1>4 DEF MainInv, Exact, Holds, InRank
  <2>2. q.head[0] # NULL => q.tail[0] \in Members(q, 0)
    BY <1>4 DEF MainInv, Exact, Holds, EndsAtTail
  <2> QED
    BY <1>2, <1>4, <2>1, <2>2, Standing
    DEF Enqueue, ListRecord, WaitQueue, TcbLists
<1> HIDE DEF l, st
<1>11. /\ Exact' /\ Turn' /\ mode' # "tcb"
       /\ \A t \in Tids :
            /\ thread_state'[t] = "NONE" <=> st[t] = "NONE"
            /\ thread_state'[t] = "WAITING" <=> st[t] = "WAITING"
            /\ thread_state'[t] = "FREED" <=> st[t] \in {"FREED", "EXITED"}
            /\ t # c => priority'[t] = priority[t]
       /\ q'.head[WaitQueue] = l.head[WaitQueue]
       /\ q'.tail[WaitQueue] = l.tail[WaitQueue]
       /\ \A t \in Tids : st[t] = "WAITING" => q'.next[t] = l.next[t]
  BY <1>1, <1>5, <1>6, <1>7, <1>8, <1>9, ScheduleStep
<1>12. /\ \A t \in Tids \ {tid} :
            /\ thread_state'[t] = "NONE" <=> thread_state[t] = "NONE"
            /\ thread_state'[t] = "WAITING" <=> thread_state[t] = "WAITING"
            /\ thread_state'[t] = "FREED" <=> thread_state[t] = "FREED"
       /\ thread_state'[tid] \notin {"NONE", "WAITING", "FREED"}
  <2>1. \A t \in Tids : thread_state[t] # "EXITED"
    BY DEF MainInv, Inv, TypeOK
  <2> QED BY <1>2, <1>6, <1>11, <2>1
<1>13. Live' = Live \cup {tid} /\ Freed' = Freed /\ tid \notin Live \cup Freed
  BY <1>2, <1>3, <1>12 DEF Live, Freed
<1>14. Fresh'
  <2>1. ASSUME NEW t \in Tids
        PROVE  /\ thread_state'[t] = "NONE" <=> t \notin Created'
               /\ thread_state'[t] = "NONE" => priority'[t] = 0
    <3>1. /\ thread_state[t] = "NONE" <=> t \notin Created
          /\ thread_state[t] = "NONE" => priority[t] = 0
          /\ thread_state[t] = "NONE" => t # c
      BY Standing DEF MainInv, Fresh, Live
    <3> QED BY <1>2, <1>11, <1>12, <3>1
  <2> QED BY <2>1 DEF Fresh
<1>15. Others'
  BY <1>1, <1>2, <1>12 DEF MainInv, Others
<1>16. MainWaits'
  <2>1. /\ thread_state'[Main] # "FREED"
        /\ thread_state'[Main] = "WAITING" <=> thread_state[Main] = "WAITING"
        /\ thread_state[Main] = "WAITING" => q'.next[Main] = q.next[Main]
    BY <1>2, <1>6, <1>10, <1>11, <1>12, Standing DEF MainInv, MainWaits
  <2>2. q'.head[WaitQueue] = q.head[WaitQueue] /\ q'.tail[WaitQueue] = q.tail[WaitQueue]
    BY <1>10, <1>11
  <2>3. join[Main] \in Live \cup Freed =>
          /\ join[Main] \in Live' \cup Freed'
          /\ join[Main] \in Live' <=> join[Main] \in Live
    BY <1>13
  <2>4. join' = join /\ at' = at
    BY <1>1
  <2>5. MainWaits
    BY DEF MainInv
  <2> QED BY <2>1, <2>2, <2>3, <2>4, <2>5 DEF MainWaits
<1>17. Waits' = Waits
  BY <1>1, <1>2, <1>3, <1>12 DEF Waits
<1>18. Life!Start(tid)
  BY <1>1, <1>13, <1>17 DEF Life!Start, Waits
<1> QED BY <1>2, <1>11, <1>14, <1>15, <1>16, <1>18

(* A yield or a tick only moves threads between the run queues.            *)
LEMMA TurnMain ==
  ASSUME MainInv, Inv', Yield \/ Tick
  PROVE  /\ Exact' /\ Turn' /\ Fresh' /\ Others' /\ MainWaits'
         /\ mode' # "tcb"
         /\ UNCHANGED <<Live, Freed, Waits, joined>>
<1> DEFINE c == current_thread
<1>1. /\ mode = "on" /\ Schedule(q, thread_state, {}, {})
      /\ UNCHANGED <<number_of_threads, join, at, joined>>
  BY DEF Yield, Tick, Calling
<1>2. /\ q \in ListRecord(TcbLists) /\ Acyclic(q)
      /\ thread_state \in [Tids -> States]
      /\ \A t \in Tids : thread_state[t] # "EXITED"
  BY DEF MainInv, Inv, TypeOK, WellFormed
<1>3. /\ \A r \in Ranks : Holds(q, r, InRank(thread_state, priority, c, r))
      /\ \A t \in Tids : t # c => thread_state[t] # "RUNNING"
      /\ thread_state[c] \in {"RUNNING", "READY"}
      /\ \A t \in Tids : thread_state[t] # "FREED" => t \notin Freed
  BY DEF MainInv, Exact, Turn, Freed
<1>4. /\ Exact' /\ Turn' /\ mode' # "tcb"
      /\ \A t \in Tids :
           /\ thread_state'[t] = "NONE" <=> thread_state[t] = "NONE"
           /\ thread_state'[t] = "WAITING" <=> thread_state[t] = "WAITING"
           /\ thread_state'[t] = "FREED" <=> thread_state[t] \in {"FREED", "EXITED"}
           /\ t # c => priority'[t] = priority[t]
      /\ q'.head[WaitQueue] = q.head[WaitQueue]
      /\ q'.tail[WaitQueue] = q.tail[WaitQueue]
      /\ \A t \in Tids : thread_state[t] = "WAITING" => q'.next[t] = q.next[t]
  BY <1>1, <1>2, <1>3, ScheduleStep
<1>5. Live' = Live /\ Freed' = Freed /\ Waits' = Waits
  BY <1>1, <1>2, <1>4 DEF Live, Freed, Waits
<1>6. Fresh'
  BY <1>1, <1>3, <1>4 DEF MainInv, Fresh, Created
<1>7. Others'
  BY <1>1, <1>4 DEF MainInv, Others
<1>8. MainWaits'
  <2>1. Main \in Tids
    BY Standing
  <2> QED BY <1>1, <1>2, <1>4, <1>5, <2>1 DEF MainInv, MainWaits
<1> QED BY <1>1, <1>4, <1>5, <1>6, <1>7, <1>8

(* What my_pthread_exit leaves to schedule_threads: main goes back to its  *)
(* run queue exactly if it waits for the thread that exits.                *)
LEMMA ExitLeaves ==
  ASSUME MainInv, NEW c \in Tids, NEW way \in Ways, Exit(c, way)
  PROVE  \E l, st, seen :
           /\ Schedule(l, st, seen, Overstepped(way)) /\ seen \cap Freed = {}
           /\ l \in ListRecord(TcbLists) /\ Acyclic(l)
           /\ st \in [Tids -> States] /\ st[c] = "EXITED"
           /\ \A t \in Tids \ {c} : st[t] =
                IF /\ t = Main
                   /\ thread_state[Main] = "WAITING" /\ join[Main] = c
                THEN "READY" ELSE thread_state[t]
           /\ \A r \in Ranks : Holds(l, r, InRank(st, priority, c, r))
           /\ l.head[WaitQueue] = q.head[WaitQueue]
           /\ l.tail[WaitQueue] = q.tail[WaitQueue]
           /\ st[Main] = "WAITING" => l.next[Main] = q.next[Main]
<1>1. /\ c = current_thread /\ c # Main /\ Main \in Tids
      /\ q \in ListRecord(TcbLists) /\ WellFormed(q, TcbLists)
      /\ thread_state \in [Tids -> States] /\ priority \in [Tids -> Ranks]
  BY Standing DEF Exit, MainInv, Inv, TypeOK
<1>2. \A r \in Ranks : Holds(q, r, InRank(thread_state, priority, c, r))
  BY <1>1 DEF MainInv, Exact
<1>3. /\ Members(q, WaitQueue) \cap Freed = {}
      /\ Waiters = IF thread_state[Main] = "WAITING" /\ join[Main] = c
                   THEN {Main} ELSE {}
  BY <1>1, Searches
<1>4. CASE Waiters = {} /\ Schedule(q, [thread_state EXCEPT ![c] = "EXITED"],
                                    Members(q, WaitQueue), Overstepped(way))
  <2> DEFINE st == [thread_state EXCEPT ![c] = "EXITED"]
  <2>1. /\ st \in [Tids -> States] /\ st[c] = "EXITED"
        /\ \A t \in Tids \ {c} : st[t] = thread_state[t]
    BY <1>1 DEF States
  <2>2. \A r : InRank(st, priority, c, r) = InRank(thread_state, priority, c, r)
    BY <2>1 DEF InRank
  <2>3. Acyclic(q)
    BY <1>1 DEF WellFormed
  <2>4. ~ (thread_state[Main] = "WAITING" /\ join[Main] = c)
    BY <1>3, <1>4
  <2> HIDE DEF st
  <2>5. /\ Schedule(q, st, Members(q, WaitQueue), Overstepped(way))
        /\ \A r \in Ranks : Holds(q, r, InRank(st, priority, c, r))
    BY <1>2, <1>4, <2>2 DEF st
  <2> QED BY <1>1, <1>3, <2>1, <2>3, <2>4, <2>5
<1>5. ASSUME NEW w \in Tids, IsFirstWaiter(w),
             Schedule(Woken(w),
               [[thread_state EXCEPT ![w] = "READY"] EXCEPT ![c] = "EXITED"],
               Upto(WaitQueue, w) \cup EnqueueTouches(q, priority[w]),
               Overstepped(way))
      PROVE  \E l, st, seen :
           /\ Schedule(l, st, seen, Overstepped(way)) /\ seen \cap Freed = {}
           /\ l \in ListRecord(TcbLists) /\ Acyclic(l)
           /\ st \in [Tids -> States] /\ st[c] = "EXITED"
           /\ \A t \in Tids \ {c} : st[t] =
                IF /\ t = Main
                   /\ thread_state[Main] = "WAITING" /\ join[Main] = c
                THEN "READY" ELSE thread_state[t]
           /\ \A r \in Ranks : Holds(l, r, InRank(st, priority, c, r))
           /\ l.head[WaitQueue] = q.head[WaitQueue]
           /\ l.tail[WaitQueue] = q.tail[WaitQueue]
           /\ st[Main] = "WAITING" => l.next[Main] = q.next[Main]
  <2> DEFINE st == [[thread_state EXCEPT ![w] = "READY"] EXCEPT ![c] = "EXITED"]
             l  == Woken(w)
             p  == priority[w]
             seen == Upto(WaitQueue, w) \cup EnqueueTouches(q, p)
             A(r) == InRank(thread_state, priority, c, r)
  <2>1. w = Main /\ thread_state[Main] = "WAITING" /\ join[Main] = c
    BY <1>3, <1>5 DEF IsFirstWaiter
  <2>2. /\ st \in [Tids -> States] /\ st[c] = "EXITED" /\ st[Main] = "READY"
        /\ \A t \in Tids \ {c, Main} : st[t] = thread_state[t]
    BY <1>1, <2>1 DEF States
  <2>3. p \in Ranks /\ p \in TcbLists /\ WaitQueue \in TcbLists /\ WaitQueue # p
    BY <1>1 DEF TcbLists, Ranks, MAX_PRIORITY, WaitQueue
  <2>4. l = Enqueue(q, p, Main)
    BY <2>1 DEF Woken
  <2>5. l \in ListRecord(TcbLists) /\ Acyclic(l)
    BY <1>1, <2>3, <2>4, EnqueueType, EnqueueWellFormed DEF WellFormed
  <2>6. \A r \in Ranks : Main \notin A(r)
    BY <2>1 DEF InRank
  <2> HIDE DEF st, l, p, seen
  <2>7. ASSUME NEW r \in Ranks
        PROVE  Holds(l, r, InRank(st, priority, c, r))
    <3>1. InRank(st, priority, c, r) = A(r) \cup IF r = p THEN {Main} ELSE {}
      BY <1>1, <2>1, <2>2 DEF InRank, p
    <3>2. r \in TcbLists /\ (r # p => A(r) \cap A(p) = {})
      BY DEF TcbLists, InRank
    <3> HIDE DEF A
    <3>3. Holds(q, r, A(r)) /\ Holds(q, p, A(p))
      BY <1>2, <2>3 DEF A
    <3>4. CASE r = p
      BY <1>1, <2>3, <2>4, <2>6, <3>1, <3>3, <3>4, EnqueueHolds
    <3>5. CASE r # p
      BY <1>1, <2>3, <2>4, <2>6, <3>1, <3>2, <3>3, <3>5, EnqueueOther
    <3> QED BY <3>4, <3>5
  <2>8. seen \cap Freed = {}
    <3>1. EnqueueTouches(q, p) \cap Freed = {}
      BY <2>3, Searches
    <3> QED BY <1>3, <3>1 DEF seen, Upto
  <2>9. l.head[WaitQueue] = q.head[WaitQueue] /\ l.tail[WaitQueue] = q.tail[WaitQueue]
    BY <1>1, <2>3, <2>4 DEF Enqueue, ListRecord
  <2>10. Schedule(l, st, seen, Overstepped(way))
    BY <1>5 DEF l, st, seen, p
  <2>11. \A t \in Tids \ {c} : st[t] =
           IF t = Main /\ thread_state[Main] = "WAITING" /\ join[Main] = c
           THEN "READY" ELSE thread_state[t]
    BY <2>1, <2>2
  <2> QED BY <1>1, <2>2, <2>5, <2>7, <2>8, <2>9, <2>10, <2>11
<1> QED BY <1>4, <1>5 DEF Exit

(* The exit of a thread: main is there to run on, or another thread main   *)
(* waits for.                                                              *)
LEMMA ExitMain ==
  ASSUME MainInv, Inv', NEW c \in Tids, NEW way \in Ways, Exit(c, way)
  PROVE  /\ Exact' /\ Turn' /\ Fresh' /\ Others' /\ MainWaits'
         /\ mode' # "tcb"
         /\ Life!Finish(c)
<1> DEFINE woken == thread_state[Main] = "WAITING" /\ join[Main] = c
<1>1. /\ mode = "on" /\ c = current_thread /\ c # Main
      /\ UNCHANGED <<number_of_threads, join, at, joined>>
  BY DEF Exit, Calling
<1>2. /\ c \in Live /\ c \notin Freed /\ Main \in Tids
      /\ thread_state \in [Tids -> States]
      /\ thread_state[Main] \in {"READY", "WAITING"}
      /\ \A t \in Tids \ {c} :
           thread_state[t] \in {"NONE", "READY", "WAITING", "FREED"}
      /\ thread_state[c] \notin {"NONE", "WAITING", "FREED"}
  BY <1>1, Standing DEF MainInv, Turn
<1>3. PICK l, st, seen :
        /\ Schedule(l, st, seen, Overstepped(way)) /\ seen \cap Freed = {}
        /\ l \in ListRecord(TcbLists) /\ Acyclic(l)
        /\ st \in [Tids -> States] /\ st[c] = "EXITED"
        /\ \A t \in Tids \ {c} : st[t] =
             IF t = Main /\ woken THEN "READY" ELSE thread_state[t]
        /\ \A r \in Ranks : Holds(l, r, InRank(st, priority, c, r))
        /\ l.head[WaitQueue] = q.head[WaitQueue]
        /\ l.tail[WaitQueue] = q.tail[WaitQueue]
        /\ st[Main] = "WAITING" => l.next[Main] = q.next[Main]
  BY ExitLeaves
<1>4. MainWaits /\ Others /\ Fresh
  BY DEF MainInv
<1>5. \E t \in Tids : t # c /\ st[t] = "READY"
  <2>1. CASE thread_state[Main] = "READY" \/ woken
    BY <1>1, <1>2, <1>3, <2>1
  <2>2. CASE thread_state[Main] = "WAITING" /\ join[Main] # c
    <3> DEFINE u == join[Main]
    <3>1. u \in Live /\ u # Main /\ u # c
      BY <2>2, <1>4 DEF MainWaits
    <3>2. u \in Tids /\ thread_state[u] = "READY"
      BY <1>2, <1>4, <3>1 DEF Live, Others
    <3> QED BY <1>3, <3>1, <3>2
  <2> QED BY <1>2, <2>1, <2>2
<1>6. /\ \A t \in Tids : t # current_thread => st[t] \notin {"RUNNING", "EXITED"}
      /\ st[current_thread] \in {"RUNNING", "READY", "WAITING", "EXITED"}
      /\ \A t \in Tids : st[t] # "FREED" => t \notin Freed
      /\ \E t \in Tids : t # current_thread /\ st[t] = "READY"
  BY <1>1, <1>2, <1>3, <1>5 DEF Freed
<1> HIDE DEF woken
<1>7. /\ Exact' /\ Turn' /\ mode' # "tcb"
      /\ \A t \in Tids :
           /\ thread_state'[t] = "NONE" <=> st[t] = "NONE"
           /\ thread_state'[t] = "WAITING" <=> st[t] = "WAITING"
           /\ thread_state'[t] = "FREED" <=> st[t] \in {"FREED", "EXITED"}
           /\ t # current_thread => priority'[t] = priority[t]
      /\ q'.head[WaitQueue] = l.head[WaitQueue]
      /\ q'.tail[WaitQueue] = l.tail[WaitQueue]
      /\ \A t \in Tids : st[t] = "WAITING" => q'.next[t] = l.next[t]
  BY <1>1, <1>3, <1>6, OversteppedNoTcb, ScheduleStep
<1>8. \A t \in Tids :
        /\ thread_state'[t] = "NONE" <=> thread_state[t] = "NONE"
        /\ thread_state'[t] = "WAITING" <=>
             thread_state[t] = "WAITING" /\ ~ (t = Main /\ woken)
        /\ thread_state'[t] = "FREED" <=> t = c \/ thread_state[t] = "FREED"
  <2>1. woken => thread_state[Main] = "WAITING"
    BY DEF woken
  <2> QED BY <1>1, <1>2, <1>3, <1>7, <2>1
<1>9. Live' = Live \ {c} /\ Freed' = Freed \cup {c}
  BY <1>2, <1>8 DEF Live, Freed
<1>10. Fresh'
  <2>1. ASSUME NEW t \in Tids
        PROVE  /\ thread_state'[t] = "NONE" <=> t \notin Created'
               /\ thread_state'[t] = "NONE" => priority'[t] = 0
    <3>1. Created' = Created
      BY <1>1 DEF Created
    <3>2. thread_state[t] = "NONE" => t # current_thread
      BY <1>1, <1>2
    <3> QED BY <1>4, <1>7, <1>8, <3>1, <3>2 DEF Fresh
  <2> QED BY <2>1 DEF Fresh
<1>11. Others'
  BY <1>1, <1>4, <1>8 DEF Others
<1>12. MainWaits'
  <2>1. thread_state'[Main] = "WAITING" =>
          /\ thread_state[Main] = "WAITING" /\ join[Main] # c
          /\ q'.next[Main] = q.next[Main]
    BY <1>2, <1>3, <1>7, <1>8 DEF woken
  <2>2. q.head[WaitQueue] = Main =>
          /\ join[Main] \in Live' \cup Freed'
          /\ thread_state'[Main] = "WAITING" <=> join[Main] \in Live'
    BY <1>2, <1>4, <1>8, <1>9 DEF MainWaits, woken
  <2>3. thread_state'[Main] # "FREED"
    BY <1>1, <1>2, <1>8
  <2>4. /\ q'.head[WaitQueue] = q.head[WaitQueue]
        /\ q'.tail[WaitQueue] = q.tail[WaitQueue]
    BY <1>3, <1>7
  <2> QED BY <1>1, <1>4, <2>1, <2>2, <2>3, <2>4 DEF MainWaits
<1>13. Waits' = [u \in Tids |-> IF Waits[u] = c THEN 0 ELSE Waits[u]]
  <2>1. 0 \notin Tids
    BY Pointers DEF NULL
  <2>2. \A u \in Tids : u # Main => thread_state[u] # "WAITING"
    BY <1>4 DEF Others
  <2> QED BY <1>1, <1>8, <2>1, <2>2 DEF Waits, woken
<1>14. Waits[c] = 0
  BY <1>1, <1>2 DEF Waits
<1>15. Life!Finish(c)
  BY <1>1, <1>2, <1>9, <1>13, <1>14 DEF Life!Finish, Waits
<1> QED BY <1>7, <1>10, <1>11, <1>12, <1>15

(* The call of my_pthread_join that waits: only main makes it, for a       *)
(* thread it finds in a run queue, which is left to run.                   *)
LEMMA JoinMain ==
  ASSUME MainJoins, MainInv, Inv', NEW t \in Tids, JoinCall(t), InRunQueue(t)
  PROVE  /\ Exact' /\ Turn' /\ Fresh' /\ Others' /\ MainWaits'
         /\ mode' # "tcb"
         /\ Life!Block(Main, t)
<1> DEFINE c  == current_thread
           l  == Enqueue(q, WaitQueue, c)
           st == [thread_state EXCEPT ![c] = "WAITING"]
           seen == Searched(t) \cup EnqueueTouches(q, WaitQueue)
<1>1. /\ mode = "on" /\ c = Main
      /\ join' = [join EXCEPT ![c] = t] /\ at' = [at EXCEPT ![c] = "join"]
      /\ Schedule(l, st, seen, {})
      /\ UNCHANGED <<number_of_threads, joined>>
  BY DEF JoinCall, Calling, MainJoins
<1>2. /\ c \in Tids /\ c \in Live /\ c \notin Freed
      /\ thread_state \in [Tids -> States]
      /\ join \in [Tids -> Ptr] /\ at \in [Tids -> {"user", "join"}]
      /\ thread_state[c] \in {"RUNNING", "READY"}
      /\ \A u \in Tids \ {c} :
           thread_state[u] \in {"NONE", "READY", "WAITING", "FREED"}
  BY Standing DEF MainInv, Inv, TypeOK, Turn
<1>3. /\ q \in ListRecord(TcbLists) /\ WellFormed(q, TcbLists)
      /\ WaitQueue \in TcbLists /\ WaitQueue \notin Ranks
      /\ \A r \in Ranks : r \in TcbLists
  BY DEF MainInv, Inv, TypeOK, TcbLists, Ranks, MAX_PRIORITY, WaitQueue
<1>4. MainWaits /\ Others /\ Fresh
  BY DEF MainInv
<1>5. t # c /\ thread_state[t] = "READY"
  BY DEF InRunQueue, MainInv, Exact, Holds, InRank
<1>6. /\ l \in ListRecord(TcbLists) /\ Acyclic(l)
      /\ l.head[WaitQueue] = Main /\ l.tail[WaitQueue] = Main
      /\ l.next[Main] = NULL
      /\ \A u \in Tids \ {c} : l.next[u] = q.next[u]
      /\ \A r \in Ranks : l.head[r] = q.head[r] /\ l.tail[r] = q.tail[r]
  <2>1. l \in ListRecord(TcbLists) /\ Acyclic(l)
    BY <1>2, <1>3, EnqueueType, EnqueueWellFormed DEF WellFormed
  <2>2. /\ q.head[WaitQueue] \in {NULL, Main}
        /\ q.tail[WaitQueue] = q.head[WaitQueue]
    BY <1>4 DEF MainWaits
  <2> QED BY <1>1, <1>2, <1>3, <2>1, <2>2, Pointers DEF Enqueue, ListRecord
<1>7. /\ st \in [Tids -> States] /\ st[c] = "WAITING"
      /\ \A u \in Tids \ {c} : st[u] = thread_state[u]
  BY <1>2 DEF States
<1>8. seen \cap Freed = {}
  <2>1. EnqueueTouches(q, WaitQueue) \subseteq {Main}
    BY <1>4 DEF MainWaits, EnqueueTouches
  <2>2. Searched(t) \cap Freed = {}
    BY SearchesSpare
  <2>3. Main \notin Freed
    BY <1>1, <1>2
  <2> QED BY <2>1, <2>2, <2>3
<1> HIDE DEF l, st, seen
<1>9. ASSUME NEW r \in Ranks
      PROVE  Holds(l, r, InRank(st, priority, c, r))
  <2>1. InRank(st, priority, c, r) = InRank(thread_state, priority, c, r)
    BY <1>7 DEF InRank
  <2>2. Holds(q, r, InRank(thread_state, priority, c, r))
    BY DEF MainInv, Exact
  <2>3. \A u \in InRank(thread_state, priority, c, r) : u \in Tids \ {c}
    BY DEF InRank
  <2> QED BY <1>3, <1>6, <2>1, <2>2, <2>3, HoldsLocal
<1>10. /\ \A u \in Tids : u # c => st[u] \notin {"RUNNING", "EXITED"}
       /\ \A u \in Tids : st[u] # "FREED" => u \notin Freed
       /\ \E u \in Tids : u # c /\ st[u] = "READY"
  BY <1>2, <1>5, <1>7 DEF Freed
<1>11. /\ Exact' /\ Turn' /\ mode' # "tcb"
       /\ \A u \in Tids :
            /\ thread_state'[u] = "NONE" <=> st[u] = "NONE"
            /\ thread_state'[u] = "WAITING" <=> st[u] = "WAITING"
            /\ thread_state'[u] = "FREED" <=> st[u] \in {"FREED", "EXITED"}
            /\ u # c => priority'[u] = priority[u]
       /\ q'.head[WaitQueue] = l.head[WaitQueue]
       /\ q'.tail[WaitQueue] = l.tail[WaitQueue]
       /\ \A u \in Tids : st[u] = "WAITING" => q'.next[u] = l.next[u]
  BY <1>1, <1>6, <1>7, <1>8, <1>9, <1>10, ScheduleStep
<1>12. \A u \in Tids :
         /\ thread_state'[u] = "NONE" <=> thread_state[u] = "NONE"
         /\ thread_state'[u] = "WAITING" <=> u = c \/ thread_state[u] = "WAITING"
         /\ thread_state'[u] = "FREED" <=> thread_state[u] = "FREED"
  BY <1>2, <1>7, <1>10, <1>11
<1>13. Live' = Live /\ Freed' = Freed /\ t \in Live
  BY <1>5, <1>12 DEF Live, Freed
<1>14. Fresh'
  <2>1. ASSUME NEW u \in Tids
        PROVE  /\ thread_state'[u] = "NONE" <=> u \notin Created'
               /\ thread_state'[u] = "NONE" => priority'[u] = 0
    <3>1. Created' = Created
      BY <1>1 DEF Created
    <3>2. thread_state[u] = "NONE" => u # c
      BY <1>2
    <3> QED BY <1>4, <1>11, <1>12, <3>1, <3>2 DEF Fresh
  <2> QED BY <2>1 DEF Fresh
<1>15. Others'
  BY <1>1, <1>2, <1>4, <1>12 DEF Others
<1>16. MainWaits'
  <2>1. join'[Main] = t /\ at'[Main] = "join" /\ Main \in Tids
    BY <1>1, <1>2
  <2>2. /\ q'.head[WaitQueue] = Main /\ q'.tail[WaitQueue] = Main
        /\ q'.next[Main] = NULL
    BY <1>1, <1>2, <1>6, <1>7, <1>11
  <2>3. thread_state'[Main] # "FREED" /\ thread_state'[Main] = "WAITING"
    BY <1>1, <1>2, <1>12
  <2> QED BY <1>1, <1>5, <1>13, <2>1, <2>2, <2>3 DEF MainWaits
<1>17. Waits' = [Waits EXCEPT ![Main] = t] /\ Waits[Main] = 0
  BY <1>1, <1>2, <1>12 DEF Waits
<1>18. Life!Block(Main, t)
  BY <1>1, <1>2, <1>13, <1>17 DEF Life!Block, Waits
<1> QED BY <1>11, <1>14, <1>15, <1>16, <1>18

(* The second half of my_pthread_join changes no queue.                    *)
LEMMA StillMain ==
  ASSUME MainInv,
         UNCHANGED <<number_of_threads, q, join, priority, thread_state,
                     current_thread>>,
         mode' # "tcb",
         at' = at \/ at' = [at EXCEPT ![current_thread] = "user"]
  PROVE  /\ Exact' /\ Turn' /\ Fresh' /\ Others' /\ MainWaits'
         /\ mode' # "tcb"
         /\ UNCHANGED <<Live, Freed, Waits>>
<1>1. UNCHANGED <<Live, Freed, Waits, Created>>
  BY DEF Live, Freed, Waits, Created
<1>2. Exact' /\ Turn' /\ Fresh'
  BY <1>1 DEF MainInv, Exact, Turn, Fresh
<1>3. /\ at \in [Tids -> {"user", "join"}] /\ Main \in Tids
      /\ current_thread \in Tids
      /\ thread_state[current_thread] # "WAITING"
  BY Standing DEF MainInv, Inv, TypeOK, Turn
<1>4. Others'
  BY <1>3 DEF MainInv, Others
<1>5. MainWaits'
  <2>1. /\ at'[Main] = "join" => at[Main] = "join"
        /\ thread_state[Main] = "WAITING" => at'[Main] = at[Main]
    BY <1>3
  <2> QED BY <1>1, <2>1 DEF MainInv, MainWaits
<1> QED BY <1>1, <1>2, <1>4, <1>5

(* A join that does not wait: in the run queues it has looked for a thread *)
(* other than itself, which is created and in none of them.                *)
LEMMA FoundGone ==
  ASSUME MainJoins, MainInv, NEW t \in Tids, JoinCall(t), ~ InRunQueue(t)
  PROVE  current_thread = Main /\ (t # Main => t \in Freed)
<1>1. current_thread = Main /\ t <= number_of_threads
  BY DEF JoinCall, MainJoins
<1>2. ASSUME t # Main
      PROVE  t \in Freed
  <2>1. thread_state[t] \in {"NONE", "READY", "WAITING", "FREED"}
    BY <1>1, <1>2, Standing
  <2>2. thread_state[t] # "NONE" /\ thread_state[t] # "WAITING"
    BY <1>1, <1>2 DEF MainInv, Fresh, Created, Others
  <2>3. thread_state[t] # "READY"
    <3> SUFFICES ASSUME thread_state[t] = "READY" PROVE FALSE
      OBVIOUS
    <3>1. priority[t] \in Ranks
      BY DEF MainInv, Inv, TypeOK
    <3>2. t \in Members(q, priority[t])
      BY <1>1, <1>2, <3>1 DEF MainInv, Exact, Holds, InRank
    <3> QED BY <3>1, <3>2 DEF InRunQueue
  <2> QED BY <2>1, <2>2, <2>3 DEF Freed
<1> QED BY <1>1, <1>2

(* When main comes back into my_pthread_join, its target has exited.       *)
LEMMA ResumedAfter ==
  ASSUME MainInv, JoinResume
  PROVE  current_thread = Main /\ join[Main] \in Freed
<1>1. current_thread = Main
  BY Standing DEF JoinResume, MainInv, Others
<1>2. q.head[WaitQueue] = Main /\ thread_state[Main] # "WAITING"
  BY <1>1 DEF JoinResume, MainInv, MainWaits, Turn
<1> QED BY <1>1, <1>2 DEF MainInv, MainWaits

-----------------------------------------------------------------------------
LEMMA InitMain == Init => MainInv /\ Life!LifeInit
<1> SUFFICES ASSUME Init PROVE MainInv /\ Life!LifeInit
  OBVIOUS
<1>1. Inv /\ Numbered /\ Returned
  BY InitInv, InitNumbered
<1>2. /\ Main \in Tids /\ Main = 1 /\ Main # NULL
      /\ WaitQueue \in TcbLists /\ Ranks \subseteq TcbLists
  BY MaxTidAssumption DEF Main, Tids, NULL, TcbLists
<1>3. /\ q = EmptyLists(TcbLists) /\ number_of_threads = 0
      /\ current_thread = Main
      /\ thread_state = [t \in Tids |-> IF t = Main THEN "RUNNING" ELSE "NONE"]
      /\ priority = [t \in Tids |-> 0] /\ at = [t \in Tids |-> "user"]
      /\ joined = {} /\ mode = "on"
      /\ \A t \in Tids \ {Main} : join[t] = 0
  <2>1. PICK g \in Ptr : join = [t \in Tids |-> IF t = Main THEN g ELSE 0]
    BY DEF Init
  <2> QED BY <2>1 DEF Init
<1>4. Exact
  <2> SUFFICES ASSUME NEW r \in Ranks
               PROVE  Holds(q, r, InRank(thread_state, priority, Main, r))
    BY <1>3 DEF Exact
  <2>1. InRank(thread_state, priority, Main, r) = {}
    BY <1>3 DEF InRank
  <2>2. q.head[r] = NULL /\ q.tail[r] = NULL
    BY <1>2, <1>3 DEF EmptyLists
  <2> QED BY <2>1, <2>2 DEF Holds, EndsAtTail, Members, From
<1>5. Created = {Main}
  BY <1>2, <1>3 DEF Created, Tids
<1>6. Turn /\ Fresh /\ Others
  BY <1>2, <1>3, <1>5 DEF Turn, Fresh, Others
<1>7. MainWaits
  BY <1>2, <1>3 DEF MainWaits, EmptyLists
<1>8. Life!LifeInit
  <2>1. Live = {1} /\ Freed = {}
    BY <1>2, <1>3 DEF Live, Freed
  <2>2. Waits = [t \in Tids |-> 0]
    BY <1>2, <1>3 DEF Waits
  <2> QED BY <1>3, <2>1, <2>2 DEF Life!LifeInit, Waits
<1> QED BY <1>1, <1>3, <1>4, <1>6, <1>7, <1>8 DEF MainInv

(* Every step keeps the invariant, and is a step of ThreadLife or none of  *)
(* its business; only a thread that joins itself returns from a join of    *)
(* what has not finished.                                                  *)
LEMMA NextMain ==
  ASSUME MainJoins, MainInv, [Next]_vars
  PROVE  /\ MainInv'
         /\ Joins \subseteq OnlyMain => [Life!LifeNext]_(Life!lifeVars)
<1> DEFINE Kept ==
             /\ Exact' /\ Turn' /\ Fresh' /\ Others' /\ MainWaits'
             /\ mode' # "tcb"
           Promised ==
             Joins \subseteq OnlyMain => [Life!LifeNext]_(Life!lifeVars)
<1>1. Inv' /\ Numbered' /\ Returned'
  BY NextInv, NextNumbered DEF MainInv
<1>2. SUFFICES Kept /\ Promised
  BY <1>1 DEF MainInv
<1>3. CASE Create
  BY <1>1, <1>3, CreateMain DEF Life!LifeNext
<1>4. CASE Yield \/ Tick
  BY <1>1, <1>4, TurnMain DEF Life!lifeVars, Waits
<1>5. ASSUME NEW t \in Tids, NEW way \in Ways, Exit(t, way)
      PROVE  Kept /\ Promised
  BY <1>1, <1>5, ExitMain DEF Life!LifeNext
<1>6. ASSUME NEW t \in Tids, JoinCall(t)
      PROVE  Kept /\ Promised
  <2>1. CASE InRunQueue(t)
    BY <1>1, <1>6, <2>1, JoinMain, Standing DEF Life!LifeNext
  <2>2. CASE ~ InRunQueue(t)
    <3>1. /\ UNCHANGED <<number_of_threads, q, join, priority, thread_state,
                         current_thread, at>>
          /\ mode' # "tcb"
          /\ joined' = joined \cup {<<current_thread, t>>}
          /\ <<current_thread, t>> \in Joins
      BY <1>6, <2>2, SearchesSpare DEF JoinCall, Collect, MainInv
    <3>2. Kept /\ UNCHANGED <<Live, Freed, Waits>>
      BY <3>1, StillMain
    <3>3. ASSUME Joins \subseteq OnlyMain
          PROVE  Life!Return(Main, t)
      <4>1. t # Main /\ current_thread = Main /\ t \in Freed
        BY <1>6, <2>2, <3>1, <3>3, FoundGone DEF OnlyMain
      <4>2. Main \in Live /\ Main \in Tids /\ Waits[Main] = 0
        BY <4>1, Standing DEF MainInv, Turn, Waits
      <4> QED BY <3>1, <3>2, <4>1, <4>2 DEF Life!Return, Waits
    <3> QED BY <3>2, <3>3, Standing DEF Life!LifeNext
  <2> QED BY <2>1, <2>2
<1>7. CASE JoinResume
  <2>1. /\ UNCHANGED <<number_of_threads, q, join, priority, thread_state,
                       current_thread, mode>>
        /\ at' = [at EXCEPT ![current_thread] = "user"]
        /\ joined' = joined \cup {<<current_thread, join[current_thread]>>}
    BY <1>7 DEF JoinResume, Collect
  <2>2. Kept /\ UNCHANGED <<Live, Freed, Waits>>
    BY <2>1, StillMain DEF MainInv
  <2>3. current_thread = Main /\ join[Main] \in Freed
    BY <1>7, ResumedAfter
  <2>4. /\ Main \in Live /\ Main \in Tids /\ Waits[Main] = 0
        /\ join[Main] \in Tids
    BY <2>3, Standing DEF MainInv, Turn, Waits, Freed
  <2>5. Life!Return(Main, join[Main])
    BY <2>1, <2>2, <2>3, <2>4 DEF Life!Return, Waits
  <2> QED BY <2>2, <2>4, <2>5 DEF Life!LifeNext
<1>8. CASE MainReturns \/ UNCHANGED vars
  <2>1. /\ UNCHANGED <<number_of_threads, q, join, priority, thread_state,
                       current_thread, at, joined>>
        /\ mode' # "tcb"
    BY <1>8 DEF MainReturns, vars, MainInv
  <2>2. Kept /\ UNCHANGED <<Live, Freed, Waits>>
    BY <2>1, StillMain
  <2> QED BY <2>1, <2>2 DEF Life!lifeVars, Waits
<1> QED BY <1>3, <1>4, <1>5, <1>6, <1>7, <1>8 DEF Next

-----------------------------------------------------------------------------
THEOREM MainInvariance ==
  ASSUME MainJoins
  PROVE  Spec => []MainInv
<1>1. Init => MainInv
  BY InitMain
<1>2. MainInv /\ [Next]_vars => MainInv'
  BY NextMain
<1> QED BY <1>1, <1>2, PTL DEF Spec

(* However many threads main creates, every runnable thread is in exactly  *)
(* one run queue, that of its priority, and no other is in any.            *)
THEOREM RunQueuesStayExact ==
  ASSUME MainJoins
  PROVE  Spec => []RunQueuesExact
<1>1. MainInv => RunQueuesExact
  BY DEF MainInv, Exact, Holds, InRank, RunQueuesExact
<1> QED BY <1>1, MainInvariance, PTL

(* While main waits in my_pthread_join, it is in the WaitQueue, where the  *)
(* exit of the thread it waits for looks, and that thread is still there.  *)
THEOREM MainStaysWakeable ==
  ASSUME MainJoins
  PROVE  Spec => []WaitersWakeable
<1>1. MainInv => WaitersWakeable
  <2> SUFFICES ASSUME MainInv, NEW u \in Tids, thread_state[u] = "WAITING"
               PROVE  u \in Members(q, WaitQueue) /\ join[u] \in Live
    BY DEF WaitersWakeable
  <2>1. u = Main /\ q.head[WaitQueue] = Main /\ join[u] \in Live
    BY DEF MainInv, Others, MainWaits
  <2> QED BY <2>1, Pointers DEF Members, From
<1> QED BY <1>1, MainInvariance, PTL

(* With main alone joining, no freed tcb is dereferenced or switched to,   *)
(* although main is never taken out of the WaitQueue.  That says nothing   *)
(* of freed nodes of return_list nor of the stack an exit finishes on.     *)
THEOREM FreedTcbsStayUntouched ==
  ASSUME MainJoins
  PROVE  Spec => []FreedTcbsUntouched
<1>1. MainInv => FreedTcbsUntouched
  BY DEF MainInv, FreedTcbsUntouched
<1> QED BY <1>1, MainInvariance, PTL

(* The library implements ThreadLife when main joins other threads and     *)
(* nobody else joins: a join returns only after the exit of its target.    *)
THEOREM LifeImplemented ==
  ASSUME Joins \subseteq OnlyMain
  PROVE  Spec => ImplementsLife
<1>1. MainJoins
  BY DEF MainJoins, OnlyMain
<1>2. Init => Life!LifeInit
  BY InitMain
<1>3. MainInv /\ [Next]_vars => [Life!LifeNext]_(Life!lifeVars)
  BY <1>1, NextMain
<1> QED
  BY <1>1, <1>2, <1>3, MainInvariance, PTL
  DEF Spec, ImplementsLife, Life!LifeSpec

-----------------------------------------------------------------------------
(* What a caller may take from ThreadLife: who waits is alive and waits    *)
(* for a thread that is, and every thread a join has returned for is done. *)
LifeSafe ==
  /\ \A u \in Tids : Waits[u] # 0 => u \in Live /\ Waits[u] \in Live
  /\ \A u, t \in Tids : <<u, t>> \in joined => t \in Freed

LEMMA LifeStep == LifeSafe /\ [Life!LifeNext]_(Life!lifeVars) => LifeSafe'
<1> SUFFICES ASSUME LifeSafe, [Life!LifeNext]_(Life!lifeVars)
             PROVE  LifeSafe'
  OBVIOUS
<1> DEFINE W == Waits
<1>1. /\ W = [u \in Tids |-> IF thread_state[u] = "WAITING" THEN join[u] ELSE 0]
      /\ W' = [u \in Tids |-> IF thread_state'[u] = "WAITING" THEN join'[u] ELSE 0]
  BY DEF Waits
<1>2. ASSUME NEW t \in Tids, Life!Start(t) PROVE LifeSafe'
  BY <1>1, <1>2 DEF Life!Start, LifeSafe
<1>3. ASSUME NEW t \in Tids, Life!Finish(t) PROVE LifeSafe'
  <2>1. /\ t \in Live /\ W[t] = 0
        /\ Live' = Live \ {t} /\ Freed' = Freed \cup {t} /\ joined' = joined
        /\ W' = [u \in Tids |-> IF W[u] = t THEN 0 ELSE W[u]]
    BY <1>1, <1>3 DEF Life!Finish
  <2> HIDE DEF W
  <2> QED BY <2>1 DEF LifeSafe, W
<1>4. ASSUME NEW u \in Tids, NEW t \in Tids, Life!Block(u, t) PROVE LifeSafe'
  <2>1. /\ u \in Live /\ t \in Live
        /\ Live' = Live /\ Freed' = Freed /\ joined' = joined
        /\ W' = [W EXCEPT ![u] = t]
    BY <1>1, <1>4 DEF Life!Block
  <2>2. \A v \in Tids : W'[v] = IF v = u THEN t ELSE W[v]
    BY <1>1, <2>1
  <2> HIDE DEF W
  <2> QED BY <2>1, <2>2 DEF LifeSafe, W
<1>5. ASSUME NEW u \in Tids, NEW t \in Tids, Life!Return(u, t) PROVE LifeSafe'
  <2>1. /\ t \in Freed /\ joined' = joined \cup {<<u, t>>}
        /\ Live' = Live /\ Freed' = Freed /\ W' = W
    BY <1>1, <1>5 DEF Life!Return
  <2> QED BY <2>1 DEF LifeSafe
<1>6. CASE UNCHANGED Life!lifeVars
  <2>1. Live' = Live /\ Freed' = Freed /\ joined' = joined /\ W' = W
    BY <1>1, <1>6 DEF Life!lifeVars
  <2> QED BY <2>1 DEF LifeSafe
<1> QED BY <1>2, <1>3, <1>4, <1>5, <1>6 DEF Life!LifeNext

(* Whatever implements ThreadLife is safe to join in.                      *)
THEOREM LifeKeepsPromise == ImplementsLife => []LifeSafe
<1>1. Life!LifeInit => LifeSafe
  <2> SUFFICES ASSUME Life!LifeInit PROVE LifeSafe
    OBVIOUS
  <2>1. Freed = {} /\ joined = {} /\ Waits = [t \in Tids |-> 0]
    BY DEF Life!LifeInit, Waits
  <2> QED BY <2>1 DEF LifeSafe
<1> QED BY <1>1, LifeStep, PTL DEF ImplementsLife, Life!LifeSpec

(* Each thread main's my_pthread_join has returned for has exited, and     *)
(* main never waits for one that has.                                      *)
THEOREM JoinsOutlastTargets ==
  ASSUME Joins \subseteq OnlyMain
  PROVE  Spec => []LifeSafe
BY LifeImplemented, LifeKeepsPromise, PTL
=============================================================================
