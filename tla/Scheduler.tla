----------------------------- MODULE Scheduler -----------------------------
(***************************************************************************)
(* The user-level thread library of my_pthread.c: create, yield, the timer *)
(* interrupt, exit and join over a three-level feedback queue.             *)
(*                                                                         *)
(* Each action is a whole library call of the thread that holds the        *)
(* processor, up to the swapcontext/setcontext that hands it over, or the  *)
(* whole SIGALRM handler; SIGALRM strikes between calls.  A preemption     *)
(* inside a call is not a behaviour of this module.                        *)
(*                                                                         *)
(* A thread, its tcb and its node in return_list share one name, its tid.  *)
(***************************************************************************)
EXTENDS TcbQueues

CONSTANTS
  Joins,              (* <<u, t>>: u's code calls my_pthread_join on t     *)
  BoostAt             (* the run_time that earns a boost: 225 in the code, *)
                      (* smaller to bound the turns between two boosts     *)

ASSUME JoinsAssumption == Joins \subseteq Tids \X Tids
ASSUME BoostAtAssumption == BoostAt \in Nat

Main == 1
Ret  == 0                            \* the only list of a return_list record

VARIABLES
  number_of_threads,  (* tids handed out so far                            *)
  q,                  (* Pqueue[], WaitQueue and every tcb's next          *)
  return_list,
  join, priority, run_time, thread_state,     (* the tcb fields, per tid   *)
  current_thread,
  armed,              (* ITIMER_REAL is running                            *)
  at,                 (* where a thread resumes: its own code, or in join  *)
  mode,               (* the process: "on", "ended", or the freed memory   *)
                      (* it has not survived the use of: "tcb", "node" or  *)
                      (* "stack"                                           *)
  unclaimed,          (* history: exited with a value no join has taken    *)
  joined              (* history: <<u, t>>, u's join of t has returned     *)

vars == <<number_of_threads, q, return_list, join, priority, run_time,
          thread_state, current_thread, armed, at, mode, unclaimed, joined>>

States == {"NONE", "READY", "WAITING", "RUNNING", "EXITED", "FREED"}

Freed == {t \in Tids : thread_state[t] = "FREED"}

(* A freed tcb, a freed node of return_list and the freed stack of a       *)
(* thread that exits from its own code.                                    *)
Wild == {"tcb", "node", "stack"}

(* What becomes of the process in a call that uses freed memory of these   *)
(* kinds.  Nothing is claimed of one that follows or writes a freed tcb or *)
(* node; the last instructions of an exit on a stack nobody has been given *)
(* yet may do no harm, or fault where free has returned the memory.        *)
After(kinds) == kinds \cup IF kinds \subseteq {"stack"} THEN {mode} ELSE {}

(***************************************************************************)
(* The accounting at the top of schedule_threads: what the running thread  *)
(* is charged for its turn, the boost of one that has reached BoostAt at   *)
(* the lowest rank, and the demotion of one that goes back to a run queue. *)
(* BoostAt is all run_time is ever compared with, so it stops there.       *)
(***************************************************************************)
Charge(p) == IF p = 0 THEN 15 ELSE IF p = 1 THEN 30 ELSE 60

Charged(t) ==
  LET total == run_time[t] + Charge(priority[t])
  IN  IF total > BoostAt THEN BoostAt ELSE total

Boosted(p, charged) == p = MAX_PRIORITY /\ charged >= BoostAt

(* A slip one could make: demote without looking at the last rank.         *)
DemotedPastLast(p) == p + 1

Demoted(p) == IF p < MAX_PRIORITY THEN p + 1 ELSE p

(* Which callers of schedule_threads go back to a run queue.               *)
Requeued(s) == s \notin {"EXITED", "WAITING"}

(***************************************************************************)
(* schedule_threads, entered with the lists l and thread states st that    *)
(* the calling function has left behind; seen holds the tcbs it has        *)
(* dereferenced and over the other freed memory the call uses.  An EXITED  *)
(* caller is freed, a WAITING one is kept out of the run queues, any other *)
(* is made READY and goes to the tail of its rank.  The head of the first  *)
(* non-empty rank runs next; only a switch away from a thread that still   *)
(* exists marks it RUNNING.  With no thread to run the call returns to its *)
(* caller: an EXITED one is then back in its code on its freed stack, or   *)
(* in exit_caller, where the process ends.                                 *)
(***************************************************************************)
Schedule(l, st, seen, over) ==
  LET c       == current_thread
      charged == Charged(c)
      boosted == Boosted(priority[c], charged)
      gone    == st[c] = "EXITED"      \* its tcb is freed, fields and all
      back    == Requeued(st[c])
      p0      == IF boosted THEN 0 ELSE priority[c]
      p       == IF back THEN Demoted(p0) ELSE p0
      l1      == IF back THEN Enqueue(l, p, c) ELSE l
      st1     == [st EXCEPT ![c] = IF back THEN "READY"
                                   ELSE IF gone THEN "FREED" ELSE @]
      seen1   == seen \cup IF back THEN EnqueueTouches(l, p) ELSE {}
      stray(T) == over \cup IF T \cap Freed # {} THEN {"tcb"} ELSE {}
  IN  /\ priority' = [priority EXCEPT ![c] = IF gone THEN 0 ELSE p]
      /\ run_time' = [run_time EXCEPT ![c] = IF gone \/ boosted
                                             THEN 0 ELSE charged]
      /\ armed' = Runnable(l1)
      /\ \/ /\ ~ Runnable(l1)
            /\ q' = l1
            /\ thread_state' = st1
            /\ UNCHANGED current_thread
            /\ mode' \in IF ~ gone THEN After(stray(seen1))
                        ELSE IF stray(seen1) = {} THEN {"ended"}
                        ELSE stray(seen1)
         \/ \E r \in Ranks :
              LET to_run == l1.head[r] IN
              /\ IsFirstRank(l1, r)
              /\ q' = Dequeue(l1, r)
              /\ current_thread' = to_run
              /\ thread_state' = IF gone THEN st1
                                 ELSE [st1 EXCEPT ![to_run] = "RUNNING"]
              /\ mode' \in After(IF st1[to_run] = "FREED"
                                 THEN over \cup {"tcb"}
                                 ELSE stray(seen1 \cup {to_run}))

-----------------------------------------------------------------------------
(* The state my_pthread_create's first call sets up before it goes on to   *)
(* create a thread: empty lists, and the calling thread as main, whose     *)
(* join field init_main leaves as malloc returned it.  current_thread      *)
(* stands for NULL until that call (number_of_threads = 0).                *)
Init ==
  /\ number_of_threads = 0
  /\ q = EmptyLists(TcbLists)
  /\ return_list = EmptyLists({Ret})
  /\ join \in {[t \in Tids |-> IF t = Main THEN g ELSE 0] : g \in Ptr}
  /\ priority = [t \in Tids |-> 0]
  /\ run_time = [t \in Tids |-> 0]
  /\ thread_state = [t \in Tids |-> IF t = Main THEN "RUNNING" ELSE "NONE"]
  /\ current_thread = Main
  /\ armed = FALSE
  /\ at = [t \in Tids |-> "user"]
  /\ mode = "on"
  /\ unclaimed = {}
  /\ joined = {}

(* A call the running thread makes from its own code, once the library     *)
(* has been set up.                                                        *)
Calling ==
  /\ mode = "on"
  /\ number_of_threads > 0
  /\ at[current_thread] = "user"

(* my_pthread_create.  MaxTid bounds the number of creations.              *)
Create ==
  LET tid == IF number_of_threads = 0 THEN 2 ELSE number_of_threads + 1 IN
  /\ mode = "on"
  /\ at[current_thread] = "user"
  /\ tid <= MaxTid
  /\ number_of_threads' = tid
  /\ Schedule(Enqueue(q, 0, tid),
              [thread_state EXCEPT ![tid] = "READY"],
              EnqueueTouches(q, 0), {})
  /\ UNCHANGED <<return_list, join, at, unclaimed, joined>>

(* my_pthread_yield, called by the thread itself.                          *)
Yield ==
  /\ Calling
  /\ Schedule(q, thread_state, {}, {})
  /\ UNCHANGED <<number_of_threads, return_list, join, at, unclaimed, joined>>

(* timer_interrupt, wherever the running thread is.                        *)
Tick ==
  /\ mode = "on"
  /\ armed
  /\ Schedule(q, thread_state, {}, {})
  /\ UNCHANGED <<number_of_threads, return_list, join, at, unclaimed, joined>>

-----------------------------------------------------------------------------
(* The tcbs that a search of list k for t dereferences: all in the list    *)
(* when there is no match.                                                 *)
Upto(k, t) ==
  IF t \in Members(q, k) THEN Members(q, k) \ (From(q, t) \ {t})
                         ELSE Members(q, k)

(* my_pthread_exit's search of the WaitQueue stops at the first tcb whose  *)
(* join field is the exiting thread; the slip takes whoever is first.      *)
WaitersForAnyone == Members(q, WaitQueue)

Waiters == {t \in Members(q, WaitQueue) : join[t] = current_thread}

IsFirstWaiter(w) == w \in Waiters /\ Waiters \subseteq From(q, w)

(* How a thread comes to my_pthread_exit: from its own code, with a value  *)
(* or without, or, when its function has returned, through exit_caller,    *)
(* which has a stack of its own and passes no value.                       *)
Ways == {"value", "null", "returned"}

(* A join that takes the last of several nodes out of return_list frees it *)
(* and leaves the tail on it.                                              *)
StaleTail ==
  /\ return_list.head[Ret] # NULL
  /\ return_list.tail[Ret] \notin Members(return_list, Ret)

(* The freed memory an exit uses besides the tcbs it comes across: the     *)
(* node it links its value behind, and the stack it is on until setcontext.*)
Overstepped(way) ==
  (IF way = "value" /\ StaleTail THEN {"node"} ELSE {})
    \cup IF way = "returned" THEN {} ELSE {"stack"}

(* Its value goes to the end of return_list.  A slip one could make: move  *)
(* the tail and forget the link.                                           *)
WithValueUnlinked(way) ==
  IF way = "value"
  THEN [Enqueue(return_list, Ret, current_thread) EXCEPT
          !.next = return_list.next]
  ELSE return_list

WithValue(way) ==
  IF way = "value" THEN Enqueue(return_list, Ret, current_thread)
                   ELSE return_list

(* Waking w: it goes to the run queue of its priority and stays in the     *)
(* WaitQueue as well.  The slip leaves it unqueued.                        *)
WokenNowhere(w) == q

Woken(w) == Enqueue(q, priority[w], w)

(* my_pthread_exit of thread t: the first thread found waiting for it is   *)
(* woken, the value recorded, and the processor given away for good.  Main *)
(* does not exit this way: its stack was not malloc'd.                     *)
Exit(t, way) ==
  LET exited(st) == [st EXCEPT ![t] = "EXITED"] IN
  /\ Calling
  /\ t = current_thread /\ t # Main
  /\ \/ /\ Waiters = {}
        /\ Schedule(q, exited(thread_state), Members(q, WaitQueue),
                    Overstepped(way))
     \/ \E w \in Tids :
          /\ IsFirstWaiter(w)
          /\ Schedule(Woken(w),
                      exited([thread_state EXCEPT ![w] = "READY"]),
                      Upto(WaitQueue, w) \cup EnqueueTouches(q, priority[w]),
                      Overstepped(way))
  /\ return_list' = WithValue(way)
  /\ unclaimed' = IF way = "value" THEN unclaimed \cup {t} ELSE unclaimed
  /\ UNCHANGED <<number_of_threads, join, at, joined>>

-----------------------------------------------------------------------------
(* The second half of my_pthread_join: take t's return value if it is in   *)
(* return_list, and return.                                                *)
Collect(t) ==
  /\ IF t \in Members(return_list, Ret)
     THEN /\ return_list' = Remove(return_list, Ret, t)
          /\ unclaimed' = unclaimed \ {t}
     ELSE UNCHANGED <<return_list, unclaimed>>
  /\ joined' = joined \cup {<<current_thread, t>>}

(* What search_by_tid looks for, and a slip one could make: any thread     *)
(* ever created.                                                           *)
EverCreated(t) == t <= number_of_threads

InRunQueue(t) == \E r \in Ranks : t \in Members(q, r)

(* The tcbs search_by_tid dereferences: rank after rank until it finds t.  *)
Searched(t) ==
  UNION {Upto(r, t) : r \in {k \in Ranks :
                              \A s \in Ranks : s < k => t \notin Members(q, s)}}

(* my_pthread_join, called once for each pair of Joins.                    *)
(* search_by_tid looks through the run queues only: a target found there   *)
(* makes the caller wait, any other is taken for an exited one.            *)
JoinCall(t) ==
  LET c == current_thread IN
  /\ Calling
  /\ t <= number_of_threads
  /\ <<c, t>> \in Joins \ joined
  /\ \/ /\ InRunQueue(t)
        /\ join' = [join EXCEPT ![c] = t]
        /\ at' = [at EXCEPT ![c] = "join"]
        /\ Schedule(Enqueue(q, WaitQueue, c),
                    [thread_state EXCEPT ![c] = "WAITING"],
                    Searched(t) \cup EnqueueTouches(q, WaitQueue), {})
        /\ UNCHANGED <<return_list, unclaimed, joined>>
     \/ /\ ~ InRunQueue(t)
        /\ Collect(t)
        /\ mode' = IF Searched(t) \cap Freed # {} THEN "tcb" ELSE mode
        /\ UNCHANGED <<q, join, at, priority, run_time, thread_state,
                       current_thread, armed>>
  /\ UNCHANGED number_of_threads

(* my_pthread_yield has returned to my_pthread_join.                       *)
JoinResume ==
  LET c == current_thread IN
  /\ mode = "on"
  /\ at[c] = "join"
  /\ at' = [at EXCEPT ![c] = "user"]
  /\ Collect(join[c])
  /\ UNCHANGED <<number_of_threads, q, join, priority, run_time,
                 thread_state, current_thread, armed, mode>>

(* main returns and the process ends with every thread in it.              *)
MainReturns ==
  /\ Calling
  /\ current_thread = Main
  /\ mode' = "ended"
  /\ UNCHANGED <<number_of_threads, q, return_list, join, priority, run_time,
                 thread_state, current_thread, armed, at, unclaimed, joined>>

Next ==
  \/ Create
  \/ Yield
  \/ Tick
  \/ \E t \in Tids, way \in Ways : Exit(t, way)
  \/ \E t \in Tids : JoinCall(t)
  \/ JoinResume
  \/ MainReturns

Spec == Init /\ [][Next]_vars

(***************************************************************************)
(* Fairness.  The interval timer goes on firing while it is armed: that is *)
(* all the library relies on.  A program may promise besides that a thread *)
(* that gets the processor again and again comes to the end of the call it *)
(* is in, and to the end of its function.                                  *)
(***************************************************************************)
TimerFairness == WF_vars(Tick)

ProgramFairness ==
  /\ SF_vars(JoinResume)
  /\ \A t \in Tids : SF_vars(\E way \in Ways : Exit(t, way))

FairSpec == Spec /\ TimerFairness

-----------------------------------------------------------------------------
Live == {t \in Tids : thread_state[t] \notin {"NONE", "FREED"}}

(* The type invariant.  No exited thread is ever seen between calls: its   *)
(* tcb is freed in the call that makes it EXITED.                          *)
TypeOK ==
  /\ number_of_threads \in 0 .. MaxTid
  /\ q \in ListRecord(TcbLists)
  /\ return_list \in ListRecord({Ret})
  /\ join \in [Tids -> Ptr]
  /\ priority \in [Tids -> Ranks]
  /\ run_time \in [Tids -> 0 .. BoostAt]
  /\ thread_state \in [Tids -> States \ {"EXITED"}]
  /\ current_thread \in Tids
  /\ armed \in BOOLEAN
  /\ at \in [Tids -> {"user", "join"}]
  /\ mode \in {"on", "ended"} \cup Wild
  /\ unclaimed \subseteq Tids
  /\ joined \subseteq Tids \X Tids

(* The run queues, the WaitQueue and the return list never close into a    *)
(* cycle, although the first four share a next field and a woken thread    *)
(* stays in the WaitQueue: every search of my_pthread_exit and             *)
(* my_pthread_join comes to an end.                                        *)
ListsAcyclic == Acyclic(q) /\ Acyclic(return_list)

(* No runnable thread is lost and none runs twice: a thread other than the *)
(* running one is READY exactly when it is in one run queue, that of its   *)
(* own priority, and every run queue ends at its tail.                     *)
RunQueuesExact ==
  mode = "on" =>
    /\ \A r \in Ranks :
         /\ EndsAtTail(q, r)
         /\ Members(q, r) = {t \in Tids : /\ t # current_thread
                                          /\ thread_state[t] = "READY"
                                          /\ priority[t] = r}

(* A thread that waits can still be woken: it is in the WaitQueue and the  *)
(* thread it waits for is there to exit.                                   *)
WaitersWakeable ==
  mode = "on" =>
    \A u \in Tids : u # current_thread /\ thread_state[u] = "WAITING" =>
      /\ u \in Members(q, WaitQueue)
      /\ join[u] \in Live

(* The tcb of a thread that has exited is never used again: no run queue,  *)
(* no search of a list by an exit or a join, and no switch leads back to   *)
(* it.  Nothing is said here of the nodes of return_list or of the stack   *)
(* that an exit from a thread's own code finishes on.                      *)
FreedTcbsUntouched == mode # "tcb"

(* An exit links its value in at the end of return_list, never behind a    *)
(* node that a join has taken and freed.                                   *)
ValuesAppended == mode # "node"

(* A thread that exits puts the thread that joined it onto the run queue,  *)
(* so nobody goes on waiting for a thread that is gone.                    *)
ExitWakesJoiner ==
  mode = "on" =>
    \A u \in Tids : thread_state[u] = "WAITING" => join[u] \in Live

(* A value a thread exited with is in return_list, where the join of that  *)
(* thread finds it, until it is taken, whatever other values are recorded  *)
(* and taken meanwhile, as long as the process survives the freed memory   *)
(* it uses.                                                                *)
ValuesKept ==
  [][mode' \notin Wild =>
       \A t \in unclaimed' :
         \/ t \in Members(return_list', Ret)
         \/ t \in unclaimed \ Members(return_list, Ret)]_vars

(* No starvation: a thread in a run queue gets the processor, if only the  *)
(* timer goes on firing and whatever the others do, unless the process     *)
(* ends first.                                                             *)
ReadyRuns ==
  \A t \in Tids :
    (thread_state[t] = "READY") ~> (current_thread = t \/ mode # "on")

(* A thread blocked in my_pthread_join comes back from it, in a program    *)
(* whose thread functions end; the process does not end under it, unless   *)
(* by an exit that does not survive the freed stack it is on or the freed  *)
(* node it links its value behind.                                         *)
JoinReturns ==
  ProgramFairness =>
    \A u \in {p[1] : p \in Joins} :
      (at[u] = "join") ~> (at[u] = "user" \/ mode \in {"stack", "node"})
=============================================================================
