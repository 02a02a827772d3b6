----------------------------- MODULE Preemption -----------------------------
(***************************************************************************)
(* The thread library of my_pthread.c at the grain of its loads and        *)
(* stores: what Scheduler takes in one step is here one action per access  *)
(* to shared data, and SIGALRM may strike between any two of them.         *)
(*                                                                         *)
(* timer_interrupt itself is not interrupted: SIGALRM is blocked while its *)
(* handler runs.  my_pthread_yield disarms the timer before it calls       *)
(* schedule_threads, which arms it again some way before it switches.      *)
(*                                                                         *)
(* Left out: return values, and what run_time adds up to (a thread at the  *)
(* lowest rank may or may not have earned its boost).  Only main joins,    *)
(* every thread may create.  An exit is taken to survive the instructions  *)
(* between the free of its own stack and the switch (Scheduler also takes  *)
(* the other outcome), and malloc, free and printf to survive a strike.    *)
(***************************************************************************)
EXTENDS TcbQueues

CONSTANT MaxTorn    (* how often the timer may strike at a fragile label   *)

ASSUME MaxTornAssumption == MaxTorn \in Nat

Main == 1

Labels ==
  {"user", "lock", "load", "store", "unlock",           \* my_pthread_create
   "test", "first", "link", "tail", "end",              \* an append
   "yield", "requeue", "pick", "armed", "swap",         \* my_pthread_yield
   "walk", "wake", "gone", "smashed",                   \* my_pthread_exit
   "search", "wait", "join", "collect"}                 \* my_pthread_join

States == {"NONE", "READY", "WAITING", "RUNNING", "EXITED", "FREED"}

VARIABLES
  number_of_threads, count_lock,   (* count_lock's holder, or NULL         *)
  q,                               (* the lists, see TcbQueues             *)
  join, priority, thread_state,    (* the tcb fields, per tid              *)
  current_thread,
  exec,           (* the thread whose stack the processor is on            *)
  armed,          (* ITIMER_REAL is running                                *)
  at,             (* the label each thread is at                           *)
  local,          (* its locals: a list, a tcb pointer, the thread it      *)
                  (* joins, and the label its yield goes back to           *)
  exit_stack,     (* the threads that exit on exit_caller's one stack      *)
  mode,           (* "on", "ended", or "wild" once a pointer has led       *)
                  (* nowhere or a stack has been lost                      *)
  torn,           (* history: strikes of the timer at a fragile label      *)
  joined          (* history: the threads main's joins have returned for   *)

counter == <<number_of_threads, count_lock>>
tcbs == <<join, priority, thread_state>>
cpu == <<current_thread, exec, armed>>
history == <<torn, joined>>

vars == <<counter, q, tcbs, cpu, at, local, exit_stack, mode, history>>

Freed == {t \in Tids : thread_state[t] = "FREED"}

(* What init_main and the first my_pthread_create have set up, with that   *)
(* call about to take count_lock.                                          *)
Init ==
  /\ number_of_threads = 1
  /\ count_lock = NULL
  /\ q = EmptyLists(TcbLists)
  /\ join \in {[t \in Tids |-> IF t = Main THEN g ELSE 0] : g \in Ptr}
  /\ priority = [t \in Tids |-> 0]
  /\ thread_state = [t \in Tids |-> IF t = Main THEN "RUNNING" ELSE "NONE"]
  /\ current_thread = Main
  /\ exec = Main
  /\ armed = FALSE
  /\ at = [t \in Tids |-> IF t = Main THEN "lock" ELSE "user"]
  /\ local = [t \in Tids |-> [list |-> 0, ptr |-> NULL, arg |-> NULL,
                              then |-> IF t = Main THEN "lock" ELSE "user"]]
  /\ exit_stack = {}
  /\ mode = "on"
  /\ torn = 0
  /\ joined = {}

Here(label) == mode = "on" /\ at[exec] = label
GoTo(label) == at' = [at EXCEPT ![exec] = label]
my == local[exec]

(* A dereference of p: NULL and freed tcbs lead astray.                    *)
Deref(p) == mode' = IF p = NULL \/ p \in Freed THEN "wild" ELSE mode

-----------------------------------------------------------------------------
(* my_pthread_create.  MaxTid bounds the number of creations: a call that  *)
(* finds count_lock free after that goes no further.                       *)
CreateCall ==
  /\ Here("user")
  /\ number_of_threads < MaxTid
  /\ GoTo("lock")
  /\ local' = [local EXCEPT ![exec].then = "lock"]
  /\ UNCHANGED <<counter, q, tcbs, cpu, exit_stack, mode, history>>

(* A slip one could make: lock without looking whether it is free.         *)
MayTakeAlways(holder) == TRUE

MayTake(holder) == holder = NULL

(* my_pthread_mutex_lock(count_lock), which yields while it is taken; see  *)
(* Mutex for its steps.                                                    *)
LockCount ==
  /\ Here("lock")
  /\ \/ /\ MayTake(count_lock)
        /\ number_of_threads < MaxTid
        /\ count_lock' = exec
        /\ GoTo("load")
     \/ /\ ~ MayTake(count_lock)
        /\ GoTo("yield")
        /\ UNCHANGED count_lock
  /\ UNCHANGED <<number_of_threads, q, tcbs, cpu, local, exit_stack, mode,
                 history>>

(* ++number_of_threads is a load ...                                       *)
LoadCount ==
  /\ Here("load")
  /\ GoTo("store")
  /\ local' = [local EXCEPT ![exec].ptr = number_of_threads + 1]
  /\ UNCHANGED <<counter, q, tcbs, cpu, exit_stack, mode, history>>

(* ... and a store.                                                        *)
StoreCount ==
  /\ Here("store")
  /\ GoTo("unlock")
  /\ number_of_threads' = my.ptr
  /\ local' = [local EXCEPT ![exec].then = "user", ![exec].list = 0]
  /\ UNCHANGED <<count_lock, q, tcbs, cpu, exit_stack, mode, history>>

(* The unlock, and the new tcb, which nobody else knows yet.  Its next     *)
(* field is left as malloc returned it.                                    *)
UnlockCount ==
  /\ Here("unlock")
  /\ GoTo("test")
  /\ count_lock' = NULL
  /\ thread_state' = [thread_state EXCEPT ![my.ptr] = "READY"]
  /\ UNCHANGED <<number_of_threads, q, join, priority, cpu, local, exit_stack,
                 mode, history>>

-----------------------------------------------------------------------------
(* Insert_to_qeueue, and my_pthread_join's append to the WaitQueue, of tcb *)
(* my.ptr to list my.list.                                                 *)
AppendTest ==
  /\ Here("test")
  /\ GoTo(IF q.head[my.list] = NULL THEN "first" ELSE "link")
  /\ UNCHANGED <<counter, q, tcbs, cpu, local, exit_stack, mode, history>>

AppendFirst ==
  /\ Here("first")
  /\ GoTo("tail")
  /\ q' = [q EXCEPT !.head[my.list] = my.ptr]
  /\ UNCHANGED <<counter, tcbs, cpu, local, exit_stack, mode, history>>

(* A store through the list's tail, which is read again each time.         *)
StoreNext(k, m) ==
  /\ Deref(q.tail[k])
  /\ q' = IF q.tail[k] = NULL THEN q ELSE [q EXCEPT !.next[q.tail[k]] = m]

AppendLink ==
  /\ Here("link")
  /\ GoTo("tail")
  /\ StoreNext(my.list, my.ptr)
  /\ UNCHANGED <<counter, tcbs, cpu, local, exit_stack, history>>

AppendTail ==
  /\ Here("tail")
  /\ GoTo("end")
  /\ q' = [q EXCEPT !.tail[my.list] = my.ptr]
  /\ UNCHANGED <<counter, tcbs, cpu, local, exit_stack, mode, history>>

AppendEnd ==
  /\ Here("end")
  /\ GoTo(IF my.then = "gone" THEN "gone" ELSE "yield")
  /\ StoreNext(my.list, NULL)
  /\ UNCHANGED <<counter, tcbs, cpu, local, exit_stack, history>>

Appending == {"test", "first", "link", "tail", "end"}

-----------------------------------------------------------------------------
(* The top of schedule_threads for thread c: whether it has earned a boost *)
(* is open; a WAITING thread keeps its rank, an EXITED one is freed, any   *)
(* other goes to the tail of the next lower rank.                          *)
DemotedPastLast(p) == p + 1                        \* a slip one could make
Demoted(p) == IF p < MAX_PRIORITY THEN p + 1 ELSE p

Ranked(c, boosted) ==
  LET p == IF boosted THEN 0 ELSE priority[c]
  IN  IF thread_state[c] = "EXITED" THEN 0
      ELSE IF thread_state[c] = "WAITING" THEN p ELSE Demoted(p)

Leaves(c) == thread_state[c] \in {"EXITED", "WAITING"}

Left(c, rank) == IF Leaves(c) THEN q ELSE Enqueue(q, rank, c)

(* Its append goes through the tail of a list that has a head: NULL when   *)
(* the timer has struck between the stores of the two.                     *)
LeadsAstray(c, rank) ==
  ~ Leaves(c) /\ EnqueueTouches(q, rank) \cap ({NULL} \cup Freed) # {}

StateOnLeaving(c) ==
  CASE thread_state[c] = "EXITED"  -> "FREED"
    [] thread_state[c] = "WAITING" -> "WAITING"
    [] OTHER                       -> "READY"

Boosts(c) == IF priority[c] = MAX_PRIORITY THEN BOOLEAN ELSE {FALSE}

(* The queues once get_tcb has taken the head of the first rank in use.    *)
FirstRank(l) == CHOOSE r \in Ranks : IsFirstRank(l, r)
Picked(l) == l.head[FirstRank(l)]

(* my_pthread_yield, called by create, exit, join and a spinning lock (from *)
(* a thread's own code it does what a Tick there does), disarms the timer; *)
(* the slip would leave it running.                                        *)
KeepTimer(on) == on

StopTimer(on) == FALSE

Disarm ==
  /\ Here("yield")
  /\ GoTo("requeue")
  /\ armed' = StopTimer(armed)
  /\ UNCHANGED <<counter, q, tcbs, current_thread, exec, local, exit_stack,
                 mode, history>>

(* Then schedule_threads puts the caller where it belongs, ...          *)
Requeue(boosted) ==
  LET rank == Ranked(exec, boosted) IN
  /\ Here("requeue")
  /\ boosted \in Boosts(exec)
  /\ GoTo("pick")
  /\ priority' = [priority EXCEPT ![exec] = rank]
  /\ q' = Left(exec, rank)
  /\ thread_state' = [thread_state EXCEPT ![exec] = StateOnLeaving(exec)]
  /\ mode' = IF LeadsAstray(exec, rank) THEN "wild" ELSE mode
  /\ UNCHANGED <<counter, join, cpu, local, exit_stack, history>>

(* ... takes the next thread, or returns when there is none, ...           *)
PickNone ==
  /\ Here("pick")
  /\ ~ Runnable(q)
  /\ IF exec \in Freed
     THEN mode' \in {"ended", "wild"} /\ UNCHANGED at
     ELSE GoTo(my.then) /\ UNCHANGED mode
  /\ UNCHANGED <<counter, q, tcbs, cpu, local, exit_stack, history>>

(* ... arms the timer for its rank, ...                                    *)
Pick ==
  /\ Here("pick")
  /\ Runnable(q)
  /\ GoTo("armed")
  /\ Deref(Picked(q))
  /\ q' = Dequeue(q, FirstRank(q))
  /\ local' = [local EXCEPT ![exec].ptr = Picked(q)]
  /\ armed' = TRUE
  /\ UNCHANGED <<counter, tcbs, current_thread, exec, exit_stack, history>>

(* ... makes it the current thread, ...                                    *)
TakeOver ==
  /\ Here("armed")
  /\ GoTo("swap")
  /\ current_thread' = my.ptr
  /\ thread_state' = IF exec \in Freed THEN thread_state
                     ELSE [thread_state EXCEPT ![my.ptr] = "RUNNING"]
  /\ UNCHANGED <<counter, q, join, priority, exec, armed, local, exit_stack,
                 mode, history>>

(* ... and switches to its stack.                                          *)
SwapContext ==
  /\ Here("swap")
  /\ GoTo(my.then)
  /\ exec' = my.ptr
  /\ UNCHANGED <<counter, q, tcbs, current_thread, armed, local, exit_stack,
                 mode, history>>

-----------------------------------------------------------------------------
(* my_pthread_exit, called by the thread or, when its function returns, by *)
(* exit_caller on a stack all threads share: whoever was preempted there   *)
(* has its frames overwritten.                                             *)
ExitCall(returned) ==
  /\ Here("user")
  /\ exec # Main
  /\ at' = [t \in Tids |-> IF t = exec THEN "walk"
                          ELSE IF returned /\ t \in exit_stack THEN "smashed"
                          ELSE at[t]]
  /\ local' = [local EXCEPT ![exec].ptr = q.head[WaitQueue],
                            ![exec].then = "gone"]
  /\ exit_stack' = IF returned THEN exit_stack \cup {exec} ELSE exit_stack
  /\ UNCHANGED <<counter, q, tcbs, cpu, mode, history>>

Smashed ==
  /\ Here("smashed")
  /\ mode' = "wild"
  /\ UNCHANGED <<counter, q, tcbs, cpu, at, local, exit_stack, history>>

(* The walk down the WaitQueue to the first thread that joins this one.    *)
Walk ==
  LET p == my.ptr IN
  /\ Here("walk")
  /\ \/ /\ p = NULL
        /\ GoTo("gone")
        /\ UNCHANGED <<local, mode>>
     \/ /\ p # NULL
        /\ Deref(p)
        /\ \/ /\ join[p] = exec
              /\ GoTo("wake")
              /\ UNCHANGED local
           \/ /\ join[p] # exec
              /\ local' = [local EXCEPT ![exec].ptr = q.next[p]]
              /\ UNCHANGED at
  /\ UNCHANGED <<counter, q, tcbs, cpu, exit_stack, history>>

Wake ==
  /\ Here("wake")
  /\ GoTo("test")
  /\ thread_state' = [thread_state EXCEPT ![my.ptr] = "READY"]
  /\ local' = [local EXCEPT ![exec].list = priority[my.ptr]]
  /\ UNCHANGED <<counter, q, join, priority, cpu, exit_stack, mode, history>>

Gone ==
  /\ Here("gone")
  /\ GoTo("yield")
  /\ thread_state' = [thread_state EXCEPT ![exec] = "EXITED"]
  /\ UNCHANGED <<counter, q, join, priority, cpu, local, exit_stack, mode,
                 history>>

-----------------------------------------------------------------------------
(* The tcbs that a call preempted on its way has taken and not yet put     *)
(* where they belong.                                                      *)
InHand ==
  {local[u].ptr : u \in {u \in Tids : at[u] \in Appending \cup {"armed", "swap"}}}

(* main joins a thread once the my_pthread_create that made it is through. *)
JoinCall(t) ==
  /\ Here("user")
  /\ exec = Main /\ t \notin joined
  /\ thread_state[t] # "NONE" /\ t # Main /\ t \notin InHand
  /\ GoTo("search")
  /\ local' = [local EXCEPT ![exec] = [list |-> 0, ptr |-> q.head[0],
                                       arg |-> t, then |-> "collect"]]
  /\ UNCHANGED <<counter, q, tcbs, cpu, exit_stack, mode, history>>

(* search_by_tid, node by node and rank by rank.                           *)
Search ==
  LET p == my.ptr
      i == my.list
  IN
  /\ Here("search")
  /\ \/ /\ p = NULL /\ i = MAX_PRIORITY
        /\ GoTo("collect")
        /\ UNCHANGED <<local, mode>>
     \/ /\ p = NULL /\ i # MAX_PRIORITY
        /\ local' = [local EXCEPT ![exec].list = i + 1,
                                  ![exec].ptr = q.head[i + 1]]
        /\ UNCHANGED <<at, mode>>
     \/ /\ p # NULL
        /\ Deref(p)
        /\ \/ /\ p = my.arg
              /\ GoTo("wait")
              /\ UNCHANGED local
           \/ /\ p # my.arg
              /\ local' = [local EXCEPT ![exec].ptr = q.next[p]]
              /\ UNCHANGED at
  /\ UNCHANGED <<counter, q, tcbs, cpu, exit_stack, history>>

(* The thread has been found, and the caller is to wait for it: it says so *)
(* before it is in the WaitQueue.                                          *)
Wait ==
  /\ Here("wait")
  /\ GoTo("join")
  /\ thread_state' = [thread_state EXCEPT ![exec] = "WAITING"]
  /\ UNCHANGED <<counter, q, join, priority, cpu, local, exit_stack, mode,
                 history>>

SetJoin ==
  /\ Here("join")
  /\ GoTo("test")
  /\ join' = [join EXCEPT ![exec] = my.arg]
  /\ local' = [local EXCEPT ![exec].list = WaitQueue, ![exec].ptr = exec]
  /\ UNCHANGED <<counter, q, priority, thread_state, cpu, exit_stack, mode,
                 history>>

(* The rest of my_pthread_join, which returns.                             *)
Collect ==
  /\ Here("collect")
  /\ GoTo("user")
  /\ local' = [local EXCEPT ![exec].then = "user"]
  /\ joined' = joined \cup {my.arg}
  /\ UNCHANGED <<counter, q, tcbs, cpu, exit_stack, mode, torn>>

-----------------------------------------------------------------------------
(* The labels at which the running thread has read or written part of a    *)
(* list, or the timer is armed for the next thread already.                *)
Fragile ==
  \/ at[exec] \in Appending \cup {"search", "wait", "join", "walk", "gone",
                                 "armed", "swap"}
  \/ exec \in exit_stack

(* A new tcb at the head of a run queue before its next field is set.      *)
ReadsFresh ==
  at[exec] \in {"tail", "end"} /\ my.then = "user" /\ q.head[0] = my.ptr

(* The tcbs that are freed when the scheduler looks for the next thread:   *)
(* that of an exited caller is freed before.                               *)
NoTcb(c) == Freed \cup IF thread_state[c] = "EXITED" THEN {c} ELSE {}

(* What becomes of the process when the timer strikes thread c, which goes *)
(* to rank, and leaves lists l.                                            *)
Outcomes(c, rank, l) ==
  IF thread_state[c] = "EXITED" /\ ~ Runnable(l)
  THEN {"ended", "wild"}
  ELSE IF \/ exec # c \/ c \in Freed
          \/ LeadsAstray(c, rank)
          \/ Runnable(l) /\ Picked(l) \in NoTcb(c)
  THEN {"wild"}
  ELSE IF Runnable(l) /\ ReadsFresh THEN {"on", "wild"} ELSE {"on"}

(* timer_interrupt: all of schedule_threads in one step, for the thread    *)
(* current_thread names, on whatever stack the processor is.  It saves     *)
(* that stack's registers as that thread's context.                        *)
Tick(boosted) ==
  LET c    == current_thread
      rank == Ranked(c, boosted)
      l    == Left(c, rank)
  IN
  /\ mode = "on"
  /\ armed
  /\ boosted \in Boosts(c)
  /\ priority' = [priority EXCEPT ![c] = rank]
  /\ mode' \in Outcomes(c, rank, l)
  /\ IF Fragile THEN torn < MaxTorn /\ torn' = torn + 1 ELSE UNCHANGED torn
  /\ \/ /\ Runnable(l)
        /\ q' = Dequeue(l, FirstRank(l))
        /\ current_thread' = Picked(l)
        /\ exec' = Picked(l)
        /\ thread_state' = IF thread_state[c] = "EXITED"
                           THEN [thread_state EXCEPT ![c] = "FREED"]
                           ELSE [thread_state EXCEPT
                                   ![c] = StateOnLeaving(c),
                                   ![Picked(l)] = "RUNNING"]
        /\ UNCHANGED armed
     \/ /\ ~ Runnable(l)
        /\ q' = l
        /\ armed' = FALSE
        /\ thread_state' = [thread_state EXCEPT ![c] = StateOnLeaving(c)]
        /\ UNCHANGED <<current_thread, exec>>
  /\ UNCHANGED <<counter, join, at, local, exit_stack, joined>>

Next ==
  \/ CreateCall \/ LockCount \/ LoadCount \/ StoreCount \/ UnlockCount
  \/ AppendTest \/ AppendFirst \/ AppendLink \/ AppendTail \/ AppendEnd
  \/ Disarm \/ PickNone \/ Pick \/ TakeOver \/ SwapContext
  \/ Smashed \/ Walk \/ Wake \/ Gone
  \/ Search \/ Wait \/ SetJoin \/ Collect
  \/ \E boosted \in BOOLEAN : Requeue(boosted) \/ Tick(boosted)
  \/ \E returned \in BOOLEAN : ExitCall(returned)
  \/ \E t \in Tids : JoinCall(t)

Spec == Init /\ [][Next]_vars

-----------------------------------------------------------------------------
Thens == {"user", "lock", "gone", "collect"}

Locals == [list : TcbLists, ptr : Ptr, arg : Ptr, then : Thens]

TypeOK ==
  /\ number_of_threads \in Tids
  /\ count_lock \in Ptr
  /\ q \in ListRecord(TcbLists)
  /\ join \in [Tids -> Ptr]
  /\ priority \in [Tids -> Ranks]
  /\ thread_state \in [Tids -> States]
  /\ current_thread \in Tids
  /\ exec \in Tids
  /\ armed \in BOOLEAN
  /\ at \in [Tids -> Labels]
  /\ local \in [Tids -> Locals]
  /\ exit_stack \subseteq Tids
  /\ mode \in {"on", "ended", "wild"}
  /\ torn \in 0 .. MaxTorn
  /\ joined \subseteq Ptr

(* Whatever the timer does, my_pthread_create hands out a tid no earlier   *)
(* call has handed out: the store of ++number_of_threads, under count_lock *)
(* (my_pthread.c:119-121), stores one more than is there.                  *)
TidsFresh ==
  [][number_of_threads' # number_of_threads =>
       number_of_threads' = number_of_threads + 1
       /\ \A t \in Tids \ {exec} : at[t] \notin {"load", "store", "unlock"}]_vars

(* A thread that is not running can still get the processor: it is READY   *)
(* and in the run queue of its rank, or it is WAITING, in the WaitQueue,   *)
(* for a thread that is still to exit.  No run queue holds the running     *)
(* thread.                                                                 *)
NobodyStranded ==
  /\ mode # "wild"
  /\ mode = "on" => \A t \in Tids \ InHand :
       IF t = exec
       THEN at[t] \notin {"pick", "armed", "swap"} =>
              \A r \in Ranks : t \notin Members(q, r)
       ELSE /\ thread_state[t] = "READY" => t \in Members(q, priority[t])
            /\ thread_state[t] = "WAITING" =>
                 /\ t \in Members(q, WaitQueue)
                 /\ thread_state[join[t]] \notin {"NONE", "FREED"}

(* my_pthread_join waits for the thread's termination.                     *)
JoinWaits == \A t \in joined : thread_state[t] = "FREED"

(* Preemption strands nobody and makes no join return early unless the     *)
(* timer strikes while a list is being searched or changed, in             *)
(* my_pthread_join between the search and the yield, between the arming of *)
(* the timer and the switch, or on the stack of exit_caller.               *)
SafeUnlessTorn == torn = 0 => NobodyStranded /\ JoinWaits
=============================================================================
