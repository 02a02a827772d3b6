# A TLA+ model of VIRTUAL_MEMORY

The repository is a user-level thread library (`my_pthread.c`, `my_pthread_t.h`) and a
paged allocator under it (`myalloc.c`, `myalloc.h`) for programs that call
`pthread_create`, `pthread_join`, `malloc` and so on. This directory holds its
specification: modules that follow the code, TLC configurations that check them on small
instances, and theorems that `tlapm` proves for all values of the constants.

## 1. Inventory

### The system's parts

| Part | Code | State | Operations |
|---|---|---|---|
| Thread creation | `my_pthread_create`, `init_main` | `number_of_threads`, the tcbs, `exit_caller`, `count_lock` | create (the first call sets the library up) |
| Scheduler | `schedule_threads`, `my_pthread_yield`, `timer_interrupt` | `current_thread`, `ITIMER_REAL`, per tcb `priority`, `run_time`, `thread_state` | yield, tick; charge, boost, demote, free, requeue, pick, switch |
| Lists | `my_queue_init`, `Insert_to_qeueue`, `get_tcb`, `search_by_tid` | `Pqueue[0..2]`, `WaitQueue`, `return_list`; one `next` in each tcb | append, take the first, search, remove |
| Exit and join | `my_pthread_exit`, `my_pthread_join` | `WaitQueue`, `return_list`, `tcb.join` | exit wakes a waiter and records a value; join waits and collects |
| Mutexes | `my_pthread_mutex_*` | `lock`, `owner`, `destroyed`, `initialized` | init, lock, unlock, destroy |
| Page table | `update_table_entry`, `get_table_entry`, `get_active_tid`, `note_page_*` | a row per thread, a row of used notes, in `mem_block` | enter, look up, obtain a frame |
| Swapping | `handler`, `swap`, `swap_pages`, `swap_protection` | frames, their protection, the pivot page | bring a page into place; close and open pages at a switch |
| Eviction | `naive_evictor`, `evict_page`, `get_from_swap` | `swap_file`, its slot notes, `file_lock` | copy a page out; read it back (never reached) |
| Allocator | `myallocate`, `find_block`, `align_pages`, `init_block_meta_page*`, `mydeallocate` | block headers in the thread's pages | allocate, free |
| Not the system | `Virtual_world.c` (earlier prototype), `priority_boost` (never called), the test programs, the build | | |

### How they interact

Threads call the library; each call that gives the processor away ends in
`schedule_threads`, which changes to another thread's context with `swapcontext`. SIGALRM
does the same from a signal handler, at any instruction while the interval timer runs.
`schedule_threads` calls `swap_protection`, which closes the pages of the outgoing thread
and opens those of the incoming one. A touch of a closed page raises SIGSEGV, whose handler
exchanges two frames so that the running thread's page lies at its own address. The
allocator swaps pages the same way while it builds its block headers. The four tcb lists
share the one `next` field of the tcb.

### What is hard

- A thread woken from the `WaitQueue` is never taken out of it, although `next` now links a
  run queue; an exited thread's tcb is freed although lists may still hold it.
- The timer interrupts library calls as well as user code, and nothing masks it: between the
  stores of an append, between a search and what follows from it, between the arming of the
  timer and the switch of contexts, on the one stack all returning threads share.
- The mutex is a test-and-set with stores around it that any thread may come between.
- A page's frame is known only from the row of its own thread; who has a *displaced* page in
  a frame is not found out. A copy out of a closed frame faults, in the handler too.
- Memory and the swap file both run full.
- Block headers lie in the memory they describe: what a merge takes out of the list stays in
  memory, and a free is told by an address which header to go through.

`PROJECT.json` lists the hazards line by line with the properties aimed at them.

### What makes each part correct

Scheduler: no runnable thread is lost or queued twice, no starvation, indices in range.
Exit and join: a join waits for the exit and comes back after it, values are kept, lists end.
Mutexes: mutual exclusion, unlock only and always by the holder, progress. Paging: a thread
finds in its pages what it stored there, no page of another is open to it, no frame in use is
handed out again. Allocator: blocks of a thread do not overlap, and the list of their headers
stays linked both ways and comes to an end.

## 2. Modules

| Module | Of | Contents |
|---|---|---|
| `TcbQueues` | lists | list records over one shared `next`: `Enqueue`, `Dequeue`, `Remove`, walks |
| `Scheduler` | creation, scheduler, exit, join | one action per library call, and the timer between calls |
| `MCScheduler` | | the instances of `Scheduler` and the refinement mapping |
| `ThreadLife` | | abstract: threads start, block on a join, finish, return |
| `Preemption` | creation, scheduler, exit, join | one action per access to shared data, the timer anywhere |
| `Mutex` | mutexes | one action per statement that touches the mutex |
| `PageTable` | page table, swapping, eviction | the memory as a record and the functions on it |
| `Paging` | handler, switches, allocation | threads over a `PageTable` |
| `Blocks` | allocation, deallocation | the block headers of one thread |
| `TcbQueuesProofs`, `SchedulerProofs`, `PreemptionProofs`, `MutexProofs`, `PagingProofs`, `BlocksProofs` | | lemmas and theorems about the module named |
| `MainJoinsProofs` | creation, scheduler, exit, join | theorems about `Scheduler` when only main joins, and its refinement |
| `PagingSettledProofs` | page table, swapping | theorems about `Paging` once `myallocate` has left the memory settled |

What a walk along a list visits is stated without recursion, as the least set that is closed
under the walk's steps (`From` in `TcbQueues`, `Walk` in `Blocks`): so the proofs can use it.

### Scheduler

A thread, its tcb and its node in `return_list` are named by the tid. `q` is the record of
the four tcb lists: `head` and `tail` per list, one `next` per tcb, as in the code, so that
writing one list disturbs another here exactly when it does there. `Schedule(l, st, seen, over)`
is the whole of `schedule_threads`; every action that ends in a yield calls it with the
lists and states that the caller has left, the tcbs it has dereferenced (`seen`) and the other freed
memory the call uses (`over`).

The code uses freed memory of three kinds, and `mode` names the one that the process has not survived:

- `"tcb"`: a freed tcb was dereferenced or switched to;
- `"node"`: `my_pthread_exit` has linked a value behind a freed node of `return_list`, on which
  `my_pthread_join` had left the tail (`StaleTail`). After these two nothing more is claimed;
- `"stack"`: a thread that calls `my_pthread_exit` itself has its stack freed under it in
  `schedule_threads` and goes on up to `setcontext`. These few instructions may do no harm, or fault
  where `free` has returned the memory, so the step goes either way. When there is nobody to run
  the call returns into the freed stack; in `exit_caller`, which has a stack of its own, the process ends there.

`join` of main starts with any value, as `init_main` leaves it unset. Where the code takes
`current_thread` for NULL, before the first create, only `Create` is possible.

Each call is one step, and the timer strikes between calls. A thread joins each target at
most once, and only threads created; main does not call `my_pthread_exit` (its stack would
be freed, which `malloc` has not given out). `*value_ptr` with a NULL pointer is left out: a
join of a thread that has left a value passes a place for it.

### Preemption

The same calls with every load and store of shared data as an action: `number_of_threads`
under `count_lock`, the four stores of an append (`Insert_to_qeueue`, and the copy of it in
`my_pthread_join`), the walk of `my_pthread_exit` over the `WaitQueue` and of `search_by_tid`
over the run queues node by node, the marks `READY`, `WAITING` and `EXITED`, and inside
`schedule_threads` the requeueing, `get_tcb`, `setitimer`, the store of `current_thread` and the
switch. `at` is a program counter per thread, `local` the variables that survive a
preemption on its stack. `exec` is the thread whose stack the processor is on: it differs
from `current_thread` between `TakeOver` and `SwapContext`, and a strike there saves the wrong
registers. `LeadsAstray` is an append that goes through a NULL tail, since a strike came between the
stores of head and tail of an earlier one.

`Tick` is `timer_interrupt` as one step, because SIGALRM is blocked while its handler runs.
`exit_stack` is the set of threads inside `my_pthread_exit` on the stack of `exit_caller`; a
second one overwrites the frames of the first, which is `Smashed` when it runs again. `Fragile` names
the points at which a strike can do harm, `torn` counts strikes there, and `MaxTorn` bounds
them. Calls of `malloc`, `free` and `printf` inside the library have no label: what a strike does to
*their* data is not modelled, and `SafeUnlessTorn` speaks of the library's own. An exit is taken to survive on its
freed stack until the switch. Return values, and the sum in `run_time` (a boost may or may not be due), are left out;
only main joins, and only threads whose create has put them on a run queue.

### Mutex

One mutex, from the state the first init leaves. Every statement that reads or writes a
field is a step. A thread may call unlock when it does not hold the mutex; it does not lock
what it holds (it would spin for ever). `Destroyers` and `Initers` are the threads that call
destroy, and init a second time.

### PageTable and Paging

`mem` is the record of table, used notes, frame contents, open frames and taken slots. A
page is usable when it is in the frame of its own number. `Obtain` is `get_unused_page`: the
first frame not noted as used, or the one `naive_evictor` draws, any.

`Paging` takes a thread through `myallocate`. A first request: `Align` and `SwapIn` are the two
halves of a turn of `align_pages`, `PageZero` is `init_block_meta_page_zero`, `Link` is the rest of
`find_block`. A later one (`AllocateAgain`, with `Again`): `Walk` is the swap in front of the walk, `Misdirected`
the two swaps of `init_block_meta_page`, whose arguments are exchanged, so that the page with the
thread's number is brought in for the rows of the table that have the pages' numbers. Then either the
block is split (`Splits`) and `Place` brings in the page of the new header, or it is not and
`Charge` leaves the list as it is, after which `myallocate` enters pages from 0 on. `Map` is a turn of
the loop at the end of `myallocate`. `Fault` is the SIGSEGV handler, `Deallocate` a swap of
`mydeallocate`, `Switch` is `swap_protection`, `Exit` the `exit` of `evict_page` when the swap file is full.

Requests are in bytes: `HeaderPage(x)` is the page of the header behind a first block of x bytes and `Span(x)`
the number of pages entered for it. `room` is `free_size` of the first header, which a split leaves
alone, and `second` the page its `next` leads to, which a split changes. Later requests are the ones
the first block has room for (`x + HEADER <= room`): any other comes to the last header, whose `next` is
NULL, and the process ends there (`Blocks`). They are made by threads that have freed nothing, since
which headers lie where after a merge is the matter of `Blocks`; so `Deallocate` goes with `~ Again`.

`stored` is a history: what each thread may find in each of its pages, one value once it has stored there.
`data` has one value for a page; the headers that the library writes into it are not part of that.
`FindsStored` says that the running thread reads back, directly or through a fault, what it stored last.
`Settled` is the state in which that is safe: nobody is in `myallocate`, every page is in place or in
a frame of a number that no thread has a page of, no two in one frame, and exactly the running thread's
are open. `CallsSettle` says that `myallocate` leaves it, `StaysSettled` that all else keeps it.

`swap_pages` is one step, unless the frame it copies from is closed: then the copy faults
(`GoAstray`), and nothing is said of what follows. Only requests whose pages are all in the
thread's row of the table are made, since the last loop writes outside it for larger ones. Later requests
are made when the page of the second header names a row, and the tid a page.
Thread 64 is left out: its row is the row of the used notes.

### Blocks

The headers of one thread as a function from byte addresses to what they say, over memory that
is in place whenever it is looked at. A header has 48 bytes with its fields where `FieldAt` puts them.
`Malloc` is `myallocate` with `find_block`'s walk (`Fit`), `Split`
or `Charge` for `init_block_meta_page`, and the address it returns, which is computed from the
header *before* the one found. `Free` is `mydeallocate` with its two merges, statement by
statement. Headers that a merge takes out of the list stay in memory, and a block may be
freed through one.

A split does not ask what its new header is written over. Headers it goes across are destroyed:
they are no longer there to read, though links to them are. When the next header is one of those, the code still
stores the new header's address where that header's `prev` was (`LinkBack`): `Hit` says which fields of which header
that goes over, and a header hit in a field that is not filled in again afterwards is destroyed as well. If it is
the new header's own `prev`, the address that `myallocate` returns is garbled. `lost` says that a call has
gone through NULL, has read a destroyed header or has returned a garbled address, after which nothing is claimed;
`spoilt` records what the list's links do not survive: a header
written over one in the list or over part of any, a free through a header that was merged away,
and, which does harm only together with the second, such a header written anew.
`live` are the blocks the program has: it frees each once.

That a first request fits in the thread's pages is an assumption (`BlocksAssumption`): the code does not check it, and
its subtraction of sizes would wrap around.

## 3. Runs

| Run | Instance | Properties | Result |
|---|---|---|---|
| `SchedulerMain` | 4 threads, main joins all | `RunQueuesExact`, `WaitersWakeable`, `FreedTcbsUntouched`, `ImplementsLife`, `ReadyRuns`, `JoinReturns` | hold |
| `SchedulerCrossed` | 4 threads, joins that cross and a self-join | `TypeOK`, `ListsAcyclic`, `ValuesKept` | hold |
| `JoinLost` | two independent joins | `ExitWakesJoiner` | violated |
| `StaleTail` | 4 threads, main joins all | `ValuesAppended` | violated |
| `Preempted` | 3 threads, one strike at a fragile point | `TypeOK`, `SafeUnlessTorn`, `TidsFresh` | hold |
| `MutexPlain` | 4 threads that lock and unlock | `HolderOwns`, `MutualExclusion`, `SomebodyGets`, `LockFreed` | hold |
| `MutexReinit` | one destroys, one initializes again | `TypeOK`, `OwnerHolds` | hold |
| `PagingUniform` | 3 threads, 12 frames, one request of 2 pages each | `OpenIsOwn`, `NeverAstray`, `FindsStored`, `CallsSettle` | hold |
| `PagingFull` | 2 threads, 3 frames, repeated requests of 1 or 2 pages, preemption inside `myallocate` | `TypeOK`, `MappedIsUsed`, `StaysSettled` | hold |
| `SecondMalloc` | 2 threads, 15 frames, repeated requests of 1 or 3 pages | `FindsStored` | violated |
| `Blocks` | 5 requests of 7 sizes, frees in any order | `TypeOK`, `ListLinked`, `ListEnds`, `WalkStops` | hold |
| `SameBlock` | the same | `LiveDisjoint` | violated |

### What the violations show

- `JoinLost`: 1 waits for 2 and 3 for 4, both in the `WaitQueue`. When 2 exits, 1 is appended to
  a run queue, which sets `1.next` to NULL; 3 hung behind it. 4 exits and finds nobody to wake.
- `StaleTail`: 2 and 3 exit with values, main joins 3, whose node is the last of `return_list`. The join frees it and
  leaves the tail on it; 4 exits with a value, which is stored through the freed node (`my_pthread.c:349`).
  Joins from main are enough for it.
- `SecondMalloc`: thread 1 has three pages, the second header in page 2, and asks for a little more, which the first
  block has room for. `init_block_meta_page` brings page 1, with the thread's number, in for row 0 of the table (`:117`)
  and again for row 2 (`:119`). Its own page 1 is moved away while the frame of that number stays open: it reads there
  what it never stored. The test program asks for a second array in the same way (`test.c:64`, `:86`).
- `SameBlock`: the second of two requests that fit the first block is given the first block.
  The first header stays the header of both, and no third header is ever looked at (`WalkStops`):
  `find_block` stops at the first header or at the one behind it.

### What lies just outside the passing runs

The restrictions of the passing runs are the edges of what the code gets right; changing
one constant of a configuration shows it.

- `PagingUniform` with `Sizes = {1, 12}` and two threads on 10 frames: `FindsStored` fails.
  `get_active_tid` does not see a displaced page, so `swap_pages` moves it and no entry follows.
- `PagingUniform` with two threads, 4 frames, `Sizes = {1}` and `Preemptible = TRUE`: `FindsStored`
  fails, which holds there with `Preemptible = FALSE`. The loop at the end of
  `myallocate` enters pages as in place that another thread has moved since.
- `PagingUniform` with 3 frames and `Sizes = {1}`: `FindsStored` fails. `evict_page` has its
  table updates commented out, so the old owner's entry names a frame that is another's now.
- So `PagingUniform` is a narrow case: the code masks SIGALRM nowhere, and the repository's programs ask for blocks of
  several sizes. What holds without these restrictions is `StaysSettled`: the harm is done in `myallocate`,
  and never by faults, switches, stores and frees on memory that is in order.
- `Preempted` with `NobodyStranded` in place of `SafeUnlessTorn`: fails, with one strike inside `schedule_threads` after it
  has armed the timer (`my_pthread.c:260`) and set `current_thread` (`:265`), and before `swapcontext` (`:271`). The handler
  enters `schedule_threads` again, takes the new thread for the caller, and saves the registers of the old one as
  its context. Another such strike is that in `my_pthread_join` after main has marked itself `WAITING` (`:370`) and
  before it is in the `WaitQueue`: the scheduler does not requeue it, and it is in no list. `SafeUnlessTorn` says
  that all strikes that do harm fall at the labels in `Fragile`: with none of them, every thread can be scheduled
  again, and main's joins return after the exits.
- `MutexPlain` with a thread in `Initers`: `MutualExclusion` fails. `my_pthread_mutex_init` tests
  `initialized` for 1 and stores 0.
- `MutexPlain` with a thread in `Destroyers`: `HolderOwns` and `LockFreed` fail. The destroy race
  clears the owner of a locked mutex, whose holder is then refused its unlock, so that the
  mutex stays locked for ever.
- `SchedulerMain` with the joins `Pairs` or `Crossed`: `RunQueuesExact` and `ImplementsLife` fail. A
  woken thread is still the `WaitQueue`'s tail, and the next waiter is linked behind it,
  inside a run queue. A join of a thread that itself waits returns at once, since
  `search_by_tid` looks at the run queues only.
- `SchedulerCrossed` with `FreedTcbsUntouched`: fails. A thread other than main that has been woken and has exited
  is still in the `WaitQueue`, where the next exit looks at its freed tcb.
- `ValuesKept` claims nothing of a step that uses freed memory and does not survive it, such as that of `StaleTail`.
- `Blocks`: `ListLinked` stops where a header has been written over one in the list or over part of any, or a block freed
  whose header had been merged away. Such a free alone leaves a list that ends. With headers that were
  merged away also written anew it need not: request 600, 456, 1464, 960, 1248 and 168 bytes, free the fifth
  block, the first and the sixth, request 168 and 1464, and free the fourth. The header at 1608 then is its own
  `next`. Five requests are too few to show it; `ListEnds` says nothing there.

### Bounds

- `MaxTid = 4`: main and three more; a rank of a run queue with three members, and two waiters
  with two targets. Create stops there. `MaxTid = 3` in `Preemption`: main, a thread it joins and one
  that comes between; every append finds an empty and a non-empty list.
- `BoostAt`: 225 in the code. With 90 a boost comes after one turn at the lowest rank instead
  of three, with 120 after two. `run_time` is compared with nothing else and stops at `BoostAt`.
- `MaxTorn = 1`: one strike of the timer at a fragile point, any number elsewhere. What one strike leaves
  is already beyond repair (see above); what holds for any number of them is proved (section 4).
- `NUM_USER_PAGES`: 12 frames for three threads with 2 pages each, which take 4 frames each: no
  eviction. 3 frames in `PagingFull`, where `align_pages` takes two for every page: eviction from the second page on, up to the end of the
  swap file, whose slots are `2 * NUM_USER_PAGES` as in the code.
- `NUM_PROCESSES`: one row more than the largest tid. The rows without a thread are those that the
  misdirected swaps write.
- `PAGE_SIZE = 4`, `HEADER = 1` in `Paging` (4096 and 48): a request of 1 has one page, 2 has
  two with both headers in the first, 3 and 4 have two with the second header in page 1, 7 three with
  it in page 2; 1 more fits in the first block of any but the smallest.
- Two values suffice to tell a page's contents from another's last store. `PagingFull` has only one, which keeps it
  small: there `StaysSettled` says where pages are and what is open, and its part about contents is left
  to `CallsSettle` and `FindsStored` in `PagingUniform`, and to the proof. Frees, which do not go with repeated
  requests, are in `PagingUniform` too.
- `HEADER = 48` as on x86-64, `Room = 2400` for `Blocks`. The seven sizes make requests that
  split and that do not, a first block with room for several, and headers that fall on, beside and across others. Multiples
  of 24 bring a new header half way across another, 100 and 104 so near to the next one that the link back goes
  over its own `prev` or `next`. Five requests allow a merge with a merge
  on either side of it.

### Deadlock

`CHECK_DEADLOCK FALSE` stands where the process may end: main returns, the timer is disarmed with
nobody to run, a pointer has led nowhere, it exits with the swap file full, or
the bound on requests is reached with every block freed. The mutex runs check for deadlock.

### Fairness

- `WF(Tick)`: the interval timer fires again and again while it is armed; `ITIMER_REAL` does.
- `SF(JoinResume)`, `SF(Exit(t, _))`: a thread that gets the processor again and again comes to the
  end of its join and of its function. The second is the program's part. Strong fairness,
  because the thread is disabled whenever it is switched out. `FairSpec` has the timer's fairness alone, so that `ReadyRuns`
  holds although the other threads may compute for ever; the program's part is the premise of `JoinReturns`.
- `WF(Running(t))` in `Mutex`: what `ReadyRuns` gives, for a thread in the middle of a call.
  `WF(Unlock(t))`: whoever holds the mutex unlocks it, the program's part. No single thread is promised the
  mutex: a spin lock may pass it over for ever.

## 4. Proofs

The theorems hold for all values of the constants under the assumptions the modules state:
`MaxTid` at least 2, any `Joins`, `BoostAt` and `MaxTorn`; `NoOwner` no thread; tids that have rows of their
own, at least one page and one value, any page and header size, any requests; in `Blocks`, first requests that fit.

- `TcbQueuesProofs`: appending, taking and removing keep lists well formed. A list with a head has
  a node as its tail, and an append clears the new node's `next` last, so that nothing leads
  from it back; a set closed under `next` would have to lie without it and have been closed
  before. The argument does not care which lists a node is in, which is why it survives the
  code's sharing of `next`.
- `SchedulerProofs!TypeCorrect`, `ListsStayAcyclic`. The invariant is `TypeOK` and `WellFormed` lists.
  Acyclicity alone is not inductive: `Enqueue` writes through `tail`.
- `SchedulerProofs!ValuesStayKept`, whoever joins whom. A value leaves `return_list` in the join that
  collects it, and stays while other nodes are put in and taken out, until a step uses freed memory and does not
  survive it. That needs that tids are handed
  out in order, so that only a thread that was created has a value there (`Numbered`), and that a value in
  the list is that of a thread that has exited (`Returned`).
- `MainJoinsProofs!RunQueuesStayExact`, `MainStaysWakeable`, `FreedTcbsStayUntouched`, for joins from main alone
  (`MainJoins`), which is what the repository's test programs do; main may also join itself. The
  invariant says of every run queue that it holds exactly the threads that are `READY` at its priority (`Exact`),
  that one thread runs (`Turn`), and of main, which is never taken out of the `WaitQueue`, that it is alone
  in it: head and tail, with its `next` NULL while it waits, so that waking it disturbs nothing
  (`MainWaits`). `RunQueuesExact` is not inductive without the last: the next field of a waiting main
  belongs to the `WaitQueue` and is the run queue's a moment later. `FreedTcbsStayUntouched` is about tcbs alone: the
  freed nodes of `return_list` and the freed stack of an exit are used even so (`StaleTail`, section 2). For joins from other threads the
  theorems are false (section 3).
- `MainJoinsProofs!LifeImplemented`, for joins of main other than of itself: each call maps to a step of
  `ThreadLife` or a stutter, since a join comes back only when its target is `FREED`. `LifeKeepsPromise` says what that
  is worth to a caller, whatever implements `ThreadLife`, and `JoinsOutlastTargets` that the library does it:
  main never waits for a thread that has exited, and all its joins that have returned were of such threads.
- `PreemptionProofs!TypeCorrect`, `TidsStayFresh`, for any number of strikes anywhere. Types need
  that the pointers and lists in `local` fit the label a thread is at (`LocalsFit`); a half-done append
  leaves lists that are not well formed but still made of tcbs. `TidsFresh` needs that whoever is between the lock
  and the unlock is the one who has `count_lock`, and that what it has loaded is what is still there
  (`CountLocked`).
- `PreemptionProofs!OnlyTornStrands`, that is `SafeUnlessTorn`, for any number of threads. The property is far from
  inductive; `Spared`, which is (with the types), says for as long as the timer has struck at no fragile label:
  - `Lists`: the four lists are `Neat` lists (exact run queues over one acyclic `next`, main alone in the `WaitQueue`,
    every other `next` NULL) but for the append the running thread is in, of which `Half` says what each label has
    done; nobody else is in the middle of one. `Queued` and `Away` say which threads the run queues
    hold at each label of `schedule_threads`;
  - `Turn`, `Stands`, `Labelled`: who has the processor, what its state is at each label, and that all others
    were left at a `Rested` label (or are freed): so they hold nothing that the lists have outgrown. That a
    thread's tcb is freed only at the end of its exit is in `Placed`;
  - `Fresh`: the tcb between lock and append is known to nobody else, which rests on `CountLocked`;
  - `InSearch`, `InWalk`, `AtWake`: how far main's search and an exiting thread's walk have got, so that a search
    that ends without its target has shown it freed, and a walk that ends without main has shown main not waiting;
  - `MainWaits`, `MainReturns`: main waits exactly until the thread it has joined is past its walk
    (`Leaving`), and comes back from its yield only then.

  Each action has a lemma of its own (`WalkSpared`, `TickSpared`, ...); `NeatEnqueue`, `NeatDequeue`, `NeatWait`
  and `HalfEnds` do what they do to the lists. `SomeoneReady` shows that get_tcb always finds a thread: if main waits,
  the thread it waits for is still to run. At the fragile labels the invariant breaks, and
  so does the property (section 3).
- `MutexProofs!MutexTypeCorrect`, `OwnerSound`, for any destroyers and initers. `OwnerHolds` is
  inductive with the types: `owner` is set by the one who goes on to `held`, and cleared by the
  owner before it releases.
- `MutexProofs!MutualExclusionHolds`, for `Initers = {}` and any destroyers: the invariant adds
  that `lock` is 1 while a thread holds the mutex, so no second test-and-set succeeds, and that nobody is in
  init. Without `Initers = {}` the theorem is false (section 3).
- `MutexProofs!HolderIsOwner`, for `Initers = {}` and `Destroyers = {}`: nobody clears `owner` but
  the one holder, which needs `Exclusion`, and nobody is in destroy.
- `PagingProofs!PagingTypeCorrect`, `MappedStaysUsed`. `MappedIsUsed` needs that a page enters the table
  only with a frame already noted (`ObtainSound`), and that a displaced page moves to the frame
  the incoming one came from, which was noted too (`SwapPagesSound`). Types need the loop counters to stay
  within a request, a request within the row (`CallOK`), and the misdirected swaps within the table (`InTable`).
- `PagingSettledProofs!SettledStays`, `SettledFinds`, for any threads, any requests of any sizes, repeated or not, with
  strikes inside `myallocate` and with eviction. From a settled memory on (section 2) the SIGSEGV handler, the switches,
  the swaps of `mydeallocate` and the stores leave every page with what its thread stored there, let no copy fault, and
  show the running thread its own pages only, until some thread calls `myallocate`. A swap then moves a page that no
  thread or just one has in place (`SwapPagesDoes`), out to a frame that nobody looks at. How the memory
  comes to be settled is not part of it: `CallsSettle` is checked in `PagingUniform` and false with a strike inside
  `myallocate`, a second request, two sizes or fewer frames (section 3). Whether it can be *had* is thus
  the allocator's doing; that it is *kept* is proved.
- `BlocksProofs!WalkStaysShort`, for any sizes a first request of which fits (`BlocksAssumption`, which the code does not
  check). It follows from `Sound` headers: the first is taken and no other, no link leads back to the first,
  and headers lie from the first one on. A free marks a header some other one links to, hence
  never the first; a split writes a header behind its predecessor, hence over neither. The merges write links and
  sizes only. The headers that a split or its link back goes over are dropped, so the theorem does not depend on how
  badly the list is damaged, and claims nothing of a call that reads them. The types (`BlocksTypeCorrect`) go with it;
  that no size falls below 0 is what `BlocksAssumption` says and not a result about the code.
- `BlocksProofs!ListStaysLinked`, `ListAlwaysEnds`, for any sizes and any number of calls. The invariant has
  two halves. While no free goes through a header that was merged away, the headers in the list form a
  `Chain`: linked both ways, with numbers that go down along `next`; a free goes through the header in front of
  the block it frees, so its merges take out one or two neighbours and join what is left on both sides.
  While no header is written anew, numbers of *all* headers, the merged ones included, go down along `next`
  and up along `prev` (`Falls`), whatever header a free goes through. A split puts its header at a number
  between two neighbours. In both cases the least number in the list is that of a header whose `next` is NULL.
  The proof would not go through for both things done together, and rightly: the list may then be
  closed into a cycle (section 3).

Model-checked only:

- liveness (`ReadyRuns`, `JoinReturns`, `SomebodyGets`, `LockFreed`), which is outside the prover's reach;
- `OpenIsOwn`, `NeverAstray`, `FindsStored` and `CallsSettle` of `PagingUniform`: they depend on all requests being
  alike, on no strike inside `myallocate` and on the frames sufficing, none of which the code ensures, so a
  theorem that assumed them would be of no use. The part that needs no such assumption is `SettledStays`.

Every other invariant, action property and refinement that a passing run checks is proved as well.

## 5. Not modelled

- The copies of `swap_pages` through the pivot page as steps of their own, with SIGALRM between
  them; a fault of the copy itself is modelled up to the fault.
- Thread 64, whose row of the table is the row of the used notes; requests whose last loop
  leaves the row.
- What a thread stores over its own headers; the contents of blocks in `Blocks`; the headers as contents of pages
  in `Paging`, and repeated requests there of a thread that has freed blocks.
- Strikes inside `malloc`, `free` and `printf` of the C library.
- `get_from_swap` and entries with location 1: `update_table_entry` is called with location 1
  only for an entry that has it already, so no run of the program gets there.
- `count_lock` before its first init, whose memory `malloc` may return with anything in it.
- Return values under preemption, and `my_pthread_join` from threads other than main there.
- `priority_boost`, never called; `Virtual_world.c`, not built; failures of `malloc`, `open`, `write`.

## 6. Plan

Done: the scheduler as calls and access by access, mutexes, swapping, eviction, allocation and
deallocation, and the proofs of section 4.

Open: the steps of `swap_pages` through the pivot page with the timer between them, and joins from threads
other than main at the grain of `Preemption`, where nothing like `SafeUnlessTorn` can hold before the
`WaitQueue` is repaired (section 3).
