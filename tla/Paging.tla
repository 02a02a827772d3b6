------------------------------- MODULE Paging -------------------------------
(***************************************************************************)
(* Threads that take memory from myallocate and use it, over the page      *)
(* table: the SIGSEGV handler that brings a page into place, the switches  *)
(* of threads that close and open frames, and myallocate, page by page.    *)
(* Which thread runs next is the scheduler's choice, here any.             *)
(*                                                                         *)
(* The handler, and each step of myallocate, is one action.  Of the blocks *)
(* of a thread, see Blocks, there is only its first one and the pages the  *)
(* headers are in.  Later requests are those that find_block serves from   *)
(* the first block, of a thread that has freed nothing.                    *)
(***************************************************************************)
EXTENDS PageTable

CONSTANTS
  PAGE_SIZE, HEADER,    (* 4096 and sizeof(block_meta)                     *)
  Sizes,                (* the sizes asked for                             *)
  Again,                (* whether a thread allocates more than once, and  *)
                        (* then frees nothing                              *)
  Preemptible           (* whether the timer may strike inside myallocate  *)

ASSUME PagingAssumption ==
  /\ PAGE_SIZE \in Nat \ {0}
  /\ HEADER \in Nat
  /\ Sizes \subseteq Nat
  /\ Again \in BOOLEAN
  /\ Preemptible \in BOOLEAN

VARIABLES
  mem,                  (* the memory, see PageTable                       *)
  current,              (* the running thread                              *)
  call,                 (* where each thread is in myallocate              *)
  size,                 (* how many pages it has, from page 0 on           *)
  room,                 (* free_size of its first block                    *)
  second,               (* the page of the header behind its first one     *)
  stored,               (* history: what it may find in its pages, which   *)
                        (* is anything until it stores a value there       *)
  mode                  (* "on", "exited", or "astray" when a copy of      *)
                        (* swap_pages has faulted: in the handler that is  *)
                        (* the end of the process, elsewhere the handler   *)
                        (* swaps in the middle of a swap                   *)

vars == <<mem, current, call, size, room, second, stored, mode>>

blocks == <<size, room, second>>

(* The page of the header behind a block of size x that begins where the   *)
(* pages do, and how many pages myallocate enters for it.                  *)
HeaderPage(x) == (x + HEADER) \div PAGE_SIZE

Span(x) == (x + 2 * HEADER) \div PAGE_SIZE + 1

(* A call of myallocate: the loop it is in, the loop's counter, the size   *)
(* asked for, how many pages and from which one on it enters at the end.   *)
Calls ==
  [at : {"idle", "align", "swap in", "link", "map",
         "walk", "prev", "next", "place", "enter"},
   i : 0 .. NUM_USER_PAGES, x : Nat,
   n : 0 .. NUM_USER_PAGES, q : 0 .. NUM_USER_PAGES]

Idle == [at |-> "idle", i |-> 0, x |-> 0, n |-> 0, q |-> 0]

Init ==
  /\ \E zero \in Values : mem = FreshMemory(zero)
  /\ current \in Tids
  /\ call = [t \in Tids |-> Idle]
  /\ size = [t \in Tids |-> 0]
  /\ room = [t \in Tids |-> 0]
  /\ second = [t \in Tids |-> 0]
  /\ stored = [t \in Tids |-> [p \in Frames |-> Values]]
  /\ mode = "on"

(* Thread t goes on with its request to another point of myallocate.       *)
GoTo(t, label, i) ==
  call' = [call EXCEPT ![t] = [at |-> label, i |-> i, x |-> call[t].x,
                               n |-> call[t].n, q |-> call[t].q]]

(* A request of x whose pages are all in the thread's row of the table;    *)
(* those so large that the last loop would leave the row are left out.     *)
Request(t, label, x) ==
  /\ HeaderPage(x) + Span(x) <= NUM_USER_PAGES
  /\ call' = [call EXCEPT ![t] = [at |-> label, i |-> 0, x |-> x,
                                  n |-> Span(x), q |-> HeaderPage(x)]]

(* The running thread t has come to this point of myallocate.              *)
At(t, label) == mode = "on" /\ t = current /\ call[t].at = label

-----------------------------------------------------------------------------
(* find_block goes on from here to there with a swap of a page, for a row  *)
(* of the table.                                                           *)
SwapTo(t, page, r, f, label, i) ==
  /\ MaySwap(mem, page, r, f)
  /\ Readable(mem, page, r, f)
  /\ mem' = Swap(mem, page, r, f)
  /\ GoTo(t, label, i)
  /\ UNCHANGED <<current, blocks, stored, mode>>

(* The first myallocate of a thread.                                       *)
Allocate(t, x) ==
  /\ At(t, "idle")
  /\ mem.table[t][0] = OUT_OF_BOUNDS
  /\ Request(t, "align", x)
  /\ UNCHANGED <<mem, current, blocks, stored, mode>>

(* A turn of the loop of align_pages: an unused page is obtained, at which *)
(* nobody looks again ...                                                  *)
Align(t, f) ==
  /\ At(t, "align")
  /\ call[t].i < call[t].n
  /\ MayObtain(mem, f)
  /\ mem' = Obtain(mem, f)
  /\ GoTo(t, "swap in", call[t].i)
  /\ UNCHANGED <<current, blocks, stored, mode>>

(* ... and the next page of the request is swapped in.                     *)
SwapIn(t, f) ==
  /\ At(t, "swap in")
  /\ SwapTo(t, call[t].i, t, f, "align", call[t].i + 1)

(* init_block_meta_page_zero, and its header.                              *)
PageZero(t, f) ==
  /\ At(t, "align")
  /\ call[t].i = call[t].n
  /\ SwapTo(t, 0, t, f, "link", 0)

(* The headers a call writes must be in open pages: for a first request    *)
(* those of the first block and of the one behind it, for a later one that *)
(* of the new block as well.                                               *)
HeaderPages(t) ==
  CASE call[t].at = "link"  -> {0, call[t].q}
    [] call[t].at = "place" -> {0, second[t]}
    [] call[t].at = "enter" -> {0, call[t].q, second[t]}
    [] OTHER                -> {}

(* The new header is linked behind the first one, find_block is done, and  *)
(* myallocate goes on to its loop.  A split leaves free_size of the first  *)
(* header as it is.                                                        *)
Link(t) ==
  /\ At(t, "link") \/ At(t, "enter")
  /\ HeaderPages(t) \subseteq mem.open
  /\ second' = [second EXCEPT ![t] = call[t].q]
  /\ room' = IF call[t].at = "link" THEN [room EXCEPT ![t] = call[t].x]
             ELSE room
  /\ GoTo(t, "map", 0)
  /\ UNCHANGED <<mem, current, size, stored, mode>>

(* A later request, which the walk finds room for in the first block.      *)
(* Headers in pages from NUM_PROCESSES on are left out, and threads        *)
(* without a page of their number: Misdirected would leave the table.      *)
AllocateAgain(t, x) ==
  /\ Again
  /\ At(t, "idle")
  /\ mem.table[t][0] # OUT_OF_BOUNDS
  /\ x + HEADER <= room[t]
  /\ second[t] \in Rows /\ t \in Frames
  /\ Request(t, "walk", x)
  /\ UNCHANGED <<mem, current, blocks, stored, mode>>

(* The walk of find_block, which ends at the first header.                 *)
Walk(t, f) ==
  /\ At(t, "walk")
  /\ SwapTo(t, 0, t, f, "prev", 0)

(* init_block_meta_page means to swap in the pages of prev and next for    *)
(* the thread, and swaps in the page of the thread's number for the rows   *)
(* of those numbers.                                                       *)
Misdirected(t, f) ==
  \/ /\ At(t, "prev")
     /\ SwapTo(t, t, 0, f, "next", 0)
  \/ /\ At(t, "next")
     /\ SwapTo(t, t, second[t], f, "place", 0)

(* A block that leaves room for two headers is split, and the page of the  *)
(* new one swapped in.                                                     *)
Splits(t) == call[t].x + 2 * HEADER < room[t]

Place(t, f) ==
  /\ At(t, "place")
  /\ HeaderPages(t) \subseteq mem.open
  /\ Splits(t)
  /\ SwapTo(t, call[t].q, t, f, "enter", 0)

(* Any other is given the size of the request, and its pages are entered   *)
(* from the first one on.                                                  *)
Charge(t) ==
  /\ At(t, "place")
  /\ HeaderPages(t) \subseteq mem.open
  /\ ~ Splits(t)
  /\ room' = [room EXCEPT ![t] = call[t].x]
  /\ call' = [call EXCEPT ![t] = [at |-> "map", i |-> 0, x |-> call[t].x,
                                  n |-> call[t].n, q |-> 0]]
  /\ UNCHANGED <<mem, current, size, second, stored, mode>>

(* One turn of the loop of myallocate, which enters a page as in place.    *)
Map(t) ==
  LET page == call[t].q + call[t].i
  IN  /\ At(t, "map")
      /\ call[t].i < call[t].n
      /\ mem' = UpdateEntry(mem, t, page, page)
      /\ GoTo(t, "map", call[t].i + 1)
      /\ UNCHANGED <<current, blocks, stored, mode>>

Return(t) ==
  /\ At(t, "map")
  /\ call[t].i = call[t].n
  /\ size' = [size EXCEPT ![t] = IF @ = 0 THEN call[t].n ELSE @]
  /\ call' = [call EXCEPT ![t] = Idle]
  /\ UNCHANGED <<mem, current, room, second, stored, mode>>

-----------------------------------------------------------------------------
(* The pages the running thread may be about to touch.                     *)
Touched(t) ==
  IF call[t].at = "idle" THEN 0 .. size[t] - 1 ELSE HeaderPages(t)

(* A page of the running thread is brought into place.                     *)
BringIn(p, f) ==
  /\ MaySwap(mem, p, current, f)
  /\ Readable(mem, p, current, f)
  /\ mem' = Swap(mem, p, current, f)
  /\ UNCHANGED <<current, call, blocks, stored, mode>>

(* handler: a touch of a closed page, which is then touched again.         *)
Fault(p, f) ==
  /\ mode = "on"
  /\ p \in Touched(current) \ mem.open
  /\ BringIn(p, f)

(* One of the swaps of mydeallocate, which brings in the pages of the      *)
(* headers it goes through, in place or not.                               *)
Deallocate(p, f) ==
  /\ ~ Again
  /\ mode = "on"
  /\ call[current].at = "idle"
  /\ p \in Touched(current)
  /\ BringIn(p, f)

(* A store to an open page goes to whatever frame has that number.         *)
Store(p, v) ==
  /\ mode = "on"
  /\ call[current].at = "idle"
  /\ p \in Touched(current) \cap mem.open
  /\ mem' = [mem EXCEPT !.data[p] = v]
  /\ stored' = [stored EXCEPT ![current][p] = {v}]
  /\ UNCHANGED <<current, call, blocks, mode>>

(* swap_protection in schedule_threads.                                    *)
Switch(t) ==
  /\ mode = "on"
  /\ Preemptible \/ call[current].at = "idle"
  /\ mem' = SwapProtection(mem, current, t)
  /\ current' = t
  /\ UNCHANGED <<call, blocks, stored, mode>>

(* The swaps that thread t comes to next: <<page, row>>.                   *)
Swaps(t) ==
  LET c == call[t] IN
  (   CASE c.at = "swap in"              -> {<<c.i, t>>}
        [] c.at = "align" /\ c.i = c.n   -> {<<0, t>>}
        [] c.at = "walk"                 -> {<<0, t>>}
        [] c.at = "prev"                 -> {<<t, 0>>}
        [] c.at = "next"                 -> {<<t, second[t]>>}
        [] c.at = "place" /\ HeaderPages(t) \subseteq mem.open /\ Splits(t)
                                         -> {<<c.q, t>>}
        [] c.at = "idle"                 -> Touched(t) \X {t}
        [] OTHER                         -> {})
  \cup (Touched(t) \ mem.open) \X {t}

(* evict_page with no slot left in the swap file: exit(EXIT_FAILURE).      *)
Exit ==
  /\ mode = "on"
  /\ SwapFileFull(mem)
  /\ \/ call[current].at = "align" /\ call[current].i < call[current].n
     \/ \E s \in Swaps(current) : ~ Assigned(mem, s[2], s[1])
  /\ mode' = "exited"
  /\ UNCHANGED <<mem, current, call, blocks, stored>>

(* A swap from a closed frame.                                             *)
GoAstray ==
  /\ mode = "on"
  /\ \E s \in Swaps(current), f \in Frames :
       MaySwap(mem, s[1], s[2], f) /\ ~ Readable(mem, s[1], s[2], f)
  /\ mode' = "astray"
  /\ UNCHANGED <<mem, current, call, blocks, stored>>

Next ==
  \/ \E t \in Tids :
       \/ \E x \in Sizes : Allocate(t, x) \/ AllocateAgain(t, x)
       \/ \E f \in Frames :
            \/ Align(t, f)
            \/ SwapIn(t, f)
            \/ PageZero(t, f)
            \/ Walk(t, f)
            \/ Misdirected(t, f)
            \/ Place(t, f)
       \/ Charge(t)
       \/ Link(t)
       \/ Map(t)
       \/ Return(t)
       \/ Switch(t)
  \/ \E p, f \in Frames : Fault(p, f) \/ Deallocate(p, f)
  \/ \E p \in Frames, v \in Values : Store(p, v)
  \/ Exit
  \/ GoAstray

Spec == Init /\ [][Next]_vars

-----------------------------------------------------------------------------
TypeOK ==
  /\ mem \in Memory
  /\ current \in Tids
  /\ call \in [Tids -> Calls]
  /\ size \in [Tids -> 0 .. NUM_USER_PAGES]
  /\ room \in [Tids -> Nat]
  /\ second \in [Tids -> 0 .. NUM_USER_PAGES]
  /\ stored \in [Tids -> [Frames -> SUBSET Values]]
  /\ mode \in {"on", "exited", "astray"}

(* A frame some entry of the table names is noted as used, so              *)
(* get_unused_page does not give it to another page.                       *)
MappedIsUsed ==
  \A r \in Rows, p \in Frames :
    Assigned(mem, r, p) => mem.table[r][p] \in mem.used

(* Where the running thread can read and write without a fault, it finds   *)
(* its own pages.                                                          *)
OpenIsOwn ==
  call[current].at = "idle" =>
    \A p \in Touched(current) \cap mem.open : mem.table[current][p] = p

(* The frame a page is brought from is open: swap_pages does not fault in  *)
(* its own copying, which in the handler would be the end of the process.  *)
NeverAstray == mode # "astray"

(* What the running thread finds in its page p: what is there if it is     *)
(* open, and otherwise what the handler is going to bring in.              *)
Found(p) == mem.data[IF p \in mem.open THEN p ELSE mem.table[current][p]]

(* A thread finds in each of its pages what it stored there last, whatever *)
(* faults, switches, stores and allocations of others come between.        *)
FindsStored ==
  mode = "on" /\ call[current].at = "idle" =>
    \A p \in Touched(current) : Found(p) \in stored[current][p]

-----------------------------------------------------------------------------
(* The memory is settled when no thread is in myallocate, every page of a  *)
(* thread is in place or in a frame of a number that no thread has a page  *)
(* of, the table names no frame twice among them, and the frames that      *)
(* threads look at are open just when they are the running thread's.       *)
Own(r) == IF r \in Tids THEN 0 .. size[r] - 1 ELSE {}

Looked == UNION {Own(t) : t \in Tids}

OwnInPlaceOrAside ==
  \A r \in Rows, p \in Frames :
    IF p \in Own(r)
    THEN Assigned(mem, r, p) /\ mem.table[r][p] \in {p} \cup (Frames \ Looked)
    ELSE mem.table[r][p] \notin Looked

OwnApart ==
  \A t, u \in Tids : \A p \in Own(t), q \in Own(u) :
    mem.table[t][p] = mem.table[u][q] => t = u /\ p = q

OwnOpen ==
  /\ \A p \in Looked : p \in mem.open <=> mem.table[current][p] = p
  /\ \A p \in Own(current) : mem.table[current][p] \in mem.open

HoldsStored ==
  \A t \in Tids : \A p \in Own(t) :
    mem.data[mem.table[t][p]] \in stored[t][p]

AllIdle == \A t \in Tids : call[t] = Idle

Settled ==
  /\ mode = "on"
  /\ AllIdle
  /\ OwnInPlaceOrAside /\ OwnApart /\ OwnOpen /\ HoldsStored

(* Whenever no thread is in myallocate, its work has left the memory       *)
(* settled.                                                                *)
CallsSettle == mode = "on" /\ AllIdle => Settled

(* However the memory came to be settled, the faults, switches, stores and *)
(* frees that follow leave it so until a thread calls myallocate: every    *)
(* page keeps what its thread stored in it, and no copy faults.            *)
StaysSettled == [][Settled /\ AllIdle' => Settled']_vars
=============================================================================
