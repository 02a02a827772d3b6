---------------------------- MODULE PagingProofs ----------------------------
(***************************************************************************)
(* Theorems about Paging, for any set of threads, any number of pages, any *)
(* mix of sizes, with later requests of a thread or without, and with the  *)
(* timer striking inside myallocate or not.                                *)
(* Each function that changes the memory keeps it Sound: well typed, and   *)
(* with every frame an entry names noted as used.                          *)
(***************************************************************************)
EXTENDS Paging, TLAPS

Sound(m) ==
  /\ m \in Memory
  /\ \A r \in Rows, p \in Frames :
       Assigned(m, r, p) => m.table[r][p] \in m.used

(* Frame numbers are never one of the two values that mean none.           *)
LEMMA NoFrame ==
  /\ OUT_OF_BOUNDS \notin Frames /\ UNASSIGNED_IN_TABLE \notin Frames
  /\ 0 \in Frames
BY PageTableAssumption DEF OUT_OF_BOUNDS, UNASSIGNED_IN_TABLE, Frames

-----------------------------------------------------------------------------
(* update_table_entry, with a frame already noted or with the page's own.  *)
LEMMA UpdateEntrySound ==
  ASSUME NEW m, Sound(m), NEW t, NEW page \in Frames, NEW frame \in Frames,
         frame \in m.used \cup {page}
  PROVE  /\ Sound(UpdateEntry(m, t, page, frame))
         /\ m.used \subseteq UpdateEntry(m, t, page, frame).used
<1> DEFINE e == UpdateEntry(m, t, page, frame)
<1>1. e \in Memory
  BY DEF UpdateEntry, Memory, Sound
<1>2. e.used = m.used \cup {page}
  BY DEF UpdateEntry, Memory, Sound
<1>3. \A u \in Rows, p \in Frames : e.table[u][p] \in {m.table[u][p], frame}
  BY DEF UpdateEntry, Memory, Sound
<1> QED BY <1>1, <1>2, <1>3 DEF Sound, Assigned

(* get_unused_page gives a frame that is noted as used, newly or already.  *)
LEMMA ObtainSound ==
  ASSUME NEW m, Sound(m), NEW f, MayObtain(m, f)
  PROVE  /\ Sound(Obtain(m, f))
         /\ f \in Frames /\ f \in Obtain(m, f).used
         /\ Obtain(m, f).table = m.table
<1> DEFINE o == Obtain(m, f)
<1>1. f \in Frames
  BY DEF MayObtain, MayEvict, Unused
<1>2. CASE Unused(m) # {}
  <2>1. o \in Memory /\ o.table = m.table /\ o.used = m.used \cup {f}
    BY <1>1, <1>2 DEF Obtain, Memory, Sound
  <2> QED BY <1>1, <2>1 DEF Sound, Assigned
<1>3. CASE Unused(m) = {}
  <2>1. m.slots \in 0 .. 2 * NUM_USER_PAGES /\ m.slots < 2 * NUM_USER_PAGES
    BY <1>3 DEF MayObtain, MayEvict, Memory, Sound
  <2>2. m.slots + 1 \in 0 .. 2 * NUM_USER_PAGES
    BY <2>1, PageTableAssumption
  <2>3. o \in Memory /\ o.table = m.table /\ o.used = m.used
    BY <1>1, <1>3, <2>2 DEF Obtain, Evict, Memory, Sound
  <2>4. f \in m.used
    BY <1>1, <1>3 DEF Unused
  <2> QED BY <1>1, <2>3, <2>4 DEF Sound, Assigned
<1> QED BY <1>2, <1>3

(* swap_pages, whichever thread get_active_tid finds: the frame the page   *)
(* comes from is a used one, and it is the one the found thread gets.      *)
LEMMA SwapPagesSound ==
  ASSUME NEW m, Sound(m), NEW in \in Frames, NEW t, NEW out \in Frames,
         out \in m.used
  PROVE  Sound(SwapPages(m, in, t, out))
<1> DEFINE moved  == Exchanged(m, in, out)
           in_tid == CHOOSE u \in Actives(m, in) : IsActiveTid(m, in, u)
           kept   == UpdateEntry(moved, in_tid, in, out)
<1>1. Sound(moved) /\ moved.used = m.used
  <2>1. moved \in Memory /\ moved.table = m.table /\ moved.used = m.used
    BY DEF Exchanged, Memory, Sound
  <2> QED BY <2>1 DEF Sound, Assigned
<1>2. Sound(kept)
  BY <1>1, UpdateEntrySound
<1>3. SwapPages(m, in, t, out)
        = UpdateEntry(IF Actives(m, in) = {} THEN moved ELSE kept, t, in, in)
  BY DEF SwapPages
<1> QED BY <1>1, <1>2, <1>3, UpdateEntrySound

LEMMA SwapSound ==
  ASSUME NEW m, Sound(m), NEW page \in Frames, NEW r \in Rows, NEW f,
         MaySwap(m, page, r, f)
  PROVE  Sound(Swap(m, page, r, f))
<1>1. CASE Assigned(m, r, page)
  <2>1. f \in Frames /\ f \in m.used
    BY <1>1 DEF MaySwap, Sound, Assigned
  <2> QED BY <1>1, <2>1, SwapPagesSound DEF Swap, Fetched
<1>2. CASE ~ Assigned(m, r, page)
  <2>1. MayObtain(m, f)
    BY <1>2 DEF MaySwap
  <2> QED BY <1>2, <2>1, ObtainSound, SwapPagesSound DEF Swap, Fetched
<1> QED BY <1>1, <1>2

LEMMA SwapProtectionSound ==
  ASSUME NEW m, Sound(m), NEW out, NEW in \in Tids
  PROVE  Sound(SwapProtection(m, out, in))
<1> DEFINE s == SwapProtection(m, out, in)
<1>1. FramesOf(m, in) \subseteq Frames
  BY DEF FramesOf, Assigned
<1>2. s \in Memory /\ s.table = m.table /\ s.used = m.used
  BY <1>1 DEF SwapProtection, Memory, Sound
<1> QED BY <1>2 DEF Sound, Assigned

(* Every thread has a row, and row 0 is there as well.                     *)
LEMMA ThreadRows == Tids \subseteq Rows /\ 0 \in Rows
<1>1. Tids \subseteq 1 .. NUM_PROCESSES - 1 /\ NUM_PROCESSES \in Nat \ {0}
  BY PageTableAssumption
<1>2. 1 .. NUM_PROCESSES - 1 \subseteq 0 .. NUM_PROCESSES - 1
  BY <1>1
<1>3. 0 \in 0 .. NUM_PROCESSES - 1
  BY <1>1
<1> QED BY <1>1, <1>2, <1>3 DEF Rows

-----------------------------------------------------------------------------
(* Where a thread is in myallocate: the loops stay within the request, and *)
(* the request within the thread's row of the table.                       *)
CallOK(c) ==
  /\ c.i <= c.n
  /\ c.at # "idle" => c.n >= 1
  /\ c.at = "swap in" => c.i < c.n
  /\ c.q + c.n <= NUM_USER_PAGES

(* What Misdirected names is in the table.                                 *)
InTable(t) ==
  /\ call[t].at \in {"walk", "prev", "next"} => t \in Frames
  /\ call[t].at \in {"walk", "prev", "next"} => second[t] \in Rows

Inv ==
  /\ TypeOK
  /\ Sound(mem)
  /\ \A t \in Tids : CallOK(call[t]) /\ InTable(t)

LEMMA PagesNat == NUM_USER_PAGES \in Nat /\ NUM_USER_PAGES >= 1
BY PageTableAssumption

(* Both counts of pages are numbers, and no block spans none.              *)
LEMMA SpanNat ==
  ASSUME NEW x \in Sizes
  PROVE  /\ x \in Nat
         /\ HeaderPage(x) \in Nat
         /\ Span(x) \in Nat /\ Span(x) >= 1
<1>1. x \in Nat /\ x + HEADER \in Nat /\ x + 2 * HEADER \in Nat
  BY PagingAssumption
<1>2. ASSUME NEW a \in Nat PROVE a \div PAGE_SIZE \in Nat
  <2>1. PAGE_SIZE \in Nat /\ PAGE_SIZE > 0
    BY PagingAssumption
  <2> QED BY <2>1
<1> QED BY <1>1, <1>2 DEF HeaderPage, Span

LEMMA UpTo ==
  ASSUME NEW m \in 0 .. NUM_USER_PAGES, NEW j \in Nat, j <= m
  PROVE  j \in 0 .. NUM_USER_PAGES
BY PagesNat

(* What the types say of a call's numbers.                                 *)
LEMMA CallNumbers ==
  ASSUME NEW c \in Calls
  PROVE  /\ c.i \in Nat /\ c.n \in Nat /\ c.q \in Nat /\ c.x \in Nat
         /\ c.n \in 0 .. NUM_USER_PAGES /\ c.q \in 0 .. NUM_USER_PAGES
<1>1. /\ c.i \in 0 .. NUM_USER_PAGES /\ c.n \in 0 .. NUM_USER_PAGES
      /\ c.q \in 0 .. NUM_USER_PAGES /\ c.x \in Nat
  BY DEF Calls
<1> QED BY <1>1, PagesNat

LEMMA IdleOK == Idle \in Calls /\ CallOK(Idle)
<1>1. 0 \in 0 .. NUM_USER_PAGES
  BY PagesNat
<1>2. Idle \in Calls
  BY <1>1 DEF Idle, Calls
<1> QED BY <1>2, PagesNat DEF CallOK, Idle

LEMMA InitInv == Init => Inv
<1> SUFFICES ASSUME Init PROVE Inv
  OBVIOUS
<1>1. PICK zero \in Values : mem = FreshMemory(zero)
  BY DEF Init
<1>2. mem \in Memory
  <2>1. 0 \in 0 .. 2 * NUM_USER_PAGES
    BY PagesNat
  <2> QED BY <1>1, <2>1 DEF FreshMemory, Memory
<1>3. \A r \in Rows, p \in Frames : ~ Assigned(mem, r, p)
  BY <1>1, NoFrame DEF FreshMemory, Assigned
<1>4. call \in [Tids -> Calls] /\ \A t \in Tids : CallOK(call[t])
  BY IdleOK DEF Init
<1>5. \A t \in Tids : InTable(t)
  BY DEF Init, InTable, Idle
<1>6. /\ size \in [Tids -> 0 .. NUM_USER_PAGES]
      /\ room \in [Tids -> Nat]
      /\ second \in [Tids -> 0 .. NUM_USER_PAGES]
      /\ stored \in [Tids -> [Frames -> SUBSET Values]]
  <2>1. 0 \in 0 .. NUM_USER_PAGES
    BY PagesNat
  <2> QED BY <2>1 DEF Init
<1> QED BY <1>2, <1>3, <1>4, <1>5, <1>6 DEF Inv, Sound, TypeOK, Init

(* A step that leaves a sound memory and one thread's call in order        *)
(* preserves the invariant.                                                *)
LEMMA CallInv ==
  ASSUME Inv, Sound(mem'), NEW t \in Tids, NEW c \in Calls,
         CallOK(c), call' = [call EXCEPT ![t] = c],
         c.at \in {"walk", "prev", "next"} =>
           t \in Frames /\ second[t] \in Rows,
         room' \in [Tids -> Nat],
         NEW j \in 0 .. NUM_USER_PAGES,
         \/ second' = second
         \/ second' = [second EXCEPT ![t] = j]
            /\ c.at \notin {"walk", "prev", "next"},
         UNCHANGED <<current, size, stored, mode>>
  PROVE  Inv'
<1>1. call' \in [Tids -> Calls]
  BY DEF Inv, TypeOK
<1>2. \A u \in Tids : call'[u] = IF u = t THEN c ELSE call[u]
  BY DEF Inv, TypeOK
<1>3. \A u \in Tids : CallOK(call'[u])
  BY <1>2 DEF Inv
<1>4. \A u \in Tids : InTable(u)'
  BY <1>2 DEF Inv, InTable, TypeOK
<1>5. TypeOK'
  BY <1>1 DEF Inv, TypeOK, Sound
<1> QED BY <1>3, <1>4, <1>5 DEF Inv, CallOK

(* So does one that moves the thread on with the request it has made.      *)
LEMMA GoToInv ==
  ASSUME Inv, Sound(mem'), NEW t \in Tids, call[t].at # "idle",
         NEW label \in {"align", "swap in", "link", "map",
                        "prev", "next", "place", "enter"},
         label \in {"prev", "next"} => call[t].at \in {"walk", "prev"},
         NEW i \in Nat, i <= call[t].n, label = "swap in" => i < call[t].n,
         GoTo(t, label, i), UNCHANGED <<current, size, stored, mode>>,
         room' \in [Tids -> Nat],
         NEW j \in 0 .. NUM_USER_PAGES,
         \/ second' = second
         \/ second' = [second EXCEPT ![t] = j] /\ label = "map"
  PROVE  Inv'
<1> DEFINE n == call[t].n
           k == call[t].q
           x == call[t].x
           c == [at |-> label, i |-> i, x |-> x, n |-> n, q |-> k]
<1>1. call[t] \in Calls /\ CallOK(call[t]) /\ InTable(t)
  BY DEF Inv, TypeOK
<1>2. n \in 0 .. NUM_USER_PAGES /\ n \in Nat /\ k \in 0 .. NUM_USER_PAGES
      /\ x \in Nat
  BY <1>1, CallNumbers
<1>3. i <= n /\ (label = "swap in" => i < n) /\ n >= 1
      /\ k + n <= NUM_USER_PAGES
  BY <1>1 DEF CallOK
<1>4. call' = [call EXCEPT ![t] = c]
  BY DEF GoTo
<1> HIDE DEF n, k, x
<1>5. i \in 0 .. NUM_USER_PAGES
  BY <1>2, <1>3, UpTo
<1>6. c \in Calls
  BY <1>2, <1>5 DEF Calls
<1>7. CallOK(c)
  BY <1>3 DEF CallOK
<1>8. c.at \in {"walk", "prev", "next"} =>
        t \in Frames /\ second[t] \in Rows
  BY <1>1 DEF InTable
<1>9. \/ second' = second
      \/ second' = [second EXCEPT ![t] = j]
         /\ c.at \notin {"walk", "prev", "next"}
  OBVIOUS
<1> HIDE DEF c
<1> QED BY <1>4, <1>6, <1>7, <1>8, <1>9, CallInv

(* A swap of find_block on the way, for a row of the table.                *)
LEMMA SwapToInv ==
  ASSUME Inv, NEW t \in Tids, NEW page \in Frames, NEW r \in Rows, NEW f,
         call[t].at # "idle",
         NEW label \in {"align", "link", "prev", "next", "place", "enter"},
         label \in {"prev", "next"} => call[t].at \in {"walk", "prev"},
         NEW i \in Nat, i <= call[t].n,
         SwapTo(t, page, r, f, label, i)
  PROVE  Inv'
<1>1. /\ MaySwap(mem, page, r, f) /\ mem' = Swap(mem, page, r, f)
      /\ GoTo(t, label, i)
      /\ UNCHANGED <<current, size, room, second, stored, mode>>
  BY DEF SwapTo, blocks
<1>2. Sound(mem')
  BY <1>1, SwapSound DEF Inv
<1>3. room' \in [Tids -> Nat] /\ 0 \in 0 .. NUM_USER_PAGES
  BY <1>1, PagesNat DEF Inv, TypeOK
<1> QED BY <1>1, <1>2, <1>3, GoToInv

LEMMA NextInv == Inv /\ [Next]_vars => Inv'
<1> SUFFICES ASSUME Inv, [Next]_vars PROVE Inv'
  OBVIOUS
<1> USE ThreadRows
<1>1. Sound(mem) /\ current \in Tids
  BY DEF Inv, TypeOK
<1>2. ASSUME NEW t \in Tids
      PROVE  /\ call[t] \in Calls /\ CallOK(call[t]) /\ InTable(t)
             /\ call[t].n \in Nat /\ 0 <= call[t].n
  <2>1. call[t] \in Calls /\ CallOK(call[t]) /\ InTable(t)
    BY DEF Inv, TypeOK
  <2>2. call[t].n \in Nat
    BY <2>1, CallNumbers
  <2> QED BY <2>1, <2>2
<1>0. room \in [Tids -> Nat] /\ 0 \in 0 .. NUM_USER_PAGES
  BY PagesNat DEF Inv, TypeOK
<1>3. ASSUME NEW t \in Tids, NEW x \in Sizes,
             Allocate(t, x) \/ AllocateAgain(t, x)
      PROVE  Inv'
  <2> DEFINE n == Span(x)
             k == HeaderPage(x)
  <2>1. /\ n \in Nat /\ n >= 1 /\ k \in Nat
        /\ x \in Nat
    BY SpanNat
  <2>2. /\ k + n <= NUM_USER_PAGES
        /\ UNCHANGED <<mem, current, size, room, second, stored, mode>>
    BY <1>3 DEF Allocate, AllocateAgain, Request, blocks
  <2>3. PICK label \in {"align", "walk"} :
          /\ call' = [call EXCEPT ![t] =
                        [at |-> label, i |-> 0, x |-> x, n |-> n, q |-> k]]
          /\ label = "walk" => t \in Frames /\ second[t] \in Rows
    BY <1>3 DEF Allocate, AllocateAgain, Request
  <2> HIDE DEF n, k
  <2>4. n \in 0 .. NUM_USER_PAGES /\ k \in 0 .. NUM_USER_PAGES
    BY <2>1, <2>2, PagesNat
  <2> DEFINE c == [at |-> label, i |-> 0, x |-> x, n |-> n, q |-> k]
  <2>5. c.at = label /\ c.i = 0 /\ c.n = n /\ c.q = k
    OBVIOUS
  <2>6. CallOK(c)
    <3>1. 0 <= n /\ k + n <= NUM_USER_PAGES
      BY <2>1, <2>2
    <3>2. label # "swap in"
      BY <2>3
    <3> QED BY <2>1, <2>5, <3>1, <3>2 DEF CallOK
  <2>7. c \in Calls
    BY <1>0, <2>1, <2>4 DEF Calls
  <2>8. c.at \in {"walk", "prev", "next"} =>
          t \in Frames /\ second[t] \in Rows
    BY <2>3
  <2>9. call' = [call EXCEPT ![t] = c] /\ Sound(mem')
    BY <1>1, <2>2, <2>3 DEF Sound, Assigned
  <2> HIDE DEF c
  <2> QED BY <1>0, <2>2, <2>6, <2>7, <2>8, <2>9, CallInv
<1>4. ASSUME NEW t \in Tids, NEW f \in Frames, Align(t, f)
      PROVE  Inv'
  <2>1. Sound(mem')
    BY <1>1, <1>4, ObtainSound DEF Align
  <2>2. /\ call[t].at # "idle" /\ call[t].i < call[t].n
        /\ GoTo(t, "swap in", call[t].i)
        /\ UNCHANGED <<current, size, room, second, stored, mode>>
    BY <1>4 DEF Align, At, blocks
  <2>3. call[t].i \in Nat /\ call[t].i <= call[t].n
    BY <1>2, CallNumbers DEF CallOK
  <2> QED BY <1>0, <2>1, <2>2, <2>3, GoToInv
<1>5. ASSUME NEW t \in Tids, NEW f \in Frames, SwapIn(t, f)
      PROVE  Inv'
  <2> DEFINE i == call[t].i
             n == call[t].n
  <2>1. /\ call[t].at = "swap in"
        /\ SwapTo(t, i, t, f, "align", i + 1)
    BY <1>5 DEF SwapIn, At
  <2>2. i \in Nat /\ n \in Nat /\ i < n /\ n \in 0 .. NUM_USER_PAGES
    BY <1>2, <2>1, CallNumbers DEF CallOK
  <2> HIDE DEF i, n
  <2>3. i \in Frames /\ i + 1 \in Nat /\ i + 1 <= n
    BY <2>2, PagesNat DEF Frames
  <2>4. call[t].at # "idle" /\ t \in Rows
    BY <2>1
  <2>5. i + 1 <= call[t].n
    BY <2>3 DEF n
  <2> QED BY <2>1, <2>3, <2>4, <2>5, SwapToInv
<1>6. ASSUME NEW t \in Tids, NEW f \in Frames, PageZero(t, f) \/ Walk(t, f)
      PROVE  Inv'
  <2>1. CASE PageZero(t, f)
    <3>1. call[t].at # "idle" /\ SwapTo(t, 0, t, f, "link", 0)
      BY <2>1 DEF PageZero, At
    <3> QED BY <1>2, <3>1, NoFrame, SwapToInv
  <2>2. CASE Walk(t, f)
    <3>1. call[t].at = "walk" /\ SwapTo(t, 0, t, f, "prev", 0)
      BY <2>2 DEF Walk, At
    <3> QED BY <1>2, <3>1, NoFrame, SwapToInv
  <2> QED BY <1>6, <2>1, <2>2
<1>7. ASSUME NEW t \in Tids, NEW f \in Frames, Misdirected(t, f)
      PROVE  Inv'
  <2>1. CASE call[t].at = "prev" /\ SwapTo(t, t, 0, f, "next", 0)
    <3>1. t \in Frames
      BY <1>2, <2>1 DEF InTable
    <3> QED BY <1>2, <2>1, <3>1, SwapToInv
  <2>2. CASE call[t].at = "next" /\ SwapTo(t, t, second[t], f, "place", 0)
    <3>1. t \in Frames /\ second[t] \in Rows
      BY <1>2, <2>2 DEF InTable
    <3> QED BY <1>2, <2>2, <3>1, SwapToInv
  <2> QED BY <1>7, <2>1, <2>2 DEF Misdirected, At
<1>8. ASSUME NEW t \in Tids, NEW f \in Frames, Place(t, f)
      PROVE  Inv'
  <2> DEFINE k == call[t].q
             n == call[t].n
  <2>1. call[t].at = "place" /\ SwapTo(t, k, t, f, "enter", 0)
    BY <1>8 DEF Place, At
  <2>2. k \in Nat /\ n \in Nat /\ n >= 1 /\ k + n <= NUM_USER_PAGES
    BY <1>2, <2>1, CallNumbers DEF CallOK
  <2> HIDE DEF k, n
  <2>3. k \in Frames
    BY <2>2, PagesNat DEF Frames
  <2> QED BY <1>2, <2>1, <2>3, SwapToInv
<1>9. ASSUME NEW t \in Tids, Link(t)
      PROVE  Inv'
  <2>1. /\ call[t].at # "idle"
        /\ GoTo(t, "map", 0)
        /\ UNCHANGED <<mem, current, size, stored, mode>>
        /\ second' = [second EXCEPT ![t] = call[t].q]
        /\ room' \in {room, [room EXCEPT ![t] = call[t].x]}
    BY <1>9 DEF Link, At
  <2>2. Sound(mem')
    BY <1>1, <2>1 DEF Sound, Assigned
  <2>3. call[t].x \in Nat /\ call[t].q \in 0 .. NUM_USER_PAGES
    BY <1>2, CallNumbers
  <2>4. room' \in [Tids -> Nat]
    BY <1>0, <2>1, <2>3
  <2> QED BY <1>2, <2>1, <2>2, <2>3, <2>4, GoToInv
<1>91. ASSUME NEW t \in Tids, Charge(t)
       PROVE  Inv'
  <2> DEFINE c == [at |-> "map", i |-> 0, x |-> call[t].x, n |-> call[t].n,
                   q |-> 0]
  <2>1. /\ call[t].at = "place"
        /\ call' = [call EXCEPT ![t] = c]
        /\ UNCHANGED <<mem, current, size, second, stored, mode>>
        /\ room' = [room EXCEPT ![t] = call[t].x]
    BY <1>91 DEF Charge, At
  <2>2. Sound(mem')
    BY <1>1, <2>1 DEF Sound, Assigned
  <2>3. call[t].x \in Nat /\ call[t].n \in 0 .. NUM_USER_PAGES
        /\ call[t].n \in Nat
    BY <1>2, CallNumbers
  <2>4. room' \in [Tids -> Nat]
    BY <1>0, <2>1, <2>3
  <2>6. c \in Calls
    BY <1>0, <2>3 DEF Calls
  <2>7. c.at = "map" /\ c.i = 0 /\ c.n = call[t].n /\ c.q = 0
    OBVIOUS
  <2>8. CallOK(c)
    <3> DEFINE n == call[t].n
    <3>1. n >= 1
      BY <1>2, <2>1 DEF CallOK
    <3>2. n \in Nat /\ n <= NUM_USER_PAGES
      BY <2>3, PagesNat
    <3> HIDE DEF n
    <3>3. 0 <= n /\ 0 + n <= NUM_USER_PAGES
      BY <3>2, PagesNat
    <3>4. c.n = n
      BY DEF n
    <3> QED BY <2>7, <3>1, <3>3, <3>4 DEF CallOK
  <2>9. c.at \notin {"walk", "prev", "next"}
    OBVIOUS
  <2> HIDE DEF c
  <2> QED BY <1>0, <2>1, <2>2, <2>4, <2>6, <2>8, <2>9, CallInv
<1>10. ASSUME NEW t \in Tids, Map(t)
       PROVE  Inv'
  <2> DEFINE i == call[t].i
             n == call[t].n
             k == call[t].q
  <2>1. /\ call[t].at = "map" /\ i < n
        /\ mem' = UpdateEntry(mem, t, k + i, k + i)
        /\ GoTo(t, "map", i + 1)
        /\ UNCHANGED <<current, size, room, second, stored, mode>>
    BY <1>10 DEF Map, At, blocks
  <2>2. i \in Nat /\ n \in Nat /\ k \in Nat /\ k + n <= NUM_USER_PAGES
    BY <1>2, CallNumbers DEF CallOK
  <2> HIDE DEF i, n, k
  <2>3. k + i \in Frames /\ i + 1 \in Nat /\ i + 1 <= n
    BY <2>1, <2>2, PagesNat DEF Frames
  <2>4. Sound(mem')
    BY <1>1, <2>1, <2>3, UpdateEntrySound
  <2>5. call[t].at # "idle"
    BY <2>1
  <2>6. i + 1 <= call[t].n
    BY <2>3 DEF n
  <2> QED BY <1>0, <2>1, <2>3, <2>4, <2>5, <2>6, GoToInv
<1>11. ASSUME NEW t \in Tids, Return(t)
       PROVE  Inv'
  <2>1. /\ call' = [call EXCEPT ![t] = Idle]
        /\ size' = [size EXCEPT ![t] = IF @ = 0 THEN call[t].n ELSE @]
        /\ UNCHANGED <<mem, current, room, second, stored, mode>>
    BY <1>11 DEF Return
  <2>2. call[t].n \in 0 .. NUM_USER_PAGES
    BY <1>2, CallNumbers
  <2>3. size' \in [Tids -> 0 .. NUM_USER_PAGES]
    BY <2>1, <2>2 DEF Inv, TypeOK
  <2>4. Idle \in Calls /\ CallOK(Idle) /\ Idle.at = "idle"
    BY IdleOK DEF Idle
  <2>5. Sound(mem')
    BY <1>1, <2>1 DEF Sound, Assigned
  <2>6. /\ call' \in [Tids -> Calls]
        /\ \A u \in Tids : call'[u] = IF u = t THEN Idle ELSE call[u]
    BY <2>1, <2>4 DEF Inv, TypeOK
  <2>7. \A u \in Tids : CallOK(call'[u])
    BY <2>4, <2>6 DEF Inv
  <2>9. \A u \in Tids : InTable(u)'
    BY <2>1, <2>4, <2>6 DEF Inv, InTable
  <2>10. TypeOK'
    BY <2>1, <2>3, <2>5, <2>6 DEF Inv, TypeOK, Sound
  <2> QED BY <2>5, <2>7, <2>9, <2>10 DEF Inv, CallOK
<1>12. ASSUME Sound(mem'), current' \in Tids,
              UNCHANGED <<call, size, room, second>>,
              stored' \in [Tids -> [Frames -> SUBSET Values]],
              mode' \in {"on", "exited", "astray"}
       PROVE  Inv'
  BY <1>12 DEF Inv, TypeOK, Sound, InTable
<1>13. /\ mode \in {"on", "exited", "astray"}
       /\ stored \in [Tids -> [Frames -> SUBSET Values]]
  BY DEF Inv, TypeOK
<1>14. ASSUME NEW t \in Tids, Switch(t)
       PROVE  Inv'
  <2>1. Sound(mem')
    BY <1>1, <1>14, SwapProtectionSound DEF Switch
  <2> QED BY <1>12, <1>13, <1>14, <2>1 DEF Switch, blocks
<1>15. ASSUME NEW p \in Frames, NEW f \in Frames,
              Fault(p, f) \/ Deallocate(p, f)
       PROVE  Inv'
  <2>1. BringIn(p, f)
    BY <1>15 DEF Fault, Deallocate
  <2>2. Sound(mem')
    BY <1>1, <2>1, SwapSound DEF BringIn
  <2> QED BY <1>1, <1>12, <1>13, <2>1, <2>2 DEF BringIn, blocks
<1>16. ASSUME NEW p \in Frames, NEW v \in Values, Store(p, v)
       PROVE  Inv'
  <2>1. mem' = [mem EXCEPT !.data[p] = v]
    BY <1>16 DEF Store
  <2>2. mem' \in Memory /\ mem'.table = mem.table /\ mem'.used = mem.used
    BY <1>1, <2>1 DEF Sound, Memory
  <2>3. Sound(mem')
    BY <1>1, <2>2 DEF Sound, Assigned
  <2>4. stored' \in [Tids -> [Frames -> SUBSET Values]]
    <3>1. stored' = [stored EXCEPT ![current][p] = {v}]
      BY <1>16 DEF Store
    <3> QED BY <1>1, <1>13, <3>1
  <2> QED BY <1>1, <1>12, <1>13, <1>16, <2>3, <2>4 DEF Store, blocks
<1>17. ASSUME UNCHANGED mem
       PROVE  Sound(mem')
  BY <1>1, <1>17 DEF Sound, Assigned
<1>18. CASE Exit
  BY <1>1, <1>12, <1>13, <1>17, <1>18 DEF Exit, blocks
<1>19. CASE GoAstray
  BY <1>1, <1>12, <1>13, <1>17, <1>19 DEF GoAstray, blocks
<1>20. CASE UNCHANGED vars
  BY <1>1, <1>12, <1>13, <1>17, <1>20 DEF vars
<1> QED
  BY <1>3, <1>4, <1>5, <1>6, <1>7, <1>8, <1>9, <1>91, <1>10, <1>11, <1>14, <1>15,
     <1>16, <1>18, <1>19, <1>20
  DEF Next

-----------------------------------------------------------------------------
THEOREM Invariance == Spec => []Inv
BY InitInv, NextInv, PTL DEF Spec

(* Type correctness of the paging: in particular the loops of myallocate   *)
(* stay within the thread's row of the page table.                         *)
THEOREM PagingTypeCorrect == Spec => []TypeOK
<1>1. Inv => TypeOK
  BY DEF Inv
<1> QED BY <1>1, Invariance, PTL

(* get_unused_page never hands out, unless it evicts, a frame an entry of  *)
(* the table names, however many threads there are, with eviction, and     *)
(* with myallocate interrupted anywhere.                                   *)
THEOREM MappedStaysUsed == Spec => []MappedIsUsed
<1>1. Inv => MappedIsUsed
  BY DEF Inv, Sound, MappedIsUsed
<1> QED BY <1>1, Invariance, PTL
=============================================================================
