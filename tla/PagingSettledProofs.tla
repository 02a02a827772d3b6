------------------------ MODULE PagingSettledProofs ------------------------
(***************************************************************************)
(* Theorem about Paging, for any set of threads, any requests of any       *)
(* sizes, once or again, and with the timer striking inside myallocate or  *)
(* not: whenever the memory is settled, nothing but another call of        *)
(* myallocate unsettles it.                                                *)
(*                                                                         *)
(* It says nothing of how the memory comes to be settled: that it is after *)
(* certain requests is checked, and there are others that leave it not so. *)
(***************************************************************************)
EXTENDS PagingProofs

(* The pages a thread has are pages, and threads look at no others.        *)
LEMMA OwnPages ==
  ASSUME Inv
  PROVE  /\ \A r \in Rows : Own(r) \subseteq Frames
         /\ Looked \subseteq Frames
         /\ \A t \in Tids : Own(t) \subseteq Looked
         /\ AllIdle => Touched(current) = Own(current)
<1>1. ASSUME NEW t \in Tids PROVE Own(t) \subseteq Frames
  <2>1. size[t] \in 0 .. NUM_USER_PAGES
    BY DEF Inv, TypeOK
  <2> QED BY <2>1, PagesNat DEF Own, Frames
<1>2. \A r \in Rows : Own(r) \subseteq Frames
  BY <1>1 DEF Own
<1>3. ASSUME AllIdle PROVE Touched(current) = Own(current)
  BY <1>3 DEF Inv, TypeOK, AllIdle, Idle, Touched, Own
<1> QED BY <1>1, <1>2, <1>3 DEF Looked

(* What swap_pages does when at most one thread is in place at the page.   *)
LEMMA SwapPagesDoes ==
  ASSUME NEW m, Sound(m), NEW in \in Frames, NEW t \in Rows,
         NEW out \in Frames, \A r, s \in Actives(m, in) : r = s
  PROVE  LET n == SwapPages(m, in, t, out) IN
         /\ \A r \in Rows, p \in Frames :
              n.table[r][p] = IF p # in THEN m.table[r][p]
                              ELSE IF r = t THEN in
                              ELSE IF r \in Actives(m, in) THEN out
                              ELSE m.table[r][p]
         /\ n.data = [m.data EXCEPT ![in] = m.data[out], ![out] = m.data[in]]
         /\ n.open = (m.open \ {out}) \cup {in}
         /\ n.used = m.used \cup {in}
         /\ n.slots = m.slots
<1> DEFINE n      == SwapPages(m, in, t, out)
           A      == Actives(m, in)
           moved  == Exchanged(m, in, out)
           in_tid == CHOOSE u \in A : IsActiveTid(m, in, u)
           kept   == UpdateEntry(moved, in_tid, in, out)
           k      == IF A = {} THEN moved ELSE kept
<1>1. n = UpdateEntry(k, t, in, in)
  BY DEF SwapPages
<1>2. /\ moved \in Memory /\ moved.table = m.table /\ moved.used = m.used
      /\ moved.data = [m.data EXCEPT ![in] = m.data[out], ![out] = m.data[in]]
      /\ moved.open = (m.open \ {out}) \cup {in} /\ moved.slots = m.slots
  BY DEF Exchanged, Memory, Sound
<1> HIDE DEF moved
<1>3. /\ k \in Memory /\ k.data = moved.data /\ k.open = moved.open
      /\ k.used \cup {in} = m.used \cup {in} /\ k.slots = m.slots
      /\ \A r \in Rows, p \in Frames :
           k.table[r][p] = IF p = in /\ r \in A THEN out ELSE m.table[r][p]
  <2>1. CASE A = {}
    BY <1>2, <2>1
  <2>2. ASSUME NEW s \in A
        PROVE  /\ k \in Memory /\ k.data = moved.data /\ k.open = moved.open
               /\ k.used \cup {in} = m.used \cup {in} /\ k.slots = m.slots
               /\ \A r \in Rows, p \in Frames :
                    k.table[r][p] = IF p = in /\ r \in A THEN out
                                    ELSE m.table[r][p]
    <3>1. s \in Rows /\ A = {s}
      BY <2>2 DEF Actives
    <3>2. IsActiveTid(m, in, s)
      BY <3>1 DEF IsActiveTid, Rows
    <3>3. in_tid = s
      BY <3>1, <3>2
    <3>4. k = UpdateEntry(moved, s, in, out)
      BY <3>1, <3>3
    <3> HIDE DEF k, A, in_tid, kept
    <3> QED BY <1>2, <3>1, <3>4 DEF UpdateEntry, Memory
  <2> QED BY <2>1, <2>2
<1> HIDE DEF k, A
<1>4. /\ \A r \in Rows, p \in Frames :
           n.table[r][p] = IF p = in /\ r = t THEN in ELSE k.table[r][p]
      /\ n.data = k.data /\ n.open = k.open /\ n.slots = k.slots
      /\ n.used = k.used \cup {in}
  BY <1>1, <1>3 DEF UpdateEntry, Memory
<1> HIDE DEF n
<1>5. \A r \in Rows, p \in Frames :
        n.table[r][p] = IF p # in THEN m.table[r][p]
                        ELSE IF r = t THEN in
                        ELSE IF r \in A THEN out ELSE m.table[r][p]
  BY <1>3, <1>4
<1> QED BY <1>2, <1>3, <1>4, <1>5 DEF A, n

-----------------------------------------------------------------------------
(* What is in place at a page some thread looks at is that thread's, and   *)
(* no other is.                                                            *)
LEMMA InPlaceOwn ==
  ASSUME Inv, Settled, NEW p \in Looked
  PROVE  /\ \A r \in Actives(mem, p) : r \in Tids /\ p \in Own(r)
         /\ \A r, s \in Actives(mem, p) : r = s
<1>1. p \in Frames
  BY OwnPages
<1>2. ASSUME NEW r \in Actives(mem, p)
      PROVE  r \in Tids /\ p \in Own(r) /\ mem.table[r][p] = p
  <2>1. r \in Rows /\ mem.table[r][p] = p
    BY <1>2 DEF Actives
  <2>2. p \in Own(r)
    BY <1>1, <2>1 DEF Settled, OwnInPlaceOrAside
  <2> QED BY <2>1, <2>2 DEF Own
<1>3. \A r, s \in Actives(mem, p) : r = s
  BY <1>2 DEF Settled, OwnApart
<1> QED BY <1>2, <1>3

(* A page of the running thread is brought into place: it changes frames   *)
(* with whoever was there.                                                 *)
LEMMA BringInSettled ==
  ASSUME Inv, Settled, NEW p \in Own(current), NEW f, BringIn(p, f)
  PROVE  Settled'
<1> DEFINE c == current
           m == mem
           n == mem'
<1>1. /\ c \in Tids /\ c \in Rows /\ Sound(m) /\ p \in Frames /\ p \in Looked
      /\ UNCHANGED <<current, call, size, stored, mode>>
  BY OwnPages, ThreadRows DEF Inv, TypeOK, BringIn, blocks
<1>2. /\ Assigned(m, c, p) /\ f = m.table[c][p] /\ f \in Frames
      /\ f \in {p} \cup (Frames \ Looked) /\ f \in m.open
      /\ n = SwapPages(m, p, c, f)
  <2>1. Assigned(m, c, p) /\ m.table[c][p] \in {p} \cup (Frames \ Looked)
        /\ m.table[c][p] \in m.open
    BY <1>1 DEF Settled, OwnInPlaceOrAside, OwnOpen
  <2>2. f = m.table[c][p] /\ n = SwapPages(m, p, c, f)
    BY <2>1 DEF BringIn, MaySwap, Swap, Fetched
  <2> QED BY <2>1, <2>2 DEF Assigned
<1> DEFINE A == Actives(m, p)
<1>3. /\ \A r \in A : r \in Tids /\ p \in Own(r)
      /\ \A r, s \in A : r = s
  BY <1>1, InPlaceOwn
<1>4. /\ \A r \in Rows, x \in Frames :
           n.table[r][x] = IF x # p THEN m.table[r][x]
                           ELSE IF r = c THEN p
                           ELSE IF r \in A THEN f
                           ELSE m.table[r][x]
      /\ n.data = [m.data EXCEPT ![p] = m.data[f], ![f] = m.data[p]]
      /\ n.open = (m.open \ {f}) \cup {p}
  BY <1>1, <1>2, <1>3, SwapPagesDoes
<1>5. Looked' = Looked /\ (\A r : Own(r)' = Own(r)) /\ AllIdle'
      /\ mode' = "on" /\ current' = c
  BY <1>1 DEF Looked, Own, AllIdle, Settled
<1> DEFINE L == Looked
           O(r) == Own(r)
<1>6. /\ L \subseteq Frames
      /\ \A r \in Rows : O(r) \subseteq Frames
      /\ \A t \in Tids : t \in Rows /\ O(t) \subseteq L
      /\ \A r \in Rows : O(r) # {} => r \in Tids
  BY OwnPages, ThreadRows DEF Own
<1>7. /\ \A r \in Rows, x \in Frames :
           IF x \in O(r)
           THEN m.table[r][x] \in Frames /\ m.table[r][x] \in {x} \cup (Frames \ L)
           ELSE m.table[r][x] \notin L
      /\ \A t, u \in Tids : \A x \in O(t), y \in O(u) :
           m.table[t][x] = m.table[u][y] => t = u /\ x = y
      /\ \A x \in L : x \in m.open <=> m.table[c][x] = x
      /\ \A x \in O(c) : m.table[c][x] \in m.open
      /\ \A t \in Tids : \A x \in O(t) : m.data[m.table[t][x]] \in stored[t][x]
  BY DEF Settled, OwnInPlaceOrAside, OwnApart, OwnOpen, HoldsStored, Assigned
<1>8. p \in O(c) /\ p \in L /\ c \in Tids /\ c \in Rows /\ p \in Frames
  BY <1>1
<1>9. A = {r \in Rows : m.table[r][p] = p}
  BY DEF Actives
<1> HIDE DEF n, m, L, O, A, c
<1>10. \A r \in Rows, x \in Frames :
           IF x \in O(r)
           THEN n.table[r][x] \in Frames /\ n.table[r][x] \in {x} \cup (Frames \ L)
           ELSE n.table[r][x] \notin L
  <2> SUFFICES ASSUME NEW r \in Rows, NEW x \in Frames
               PROVE  IF x \in O(r)
                      THEN n.table[r][x] \in Frames
                           /\ n.table[r][x] \in {x} \cup (Frames \ L)
                      ELSE n.table[r][x] \notin L
    OBVIOUS
  <2>1. CASE x # p \/ (r # c /\ r \notin A)
    BY <1>4, <1>7, <2>1
  <2>2. CASE x = p /\ r = c
    BY <1>4, <1>8, <2>2
  <2>3. CASE x = p /\ r # c /\ r \in A
    <3>1. n.table[r][x] = f /\ p \in O(r)
      BY <1>3, <1>4, <2>3 DEF O
    <3> QED BY <1>2, <2>3, <3>1 DEF L
  <2> QED BY <2>1, <2>2, <2>3
<1>11. \A t, u \in Tids : \A x \in O(t), y \in O(u) :
         n.table[t][x] = n.table[u][y] => t = u /\ x = y
  <2>1. ASSUME NEW t \in Tids, NEW x \in O(t)
        PROVE  n.table[t][x] =
                 IF x = p /\ t = c THEN p
                 ELSE IF m.table[t][x] = p THEN f
                 ELSE m.table[t][x]
    <3>1. t \in Rows /\ x \in Frames
      BY <1>6
    <3>2. m.table[t][x] = p => x = p
      BY <1>7, <1>8, <3>1
    <3> QED BY <1>4, <1>9, <3>1, <3>2
  <2>2. m.table[c][p] = f
    BY <1>2 DEF m, c
  <2> SUFFICES ASSUME NEW t \in Tids, NEW u \in Tids,
                      NEW x \in O(t), NEW y \in O(u),
                      n.table[t][x] = n.table[u][y]
               PROVE  t = u /\ x = y
    OBVIOUS
  <2> QED BY <1>7, <1>8, <2>1, <2>2
<1>12. \A x \in L : x \in n.open <=> n.table[c][x] = x
  <2> SUFFICES ASSUME NEW x \in L PROVE x \in n.open <=> n.table[c][x] = x
    OBVIOUS
  <2>1. x \in Frames
    BY <1>6
  <2>2. CASE x = p
    BY <1>4, <1>8, <2>1, <2>2
  <2>3. CASE x # p
    <3>1. x # f
      BY <1>2, <2>3 DEF L
    <3> QED BY <1>4, <1>7, <1>8, <2>1, <2>3, <3>1
  <2> QED BY <2>2, <2>3
<1>13. \A x \in O(c) : n.table[c][x] \in n.open
  <2> SUFFICES ASSUME NEW x \in O(c) PROVE n.table[c][x] \in n.open
    OBVIOUS
  <2>1. x \in Frames
    BY <1>6, <1>8
  <2>2. CASE x = p
    BY <1>4, <1>8, <2>1, <2>2
  <2>3. CASE x # p
    <3>1. m.table[c][x] # f
      BY <1>2, <1>7, <1>8, <2>3 DEF m, c
    <3> QED BY <1>4, <1>7, <1>8, <2>1, <2>3, <3>1
  <2> QED BY <2>2, <2>3
<1>14. \A t \in Tids : \A x \in O(t) : n.data[n.table[t][x]] \in stored[t][x]
  <2>1. m.data \in [Frames -> Values]
    BY <1>1 DEF Sound, Memory, m
  <2>2. /\ n.data[f] = m.data[p] /\ n.data[p] = m.data[f]
        /\ \A g \in Frames : g # f /\ g # p => n.data[g] = m.data[g]
    BY <1>2, <1>4, <1>8, <2>1
  <2> SUFFICES ASSUME NEW t \in Tids, NEW x \in O(t)
               PROVE  n.data[n.table[t][x]] \in stored[t][x]
    OBVIOUS
  <2>3. t \in Rows /\ x \in Frames /\ m.table[t][x] \in Frames
    BY <1>6, <1>7
  <2>4. m.data[m.table[t][x]] \in stored[t][x]
    BY <1>7
  <2>5. m.table[c][p] = f
    BY <1>2 DEF m, c
  <2>6. CASE x = p /\ t = c
    BY <1>4, <1>8, <2>2, <2>4, <2>5, <2>6
  <2>7. CASE x = p /\ t # c /\ t \in A
    BY <1>4, <1>8, <1>9, <2>2, <2>4, <2>7
  <2>8. CASE x # p \/ (t # c /\ t \notin A)
    <3>1. n.table[t][x] = m.table[t][x]
      BY <1>4, <2>3, <2>8
    <3>2. m.table[t][x] # p
      BY <1>7, <1>8, <1>9, <2>3, <2>8
    <3>3. m.table[t][x] # f
      BY <1>7, <1>8, <2>3, <2>5, <2>8, <3>2
    <3> QED BY <2>2, <2>3, <2>4, <3>1, <3>2, <3>3
  <2> QED BY <2>6, <2>7, <2>8
<1>15. stored' = stored
  BY <1>1
<1> QED
  BY <1>5, <1>10, <1>11, <1>12, <1>13, <1>14, <1>15
  DEF Settled, OwnInPlaceOrAside, OwnApart, OwnOpen, HoldsStored, Assigned,
      n, m, L, O, c

(* A store changes the page of the running thread that is in place there,  *)
(* which is the one stored to, and no other.                               *)
LEMMA StoreSettled ==
  ASSUME Inv, Settled, NEW p \in Own(current), NEW v \in Values, Store(p, v)
  PROVE  Settled'
<1>1. /\ p \in Frames /\ p \in Looked /\ p \in mem.open /\ current \in Tids
      /\ mem' = [mem EXCEPT !.data[p] = v]
      /\ stored' = [stored EXCEPT ![current][p] = {v}]
      /\ UNCHANGED <<current, call, size, mode>>
  BY OwnPages, ThreadRows DEF Inv, TypeOK, Store, blocks
<1>2. /\ mem.table' = mem.table /\ mem.open' = mem.open
      /\ mem.data' = [mem.data EXCEPT ![p] = v]
  BY <1>1 DEF Inv, Sound, Memory
<1>3. Looked' = Looked /\ (\A r : Own(r)' = Own(r)) /\ AllIdle'
      /\ mode' = "on"
  BY <1>1 DEF Looked, Own, AllIdle, Settled
<1>4. mem.table[current][p] = p
  BY <1>1 DEF Settled, OwnOpen
<1>5. ASSUME NEW t \in Tids, NEW x \in Own(t)
      PROVE  mem.data'[mem.table[t][x]] \in stored'[t][x]
  <2>1. /\ mem.table[t][x] \in Frames /\ x \in Frames
        /\ mem.data[mem.table[t][x]] \in stored[t][x]
    BY OwnPages, ThreadRows
    DEF Settled, HoldsStored, OwnInPlaceOrAside, Assigned
  <2>2. /\ mem.data \in [Frames -> Values]
        /\ stored \in [Tids -> [Frames -> SUBSET Values]]
    BY DEF Inv, TypeOK, Memory
  <2>3. CASE t = current /\ x = p
    BY <1>1, <1>2, <1>4, <2>2, <2>3
  <2>4. CASE ~ (t = current /\ x = p)
    <3>1. mem.table[t][x] # p
      BY <1>1, <1>4, <2>4 DEF Settled, OwnApart
    <3>2. mem.data'[mem.table[t][x]] = mem.data[mem.table[t][x]]
      BY <1>2, <2>1, <2>2, <3>1
    <3>3. stored'[t][x] = stored[t][x]
      BY <1>1, <2>1, <2>2, <2>4
    <3> QED BY <2>1, <3>2, <3>3
  <2> QED BY <2>3, <2>4
<1> QED
  BY <1>1, <1>2, <1>3, <1>5
  DEF Settled, OwnInPlaceOrAside, OwnApart, OwnOpen, HoldsStored, Assigned

(* A switch closes what the one thread has in place and opens what the     *)
(* other has: a frame a thread looks at is named by pages in place only.   *)
LEMMA SwitchSettled ==
  ASSUME Inv, Settled, NEW t \in Tids, Switch(t)
  PROVE  Settled'
<1>1. /\ current \in Tids /\ current \in Rows /\ t \in Rows
      /\ mem' = SwapProtection(mem, current, t) /\ current' = t
      /\ UNCHANGED <<call, size, stored, mode>>
  BY ThreadRows DEF Inv, TypeOK, Switch, blocks
<1>2. /\ mem.table' = mem.table /\ mem.data' = mem.data
      /\ mem.open' = (mem.open \ FramesOf(mem, current)) \cup FramesOf(mem, t)
  BY <1>1 DEF SwapProtection, Inv, Sound, Memory
<1>3. Looked' = Looked /\ (\A r : Own(r)' = Own(r)) /\ AllIdle'
      /\ mode' = "on"
  BY <1>1 DEF Looked, Own, AllIdle, Settled
<1>4. ASSUME NEW r \in Rows, NEW x \in Looked
      PROVE  x \in FramesOf(mem, r) <=> mem.table[r][x] = x
  <2>1. x \in Frames
    BY OwnPages
  <2>2. ASSUME NEW y \in Frames, mem.table[r][y] = x PROVE y = x
    BY <2>2 DEF Settled, OwnInPlaceOrAside
  <2> QED BY <2>1, <2>2 DEF FramesOf, Assigned
<1>5. ASSUME NEW x \in Looked
      PROVE  x \in mem.open' <=> mem.table[t][x] = x
  <2>1. x \in mem.open <=> mem.table[current][x] = x
    BY DEF Settled, OwnOpen
  <2> QED BY <1>1, <1>2, <1>4, <2>1
<1>6. ASSUME NEW x \in Own(t)
      PROVE  mem.table[t][x] \in mem.open'
  <2>1. x \in Frames /\ Assigned(mem, t, x)
    BY <1>1, OwnPages DEF Settled, OwnInPlaceOrAside
  <2> QED BY <1>2, <2>1 DEF FramesOf
<1> QED
  BY <1>1, <1>2, <1>3, <1>5, <1>6
  DEF Settled, OwnInPlaceOrAside, OwnApart, OwnOpen, HoldsStored, Assigned

(* The running thread could have its pages brought in only, and those have *)
(* open frames: it neither needs a frame nor copies from a closed one.     *)
LEMMA NoExit == Inv /\ Settled => ~ Exit /\ ~ GoAstray
<1> SUFFICES ASSUME Inv, Settled PROVE ~ Exit /\ ~ GoAstray
  OBVIOUS
<1>1. call[current].at = "idle" /\ current \in Tids /\ current \in Rows
  BY ThreadRows DEF Inv, TypeOK, Settled, AllIdle, Idle
<1>2. ASSUME NEW s \in Swaps(current)
      PROVE  s[2] = current /\ s[1] \in Own(current)
  <2>1. s \in Touched(current) \X {current}
    BY <1>1, <1>2 DEF Swaps
  <2> QED BY <2>1, OwnPages DEF Settled
<1>3. ASSUME NEW p \in Own(current)
      PROVE  /\ Assigned(mem, current, p)
             /\ \A f : MaySwap(mem, p, current, f) => Readable(mem, p, current, f)
  <2>1. Assigned(mem, current, p) /\ mem.table[current][p] \in mem.open
    BY <1>1, OwnPages DEF Settled, OwnInPlaceOrAside, OwnOpen
  <2> QED BY <2>1 DEF MaySwap, Readable, Fetched
<1> QED BY <1>1, <1>2, <1>3 DEF Exit, GoAstray

(* The other steps of a call are not taken by a thread that is in none,    *)
(* and the first one does not leave every thread idle.                     *)
LEMMA NoCall ==
  ASSUME Inv, Settled, AllIdle', NEW t \in Tids
  PROVE  /\ \A x : ~ Allocate(t, x) /\ ~ AllocateAgain(t, x)
         /\ \A f : /\ ~ Align(t, f) /\ ~ SwapIn(t, f) /\ ~ PageZero(t, f)
                  /\ ~ Walk(t, f) /\ ~ Misdirected(t, f) /\ ~ Place(t, f)
         /\ ~ Charge(t) /\ ~ Link(t) /\ ~ Map(t) /\ ~ Return(t)
<1>1. call[t].at = "idle" /\ call'[t].at = "idle"
  BY DEF Settled, AllIdle, Idle
<1>2. call \in [Tids -> Calls]
  BY DEF Inv, TypeOK
<1>3. ASSUME NEW x, NEW label \in {"align", "walk"}
      PROVE  ~ Request(t, label, x)
  <2> SUFFICES ASSUME Request(t, label, x) PROVE FALSE
    OBVIOUS
  <2>1. call'[t].at = label
    BY <1>2 DEF Request
  <2> QED BY <1>1, <2>1
<1> QED
  BY <1>1, <1>3
  DEF Allocate, AllocateAgain, Align, SwapIn, PageZero, Walk, Misdirected,
      Place, Charge, Link, Map, Return, At

LEMMA SettledNext ==
  ASSUME Inv, Settled, AllIdle', [Next]_vars
  PROVE  Settled'
<1>1. ASSUME NEW t \in Tids, Switch(t) PROVE Settled'
  BY <1>1, SwitchSettled
<1>2. ASSUME NEW p \in Frames, NEW f \in Frames, Fault(p, f) \/ Deallocate(p, f)
      PROVE  Settled'
  <2>1. p \in Own(current) /\ BringIn(p, f)
    BY <1>2, OwnPages DEF Fault, Deallocate, Settled
  <2> QED BY <2>1, BringInSettled
<1>3. ASSUME NEW p \in Frames, NEW v \in Values, Store(p, v)
      PROVE  Settled'
  <2>1. p \in Own(current)
    BY <1>3, OwnPages DEF Store, Settled
  <2> QED BY <1>3, <2>1, StoreSettled
<1>4. CASE UNCHANGED vars
  BY <1>4
  DEF vars, Settled, AllIdle, OwnInPlaceOrAside, OwnApart, OwnOpen,
      HoldsStored, Own, Looked, Assigned
<1> QED BY <1>1, <1>2, <1>3, <1>4, NoCall, NoExit DEF Next

-----------------------------------------------------------------------------
(* However many threads there are, whatever they asked for, and wherever   *)
(* the timer struck before: from a settled memory on, the SIGSEGV handler, *)
(* the switches of threads, the swaps of mydeallocate and the stores of    *)
(* the threads leave every page with what its thread stored in it, and no  *)
(* copy faults, until a thread calls myallocate.                           *)
THEOREM SettledStays == Spec => StaysSettled
<1>1. Inv /\ [Next]_vars => [Settled /\ AllIdle' => Settled']_vars
  BY SettledNext
<1> QED BY <1>1, Invariance, PTL DEF Spec, StaysSettled

(* In a settled memory the running thread finds what it stored.            *)
THEOREM SettledFinds == Spec => [](Settled => FindsStored /\ OpenIsOwn)
<1>1. Inv /\ Settled => FindsStored /\ OpenIsOwn
  <2> SUFFICES ASSUME Inv, Settled PROVE FindsStored /\ OpenIsOwn
    OBVIOUS
  <2>1. /\ current \in Tids /\ Touched(current) = Own(current)
        /\ Own(current) \subseteq Looked
    BY OwnPages DEF Inv, TypeOK, Settled
  <2>2. \A p \in Own(current) : p \in mem.open => mem.table[current][p] = p
    BY <2>1 DEF Settled, OwnOpen
  <2>3. \A p \in Own(current) : Found(p) \in stored[current][p]
    BY <2>1, <2>2 DEF Found, Settled, HoldsStored
  <2> QED BY <2>1, <2>2, <2>3 DEF FindsStored, OpenIsOwn
<1> QED BY <1>1, Invariance, PTL
=============================================================================
