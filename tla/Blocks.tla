------------------------------- MODULE Blocks -------------------------------
(***************************************************************************)
(* The blocks of one thread: the headers that myallocate and mydeallocate  *)
(* keep in the thread's pages, and the blocks the thread has taken and not *)
(* yet freed.  The pages are the thread's own, and in place whenever it    *)
(* looks: that is Paging's concern.                                        *)
(*                                                                         *)
(* An address is a number, and memory is taken to be wide enough for every *)
(* request, which the code does not check.  `header' holds, for the        *)
(* addresses at which a header was written, what it says.  A header that   *)
(* is written over in part is destroyed: it is no longer there to read,    *)
(* but the links to it are.  The headers that mydeallocate takes out of    *)
(* the list stay where they are.  What the thread itself stores in its     *)
(* blocks is left out.                                                     *)
(***************************************************************************)
EXTENDS Integers, FiniteSets

CONSTANTS
  Room,                 (* what one thread's pages can hold                *)
  Sizes,                (* the sizes asked for                             *)
  MaxCalls              (* bounds the calls of myallocate                  *)

(* sizeof(block_meta), and which of its bytes its fields are, where        *)
(* pointers and size_t have eight.                                         *)
HEADER == 48

FieldAt ==
  [p_type |-> 0 .. 3, blk_size |-> 8 .. 15, free_size |-> 16 .. 23,
   prev |-> 32 .. 39, next |-> 40 .. 47]

(* Every first request fits: that is taken for granted by the code, whose  *)
(* subtraction of sizes would wrap.                                        *)
ASSUME BlocksAssumption ==
  /\ Room \in Nat
  /\ MaxCalls \in Nat
  /\ Sizes \subseteq {x \in Nat \ {0} : x + 2 * HEADER <= Room}

VARIABLES
  header,               (* the headers in memory, by address               *)
  calls,                (* calls of myallocate so far                      *)
  live,                 (* <<n, p, x>>: call n gave p for a request of x   *)
  lost,                 (* the library has gone through NULL or has taken  *)
                        (* what a destroyed header says                    *)
  spoilt                (* history: what was done to the list that its     *)
                        (* links do not survive                            *)

vars == <<header, calls, live, lost, spoilt>>

NULL  == 0
First == 2 * HEADER     \* &mem_block[FIRST_USER_PAGE]

Header ==
  [p_type : {"UNASSIGNED", "DATA"}, blk_size : Nat, free_size : Nat,
   prev : Nat, next : Nat]

Init ==
  /\ header = [a \in {} |-> a]
  /\ calls = 0
  /\ live = {}
  /\ lost = FALSE
  /\ spoilt = {}

-----------------------------------------------------------------------------
IsHeader(a) == a \in DOMAIN header

Overlap(a, b) == a # b /\ a < b + HEADER /\ b < a + HEADER

Torn(h, a) == {b \in DOMAIN h : Overlap(a, b)}

(* Header r written at address a, over whatever lay there.                 *)
Write(h, a, r) ==
  [b \in ((DOMAIN h) \ Torn(h, a)) \cup {a} |-> IF b = a THEN r ELSE h[b]]

(* The caller gets the address behind the header at a for its x bytes.     *)
Give(a, x) == live' = live \cup {<<calls, a + HEADER, x>>}

(* A walk along the list from the first header, which goes on from the     *)
(* headers in S: the addresses that no set can do without that has the     *)
(* first header in it, and the next one of every header of S it has.       *)
Links == {First} \cup {header[a].next : a \in DOMAIN header}

Walked(S, W) == First \in W /\ \A a \in W \cap S : header[a].next \in W

Walk(S) == {a \in Links : \A W \in SUBSET Links : Walked(S, W) => a \in W}

Listed == Walk(DOMAIN header) \ {NULL}

(* What a header written at a does: it goes over one that is in the list,  *)
(* or over part of any, or over one that was merged away.                  *)
WritesOver(a) ==
  IF Torn(header, a) # {} \/ a \in Listed THEN {"written over"}
  ELSE IF IsHeader(a) THEN {"written anew"}
  ELSE {}

(* find_block for the first request of a thread, and                       *)
(* init_block_meta_page_zero: a taken block of size x, and the header of   *)
(* what lies behind it.                                                    *)
FirstBlock(x) ==
  LET second == First + HEADER + x
  IN  [a \in {First, second} |->
         IF a = First
         THEN [p_type |-> "DATA", blk_size |-> 0, free_size |-> x,
               prev |-> NULL, next |-> second]
         ELSE [p_type |-> "UNASSIGNED", blk_size |-> x,
               free_size |-> Room - x - 2 * HEADER,
               prev |-> First, next |-> NULL]]

(* The walk of find_block along the list goes on from taken blocks that    *)
(* are too small, and stops at the first other one.                        *)
TooSmall(x) ==
  {b \in DOMAIN header :
     header[b].p_type = "DATA" /\ header[b].free_size < HEADER + x}

Fit(x) == CHOOSE b \in Walk(TooSmall(x)) : b \notin TooSmall(x)

(* init_block_meta_page splits block b for a request of x that leaves room *)
(* for two headers: the new header goes behind the x bytes, in front of    *)
(* the one that was next.  safely_align_block, which takes the address of  *)
(* the variable mem_block for that of the memory, never moves it.          *)
Splits(b, x) == x + 2 * HEADER < header[b].free_size

Behind(b, x) == b + HEADER + x

HeaderBehind(b, x, type) ==
  [p_type |-> type, blk_size |-> x, free_size |-> x,
   prev |-> b, next |-> header[b].next]

(* A slip one could make, or what the code meant: mark the block taken.    *)
NewHeaderTaken(b, x) == HeaderBehind(b, x, "DATA")

NewHeader(b, x) == HeaderBehind(b, x, "UNASSIGNED")

(* next->prev = address is a store of eight bytes, whether or not a header *)
(* is left at n: the new one may have come to lie across it.  The fields   *)
(* of a header at c that it goes over:                                     *)
Hit(n, c) ==
  {f \in DOMAIN FieldAt :
     \E i \in FieldAt[f], j \in FieldAt.prev : c + i = n + j}

(* find_block fills in the two sizes of the new header afterwards.         *)
Smashed(h, n, a) ==
  {c \in DOMAIN h :
     Hit(n, c) \ (IF c = a THEN {"blk_size", "free_size"} ELSE {}) # {}}

LinkBack(h, n, a) ==
  IF n \in DOMAIN h THEN [h EXCEPT ![n].prev = a]
  ELSE [c \in (DOMAIN h) \ Smashed(h, n, a) |-> h[c]]

LinkOn(h, b, a) ==
  [c \in DOMAIN h |-> IF c = b THEN [h[c] EXCEPT !.next = a] ELSE h[c]]

Split(b, x) ==
  LET a     == Behind(b, x)
      added == Write(header, a, NewHeader(b, x))
  IN  LinkOn(LinkBack(added, header[b].next, a), b, a)

(* myallocate returns the address behind the header that the new one names *)
(* as its predecessor: the new one itself if it was written where the next *)
(* one lay, and anything if the link back went over part of that field.    *)
Garbled(b, x) ==
  LET n == header[b].next IN
  n # Behind(b, x) /\ "prev" \in Hit(n, Behind(b, x))

Before(b, x) == IF header[b].next = Behind(b, x) THEN Behind(b, x) ELSE b

(* A block that is not split is given the request's size all the same.  A  *)
(* slip one could make: take the request off what the block has left.      *)
ChargeLess(b, x) == [header EXCEPT ![b].blk_size = x, ![b].free_size = @ - x]

Charge(b, x) == [header EXCEPT ![b].blk_size = x, ![b].free_size = x]

(* The header a request of x comes to is there, and the next one's link    *)
(* back, which is printed before anything is looked at, is not at NULL.    *)
Servable(x) == IsHeader(Fit(x)) /\ header[Fit(x)].next # NULL

(* myallocate.  It returns the address behind the header before the one    *)
(* that find_block returns, or NULL when find_block does.                  *)
Malloc(x) ==
  LET b == Fit(x) IN
    /\ ~ lost
    /\ calls < MaxCalls
    /\ calls' = calls + 1
    /\ \/ /\ DOMAIN header = {}
          /\ header' = FirstBlock(x)
          /\ Give(First, x)
          /\ UNCHANGED <<lost, spoilt>>
       \/ /\ DOMAIN header # {}
          /\ Servable(x)
          /\ Splits(b, x)
          /\ header' = Split(b, x)
          /\ spoilt' = spoilt \cup WritesOver(Behind(b, x))
          /\ \/ ~ Garbled(b, x) /\ Give(Before(b, x), x) /\ UNCHANGED lost
             \/ Garbled(b, x) /\ lost' = TRUE /\ UNCHANGED live
       \/ /\ DOMAIN header # {}
          /\ Servable(x)
          /\ ~ Splits(b, x)
          /\ header' = Charge(b, x)
          /\ Give(header[b].prev, x)
          /\ UNCHANGED <<lost, spoilt>>
       \/ /\ DOMAIN header # {}
          /\ ~ Servable(x)
          /\ lost' = (b # NULL)
          /\ UNCHANGED <<header, live, spoilt>>

-----------------------------------------------------------------------------
(* mydeallocate: the block behind the freed one's header is merged into    *)
(* the one before, if that is not taken, and then into the one behind.     *)
MergePrev(h, target) ==
  LET prev == h[target].prev IN
  IF prev = NULL \/ h[prev].p_type # "UNASSIGNED" THEN h
  ELSE LET before == h[prev].prev
           linked == [h EXCEPT ![before].next = target,
                               ![before].free_size =
                                 h[prev].blk_size + h[target].blk_size + HEADER]
       IN  [linked EXCEPT ![target].prev = before]

(* The next block is linked with the one that is left of the merged ones.  *)
(* Two slips one could make: forget its link back, or link the wrong two.  *)
LinkForward(h, before, target, next) == [h EXCEPT ![before].next = next]

LinkInPlace(h, before, target, next) ==
  [h EXCEPT ![next].prev = target, ![before].next = before]

Link(h, before, target, next) ==
  [h EXCEPT ![next].prev = before, ![before].next = next]

MergeNext(h, target, prev) ==
  LET next == h[target].next IN
  IF next = NULL \/ h[next].p_type # "UNASSIGNED" THEN h
  ELSE LET before == h[target].prev
           linked == Link(h, before, target, next)
       IN  [linked EXCEPT ![before].free_size =
              linked[target].free_size + linked[prev].free_size + HEADER]

(* The headers mydeallocate goes through for address p are there.          *)
Freeable(p) ==
  LET target == header[p - HEADER].next
      prev   == header[target].prev
      next   == header[target].next
      Merges(a) == a # NULL /\ header[a].p_type = "UNASSIGNED"
  IN  /\ IsHeader(p - HEADER)
      /\ IsHeader(target)
      /\ prev # NULL => IsHeader(prev)
      /\ next # NULL => IsHeader(next)
      /\ Merges(prev) => IsHeader(header[prev].prev)
      /\ Merges(next) => IsHeader(prev)

Free(block) ==
  LET p      == block[2]
      target == header[p - HEADER].next
      prev   == header[target].prev
      marked == [header EXCEPT ![target].p_type = "UNASSIGNED"]
  IN  /\ ~ lost
      /\ live' = live \ {block}
      /\ UNCHANGED calls
      /\ \/ /\ Freeable(p)
            /\ header' = MergeNext(MergePrev(marked, target), target, prev)
            /\ spoilt' = IF p - HEADER \in Listed THEN spoilt
                         ELSE spoilt \cup {"merged away"}
            /\ UNCHANGED lost
         \/ /\ ~ Freeable(p)
            /\ lost' = TRUE
            /\ UNCHANGED <<header, spoilt>>

Next ==
  \/ \E x \in Sizes : Malloc(x)
  \/ \E block \in live : Free(block)

Spec == Init /\ [][Next]_vars

-----------------------------------------------------------------------------
TypeOK ==
  /\ \A a \in DOMAIN header : a \in Nat /\ header[a] \in Header
  /\ calls \in 0 .. MaxCalls
  /\ live \subseteq (0 .. MaxCalls) \X Nat \X Sizes
  /\ lost \in BOOLEAN
  /\ spoilt \subseteq {"written over", "written anew", "merged away"}

(* Splits and merges keep the list doubly linked, in whatever order blocks *)
(* are taken and freed, until a header is written over one in the list or  *)
(* part of any, or a block is freed whose header has been merged away.     *)
ListLinked ==
  spoilt \subseteq {"written anew"} /\ DOMAIN header # {} =>
    /\ Listed \subseteq DOMAIN header
    /\ header[First].prev = NULL
    /\ \A a \in Listed :
         header[a].next # NULL => header[header[a].next].prev = a

(* Even such a free leaves a list that comes to an end, as long as no      *)
(* header that was merged away is written anew.                            *)
ListEnds ==
  /\ "written over" \notin spoilt
  /\ ~ {"written anew", "merged away"} \subseteq spoilt
  /\ DOMAIN header # {}
  => NULL \in Walk(DOMAIN header)

(* find_block looks at two headers at most: the first is taken and no      *)
(* other ever is, so the walk stops at the second, and never says that     *)
(* memory is full.                                                         *)
WalkStops ==
  \A a \in DOMAIN header : (header[a].p_type = "DATA") <=> (a = First)

(* Blocks in use have no byte in common.                                   *)
LiveDisjoint ==
  \A b, c \in live :
    b # c => \/ b[2] + b[3] <= c[2]
             \/ c[2] + c[3] <= b[2]
=============================================================================
