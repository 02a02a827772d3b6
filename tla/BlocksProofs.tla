---------------------------- MODULE BlocksProofs ----------------------------
(***************************************************************************)
(* Proofs about Blocks for any sizes and any number of calls: types, and   *)
(* that find_block never looks past the second header.                     *)
(***************************************************************************)
EXTENDS Blocks, WellFoundedInduction, TLAPS

(* No header but the first is taken and no link leads back to the first:   *)
(* what mydeallocate marks as free is a header some other one links to, so *)
(* it is never the first.  Headers lie from the first one on, so that a    *)
(* new one, behind its predecessor, does not come over it.                 *)
SoundHeader(h, a) ==
  /\ a \in Nat /\ a >= First
  /\ h[a] \in Header
  /\ h[a].next # First
  /\ h[a].p_type = "DATA" <=> a = First

Sound(h) ==
  /\ h = [a \in DOMAIN h |-> h[a]]
  /\ \A a \in DOMAIN h : SoundHeader(h, a)

Inv == TypeOK /\ Sound(header)

LEMMA Sizing ==
  /\ HEADER \in Nat /\ HEADER >= 1 /\ Room \in Nat /\ MaxCalls \in Nat
  /\ First \in Nat /\ First = 2 * HEADER /\ NULL = 0 /\ NULL # First
  /\ \A x \in Sizes : x \in Nat /\ x >= 1 /\ Room - x - 2 * HEADER \in Nat
BY BlocksAssumption DEF First, NULL, HEADER

(* A header that is replaced at a place where there is one.                *)
LEMMA ReplaceSound ==
  ASSUME NEW h, Sound(h), NEW a, NEW r \in Header, r.next # First,
         a \in DOMAIN h => (r.p_type = "DATA" <=> a = First)
  PROVE  Sound([h EXCEPT ![a] = r]) /\ DOMAIN [h EXCEPT ![a] = r] = DOMAIN h
BY DEF Sound, SoundHeader

(* The fields the code writes one by one.                                  *)
LEMMA NextSound ==
  ASSUME NEW h, Sound(h), NEW a \in DOMAIN h, NEW n \in Nat, n # First
  PROVE  /\ Sound([h EXCEPT ![a].next = n])
         /\ DOMAIN [h EXCEPT ![a].next = n] = DOMAIN h
<1> DEFINE r == [h[a] EXCEPT !.next = n]
<1>1. h[a] \in Header /\ (h[a].p_type = "DATA" <=> a = First)
  BY DEF Sound, SoundHeader
<1>2. r \in Header /\ r.next # First /\ (r.p_type = "DATA" <=> a = First)
  BY <1>1 DEF Header
<1> HIDE DEF r
<1>3. Sound([h EXCEPT ![a] = r]) /\ DOMAIN [h EXCEPT ![a] = r] = DOMAIN h
  BY <1>2, ReplaceSound
<1> QED BY <1>3 DEF r

LEMMA PrevSound ==
  ASSUME NEW h, Sound(h), NEW a \in DOMAIN h, NEW n \in Nat
  PROVE  /\ Sound([h EXCEPT ![a].prev = n])
         /\ DOMAIN [h EXCEPT ![a].prev = n] = DOMAIN h
<1> DEFINE r == [h[a] EXCEPT !.prev = n]
<1>1. h[a] \in Header /\ (h[a].p_type = "DATA" <=> a = First)
      /\ h[a].next # First
  BY DEF Sound, SoundHeader
<1>2. r \in Header /\ r.next # First /\ (r.p_type = "DATA" <=> a = First)
  BY <1>1 DEF Header
<1> HIDE DEF r
<1>3. Sound([h EXCEPT ![a] = r]) /\ DOMAIN [h EXCEPT ![a] = r] = DOMAIN h
  BY <1>2, ReplaceSound
<1> QED BY <1>3 DEF r

LEMMA FreeSizeSound ==
  ASSUME NEW h, Sound(h), NEW a \in DOMAIN h, NEW n \in Nat
  PROVE  /\ Sound([h EXCEPT ![a].free_size = n])
         /\ DOMAIN [h EXCEPT ![a].free_size = n] = DOMAIN h
<1> DEFINE r == [h[a] EXCEPT !.free_size = n]
<1>1. h[a] \in Header /\ (h[a].p_type = "DATA" <=> a = First)
      /\ h[a].next # First
  BY DEF Sound, SoundHeader
<1>2. r \in Header /\ r.next # First /\ (r.p_type = "DATA" <=> a = First)
  BY <1>1 DEF Header
<1> HIDE DEF r
<1>3. Sound([h EXCEPT ![a] = r]) /\ DOMAIN [h EXCEPT ![a] = r] = DOMAIN h
  BY <1>2, ReplaceSound
<1> QED BY <1>3 DEF r

LEMMA FieldTypes ==
  ASSUME NEW h, Sound(h), NEW a \in DOMAIN h
  PROVE  /\ a \in Nat /\ a >= First
         /\ h[a].prev \in Nat /\ h[a].next \in Nat /\ h[a].next # First
         /\ h[a].blk_size \in Nat /\ h[a].free_size \in Nat
BY DEF Sound, SoundHeader, Header

-----------------------------------------------------------------------------
(* mydeallocate merges a block with the one before ...                     *)
LEMMA MergePrevSound ==
  ASSUME NEW h, Sound(h), NEW t \in DOMAIN h, t # First,
         h[t].prev # NULL => h[t].prev \in DOMAIN h,
         h[t].prev # NULL /\ h[h[t].prev].p_type = "UNASSIGNED"
           => h[h[t].prev].prev \in DOMAIN h
  PROVE  /\ Sound(MergePrev(h, t)) /\ DOMAIN MergePrev(h, t) = DOMAIN h
         /\ \/ MergePrev(h, t) = h
            \/ /\ h[t].prev \in DOMAIN h
               /\ MergePrev(h, t)[t].prev \in DOMAIN h
               /\ MergePrev(h, t)[t].next \in {h[t].next, t}
<1> DEFINE prev   == h[t].prev
           before == h[prev].prev
           size   == h[prev].blk_size + h[t].blk_size + HEADER
           h1     == [h EXCEPT ![before].next = t]
           h2     == [h1 EXCEPT ![before].free_size = size]
           h3     == [h2 EXCEPT ![t].prev = before]
<1>1. CASE prev = NULL \/ h[prev].p_type # "UNASSIGNED"
  BY <1>1 DEF MergePrev
<1>2. CASE ~ (prev = NULL \/ h[prev].p_type # "UNASSIGNED")
  <2>1. prev \in DOMAIN h
    BY <1>2
  <2>2. h[prev].p_type = "UNASSIGNED"
    BY <1>2
  <2>3. before \in DOMAIN h
    BY <1>2, <2>2
  <2>4. size \in Nat /\ before \in Nat /\ t \in Nat
    BY <2>1, <2>3, FieldTypes, Sizing
  <2>5. MergePrev(h, t) = h3
    BY <1>2 DEF MergePrev
  <2> HIDE DEF size
  <2>6. Sound(h1) /\ DOMAIN h1 = DOMAIN h
    BY <2>3, <2>4, NextSound
  <2>7. Sound(h2) /\ DOMAIN h2 = DOMAIN h
    BY <2>3, <2>4, <2>6, FreeSizeSound
  <2>8. Sound(h3) /\ DOMAIN h3 = DOMAIN h
    BY <2>4, <2>7, PrevSound
  <2>9. h3[t].prev = before
    <3>1. h2[t] \in Header
      BY <2>7 DEF Sound, SoundHeader
    <3> QED BY <2>7, <3>1 DEF Header
  <2>10. h3[t].next \in {h[t].next, t}
    <3>1. h[t] \in Header /\ h1[t] \in Header /\ h2[t] \in Header
      BY <2>6, <2>7 DEF Sound, SoundHeader
    <3>2. h3[t].next = h2[t].next
      BY <2>7, <3>1 DEF Header
    <3>3. h2[t].next = h1[t].next
      BY <2>6, <3>1 DEF Header
    <3>4. h1[t].next \in {h[t].next, t}
      BY <3>1 DEF Header
    <3> QED BY <3>2, <3>3, <3>4
  <2> HIDE DEF before, h1, h2, h3
  <2> QED BY <2>1, <2>3, <2>5, <2>8, <2>9, <2>10
<1> QED BY <1>1, <1>2

(* ... and with the one behind.                                            *)
LEMMA MergeNextSound ==
  ASSUME NEW h, Sound(h), NEW t \in DOMAIN h, NEW p,
         h[t].next # NULL => h[t].next \in DOMAIN h,
         h[t].next # NULL /\ h[h[t].next].p_type = "UNASSIGNED"
           => p \in DOMAIN h /\ h[t].prev \in DOMAIN h
  PROVE  Sound(MergeNext(h, t, p))
<1> DEFINE next   == h[t].next
           before == h[t].prev
           h1     == [h EXCEPT ![next].prev = before]
           h2     == [h1 EXCEPT ![before].next = next]
           size   == h2[t].free_size + h2[p].free_size + HEADER
<1>1. CASE next = NULL \/ h[next].p_type # "UNASSIGNED"
  BY <1>1 DEF MergeNext
<1>2. CASE ~ (next = NULL \/ h[next].p_type # "UNASSIGNED")
  <2>1. next \in DOMAIN h /\ p \in DOMAIN h /\ before \in DOMAIN h
    BY <1>2
  <2>2. next \in Nat /\ before \in Nat /\ next # First
    BY FieldTypes
  <2>3. Sound(h1) /\ DOMAIN h1 = DOMAIN h
    BY <2>1, <2>2, PrevSound
  <2>4. Sound(h2) /\ DOMAIN h2 = DOMAIN h
    BY <2>1, <2>2, <2>3, NextSound
  <2>5. size \in Nat
    <3>1. h2[t].free_size \in Nat /\ h2[p].free_size \in Nat
      BY <2>1, <2>4, FieldTypes
    <3> QED BY <3>1, Sizing
  <2>6. MergeNext(h, t, p) = [h2 EXCEPT ![before].free_size = size]
    BY <1>2 DEF MergeNext, Link
  <2> HIDE DEF size, before, next, h1, h2
  <2>7. before \in DOMAIN h2
    BY <2>1, <2>4
  <2>8. Sound([h2 EXCEPT ![before].free_size = size])
    BY <2>4, <2>5, <2>7, FreeSizeSound
  <2> QED BY <2>6, <2>8
<1> QED BY <1>1, <1>2

(* g is h with the headers at b and t linked with one another.             *)
Joined(h, g, b, t) ==
  /\ DOMAIN g = DOMAIN h
  /\ \A c \in DOMAIN h :
       /\ g[c].next = IF c = b THEN t ELSE h[c].next
       /\ g[c].prev = IF c = t THEN b ELSE h[c].prev

(* What the two merges of mydeallocate do to the links.                    *)
LEMMA MergePrevJoins ==
  ASSUME NEW h, Sound(h), NEW t \in DOMAIN h,
         h[t].prev # NULL => h[t].prev \in DOMAIN h,
         h[t].prev # NULL /\ h[h[t].prev].p_type = "UNASSIGNED"
           => h[h[t].prev].prev \in DOMAIN h
  PROVE  \/ MergePrev(h, t) = h
         \/ /\ h[t].prev \in DOMAIN h /\ h[t].prev # First
            /\ h[h[t].prev].prev \in DOMAIN h
            /\ Joined(h, MergePrev(h, t), h[h[t].prev].prev, t)
<1> DEFINE prev   == h[t].prev
           before == h[prev].prev
           size   == h[prev].blk_size + h[t].blk_size + HEADER
           m      == [[h EXCEPT ![before].next = t, ![before].free_size = size]
                        EXCEPT ![t].prev = before]
<1>1. CASE prev = NULL \/ h[prev].p_type # "UNASSIGNED"
  BY <1>1 DEF MergePrev
<1>2. CASE ~ (prev = NULL \/ h[prev].p_type # "UNASSIGNED")
  <2>1. prev \in DOMAIN h /\ h[prev].p_type = "UNASSIGNED"
    BY <1>2
  <2>2. before \in DOMAIN h /\ prev # First
    BY <1>2, <2>1 DEF Sound, SoundHeader
  <2>3. MergePrev(h, t) = m
    BY <1>2 DEF MergePrev
  <2>4. \A c \in DOMAIN h : h[c] \in Header
    BY DEF Sound, SoundHeader
  <2> HIDE DEF size, before
  <2>5. Joined(h, m, before, t)
    BY <2>2, <2>4 DEF Joined, Header
  <2> HIDE DEF m
  <2> QED BY <2>1, <2>2, <2>3, <2>5 DEF before
<1> QED BY <1>1, <1>2

LEMMA MergeNextJoins ==
  ASSUME NEW h, Sound(h), NEW t \in DOMAIN h, NEW p,
         h[t].next # NULL => h[t].next \in DOMAIN h,
         h[t].next # NULL /\ h[h[t].next].p_type = "UNASSIGNED"
           => p \in DOMAIN h /\ h[t].prev \in DOMAIN h
  PROVE  \/ MergeNext(h, t, p) = h
         \/ /\ h[t].next \in DOMAIN h /\ h[t].next # NULL
            /\ h[t].prev \in DOMAIN h
            /\ Joined(h, MergeNext(h, t, p), h[t].prev, h[t].next)
<1> DEFINE next   == h[t].next
           before == h[t].prev
           h2     == [h EXCEPT ![next].prev = before, ![before].next = next]
           size   == h2[t].free_size + h2[p].free_size + HEADER
           m      == [h2 EXCEPT ![before].free_size = size]
<1>1. CASE next = NULL \/ h[next].p_type # "UNASSIGNED"
  BY <1>1 DEF MergeNext
<1>2. CASE ~ (next = NULL \/ h[next].p_type # "UNASSIGNED")
  <2>1. next \in DOMAIN h /\ before \in DOMAIN h /\ next # NULL
    BY <1>2
  <2>2. MergeNext(h, t, p) = m
    BY <1>2 DEF MergeNext, Link
  <2>3. \A c \in DOMAIN h : h[c] \in Header
    BY DEF Sound, SoundHeader
  <2> HIDE DEF size, before, next
  <2>4. Joined(h, m, before, next)
    BY <2>1, <2>3 DEF Joined, Header
  <2> HIDE DEF m
  <2> QED BY <2>1, <2>2, <2>4 DEF before, next
<1> QED BY <1>1, <1>2

-----------------------------------------------------------------------------
LEMMA InitInv == Init => Inv
<1> SUFFICES ASSUME Init PROVE Inv
  OBVIOUS
<1>1. DOMAIN header = {} /\ header = [a \in DOMAIN header |-> header[a]]
  BY DEF Init
<1>2. calls \in 0 .. MaxCalls
  BY Sizing DEF Init
<1>3. live = {} /\ lost = FALSE /\ spoilt = {}
  BY DEF Init
<1> QED BY <1>1, <1>2, <1>3 DEF Inv, TypeOK, Sound

LEMMA FirstBlockSound ==
  ASSUME NEW x \in Sizes
  PROVE  Sound(FirstBlock(x))
<1> DEFINE second == First + HEADER + x
<1>1. second \in Nat /\ second > First
  BY Sizing
<1>2. Room - x - 2 * HEADER \in Nat /\ x \in Nat /\ First \in Nat
      /\ NULL \in Nat /\ NULL # First
  BY Sizing
<1> HIDE DEF second
<1>3. DOMAIN FirstBlock(x) = {First, second}
  BY DEF FirstBlock, second
<1>4. FirstBlock(x)[First] =
        [p_type |-> "DATA", blk_size |-> 0, free_size |-> x,
         prev |-> NULL, next |-> second]
  BY DEF FirstBlock, second
<1>5. FirstBlock(x)[second] =
        [p_type |-> "UNASSIGNED", blk_size |-> x,
         free_size |-> Room - x - 2 * HEADER, prev |-> First, next |-> NULL]
  BY <1>1, <1>2 DEF FirstBlock, second
<1>6. SoundHeader(FirstBlock(x), First)
  BY <1>1, <1>2, <1>4 DEF SoundHeader, Header
<1>7. SoundHeader(FirstBlock(x), second)
  BY <1>1, <1>2, <1>5 DEF SoundHeader, Header
<1>8. FirstBlock(x) = [a \in DOMAIN FirstBlock(x) |-> FirstBlock(x)[a]]
  BY DEF FirstBlock
<1> QED BY <1>3, <1>6, <1>7, <1>8 DEF Sound

(* A header that is written behind the first one, over whatever lay there. *)
LEMMA WriteSound ==
  ASSUME NEW h, Sound(h), NEW a \in Nat, a > First,
         NEW r \in Header, r.next # First, r.p_type # "DATA"
  PROVE  Sound(Write(h, a, r))
<1> DEFINE w == Write(h, a, r)
<1>1. w = [c \in DOMAIN w |-> w[c]]
  BY DEF Write
<1>2. /\ DOMAIN w = ((DOMAIN h) \ Torn(h, a)) \cup {a}
      /\ \A c \in DOMAIN w : w[c] = IF c = a THEN r ELSE h[c]
  BY DEF Write
<1> HIDE DEF w
<1>3. ASSUME NEW c \in DOMAIN w
      PROVE  SoundHeader(w, c)
  <2>1. CASE c = a
    BY <1>2, <2>1, Sizing DEF SoundHeader
  <2>2. CASE c # a
    <3>1. w[c] = h[c] /\ SoundHeader(h, c)
      BY <1>2, <2>2 DEF Sound
    <3> QED BY <3>1 DEF SoundHeader
  <2> QED BY <2>1, <2>2
<1> QED BY <1>1, <1>3 DEF Sound, w

(* The link back, to a header or to what is left of one, ...               *)
LEMMA LinkBackSound ==
  ASSUME NEW h, Sound(h), NEW n, NEW a \in Nat
  PROVE  Sound(LinkBack(h, n, a))
<1>1. CASE n \in DOMAIN h
  BY <1>1, PrevSound DEF LinkBack
<1>2. CASE n \notin DOMAIN h
  <2> DEFINE S == (DOMAIN h) \ Smashed(h, n, a)
             g == [c \in S |-> h[c]]
  <2>1. LinkBack(h, n, a) = g
    BY <1>2 DEF LinkBack
  <2>2. S \subseteq DOMAIN h
    OBVIOUS
  <2> HIDE DEF S
  <2>3. Sound(g)
    BY <2>2 DEF Sound, SoundHeader
  <2> QED BY <2>1, <2>3
<1> QED BY <1>1, <1>2

(* ... and the link to the new header.                                     *)
LEMMA LinkOnSound ==
  ASSUME NEW h, Sound(h), NEW b, NEW a \in Nat, a # First
  PROVE  Sound(LinkOn(h, b, a))
<1> DEFINE g == LinkOn(h, b, a)
<1>1. g = [c \in DOMAIN g |-> g[c]] /\ DOMAIN g = DOMAIN h
  BY DEF LinkOn
<1>2. ASSUME NEW c \in DOMAIN h
      PROVE  SoundHeader(g, c)
  <2>1. SoundHeader(h, c)
    BY DEF Sound
  <2>2. g[c] = IF c = b THEN [h[c] EXCEPT !.next = a] ELSE h[c]
    BY DEF LinkOn
  <2> HIDE DEF g
  <2> QED BY <2>1, <2>2 DEF SoundHeader, Header
<1> HIDE DEF g
<1>3. Sound(g)
  BY <1>1, <1>2 DEF Sound
<1> QED BY <1>3 DEF g

(* The new header lies behind block b, and so behind the first one.        *)
LEMMA SplitSound ==
  ASSUME Inv, NEW x \in Sizes, NEW b \in DOMAIN header
  PROVE  Sound(Split(b, x)) /\ Behind(b, x) \in Nat
<1> DEFINE a == Behind(b, x)
           n == header[b].next
           r == NewHeader(b, x)
<1>1. /\ b \in Nat /\ b >= First /\ n \in Nat /\ n # First
      /\ x \in Nat /\ x >= 1 /\ HEADER \in Nat /\ First \in Nat
  BY FieldTypes, Sizing DEF Inv
<1>2. a \in Nat /\ a > First /\ a # First
  BY <1>1 DEF Behind
<1>3. r \in Header /\ r.next # First /\ r.p_type # "DATA"
  BY <1>1 DEF NewHeader, HeaderBehind, Header
<1>4. Split(b, x) = LinkOn(LinkBack(Write(header, a, r), n, a), b, a)
  BY DEF Split
<1> HIDE DEF a, n, r
<1>5. Sound(Write(header, a, r))
  BY <1>2, <1>3, WriteSound DEF Inv
<1>6. Sound(LinkBack(Write(header, a, r), n, a))
  BY <1>2, <1>5, LinkBackSound
<1>7. Sound(LinkOn(LinkBack(Write(header, a, r), n, a), b, a))
  BY <1>2, <1>6, LinkOnSound
<1> QED BY <1>2, <1>4, <1>7 DEF a

LEMMA GiveType ==
  ASSUME TypeOK, calls < MaxCalls, NEW a \in Nat, NEW x \in Sizes, Give(a, x)
  PROVE  live' \subseteq (0 .. MaxCalls) \X Nat \X Sizes
<1>1. a + HEADER \in Nat
  BY Sizing
<1>2. <<calls, a + HEADER, x>> \in (0 .. MaxCalls) \X Nat \X Sizes
  BY <1>1 DEF TypeOK
<1>3. live' = live \cup {<<calls, a + HEADER, x>>}
  BY DEF Give
<1> QED BY <1>2, <1>3 DEF TypeOK

(* A header behind the first is not taken, so marking it free says nothing *)
(* new.                                                                    *)
LEMMA MarkSound ==
  ASSUME NEW h, Sound(h), NEW t \in DOMAIN h, t # First
  PROVE  LET m == [h EXCEPT ![t].p_type = "UNASSIGNED"] IN
         /\ Sound(m) /\ DOMAIN m = DOMAIN h
         /\ \A c \in DOMAIN h :
              /\ m[c].prev = h[c].prev
              /\ m[c].next = h[c].next
              /\ (m[c].p_type = "UNASSIGNED") <=> (h[c].p_type = "UNASSIGNED")
<1> DEFINE r == [h[t] EXCEPT !.p_type = "UNASSIGNED"]
           m == [h EXCEPT ![t].p_type = "UNASSIGNED"]
<1>1. Sound(m) /\ DOMAIN m = DOMAIN h
  <2>1. h[t] \in Header /\ h[t].next # First /\ h[t].p_type # "DATA"
    BY DEF Sound, SoundHeader
  <2>2. r \in Header /\ r.next # First /\ r.p_type # "DATA"
    BY <2>1 DEF Header
  <2> HIDE DEF r
  <2>3. Sound([h EXCEPT ![t] = r]) /\ DOMAIN [h EXCEPT ![t] = r] = DOMAIN h
    BY <2>2, ReplaceSound
  <2> QED BY <2>3 DEF r
<1>2. \A c \in DOMAIN h :
        h[c] \in Header /\ ((h[c].p_type = "DATA") <=> (c = First))
  BY DEF Sound, SoundHeader
<1>3. \A c \in DOMAIN h :
        /\ m[c].prev = h[c].prev
        /\ m[c].next = h[c].next
        /\ (m[c].p_type = "UNASSIGNED") <=> (h[c].p_type = "UNASSIGNED")
  BY <1>2 DEF Header
<1> QED BY <1>1, <1>3

(* What mydeallocate marks as free has a predecessor in the list, so it is *)
(* not the first header; the merges join the headers on both sides of one. *)
LEMMA FreeMerges ==
  ASSUME Inv, NEW block \in live, Free(block), Freeable(block[2])
  PROVE  LET before == block[2] - HEADER
             target == header[before].next
             prev   == header[target].prev
             marked == [header EXCEPT ![target].p_type = "UNASSIGNED"]
             h1     == MergePrev(marked, target)
         IN
         /\ before \in DOMAIN header
         /\ target \in DOMAIN header /\ target # First
         /\ Sound(marked) /\ DOMAIN marked = DOMAIN header
         /\ \A c \in DOMAIN header : /\ marked[c].prev = header[c].prev
                                     /\ marked[c].next = header[c].next
         /\ Sound(h1) /\ DOMAIN h1 = DOMAIN header
         /\ \/ h1 = marked
            \/ /\ prev \in DOMAIN header /\ prev # First
               /\ header[prev].prev \in DOMAIN header
               /\ Joined(marked, h1, header[prev].prev, target)
         /\ Sound(header')
         /\ \/ header' = h1
            \/ /\ h1[target].next \in DOMAIN header
               /\ h1[target].prev \in DOMAIN header
               /\ Joined(h1, header', h1[target].prev, h1[target].next)
<1> DEFINE before == block[2] - HEADER
           target == header[before].next
           prev   == header[target].prev
           next   == header[target].next
           marked == [header EXCEPT ![target].p_type = "UNASSIGNED"]
           h1     == MergePrev(marked, target)
<1>1. /\ before \in DOMAIN header /\ target \in DOMAIN header
      /\ prev # NULL => prev \in DOMAIN header
      /\ next # NULL => next \in DOMAIN header
      /\ prev # NULL /\ header[prev].p_type = "UNASSIGNED"
           => header[prev].prev \in DOMAIN header
      /\ next # NULL /\ header[next].p_type = "UNASSIGNED"
           => prev \in DOMAIN header
  BY DEF Freeable, IsHeader
<1>2. header' = MergeNext(h1, target, prev)
  BY DEF Free
<1>3. /\ Sound(header) /\ target \in Nat /\ target # First
      /\ prev \in Nat /\ next \in Nat
  BY <1>1, FieldTypes DEF Inv
<1> HIDE DEF target, before, h1
<1>4. Sound(marked) /\ DOMAIN marked = DOMAIN header
  BY <1>1, <1>3, MarkSound
<1>5. \A c \in DOMAIN header :
        /\ marked[c].prev = header[c].prev
        /\ marked[c].next = header[c].next
        /\ (marked[c].p_type = "UNASSIGNED")
             <=> (header[c].p_type = "UNASSIGNED")
  BY <1>1, <1>3, MarkSound
<1>6. marked[target].prev = prev /\ marked[target].next = next
  BY <1>1, <1>5
<1> HIDE DEF marked
<1>7. /\ Sound(h1) /\ DOMAIN h1 = DOMAIN header
      /\ \/ h1 = marked
         \/ /\ prev \in DOMAIN header
            /\ h1[target].prev \in DOMAIN header
            /\ h1[target].next \in {next, target}
  BY <1>1, <1>3, <1>4, <1>5, <1>6, MergePrevSound DEF h1
<1>8. \/ h1 = marked
      \/ /\ prev \in DOMAIN header /\ prev # First
         /\ header[prev].prev \in DOMAIN header
         /\ Joined(marked, h1, header[prev].prev, target)
  BY <1>1, <1>4, <1>5, <1>6, MergePrevJoins DEF h1
<1>9. h1[target].next # NULL => h1[target].next \in DOMAIN h1
  BY <1>1, <1>6, <1>7
<1>10. ASSUME h1[target].next # NULL,
              h1[h1[target].next].p_type = "UNASSIGNED"
       PROVE  prev \in DOMAIN h1 /\ h1[target].prev \in DOMAIN h1
  <2>1. CASE h1 = marked
    <3>1. next # NULL /\ next \in DOMAIN header
          /\ marked[next].p_type = "UNASSIGNED"
      BY <1>1, <1>6, <1>10, <2>1
    <3>2. prev \in DOMAIN header
      BY <1>1, <1>5, <3>1
    <3> QED BY <1>6, <1>7, <2>1, <3>2
  <2>2. CASE h1 # marked
    BY <1>7, <2>2
  <2> QED BY <2>1, <2>2
<1>11. target \in DOMAIN h1 /\ Sound(h1)
  BY <1>1, <1>7
<1>12. Sound(header')
  BY <1>2, <1>9, <1>10, <1>11, MergeNextSound
<1>13. \/ header' = h1
       \/ /\ h1[target].next \in DOMAIN header
          /\ h1[target].prev \in DOMAIN header
          /\ Joined(h1, header', h1[target].prev, h1[target].next)
  BY <1>2, <1>7, <1>9, <1>10, <1>11, MergeNextJoins
<1> QED
  BY <1>1, <1>3, <1>4, <1>5, <1>7, <1>8, <1>12, <1>13
  DEF target, before, marked, h1

LEMMA FreeInv ==
  ASSUME Inv, NEW block \in live, Free(block)
  PROVE  Inv'
<1>1. /\ calls' \in 0 .. MaxCalls
      /\ live' \subseteq (0 .. MaxCalls) \X Nat \X Sizes
      /\ lost' \in BOOLEAN
      /\ spoilt' \subseteq {"written over", "written anew", "merged away"}
  BY DEF Inv, TypeOK, Free
<1>2. Sound(header')
  <2>1. CASE ~ Freeable(block[2])
    BY <2>1 DEF Free, Inv, Sound, SoundHeader
  <2>2. CASE Freeable(block[2])
    BY <2>2, FreeMerges
  <2> QED BY <2>1, <2>2
<1> QED BY <1>1, <1>2 DEF Inv, TypeOK, Sound, SoundHeader

LEMMA MallocInv ==
  ASSUME Inv, NEW x \in Sizes, Malloc(x)
  PROVE  Inv'
<1> DEFINE b == Fit(x)
           a == Behind(b, x)
<1>1. calls' \in 0 .. MaxCalls /\ calls < MaxCalls
  <2>1. calls < MaxCalls /\ calls' = calls + 1
    BY DEF Malloc
  <2>2. calls \in 0 .. MaxCalls /\ MaxCalls \in Nat
    BY Sizing DEF Inv, TypeOK
  <2> QED BY <2>1, <2>2
<1>2. TypeOK /\ Sound(header) /\ First \in Nat /\ x \in Nat
  BY Sizing DEF Inv
<1>3. SUFFICES /\ Sound(header')
               /\ live' \subseteq (0 .. MaxCalls) \X Nat \X Sizes
               /\ lost' \in BOOLEAN
               /\ spoilt' \subseteq {"written over", "written anew", "merged away"}
  BY <1>1 DEF Inv, TypeOK, Sound, SoundHeader
<1>4. CASE DOMAIN header = {}
  <2>1. header' = FirstBlock(x) /\ Give(First, x) /\ UNCHANGED <<lost, spoilt>>
    BY <1>4 DEF Malloc
  <2>2. Sound(header')
    BY <2>1, FirstBlockSound
  <2>3. live' \subseteq (0 .. MaxCalls) \X Nat \X Sizes
    BY <1>1, <1>2, <2>1, GiveType
  <2> QED BY <1>2, <2>1, <2>2, <2>3 DEF TypeOK
<1>5. CASE DOMAIN header # {} /\ Servable(x) /\ Splits(b, x)
  <2>1. /\ header' = Split(b, x)
        /\ spoilt' = spoilt \cup WritesOver(a)
        /\ \/ Give(Before(b, x), x) /\ lost' = lost
           \/ live' = live /\ lost' = TRUE
    BY <1>5 DEF Malloc
  <2>2. b \in DOMAIN header
    BY <1>5 DEF Servable, IsHeader
  <2> HIDE DEF b
  <2>3. Sound(header') /\ a \in Nat
    BY <2>1, <2>2, SplitSound
  <2>4. Before(b, x) \in Nat
    BY <1>2, <2>2, <2>3, FieldTypes DEF Before
  <2>5. live' \subseteq (0 .. MaxCalls) \X Nat \X Sizes
    <3>1. CASE Give(Before(b, x), x)
      BY <1>1, <1>2, <2>4, <3>1, GiveType
    <3>2. CASE live' = live
      BY <1>2, <3>2 DEF TypeOK
    <3> QED BY <2>1, <3>1, <3>2
  <2>6. spoilt' \subseteq {"written over", "written anew", "merged away"}
    BY <1>2, <2>1 DEF TypeOK, WritesOver
  <2>7. lost' \in BOOLEAN
    BY <1>2, <2>1 DEF TypeOK
  <2> QED BY <2>3, <2>5, <2>6, <2>7
<1>6. CASE DOMAIN header # {} /\ Servable(x) /\ ~ Splits(b, x)
  <2>1. /\ header' = Charge(b, x) /\ Give(header[b].prev, x)
        /\ UNCHANGED <<lost, spoilt>>
    BY <1>6 DEF Malloc
  <2>2. b \in DOMAIN header
    BY <1>6 DEF Servable, IsHeader
  <2> HIDE DEF b
  <2>3. Sound(header')
    <3> DEFINE r == [header[b] EXCEPT !.blk_size = x, !.free_size = x]
    <3>1. /\ header[b] \in Header /\ header[b].next # First
          /\ (header[b].p_type = "DATA") <=> (b = First)
      BY <1>2, <2>2 DEF Sound, SoundHeader
    <3>2. /\ r \in Header /\ r.next # First
          /\ (r.p_type = "DATA") <=> (b = First)
      BY <1>2, <3>1 DEF Header
    <3>3. header' = [header EXCEPT ![b] = r]
      <4>1. header' = [header EXCEPT ![b].blk_size = x, ![b].free_size = x]
        BY <2>1 DEF Charge
      <4> QED BY <4>1, <2>2, <3>1 DEF Header
    <3> HIDE DEF r
    <3>4. Sound([header EXCEPT ![b] = r])
      <4>1. Sound(header)
        BY <1>2
      <4>2. b \in DOMAIN header => (r.p_type = "DATA" <=> b = First)
        BY <3>2
      <4>3. r \in Header /\ r.next # First
        BY <3>2
      <4> QED BY <4>1, <4>2, <4>3, ReplaceSound
    <3> QED BY <3>3, <3>4
  <2>4. header[b].prev \in Nat
    BY <1>2, <2>2, FieldTypes
  <2>5. live' \subseteq (0 .. MaxCalls) \X Nat \X Sizes
    BY <1>1, <1>2, <2>1, <2>4, GiveType
  <2> QED BY <1>2, <2>1, <2>3, <2>5 DEF TypeOK
<1>7. CASE DOMAIN header # {} /\ ~ Servable(x)
  <2>1. UNCHANGED <<header, live, spoilt>> /\ lost' \in BOOLEAN
    BY <1>7 DEF Malloc
  <2> QED BY <1>2, <2>1 DEF TypeOK, Sound, SoundHeader
<1> QED BY <1>4, <1>5, <1>6, <1>7

(* Every step keeps the invariant.                                         *)
LEMMA NextInv == Inv /\ [Next]_vars => Inv'
<1> SUFFICES ASSUME Inv, [Next]_vars PROVE Inv'
  OBVIOUS
<1>1. CASE UNCHANGED vars
  BY <1>1 DEF vars, Inv, TypeOK, Sound, SoundHeader
<1>2. ASSUME NEW x \in Sizes, Malloc(x)
      PROVE  Inv'
  BY <1>2, MallocInv
<1>3. ASSUME NEW block \in live, Free(block)
      PROVE  Inv'
  BY <1>3, FreeInv
<1> QED BY <1>1, <1>2, <1>3 DEF Next

(* Types and sound headers, at any time.                                   *)
THEOREM Invariance == Spec => []Inv
<1> QED BY InitInv, NextInv, PTL DEF Spec

(* Types.  That no size falls below 0 rests on BlocksAssumption, which the *)
(* code does not check: every first request fits in the thread's pages.    *)
THEOREM BlocksTypeCorrect == Spec => []TypeOK
<1>1. Inv => TypeOK
  BY DEF Inv
<1> QED BY <1>1, Invariance, PTL

(* find_block's walk stops at the second header: the first is taken, even  *)
(* when its block has been freed, and no other is, even when its block is  *)
(* in use.                                                                 *)
THEOREM WalkStaysShort == Spec => []WalkStops
<1>1. Inv => WalkStops
  BY DEF Inv, Sound, SoundHeader, WalkStops
<1> QED BY <1>1, Invariance, PTL

-----------------------------------------------------------------------------
(* The links of the list.  While no free goes through a header that was    *)
(* merged away, the headers in the list are linked both ways; while no     *)
(* header is written anew, the links of all headers, those merged away     *)
(* included, run down some numbering r from the first on.                  *)
Chain(h, S, r) ==
  /\ First \in S /\ S \subseteq DOMAIN h /\ h[First].prev = NULL
  /\ \A a \in S : h[a].next # NULL =>
       /\ h[a].next \in S
       /\ h[h[a].next].prev = a
       /\ r[h[a].next] < r[a]
  /\ \A a \in S \ {First} : h[a].prev \in S /\ h[h[a].prev].next = a

Falls(h, r) ==
  /\ First \in DOMAIN h
  /\ \A a \in DOMAIN h :
       /\ h[a].next # NULL => h[a].next \in DOMAIN h /\ r[h[a].next] < r[a]
       /\ h[a].prev # NULL => h[a].prev \in DOMAIN h /\ r[a] < r[h[a].prev]

Numberings == [Nat -> Nat]

Chained ==
  spoilt \subseteq {"written anew"} /\ DOMAIN header # {} =>
    \E S \in SUBSET DOMAIN header, r \in Numberings : Chain(header, S, r)

Falling ==
  spoilt \subseteq {"merged away"} /\ DOMAIN header # {} =>
    \E r \in Numberings : Falls(header, r)

LinkInv == Inv /\ Chained /\ Falling

-----------------------------------------------------------------------------
(* A walk is the least set of addresses that is closed under its steps.    *)
LEMMA WalkClosed ==
  ASSUME NEW S \in SUBSET DOMAIN header
  PROVE  /\ First \in Walk(S)
         /\ \A b \in Walk(S) \cap S : header[b].next \in Walk(S)
<1>1. First \in Walk(S)
  BY DEF Walk, Walked, Links
<1>2. ASSUME NEW b \in Walk(S) \cap S
      PROVE  header[b].next \in Walk(S)
  <2>1. header[b].next \in Links
    BY DEF Links
  <2>2. ASSUME NEW W \in SUBSET Links, Walked(S, W)
        PROVE  header[b].next \in W
    BY <2>2 DEF Walk, Walked
  <2> QED BY <2>1, <2>2 DEF Walk
<1> QED BY <1>1, <1>2

LEMMA WalkLeast ==
  ASSUME NEW S \in SUBSET DOMAIN header, NEW W, Walked(S, W)
  PROVE  Walk(S) \subseteq W
<1>1. Walked(S, W \cap Links)
  BY DEF Walked, Links
<1>2. W \cap Links \in SUBSET Links
  OBVIOUS
<1> QED BY <1>1, <1>2 DEF Walk

LEMMA NullIsNoHeader ==
  ASSUME Sound(header)
  PROVE  NULL \notin DOMAIN header /\ First # NULL
BY Sizing DEF Sound, SoundHeader

(* find_block's walk is a part of the walk along the whole list, and stops *)
(* at the first header or at the one behind it.                            *)
LEMMA FitInWalk ==
  ASSUME Sound(header), NEW x
  PROVE  Fit(x) \in Walk(DOMAIN header)
<1>1. TooSmall(x) \in SUBSET DOMAIN header
  BY DEF TooSmall
<1>2. Walk(TooSmall(x)) \subseteq Walk(DOMAIN header)
  BY <1>1, WalkClosed, WalkLeast DEF Walked
<1>3. \E b \in Walk(TooSmall(x)) : b \notin TooSmall(x)
  <2>1. CASE First \notin TooSmall(x)
    BY <1>1, <2>1, WalkClosed
  <2>2. CASE First \in TooSmall(x)
    <3>1. header[First].next \in Walk(TooSmall(x))
      BY <1>1, <2>2, WalkClosed
    <3>2. header[First].next # First
      BY <1>1, <2>2 DEF Sound, SoundHeader
    <3>3. header[First].next \notin TooSmall(x)
      BY <3>2 DEF TooSmall, Sound, SoundHeader
    <3> QED BY <3>1, <3>3
  <2> QED BY <2>1, <2>2
<1>4. Fit(x) \in Walk(TooSmall(x))
  BY <1>3 DEF Fit
<1> QED BY <1>2, <1>4

(* The list itself is the least such chain.                                *)
LEMMA ListIsChain ==
  ASSUME Sound(header), NEW S, NEW r, Chain(header, S, r)
  PROVE  Chain(header, Listed, r)
<1>1. NULL \notin DOMAIN header /\ First # NULL
  BY NullIsNoHeader
<1>2. Listed \subseteq S
  <2>1. Walked(DOMAIN header, S \cup {NULL})
    BY <1>1 DEF Walked, Chain
  <2> QED BY <2>1, WalkLeast DEF Listed
<1>3. First \in Listed
  BY <1>1, WalkClosed DEF Listed
<1>4. ASSUME NEW a \in Listed, header[a].next # NULL
      PROVE  header[a].next \in Listed
  BY <1>2, <1>4, WalkClosed DEF Listed, Chain
<1>5. ASSUME NEW a \in Listed \ {First}, header[a].prev \notin Listed
      PROVE  FALSE
  <2> DEFINE W == Walk(DOMAIN header) \ {a}
  <2>1. First \in W
    BY WalkClosed
  <2>2. ASSUME NEW b \in W \cap DOMAIN header
        PROVE  header[b].next \in W
    <3>1. header[b].next \in Walk(DOMAIN header) /\ b \in Listed
      BY <1>1, WalkClosed DEF Listed
    <3>2. header[b].next # a
      BY <1>2, <1>5, <3>1 DEF Chain, Listed
    <3> QED BY <3>1, <3>2
  <2>3. Walked(DOMAIN header, W)
    BY <2>1, <2>2 DEF Walked
  <2> QED BY <2>3, WalkLeast DEF Listed
<1> QED BY <1>2, <1>3, <1>4, <1>5 DEF Chain

-----------------------------------------------------------------------------
LEMMA LeastBy ==
  ASSUME NEW R, IsWellFoundedOn(R, Nat),
         \A m, k \in Nat : k < m => <<k, m>> \in R,
         NEW T \in SUBSET Nat, T # {}
  PROVE  \E m \in T : \A k \in T : m <= k
<1>1. PICK m \in T : \A k \in T : ~ (<<k, m>> \in R)
  BY WFMin
<1>2. ASSUME NEW k \in T
      PROVE  m <= k
  <2>1. k \in Nat /\ m \in Nat
    OBVIOUS
  <2>2. ~ (k < m)
    BY <1>1, <2>1
  <2> QED BY <2>1, <2>2
<1> QED BY <1>2

LEMMA SomeLeast ==
  ASSUME NEW T \in SUBSET Nat, T # {}
  PROVE  \E m \in T : \A k \in T : m <= k
<1>1. \A m, k \in Nat : k < m => <<k, m>> \in OpToRel(<, Nat)
  BY DEF OpToRel
<1>2. IsWellFoundedOn(OpToRel(<, Nat), Nat)
  BY NatLessThanWellFounded
<1> QED BY <1>1, <1>2, LeastBy

(* A walk that goes down all the way comes to NULL.                        *)
LEMMA FallsToNull ==
  ASSUME Sound(header), NEW r \in Numberings, Listed \subseteq DOMAIN header,
         \A a \in Listed : header[a].next # NULL => r[header[a].next] < r[a]
  PROVE  NULL \in Walk(DOMAIN header)
<1> DEFINE T == {r[a] : a \in Listed}
<1>1. First \in Listed
  BY NullIsNoHeader, WalkClosed DEF Listed
<1>2. \A a \in Listed : a \in Nat /\ header[a].next \in Nat /\ r[a] \in Nat
  BY FieldTypes DEF Numberings
<1>3. T \in SUBSET Nat /\ T # {}
  BY <1>1, <1>2
<1>4. PICK m \in T : \A k \in T : m <= k
  BY <1>3, SomeLeast
<1>5. PICK a \in Listed : m = r[a]
  BY <1>4
<1>6. header[a].next \in Walk(DOMAIN header)
  BY WalkClosed DEF Listed
<1>7. CASE header[a].next # NULL
  <2>1. header[a].next \in Listed
    BY <1>6, <1>7 DEF Listed
  <2>2. m <= r[header[a].next]
    BY <1>4, <2>1
  <2>3. r[header[a].next] \in Nat /\ r[a] \in Nat
    BY <1>2, <2>1
  <2> QED BY <1>5, <1>7, <2>2, <2>3
<1> QED BY <1>6, <1>7

LEMMA LinkInvGives == LinkInv => ListLinked /\ ListEnds
<1> SUFFICES ASSUME LinkInv, DOMAIN header # {}
             PROVE  ListLinked /\ ListEnds
  BY DEF ListLinked, ListEnds
<1>1. Sound(header)
  BY DEF LinkInv, Inv
<1>2. CASE spoilt \subseteq {"written anew"}
  <2>1. PICK r \in Numberings : Chain(header, Listed, r)
    BY <1>1, <1>2, ListIsChain DEF LinkInv, Chained
  <2>2. ListLinked
    BY <2>1 DEF ListLinked, Chain
  <2>3. NULL \in Walk(DOMAIN header)
    BY <1>1, <2>1, FallsToNull DEF Chain
  <2> QED BY <2>2, <2>3 DEF ListEnds
<1>3. CASE spoilt \subseteq {"merged away"}
  <2>1. PICK r \in Numberings : Falls(header, r)
    BY <1>3 DEF LinkInv, Falling
  <2>2. Walked(DOMAIN header, (DOMAIN header) \cup {NULL})
    BY <1>1, <2>1, NullIsNoHeader DEF Walked, Falls
  <2>3. Listed \subseteq DOMAIN header
    BY <2>2, WalkLeast DEF Listed
  <2>4. NULL \in Walk(DOMAIN header)
    BY <1>1, <2>1, <2>3, FallsToNull DEF Falls
  <2>5. spoilt \subseteq {"written anew"} => ListLinked
    BY <1>2
  <2> QED BY <2>4, <2>5 DEF ListEnds, ListLinked
<1>4. CASE /\ ~ (spoilt \subseteq {"written anew"})
           /\ ~ (spoilt \subseteq {"merged away"})
  <2>1. spoilt \subseteq {"written over", "written anew", "merged away"}
    BY DEF LinkInv, Inv, TypeOK
  <2> QED BY <1>4, <2>1 DEF ListLinked, ListEnds
<1> QED BY <1>2, <1>3, <1>4

-----------------------------------------------------------------------------
(* Headers that differ in sizes and marks only.                            *)
LEMMA LinksAgree ==
  ASSUME NEW h, NEW g, DOMAIN g = DOMAIN h,
         \A c \in DOMAIN h : g[c].next = h[c].next /\ g[c].prev = h[c].prev,
         NEW S, NEW r
  PROVE  /\ Chain(h, S, r) => Chain(g, S, r)
         /\ Falls(h, r) => Falls(g, r)
<1>1. Chain(h, S, r) => Chain(g, S, r)
  <2> SUFFICES ASSUME Chain(h, S, r) PROVE Chain(g, S, r)
    OBVIOUS
  <2>1. First \in S /\ S \subseteq DOMAIN g /\ g[First].prev = NULL
    BY DEF Chain
  <2>2. ASSUME NEW a \in S, g[a].next # NULL
        PROVE  /\ g[a].next \in S /\ g[g[a].next].prev = a
               /\ r[g[a].next] < r[a]
    BY <2>2 DEF Chain
  <2>3. ASSUME NEW a \in S \ {First}
        PROVE  g[a].prev \in S /\ g[g[a].prev].next = a
    BY <2>3 DEF Chain
  <2> QED BY <2>1, <2>2, <2>3 DEF Chain
<1>2. Falls(h, r) => Falls(g, r)
  BY DEF Falls
<1> QED BY <1>1, <1>2

(* The header at a goes out of the list when its neighbours are joined.    *)
LEMMA UnlinkChain ==
  ASSUME NEW h, NEW g, NEW S, NEW r, Chain(h, S, r),
         \A c \in DOMAIN h : r[c] \in Nat, NULL \notin DOMAIN h,
         NEW a \in S, a # First, h[a].next # NULL,
         \A c \in DOMAIN h : h[c].next # First,
         Joined(h, g, h[a].prev, h[a].next)
  PROVE  Chain(g, S \ {a}, r)
<1> DEFINE b == h[a].prev
           t == h[a].next
<1>1. /\ b \in S /\ h[b].next = a /\ r[a] < r[b]
      /\ t \in S /\ h[t].prev = a /\ r[t] < r[a]
      /\ S \subseteq DOMAIN h /\ t # First
      /\ a \in DOMAIN h /\ b \in DOMAIN h /\ t \in DOMAIN h
  <2>1. a \in DOMAIN h
    BY DEF Chain
  <2>2. a # NULL
    BY <2>1
  <2>3. b \in S /\ h[b].next = a
    BY DEF Chain
  <2>4. r[a] < r[b]
    BY <2>2, <2>3 DEF Chain
  <2> QED BY <2>1, <2>3, <2>4 DEF Chain
<1>2. r[a] \in Nat /\ r[b] \in Nat /\ r[t] \in Nat
  BY <1>1
<1>3. a # b /\ a # t /\ b # t /\ r[t] < r[b]
  BY <1>1, <1>2
<1>4. \A c \in DOMAIN h :
        /\ g[c].next = IF c = b THEN t ELSE h[c].next
        /\ g[c].prev = IF c = t THEN b ELSE h[c].prev
  BY DEF Joined
<1> HIDE DEF b, t
<1>5. First \in S \ {a} /\ S \ {a} \subseteq DOMAIN g /\ g[First].prev = NULL
  BY <1>1, <1>4 DEF Chain, Joined
<1>6. ASSUME NEW c \in S \ {a}, g[c].next # NULL
      PROVE  /\ g[c].next \in S \ {a} /\ g[g[c].next].prev = c
             /\ r[g[c].next] < r[c]
  <2>1. CASE c = b
    BY <1>1, <1>3, <1>4, <2>1
  <2>2. CASE c # b
    <3>1. g[c].next = h[c].next
      BY <1>1, <1>4, <2>2
    <3>2. /\ h[c].next \in S /\ h[h[c].next].prev = c
          /\ r[h[c].next] < r[c]
      BY <1>6, <3>1 DEF Chain
    <3>3. h[c].next # a /\ h[c].next # t
      BY <1>1, <2>2, <3>2 DEF b
    <3>4. g[h[c].next].prev = c
      BY <1>1, <1>4, <3>2, <3>3
    <3> QED BY <3>1, <3>2, <3>3, <3>4
  <2> QED BY <2>1, <2>2
<1>7. ASSUME NEW c \in (S \ {a}) \ {First}
      PROVE  g[c].prev \in S \ {a} /\ g[g[c].prev].next = c
  <2>1. CASE c = t
    BY <1>1, <1>3, <1>4, <2>1
  <2>2. CASE c # t
    <3>1. g[c].prev = h[c].prev
      BY <1>1, <1>4, <2>2
    <3>2. h[c].prev \in S /\ h[h[c].prev].next = c
      BY <1>7 DEF Chain
    <3>3. h[c].prev # a /\ h[c].prev # b
      BY <1>1, <2>2, <3>2 DEF t
    <3> QED BY <1>1, <1>4, <3>1, <3>2, <3>3
  <2> QED BY <2>1, <2>2
<1> QED BY <1>5, <1>6, <1>7 DEF Chain

LEMMA ChainGoesOn ==
  ASSUME NEW h, NEW S, NEW r, Chain(h, S, r),
         \A c \in DOMAIN h : r[c] \in Nat,
         NEW a \in S, h[a].next # NULL
  PROVE  h[a].next # a
<1>1. r[h[a].next] < r[a] /\ r[a] \in Nat
  BY DEF Chain
<1> QED BY <1>1

LEMMA FallsOn ==
  ASSUME NEW h, NEW r, Falls(h, r), \A c \in DOMAIN h : r[c] \in Nat,
         NEW a \in DOMAIN h, h[a].next # NULL
  PROVE  h[a].next # a
<1>1. r[h[a].next] < r[a] /\ r[a] \in Nat
  BY DEF Falls
<1> QED BY <1>1

(* Numbers rise by two steps back, and across a header.                    *)
LEMMA FallsPast ==
  ASSUME NEW h, NEW r, Falls(h, r), NULL \notin DOMAIN h,
         \A c \in DOMAIN h : r[c] \in Nat,
         NEW t \in DOMAIN h, h[t].prev \in DOMAIN h,
         h[h[t].prev].prev \in DOMAIN h
  PROVE  r[t] < r[h[h[t].prev].prev]
<1> DEFINE a == h[t].prev
           b == h[a].prev
<1>1. r[t] < r[a] /\ r[a] < r[b]
  BY DEF Falls
<1>2. r[t] \in Nat /\ r[a] \in Nat /\ r[b] \in Nat
  OBVIOUS
<1> HIDE DEF a, b
<1>3. r[t] < r[b]
  BY <1>1, <1>2
<1> QED BY <1>3 DEF a, b

LEMMA FallsAcross ==
  ASSUME NEW h, NEW r, Falls(h, r), NULL \notin DOMAIN h,
         \A c \in DOMAIN h : r[c] \in Nat,
         NEW t \in DOMAIN h, h[t].prev \in DOMAIN h, h[t].next \in DOMAIN h
  PROVE  r[h[t].next] < r[h[t].prev]
<1> DEFINE n == h[t].next
           b == h[t].prev
<1>1. r[n] < r[t] /\ r[t] < r[b]
  BY DEF Falls
<1>2. r[t] \in Nat /\ r[n] \in Nat /\ r[b] \in Nat
  OBVIOUS
<1> HIDE DEF n, b
<1>3. r[n] < r[b]
  BY <1>1, <1>2
<1> QED BY <1>3 DEF n, b

(* What is joined may be any two headers that are numbered in this order.  *)
LEMMA JoinFalls ==
  ASSUME NEW h, NEW g, NEW r, Falls(h, r),
         NEW b \in DOMAIN h, NEW t \in DOMAIN h, r[t] < r[b],
         Joined(h, g, b, t)
  PROVE  Falls(g, r)
<1>1. ASSUME NEW c \in DOMAIN h, g[c].next # NULL
      PROVE  g[c].next \in DOMAIN h /\ r[g[c].next] < r[c]
  BY <1>1 DEF Falls, Joined
<1>2. ASSUME NEW c \in DOMAIN h, g[c].prev # NULL
      PROVE  g[c].prev \in DOMAIN h /\ r[c] < r[g[c].prev]
  BY <1>2 DEF Falls, Joined
<1> QED BY <1>1, <1>2 DEF Falls, Joined

-----------------------------------------------------------------------------
(* The header a free goes through is in the list, so it is the one before  *)
(* the block that is freed: at most these two go out of the list.          *)
LEMMA FreeChained ==
  ASSUME LinkInv, NEW block \in live, Free(block), Freeable(block[2]),
         spoilt' \subseteq {"written anew"}, DOMAIN header # {}
  PROVE  \E S \in SUBSET DOMAIN header', r \in Numberings :
           Chain(header', S, r)
<1> DEFINE before == block[2] - HEADER
           target == header[before].next
           prev   == header[target].prev
           marked == [header EXCEPT ![target].p_type = "UNASSIGNED"]
           h1     == MergePrev(marked, target)
<1>1. before \in Listed /\ spoilt \subseteq {"written anew"}
  <2>1. spoilt' = IF before \in Listed THEN spoilt
                  ELSE spoilt \cup {"merged away"}
    BY DEF Free
  <2>2. "merged away" \notin spoilt'
    OBVIOUS
  <2> QED BY <2>1, <2>2
<1>2. Sound(header)
  BY DEF LinkInv, Inv
<1>3. PICK r \in Numberings : Chain(header, Listed, r)
  BY <1>1, <1>2, ListIsChain DEF LinkInv, Chained
<1>4. /\ before \in DOMAIN header
      /\ target \in DOMAIN header /\ target # First
      /\ Sound(marked) /\ DOMAIN marked = DOMAIN header
      /\ \A c \in DOMAIN header : /\ marked[c].prev = header[c].prev
                                  /\ marked[c].next = header[c].next
      /\ Sound(h1) /\ DOMAIN h1 = DOMAIN header
      /\ \/ h1 = marked
         \/ /\ prev \in DOMAIN header /\ prev # First
            /\ header[prev].prev \in DOMAIN header
            /\ Joined(marked, h1, header[prev].prev, target)
      /\ Sound(header')
      /\ \/ header' = h1
         \/ /\ h1[target].next \in DOMAIN header
            /\ h1[target].prev \in DOMAIN header
            /\ Joined(h1, header', h1[target].prev, h1[target].next)
  BY FreeMerges DEF LinkInv
<1>5. /\ NULL \notin DOMAIN header
      /\ \A c \in DOMAIN header : c \in Nat /\ r[c] \in Nat
  BY <1>2, <1>3, NullIsNoHeader, FieldTypes DEF Numberings
<1> HIDE DEF before, target, marked, h1
<1>6. target \in Listed /\ prev = before /\ target # before
      /\ header[before].next = target
  <2>1. header[before].next = target
    BY DEF target
  <2>2. target # NULL
    BY <1>4, <1>5
  <2>3. target \in Listed /\ prev = before
    BY <1>1, <1>3, <2>1, <2>2 DEF Chain
  <2>4. target # before
    BY <1>1, <1>3, <1>4, <1>5, <2>1, <2>2, ChainGoesOn
  <2> QED BY <2>1, <2>3, <2>4
<1>7. Chain(marked, Listed, r)
  BY <1>3, <1>4, LinksAgree
<1>8. \E S \in SUBSET Listed : Chain(h1, S, r) /\ target \in S
  <2>1. CASE h1 = marked
    BY <1>6, <1>7, <2>1
  <2>2. CASE h1 # marked
    <3>1. Joined(marked, h1, marked[before].prev, marked[before].next)
      BY <1>4, <1>6, <2>2
    <3>2. \A c \in DOMAIN marked : marked[c].next # First /\ r[c] \in Nat
      BY <1>4, <1>5, FieldTypes
    <3>3. before # First /\ marked[before].next # NULL
      BY <1>4, <1>5, <1>6, <2>2
    <3>4. Chain(h1, Listed \ {before}, r)
      BY <1>1, <1>4, <1>5, <1>7, <3>1, <3>2, <3>3, UnlinkChain
    <3> QED BY <1>6, <3>4
  <2> QED BY <2>1, <2>2
<1>9. PICK S \in SUBSET Listed : Chain(h1, S, r) /\ target \in S
  BY <1>8
<1>10. \E U \in SUBSET S : Chain(header', U, r)
  <2>1. CASE header' = h1
    BY <1>9, <2>1
  <2>2. CASE header' # h1
    <3>1. \A c \in DOMAIN h1 : h1[c].next # First /\ r[c] \in Nat
      BY <1>4, <1>5, FieldTypes
    <3>2. h1[target].next # NULL /\ NULL \notin DOMAIN h1
      BY <1>4, <1>5, <2>2
    <3>3. Joined(h1, header', h1[target].prev, h1[target].next)
      BY <1>4, <2>2
    <3>4. Chain(header', S \ {target}, r)
      BY <1>4, <1>9, <3>1, <3>2, <3>3, UnlinkChain
    <3> QED BY <3>4
  <2> QED BY <2>1, <2>2
<1>11. PICK U \in SUBSET S : Chain(header', U, r)
  BY <1>10
<1>12. U \in SUBSET DOMAIN header'
  BY <1>11 DEF Chain
<1> QED BY <1>11, <1>12

LEMMA FreeFalling ==
  ASSUME LinkInv, NEW block \in live, Free(block), Freeable(block[2]),
         spoilt' \subseteq {"merged away"}, DOMAIN header # {}
  PROVE  \E r \in Numberings : Falls(header', r)
<1> DEFINE before == block[2] - HEADER
           target == header[before].next
           prev   == header[target].prev
           marked == [header EXCEPT ![target].p_type = "UNASSIGNED"]
           h1     == MergePrev(marked, target)
<1>1. spoilt \subseteq {"merged away"}
  BY DEF Free
<1>2. Sound(header)
  BY DEF LinkInv, Inv
<1>3. PICK r \in Numberings : Falls(header, r)
  BY <1>1 DEF LinkInv, Falling
<1>4. /\ target \in DOMAIN header
      /\ DOMAIN marked = DOMAIN header
      /\ \A c \in DOMAIN header : /\ marked[c].prev = header[c].prev
                                  /\ marked[c].next = header[c].next
      /\ DOMAIN h1 = DOMAIN header
      /\ \/ h1 = marked
         \/ /\ prev \in DOMAIN header
            /\ header[prev].prev \in DOMAIN header
            /\ Joined(marked, h1, header[prev].prev, target)
      /\ \/ header' = h1
         \/ /\ h1[target].next \in DOMAIN header
            /\ h1[target].prev \in DOMAIN header
            /\ Joined(h1, header', h1[target].prev, h1[target].next)
  BY FreeMerges DEF LinkInv
<1>5. /\ NULL \notin DOMAIN header
      /\ \A c \in DOMAIN header : r[c] \in Nat
  BY <1>2, <1>3, NullIsNoHeader, FieldTypes DEF Numberings
<1> HIDE DEF before, target, marked, h1
<1>6. Falls(marked, r)
  BY <1>3, <1>4, LinksAgree
<1>7. Falls(h1, r)
  <2>1. CASE h1 = marked
    BY <1>6, <2>1
  <2>2. CASE h1 # marked
    <3>1. prev \in DOMAIN header /\ header[prev].prev \in DOMAIN header
      BY <1>4, <2>2
    <3>2. r[target] < r[header[prev].prev]
      BY <1>3, <1>4, <1>5, <3>1, FallsPast
    <3> QED BY <1>4, <1>6, <2>2, <3>1, <3>2, JoinFalls
  <2> QED BY <2>1, <2>2
<1>8. Falls(header', r)
  <2>1. CASE header' = h1
    BY <1>7, <2>1
  <2>2. CASE header' # h1
    <3> DEFINE b == h1[target].prev
               n == h1[target].next
    <3>1. b \in DOMAIN h1 /\ n \in DOMAIN h1 /\ target \in DOMAIN h1
      BY <1>4, <2>2
    <3>2. r[n] < r[b]
      BY <1>4, <1>5, <1>7, <3>1, FallsAcross
    <3> HIDE DEF b, n
    <3>3. Joined(h1, header', b, n)
      BY <1>4, <2>2 DEF b, n
    <3> QED BY <1>7, <3>1, <3>2, <3>3, JoinFalls
  <2> QED BY <2>1, <2>2
<1> QED BY <1>8

-----------------------------------------------------------------------------
LEMMA FirstBlockLinks ==
  ASSUME NEW x \in Sizes
  PROVE  /\ \E S \in SUBSET DOMAIN FirstBlock(x), r \in Numberings :
              Chain(FirstBlock(x), S, r)
         /\ \E r \in Numberings : Falls(FirstBlock(x), r)
<1> DEFINE second == First + HEADER + x
           h      == FirstBlock(x)
           r      == [a \in Nat |-> IF a = First THEN 1 ELSE 0]
<1>1. /\ First \in Nat /\ second \in Nat /\ second # First
      /\ First # NULL /\ second # NULL
  BY Sizing
<1> HIDE DEF second
<1>2. /\ DOMAIN h = {First, second}
      /\ h[First].prev = NULL /\ h[First].next = second
      /\ h[second].prev = First /\ h[second].next = NULL
  BY <1>1 DEF FirstBlock, second
<1>3. r \in Numberings /\ r[First] = 1 /\ r[second] = 0
  BY <1>1 DEF Numberings
<1> HIDE DEF h, r
<1>4. Chain(h, {First, second}, r)
  BY <1>1, <1>2, <1>3 DEF Chain
<1>5. Falls(h, r)
  BY <1>1, <1>2, <1>3 DEF Falls
<1> QED BY <1>2, <1>3, <1>4, <1>5 DEF h

(* g is h with a header at a between that of b and the one behind it.      *)
Inserted(h, g, a, b) ==
  /\ DOMAIN g = (DOMAIN h) \cup {a}
  /\ \A c \in DOMAIN g :
       /\ g[c].next = IF c = b THEN a ELSE IF c = a THEN h[b].next
                      ELSE h[c].next
       /\ g[c].prev = IF c = h[b].next THEN a ELSE IF c = a THEN b
                      ELSE h[c].prev

LEMMA SplitInserts ==
  ASSUME Inv, NEW x \in Sizes, NEW b \in DOMAIN header,
         header[b].next \in DOMAIN header, header[b].next # b,
         Torn(header, Behind(b, x)) = {}
  PROVE  LET a == Behind(b, x) IN
         /\ a \in Nat /\ a # NULL /\ a # First
         /\ a # header[b].next => Inserted(header, Split(b, x), a, b)
<1> DEFINE a      == Behind(b, x)
           n      == header[b].next
           r      == NewHeader(b, x)
           added  == Write(header, a, r)
           linked == LinkBack(added, n, a)
           g      == LinkOn(linked, b, a)
<1>1. /\ b \in Nat /\ b >= First /\ n \in Nat
      /\ x \in Nat /\ x >= 1 /\ HEADER \in Nat /\ HEADER >= 1
      /\ First \in Nat /\ NULL = 0
  BY FieldTypes, Sizing DEF Inv
<1>2. a \in Nat /\ a # b /\ a # NULL /\ a # First
  BY <1>1 DEF Behind
<1>3. r \in Header /\ r.next = n /\ r.prev = b
  BY <1>1 DEF NewHeader, HeaderBehind, Header
<1>4. \A c \in DOMAIN header : header[c] \in Header
  BY DEF Inv, Sound, SoundHeader
<1>5. Split(b, x) = g
  BY DEF Split
<1> HIDE DEF a, r
<1>6. /\ DOMAIN added = (DOMAIN header) \cup {a}
      /\ \A c \in DOMAIN added : added[c] = IF c = a THEN r ELSE header[c]
  BY DEF Write, a
<1>7. \A c \in DOMAIN added : added[c] \in Header
  BY <1>3, <1>4, <1>6
<1> HIDE DEF added
<1>8. linked = [added EXCEPT ![n].prev = a]
  BY <1>6 DEF LinkBack
<1>9. /\ DOMAIN g = (DOMAIN header) \cup {a}
      /\ \A c \in DOMAIN g :
           g[c] = IF c = b THEN [linked[c] EXCEPT !.next = a] ELSE linked[c]
  BY <1>6, <1>8 DEF LinkOn
<1> HIDE DEF g, linked
<1>10. ASSUME NEW c \in DOMAIN g
       PROVE  /\ linked[c] \in Header
              /\ linked[c].next = added[c].next
              /\ linked[c].prev = IF c = n THEN a ELSE added[c].prev
  BY <1>2, <1>6, <1>7, <1>8, <1>9 DEF Header
<1>11. ASSUME NEW c \in DOMAIN g
       PROVE  /\ g[c].next = IF c = b THEN a ELSE added[c].next
              /\ g[c].prev = IF c = n THEN a ELSE added[c].prev
  BY <1>9, <1>10 DEF Header
<1>12. ASSUME a # n, NEW c \in DOMAIN g
       PROVE  /\ g[c].next = IF c = b THEN a ELSE IF c = a THEN n
                             ELSE header[c].next
              /\ g[c].prev = IF c = n THEN a ELSE IF c = a THEN b
                             ELSE header[c].prev
  <2>1. /\ added[c].next = IF c = a THEN n ELSE header[c].next
        /\ added[c].prev = IF c = a THEN b ELSE header[c].prev
    BY <1>3, <1>6, <1>9
  <2> HIDE DEF n
  <2> QED BY <1>2, <1>11, <1>12, <2>1
<1>13. a # n => Inserted(header, g, a, b)
  BY <1>9, <1>12 DEF Inserted
<1> QED BY <1>2, <1>5, <1>13 DEF a

(* The numbers are spread to make room for one more.                       *)
Spread(r, a, b) ==
  [c \in Nat |-> IF c = a THEN 2 * r[b] - 1 ELSE 2 * r[c]]

LEMMA SpreadOrder ==
  ASSUME NEW r \in Numberings, NEW a \in Nat, NEW b \in Nat, NEW n \in Nat,
         a # b, a # n, r[n] < r[b]
  PROVE  LET d == Spread(r, a, b) IN
         /\ d \in Numberings
         /\ d[n] < d[a] /\ d[a] < d[b]
         /\ \A c, e \in Nat : c # a /\ e # a /\ r[e] < r[c] => d[e] < d[c]
<1> DEFINE d == Spread(r, a, b)
<1>1. r[n] \in Nat /\ r[b] \in Nat /\ \A c \in Nat : r[c] \in Nat
  BY DEF Numberings
<1>2. 2 * r[b] - 1 \in Nat
  BY <1>1
<1>3. \A c \in Nat : d[c] = IF c = a THEN 2 * r[b] - 1 ELSE 2 * r[c]
  BY DEF Spread
<1>4. \A c \in Nat : d[c] \in Nat
  BY <1>1, <1>2, <1>3
<1>5. d \in Numberings
  BY <1>4 DEF Spread, Numberings
<1> HIDE DEF d
<1>6. d[n] < d[a] /\ d[a] < d[b]
  BY <1>1, <1>3
<1>7. \A c, e \in Nat : c # a /\ e # a /\ r[e] < r[c] => d[e] < d[c]
  BY <1>1, <1>3
<1> QED BY <1>5, <1>6, <1>7 DEF d

LEMMA InsertChain ==
  ASSUME NEW h, NEW g, NEW S, NEW r \in Numberings, Chain(h, S, r),
         NULL \notin DOMAIN h, \A c \in DOMAIN h : c \in Nat,
         \A c \in DOMAIN h : h[c].next # First,
         NEW b \in S, h[b].next # NULL,
         NEW a \in Nat, a \notin S, a # NULL,
         Inserted(h, g, a, b)
  PROVE  Chain(g, S \cup {a}, Spread(r, a, b)) /\ Spread(r, a, b) \in Numberings
<1> DEFINE n == h[b].next
           d == Spread(r, a, b)
<1>1. /\ b \in DOMAIN h /\ n \in DOMAIN h /\ n \in S
      /\ r[n] < r[b] /\ a # b /\ a # n /\ n # First /\ h[n].prev = b
      /\ First \in S /\ S \subseteq DOMAIN h /\ h[First].prev = NULL
  BY DEF Chain
<1>2. /\ d \in Numberings
      /\ d[n] < d[a] /\ d[a] < d[b]
      /\ \A c, e \in Nat : c # a /\ e # a /\ r[e] < r[c] => d[e] < d[c]
  BY <1>1, SpreadOrder
<1>3. \A c \in DOMAIN g :
        /\ g[c].next = IF c = b THEN a ELSE IF c = a THEN n ELSE h[c].next
        /\ g[c].prev = IF c = n THEN a ELSE IF c = a THEN b ELSE h[c].prev
  BY DEF Inserted
<1>4. S \cup {a} \subseteq DOMAIN g
  BY <1>1 DEF Inserted
<1> HIDE DEF d, n
<1>5. g[First].prev = NULL
  BY <1>1, <1>3, <1>4
<1>6. ASSUME NEW c \in S \cup {a}, g[c].next # NULL
      PROVE  /\ g[c].next \in S \cup {a} /\ g[g[c].next].prev = c
             /\ d[g[c].next] < d[c]
  <2>1. CASE c = b
    BY <1>1, <1>2, <1>3, <1>4, <2>1
  <2>2. CASE c = a
    BY <1>1, <1>2, <1>3, <1>4, <2>2
  <2>3. CASE c # a /\ c # b
    <3>1. g[c].next = h[c].next /\ c \in S
      BY <1>3, <1>4, <2>3
    <3>2. h[c].next \in S /\ h[h[c].next].prev = c /\ r[h[c].next] < r[c]
      BY <1>6, <3>1 DEF Chain
    <3>3. h[c].next # n /\ h[c].next # a
      BY <1>1, <2>3, <3>2
    <3>4. g[h[c].next].prev = c
      BY <1>3, <1>4, <3>2, <3>3
    <3>5. d[h[c].next] < d[c]
      BY <1>1, <1>2, <2>3, <3>1, <3>2, <3>3
    <3> QED BY <3>1, <3>2, <3>4, <3>5
  <2> QED BY <2>1, <2>2, <2>3
<1>7. ASSUME NEW c \in (S \cup {a}) \ {First}
      PROVE  g[c].prev \in S \cup {a} /\ g[g[c].prev].next = c
  <2>1. CASE c = n
    BY <1>1, <1>3, <1>4, <2>1
  <2>2. CASE c = a
    BY <1>1, <1>3, <1>4, <2>2
  <2>3. CASE c # a /\ c # n
    <3>1. g[c].prev = h[c].prev /\ c \in S
      BY <1>3, <1>4, <2>3
    <3>2. h[c].prev \in S /\ h[h[c].prev].next = c
      BY <1>7, <3>1 DEF Chain
    <3>3. h[c].prev # b /\ h[c].prev # a
      BY <1>1, <2>3, <3>2 DEF n
    <3> QED BY <1>3, <1>4, <3>1, <3>2, <3>3
  <2> QED BY <2>1, <2>2, <2>3
<1>8. Chain(g, S \cup {a}, d)
  BY <1>1, <1>4, <1>5, <1>6, <1>7 DEF Chain
<1> QED BY <1>2, <1>8 DEF d

LEMMA InsertFalls ==
  ASSUME NEW h, NEW g, NEW r \in Numberings, Falls(h, r),
         NULL \notin DOMAIN h, \A c \in DOMAIN h : c \in Nat,
         NEW b \in DOMAIN h, h[b].next \in DOMAIN h,
         NEW a \in Nat, a \notin DOMAIN h, a # NULL,
         Inserted(h, g, a, b)
  PROVE  Falls(g, Spread(r, a, b)) /\ Spread(r, a, b) \in Numberings
<1> DEFINE n == h[b].next
           d == Spread(r, a, b)
<1>1. n \in DOMAIN h /\ r[n] < r[b] /\ a # b /\ a # n
  BY DEF Falls
<1>2. /\ d \in Numberings
      /\ d[n] < d[a] /\ d[a] < d[b]
      /\ \A c, e \in Nat : c # a /\ e # a /\ r[e] < r[c] => d[e] < d[c]
  BY <1>1, SpreadOrder
<1>3. /\ DOMAIN g = (DOMAIN h) \cup {a}
      /\ \A c \in DOMAIN g :
           /\ g[c].next = IF c = b THEN a ELSE IF c = a THEN n ELSE h[c].next
           /\ g[c].prev = IF c = n THEN a ELSE IF c = a THEN b ELSE h[c].prev
  BY DEF Inserted
<1> HIDE DEF d, n
<1>4. ASSUME NEW c \in DOMAIN g, g[c].next # NULL
      PROVE  g[c].next \in DOMAIN g /\ d[g[c].next] < d[c]
  <2>1. CASE c = b \/ c = a
    BY <1>1, <1>2, <1>3, <2>1
  <2>2. CASE c # b /\ c # a
    <3>1. g[c].next = h[c].next /\ c \in DOMAIN h
      BY <1>3, <2>2
    <3>2. h[c].next \in DOMAIN h /\ r[h[c].next] < r[c]
      BY <1>4, <3>1 DEF Falls
    <3>3. h[c].next # a /\ h[c].next \in Nat /\ c \in Nat
      BY <3>1, <3>2
    <3> QED BY <1>2, <1>3, <2>2, <3>1, <3>2, <3>3
  <2> QED BY <2>1, <2>2
<1>5. ASSUME NEW c \in DOMAIN g, g[c].prev # NULL
      PROVE  g[c].prev \in DOMAIN g /\ d[c] < d[g[c].prev]
  <2>1. CASE c = n \/ c = a
    BY <1>1, <1>2, <1>3, <2>1
  <2>2. CASE c # n /\ c # a
    <3>1. g[c].prev = h[c].prev /\ c \in DOMAIN h
      BY <1>3, <2>2
    <3>2. h[c].prev \in DOMAIN h /\ r[c] < r[h[c].prev]
      BY <1>5, <3>1 DEF Falls
    <3>3. h[c].prev # a /\ h[c].prev \in Nat /\ c \in Nat
      BY <3>1, <3>2
    <3> QED BY <1>2, <1>3, <2>2, <3>1, <3>2, <3>3
  <2> QED BY <2>1, <2>2
<1>6. Falls(g, d)
  BY <1>3, <1>4, <1>5 DEF Falls
<1> QED BY <1>2, <1>6 DEF d

-----------------------------------------------------------------------------
(* myallocate puts a new header behind one that is in the list.            *)
LEMMA SplitLinks ==
  ASSUME LinkInv, NEW x \in Sizes, NEW b, b = Fit(x), Servable(x),
         header' = Split(b, x), DOMAIN header # {},
         spoilt' = spoilt \cup WritesOver(Behind(b, x))
  PROVE  Chained' /\ Falling'
<1> DEFINE a == Behind(b, x)
           n == header[b].next
<1>1. /\ Inv /\ Sound(header) /\ NULL \notin DOMAIN header
      /\ \A c \in DOMAIN header : c \in Nat /\ header[c].next # First
  BY NullIsNoHeader, FieldTypes DEF LinkInv, Inv
<1>2. b \in DOMAIN header /\ n # NULL
  BY <1>1 DEF Servable, IsHeader
<1>3. b \in Listed
  BY <1>1, <1>2, FitInWalk DEF Listed
<1> HIDE DEF a
<1>4. Chained'
  <2> SUFFICES ASSUME spoilt' \subseteq {"written anew"}
               PROVE  \E S \in SUBSET DOMAIN header', r \in Numberings :
                        Chain(header', S, r)
    BY DEF Chained
  <2>1. "written over" \notin WritesOver(a) /\ spoilt \subseteq {"written anew"}
    BY DEF a
  <2>2. Torn(header, a) = {} /\ a \notin Listed
    BY <2>1 DEF WritesOver
  <2>3. PICK r \in Numberings : Chain(header, Listed, r)
    BY <1>1, <2>1, ListIsChain DEF LinkInv, Chained
  <2>4. n \in Listed /\ n \in DOMAIN header /\ n # b
    <3>1. n \in Listed /\ n \in DOMAIN header
      BY <1>2, <1>3, <2>3 DEF Chain
    <3>2. \A c \in DOMAIN header : r[c] \in Nat
      BY <1>1, <2>3 DEF Numberings
    <3> QED BY <1>2, <1>3, <2>3, <3>1, <3>2, ChainGoesOn
  <2>5. a \in Nat /\ a # NULL /\ Inserted(header, header', a, b)
    BY <1>1, <1>2, <2>2, <2>4, SplitInserts DEF a
  <2>6. /\ Chain(header', Listed \cup {a}, Spread(r, a, b))
        /\ Spread(r, a, b) \in Numberings
    BY <1>1, <1>2, <1>3, <2>2, <2>3, <2>5, InsertChain
  <2>7. Listed \cup {a} \in SUBSET DOMAIN header'
    BY <2>6 DEF Chain
  <2> QED BY <2>6, <2>7
<1>5. Falling'
  <2> SUFFICES ASSUME spoilt' \subseteq {"merged away"}
               PROVE  \E r \in Numberings : Falls(header', r)
    BY DEF Falling
  <2>1. /\ "written over" \notin WritesOver(a)
        /\ "written anew" \notin WritesOver(a)
        /\ spoilt \subseteq {"merged away"}
    BY DEF a
  <2>2. Torn(header, a) = {} /\ a \notin DOMAIN header
    BY <2>1 DEF WritesOver, IsHeader
  <2>3. PICK r \in Numberings : Falls(header, r)
    BY <2>1 DEF LinkInv, Falling
  <2>4. n \in DOMAIN header /\ n # b
    <3>1. \A c \in DOMAIN header : r[c] \in Nat
      BY <1>1, <2>3 DEF Numberings
    <3>2. n \in DOMAIN header
      BY <1>2, <2>3 DEF Falls
    <3> QED BY <1>2, <2>3, <3>1, <3>2, FallsOn
  <2>5. a \in Nat /\ a # NULL /\ Inserted(header, header', a, b)
    BY <1>1, <1>2, <2>2, <2>4, SplitInserts DEF a
  <2>6. Falls(header', Spread(r, a, b)) /\ Spread(r, a, b) \in Numberings
    BY <1>1, <1>2, <2>2, <2>3, <2>4, <2>5, InsertFalls
  <2> QED BY <2>6
<1> QED BY <1>4, <1>5

LEMMA AgreeLinks ==
  ASSUME LinkInv, DOMAIN header' = DOMAIN header, spoilt' = spoilt,
         \A c \in DOMAIN header : /\ header'[c].next = header[c].next
                                  /\ header'[c].prev = header[c].prev
  PROVE  Chained' /\ Falling'
BY LinksAgree DEF LinkInv, Chained, Falling

LEMMA MallocLinks ==
  ASSUME LinkInv, NEW x \in Sizes, Malloc(x)
  PROVE  Chained' /\ Falling'
<1>1. CASE DOMAIN header = {}
  <2>1. header' = FirstBlock(x)
    BY <1>1 DEF Malloc
  <2> QED BY <2>1, FirstBlockLinks DEF Chained, Falling
<1>2. CASE DOMAIN header # {} /\ Servable(x) /\ Splits(Fit(x), x)
  <2>1. /\ header' = Split(Fit(x), x)
        /\ spoilt' = spoilt \cup WritesOver(Behind(Fit(x), x))
    BY <1>2 DEF Malloc
  <2> QED BY <1>2, <2>1, SplitLinks
<1>3. CASE DOMAIN header # {} /\ Servable(x) /\ ~ Splits(Fit(x), x)
  <2>1. header' = Charge(Fit(x), x) /\ spoilt' = spoilt
    BY <1>3 DEF Malloc
  <2>2. \A c \in DOMAIN header : header[c] \in Header
    BY DEF LinkInv, Inv, Sound, SoundHeader
  <2>3. DOMAIN header' = DOMAIN header
    BY <2>1 DEF Charge
  <2>4. \A c \in DOMAIN header : /\ header'[c].next = header[c].next
                                 /\ header'[c].prev = header[c].prev
    BY <2>1, <2>2 DEF Charge, Header
  <2> QED BY <2>1, <2>3, <2>4, AgreeLinks
<1>4. CASE DOMAIN header # {} /\ ~ Servable(x)
  <2>1. header' = header /\ spoilt' = spoilt
    BY <1>4 DEF Malloc
  <2> QED BY <2>1, AgreeLinks
<1> QED BY <1>1, <1>2, <1>3, <1>4

LEMMA FreeLinks ==
  ASSUME LinkInv, NEW block \in live, Free(block)
  PROVE  Chained' /\ Falling'
<1>1. CASE ~ Freeable(block[2])
  <2>1. header' = header /\ spoilt' = spoilt
    BY <1>1 DEF Free
  <2> QED BY <2>1, AgreeLinks
<1>2. CASE Freeable(block[2])
  <2>1. DOMAIN header # {}
    BY <1>2 DEF Freeable, IsHeader
  <2> QED BY <1>2, <2>1, FreeChained, FreeFalling DEF Chained, Falling
<1> QED BY <1>1, <1>2

LEMMA InitLinks == Init => LinkInv
BY InitInv DEF Init, LinkInv, Chained, Falling

LEMMA NextLinks == LinkInv /\ [Next]_vars => LinkInv'
<1> SUFFICES ASSUME LinkInv, [Next]_vars PROVE LinkInv'
  OBVIOUS
<1>1. Inv'
  BY NextInv DEF LinkInv
<1>2. CASE UNCHANGED vars
  <2>1. header' = header /\ spoilt' = spoilt
    BY <1>2 DEF vars
  <2> QED BY <1>1, <2>1, AgreeLinks DEF LinkInv
<1>3. ASSUME NEW x \in Sizes, Malloc(x)
      PROVE  LinkInv'
  BY <1>1, <1>3, MallocLinks DEF LinkInv
<1>4. ASSUME NEW block \in live, Free(block)
      PROVE  LinkInv'
  BY <1>1, <1>4, FreeLinks DEF LinkInv
<1> QED BY <1>2, <1>3, <1>4 DEF Next

THEOREM LinkInvariance == Spec => []LinkInv
<1> QED BY InitLinks, NextLinks, PTL DEF Spec

(* In whatever order blocks are taken and freed, the headers in the list   *)
(* stay linked both ways, as long as every free goes through one of them   *)
(* and none of them is written over.                                       *)
THEOREM ListStaysLinked == Spec => []ListLinked
<1> QED BY LinkInvGives, LinkInvariance, PTL

(* The list comes to an end, also when frees go through headers that were  *)
(* merged away, or when such headers are written anew.                     *)
THEOREM ListAlwaysEnds == Spec => []ListEnds
<1> QED BY LinkInvGives, LinkInvariance, PTL
=============================================================================
