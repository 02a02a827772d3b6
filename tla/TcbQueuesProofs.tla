-------------------------- MODULE TcbQueuesProofs --------------------------
(***************************************************************************)
(* Lemmas about the lists of TcbQueues: what an append and a removal keep, *)
(* for every number of threads.                                            *)
(***************************************************************************)
EXTENDS TcbQueues, TLAPS

WellFormed(l, keys) ==
  /\ \A k \in keys : l.head[k] # NULL => l.tail[k] # NULL
  /\ Acyclic(l)

-----------------------------------------------------------------------------
(* Pointers are ids or NULL.                                               *)
LEMMA Pointers ==
  /\ NULL \in Ptr /\ NULL \notin Tids
  /\ \A p : p \in Ptr <=> p \in Tids \/ p = NULL
BY MaxTidAssumption DEF NULL, Ptr, Tids

(* An append keeps a list record a list record, whatever list the new      *)
(* member was in before.                                                   *)
LEMMA EnqueueType ==
  ASSUME NEW keys, NEW l \in ListRecord(keys), NEW k \in keys, NEW m \in Tids
  PROVE  Enqueue(l, k, m) \in ListRecord(keys)
BY Pointers DEF Enqueue, ListRecord

(* An append closes no cycle: the new tail's next is NULL, and the one     *)
(* other pointer it changes leads to the new tail.                         *)
LEMMA EnqueueAcyclic ==
  ASSUME NEW keys, NEW l \in ListRecord(keys), NEW k \in keys, NEW m \in Tids,
         Acyclic(l)
  PROVE  Acyclic(Enqueue(l, k, m))
<1> SUFFICES ASSUME NEW S \in SUBSET Tids, S # {}
             PROVE  \E t \in S : Enqueue(l, k, m).next[t] \notin S
  BY DEF Acyclic
<1>1. /\ Enqueue(l, k, m).next[m] = NULL /\ NULL \notin S
      /\ \A t \in Tids : Enqueue(l, k, m).next[t] \in {l.next[t], m, NULL}
  BY Pointers DEF Enqueue, ListRecord
<1>2. PICK t \in S : l.next[t] \notin S
  BY DEF Acyclic
<1> QED BY <1>1, <1>2

LEMMA EnqueueWellFormed ==
  ASSUME NEW keys, NEW l \in ListRecord(keys), NEW k \in keys, NEW m \in Tids,
         WellFormed(l, keys)
  PROVE  WellFormed(Enqueue(l, k, m), keys)
<1>1. \A i \in keys : Enqueue(l, k, m).head[i] # NULL
                        => Enqueue(l, k, m).tail[i] # NULL
  BY Pointers DEF WellFormed, Enqueue, ListRecord
<1> QED BY <1>1, EnqueueAcyclic DEF WellFormed

(* Taking the head of a run queue off keeps a list record a list record,   *)
(* and closes no cycle.                                                    *)
LEMMA DequeueType ==
  ASSUME NEW l \in ListRecord(TcbLists), NEW r \in Ranks, l.head[r] # NULL
  PROVE  Dequeue(l, r) \in ListRecord(TcbLists)
<1>1. l.head[r] \in Tids /\ r \in TcbLists
  BY Pointers DEF ListRecord, TcbLists
<1> QED BY <1>1, Pointers DEF Dequeue, ListRecord

LEMMA DequeueWellFormed ==
  ASSUME NEW l \in ListRecord(TcbLists), NEW r \in Ranks, l.head[r] # NULL,
         WellFormed(l, TcbLists)
  PROVE  /\ Dequeue(l, r) \in ListRecord(TcbLists)
         /\ WellFormed(Dequeue(l, r), TcbLists)
<1> DEFINE d == Dequeue(l, r)
<1>1. l.head[r] \in Tids /\ r \in TcbLists
  BY Pointers DEF ListRecord, TcbLists
<1>2. d \in ListRecord(TcbLists)
  BY DequeueType
<1>3. \A i \in TcbLists : d.head[i] # NULL => d.tail[i] # NULL
  BY <1>1, Pointers DEF WellFormed, Dequeue, ListRecord
<1>4. ASSUME NEW S \in SUBSET Tids, S # {}
      PROVE  \E t \in S : d.next[t] \notin S
  <2>1. PICK t \in S : l.next[t] \notin S
    BY <1>4 DEF WellFormed, Acyclic
  <2>2. d.next[t] \in {l.next[t], NULL} /\ NULL \notin S
    BY <1>1, Pointers DEF Dequeue, ListRecord
  <2> QED BY <2>1, <2>2
<1> QED BY <1>2, <1>3, <1>4 DEF WellFormed, Acyclic

(* Taking a node out of return_list.  When its predecessor is made to skip *)
(* it, a cycle of the result would be one of the old list through it.      *)
LEMMA RemoveWellFormed ==
  ASSUME NEW keys, NEW l \in ListRecord(keys), NEW k \in keys, NEW m \in Tids,
         WellFormed(l, keys)
  PROVE  /\ Remove(l, k, m) \in ListRecord(keys)
         /\ WellFormed(Remove(l, k, m), keys)
<1> DEFINE d == Remove(l, k, m)
<1>1. d \in ListRecord(keys)
  BY Pointers DEF Remove, ListRecord
<1>2. \A i \in keys : d.head[i] # NULL => d.tail[i] # NULL
  BY Pointers DEF WellFormed, Remove, ListRecord
<1>3. ASSUME NEW S \in SUBSET Tids, S # {}
      PROVE  \E t \in S : d.next[t] \notin S
  <2>1. NULL \notin S
    BY Pointers
  <2>2. \A t \in Tids : \/ d.next[t] \in {NULL, l.next[t]}
                        \/ l.next[t] = m /\ d.next[t] = l.next[m]
    BY Pointers DEF Remove, ListRecord
  <2>3. PICK t \in S : l.next[t] \notin S
    BY <1>3 DEF WellFormed, Acyclic
  <2>4. CASE l.next[m] \notin S
    BY <2>1, <2>2, <2>3, <2>4
  <2>5. CASE l.next[m] \in S
    <3>1. PICK u \in S \cup {m} : l.next[u] \notin S \cup {m}
      BY DEF WellFormed, Acyclic
    <3>2. u \in S /\ l.next[u] \notin S /\ l.next[u] # m
      BY <2>5, <3>1
    <3> QED BY <2>1, <2>2, <3>2
  <2> QED BY <2>4, <2>5
<1> QED BY <1>1, <1>2, <1>3 DEF WellFormed, Acyclic

(* When some run queue is in use, get_tcb's scan stops at one.             *)
LEMMA FirstRankExists ==
  ASSUME NEW l, Runnable(l)
  PROVE  \E r \in Ranks : IsFirstRank(l, r)
<1>1. \A r : r \in Ranks <=> r = 0 \/ r = 1 \/ r = 2
  BY DEF Ranks, MAX_PRIORITY
<1>2. CASE l.head[0] # NULL
  BY <1>1, <1>2 DEF IsFirstRank
<1>3. CASE l.head[0] = NULL /\ l.head[1] # NULL
  BY <1>1, <1>3 DEF IsFirstRank
<1>4. CASE l.head[0] = NULL /\ l.head[1] = NULL
  <2>1. l.head[2] # NULL
    BY <1>1, <1>4 DEF Runnable
  <2> QED BY <1>1, <1>4, <2>1 DEF IsFirstRank
<1> QED BY <1>2, <1>3, <1>4

-----------------------------------------------------------------------------
(* The nodes of a walk: where it starts, closed under next, and no more.   *)
LEMMA FromClosed ==
  ASSUME NEW keys, NEW l \in ListRecord(keys), NEW p \in Ptr
  PROVE  /\ From(l, p) \subseteq Tids
         /\ Closed(l, From(l, p))
         /\ p # NULL => p \in From(l, p)
         /\ p = NULL => From(l, p) = {}
<1>1. From(l, p) \subseteq Tids /\ (p = NULL => From(l, p) = {})
  BY DEF From
<1>2. p # NULL => p \in From(l, p)
  BY Pointers DEF From
<1>3. ASSUME NEW t \in From(l, p), l.next[t] # NULL
      PROVE  l.next[t] \in From(l, p)
  <2>1. t \in Tids /\ l.next[t] \in Tids /\ p # NULL
    BY <1>1, <1>3, Pointers DEF From, ListRecord
  <2>2. ASSUME NEW S \in SUBSET Tids, p \in S, Closed(l, S)
        PROVE  l.next[t] \in S
    BY <1>3, <2>2 DEF From, Closed
  <2> QED BY <2>1, <2>2 DEF From
<1> QED BY <1>1, <1>2, <1>3 DEF Closed

LEMMA FromLeast ==
  ASSUME NEW l, NEW S \in SUBSET Tids, Closed(l, S), NEW p \in S \cup {NULL}
  PROVE  From(l, p) \subseteq S
BY DEF From

(* A walk does not notice what happens to nodes it does not visit.         *)
LEMMA FromLocal ==
  ASSUME NEW keys, NEW l \in ListRecord(keys), NEW d \in ListRecord(keys),
         NEW p \in Ptr, \A t \in From(l, p) : d.next[t] = l.next[t]
  PROVE  From(d, p) = From(l, p)
<1> DEFINE F == From(l, p)
           G == From(d, p)
<1>1. /\ F \subseteq Tids /\ Closed(l, F) /\ p \in F \cup {NULL}
      /\ G \subseteq Tids /\ Closed(d, G) /\ p \in G \cup {NULL}
  BY FromClosed
<1>2. Closed(d, F)
  BY <1>1 DEF Closed
<1>3. G \subseteq F
  BY <1>1, <1>2, FromLeast
<1>4. Closed(l, G)
  BY <1>1, <1>3 DEF Closed
<1>5. F \subseteq G
  BY <1>1, <1>4, FromLeast
<1> QED BY <1>3, <1>5

(* A walk from p is p and the walk from the node behind it.                *)
LEMMA FromStep ==
  ASSUME NEW keys, NEW l \in ListRecord(keys), NEW p \in Tids
  PROVE  From(l, p) = {p} \cup From(l, l.next[p])
<1> DEFINE n == l.next[p]
           F == From(l, p)
           G == From(l, n)
<1>1. n \in Ptr /\ p \in Ptr /\ p # NULL
  BY Pointers DEF ListRecord
<1>2. /\ F \subseteq Tids /\ Closed(l, F) /\ p \in F
      /\ G \subseteq Tids /\ Closed(l, G) /\ n \in G \cup {NULL}
  BY <1>1, FromClosed
<1>3. n \in F \cup {NULL}
  BY <1>2 DEF Closed
<1>4. G \subseteq F
  BY <1>2, <1>3, FromLeast
<1>5. Closed(l, {p} \cup G)
  BY <1>2 DEF Closed
<1>6. F \subseteq {p} \cup G
  <2>1. {p} \cup G \in SUBSET Tids /\ p \in {p} \cup G
    BY <1>2
  <2> QED BY <1>5, <2>1, FromLeast
<1> QED BY <1>2, <1>4, <1>6

(* Without a cycle, no walk comes back to where it has been.               *)
LEMMA NoReturn ==
  ASSUME NEW keys, NEW l \in ListRecord(keys), Acyclic(l), NEW p \in Tids
  PROVE  p \notin From(l, l.next[p])
<1> SUFFICES ASSUME p \in From(l, l.next[p]) PROVE FALSE
  OBVIOUS
<1> DEFINE T == {t \in Tids : p \in From(l, l.next[t])}
<1>1. ASSUME NEW t \in T
      PROVE  l.next[t] \in T
  <2> DEFINE n == l.next[t]
  <2>1. t \in Tids /\ n \in Ptr /\ p \in From(l, n)
    BY <1>1 DEF ListRecord
  <2>2. n \in Tids
    BY <2>1, FromClosed, Pointers
  <2>3. p \in {n} \cup From(l, l.next[n])
    BY <2>1, <2>2, FromStep
  <2>4. p \in From(l, l.next[n])
    BY <2>3
  <2> QED BY <2>2, <2>4
<1>2. T \in SUBSET Tids /\ p \in T
  OBVIOUS
<1> QED BY <1>1, <1>2 DEF Acyclic

-----------------------------------------------------------------------------
(* List k has the nodes of S, and ends where its tail says.                *)
Holds(l, k, S) == Members(l, k) = S /\ EndsAtTail(l, k)

(* A list is as it was if its head, its tail and the next fields of its    *)
(* nodes are.                                                              *)
LEMMA HoldsLocal ==
  ASSUME NEW keys, NEW l \in ListRecord(keys), NEW d \in ListRecord(keys),
         NEW k \in keys, NEW S, Holds(l, k, S),
         d.head[k] = l.head[k], d.tail[k] = l.tail[k],
         \A t \in S : d.next[t] = l.next[t]
  PROVE  Holds(d, k, S)
<1>1. l.head[k] \in Ptr
  BY DEF ListRecord
<1>2. Members(d, k) = Members(l, k)
  BY <1>1, FromLocal DEF Holds, Members
<1> QED BY <1>2 DEF Holds, EndsAtTail

(* An append adds the node to its list ...                                 *)
LEMMA EnqueueHolds ==
  ASSUME NEW keys, NEW l \in ListRecord(keys), NEW k \in keys,
         NEW m \in Tids, NEW S, Holds(l, k, S), m \notin S
  PROVE  Holds(Enqueue(l, k, m), k, S \cup {m})
<1> DEFINE e == Enqueue(l, k, m)
           h == l.head[k]
           z == l.tail[k]
<1>1. /\ h \in Ptr /\ e \in ListRecord(keys) /\ S = From(l, h)
      /\ m \in Ptr /\ m # NULL
  BY EnqueueType, Pointers DEF ListRecord, Holds, Members
<1>2. CASE h = NULL
  <2>1. e.head[k] = m /\ e.tail[k] = m /\ e.next[m] = NULL
    BY <1>2 DEF Enqueue, ListRecord
  <2>2. From(e, m) = {m} \cup From(e, NULL) /\ From(e, NULL) = {} /\ S = {}
    BY <1>1, <1>2, <2>1, FromStep, FromClosed, Pointers
  <2> QED BY <1>1, <2>1, <2>2 DEF Holds, Members, EndsAtTail
<1>3. CASE h # NULL
  <2>1. z \in S /\ l.next[z] = NULL
    BY <1>3 DEF Holds, EndsAtTail
  <2>2. /\ S \subseteq Tids /\ Closed(l, S) /\ h \in S
        /\ z \in Tids /\ z # m
    BY <1>1, <1>3, <2>1, FromClosed
  <2>3. /\ e.head[k] = h /\ e.tail[k] = m
        /\ e.next[m] = NULL /\ e.next[z] = m
        /\ \A t \in Tids \ {m, z} : e.next[t] = l.next[t]
    BY <1>3, <2>2 DEF Enqueue, ListRecord
  <2> DEFINE G == From(e, h)
  <2>4. G \subseteq Tids /\ Closed(e, G) /\ h \in G
    BY <1>1, <1>3, FromClosed
  <2>5. G \subseteq S \cup {m}
    <3>1. Closed(e, S \cup {m})
      BY <2>2, <2>3 DEF Closed
    <3>2. S \cup {m} \in SUBSET Tids /\ h \in S \cup {m}
      BY <2>2
    <3> QED BY <3>1, <3>2, FromLeast
  <2>6. S \subseteq G
    <3>1. ASSUME NEW t \in G \cap S
          PROVE  l.next[t] \in (G \cap S) \cup {NULL}
      BY <2>1, <2>2, <2>3, <2>4 DEF Closed
    <3>2. G \cap S \in SUBSET Tids /\ h \in G \cap S /\ Closed(l, G \cap S)
      BY <2>2, <2>4, <3>1 DEF Closed
    <3>3. From(l, h) \subseteq G \cap S
      BY <3>2, FromLeast
    <3> QED BY <1>1, <3>3
  <2>7. m \in G
    BY <1>1, <2>1, <2>3, <2>4, <2>6 DEF Closed
  <2>8. G = S \cup {m}
    BY <2>5, <2>6, <2>7
  <2>9. e.head[k] = h /\ e.tail[k] = m /\ e.next[m] = NULL /\ h # NULL
    BY <1>3, <2>3
  <2> HIDE DEF e, h, G
  <2>10. Members(e, k) = S \cup {m}
    BY <2>8, <2>9 DEF Members, G
  <2> QED BY <2>9, <2>10 DEF Holds, EndsAtTail, e
<1> QED BY <1>2, <1>3

(* ... and leaves alone a list that has none of its nodes.                 *)
LEMMA EnqueueOther ==
  ASSUME NEW keys, NEW l \in ListRecord(keys), NEW k \in keys,
         NEW m \in Tids, NEW S, Holds(l, k, S),
         NEW i \in keys, NEW R, Holds(l, i, R),
         i # k, m \notin R, R \cap S = {}
  PROVE  Holds(Enqueue(l, k, m), i, R)
<1> DEFINE e == Enqueue(l, k, m)
<1>1. e \in ListRecord(keys) /\ l.head[k] \in Ptr
  BY EnqueueType DEF ListRecord
<1>2. e.head[i] = l.head[i] /\ e.tail[i] = l.tail[i]
  BY DEF Enqueue, ListRecord
<1>3. l.head[k] # NULL => l.tail[k] \in S
  BY DEF Holds, EndsAtTail
<1>4. R \subseteq Tids
  <2>1. l.head[i] \in Ptr
    BY DEF ListRecord
  <2> QED BY <2>1, FromClosed DEF Holds, Members
<1>5. \A t \in R : e.next[t] = l.next[t]
  <2>1. \A t \in R : t # m /\ t \in Tids /\ (l.head[k] # NULL => t # l.tail[k])
    BY <1>3, <1>4
  <2> QED BY <2>1 DEF Enqueue, ListRecord
<1> QED BY <1>1, <1>2, <1>5, HoldsLocal

(* Whatever state a list is in, an append puts no other node into it.      *)
LEMMA EnqueueMembers ==
  ASSUME NEW keys, NEW l \in ListRecord(keys), NEW k \in keys, NEW m \in Tids
  PROVE  Members(Enqueue(l, k, m), k) \subseteq Members(l, k) \cup {m}
<1> DEFINE e == Enqueue(l, k, m)
           F == Members(l, k) \cup {m}
<1>1. /\ l.head[k] \in Ptr /\ F \subseteq Tids
      /\ Closed(l, Members(l, k))
      /\ l.head[k] \in Members(l, k) \cup {NULL}
  <2>1. l.head[k] \in Ptr
    BY DEF ListRecord
  <2> QED BY <2>1, FromClosed DEF Members
<1>2. e.head[k] \in {l.head[k], m} /\ e.head[k] # NULL
  BY Pointers DEF Enqueue, ListRecord
<1>3. \A t \in Tids : e.next[t] \in {l.next[t], m, NULL}
  BY Pointers DEF Enqueue, ListRecord
<1>4. e.next[m] = NULL
  BY Pointers DEF Enqueue, ListRecord
<1>5. Closed(e, F)
  BY <1>1, <1>3, <1>4 DEF Closed
<1> HIDE DEF e, F
<1>6. e.head[k] \in F
  BY <1>1, <1>2 DEF F
<1>7. From(e, e.head[k]) \subseteq F
  BY <1>1, <1>5, <1>6, FromLeast
<1> QED BY <1>7 DEF Members, e, F

(* Taking the head off leaves the rest of the list ...                     *)
LEMMA DequeueHolds ==
  ASSUME NEW l \in ListRecord(TcbLists), NEW r \in Ranks, l.head[r] # NULL,
         Acyclic(l), NEW S, Holds(l, r, S)
  PROVE  Holds(Dequeue(l, r), r, S \ {l.head[r]}) /\ l.head[r] \in S
<1> DEFINE d == Dequeue(l, r)
           h == l.head[r]
           n == l.next[h]
           z == l.tail[r]
<1>1. h \in Tids /\ r \in TcbLists /\ d \in ListRecord(TcbLists)
  BY DequeueType, Pointers DEF ListRecord, TcbLists
<1>2. /\ n \in Ptr /\ S = {h} \cup From(l, n) /\ h \notin From(l, n)
      /\ S \subseteq Tids
  BY <1>1, FromStep, NoReturn, FromClosed, Pointers DEF ListRecord, Holds, Members
<1>3. z \in S /\ l.next[z] = NULL
  BY DEF Holds, EndsAtTail
<1>4. CASE n = NULL
  <2>1. d.head[r] = NULL /\ d.tail[r] = NULL
    BY <1>1, <1>4 DEF Dequeue, ListRecord
  <2>2. From(l, n) = {} /\ From(d, NULL) = {}
    BY <1>1, <1>2, <1>4, FromClosed, Pointers
  <2> QED BY <1>2, <2>1, <2>2 DEF Holds, Members, EndsAtTail
<1>5. CASE n # NULL
  <2>1. /\ d.head[r] = n /\ d.tail[r] = z
        /\ \A t \in Tids \ {h} : d.next[t] = l.next[t]
    BY <1>1, <1>5 DEF Dequeue, ListRecord
  <2>2. From(d, n) = From(l, n)
    BY <1>1, <1>2, <2>1, FromLocal
  <2>3. z \in From(l, n) /\ d.next[z] = NULL
    BY <1>2, <1>3, <1>5, <2>1
  <2>4. S \ {h} = From(l, n)
    BY <1>2
  <2> QED BY <1>2, <1>5, <2>1, <2>2, <2>3, <2>4 DEF Holds, Members, EndsAtTail
<1> QED BY <1>2, <1>4, <1>5

(* ... and leaves alone a list that does not have it.                      *)
LEMMA DequeueOther ==
  ASSUME NEW l \in ListRecord(TcbLists), NEW r \in Ranks, l.head[r] # NULL,
         NEW i \in TcbLists, i # r, NEW R, Holds(l, i, R), l.head[r] \notin R
  PROVE  Holds(Dequeue(l, r), i, R)
<1> DEFINE d == Dequeue(l, r)
           h == l.head[r]
<1>1. h \in Tids /\ r \in TcbLists /\ d \in ListRecord(TcbLists)
  BY DequeueType, Pointers DEF ListRecord, TcbLists
<1>2. d.head[i] = l.head[i] /\ d.tail[i] = l.tail[i]
  BY <1>1 DEF Dequeue, ListRecord
<1>3. R \subseteq Tids
  <2>1. l.head[i] \in Ptr
    BY DEF ListRecord
  <2> QED BY <2>1, FromClosed DEF Holds, Members
<1>4. \A t \in R : d.next[t] = l.next[t]
  BY <1>1, <1>3 DEF Dequeue, ListRecord
<1> QED BY <1>1, <1>2, <1>4, HoldsLocal

(* my_pthread_join's removal takes out one node of return_list, and keeps  *)
(* Both at once, for run queues that have no node in common.               *)
LEMMA PickHolds ==
  ASSUME NEW l \in ListRecord(TcbLists), Acyclic(l),
         NEW B, \A i \in Ranks : Holds(l, i, B[i]),
         \A i, j \in Ranks : i # j => B[i] \cap B[j] = {},
         NEW r \in Ranks, l.head[r] # NULL, NEW i \in Ranks
  PROVE  /\ Holds(Dequeue(l, r), i, B[i] \ {l.head[r]})
         /\ l.head[r] \in B[r]
<1>1. Holds(Dequeue(l, r), r, B[r] \ {l.head[r]}) /\ l.head[r] \in B[r]
  BY DequeueHolds
<1>2. CASE i # r
  <2>1. l.head[r] \notin B[i] /\ i \in TcbLists
    BY <1>1, <1>2 DEF TcbLists
  <2>2. Holds(Dequeue(l, r), i, B[i])
    BY <1>2, <2>1, DequeueOther
  <2>3. B[i] \ {l.head[r]} = B[i]
    BY <2>1
  <2> QED BY <1>1, <2>2, <2>3
<1> QED BY <1>1, <1>2

(* all the others, also when it leaves the list's tail on the one it took. *)
LEMMA RemoveMembers ==
  ASSUME NEW keys, NEW l \in ListRecord(keys), NEW k \in keys,
         Acyclic(l), NEW m \in Members(l, k)
  PROVE  Members(Remove(l, k, m), k) = Members(l, k) \ {m}
<1> DEFINE d == Remove(l, k, m)
           h == l.head[k]
           n == l.next[m]
           F == Members(l, k)
           G == Members(d, k)
<1>1. /\ h \in Ptr /\ F = From(l, h) /\ F \subseteq Tids /\ m \in F \cap Tids
      /\ h # NULL /\ Closed(l, F) /\ h \in F /\ n \in Ptr
  <2>1. h \in Ptr /\ F = From(l, h)
    BY DEF ListRecord, Members
  <2>2. F \subseteq Tids /\ Closed(l, F) /\ h # NULL /\ h \in F
    BY <2>1, FromClosed
  <2> QED BY <2>1, <2>2 DEF ListRecord
<1>2. d \in ListRecord(keys)
  BY <1>1, Pointers DEF Remove, ListRecord
<1>3. CASE h = m
  <2>1. F = {m} \cup From(l, n) /\ m \notin From(l, n)
    BY <1>1, <1>3, FromStep, NoReturn
  <2>2. CASE n = NULL
    <3>1. d.head[k] = NULL
      BY <1>3, <2>2 DEF Remove, ListRecord
    <3>2. From(l, n) = {} /\ From(d, NULL) = {}
      BY <1>1, <1>2, <2>2, FromClosed, Pointers
    <3> QED BY <2>1, <3>1, <3>2 DEF Members
  <2>3. CASE n # NULL
    <3>1. d.head[k] = n /\ \A t \in Tids \ {m} : d.next[t] = l.next[t]
      BY <1>1, <1>3, <2>3 DEF Remove, ListRecord
    <3>2. From(l, n) \subseteq Tids
      BY <1>1, FromClosed
    <3>3. From(d, n) = From(l, n)
      BY <1>1, <1>2, <2>1, <3>1, <3>2, FromLocal
    <3> QED BY <2>1, <3>1, <3>3 DEF Members
  <2> QED BY <2>2, <2>3
<1>4. CASE h # m
  <2>1. /\ d.head[k] = h /\ d.next[m] = NULL
        /\ \A t \in F \ {m} : d.next[t] = IF l.next[t] = m THEN n
                                          ELSE l.next[t]
    BY <1>1, <1>4 DEF Remove, ListRecord
  <2>2. n # m
    <3>1. m \notin From(l, n)
      BY <1>1, NoReturn
    <3> QED BY <1>1, <3>1, FromClosed, Pointers
  <2>3. G = From(d, h) /\ G \subseteq Tids /\ Closed(d, G) /\ h \in G
    BY <1>1, <1>2, <2>1, FromClosed DEF Members
  <2> HIDE DEF d, F, G, h, n
  <2>4. G \subseteq F \ {m}
    <3>1. n \in (F \ {m}) \cup {NULL}
      BY <1>1, <2>2 DEF Closed, n
    <3>2. \A t \in F : l.next[t] \in F \cup {NULL}
      BY <1>1 DEF Closed
    <3>3. Closed(d, F \ {m})
      BY <2>1, <3>1, <3>2 DEF Closed
    <3>4. F \ {m} \in SUBSET Tids /\ h \in F \ {m}
      BY <1>1, <1>4
    <3> QED BY <2>3, <3>3, <3>4, FromLeast
  <2>5. F \subseteq G \cup {m}
    <3>1. n \in G \cup {NULL}
      <4>1. ~ Closed(l, G)
        <5> SUFFICES ASSUME Closed(l, G) PROVE FALSE
          OBVIOUS
        <5>1. F \subseteq G
          BY <1>1, <2>3, FromLeast
        <5> QED BY <2>4, <5>1 DEF F
      <4>2. PICK t \in G : l.next[t] \notin G \cup {NULL}
        BY <4>1 DEF Closed
      <4>3. l.next[t] = m
        BY <2>1, <2>3, <2>4, <4>2 DEF Closed
      <4> QED BY <2>1, <2>3, <2>4, <4>2, <4>3 DEF Closed
    <3>2. Closed(l, G \cup {m})
      <4>1. ASSUME NEW t \in G
            PROVE  l.next[t] \in G \cup {m} \cup {NULL}
        BY <2>1, <2>3, <2>4 DEF Closed
      <4> QED BY <3>1, <4>1 DEF Closed, n
    <3>3. G \cup {m} \in SUBSET Tids /\ h \in G \cup {m}
      BY <1>1, <2>3
    <3> QED BY <1>1, <3>2, <3>3, FromLeast
  <2>6. G = F \ {m}
    BY <2>4, <2>5
  <2> QED BY <2>6 DEF F, G, d
<1> QED BY <1>3, <1>4

-----------------------------------------------------------------------------
(* All that heads, tails and next fields lead to is in P.                  *)
Within(l, keys, P) ==
  /\ \A k \in keys : l.head[k] \in P \cup {NULL} /\ l.tail[k] \in P \cup {NULL}
  /\ \A t \in Tids : l.next[t] \in P \cup {NULL}

LEMMA EnqueueWithin ==
  ASSUME NEW keys, NEW l \in ListRecord(keys), NEW k \in keys,
         NEW P \in SUBSET Tids, Within(l, keys, P), NEW m \in P
  PROVE  Within(Enqueue(l, k, m), keys, P)
BY Pointers DEF Within, Enqueue, ListRecord

LEMMA DequeueWithin ==
  ASSUME NEW l \in ListRecord(TcbLists), NEW r \in Ranks, l.head[r] # NULL,
         NEW P \in SUBSET Tids, Within(l, TcbLists, P)
  PROVE  Within(Dequeue(l, r), TcbLists, P)
<1>1. l.head[r] \in Tids /\ r \in TcbLists
  BY Pointers DEF ListRecord, TcbLists
<1> QED BY <1>1 DEF Within, Dequeue, ListRecord

LEMMA MembersWithin ==
  ASSUME NEW keys, NEW l \in ListRecord(keys), NEW k \in keys,
         NEW P \in SUBSET Tids, Within(l, keys, P)
  PROVE  Members(l, k) \subseteq P
<1>1. Closed(l, P) /\ l.head[k] \in P \cup {NULL}
  BY DEF Within, Closed
<1> QED BY <1>1, FromLeast DEF Members
=============================================================================
