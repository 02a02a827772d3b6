----------------------------- MODULE TcbQueues -----------------------------
(***************************************************************************)
(* The singly linked lists of my_pthread.c.                                *)
(*                                                                         *)
(* The three run queues (Pqueue[0..2]) and the WaitQueue are `queue'       *)
(* structs with a head and a tail, and every one of them is threaded       *)
(* through the same `next' field of the thread control block, so the four  *)
(* lists share one next function here as they share one field there.       *)
(* return_list has the same shape, with nodes of its own.                  *)
(*                                                                         *)
(* A list record is [head, tail, next]: head and tail map a list's index   *)
(* to a pointer, next maps a node to a pointer.  A pointer is a node or    *)
(* NULL, a node is named by the id of the thread it belongs to.            *)
(***************************************************************************)
EXTENDS Naturals

CONSTANT MaxTid     (* the largest thread id handed out: bounds creations  *)

ASSUME MaxTidAssumption == MaxTid \in Nat \ {0, 1}

NULL == 0
Tids == 1 .. MaxTid
Ptr  == 0 .. MaxTid

MAX_PRIORITY == 2
Ranks == 0 .. MAX_PRIORITY
WaitQueue == 3                       \* index of the list of joining threads
TcbLists == Ranks \cup {WaitQueue}

ListRecord(keys) ==
  [head : [keys -> Ptr], tail : [keys -> Ptr], next : [Tids -> Ptr]]

EmptyLists(keys) ==
  [head |-> [k \in keys |-> NULL],
   tail |-> [k \in keys |-> NULL],
   next |-> [t \in Tids |-> NULL]]

(* The nodes a walk from pointer p visits: those that no set of nodes can  *)
(* do without that has p in it and every node its members lead to.         *)
Closed(l, S) == \A t \in S : l.next[t] \in S \cup {NULL}

From(l, p) ==
  {t \in Tids : /\ p # NULL
                /\ \A S \in SUBSET Tids : p \in S /\ Closed(l, S) => t \in S}

Members(l, k) == From(l, l.head[k])

-----------------------------------------------------------------------------
(* A slip one could make in the append: the new tail keeps the `next' it   *)
(* had in the list it was in before.                                       *)
EnqueueKeepingNext(l, k, m) ==
  IF l.head[k] = NULL
  THEN [l EXCEPT !.head[k] = m, !.tail[k] = m]
  ELSE [l EXCEPT !.tail[k] = m, !.next[l.tail[k]] = m]

(* Append node m to list k.  The old tail is written before m, so that     *)
(* m.next ends up NULL also when m itself was the tail.                    *)
Enqueue(l, k, m) ==
  IF l.head[k] = NULL
  THEN [l EXCEPT !.head[k] = m, !.tail[k] = m, !.next[m] = NULL]
  ELSE [head |-> l.head,
        tail |-> [l.tail EXCEPT ![k] = m],
        next |-> [[l.next EXCEPT ![l.tail[k]] = m] EXCEPT ![m] = NULL]]

(* The node whose fields Enqueue dereferences besides m's.                 *)
EnqueueTouches(l, k) == IF l.head[k] = NULL THEN {} ELSE {l.tail[k]}

Runnable(l) == \E r \in Ranks : l.head[r] # NULL

(* get_tcb scans the ranks from 0 and stops at the first non-empty one;    *)
(* the slip scans them from the other end.                                 *)
IsLastRank(l, r) ==
  /\ l.head[r] # NULL
  /\ \A s \in Ranks : s > r => l.head[s] = NULL

IsFirstRank(l, r) ==
  /\ l.head[r] # NULL
  /\ \A s \in Ranks : s < r => l.head[s] = NULL

(* get_tcb's removal of the head of rank r.                                *)
Dequeue(l, r) ==
  LET victim == l.head[r] IN
  IF l.next[victim] = NULL
  THEN [l EXCEPT !.head[r] = NULL, !.tail[r] = NULL]
  ELSE [l EXCEPT !.head[r] = l.next[victim], !.next[victim] = NULL]

(* my_pthread_join's removal of node m from return_list: a removal at the  *)
(* head of a longer list and one behind the head both leave tail alone.    *)
Remove(l, k, m) ==
  IF l.head[k] = m
  THEN IF l.next[m] = NULL
       THEN [l EXCEPT !.head[k] = NULL, !.tail[k] = NULL]
       ELSE [l EXCEPT !.head[k] = l.next[m], !.next[m] = NULL]
  ELSE [l EXCEPT !.next = [t \in Tids |->
                             IF t = m THEN NULL
                             ELSE IF l.next[t] = m /\ t \in Members(l, k)
                                  THEN l.next[m] ELSE l.next[t]]]

-----------------------------------------------------------------------------
(* No cycle of next pointers: every nonempty set of nodes has a member     *)
(* whose next leaves the set.                                              *)
Acyclic(l) ==
  \A S \in SUBSET Tids : S # {} => \E t \in S : l.next[t] \notin S

(* List k is what its head and tail claim: it ends at its tail.            *)
EndsAtTail(l, k) ==
  IF l.head[k] = NULL
  THEN l.tail[k] = NULL
  ELSE l.tail[k] \in Members(l, k) /\ l.next[l.tail[k]] = NULL
=============================================================================
