------------------------------- MODULE Mutex -------------------------------
(***************************************************************************)
(* One my_pthread_mutex_t of my_pthread.c, statement by statement: the     *)
(* timer may preempt a thread between any two of them, so each statement   *)
(* that reads or writes the mutex is an action of its own.                 *)
(*                                                                         *)
(* A thread here locks, holds and unlocks, and may call unlock when it     *)
(* does not hold the mutex; it does not lock what it already holds.        *)
(***************************************************************************)
EXTENDS Naturals

CONSTANTS
  Threads,            (* tids                                              *)
  Destroyers,         (* the threads that call my_pthread_mutex_destroy    *)
  Initers             (* those that call my_pthread_mutex_init again       *)

NoOwner == 0

ASSUME ThreadsAssumption == NoOwner \notin Threads
ASSUME CallersAssumption == Destroyers \subseteq Threads /\ Initers \subseteq Threads

VARIABLES
  lock, destroyed, owner, initialized,        (* the fields of the mutex   *)
  pc                  (* the statement each thread is about to execute     *)

vars == <<lock, destroyed, owner, initialized, pc>>

Goto(t, label) == pc' = [pc EXCEPT ![t] = label]

(* The mutex as the first my_pthread_mutex_init leaves it, before it is    *)
(* shared.  The last field is set to 0 there, not to 1.                    *)
Init ==
  /\ lock = 0
  /\ destroyed = 0
  /\ owner = NoOwner
  /\ initialized = 0
  /\ pc = [t \in Threads |-> "out"]

-----------------------------------------------------------------------------
(* my_pthread_mutex_lock: the destroyed flag is read once, before the      *)
(* loop.                                                                   *)
LockCall(t) ==
  /\ pc[t] = "out"
  /\ destroyed # 1
  /\ Goto(t, "spin")
  /\ UNCHANGED <<lock, destroyed, owner, initialized>>

(* Two slips one could make: count the attempts instead of setting a flag; *)
(* go on whatever the test said.                                           *)
CountAttempt(t) ==
  /\ pc[t] = "spin"
  /\ lock' = lock + 1
  /\ Goto(t, IF lock = 0 THEN "own" ELSE "spin")
  /\ UNCHANGED <<destroyed, owner, initialized>>

SetWithoutTest(t) ==
  /\ pc[t] = "spin"
  /\ lock' = 1
  /\ Goto(t, "own")
  /\ UNCHANGED <<destroyed, owner, initialized>>

(* The __sync_lock_test_and_set that finds a 1 writes 1 over it; the       *)
(* thread yields and tries again.                                          *)
SpinOn(t) ==
  /\ pc[t] = "spin"
  /\ lock = 1
  /\ UNCHANGED vars

(* The one that finds a 0.                                                 *)
TestAndSet(t) ==
  /\ pc[t] = "spin"
  /\ lock = 0
  /\ lock' = 1
  /\ Goto(t, "own")
  /\ UNCHANGED <<destroyed, owner, initialized>>

SetOwner(t) ==
  /\ pc[t] = "own"
  /\ owner' = t
  /\ Goto(t, "held")
  /\ UNCHANGED <<lock, destroyed, initialized>>

(* A slip one could make: unlock for anyone who asks.                      *)
UnlockUnchecked(t) ==
  /\ pc[t] \in {"out", "held"}
  /\ Goto(t, "clear")
  /\ UNCHANGED <<lock, destroyed, owner, initialized>>

(* my_pthread_mutex_unlock for the owner, which clears its name first and  *)
(* the lock after it.                                                      *)
UnlockCall(t) ==
  /\ pc[t] \in {"out", "held"}
  /\ owner = t
  /\ Goto(t, "clear")
  /\ UNCHANGED <<lock, destroyed, owner, initialized>>

(* Anyone else is told EBUSY and leaves; for a thread that has not locked  *)
(* the mutex nothing happens.                                              *)
UnlockRefused(t) ==
  /\ pc[t] = "held"
  /\ owner # t
  /\ Goto(t, "out")
  /\ UNCHANGED <<lock, destroyed, owner, initialized>>

(* Two slips: the owner keeps its name, the lock is never given back.      *)
KeepOwner(t) ==
  /\ pc[t] = "clear"
  /\ Goto(t, "release")
  /\ UNCHANGED <<lock, destroyed, owner, initialized>>

NeverRelease(t) ==
  /\ pc[t] = "release"
  /\ Goto(t, "out")
  /\ UNCHANGED <<lock, destroyed, owner, initialized>>

ClearOwner(t) ==
  /\ pc[t] = "clear"
  /\ owner' = NoOwner
  /\ Goto(t, "release")
  /\ UNCHANGED <<lock, destroyed, initialized>>

Release(t) ==
  /\ pc[t] = "release"
  /\ lock' = 0
  /\ Goto(t, "out")
  /\ UNCHANGED <<destroyed, owner, initialized>>

-----------------------------------------------------------------------------
(* my_pthread_mutex_destroy: the lock is looked at once, before the three  *)
(* stores.                                                                 *)
DestroyCall(t) ==
  /\ t \in Destroyers
  /\ pc[t] = "out"
  /\ lock # 1
  /\ Goto(t, "destroy")
  /\ UNCHANGED <<lock, destroyed, owner, initialized>>

DestroySteps(t) ==
  \/ /\ pc[t] = "destroy"
     /\ destroyed' = 1
     /\ Goto(t, "disown")
     /\ UNCHANGED <<lock, owner, initialized>>
  \/ /\ pc[t] = "disown"
     /\ owner' = NoOwner
     /\ Goto(t, "uninitialize")
     /\ UNCHANGED <<lock, destroyed, initialized>>
  \/ /\ pc[t] = "uninitialize"
     /\ initialized' = 0
     /\ Goto(t, "out")
     /\ UNCHANGED <<lock, destroyed, owner>>

(* my_pthread_mutex_init of a mutex already in use.                        *)
InitCall(t) ==
  /\ t \in Initers
  /\ pc[t] = "out"
  /\ initialized # 1
  /\ Goto(t, "init lock")
  /\ UNCHANGED <<lock, destroyed, owner, initialized>>

InitSteps(t) ==
  \/ /\ pc[t] = "init lock"
     /\ lock' = 0
     /\ Goto(t, "init owner")
     /\ UNCHANGED <<destroyed, owner, initialized>>
  \/ /\ pc[t] = "init owner"
     /\ owner' = NoOwner
     /\ Goto(t, "init destroyed")
     /\ UNCHANGED <<lock, destroyed, initialized>>
  \/ /\ pc[t] = "init destroyed"
     /\ destroyed' = 0
     /\ Goto(t, "init initialized")
     /\ UNCHANGED <<lock, owner, initialized>>
  \/ /\ pc[t] = "init initialized"
     /\ initialized' = 0
     /\ Goto(t, "out")
     /\ UNCHANGED <<lock, destroyed, owner>>

(* What a thread does once it has decided to call the library ...          *)
Running(t) ==
  \/ SpinOn(t)
  \/ TestAndSet(t)
  \/ SetOwner(t)
  \/ ClearOwner(t)
  \/ Release(t)
  \/ DestroySteps(t)
  \/ InitSteps(t)

(* ... the unlock it owes, and the calls it is free to make.               *)
Unlock(t) == UnlockCall(t) \/ UnlockRefused(t)

Next ==
  \E t \in Threads :
    Running(t) \/ Unlock(t) \/ LockCall(t) \/ DestroyCall(t) \/ InitCall(t)

Spec == Init /\ [][Next]_vars

(***************************************************************************)
(* Fairness.  The scheduler lets every ready thread run again and again,   *)
(* so one that is in a call goes on with it; and whoever holds the mutex   *)
(* unlocks it in the end, which is the program's part.                     *)
(***************************************************************************)
FairSpec == Spec /\ \A t \in Threads : WF_vars(Running(t)) /\ WF_vars(Unlock(t))

-----------------------------------------------------------------------------
(* The threads between a successful test-and-set and the end of unlock.    *)
Holders == {t \in Threads : pc[t] \in {"own", "held", "clear", "release"}}

Labels ==
  {"out", "spin", "own", "held", "clear", "release",
   "destroy", "disown", "uninitialize",
   "init lock", "init owner", "init destroyed", "init initialized"}

TypeOK ==
  /\ lock \in {0, 1}
  /\ destroyed \in {0, 1}
  /\ owner \in Threads \cup {NoOwner}
  /\ initialized \in {0, 1}
  /\ pc \in [Threads -> Labels]

(* At most one thread is inside the mutex.                                 *)
MutualExclusion == \A t, u \in Holders : t = u

(* Whoever the mutex names as owner has it and has not let go: a thread    *)
(* that does not hold the mutex is turned away by unlock, whoever destroys *)
(* it or initializes it again meanwhile.                                   *)
OwnerHolds == owner # NoOwner => pc[owner] \in {"held", "clear"}

(* A thread that holds the mutex is its owner, so its unlock succeeds.     *)
HolderOwns == \A t \in Threads : pc[t] = "held" => owner = t

(* While a thread spins for the mutex, somebody gets it.                   *)
SomebodyGets ==
  \A t \in Threads : (pc[t] = "spin") ~> (\E u \in Threads : pc[u] = "own")

(* Nobody keeps the mutex for ever: it becomes free again.                 *)
LockFreed == (lock = 1) ~> (lock = 0)
=============================================================================
