----------------------------- MODULE ThreadLife -----------------------------
(***************************************************************************)
(* What the thread library promises its callers, with no queues in it:     *)
(* threads start and finish, a join of a live thread blocks, the finish of *)
(* a thread releases in the same step everyone who waits for it, and a     *)
(* join returns only once its target has finished.                         *)
(***************************************************************************)
EXTENDS Naturals

CONSTANT Tids       (* thread ids, positive numbers                        *)

VARIABLES
  alive,            (* threads started and not finished                    *)
  done,             (* threads finished                                    *)
  waits,            (* the thread each one waits for, 0 for none           *)
  joined            (* <<u, t>>, u's join of t has returned                *)

lifeVars == <<alive, done, waits, joined>>

LifeInit ==
  /\ alive = {1}
  /\ done = {}
  /\ waits = [t \in Tids |-> 0]
  /\ joined = {}

Start(t) ==
  /\ t \notin alive \cup done
  /\ alive' = alive \cup {t}
  /\ UNCHANGED <<done, waits, joined>>

Finish(t) ==
  /\ t \in alive /\ waits[t] = 0
  /\ alive' = alive \ {t}
  /\ done' = done \cup {t}
  /\ waits' = [u \in Tids |-> IF waits[u] = t THEN 0 ELSE waits[u]]
  /\ UNCHANGED joined

Block(u, t) ==
  /\ u \in alive /\ waits[u] = 0
  /\ t \in alive
  /\ waits' = [waits EXCEPT ![u] = t]
  /\ UNCHANGED <<alive, done, joined>>

Return(u, t) ==
  /\ u \in alive /\ waits[u] = 0
  /\ t \in done
  /\ joined' = joined \cup {<<u, t>>}
  /\ UNCHANGED <<alive, done, waits>>

LifeNext ==
  \/ \E t \in Tids : Start(t) \/ Finish(t)
  \/ \E u, t \in Tids : Block(u, t) \/ Return(u, t)

LifeSpec == LifeInit /\ [][LifeNext]_lifeVars
=============================================================================
