---------------------------- MODULE MCScheduler ----------------------------
(***************************************************************************)
(* Instances of Scheduler for TLC, which differ in who joins whom, and the *)
(* refinement mapping to ThreadLife.                                       *)
(***************************************************************************)
EXTENDS Scheduler

(* main joins the threads it creates and nobody else joins: test.c,        *)
(* kenn's testers/tester.c, test.c and shtest.c.                           *)
OnlyMain == {Main} \X (Tids \ {Main})

(* Two joins that have nothing to do with each other.                      *)
Pairs == {<<1, 2>>, <<3, 4>>}

(* Two threads join the same one, one of them joins another as well, and   *)
(* main first joins itself, as test.c's does.                              *)
Crossed == {<<1, 1>>, <<1, 2>>, <<3, 2>>, <<3, 4>>}

Life == INSTANCE ThreadLife WITH
  alive <- Live,
  done  <- Freed,
  waits <- [u \in Tids |-> IF thread_state[u] = "WAITING" THEN join[u] ELSE 0]

(* The library, joined from main alone, keeps the promise of ThreadLife:   *)
(* my_pthread_join waits for the thread's exit and my_pthread_exit         *)
(* releases the thread that waits.                                         *)
ImplementsLife == Life!LifeSpec
=============================================================================
