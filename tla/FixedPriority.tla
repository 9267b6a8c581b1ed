--------------------------- MODULE FixedPriority ---------------------------
(***************************************************************************)
(* The scheduler every thread of the firmware runs under: ChibiOS/RT on    *)
(* one core, preemptive, with a distinct static priority per thread.  A    *)
(* thread executes only while every thread of a higher priority is blocked *)
(* (asleep, suspended or waiting for an event).  A module that composes    *)
(* threads guards each step of thread t with MayRun(t, ...); a section     *)
(* between chSysLock() and chSysUnlock() is one step, because nothing can  *)
(* preempt it, and every other access to shared state is a step of its own *)
(* as far as a higher priority thread can observe it.                      *)
(*                                                                         *)
(* Time is not modelled: a sleeping thread may wake at any moment.  What   *)
(* a timing bound would exclude is therefore allowed, never the reverse.   *)
(***************************************************************************)
EXTENDS Naturals

(* Rank maps each thread to its static priority (greater runs first);      *)
(* Blocked is the set of threads that are not ready.                       *)
MayRun(t, Rank, Blocked) ==
  /\ t \in DOMAIN Rank
  /\ \A u \in DOMAIN Rank : Rank[u] > Rank[t] => u \in Blocked
=============================================================================
