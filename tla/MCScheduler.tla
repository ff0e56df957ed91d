---------------------------- MODULE MCScheduler ----------------------------
(* TLC instances of Scheduler. *)
EXTENDS Scheduler, TLC

\* Coroutines are interchangeable: no action tells them apart.
CoroSymmetry == Permutations(Coro)
=============================================================================
