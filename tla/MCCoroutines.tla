---------------------------- MODULE MCCoroutines ----------------------------
(* A duration that is over, none, and one that is waited for. *)
EXTENDS Coroutines

Durations == {-1, 0, 1}
=============================================================================
