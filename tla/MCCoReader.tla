----------------------------- MODULE MCCoReader -----------------------------
(* A delimiter of one byte, and one that may come right after its own beginning. *)
EXTENDS CoReader

CONSTANTS a, b

Delimiters == {<<b>>, <<a, b>>}
=============================================================================
