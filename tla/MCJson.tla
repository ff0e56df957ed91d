------------------------------- MODULE MCJson -------------------------------
(* Characters with and without an escape, and two keys. *)
EXTENDS Json

Chars == {"a", Quote, Backslash, "/", "nl"}
Keys  == {<<"k">>, <<"l">>}
=============================================================================
