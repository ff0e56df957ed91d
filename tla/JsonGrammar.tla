---------------------------- MODULE JsonGrammar ----------------------------
(***************************************************************************)
(* What a JSON document is: the reference for Json.tla.  A document is a   *)
(* sequence of lexemes and a lexeme a sequence of characters.  Numbers may *)
(* have a sign + and no exponent, as the tests of lw/mime/json_test.cpp    *)
(* have them.  "M" is a digit of a number that needs all 64 bits.          *)
(***************************************************************************)
EXTENDS Naturals, Sequences, SequencesExt

Quote     == "\""
Backslash == "\\"
Digit     == {"0", "1", "M"}
Sign      == {"+", "-"}
Keyword   == {<<"true">>, <<"false">>, <<"null">>}

\* An optional sign, digits without a leading zero and, in a FLOAT, a fraction.
IsNumber(w, type) ==
  \E i \in {0, 1}, j \in 1 .. Len(w) :
    /\ i = 1 => w[1] \in Sign
    /\ i < j /\ \A k \in i + 1 .. j : w[k] \in Digit
    /\ w[i + 1] = "0" => j = i + 1
    /\ \/ type = "INTEGER" /\ j = Len(w)
       \/ /\ type = "FLOAT" /\ j + 2 <= Len(w) /\ w[j + 1] = "."
          /\ \A k \in j + 2 .. Len(w) : w[k] \in Digit

Class(w) ==
  CASE w \in {<<"{">>, <<"}">>, <<"[">>, <<"]">>, <<":">>, <<",">>} -> w[1]
    [] w[1] = Quote -> "string"
    [] w \in Keyword \/ IsNumber(w, "INTEGER") \/ IsNumber(w, "FLOAT") -> "scalar"
    [] OTHER -> "unknown"

\* What may come next, innermost last: "[0" is a list that was just opened, "[v"
\* one after a value, "[," one after a comma; objects likewise, with "{k" after
\* a key and "{:" after its colon.
Start    == <<"value">>
Complete == <<"done">>
Wrong    == <<"wrong">>

After == [top \in {"value", "[0", "[,", "{:"} |->
            IF top = "value" THEN "done" ELSE IF top = "{:" THEN "{v" ELSE "[v"]

Advance(g, w) ==
  LET c == Class(w)
      top == Last(g)
      becomes(context) == Append(Front(g), context)
      valueDue == top \in DOMAIN After
  IN CASE c \in {"string", "scalar"} /\ valueDue -> becomes(After[top])
       [] c = "string" /\ top \in {"{0", "{,"}   -> becomes("{k")
       [] c = ":" /\ top = "{k"                  -> becomes("{:")
       [] c = "[" /\ valueDue                    -> becomes(After[top]) \o <<"[0">>
       [] c = "{" /\ valueDue                    -> becomes(After[top]) \o <<"{0">>
       [] c = "]" /\ top \in {"[0", "[v"}        -> Front(g)
       [] c = "}" /\ top \in {"{0", "{v"}        -> Front(g)
       [] c = "," /\ top = "[v"                  -> becomes("[,")
       [] c = "," /\ top = "{v"                  -> becomes("{,")
       [] OTHER                                  -> Wrong
=============================================================================
