-------------------------------- MODULE Json --------------------------------
(***************************************************************************)
(* lw::io::Serializer writing through lw::mime::JSONSerializationFormatter *)
(* and lw::mime::JSONDeserializationParser reading (lw/mime/json.cpp).     *)
(* Three worlds: a "document" of nested lists and objects is written and   *)
(* what was written is parsed; a "scalar" is written as one type and read  *)
(* back as that type; the parser is given any "input".                     *)
(*                                                                         *)
(* A parsed value is kept as the lexemes it stands for, commas left out.   *)
(***************************************************************************)
EXTENDS JsonGrammar, FiniteSets

CONSTANTS World,        \* which worlds are looked at
          Char,         \* characters of the strings written in "scalar"
          Key,          \* keys of the objects written
          MaxWritten,   \* bound: calls of Serializer::write
          MaxDepth,     \* bound: nesting of what is written
          MaxInput,     \* bound: lexemes the parser is given in "input"
          MaxDigits     \* bound: characters of a number in "input"

ASSUME WorldAssumption == World \subseteq {"document", "scalar", "input"}
ASSUME KeyAssumption == Key \subseteq Seq(STRING)
ASSUME BoundsAssumption == {MaxWritten, MaxDepth, MaxInput, MaxDigits} \subseteq Nat

VARIABLES
  world,
  frames,    \* the write calls in progress: "list", "object", "key", "pair"
  written,   \* how many values and keys were written
  mixed,     \* a list was written into a pair or an object into a list
  out,       \* the formatter's _output, by lexemes
  state,     \* its _state
  fault,     \* what the formatter threw, or "none"
  scalar,    \* the last scalar written
  input,     \* what the parser has seen
  grammar,   \* the reference's view of it
  stack,     \* JSONParse::_token_stack
  final,     \* JSONParse::_final_value, as a sequence of at most one token
  verdict    \* of parse: "accepted", what it threw, "undefined", or "none" yet

writerVars == <<frames, written, mixed, out, state, fault, scalar>>
parserVars == <<input, grammar, stack, final, verdict>>
vars == <<world, writerVars, parserVars>>

-----------------------------------------------------------------------------
(* Scalars: the type they are written as, their value and their text. *)

\* A slip: a backslash is written as it is.
PutCharRaw(c) ==
  IF c \in {Quote, "/"} THEN <<Backslash, c>>
  ELSE IF c = "nl" THEN <<Backslash, "n">> ELSE <<c>>

\* _put_char; "nl" stands for the control characters with an escape.
PutChar(c) ==
  IF c \in {Quote, Backslash, "/"} THEN <<Backslash, c>>
  ELSE IF c = "nl" THEN <<Backslash, "n">> ELSE <<c>>

Quoted(s) == <<Quote>> \o FlattenSeq([i \in DOMAIN s |-> PutChar(s[i])]) \o <<Quote>>

Scalar(as, value, text) == [as |-> as, value |-> value, text |-> text]
Plain(as, value) == Scalar(as, value, value)

\* operator<< of a double that needs no exponent: six significant digits, without the
\* zeros behind the point.  The digits here are 0 and 1, so it rounds down.
Precision == 6

Significant(d) ==
  {i \in DOMAIN d : d[i] \in Digit /\ \E j \in 1 .. i : d[j] \in Digit \ {"0"}}

Whole(d) == {i \in DOMAIN d : \A j \in 1 .. i : d[j] # "."}

Streamed(d) ==
  LET shown == {i \in Significant(d) : d[i] # "0" /\ Cardinality(Significant(d) \cap 1 .. i) <= Precision}
  IN SubSeq(d, 1, Max(Whole(d) \cup shown))

\* Doubles as numerals: with up to six digits and with seven.
Doubles ==
  {<<"1">>, <<"-", "1", ".", "1">>, <<"0", ".", "0", "0", "1">>, <<"1", "0", "1", "0", "0", "0">>,
   <<"1", ".", "0", "1", "0", "1", "0", "1">>, <<"-", "1", ".", "0", "0", "0", "0", "0", "1">>}

\* From here on, and below 1/10000, it has an exponent.
Million == <<"1", "0", "0", "0", "0", "0", "0">>

WrittenScalars ==
  {Scalar("string", s, Quoted(s)) : s \in BoundedSeq(Char, 2)}
    \cup {Scalar("char", <<c>>, Quoted(<<c>>)) : c \in Char}
    \cup {Plain("null", <<"null">>), Plain("boolean", <<"true">>), Plain("boolean", <<"false">>)}
    \cup {Plain("signed", <<"-", "1">>), Plain("signed", <<"0">>), Plain("unsigned", <<"M">>)}
    \cup {Scalar("floating", d, Streamed(d)) : d \in Doubles}
    \cup {Scalar("floating", Million, <<"1", "e", "+", "0", "6">>), Plain("floating", <<"nan">>)}

-----------------------------------------------------------------------------
(* The formatter.  Each operation maps its _state, or is refused. *)

Top(s) == Last(s)

CanAddValue(s)  == Top(s) \in {"VALUE", "LIST", "LIST_VALUE", "KEY_ENDED"}
CanAddString(s) == CanAddValue(s) \/ Top(s) = "KEY_STARTED"
InList(s)       == Top(s) \in {"LIST", "LIST_VALUE"}
InObject(s)     == Top(s) \in {"OBJECT", "OBJECT_VALUE"}

\* A slip: the first comma of a list is left out as well.
MaybeCommaLate(s) == IF Top(s) = "OBJECT_VALUE" THEN <<<<",">>>> ELSE <<>>

MaybeComma(s) == IF Top(s) \in {"LIST_VALUE", "OBJECT_VALUE"} THEN <<<<",">>>> ELSE <<>>

\* _value_added; nothing is ever popped for a list or an object that ended.
ValueAdded(s) ==
  CASE Top(s) = "LIST"   -> Append(Front(s), "LIST_VALUE")
    [] Top(s) = "OBJECT" -> Append(Front(s), "OBJECT_VALUE")
    [] Top(s) \in {"VALUE", "KEY_ENDED"} -> Front(s)
    [] OTHER -> s

\* One call: refused with an error, or text is written and _state replaced.
Formats(allowed, text, next, error) ==
  IF allowed
  THEN out' = out \o text /\ state' = next /\ UNCHANGED fault
  ELSE fault' = error /\ UNCHANGED <<out, state>>

-----------------------------------------------------------------------------
(* Serializer::write, which nests its calls properly. *)

Writing == world # "input" /\ fault = "none" /\ (frames # <<>> \/ written = 0)

ValueDue == frames # <<>> => Last(frames) \in {"list", "key"}

\* The call under the one that ended now has its value.
ValueWritten(fs) ==
  IF fs # <<>> /\ Last(fs) = "key" THEN Append(Front(fs), "pair") ELSE fs

WriteScalar(v) ==
  /\ Writing /\ ValueDue
  /\ Formats(IF v.as \in {"string", "char"} THEN CanAddString(state) ELSE CanAddValue(state),
             MaybeComma(state) \o <<v.text>>, ValueAdded(state), "InvalidArgument")
  /\ frames' = ValueWritten(frames)
  /\ written' = written + 1
  /\ scalar' = <<v>>
  /\ UNCHANGED <<world, mixed, parserVars>>

Room == Len(frames) < MaxDepth /\ written < MaxWritten

StartList ==
  /\ Writing /\ ValueDue /\ Room
  /\ Formats(CanAddValue(state), MaybeComma(state) \o <<<<"[">>>>, Append(state, "LIST"), "InvalidArgument")
  /\ frames' = Append(frames, "list")
  /\ written' = written + 1
  /\ mixed' = (mixed \/ (frames # <<>> /\ Last(frames) = "key"))
  /\ UNCHANGED <<world, scalar, parserVars>>

EndList ==
  /\ Writing /\ frames # <<>> /\ Last(frames) = "list"
  /\ Formats(InList(state), <<<<"]">>>>, ValueAdded(state), "FailedPrecondition")
  /\ frames' = ValueWritten(Front(frames))
  /\ UNCHANGED <<world, written, mixed, scalar, parserVars>>

StartObject ==
  /\ Writing /\ ValueDue /\ Room
  /\ Formats(CanAddValue(state), MaybeComma(state) \o <<<<"{">>>>, Append(state, "OBJECT"), "InvalidArgument")
  /\ frames' = Append(frames, "object")
  /\ written' = written + 1
  /\ mixed' = (mixed \/ (frames # <<>> /\ Last(frames) = "list"))
  /\ UNCHANGED <<world, scalar, parserVars>>

EndObject ==
  /\ Writing /\ frames # <<>> /\ Last(frames) = "object"
  /\ Formats(InObject(state), <<<<"}">>>>, ValueAdded(state), "FailedPrecondition")
  /\ frames' = ValueWritten(Front(frames))
  /\ UNCHANGED <<world, written, mixed, scalar, parserVars>>

\* start_pair_key, put_string, end_pair_key.  A key that is no string, which the types
\* of write allow, is refused by put_*; it is left out.
WriteKey(k) ==
  /\ Writing /\ frames # <<>> /\ Last(frames) = "object" /\ Room
  /\ Formats(InObject(state), MaybeComma(state) \o <<Quoted(k), <<":">>>>,
             Append(state, "KEY_ENDED"), "FailedPrecondition")
  /\ frames' = Append(frames, "key")
  /\ written' = written + 1
  /\ UNCHANGED <<world, mixed, scalar, parserVars>>

EndPair ==
  /\ Writing /\ frames # <<>> /\ Last(frames) = "pair"
  /\ Formats(InObject(state), <<>>, ValueAdded(state), "FailedPrecondition")
  /\ frames' = Front(frames)
  /\ UNCHANGED <<world, written, mixed, scalar, parserVars>>

-----------------------------------------------------------------------------
(* Tokens of the parser. *)

ScalarToken(type, text) == [kind |-> "scalar", text |-> text, type |-> type]
ListToken == [kind |-> "list", text |-> <<<<"[">>>>, size |-> 0]
ObjectToken == [kind |-> "object", text |-> <<<<"{">>>>, keys |-> {}]
ColonToken == [kind |-> "colon", text |-> <<<<":">>>>]

\* decode_string: an escape takes the character behind it, the closing quotation
\* mark included; one it does not know vanishes.
DecodeString(w) ==
  LET step(d, c) ==
        CASE d.escape /\ c \in {Quote, Backslash, "/"} -> [out |-> Append(d.out, c), escape |-> FALSE]
          [] d.escape /\ c = "n"   -> [out |-> Append(d.out, "nl"), escape |-> FALSE]
          [] d.escape              -> [out |-> d.out, escape |-> FALSE]
          [] c = Backslash         -> [out |-> d.out, escape |-> TRUE]
          [] OTHER                 -> [out |-> Append(d.out, c), escape |-> FALSE]
      d == FoldLeft(step, [out |-> <<>>, escape |-> FALSE], SubSeq(w, 2, Len(w) - 1))
  IN IF d.escape THEN Append(d.out, Quote) ELSE d.out

\* Where a token that begins a lexeme ends, and its type; "bad" when it throws.
Lexed(type, last) == [type |-> type, last |-> last]

ParseString(w) ==
  LET last == SelectInSubSeq(w, 2, Len(w), LAMBDA c : c = Quote)
  IN IF last = 0 THEN Lexed("bad", 0) ELSE Lexed("STRING", last)

\* The character behind the keyword, which _parse_keyword looks at, begins the next
\* lexeme here; at the end of the input the code reads one past the view.
ParseKeyword(w) == Lexed(IF w = <<"null">> THEN "NUL" ELSE "BOOLEAN", 1)

ParseNumber(w) ==
  LET first == IF w[1] \in Sign THEN 2 ELSE 1
      stop  == SelectInSubSeq(w, first, Len(w), LAMBDA c : c \notin Digit \cup {"."})
      last  == IF stop = 0 THEN Len(w) ELSE stop - 1
      points == Cardinality({k \in first .. last : w[k] = "."})
  IN IF \/ first > Len(w) \/ w[first] \notin Digit
        \/ w[first] = "0" /\ first < Len(w) /\ w[first + 1] \in Digit
        \/ points > 1 \/ w[last] = "."
     THEN Lexed("bad", 0)
     ELSE Lexed(IF points = 1 THEN "FLOAT" ELSE "INTEGER", last)

Lex(w) ==
  CASE w[1] = Quote  -> ParseString(w)
    [] w \in Keyword -> ParseKeyword(w)
    [] OTHER         -> ParseNumber(w)

\* The is_* and get_* of the tokens, by the type SerializedValue::as asks
\* for: the value, or <<"throws">>.
Decoded(t) == DecodeString(t.text[1])

ScalarIsA(t, as) ==
  CASE as = "null"     -> t.type = "NUL"
    [] as = "boolean"  -> t.type = "BOOLEAN"
    [] as = "char"     -> t.type = "STRING" /\ Len(Decoded(t)) = 1
    [] as = "signed"   -> t.type = "INTEGER"
    [] as = "unsigned" -> t.type = "INTEGER" /\ t.text[1][1] # "-"
    [] as = "floating" -> t.type \in {"INTEGER", "FLOAT"}
    [] as = "string"   -> t.type = "STRING"

ListIsA(t, as)   == FALSE
ObjectIsA(t, as) == FALSE

IsA(t, as) ==
  CASE t.kind = "scalar" -> ScalarIsA(t, as)
    [] t.kind = "list"   -> ListIsA(t, as)
    [] t.kind = "object" -> ObjectIsA(t, as)

HasIndex(t, i) == t.kind = "list" /\ i < t.size
HasKey(t, k)   == t.kind = "object" /\ k \in t.keys

Magnitude(w) == IF w[1] \in Sign THEN Tail(w) ELSE w

InRange(w, as) ==
  CASE as = "signed"   -> ~Contains(w, "M")
    [] as = "unsigned" -> ~Contains(w, "M") \/ Magnitude(w) = <<"M">>
    [] OTHER           -> TRUE

GetAs(t, as) ==
  CASE as = "null"  -> <<"null">>
    [] as # "null" /\ (~IsA(t, as) \/ ~InRange(t.text[1], as)) -> <<"throws">>
    [] as \in {"char", "string"} /\ IsA(t, as) -> Decoded(t)
    [] OTHER -> IF t.text[1][1] = "+" THEN Tail(t.text[1]) ELSE t.text[1]

-----------------------------------------------------------------------------
(* The parser. *)

Parsing == verdict = "none" /\ (world = "input" \/ (written > 0 /\ ~Writing /\ fault = "none"))

\* Every sequence of punctuation, two keys and a number; or one word of a number.
InputLexeme ==
  {<<"{">>, <<"}">>, <<"[">>, <<"]">>, <<":">>, <<",">>, <<"1">>}
    \cup {Quoted(k) : k \in Key}

NumberWord == {w \in BoundedSeq(Digit \cup Sign \cup {".", "e"}, MaxDigits) :
                 w # <<>> /\ w[1] \in Digit \cup Sign}

NextLexemes ==
  IF world # "input"
  THEN {out[i] : i \in {Len(input) + 1} \cap DOMAIN out}
  ELSE IF input = <<>> THEN InputLexeme \cup NumberWord
  ELSE IF Len(input) < MaxInput /\ input[1] \in InputLexeme THEN InputLexeme
  ELSE {}

Reads(w) ==
  /\ Parsing
  /\ w \in NextLexemes
  /\ input' = Append(input, w)
  /\ grammar' = Advance(grammar, w)
  /\ UNCHANGED <<world, writerVars>>

Throws(error) == verdict' = error /\ UNCHANGED <<stack, final>>
Becomes(s, f) == stack' = s /\ final' = f /\ UNCHANGED verdict

\* A slip: a value that was parsed replaces what the list had.
ListReplaced(list, value) == [list EXCEPT !.text = <<<<"[">>>> \o value.text, !.size = 1]

PushBack(list, value) == [list EXCEPT !.text = @ \o value.text, !.size = @ + 1]

\* The key between its quotation marks, its escapes left in.
RawKey(key) == SubSeq(key.text[1], 2, Len(key.text[1]) - 1)

Insert(object, key, value) ==
  [object EXCEPT !.text = @ \o key.text \o <<<<":">>>> \o value.text,
                 !.keys = @ \cup {RawKey(key)}]

\* _pop_top: the finished value goes to where it belongs.
PopTop(below, value) ==
  LET n == Len(below)
      top == Last(below)
  IN CASE below = <<>> -> Becomes(<<>>, <<value>>)
       [] below # <<>> /\ top.kind = "object" ->
            IF value.kind = "scalar" /\ value.type = "STRING"
            THEN Becomes(Append(below, value), final) ELSE Throws("unexpected")
       [] below # <<>> /\ top.kind = "list" ->
            Becomes(Append(Front(below), PushBack(top, value)), final)
       [] below # <<>> /\ top.kind = "colon" ->
            IF HasKey(below[n - 2], RawKey(below[n - 1]))
            THEN Throws("duplicateKey")
            ELSE Becomes(Append(SubSeq(below, 1, n - 3), Insert(below[n - 2], below[n - 1], value)),
                         final)
       [] OTHER -> Throws("unexpected")    \* a key is followed by a value

\* More input after the value.
AfterFinal(w) == Reads(w) /\ final # <<>> /\ Throws("unexpected")

Opens(w) ==
  /\ Reads(w) /\ final = <<>>
  /\ w \in {<<"{">>, <<"[">>}
  /\ Becomes(Append(stack, IF w = <<"{">> THEN ObjectToken ELSE ListToken), final)

\* top() of an empty stack is undefined; a build may throw or go astray.
Closes(w) ==
  /\ Reads(w) /\ final = <<>>
  /\ w \in {<<"}">>, <<"]">>}
  /\ IF stack = <<>>
     THEN Throws("undefined")
     ELSE IF Last(stack).kind = (IF w = <<"}">> THEN "object" ELSE "list")
     THEN PopTop(Front(stack), [Last(stack) EXCEPT !.text = Append(@, w)])
     ELSE Throws("unexpected")

Colon(w) ==
  /\ Reads(w) /\ final = <<>>
  /\ w = <<":">>
  /\ IF stack # <<>> /\ Last(stack).kind = "scalar"
     THEN Becomes(Append(stack, ColonToken), final) ELSE Throws("unexpected")

\* A slip: a comma is only taken in lists.
CommaInLists(w) ==
  /\ Reads(w) /\ final = <<>>
  /\ w = <<",">>
  /\ IF stack # <<>> /\ Last(stack).kind = "list" THEN Becomes(stack, final) ELSE Throws("unexpected")

\* A comma is only looked at.
Comma(w) ==
  /\ Reads(w) /\ final = <<>>
  /\ w = <<",">>
  /\ IF stack = <<>>
     THEN Throws("undefined")
     ELSE IF Last(stack).kind \in {"list", "object"} THEN Becomes(stack, final) ELSE Throws("unexpected")

\* Characters left over are parsed next; after a value of the outermost level
\* they are "additional input".
ParseScalar(w) ==
  /\ Reads(w) /\ final = <<>>
  /\ Class(w) \in {"string", "scalar", "unknown"}
  /\ LET l == Lex(w)
         t == ScalarToken(l.type, <<SubSeq(w, 1, l.last)>>)
     IN IF l.type = "bad" \/ l.last < Len(w) THEN Throws("unexpected") ELSE PopTop(stack, t)

\* parse returns its value.
EndOfInput ==
  /\ Parsing
  /\ world # "input" => NextLexemes = {}
  /\ verdict' = IF stack = <<>> /\ final # <<>> THEN "accepted" ELSE "endOfInput"
  /\ UNCHANGED <<world, writerVars, input, grammar, stack, final>>

-----------------------------------------------------------------------------
Init ==
  /\ world \in World
  /\ frames = <<>> /\ written = 0 /\ mixed = FALSE
  /\ out = <<>> /\ state = <<"VALUE">> /\ fault = "none"
  /\ scalar = <<>>
  /\ input = <<>> /\ grammar = Start
  /\ stack = <<>> /\ final = <<>> /\ verdict = "none"

Write ==
  \/ /\ world = "scalar"
     /\ \E v \in WrittenScalars : WriteScalar(v)
  \/ /\ world = "document"
     /\ \/ \E v \in {Plain("signed", <<"0">>), Scalar("string", <<"a">>, Quoted(<<"a">>))} :
             written < MaxWritten /\ WriteScalar(v)
        \/ StartList \/ StartObject
        \/ \E k \in Key : WriteKey(k)
  \/ EndList \/ EndObject \/ EndPair

Parse ==
  \/ \E w \in NextLexemes :
       AfterFinal(w) \/ Opens(w) \/ Closes(w) \/ Colon(w) \/ Comma(w) \/ ParseScalar(w)
  \/ EndOfInput

Next == Write \/ Parse

Spec == Init /\ [][Next]_vars

-----------------------------------------------------------------------------
(* Properties. *)

WithoutCommas(s) == FlattenSeq([i \in DOMAIN s |-> IF s[i] = <<",">> THEN <<>> ELSE <<s[i]>>])

\* The parser neither loses nor reorders anything: commas aside, the lexemes it
\* has read are those of the tokens on its stack and of the final value, and a
\* number token is a number of its type.
ParserHoldsInput ==
  verdict \in {"none", "accepted"} =>
    LET tokens == stack \o final
    IN /\ FlattenSeq([i \in DOMAIN tokens |-> tokens[i].text]) = WithoutCommas(input)
       /\ \A i \in DOMAIN tokens :
            tokens[i].kind = "scalar" /\ tokens[i].type \in {"INTEGER", "FLOAT"} =>
              IsNumber(tokens[i].text[1], tokens[i].type)

IsKey(i) == Class(input[i]) = "string" /\ i < Len(input) /\ input[i + 1] = <<":">>

EscapedQuote(w) == w[1] = Quote /\ \E k \in 2 .. Len(w) - 1 : w[k] = Quote

\* Every document without an escaped quotation mark is accepted: nothing
\* unexpected is met as long as what was read begins a document, and parse
\* returns when it is one; only a key that came before is refused.
AcceptsDocuments ==
  /\ grammar # Wrong /\ (\A i \in DOMAIN input : ~EscapedQuote(input[i])) =>
       verdict \notin {"unexpected", "undefined"}
  /\ grammar = Complete => verdict # "endOfInput"
  /\ verdict = "duplicateKey" =>
       \E i, j \in DOMAIN input : i < j /\ IsKey(i) /\ IsKey(j) /\ input[i] = input[j]

\* What the text can show: no quotation mark and, of a double, a finite one of at
\* most six significant digits that is written without an exponent.
Showable(v) ==
  /\ ~Contains(v.value, Quote)
  /\ v.as = "floating" =>
       /\ v.value # <<"nan">> /\ ~Contains(v.text, "e")
       /\ Cardinality(Significant(v.value)) <= Precision

\* A scalar that is written as a type is read back as that type with the value
\* it had, if its text can show it (put_floating_point keeps six digits); a list
\* that was parsed has as many elements, and an object the keys, that the text
\* shows (said of those that nest nothing).
ReadsBack ==
  /\ world = "scalar" /\ scalar # <<>> =>
       LET v == scalar[1]
       IN Showable(v) =>
            /\ fault = "none" /\ verdict \in {"none", "accepted"}
            /\ verdict = "accepted" => GetAs(final[1], v.as) = v.value
  /\ verdict = "accepted" /\ final[1].kind # "scalar" =>
       LET doc == final[1]
           inner == {i \in 2 .. Len(input) - 1 : Class(input[i]) \in {"string", "scalar"}}
       IN (\A i \in 2 .. Len(input) : input[i] \notin {<<"[">>, <<"{">>}) =>
            /\ \A i \in 0 .. Len(input) :
                 HasIndex(doc, i) <=> doc.kind = "list" /\ i < Cardinality(inner)
            /\ \A k \in Key :
                 HasKey(doc, k) <=> \E i \in DOMAIN input : IsKey(i) /\ input[i] = Quoted(k)
            /\ GetAs(doc, "string") = <<"throws">>

\* "In JSON formatting, this tag results in `[` being inserted before ... and `]`
\* being inserted afterwards ... put a `,` before the 2nd through nth values"
\* (serializer.h): a value that Serializer::write nests properly is formatted without
\* an error, as one document, as long as it puts no list into a pair and no object
\* into a list.  With those the formatter's stack, which no end_* pops, goes wrong.
FormatsUnmixedValues ==
  ~mixed => /\ fault = "none"
            /\ world = "document" =>
                 grammar # Wrong /\ (verdict = "accepted" => grammar = Complete)
=============================================================================
