------------------------------ MODULE MountPath ------------------------------
(***************************************************************************)
(* Routes of lw::http (lw/http/internal/http_mount_path.{h,cpp}): parsing  *)
(* a route into matchers, matching one route against a path, and the trie  *)
(* that holds all routes of a router.                                      *)
(*                                                                         *)
(* Text is a sequence of characters.  The name of a parameter type and a   *)
(* regular expression are one character each, "F" is the upper case of "f".*)
(***************************************************************************)
EXTENDS Integers, Sequences, SequencesExt, FiniteSets, FiniteSetsExt

SEP      == "/"
End      == "end of the text"
Digit    == {"0", "1"}
Alnum    == Digit \cup {"f", "F", "o", "b", "x", "y", "z", "j"}
Wildcard == "*"

\* std::toupper, which folds the case.
ToUpper(c) == IF c = "f" THEN "F" ELSE c
Upper(s) == [i \in DOMAIN s |-> ToUpper(s[i])]

\* CaseInsensitiveEqual.
SameText(s, t) == Upper(s) = Upper(t)

\* An std::map with CaseInsensitiveLess: operator[] overwrites, insert does not.
NoPairs == [k \in {} |-> <<>>]
Put(m, k, v) == [n \in DOMAIN m \cup {Upper(k)} |-> IF n = Upper(k) THEN v ELSE m[n]]
Insert(m, k, v) == IF Upper(k) \in DOMAIN m THEN m ELSE Put(m, k, v)

\* The first place from i on that holds one of these characters, or past the end.
Scan(text, i, chars) ==
  Min({j \in i..Len(text) : text[j] \in chars} \cup {Max({i, Len(text) + 1})})

-----------------------------------------------------------------------------
(* The matchers.  A match is a sequence of at most one value. *)

NoMatch == <<>>

\* std::regex, as far as a route uses it: "d+" has no group, "(f).*" has one.
RegexMatch(re, part) ==
  IF re = <<"d+">> /\ ToSet(part) \subseteq Digit THEN <<part>>
  ELSE IF re = <<"(f).*">> /\ ToUpper(Head(part)) = "F" THEN <<SubSeq(part, 1, 1)>>
  ELSE NoMatch

UIntValidator(part) == ToSet(part) \subseteq Digit
IntValidator(part) == UIntValidator(IF Head(part) = "-" THEN Tail(part) ELSE part)
Validates(type, part) ==
  (type = "int" => IntValidator(part)) /\ (type = "uint" => UIntValidator(part))

\* ParameterPathMatcher::match: an extension is required and cut off.
WithoutExtension(ext, part) ==
  LET cut == Len(part) - Len(ext)
  IN IF ext = <<>> THEN <<part>>
     ELSE IF cut > 0 /\ SameText(ext, SubSeq(part, cut + 1, Len(part)))
          THEN <<SubSeq(part, 1, cut)>> ELSE NoMatch

PathMatch(m, part) ==
  CASE m.kind = "literal" -> IF SameText(m.chunk, part) THEN <<part>> ELSE NoMatch
    [] m.kind = "regex"   -> RegexMatch(SubSeq(m.chunk, 5, Len(m.chunk)), part)
    [] m.kind = "param"   ->
         SelectSeq(WithoutExtension(m.ext, part), LAMBDA v : Validates(m.type, v))

-----------------------------------------------------------------------------
(* parse_into_matchers, one character at a time. *)

ParseStart ==
  [state |-> "START", chunk |-> <<>>, name |-> <<>>, ext |-> <<>>, type |-> "",
   escaping |-> FALSE, unnamed |-> 0, matchers |-> <<>>, thrown |-> FALSE]

Throw(p) == [p EXCEPT !.thrown = TRUE]
Emit(p, kind, name, type) ==
  [p EXCEPT !.state = "START",
            !.matchers = Append(@, [kind |-> kind, chunk |-> p.chunk, name |-> name,
                                    ext |-> p.ext, type |-> type])]

\* PARAMETER_END.  `type` is that of the last typed part, never reset.
EmitParameter(p) ==
  IF p.type \in {"", "int", "uint"} THEN Emit(p, "param", p.name, p.type) ELSE Throw(p)

ParseChar(was, c) ==
  LET p    == IF was.state = "PARAMETER_END" THEN EmitParameter(was) ELSE was
      ends == c \in {SEP, End}
      Add(q) == [q EXCEPT !.chunk = Append(@, c)]
  IN
  CASE was.thrown \/ p.thrown -> Throw(p)
    [] p.state = "START" ->
         IF ends THEN p
         ELSE [p EXCEPT !.chunk = <<c>>, !.name = <<>>,
                        !.state = IF c = ":" THEN "PARAMETER_START" ELSE "LITERAL"]
    [] p.state = "LITERAL" -> IF ends THEN Emit([p EXCEPT !.ext = <<>>], "literal", p.chunk, "") ELSE Add(p)
    [] p.state = "PARAMETER_START" ->
         IF c = "[" THEN Add([p EXCEPT !.state = "PARAMETER_TYPE", !.type = ""])
         ELSE IF c \in Alnum THEN Add([p EXCEPT !.state = "PARAMETER_NAME", !.name = <<c>>])
         ELSE Throw(p)
    [] p.state = "PARAMETER_TYPE" ->
         IF c = End \/ (c = "]" /\ p.type = "") THEN Throw(p)
         ELSE IF c # "]" THEN Add([p EXCEPT !.type = c])
         ELSE Add([p EXCEPT !.state = IF p.type = "re" THEN "REGEX" ELSE "PARAMETER_NAME",
                            !.unnamed = @ + (IF p.type = "re" THEN 1 ELSE 0)])
    [] p.state = "PARAMETER_NAME" ->
         IF (ends \/ c = ".") /\ p.name = <<>> THEN Throw(p)
         ELSE IF ends THEN [p EXCEPT !.ext = <<>>, !.state = "PARAMETER_END"]
         ELSE IF c = "." THEN Add([p EXCEPT !.ext = <<c>>, !.state = "PARAMETER_EXTENSION"])
         ELSE IF c \in Alnum THEN Add([p EXCEPT !.name = Append(@, c)])
         ELSE Throw(p)
    [] p.state = "PARAMETER_EXTENSION" ->
         IF ends THEN IF Len(p.ext) = 1 THEN Throw(p) ELSE [p EXCEPT !.state = "PARAMETER_END"]
         ELSE IF c \in Alnum \cup {"."} THEN Add([p EXCEPT !.ext = Append(@, c)])
         ELSE Throw(p)
    [] p.state = "REGEX" ->
         IF p.escaping THEN IF c = End THEN p ELSE Add([p EXCEPT !.escaping = FALSE])
         ELSE IF ends THEN Emit([p EXCEPT !.ext = <<>>], "regex", <<ToString(p.unnamed)>>, "")
         ELSE Add([p EXCEPT !.escaping = (c = "\\")])

\* parse_endpoint: the matchers, and whether InvalidArgument was thrown.
ParseEndpoint(route) ==
  LET p == FoldLeft(ParseChar, ParseStart, Append(route, End))
  IN IF p.state = "PARAMETER_END" /\ ~p.thrown THEN EmitParameter(p) ELSE p

-----------------------------------------------------------------------------
(* MountPath::match. *)

\* Where the parts of a path start; an empty part is skipped.
PartStarts(path) ==
  SetToSortSeq({i \in DOMAIN path : path[i] # SEP /\ (i > 1 => path[i - 1] = SEP)}, <)

PartAt(path, i) == SubSeq(path, i, Scan(path, i + 1, {SEP}) - 1)

\* After a separator part_start is null: another separator, or the end of the path, makes
\* a string_view from it if a matcher is still waiting.
MatchUndefined(matchers, path) ==
  LET starts == PartStarts(path)
  IN \E j \in DOMAIN path :
       /\ path[j] = SEP /\ (j = Len(path) \/ path[j + 1] = SEP)
       /\ LET met == Cardinality({k \in DOMAIN starts : starts[k] < j})
          IN met < Len(matchers)
             /\ \A k \in 1..met : PathMatch(matchers[k], PartAt(path, starts[k])) # NoMatch

\* One parameter after the other, the later of two with one name winning.
Bound(matchers, values) ==
  FoldLeft(LAMBDA m, k : IF matchers[k].kind = "literal" THEN m ELSE Put(m, matchers[k].name, values[k]),
           NoPairs, [k \in DOMAIN matchers |-> k])

\* The parameters, if the route matches and match is not undefined; one separator may follow the last part.
MountPathMatch(matchers, path) ==
  LET starts == PartStarts(path)
      n == Len(matchers)
      rest == IF n = 0 THEN 1 ELSE Scan(path, starts[n], {SEP}) + 1
  IN IF /\ n <= Len(starts) /\ ~MatchUndefined(matchers, path)
        /\ \A k \in 1..n : PathMatch(matchers[k], PartAt(path, starts[k])) # NoMatch
        /\ rest > Len(path)
     THEN <<Bound(matchers, [k \in 1..n |-> PathMatch(matchers[k], PartAt(path, starts[k]))[1]])>>
     ELSE NoMatch

-----------------------------------------------------------------------------
(* The trie.  A node is the path of edges that leads to it. *)

EmptyTrie == [nodes |-> {<<>>}, wildcard |-> [n \in {} |-> {}], endpoint |-> [n \in {} |-> {}]]

Extend(f, k, v) == [n \in DOMAIN f \cup {k} |-> IF n = k THEN v ELSE f[n]]

\* _build_literal_path.
BuildLiteralPath(b, part) ==
  [b EXCEPT !.node = @ \o part,
            !.trie.nodes = @ \cup {b.node \o SubSeq(part, 1, k) : k \in 1..Len(part)}]

\* A slip: another parameter at the same place is taken for the same one.
BuildMatcherShared(was, m) ==
  LET b == BuildLiteralPath(was, <<SEP>>)
      under == Append(b.node, Wildcard)
  IN IF was.thrown THEN was
     ELSE IF m.kind = "literal" THEN BuildLiteralPath(b, m.chunk)
     ELSE IF b.node \in DOMAIN b.trie.wildcard THEN [b EXCEPT !.node = under]
     ELSE [b EXCEPT !.node = under, !.trie.nodes = @ \cup {under},
                    !.trie.wildcard = Extend(@, b.node, m)]

\* One matcher of build_path: another parameter at the same place is refused.
BuildMatcher(was, m) ==
  LET b == BuildLiteralPath(was, <<SEP>>)
      under == Append(b.node, Wildcard)
  IN IF was.thrown THEN was
     ELSE IF m.kind = "literal" THEN BuildLiteralPath(b, m.chunk)
     ELSE IF b.node \in DOMAIN b.trie.wildcard
          THEN IF b.trie.wildcard[b.node].chunk = m.chunk THEN [b EXCEPT !.node = under]
               ELSE [b EXCEPT !.thrown = TRUE]
          ELSE [b EXCEPT !.node = under, !.trie.nodes = @ \cup {under},
                         !.trie.wildcard = Extend(@, b.node, m)]

BuildPath(trie, matchers) ==
  FoldLeft(BuildMatcher, [trie |-> trie, node |-> <<>>, thrown |-> FALSE], matchers)

\* EndpointTrie::insert; what was built before AlreadyExists stays.
TrieInsert(trie, matchers, endpoint) ==
  LET b == BuildPath(trie, matchers)
  IN IF b.thrown \/ b.node \in DOMAIN b.trie.endpoint THEN [b EXCEPT !.thrown = TRUE]
     ELSE [b EXCEPT !.trie.endpoint = Extend(@, b.node, endpoint)]

WalkStart == [node |-> <<>>, i |-> 1, stack |-> <<>>, parameters |-> NoPairs, found |-> TRUE]

\* Tries the wildcards passed by, the last one first, without those from k + 1 on.
BackTo(trie, path, w, k) ==
  LET at == w.stack[k]
      m == trie.wildcard[at.node]
      value == PathMatch(m, PartAt(path, at.i))[1]
  IN [w EXCEPT !.node = Append(at.node, Wildcard), !.i = at.i + Len(value),
               !.stack = SubSeq(@, 1, k - 1), !.parameters = Put(@, m.name, value)]

\* A slip: only the last wildcard passed by is tried.
WalkStepOnce(trie, path, w) ==
  LET p == IF w.node \in DOMAIN trie.wildcard
           THEN [w EXCEPT !.stack = Append(@, [node |-> w.node, i |-> w.i])] ELSE w
      child == Append(w.node, path[w.i])
      k == Len(p.stack)
  IN IF ~w.found \/ w.i > Len(path) THEN w
     ELSE IF child \in trie.nodes THEN [p EXCEPT !.node = child, !.i = @ + 1]
     ELSE IF k > 0 /\ PathMatch(trie.wildcard[p.stack[k].node], PartAt(path, p.stack[k].i)) # NoMatch
          THEN BackTo(trie, path, p, k) ELSE [p EXCEPT !.found = FALSE]

\* One turn of walk_path's loop.
WalkStep(trie, path, w) ==
  LET p == IF w.node \in DOMAIN trie.wildcard
           THEN [w EXCEPT !.stack = Append(@, [node |-> w.node, i |-> w.i])] ELSE w
      child == Append(w.node, path[w.i])
      matching == {k \in DOMAIN p.stack :
                     PathMatch(trie.wildcard[p.stack[k].node], PartAt(path, p.stack[k].i)) # NoMatch}
  IN IF ~w.found \/ w.i > Len(path) THEN w
     ELSE IF child \in trie.nodes THEN [p EXCEPT !.node = child, !.i = @ + 1]
     ELSE IF matching # {} THEN BackTo(trie, path, p, Max(matching))
     ELSE [p EXCEPT !.found = FALSE]

\* walk_path: no node is entered twice, so there are no more turns than nodes.
WalkPath(trie, path) ==
  FoldLeft(LAMBDA w, k : WalkStep(trie, path, w), WalkStart, [k \in 1..Cardinality(trie.nodes) |-> k])

\* EndpointTrie::match: walked to the end of the path, onto a node of some route.  The root,
\* which has no room for an endpoint in the code, is reached by the empty path only.
TrieMatches(trie, w) == w.found /\ w.node \in DOMAIN trie.endpoint
=============================================================================
