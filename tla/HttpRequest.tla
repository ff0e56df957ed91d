----------------------------- MODULE HttpRequest -----------------------------
(***************************************************************************)
(* lw::HttpRequest::read_header (lw/http/http_request.cpp): the parsing of *)
(* a header that was read up to its blank line.  A parse yields a sequence *)
(* of at most one result: none is the InvalidArgument the parser throws.   *)
(*                                                                         *)
(* The names of methods, of the headers the code asks for, and their       *)
(* values are one character each.                                          *)
(***************************************************************************)
EXTENDS MountPath

CR == "\r"
LF == "\n"
CRLF == <<CR, LF>>
BlankLine == CRLF \o CRLF
Space == {" ", CR, LF}

Connection    == <<"connection">>
ContentLength == <<"content-length">>
KeepAlive     == <<"keep-alive">>

Malformed == <<>>

\* check_is_space: a space that does not end the line.
IsSpace(text, i) == i <= Len(text) /\ text[i] \in Space \ {CR, LF}

-----------------------------------------------------------------------------
(* The query.  Places are the code's: key_start, key_end, value_start. *)

\* insert_view_pairs; the last place of a view is not part of it.
InsertViewPairs(q, view, i) ==
  IF q.key_start >= q.key_end THEN q.pairs
  ELSE Insert(q.pairs, SubSeq(view, q.key_start, q.key_end - 1), SubSeq(view, q.value_start, i - 1))

\* A slip: after an & the key is taken to go on.
QueryCharJoined(q, view, i) ==
  LET c == view[i]
      r == IF q.parsing_key
           THEN [q EXCEPT !.key_end = i, !.value_start = i + 1, !.parsing_key = (c # "=")] ELSE q
  IN IF c # "&" THEN r
     ELSE [r EXCEPT !.pairs = InsertViewPairs(r, view, i),
                    !.key_start = i + 1, !.key_end = i + 1, !.value_start = i + 1]

QueryChar(q, view, i) ==
  LET c == view[i]
      r == IF q.parsing_key
           THEN [q EXCEPT !.key_end = i, !.value_start = i + 1, !.parsing_key = (c # "=")] ELSE q
  IN IF c # "&" THEN r
     ELSE [pairs |-> InsertViewPairs(r, view, i), parsing_key |-> TRUE,
           key_start |-> i + 1, key_end |-> i + 1, value_start |-> i + 1]

\* parse_query_params, with the parameter no & ends.
ParseQueryParams(view) ==
  LET start == [pairs |-> NoPairs, parsing_key |-> TRUE,
                key_start |-> 1, key_end |-> 1, value_start |-> 1]
      q == FoldLeft(LAMBDA r, i : QueryChar(r, view, i), start, [i \in DOMAIN view |-> i])
  IN IF q.key_start # Len(view) + 1 THEN InsertViewPairs(q, view, Len(view) + 1) ELSE q.pairs

-----------------------------------------------------------------------------

\* _parse_method_line.  The space after the query is given to the query too.
ParseMethodLine(text) ==
  LET verb    == Scan(text, 1, Space)
      path    == Scan(text, verb + 1, Space \cup {"?"})
      target  == Scan(text, path, Space)
      version == Scan(text, target + 1, Space)
  IN IF /\ IsSpace(text, verb) /\ IsSpace(text, target)
        /\ version < Len(text) /\ SubSeq(text, version, version + 1) = CRLF
     THEN <<[method |-> SubSeq(text, 1, verb - 1), path |-> SubSeq(text, verb + 1, path - 1),
             query |-> ParseQueryParams(SubSeq(text, path + 1, target)), next |-> version + 2]>>
     ELSE Malformed

LineEnd(text, i) ==
  Min({j \in i..(Len(text) - 1) : SubSeq(text, j, j + 1) = CRLF} \cup {Len(text) + 1})

\* check_not_line_end, at every place up to the colon.
NotLineEnd(text, i) == i <= Len(text) /\ text[i] \notin {CR, LF}

\* parse_header_line, from i on.
ParseHeaderLine(text, i) ==
  LET colon == Scan(text, i, {":", CR, LF})
      value == Scan(text, colon + 1, ToSet(text) \ {" "})
      end   == LineEnd(text, value)
  IN IF NotLineEnd(text, colon) /\ value <= Len(text) /\ end <= Len(text)
     THEN <<[name |-> SubSeq(text, i, colon - 1), value |-> SubSeq(text, value, end - 1), next |-> end + 2]>>
     ELSE Malformed

\* _parse_headers: the headers up to the blank line or up to one that is malformed.
ParseHeaders(text, i) ==
  LET Next(h, k) ==
        LET line == ParseHeaderLine(text, h.next)
        IN IF ~h.more THEN h
           ELSE IF h.next < Len(text) /\ SubSeq(text, h.next, h.next + 1) = CRLF
                THEN [h EXCEPT !.more = FALSE]
           ELSE IF line = Malformed THEN [h EXCEPT !.more = FALSE, !.malformed = TRUE]
           ELSE [h EXCEPT !.headers = Insert(@, line[1].name, line[1].value), !.next = line[1].next]
  IN FoldLeft(Next, [headers |-> NoPairs, next |-> i, more |-> TRUE, malformed |-> FALSE], text)

\* std::from_chars; a numeral is one character, and MaxLength bounds the lengths there are.
MaxLength == 40
IsNumber(value) == \E n \in 0..MaxLength : value = <<ToString(n)>>
Number(value) == CHOOSE n \in 0..MaxLength : value = <<ToString(n)>>

\* _parse_content_length: a length that is missing is zero.
ParseContentLength(headers) ==
  IF ContentLength \notin DOMAIN headers THEN <<0>>
  ELSE IF IsNumber(headers[ContentLength]) THEN <<Number(headers[ContentLength])>>
  ELSE Malformed

\* read_header, once the text is there; a header that is malformed keeps what was parsed.
ReadHeader(text) ==
  LET line == ParseMethodLine(text)
      h == ParseHeaders(text, line[1].next)
      length == ParseContentLength(h.headers)
  IN IF line = Malformed
     THEN [ok |-> FALSE, method |-> <<>>, path |-> <<>>, query |-> NoPairs, headers |-> NoPairs, length |-> 0]
     ELSE [ok |-> ~h.malformed /\ length # Malformed,
           method |-> line[1].method, path |-> line[1].path, query |-> line[1].query,
           headers |-> h.headers,
           length |-> IF h.malformed \/ length = Malformed THEN 0 ELSE length[1]]
=============================================================================
