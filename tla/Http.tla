-------------------------------- MODULE Http --------------------------------
(***************************************************************************)
(* lw::HttpRouter (lw/http/http.cpp): its routes are attached, in any      *)
(* order, and one connection is run with a client that sends requests,     *)
(* possibly before the last one is answered, and may hang up.              *)
(*                                                                         *)
(* Connections share only the trie, which no longer changes, and the       *)
(* counter.  The bytes under way are segments; a receive takes one or      *)
(* several of them.                                                        *)
(***************************************************************************)
EXTENDS HttpRequest

CONSTANTS Tables,       \* the routes that may be registered: sets of routes
          Requests,     \* what a client may send
          Implemented,  \* the methods the handlers override
          MaxRequests   \* bound: requests of the client

ASSUME MaxRequestsAssumption == MaxRequests \in Nat

VARIABLES
  unattached,  \* registered routes still to be attached
  trie,        \* HttpRouter::_trie
  counter,     \* HttpRouter::_connection_counter
  pc,          \* where attach_routes or run is
  good,        \* CoStream::good
  buf,         \* bytes the request's CoReader holds
  req,         \* the HttpRequest
  answer,      \* how it was routed, and the HttpResponse
  wire,        \* segments sent and not yet received
  sent,        \* requests sent
  hungup,      \* the client closed its side
  waited,      \* the client has always waited for an answer
  out          \* the answers written

routerVars == <<unattached, trie, counter>>
clientVars == <<wire, sent, hungup, waited>>
vars == <<routerVars, pc, good, buf, req, answer, clientVars, out>>

Methods == {"DELETE", "GET", "HEAD", "OPTIONS", "PATCH", "POST", "PUT"}

\* The codes default_status_message knows.
KnownStatus ==
  (100..103) \cup (200..208) \cup {226} \cup (300..308) \cup (400..418) \cup (421..426)
    \cup {428, 429, 431, 451} \cup (500..508) \cup {510, 511}

-----------------------------------------------------------------------------
(* What a client writes, and the text of a route. *)

Joined(parts, sep) == FlattenSeq([k \in DOMAIN parts |-> IF k = 1 THEN parts[k] ELSE sep \o parts[k]])

PathText(path) == FlattenSeq([k \in DOMAIN path |-> <<SEP>> \o path[k]])

QueryText(query) ==
  IF query = <<>> THEN <<>>
  ELSE <<"?">> \o Joined([k \in DOMAIN query |-> Joined(query[k], <<"=">>)], <<"&">>)

\* A request may lack its version or the colon of its first header.
HeaderText(r) ==
  LET colon(k) == IF r.defect = "colon" /\ k = 1 THEN <<>> ELSE <<":", " ">>
  IN r.method \o <<" ">> \o PathText(r.path) \o QueryText(r.query)
       \o (IF r.defect = "version" THEN <<>> ELSE <<" ", "v">>) \o CRLF
       \o FlattenSeq([k \in DOMAIN r.headers |-> r.headers[k][1] \o colon(k) \o r.headers[k][2] \o CRLF])
       \o CRLF

\* The body is kept by the segments it is sent in.
Segments(r) == <<HeaderText(r)>> \o r.body

PartText(p) ==
  CASE p.kind = "literal" -> p.text
    [] p.kind = "regex"   -> <<":", "[", "re", "]">> \o p.text
    [] p.kind = "param"   ->
         <<":">> \o (IF p.type = "" THEN <<>> ELSE <<"[", p.type, "]">>) \o p.text \o p.ext

RouteText(route) == FlattenSeq([k \in DOMAIN route |-> <<SEP>> \o PartText(route[k])])

-----------------------------------------------------------------------------

NoRequest == ReadHeader(<<>>)
NoAnswer == [route |-> <<>>, parameters |-> NoPairs, found |-> TRUE, status |-> 0, drained |-> FALSE]

Init ==
  /\ unattached \in Tables
  /\ trie = EmptyTrie /\ counter = 0
  /\ pc = "attach" /\ good = TRUE
  /\ buf = <<>> /\ req = NoRequest /\ answer = NoAnswer
  /\ wire = <<>> /\ sent = <<>> /\ hungup = FALSE /\ waited = TRUE
  /\ out = <<>>

\* attach_routes; an error leaves Server::listen and nothing is served.
AttachRoute(route) ==
  /\ pc = "attach" /\ route \in unattached
  /\ \E p \in {ParseEndpoint(RouteText(route))} : \E b \in {TrieInsert(trie, p.matchers, route)} :
       IF p.thrown
       THEN pc' = "refused" /\ UNCHANGED trie
       ELSE pc' = (IF b.thrown THEN "refused" ELSE pc) /\ trie' = b.trie
  /\ unattached' = unattached \ {route}
  /\ UNCHANGED <<counter, good, buf, req, answer, clientVars, out>>

-----------------------------------------------------------------------------
(* The client. *)

Served == pc \notin {"attach", "refused"}

Send(r) ==
  /\ Served /\ good /\ ~hungup /\ Len(sent) < MaxRequests
  /\ wire' = wire \o Segments(r)
  /\ sent' = Append(sent, r)
  /\ waited' = (waited /\ Len(out) = Len(sent))
  /\ UNCHANGED <<routerVars, pc, good, buf, req, answer, hungup, out>>

HangUp ==
  /\ Served /\ ~hungup
  /\ hungup' = TRUE
  /\ UNCHANGED <<routerVars, pc, good, buf, req, answer, wire, sent, waited, out>>

-----------------------------------------------------------------------------
(* HttpRouter::run. *)

Run ==
  /\ pc = "attach" /\ unattached = {}
  /\ counter' = counter + 1
  /\ pc' = "loop"
  /\ UNCHANGED <<unattached, trie, good, buf, req, answer, clientVars, out>>

\* The loop: a new reader, request and response each time round.
NextRequest ==
  /\ pc = "loop" /\ good
  /\ pc' = "header" /\ buf' = <<>> /\ req' = NoRequest /\ answer' = NoAnswer
  /\ UNCHANGED <<routerVars, good, clientVars, out>>

EndRun ==
  /\ pc = "loop" /\ ~good
  /\ counter' = counter - 1
  /\ pc' = "done"
  /\ UNCHANGED <<unattached, trie, good, buf, req, answer, clientVars, out>>

\* Where the first blank line in what was read ends, or zero.
HeaderEnd(text) ==
  Min({k \in 4..Len(text) : SubSeq(text, k - 3, k) = BlankLine} \cup {Len(text) + 1}) % (Len(text) + 1)

Reading == \/ pc = "header" /\ HeaderEnd(buf) = 0
           \/ pc = "body" /\ Len(buf) < req.length

\* Socket::_do_recv, with something to receive or with nothing ever coming.
Receive ==
  /\ Reading /\ pc = "header" /\ wire # <<>>
  /\ \E k \in 1..Len(wire) :
       /\ buf' = buf \o FlattenSeq(SubSeq(wire, 1, k))
       /\ wire' = SubSeq(wire, k + 1, Len(wire))
  /\ UNCHANGED <<routerVars, pc, good, req, answer, sent, hungup, waited, out>>

\* CoReader::read loads once, at most what is missing, and returns what there is then.
ReceiveBody ==
  /\ Reading /\ pc = "body" /\ wire # <<>>
  /\ \E k \in 1..Len(wire) :
       LET here == FlattenSeq(SubSeq(wire, 1, k))
           n    == Min({Len(here), req.length - Len(buf)})
           left == SubSeq(here, n + 1, Len(here))
       IN /\ wire' = (IF left = <<>> THEN <<>> ELSE <<left>>) \o SubSeq(wire, k + 1, Len(wire))
          /\ answer' = [answer EXCEPT !.drained = (Len(buf) + n = req.length)]
  /\ buf' = <<>> /\ pc' = "handled"
  /\ UNCHANGED <<routerVars, good, req, sent, hungup, waited, out>>

\* The socket is closed.  Of a header nothing was read: read_until returns nothing, which
\* is malformed; or some was, and the next load throws into run.  A body is what there is.
ReceiveEnd ==
  /\ Reading /\ wire = <<>> /\ hungup
  /\ good' = FALSE
  /\ \/ /\ pc = "header" /\ buf = <<>>
        /\ pc' = "finish" /\ answer' = [answer EXCEPT !.status = 400]
     \/ /\ pc = "header" /\ buf # <<>>
        /\ pc' = "loop" /\ UNCHANGED answer
     \/ /\ pc = "body"
        /\ pc' = "handled" /\ UNCHANGED answer
  /\ UNCHANGED <<routerVars, buf, req, clientVars, out>>

TryReadHeader == ReadHeader(SubSeq(buf, 1, HeaderEnd(buf)))

RespondFailure(a, status) == [a EXCEPT !.status = status]

\* _default_behavior of a method the handler does not override.
DefaultBehavior(a) == [a EXCEPT !.status = 404]

\* The header, then the handler of the route and its method, or a failure.
RunRequest ==
  /\ pc = "header" /\ HeaderEnd(buf) # 0
  /\ \E r \in {TryReadHeader} : \E w \in {WalkPath(trie, r.path)} :
       LET matches == r.ok /\ TrieMatches(trie, w)
           matched == [NoAnswer EXCEPT !.route = trie.endpoint[w.node], !.parameters = w.parameters]
           Method(ms) == r.method \in {<<m>> : m \in ms}
       IN /\ req' = r
          /\ \/ /\ ~r.ok
                /\ answer' = RespondFailure(NoAnswer, 400) /\ pc' = "finish"
             \/ /\ r.ok /\ ~matches
                /\ answer' = RespondFailure([NoAnswer EXCEPT !.found = w.found], 404) /\ pc' = "finish"
             \/ /\ matches /\ ~Method(Methods)
                /\ answer' = RespondFailure(matched, 400) /\ pc' = "finish"
             \/ /\ matches /\ Method(Methods \ Implemented)
                /\ answer' = DefaultBehavior(matched) /\ pc' = "finish"
             \/ /\ matches /\ Method(Implemented)
                /\ answer' = matched /\ pc' = "handler"
  /\ buf' = SubSeq(buf, HeaderEnd(buf) + 1, Len(buf))
  /\ UNCHANGED <<routerVars, good, clientVars, out>>

\* HttpRequest::body, which a handler may or may not ask for.
AskBody ==
  /\ pc = "handler"
  /\ pc' = "body"
  /\ UNCHANGED <<routerVars, good, buf, req, answer, clientVars, out>>

\* All of it came with the header.
ReadBody ==
  /\ pc = "body" /\ ~Reading
  /\ buf' = SubSeq(buf, req.length + 1, Len(buf))
  /\ answer' = [answer EXCEPT !.drained = TRUE]
  /\ pc' = "handled"
  /\ UNCHANGED <<routerVars, good, req, clientVars, out>>

\* The handler sets no status, or one without a message of its own.
Respond(status) ==
  /\ pc \in {"handler", "handled"}
  /\ answer' = [answer EXCEPT !.status = status]
  /\ pc' = "finish"
  /\ UNCHANGED <<routerVars, good, buf, req, clientVars, out>>

\* A slip: the connection is left open.
HandlerErrorKeepsOpen ==
  /\ pc \in {"handler", "handled"}
  /\ pc' = "loop"
  /\ UNCHANGED <<routerVars, good, buf, req, answer, clientVars, out>>

\* An lw::Error is caught by run, which closes the connection.
HandlerError ==
  /\ pc \in {"handler", "handled"}
  /\ good' = FALSE /\ pc' = "loop"
  /\ UNCHANGED <<routerVars, buf, req, answer, clientVars, out>>

\* Any other exception ends the task; its connection stays open.
HandlerException ==
  /\ pc \in {"handler", "handled"}
  /\ pc' = "lost"
  /\ UNCHANGED <<routerVars, good, buf, req, answer, clientVars, out>>

Keep(r) == Connection \in DOMAIN r.headers /\ r.headers[Connection] = KeepAlive

\* A slip: a header that is not there means keep-alive.
WriteKeeping ==
  /\ pc = "finish" /\ good /\ answer.status \in KnownStatus \cup {0}
  /\ out' = Append(out, [req |-> req, answer |-> answer])
  /\ good' = (Connection \in DOMAIN req.headers => Keep(req))
  /\ pc' = "loop"
  /\ UNCHANGED <<routerVars, buf, req, answer, clientVars>>

\* finish_request: how much of the response is sent is not looked at.
Write ==
  /\ pc = "finish" /\ good /\ answer.status \in KnownStatus \cup {0}
  /\ out' = Append(out, [req |-> req, answer |-> answer])
  /\ good' = Keep(req)
  /\ pc' = "loop"
  /\ UNCHANGED <<routerVars, buf, req, answer, clientVars>>

\* A slip: the error is caught outside the loop, after the count.
WriteErrorUncaught ==
  /\ pc = "finish"
  /\ answer.status \notin KnownStatus \cup {0} \/ ~good \/ hungup
  /\ good' = FALSE /\ pc' = "done"
  /\ UNCHANGED <<routerVars, buf, req, answer, clientVars, out>>

\* The status has no message, the socket was closed, or the client is gone: run catches it.
\* (The last is an error of ::send where the program ignores SIGPIPE.)
WriteError ==
  /\ pc = "finish"
  /\ answer.status \notin KnownStatus \cup {0} \/ ~good \/ hungup
  /\ good' = FALSE /\ pc' = "loop"
  /\ UNCHANGED <<routerVars, buf, req, answer, clientVars, out>>

Serve == \/ Run \/ NextRequest \/ EndRun \/ Receive \/ ReceiveBody \/ ReceiveEnd \/ RunRequest
         \/ AskBody \/ ReadBody \/ HandlerError \/ HandlerException \/ Write \/ WriteError
         \/ \E status \in {0, 299} : Respond(status)
         \/ \E route \in unattached : AttachRoute(route)

Next == \/ \E r \in Requests : Send(r)
        \/ HangUp
        \/ Serve

\* What ENABLED Serve comes to, written out because TLC evaluates ENABLED by expanding
\* the parsers.
CanServe ==
  /\ pc \notin {"refused", "done", "lost"}
  /\ Reading => wire # <<>> \/ hungup

\* Weak fairness of Serve: the event loop goes on with a task that can go on.
Fairness == (<>[]CanServe) => []<><<Serve>>_vars

Spec == Init /\ [][Next]_vars /\ Fairness

-----------------------------------------------------------------------------
(* What a route means, part by part, for paths without empty parts. *)

Attached == {trie.endpoint[n] : n \in DOMAIN trie.endpoint}

Digits(part) == \A k \in DOMAIN part : part[k] \in Digit

\* The values a part of a route may take from a part of a path.  The case of a literal
\* counts, as on the trie's edges; MountPath::match folds it.
Values(p, part) ==
  CASE p.kind = "literal" -> {part} \cap {p.text}
    [] p.kind = "regex"   -> IF p.text = <<"d+">> THEN {v \in {part} : Digits(v)}
                             ELSE {v \in {<<part[1]>>} : v[1] \in {"f", "F"}}
    [] p.kind = "param"   ->
         {v \in Prefixes(part) \ {<<>>} : v \o p.ext = part
            /\ (p.type = "uint" => Digits(v))
            /\ (p.type = "int" => Digits(v) \/ (v[1] = "-" /\ Digits(Tail(v))))}

Matches(route, path) ==
  Len(route) = Len(path) /\ \A k \in DOMAIN route : Values(route[k], path[k]) # {}

ParameterName(route, k) ==
  IF route[k].kind = "param" THEN Upper(route[k].text)
  ELSE <<ToString(Cardinality({j \in 1..k : route[j].kind = "regex"}))>>

Parameters(route) == {k \in DOMAIN route : route[k].kind # "literal"}

NamesOnce(route) == \A j, k \in Parameters(route) :
  ParameterName(route, j) = ParameterName(route, k) => j = k

\* No extension or group, which the trie cannot get past, and no type that leaks.
Plain(route) ==
  /\ \A k \in DOMAIN route : route[k].kind = "param" => route[k].ext = <<>>
  /\ \A k \in DOMAIN route : route[k].kind = "regex" => route[k].text # <<"(f).*">>
  /\ \A j, k \in Parameters(route) :
       j < k /\ route[k].kind = "param" /\ route[k].type = ""
         => route[j].kind = "param" /\ route[j].type = ""

\* The request a path was sent in, unless it had an empty part.
PathOf == {r.path : r \in {q \in ToSet(sent) : PathText(q.path) = req.path /\ <<>> \notin ToSet(q.path)}}

\* A request is handled by a route that matches its path, by the trie's walk as by
\* MountPath::match, and the handler is given the parameters of that route
\* (walk_path, http.cpp run_request), if no attached route repeats a name.
HandledByMatchingRoute ==
  answer.route # <<>> /\ (\A route \in Attached : NamesOnce(route)) =>
    \A path \in PathOf, matchers \in {ParseEndpoint(RouteText(answer.route)).matchers} :
      /\ Matches(answer.route, path) /\ ~MatchUndefined(matchers, req.path)
      /\ \E m \in ToSet(MountPathMatch(matchers, req.path)) :
           \A k \in Parameters(answer.route) :
             LET n == ParameterName(answer.route, k)
             IN /\ n \in DOMAIN answer.parameters /\ answer.parameters[n] = m[n]
                /\ m[n] \in Values(answer.route[k], path[k])

\* When walk_path gives up, having gone back to every wildcard it passed by, no
\* attached route of literals and plain parameters matches the path.
GivesUpOnlyWithoutRoute ==
  ~answer.found =>
    \A path \in PathOf, route \in Attached : Plain(route) => ~Matches(route, path)

-----------------------------------------------------------------------------
(* The connection, for a client that waits and whose bodies are read. *)

Asked(r, name) ==
  LET at == {k \in DOMAIN r.headers : r.headers[k][1] = name}
  IN IF at = {} THEN <<>> ELSE r.headers[Min(at)][2]

WellFormed(r) == r.defect = "none" /\ (Asked(r, ContentLength) # <<>> => IsNumber(Asked(r, ContentLength)))
Announced(r) == IF Asked(r, ContentLength) = <<>> THEN 0 ELSE Number(Asked(r, ContentLength))
Framed(r) == WellFormed(r) /\ Len(FlattenSeq(r.body)) = Announced(r)

\* The client has waited, and the bodies of the requests answered were read to their ends.
\* Otherwise what is left of a body is taken for the next request.
InStep ==
  waited /\ \A i \in DOMAIN out \cap DOMAIN sent :
    sent[i].body = <<>> \/ (Framed(sent[i]) /\ out[i].answer.drained)

\* The value of a query parameter, without the space that follows the query.
Trimmed(v) == IF v # <<>> /\ Last(v) = " " THEN Front(v) ELSE v

SameRequest(r, q) ==
  /\ q.method = r.method /\ q.path = PathText(r.path)
  /\ DOMAIN q.query = {Upper(r.query[k][1]) : k \in DOMAIN r.query}
  /\ \A k \in DOMAIN r.query :
       (\A j \in 1..(k - 1) : Upper(r.query[j][1]) # Upper(r.query[k][1]))
         => Trimmed(q.query[Upper(r.query[k][1])]) = (IF Len(r.query[k]) = 1 THEN <<>> ELSE r.query[k][2])
  /\ DOMAIN q.headers = {r.headers[k][1] : k \in DOMAIN r.headers}
  /\ \A name \in DOMAIN q.headers : q.headers[name] = Asked(r, name)

\* What read_header made of the bytes is the request that was sent, method, path,
\* query and headers; it throws exactly for the requests that are malformed.
RequestIsReadBack ==
  InStep /\ good /\ pc \in {"handler", "body", "handled", "finish"} =>
    /\ req.ok = WellFormed(sent[Len(out) + 1])
    /\ req.ok => SameRequest(sent[Len(out) + 1], req)

\* A client in step gets its answers in the order of its requests, none twice, and none
\* after a request that did not ask for keep-alive (finish_request, run).  The others may
\* get more answers than they sent requests: a body nobody read may be a request itself.
AnsweredInOrder ==
  InStep =>
    /\ Len(out) <= Len(sent)
    /\ \A i \in DOMAIN out :
         /\ WellFormed(sent[i]) => SameRequest(sent[i], out[i].req)
         /\ ~WellFormed(sent[i]) => out[i].answer.status = 400
         /\ i < Len(out) => Asked(sent[i], Connection) = KeepAlive

\* A connection whose client hangs up is no longer counted, so that Server::try_close
\* can succeed, unless a handler threw something that is no lw::Error (run).
HungUpIsUncounted == (hungup) ~> (counter = 0 \/ pc = "lost")

\* A client that waits is answered, or its connection is closed (run_request).
RequestIsAnswered ==
  \A n \in 1..MaxRequests :
    (InStep /\ Len(sent) = n /\ Len(out) = n - 1 /\ Framed(sent[n]))
      ~> (Len(out) >= n \/ ~good \/ pc = "lost")
=============================================================================
