------------------------------- MODULE MCHttp -------------------------------
(* Routes that share prefixes and wildcards, and requests that meet them. *)
EXTENDS Http

Lit(s) == [kind |-> "literal", text |-> s]
Re(s) == [kind |-> "regex", text |-> s]
Par(name, type, ext) == [kind |-> "param", text |-> name, type |-> type, ext |-> ext]
Var(n) == Par(<<n>>, "", <<>>)

f == Lit(<<"f">>)
b == Lit(<<"b">>)
fo == Lit(<<"f", "o">>)

RouteTables ==
  { {<<f>>, <<fo>>, <<Var("x")>>},
    {<<f, Var("x"), b>>, <<Var("y"), Var("z"), f>>},
    {<<Var("x"), f, b>>, <<Var("x"), Var("y")>>, <<f, fo>>},
    {<<Var("x"), f, Var("x"), b>>, <<Var("x"), Var("y"), Var("z")>>},
    {<<Var("x")>>, <<Var("y"), f>>}, {<<f>>, <<Lit(<<"F">>), Var("x")>>},
    {<<Par(<<"x">>, "int", <<>>), Var("y")>>, <<b, Var("x")>>},
    {<<f, Par(<<"x">>, "uint", <<>>)>>, <<Var("y"), Var("z")>>},
    {<<Par(<<"x">>, "", <<".", "j">>)>>, <<f, Re(<<"(f).*">>)>>, <<b, Re(<<"d+">>), f>>},
    {<<Re(<<"d+">>), Var("y")>>}, {<<Par(<<>>, "", <<>>)>>}, {<<Par(<<"x">>, "", <<".">>)>>},
    {<<Par(<<"-">>, "", <<>>)>>}, {<<Par(<<>>, "int", <<>>)>>}, {<<Par(<<"x">>, "date", <<>>)>>} }

Paths ==
  { <<<<"f">>>>, <<<<"f", "o">>>>, <<<<"o">>>>, <<<<"F">>>>, <<<<"-", "1">>, <<"f">>>>,
    <<<<"f">>, <<"o">>, <<"f">>>>, <<<<"f">>, <<"o">>, <<"b">>>>, <<<<"1">>, <<"f">>>>,
    <<<<"b">>, <<"f">>>>, <<<<"f">>, <<"f", "o">>>>, <<<<"f">>, <<"1">>>>, <<<<>>, <<"f">>>>,
    <<<<"1">>, <<"f">>, <<"o">>>>, <<<<"b">>, <<"1">>, <<"f">>>>, <<<<"o", ".", "j">>>> }

Keeps == <<Connection, KeepAlive>>
HasLength(n) == <<ContentLength, <<ToString(n)>>>>

Request(m, path, query, headers, body, defect) ==
  [method |-> <<m>>, path |-> path, query |-> query, headers |-> headers, body |-> body, defect |-> defect]

\* A body that is a request itself.
Inner == HeaderText(Request("GET", <<<<"f">>>>, <<>>, <<Keeps>>, <<>>, "none"))

SomeRequests ==
  {Request("GET", p, <<>>, <<Keeps>>, <<>>, "none") : p \in Paths}
    \cup {Request("POST", <<<<"f">>>>, <<>>, <<HasLength(1), Keeps>>, <<<<"f">>>>, "none"),
          Request("POST", <<<<"f">>>>, <<>>, <<Keeps, HasLength(2)>>, <<<<"f">>, <<"o">>>>, "none"),
          Request("POST", <<<<"o">>>>, <<>>, <<Keeps, HasLength(Len(Inner))>>, <<Inner>>, "none"),
          Request("GET", <<<<"f">>>>, <<<<<<"x">>, <<"1">>>>, <<<<"y">>>>, <<<<"x">>, <<"0">>>>>>, <<>>, <<>>, "none"),
          Request("PUT", <<<<"o">>>>, <<<<<<"f">>>>, <<<<"y">>, <<"1">>>>>>, <<Keeps, <<Connection, <<"close">>>>>>, <<>>, "none"),
          Request("BREW", <<<<"f">>>>, <<>>, <<<<Connection, <<"close">>>>>>, <<>>, "none"),
          Request("GET", <<<<"f">>>>, <<>>, <<Keeps, <<ContentLength, <<"f">>>>>>, <<>>, "none"),
          Request("GET", <<<<"f">>>>, <<>>, <<>>, <<>>, "version"),
          Request("GET", <<<<"f">>>>, <<>>, <<Keeps>>, <<>>, "colon")}
=============================================================================
