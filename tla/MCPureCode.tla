----------------------------- MODULE MCPureCode -----------------------------
EXTENDS PureCode

SymbolWidth(c) == CASE c = "wide" -> 3
                    [] c \in {"FN", "CR", "mailto:"} -> 2
                    [] OTHER -> 1

MCDates == {[year |-> d[1], month |-> d[2], day |-> d[3]] :
              d \in {<<1895, 2, 28>>, <<1896, 2, 28>>, <<1896, 2, 29>>, <<1896, 3, 1>>,
                     <<1899, 3, 2>>, <<1900, 2, 28>>, <<1900, 3, 1>>, <<1903, 3, 1>>,
                     <<1903, 3, 2>>, <<1904, 12, 31>>, <<2000, 2, 29>>, <<2001, 1, 1>>}}

Value(dashed, digits) == [dashed |-> dashed, digits |-> digits]

Values ==
  {Value(TRUE, md) : md \in {<<0,2,2,9>>, <<0,2,2,8>>, <<0,3,0,1>>, <<0,1,0,1>>,
                             <<1,2,3,1>>, <<0,2,3,0>>, <<0,2>>}}
  \cup {Value(FALSE, ymd) : ymd \in {<<1,8,9,6,0,2,2,9>>, <<1,8,9,7,0,2,2,9>>,
         <<1,9,0,0,0,2,2,9>>, <<1,9,0,0,0,3,0,1>>, <<1,9,0,4,0,2,2,9>>,
         <<2,0,0,0,1,2,3,1>>, <<1,9,0,4,1,3,0,1>>, <<0,2,2,9>>}}

Card(href, bday) == [href |-> href, name |-> href, bday |-> bday]

MCAddressBooks ==
  {<<Card(3, {v}), Card(1, {w}), Card(2, {})>> :
     v \in Values, w \in {Value(TRUE, <<0,3,0,1>>), Value(FALSE, <<1,8,9,6,0,2,2,9>>)}}

Alphabet == {"a", "n", "wide", "\\", ";", ",", "LF", "CR"}
MCSymbols == Alphabet \cup {"u", "mailto:", "BEGIN", "VERSION", "UID", "FN", "N", "EMAIL", "TEL",
                           "ORG", "TITLE", "NOTE", "END", "VCARD", "4.0", ":", " "}
Short == SeqOf(Alphabet, 1)
Long  == SeqOf(Alphabet, 2)
         \cup [1..5 -> {"a", "wide"}]
         \cup {<<"CR", "LF", "EMAIL", ":", "a">>, <<" ", "a", " ", "wide", "a", "a">>,
               <<"\\", "\\", "n", "LF", " ", "a">>}

Plainest == [uid |-> <<"u">>, full_name |-> <<"a">>, given_name |-> <<>>,
             family_name |-> <<>>, emails |-> <<>>, phones |-> <<>>,
             organization |-> <<>>, title |-> <<>>, note |-> <<>>]

MCInputs == UNION {
  {[Plainest EXCEPT !.full_name = f, !.note = n] : f \in Short, n \in Long},
  {[Plainest EXCEPT !.family_name = f, !.given_name = g] : f \in Long, g \in Short},
  {[Plainest EXCEPT !.organization = o, !.title = t] : o \in Short, t \in Long},
  {[Plainest EXCEPT !.emails = <<<<"mailto:">> \o e, p>>, !.phones = <<p, e>>] :
     e \in Short, p \in Short},
  {[Plainest EXCEPT !.uid = u] : u \in Long},
  {[Plainest EXCEPT !.emails = <<<<"CR", "mailto:", "a">>>>],
   [Plainest EXCEPT !.emails = <<<<"a">>, <<"a">>, <<"a">>>>]} }

Https == [scheme |-> "https", host |-> "h1", port |-> 1, path |-> "p1", spelling |-> 1,
          extra |-> "none", padded |-> FALSE, parses |-> TRUE]
Loop  == [Https EXCEPT !.scheme = "http", !.host = "l1"]

MCAllowLists ==
  { {Https}, {Loop}, {Https, Loop}, {Loop, [Loop EXCEPT !.path = "p2", !.port = 2]},
    {[Https EXCEPT !.host = "l1"], [Loop EXCEPT !.host = "l2"]},
    {[Https EXCEPT !.scheme = "private", !.host = NoHost], [Loop EXCEPT !.spelling = 2]},
    {Https, [Loop EXCEPT !.host = "h1"]}, {[Https EXCEPT !.extra = "fragment"]}, {} }

Sound == {u \in Uris : u.extra = "none" /\ ~u.padded /\ u.parses}
Faulty == {[u EXCEPT !.extra = "fragment"] : u \in {Https, Loop}}
          \cup {[u EXCEPT !.extra = "userinfo"] : u \in {Https, Loop}}
          \cup {[u EXCEPT !.padded = TRUE] : u \in {Https, Loop}}
          \cup {[u EXCEPT !.parses = FALSE] : u \in {Https, Loop}}

MCAsked == {{}} \cup {{u} : u \in Sound \cup Faulty}
           \cup {{u, Loop} : u \in {u \in Sound : u.scheme = "http"}}

Prop(name, inner, text) == [name |-> name, inner |-> inner, text |-> text]
Props == {Prop("displayname", "none", <<" ", "x", " ">>), Prop("displayname", "none", <<>>),
          Prop("getetag", "none", <<"x", "y">>), Prop("address-data", "none", <<" ", "x">>),
          Prop("current-user-principal", "href", <<"x">>), Prop("owner", "href", <<"y">>),
          Prop("owner", "none", <<"undecodable">>), Prop("getctag", "none", <<"undecodable">>),
          Prop("resourcetype", "addressbook", <<>>)}

MCDocuments ==
  LET last == [href |-> <<"y">>,
               props |-> <<Prop("addressbook-home-set", "href", <<"y">>)>>]
  IN  {<<[href |-> h, props |-> s], last>> :
         h \in {<<"x">>, <<>>},
         s \in {s \in SeqOf(Props, 2) : Len(s) = 2 => s[1].name # s[2].name}}

Slashes(url) == {url, Append(url, "/"), url \o <<"/", "/">>}

MCEnvironments ==
  [resource : Slashes(<<"https://mcp">>) \cup {<<"http://mcp">>, <<"stalwart">>},
   server   : Slashes(<<"https://login", "/oidc">>),
   audience : Slashes(<<"https://dav">>) \cup Slashes(<<"https://mcp", "/mcp">>)
              \cup {<<>>, <<"stalwart">>, <<"http://mcp">>}]

MCParameters ==
  SeqOf({[key |-> "resource", value |-> <<"https://mcp", "/mcp">>],
         [key |-> "resource", value |-> <<"stalwart">>],
         [key |-> "scope", value |-> <<"openid">>]}, 2)
=============================================================================
