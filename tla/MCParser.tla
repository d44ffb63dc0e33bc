------------------------------ MODULE MCParser ------------------------------
(* A small instance of Parser: requests with no header, one or two, the    *)
(* values of up to three characters where two are allowed at most, a       *)
(* repeated key, a query, a path that names a method, and a second request *)
(* behind the first.                                                       *)
EXTENDS Parser

Header(key, value) == [key |-> key, value |-> value]

(* A request of its parts. *)
Request(method, path, version, headers, rest) ==
  LET line == <<method, " ", "/">> \o path \o <<" ", "HTTP", "/">> \o version
      lines == [j \in DOMAIN headers |->
                  headers[j].key \o <<":", " ">> \o headers[j].value \o <<CR, LF>>]
      At(j) == Len(line) + 3 + Len(FlattenSeq(SubSeq(lines, 1, j - 1)))
      Colon(j) == At(j) + Len(headers[j].key)
  IN  [text |-> line \o <<CR, LF>> \o FlattenSeq(lines) \o <<CR, LF>> \o rest,
       space |-> Len(path) + 4, eol |-> Len(line) + 1,
       headers |-> [j \in DOMAIN headers |->
                      [key |-> At(j), colon |-> Colon(j),
                       end |-> Colon(j) + 2 + Len(headers[j].value)]]]

MCHeaders ==
  LET one == {Header(<<"a">>, v) : v \in {<<>>, <<"x">>, <<"y", ":">>, <<"x", "y", "z">>}}
      two == {Header(k, <<"y">>) : k \in {<<"a">>, <<"b", "c">>}}
  IN  {<<>>} \cup {<<h>> : h \in one} \cup {<<h, g>> : h \in one, g \in two}

MCSendable ==
  {Request("GET", <<"f", "?", "q">>, <<"1", ".", "1">>, hs, <<"GET", " ">>) : hs \in MCHeaders}
  \cup {Request(m, p, <<"1", ".", "0">>, <<Header(<<"a">>, <<"x">>)>>, <<>>) :
          m \in {"POST", "HEAD"}, p \in {<<>>, <<"GET">>}}
  \cup {Request(m, <<"f">>, <<"2">>, <<>>, <<>>) : m \in {"GET", "PUT"}}

MCChars ==
  {CR, LF, " ", "/", ":", "?", ".", "0", "1", "2", "GET", "POST", "HEAD", "PUT", "HTTP",
   "a", "b", "c", "f", "q", "x", "y", "z"}
=============================================================================
