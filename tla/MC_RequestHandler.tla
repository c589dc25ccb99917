------------------------- MODULE MC_RequestHandler -------------------------
(* One request of every kind, for a small set of targets and lengths.      *)
EXTENDS RequestHandler

SomeSegments == {"proxy", "a", "b", "", "..", "%2e", "b%2F..", "healthz", "readyz", "metrics", "login", "%6cogin"}
SomeDecoded ==
  [s \in SomeSegments |-> CASE s = "%2e" -> {"."} [] s = "b%2F.." -> {"b", ".."}
                            [] s = "%6cogin" -> {"login"} [] OTHER -> {s}]

SomePrefix == <<"proxy">>
SomeAllowed == {<<"a">>, <<"b", "*">>, <<"login">>}
SomeAuthPath == <<"login">>

\* The local endpoints; below the prefix what is listed, what is not, and what
\* is below a pattern; without the prefix, and what is no path.
SomeTargets ==
  {[form |-> "path", path |-> p] : p \in
     LocalPaths \cup
     {<<"proxy">> \o rest : rest \in
        {<<>>, <<"">>, <<"a">>, <<"a", "b">>, <<"b">>, <<"b", "">>, <<"b", "a">>, <<"b", "a", "b">>,
         <<"b", "..">>, <<"b", "%2e">>, <<"b%2F..">>, <<"login">>, <<"%6cogin">>, <<"healthz">>}}
     \cup {<<"a">>, <<"b", "proxy", "a">>}}
  \cup {[form |-> f, path |-> <<"proxy", "a">>] : f \in {"url", "unparsable"}}

\* No integer, a negative number, none, the limit, and more.
SomeLengths == {Junk, -1, 0, 2, 3, 4}
============================================================================
