--------------------------- MODULE MCHttpResponse ---------------------------
(***************************************************************************)
(* Instance of HttpResponse for TLC: extensions of one, two and four       *)
(* letters, the last longer than any uri.                                  *)
(***************************************************************************)
EXTENDS HttpResponse

Letters == {"j", "s", Slash}
PathsOf(n) == {<<Slash>> \o u : u \in [1..n -> Letters]}
\* The parsers leave no empty names.
ShortUris == {u \in UNION {PathsOf(n) : n \in 0..2} :
                \A i \in 1..(Len(u) - 1) : u[i] = Slash => u[i + 1] # Slash}
Table == <<<<"j", "j">>, <<"s">>, <<"j", "s", "j", "s">>>>
=============================================================================
