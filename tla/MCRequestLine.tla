--------------------------- MODULE MCRequestLine ----------------------------
(***************************************************************************)
(* An instance of RequestLine for TLC.  The bytes that come are those that *)
(* the parser's state tells apart, and one that it does not look for.  The *)
(* lines begin in ways that leave the more bytes of the buffer the fewer   *)
(* choices there are for each: before a path, behind one, before the host, *)
(* in a longer path, and in the method.                                    *)
(***************************************************************************)
EXTENDS RequestLine

PathBytes == {"cr", "lf", "sp", "slash", "dot", "percent", "question", "lower"}
HostStates == {"schema", "schema_slash", "schema_slash_slash", "host", "port"}
UriStates == {"after_slash_in_uri", "check_uri", "uri"}

MCAlphabet ==
  [s \in States |->
     CASE s \in UriStates -> PathBytes
       [] s \in HostStates -> {"lf", "sp", "slash", "colon", "lower", "digit"}
       [] OTHER -> {"cr", "lf", "sp", "slash", "dot", "H", "T", "P", "zero", "digit"}]

MCPrefixes ==
  {<<"lf", "lf", "lf", "lf", "lf", "upper", "sp", "slash">>,
   <<"upper", "sp", "slash", "sp">>,
   <<"lf", "lf", "upper", "sp", "lower", "colon">>,
   <<"cr", "lf", "upper", "upper", "upper", "upper", "sp", "sp", "slash", "lower">>,
   <<"upper", "upper", "upper", "sp", "slash", "dot", "dot", "slash", "lower", "dot">>,
   <<"lf", "lf", "lf", "lf", "lf", "lf", "lf", "lf", "lf", "upper">>}
=============================================================================
