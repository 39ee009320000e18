---------------------------- MODULE RequestLine -----------------------------
(***************************************************************************)
(* The first line of a request: ehd_http_parse_request_line, the loop of   *)
(* ehd_http_process_request_line that calls it, and what that handler      *)
(* makes of the marks the parser leaves in the request: lengths, copies,   *)
(* and a NUL written behind the line.                                      *)
(*                                                                         *)
(* One step is one turn of the parser's loop.  A byte is known by its      *)
(* class: H, T, P and the other capitals, small letters, zero and the      *)
(* other digits, the punctuation the parser looks at, and all other bytes. *)
(* A digit other than zero counts as 1.                                    *)
(***************************************************************************)
EXTENDS Integers, Sequences

CONSTANTS
  Alphabet,   \* the bytes that may come next, for each state of the parser
  Prefixes,   \* what is in the buffer when the handler is called first
  BufSize,    \* bytes of the buffer
  UintSize,   \* values of a uint: 2^32, which TLC has to be spared
  MaxRead     \* bytes that one recv returns at most

Eol == {"cr", "lf"}
Upper == {"H", "T", "P", "upper"}
Letters == Upper \cup {"lower"}
Digits == {"zero", "digit"}
HostBytes == Letters \cup Digits \cup {"dot", "dash"}
Bytes == Eol \cup HostBytes \cup {"sp", "slash", "percent", "question", "colon", "other"}

ASSUME LineAssumption ==
  /\ Prefixes \subseteq Seq(Bytes)
  /\ BufSize \in Nat /\ \A prefix \in Prefixes : Len(prefix) <= BufSize
  /\ MaxRead \in Nat
  /\ UintSize \in Nat \ {0}

States == {"start", "method", "spaces_before_uri", "schema", "schema_slash",
           "schema_slash_slash", "host", "port", "after_slash_in_uri",
           "check_uri", "uri", "http_09", "http_H", "http_HT", "http_HTT",
           "http_HTTP", "first_major_digit", "major_digit",
           "first_minor_digit", "minor_digit", "almost_done", "done"}
Ends == {"headers", "invalid", "bad_uri", "full", "no_memory"}

ASSUME AlphabetAssumption ==
  \A s \in States : Alphabet[s] \subseteq Bytes

VARIABLES
  wire,   \* the bytes as they came
  buf,    \* the same buffer, with the NUL the handler has written
  pos,    \* how many of them are parsed: b->pos
  state,  \* r->state; one of Ends when the handler is through
  r,      \* the marks in the request, as positions in the buffer; 0 is NULL
  len     \* the lengths the handler has taken from them

vars == <<wire, buf, pos, state, r, len>>

Position == 0..(BufSize + 1)
Marks == {"request_start", "method_end", "schema_start", "schema_end",
          "host_start", "host_end", "port_end", "uri_start", "uri_end",
          "args_start", "uri_ext", "request_end"}
NoLengths == [unparsed |-> 0, uri |-> 0, exten |-> 0, line |-> 0, method_name |-> 0]

TypeOK ==
  /\ wire \in Seq(Bytes) /\ Len(wire) <= BufSize
  /\ buf \in Seq(Bytes \cup {"nul"}) /\ Len(buf) = Len(wire)
  /\ pos \in 0..Len(wire)
  /\ state \in States \cup Ends
  /\ \A m \in Marks : r[m] \in Position
  /\ r.method \in {"none", "GET", "HEAD", "POST"}
  /\ r.complex_uri \in BOOLEAN /\ r.major \in Nat /\ r.minor \in Nat
  /\ \A l \in DOMAIN len : len[l] \in 0..BufSize

NoRequest ==
  [m \in Marks \cup {"method", "complex_uri", "major", "minor"} |->
     CASE m \in Marks \cup {"major", "minor"} -> 0
       [] m = "method" -> "none"
       [] m = "complex_uri" -> FALSE]

Init ==
  /\ wire \in Prefixes /\ buf = wire /\ pos = 0
  /\ state = "start" /\ r = NoRequest /\ len = NoLengths

-----------------------------------------------------------------------------
Running == state \in States
In(s) == state = s /\ pos < Len(buf)
Cur == pos + 1           \* the byte that ch = *p++ takes, and p - 1 after it
ch == buf[Cur]
u_int(n) == n % UintSize

\* All bytes are parsed, and the parser has answered EHD_AGAIN: the handler
\* gives up if the buffer is full, else it reads what has arrived.
Starved == Running /\ state # "done" /\ pos = Len(buf)

BufferFull ==
  /\ Starved /\ Len(buf) = BufSize
  /\ state' = "full" /\ UNCHANGED <<wire, buf, pos, r, len>>

\* Broken variant: recv is told the size of the whole buffer.
ReceiveOver(chunk) ==
  /\ Starved /\ Len(buf) < BufSize /\ Len(chunk) <= BufSize
  /\ wire' = wire \o chunk /\ buf' = buf \o chunk
  /\ UNCHANGED <<pos, state, r, len>>

Receive(chunk) ==
  /\ Starved /\ Len(buf) + Len(chunk) <= BufSize
  /\ wire' = wire \o chunk /\ buf' = buf \o chunk
  /\ UNCHANGED <<pos, state, r, len>>

\* The byte is taken and the parser goes on in state s.
Take(s) == pos' = Cur /\ state' = s /\ UNCHANGED <<wire, buf, len>>
Go(s) == Take(s) /\ UNCHANGED r
Reject == state' = "invalid" /\ UNCHANGED <<wire, buf, pos, r, len>>

Start ==
  /\ In("start")
  /\ \/ ch \in Eol /\ Take("start") /\ r' = [r EXCEPT !.request_start = Cur]
     \/ ch \in Upper /\ Take("method") /\ r' = [r EXCEPT !.request_start = Cur]
     \/ ch \notin Eol \cup Upper /\ Reject

\* Which methods a word of that length may be; the bytes do not say.
Methods(length) ==
  {"none"} \cup CASE length = 3 -> {"GET"} [] length = 4 -> {"POST", "HEAD"}
                  [] OTHER -> {}

Method ==
  /\ In("method")
  /\ \/ /\ ch = "sp" /\ Take("spaces_before_uri")
        /\ \E m \in Methods(Cur - r.request_start) :
             r' = [r EXCEPT !.method_end = Cur, !.method = m]
     \/ ch \in Upper /\ Go("method")
     \/ ch \notin Upper \cup {"sp"} /\ Reject

SpacesBeforeUri ==
  /\ In("spaces_before_uri")
  /\ \/ ch = "slash" /\ Take("after_slash_in_uri") /\ r' = [r EXCEPT !.uri_start = Cur]
     \/ ch = "sp" /\ Go("spaces_before_uri")
     \/ ch \in Letters /\ Take("schema") /\ r' = [r EXCEPT !.schema_start = Cur]
     \/ ch \notin Letters \cup {"slash", "sp"} /\ Reject

Schema ==
  /\ In("schema")
  /\ \/ ch = "colon" /\ Take("schema_slash") /\ r' = [r EXCEPT !.schema_end = Cur]
     \/ ch \in Letters /\ Go("schema")
     \/ ch \notin Letters \cup {"colon"} /\ Reject

SchemaSlash ==
  /\ In("schema_slash")
  /\ \/ ch = "slash" /\ Go("schema_slash_slash")
     \/ ch # "slash" /\ Reject

SchemaSlashSlash ==
  /\ In("schema_slash_slash")
  /\ \/ ch = "slash" /\ Take("host") /\ r' = [r EXCEPT !.host_start = Cur]
     \/ ch # "slash" /\ Reject

\* Broken variant: the URI is thought to begin behind its first slash.
HostPast ==
  /\ In("host")
  /\ \/ ch = "colon" /\ Take("port") /\ r' = [r EXCEPT !.host_end = Cur]
     \/ /\ ch = "slash" /\ Take("after_slash_in_uri")
        /\ r' = [r EXCEPT !.host_end = Cur, !.uri_start = Cur + 1]
     \/ ch \in HostBytes /\ Go("host")
     \/ ch \notin HostBytes \cup {"colon", "slash"} /\ Reject

Host ==
  /\ In("host")
  /\ \/ ch = "colon" /\ Take("port") /\ r' = [r EXCEPT !.host_end = Cur]
     \/ /\ ch = "slash" /\ Take("after_slash_in_uri")
        /\ r' = [r EXCEPT !.host_end = Cur, !.uri_start = Cur]
     \/ ch \in HostBytes /\ Go("host")
     \/ ch \notin HostBytes \cup {"colon", "slash"} /\ Reject

\* The test for a digit, ch < '0' && ch > '9', is never true.
Port ==
  /\ In("port")
  /\ \/ /\ ch = "slash" /\ Take("after_slash_in_uri")
        /\ r' = [r EXCEPT !.port_end = Cur, !.uri_start = Cur]
     \/ ch # "slash" /\ Go("port")

\* A space or the end of the line ends the URI in each of its three states.
UriEnds ==
  \/ ch = "cr" /\ Take("almost_done") /\ r' = [r EXCEPT !.uri_end = Cur, !.minor = 9]
  \/ ch = "lf" /\ Take("done") /\ r' = [r EXCEPT !.uri_end = Cur, !.minor = 9]
  \/ ch = "sp" /\ Take("http_09") /\ r' = [r EXCEPT !.uri_end = Cur]
EndBytes == Eol \cup {"sp"}

\* Broken variant: a dot behind a slash is a dot like any other.
AfterSlashInUriDot ==
  /\ In("after_slash_in_uri")
  /\ \/ UriEnds
     \/ ch = "percent" /\ Take("uri") /\ r' = [r EXCEPT !.complex_uri = TRUE]
     \/ /\ ch = "slash" /\ Take("after_slash_in_uri")
        /\ r' = [r EXCEPT !.complex_uri = TRUE]
     \/ ch = "question" /\ Take("uri") /\ r' = [r EXCEPT !.args_start = Cur + 1]
     \/ ch \notin EndBytes \cup {"percent", "slash", "question"} /\ Go("check_uri")

AfterSlashInUri ==
  /\ In("after_slash_in_uri")
  /\ \/ UriEnds
     \/ /\ ch \in {"dot", "percent"} /\ Take("uri")
        /\ r' = [r EXCEPT !.complex_uri = TRUE]
     \/ /\ ch = "slash" /\ Take("after_slash_in_uri")
        /\ r' = [r EXCEPT !.complex_uri = TRUE]
     \/ ch = "question" /\ Take("uri") /\ r' = [r EXCEPT !.args_start = Cur + 1]
     \/ /\ ch \notin EndBytes \cup {"dot", "percent", "slash", "question"}
        /\ Go("check_uri")

CheckUri ==
  /\ In("check_uri")
  /\ \/ UriEnds
     \/ ch = "dot" /\ Take("check_uri") /\ r' = [r EXCEPT !.uri_ext = Cur + 1]
     \/ ch = "slash" /\ Take("after_slash_in_uri") /\ r' = [r EXCEPT !.uri_ext = 0]
     \/ ch = "percent" /\ Take("uri") /\ r' = [r EXCEPT !.complex_uri = TRUE]
     \/ ch = "question" /\ Take("uri") /\ r' = [r EXCEPT !.args_start = Cur + 1]
     \/ ch \notin EndBytes \cup {"dot", "slash", "percent", "question"} /\ Go("check_uri")

Uri == In("uri") /\ (UriEnds \/ (ch \notin EndBytes /\ Go("uri")))

Http09 ==
  /\ In("http_09")
  /\ \/ ch = "sp" /\ Go("http_09")
     \/ ch = "cr" /\ Take("almost_done") /\ r' = [r EXCEPT !.minor = 9]
     \/ ch = "lf" /\ Take("done") /\ r' = [r EXCEPT !.minor = 9]
     \/ ch = "H" /\ Go("http_H")
     \/ ch \notin EndBytes \cup {"H"} /\ Reject

\* The letters behind the H, one state each.
HttpWord ==
  \E step \in {<<"http_H", "T", "http_HT">>, <<"http_HT", "T", "http_HTT">>,
               <<"http_HTT", "P", "http_HTTP">>,
               <<"http_HTTP", "slash", "first_major_digit">>} :
    /\ In(step[1])
    /\ \/ ch = step[2] /\ Go(step[3])
       \/ ch # step[2] /\ Reject

Value(digit) == IF digit = "zero" THEN 0 ELSE 1
Longer(n) == u_int(n * 10 + Value(ch))

MajorDigit ==
  \/ /\ In("first_major_digit")
     /\ \/ ch = "digit" /\ Take("major_digit") /\ r' = [r EXCEPT !.major = Value(ch)]
        \/ ch # "digit" /\ Reject
  \/ /\ In("major_digit")
     /\ \/ ch = "dot" /\ Go("first_minor_digit")
        \/ ch \in Digits /\ Take("major_digit") /\ r' = [r EXCEPT !.major = Longer(@)]
        \/ ch \notin Digits \cup {"dot"} /\ Reject

MinorDigit ==
  \/ /\ In("first_minor_digit")
     /\ \/ ch \in Digits /\ Take("minor_digit") /\ r' = [r EXCEPT !.minor = Value(ch)]
        \/ ch \notin Digits /\ Reject
  \/ /\ In("minor_digit")
     /\ \/ ch = "cr" /\ Go("almost_done")
        \/ ch = "lf" /\ Go("done")
        \/ ch \in Digits /\ Take("minor_digit") /\ r' = [r EXCEPT !.minor = Longer(@)]
        \/ ch \notin Digits \cup Eol /\ Reject

\* Broken variant: any byte may follow the CR.
AlmostDoneAny ==
  /\ In("almost_done") /\ Take("done") /\ r' = [r EXCEPT !.request_end = Cur - 1]

\* Broken variant: the CR is left in the line.
AlmostDoneLate ==
  /\ In("almost_done")
  /\ \/ ch = "lf" /\ Take("done") /\ r' = [r EXCEPT !.request_end = Cur]
     \/ ch # "lf" /\ Reject

AlmostDone ==
  /\ In("almost_done")
  /\ \/ ch = "lf" /\ Take("done") /\ r' = [r EXCEPT !.request_end = Cur - 1]
     \/ ch # "lf" /\ Reject

Parse == \/ Start \/ Method \/ SpacesBeforeUri \/ Schema \/ SchemaSlash
         \/ SchemaSlashSlash \/ Host \/ Port \/ AfterSlashInUri \/ CheckUri
         \/ Uri \/ Http09 \/ HttpWord \/ MajorDigit \/ MinorDigit \/ AlmostDone

-----------------------------------------------------------------------------
\* The parser's last lines: http_version is made of the major version twice.
RequestEnd == IF r.request_end = 0 THEN pos ELSE r.request_end
HttpVersion == u_int(r.major * 1000 + r.major)
Refused == HttpVersion = 9 /\ r.method # "GET"

\* Where the path and the extension of a name in it end.
PathEnd == IF r.args_start # 0 THEN r.args_start - 1 ELSE r.uri_end

\* The length of method_name, which is set for an unknown method only: the byte
\* that method_end stands at is counted too.
MethodNameLen == IF r.method = "none" THEN r.method_end - r.request_start + 1 ELSE 0

\* The parser has answered EHD_OK: the handler copies the URI, the path and
\* the extension, and ends the line with a NUL.  A complex path goes through
\* ehd_http_parse_complex_uri, which may refuse it, and has its extension from
\* there (module ComplexUri).
LineDone ==
  /\ state = "done"
  /\ IF Refused THEN Reject ELSE
     /\ r' = [r EXCEPT !.request_end = RequestEnd,
                       !.uri_ext = IF r.complex_uri THEN 0 ELSE @]
     /\ len' = [unparsed |-> r.uri_end - r.uri_start,
                uri |-> PathEnd - r.uri_start,
                exten |-> IF r'.uri_ext # 0 THEN PathEnd - r.uri_ext ELSE 0,
                line |-> RequestEnd - r.request_start,
                method_name |-> MethodNameLen]
     /\ buf' = [buf EXCEPT ![RequestEnd] = "nul"]
     /\ state' = "headers" /\ UNCHANGED <<wire, pos>>

\* The copies do not fit in the pool, or the path is refused: the handler
\* closes the connection.
Close ==
  /\ state = "done" /\ ~Refused
  /\ state' = "no_memory" \/ (r.complex_uri /\ state' = "bad_uri")
  /\ UNCHANGED <<wire, buf, pos, r, len>>

\* The line has been read, or the connection is closed.
Over == state \in Ends /\ UNCHANGED vars

Next == \/ Running /\ \E n \in 1..MaxRead : \E chunk \in [1..n -> Alphabet[state]] : Receive(chunk)
        \/ BufferFull \/ Parse \/ LineDone \/ Close \/ Over

Spec == Init /\ [][Next]_vars

-----------------------------------------------------------------------------
(***************************************************************************)
(* What a request line is, said without the parser: a sequence of items,   *)
(* each a set of bytes that occurs once, or any number of times.           *)
(***************************************************************************)
One(set) == <<[bytes |-> set, many |-> FALSE]>>
Any(set) == <<[bytes |-> set, many |-> TRUE]>>
Some(set) == One(set) \o Any(set)

Lead == Any(Eol) \o Some(Upper) \o Some({"sp"})
Authority == Some(Letters) \o One({"colon"}) \o One({"slash"}) \o One({"slash"})
             \o Any(HostBytes)
PortItems == One({"colon"}) \o Any(Bytes \ {"slash"})
Target == One({"slash"}) \o Any(Bytes \ EndBytes)
Version == Some({"sp"}) \o One({"H"}) \o One({"T"}) \o One({"T"}) \o One({"P"})
           \o One({"slash"}) \o One({"digit"}) \o Any(Digits) \o One({"dot"}) \o Some(Digits)
RequestLines ==
  {Lead \o before \o Target \o behind \o end :
     before \in {<<>>, Authority, Authority \o PortItems},
     behind \in {Any({"sp"}), Version},
     end \in {One({"lf"}), One({"cr"}) \o One({"lf"})}}

\* The items that may come next.  Two in a row may be missing, no three.
Missing(line, i) == i <= Len(line) /\ line[i].many
Skip(line, next) ==
  LET one == {i + 1 : i \in {j \in next : Missing(line, j)}}
  IN next \cup one \cup {i + 1 : i \in {j \in one : Missing(line, j)}}
Expected(line, n) ==
  LET f[i \in 0..n] ==
        IF i = 0 THEN Skip(line, {1})
        ELSE LET fits == {j \in f[i - 1] : j <= Len(line) /\ wire[i] \in line[j].bytes}
             IN Skip(line, {IF line[j].many THEN j ELSE j + 1 : j \in fits})
  IN f[n]
CanBecome(n) == \E line \in RequestLines : Expected(line, n) # {}
IsWhole(n) == \E line \in RequestLines : Len(line) + 1 \in Expected(line, n)

\* The parser stops where it must: it goes on exactly as long as the bytes can
\* still become a request line, and the line is over at its end only - in
\* whatever pieces the bytes were read.
StopsWhereItMust ==
  /\ Running /\ state # "done" => CanBecome(pos) /\ ~IsWhole(pos)
  /\ state = "invalid" => ~CanBecome(pos + 1)
  /\ state \in {"done", "headers"} => IsWhole(pos)

\* The bytes from position a on, n of them, as the client sent them.
Sent(a, n) == SubSeq(wire, a, a + n - 1)
Has(s, set) == \E i \in 1..Len(s) : s[i] \in set

\* The marks and lengths delimit the parts of the line they are named for: no
\* length comes out negative, and none reaches over its part - but that of
\* method_name, which takes the space behind an unknown method with it.
MarksDelimit ==
  state = "headers" =>
    /\ LET method == Sent(r.request_start, r.method_end - r.request_start)
       IN method # <<>> /\ ~Has(method, Bytes \ Upper) /\ wire[r.method_end] = "sp"
    /\ IF r.method = "none"
       THEN /\ len.method_name > 1 /\ wire[r.request_start + len.method_name - 1] = "sp"
            /\ ~Has(Sent(r.request_start, len.method_name - 1), Bytes \ Upper)
       ELSE len.method_name = 0
    /\ r.method_end < r.uri_start /\ wire[r.uri_start] = "slash"
    /\ \A i \in r.method_end..(r.uri_start - 1) : wire[i] = "slash" =>
         r.host_start \in i..(i + 1) /\ (r.host_end < r.uri_start => r.port_end = r.uri_start)
    /\ len.unparsed > 0 /\ ~Has(Sent(r.uri_start, len.unparsed), EndBytes)
    /\ wire[r.uri_start + len.unparsed] \in EndBytes
    /\ len.uri <= len.unparsed
    /\ len.uri < len.unparsed =>
         /\ wire[r.uri_start + len.uri] = "question"
         /\ ~Has(Sent(r.uri_start, len.uri), {"question"})
    /\ ~Has(Sent(r.request_start, len.line), Eol) \/ r.port_end # 0

\* A path that is not complex can be used as it is: it has no quote, no empty
\* name and no name that begins with a dot, its arguments are cut off, and the
\* extension is what follows the last dot of its last name.
SimplePathIsNormal ==
  state = "headers" /\ ~r.complex_uri =>
    LET path == Sent(r.uri_start, len.uri)
        exten == Sent(r.uri_ext, len.exten)
    IN /\ ~Has(path, {"percent", "question"})
       /\ \A i \in 2..Len(path) : path[i - 1] = "slash" => path[i] \notin {"slash", "dot"}
       /\ r.uri_ext # 0 =>
            /\ wire[r.uri_ext - 1] = "dot" /\ ~Has(exten, {"dot", "slash"})
            /\ r.uri_ext + len.exten = r.uri_start + len.uri
       /\ r.uri_ext = 0 => ~\E i \in 1..Len(path) :
            path[i] = "dot" /\ \A j \in i..Len(path) : path[j] # "slash"

\* The NUL ends the line where its end of line began, behind all that is
\* copied after it is written, and no byte still to be parsed is changed.
LineReadable ==
  state = "headers" =>
    /\ \A i \in 1..Len(buf) : buf[i] = IF i = r.request_end THEN "nul" ELSE wire[i]
    /\ r.uri_end <= r.request_end /\ r.request_end <= pos
    /\ Sent(r.request_end, pos + 1 - r.request_end) \in {<<"lf">>, <<"cr", "lf">>}
    /\ len.line = 0 \/ wire[r.request_end - 1] # "cr"
=============================================================================
