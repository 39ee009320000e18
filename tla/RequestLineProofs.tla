------------------------- MODULE RequestLineProofs -------------------------
(***************************************************************************)
(* Proofs about RequestLine, for buffers of every size and reads of every  *)
(* length: types; the marks and lengths delimit the parts of the line; a   *)
(* path that is not rewritten needs no rewriting; the line can be read     *)
(* where it is; and the parser stops where it must.                        *)
(*                                                                         *)
(* The facts are about the bytes w up to position p, the marks q and the   *)
(* state s, so that a step is a change of their arguments.                 *)
(*                                                                         *)
(* Where the parser stops is said of lines that are sequences of items; it *)
(* is proved of the names of the items.  Each line of RequestLines is      *)
(* spelled with names (LineSpelled), the items that may come next come to  *)
(* the names Due, which a byte changes by Onward (DueMore), and StopInv    *)
(* says which names are due in each state of the parser.                   *)
(***************************************************************************)
EXTENDS RequestLine, SequenceTheorems, WellFoundedInduction, TLAPS

Fields == Marks \cup {"method", "complex_uri", "major", "minor"}

InUri == {"after_slash_in_uri", "check_uri", "uri"}
InHttp == {"http_H", "http_HT", "http_HTT", "http_HTTP"}
InVersion == InHttp \cup {"http_09", "first_major_digit", "major_digit",
                          "first_minor_digit", "minor_digit"}
BehindUri == InVersion \cup {"almost_done", "done", "headers"}
Schemas == {"spaces_before_uri", "schema", "schema_slash"}
Before == Schemas \cup {"start", "method", "schema_slash_slash", "host", "port"}

No(w, set, a, b) == \A i \in a..b : w[i] \notin set

-----------------------------------------------------------------------------
(***************************************************************************)
(* Before the path.                                                        *)
(***************************************************************************)
Fresh(q) ==
  /\ q.port_end = 0 /\ q.uri_end = 0 /\ q.args_start = 0 /\ q.uri_ext = 0
  /\ q.request_end = 0 /\ ~q.complex_uri

Naming(w, q, p) ==
  /\ q.request_start >= 1 /\ q.request_start <= p
  /\ \A i \in q.request_start..p : w[i] \in Upper

Named(w, q, p) ==
  /\ q.request_start >= 1 /\ q.request_start < q.method_end /\ q.method_end <= p
  /\ \A i \in q.request_start..(q.method_end - 1) : w[i] \in Upper
  /\ w[q.method_end] = "sp"

\* The slashes from the method to position b are those before the host.
HostSlashes(w, q, b) ==
  \A i \in q.method_end..b : w[i] = "slash" => q.host_start \in i..(i + 1)

BeforeUri(w, q, p, s) ==
  /\ Fresh(q)
  /\ s = "method" => Naming(w, q, p)
  /\ s \notin {"start", "method"} => Named(w, q, p)
  /\ s \in Schemas => No(w, {"slash"}, q.method_end, p)
  /\ s = "schema_slash_slash" => No(w, {"slash"}, q.method_end, p - 1) /\ w[p] = "slash"
  /\ s \in {"host", "port"} => HostSlashes(w, q, p)
  /\ s \in Schemas \cup {"schema_slash_slash", "host"} => No(w, Eol, q.request_start, p)

\* What lies before the path.
Ahead(w, q) ==
  /\ q.method_end < q.uri_start /\ w[q.uri_start] = "slash"
  /\ HostSlashes(w, q, q.uri_start - 1)
  /\ \A i \in q.method_end..(q.uri_start - 1) : w[i] = "slash" =>
       (q.host_end < q.uri_start => q.port_end = q.uri_start)
  /\ q.port_end = 0 => No(w, Eol, q.request_start, q.uri_start)

-----------------------------------------------------------------------------
(***************************************************************************)
(* The path up to position e, which is not of it any more.                 *)
(***************************************************************************)
Names(w, q, e) ==
  \A i \in (q.uri_start + 1)..(e - 1) : w[i - 1] = "slash" => w[i] \notin {"slash", "dot"}

Extension(w, q, e) ==
  /\ q.uri_ext # 0 => /\ q.uri_start < q.uri_ext /\ q.uri_ext <= e
                      /\ w[q.uri_ext - 1] = "dot"
                      /\ No(w, {"dot", "slash"}, q.uri_ext, e - 1)
  /\ q.uri_ext = 0 => \A i \in q.uri_start..(e - 1) :
       w[i] = "dot" => \E j \in i..(e - 1) : w[j] = "slash"

Simple(w, q, e) ==
  No(w, {"percent", "question"}, q.uri_start, e - 1) /\ Names(w, q, e) /\ Extension(w, q, e)

Arguments(w, q, e) ==
  /\ q.uri_start < q.args_start - 1 /\ q.args_start <= e
  /\ w[q.args_start - 1] = "question"
  /\ No(w, {"question"}, q.uri_start, q.args_start - 2)

PathStop(q, e) == IF q.args_start # 0 THEN q.args_start - 1 ELSE e

Path(w, q, e) ==
  /\ q.uri_start < e /\ No(w, EndBytes, q.uri_start, e - 1)
  /\ q.args_start # 0 => Arguments(w, q, e)
  /\ ~q.complex_uri => Simple(w, q, PathStop(q, e))

UriSoFar(w, q, p, s) ==
  /\ q.request_end = 0 /\ Path(w, q, p + 1)
  /\ s # "uri" => q.args_start = 0 /\ No(w, {"question"}, q.uri_start, p)
  /\ s = "after_slash_in_uri" => w[p] = "slash" /\ (~q.complex_uri => q.uri_ext = 0)
  /\ s = "check_uri" => w[p] # "slash"
  /\ s = "uri" => q.args_start # 0 \/ q.complex_uri

UriRead(w, q) == Path(w, q, q.uri_end) /\ w[q.uri_end] \in EndBytes

\* What lies behind it.
LineTo(w, q, e) == q.uri_end <= e /\ No(w, Eol, q.uri_end, e - 1)

LineOver(w, q, p, e) ==
  /\ LineTo(w, q, e) /\ w[p] = "lf"
  /\ e = p \/ (e = p - 1 /\ w[e] = "cr")

BehindPath(w, q, p, s) ==
  /\ s \in InVersion => q.request_end = 0 /\ LineTo(w, q, p + 1)
  /\ s = "almost_done" => q.request_end = 0 /\ LineTo(w, q, p) /\ w[p] = "cr"
  /\ s = "done" => LineOver(w, q, p, IF q.request_end = 0 THEN p ELSE q.request_end)
  /\ s = "headers" => LineOver(w, q, p, q.request_end)

Facts(w, q, p, s) ==
  /\ s \in Before => BeforeUri(w, q, p, s)
  /\ s \in InUri => Named(w, q, p) /\ Ahead(w, q) /\ UriSoFar(w, q, p, s)
  /\ s \in BehindUri =>
       /\ Named(w, q, p) /\ Ahead(w, q) /\ UriRead(w, q) /\ q.uri_end <= p
       /\ BehindPath(w, q, p, s)

Lengths ==
  [unparsed |-> r.uri_end - r.uri_start, uri |-> PathEnd - r.uri_start,
   exten |-> IF r.uri_ext # 0 THEN PathEnd - r.uri_ext ELSE 0,
   line |-> r.request_end - r.request_start, method_name |-> MethodNameLen]

Copied ==
  /\ state # "headers" => buf = wire /\ len = NoLengths
  /\ state = "headers" => /\ buf = [wire EXCEPT ![r.request_end] = "nul"]
                          /\ len = Lengths /\ (r.complex_uri => r.uri_ext = 0)

Inv == TypeOK /\ DOMAIN r = Fields /\ Facts(wire, r, pos, state) /\ Copied

-----------------------------------------------------------------------------
(***************************************************************************)
(* One byte more.                                                          *)
(***************************************************************************)
Here == TypeOK /\ DOMAIN r = Fields /\ Facts(wire, r, pos, state) /\ buf = wire

LEMMA Sizes ==
  ASSUME TypeOK
  PROVE  /\ BufSize \in Nat /\ Len(wire) \in Nat /\ Len(buf) = Len(wire)
         /\ Len(wire) <= BufSize /\ pos \in Nat /\ pos <= Len(wire)
         /\ \A m \in Marks : r[m] \in Nat
BY LineAssumption, LenProperties DEF TypeOK, Position

LEMMA Numbers ==
  ASSUME TypeOK
  PROVE  /\ r.request_start \in Nat /\ r.method_end \in Nat /\ r.host_start \in Nat
         /\ r.host_end \in Nat /\ r.port_end \in Nat /\ r.uri_start \in Nat
         /\ r.uri_end \in Nat /\ r.args_start \in Nat /\ r.uri_ext \in Nat
         /\ r.request_end \in Nat
BY Sizes DEF Marks

LEMMA Reads ==
  ASSUME Here, pos < Len(buf)
  PROVE  /\ Cur = pos + 1 /\ Cur \in 1..Len(wire) /\ Cur \in Position
         /\ ch = wire[pos + 1] /\ ch \in Bytes /\ pos \in Nat
<1>1. Cur = pos + 1 /\ Cur \in 1..Len(wire) /\ Cur \in Position /\ pos \in Nat
  BY Sizes DEF Here, Cur, Position
<1>2. wire[Cur] \in Bytes
  BY <1>1, ElementOfSeq DEF Here, TypeOK
<1> QED BY <1>1, <1>2 DEF ch, Here

LEMMA NoMore ==
  ASSUME NEW w, NEW set, NEW a \in Int, NEW p \in Int, No(w, set, a, p), w[p + 1] \notin set
  PROVE  No(w, set, a, p + 1)
<1> SUFFICES ASSUME NEW i \in a..(p + 1) PROVE w[i] \notin set
  BY DEF No
<1>1. i \in a..p \/ i = p + 1
  OBVIOUS
<1> QED BY <1>1 DEF No

LEMMA NamedKept ==
  ASSUME NEW w, NEW q, NEW t, NEW p \in Nat, Named(w, q, p), q.method_end \in Nat,
         t.request_start = q.request_start, t.method_end = q.method_end
  PROVE  Named(w, t, p + 1)
BY DEF Named

LEMMA AheadKept ==
  ASSUME NEW w, NEW q, NEW t, Ahead(w, q), t.request_start = q.request_start,
         t.method_end = q.method_end, t.host_start = q.host_start, t.host_end = q.host_end,
         t.port_end = q.port_end, t.uri_start = q.uri_start
  PROVE  Ahead(w, t)
BY DEF Ahead, HostSlashes

-----------------------------------------------------------------------------
(***************************************************************************)
(* The steps before the path.                                              *)
(***************************************************************************)
LEMMA Rejects ==
  ASSUME Reject
  PROVE  Facts(wire', r', pos', state')
BY DEF Reject, Facts, Before, Schemas, InUri, BehindUri, InVersion, InHttp

LEMMA StartFacts ==
  ASSUME Here, Start
  PROVE  Facts(wire', r', pos', state')
<1>0. /\ Cur = pos + 1 /\ ch = wire[pos + 1] /\ pos \in Nat /\ state = "start"
      /\ DOMAIN r = Fields /\ Fresh(r)
  BY Reads DEF Here, Start, In, Facts, Before, BeforeUri
<1>1. CASE ch \in Eol /\ Take("start") /\ r' = [r EXCEPT !.request_start = Cur]
  <2>1. Fresh(r')
    BY <1>0, <1>1 DEF Fresh, Fields, Marks
  <2> QED BY <1>1, <2>1 DEF Take, Facts, BeforeUri, Before, Schemas, InUri, BehindUri,
             InVersion, InHttp
<1>2. CASE ch \in Upper /\ Take("method") /\ r' = [r EXCEPT !.request_start = Cur]
  <2>1. Fresh(r') /\ r'.request_start = pos + 1
    BY <1>0, <1>2 DEF Fresh, Fields, Marks
  <2>2. wire' = wire /\ pos' = pos + 1 /\ state' = "method"
    BY <1>0, <1>2 DEF Take
  <2>3. Naming(wire', r', pos')
    BY <1>0, <1>2, <2>1, <2>2 DEF Naming
  <2> QED BY <2>1, <2>2, <2>3 DEF Facts, BeforeUri, Before, Schemas, InUri, BehindUri,
             InVersion, InHttp
<1> QED BY <1>1, <1>2, Rejects DEF Start

LEMMA MethodFacts ==
  ASSUME Here, Method
  PROVE  Facts(wire', r', pos', state')
<1>0. /\ Cur = pos + 1 /\ ch = wire[pos + 1] /\ pos \in Nat /\ state = "method"
      /\ DOMAIN r = Fields /\ Fresh(r) /\ Naming(wire, r, pos) /\ r.request_start \in Nat
  BY Reads, Numbers DEF Here, Method, In, Facts, Before, BeforeUri
<1>1. ASSUME ch = "sp", Take("spaces_before_uri"), NEW m,
             r' = [r EXCEPT !.method_end = Cur, !.method = m]
      PROVE  Facts(wire', r', pos', state')
  <2>1. Fresh(r') /\ r'.method_end = pos + 1 /\ r'.request_start = r.request_start
    BY <1>0, <1>1 DEF Fresh, Fields, Marks
  <2>2. wire' = wire /\ pos' = pos + 1 /\ state' = "spaces_before_uri" /\ wire[pos + 1] = "sp"
    BY <1>0, <1>1 DEF Take
  <2>3. Named(wire, r', pos + 1)
    BY <1>0, <2>1, <2>2 DEF Naming, Named
  <2>4. No(wire, {"slash"}, r'.method_end, pos + 1)
    BY <1>0, <2>1, <2>2 DEF No
  <2>5. No(wire, Eol, r'.request_start, pos + 1)
    <3>1. No(wire, Eol, r.request_start, pos)
      BY <1>0 DEF No, Naming, Upper, Eol
    <3> QED BY <1>0, <2>1, <2>2, <3>1, NoMore DEF Eol
  <2> QED BY <2>1, <2>2, <2>3, <2>4, <2>5 DEF Facts, BeforeUri, Before, Schemas, InUri,
             BehindUri, InVersion, InHttp
<1>2. CASE ch \in Upper /\ Go("method")
  <2>1. wire' = wire /\ pos' = pos + 1 /\ state' = "method" /\ r' = r /\ wire[pos + 1] \in Upper
    BY <1>0, <1>2 DEF Go, Take
  <2>2. Naming(wire, r, pos + 1)
    <3>1. ASSUME NEW i \in r.request_start..(pos + 1) PROVE wire[i] \in Upper
      <4>1. i \in r.request_start..pos \/ i = pos + 1
        BY <1>0
      <4> QED BY <1>0, <2>1, <4>1 DEF Naming
    <3>2. r.request_start <= pos + 1
      BY <1>0 DEF Naming
    <3> QED BY <1>0, <3>1, <3>2 DEF Naming
  <2> QED BY <1>0, <2>1, <2>2 DEF Facts, BeforeUri, Before, Schemas, InUri, BehindUri,
             InVersion, InHttp
<1> QED BY <1>1, <1>2, Rejects DEF Method

\* The first slash of the path.
LEMMA FirstSlash ==
  ASSUME NEW w, NEW t, NEW p \in Nat, t.uri_start = p, w[p] = "slash", t.request_end = 0,
         t.args_start = 0, t.uri_ext = 0
  PROVE  UriSoFar(w, t, p, "after_slash_in_uri")
<1>1. /\ p < p + 1 /\ p..p = {p} /\ (p + 1) - 1 = p /\ (p + 1)..p = {}
  OBVIOUS
<1>2. w[p] \notin EndBytes /\ w[p] \notin {"percent", "question"} /\ w[p] # "dot"
  BY DEF EndBytes, Eol
<1>3. Simple(w, t, p + 1)
  BY <1>1, <1>2 DEF Simple, No, Names, Extension
<1>4. Path(w, t, p + 1)
  BY <1>1, <1>2, <1>3 DEF Path, PathStop, No
<1>5. No(w, {"question"}, t.uri_start, p)
  BY <1>1, <1>2 DEF No
<1> QED BY <1>4, <1>5 DEF UriSoFar

LEMMA IntoUri ==
  ASSUME wire' = wire, pos' = pos + 1, pos \in Nat, state' \in InUri,
         Named(wire, r', pos + 1), Ahead(wire, r'), UriSoFar(wire, r', pos + 1, state')
  PROVE  Facts(wire', r', pos', state')
BY DEF Facts, Before, Schemas, InUri, BehindUri, InVersion, InHttp

\* The byte goes into what lies before the path.
LEMMA StayBefore ==
  ASSUME wire' = wire, pos' = pos + 1, pos \in Nat, Fresh(r'), Named(wire, r', pos + 1),
         state' \in Schemas => No(wire, {"slash"}, r'.method_end, pos + 1),
         state' = "schema_slash_slash" =>
           No(wire, {"slash"}, r'.method_end, pos) /\ wire[pos + 1] = "slash",
         state' \in {"host", "port"} => HostSlashes(wire, r', pos + 1),
         state' # "port" => No(wire, Eol, r'.request_start, pos + 1),
         state' \in Schemas \cup {"schema_slash_slash", "host", "port"}
  PROVE  Facts(wire', r', pos', state')
<1>1. pos' - 1 = pos
  OBVIOUS
<1>2. state' \in Before /\ state' \notin InUri /\ state' \notin BehindUri
      /\ state' \notin {"start", "method"}
  BY DEF Before, Schemas, InUri, BehindUri, InVersion, InHttp
<1> QED BY <1>1, <1>2 DEF Facts, BeforeUri, Schemas

LEMMA BeforeHere ==
  ASSUME Here, pos < Len(buf), state \in Schemas \cup {"schema_slash_slash", "host", "port"}
  PROVE  /\ Cur = pos + 1 /\ ch = wire[pos + 1] /\ pos \in Nat /\ DOMAIN r = Fields
         /\ Fresh(r) /\ Named(wire, r, pos) /\ r.request_start \in Nat /\ r.method_end \in Nat
         /\ r.host_start \in Nat
         /\ state \in Schemas => No(wire, {"slash"}, r.method_end, pos)
         /\ state = "schema_slash_slash" =>
              No(wire, {"slash"}, r.method_end, pos - 1) /\ wire[pos] = "slash"
         /\ state \in {"host", "port"} => HostSlashes(wire, r, pos)
         /\ state # "port" => No(wire, Eol, r.request_start, pos)
<1>1. state \in Before /\ state \notin {"start", "method"}
  BY DEF Before, Schemas
<1>2. BeforeUri(wire, r, pos, state)
  BY <1>1 DEF Here, Facts
<1> QED BY <1>1, <1>2, Reads, Numbers DEF Here, BeforeUri

LEMMA SpacesFacts ==
  ASSUME Here, SpacesBeforeUri
  PROVE  Facts(wire', r', pos', state')
<1>0. /\ Cur = pos + 1 /\ ch = wire[pos + 1] /\ pos \in Nat /\ DOMAIN r = Fields
      /\ Fresh(r) /\ Named(wire, r, pos) /\ r.request_start \in Nat /\ r.method_end \in Nat
      /\ No(wire, {"slash"}, r.method_end, pos) /\ No(wire, Eol, r.request_start, pos)
  BY BeforeHere DEF SpacesBeforeUri, In, Schemas
<1>1. CASE ch = "slash" /\ Take("after_slash_in_uri") /\ r' = [r EXCEPT !.uri_start = Cur]
  <2>1. /\ Fresh(r') /\ r'.method_end = r.method_end /\ r'.request_start = r.request_start
        /\ r'.uri_start = pos + 1
    BY <1>0, <1>1 DEF Fresh, Fields, Marks
  <2>2. /\ wire' = wire /\ pos' = pos + 1 /\ state' = "after_slash_in_uri"
        /\ wire[pos + 1] = "slash"
    BY <1>0, <1>1 DEF Take
  <2>3. Named(wire, r', pos + 1)
    BY <1>0, <2>1, NamedKept
  <2>4. No(wire, Eol, r'.request_start, pos + 1)
    BY <1>0, <2>1, <2>2, NoMore DEF Eol
  <2>5. Ahead(wire, r')
    <3>1. r'.method_end < r'.uri_start /\ r'.uri_start - 1 = pos
      BY <1>0, <2>1 DEF Named
    <3>2. \A i \in r'.method_end..pos : wire[i] # "slash"
      BY <1>0, <2>1 DEF No
    <3> QED BY <2>1, <2>2, <2>4, <3>1, <3>2 DEF Ahead, HostSlashes
  <2>6. UriSoFar(wire, r', pos + 1, state')
    BY <1>0, <2>1, <2>2, FirstSlash DEF Fresh
  <2> QED BY <1>0, <2>2, <2>3, <2>5, <2>6, IntoUri DEF InUri
<1>2. CASE /\ ch = "sp" /\ Take("spaces_before_uri") /\ r' = r
  <2>1. wire' = wire /\ pos' = pos + 1 /\ wire[pos + 1] = "sp"
    BY <1>0, <1>2 DEF Take
  <2>2. /\ No(wire, {"slash"}, r.method_end, pos + 1) /\ No(wire, Eol, r.request_start, pos + 1)
        /\ Named(wire, r, pos + 1)
    BY <1>0, <2>1, NoMore, NamedKept DEF Eol
  <2> QED BY <1>0, <1>2, <2>1, <2>2, StayBefore DEF Take, Schemas
<1>3. CASE ch \in Letters /\ Take("schema") /\ r' = [r EXCEPT !.schema_start = Cur]
  <2>0. Fresh(r') /\ r'.method_end = r.method_end /\ r'.request_start = r.request_start
    BY <1>0, <1>3 DEF Fresh, Fields, Marks
  <2>1. wire' = wire /\ pos' = pos + 1 /\ wire[pos + 1] \notin {"slash"} /\ wire[pos + 1] \notin Eol
    BY <1>0, <1>3 DEF Take, Letters, Upper, Eol
  <2>2. /\ No(wire, {"slash"}, r.method_end, pos + 1) /\ No(wire, Eol, r.request_start, pos + 1)
        /\ Named(wire, r', pos + 1)
    BY <1>0, <2>0, <2>1, NoMore, NamedKept
  <2> QED BY <1>0, <1>3, <2>0, <2>1, <2>2, StayBefore DEF Take, Schemas
<1> QED BY <1>1, <1>2, <1>3, Rejects DEF SpacesBeforeUri, Go

LEMMA SchemaFacts ==
  ASSUME Here, Schema
  PROVE  Facts(wire', r', pos', state')
<1>0. /\ Cur = pos + 1 /\ ch = wire[pos + 1] /\ pos \in Nat /\ DOMAIN r = Fields
      /\ Fresh(r) /\ Named(wire, r, pos) /\ r.request_start \in Nat /\ r.method_end \in Nat
      /\ No(wire, {"slash"}, r.method_end, pos) /\ No(wire, Eol, r.request_start, pos)
  BY BeforeHere DEF Schema, In, Schemas
<1>1. CASE \/ ch = "colon" /\ Take("schema_slash") /\ r' = [r EXCEPT !.schema_end = Cur]
           \/ ch \in Letters /\ Take("schema") /\ r' = r
  <2>1. Fresh(r') /\ r'.method_end = r.method_end /\ r'.request_start = r.request_start
    BY <1>0, <1>1 DEF Fresh, Fields, Marks
  <2>2. /\ wire' = wire /\ pos' = pos + 1 /\ state' \in Schemas
        /\ wire[pos + 1] \notin {"slash"} /\ wire[pos + 1] \notin Eol
    BY <1>0, <1>1 DEF Take, Letters, Upper, Eol, Schemas
  <2>3. /\ No(wire, {"slash"}, r.method_end, pos + 1) /\ No(wire, Eol, r.request_start, pos + 1)
        /\ Named(wire, r', pos + 1)
    BY <1>0, <2>1, <2>2, NoMore, NamedKept
  <2> QED BY <1>0, <2>1, <2>2, <2>3, StayBefore DEF Schemas
<1> QED BY <1>1, Rejects DEF Schema, Go

LEMMA SchemaSlashFacts ==
  ASSUME Here, SchemaSlash
  PROVE  Facts(wire', r', pos', state')
<1>0. /\ Cur = pos + 1 /\ ch = wire[pos + 1] /\ pos \in Nat
      /\ Fresh(r) /\ Named(wire, r, pos) /\ r.request_start \in Nat /\ r.method_end \in Nat
      /\ No(wire, {"slash"}, r.method_end, pos) /\ No(wire, Eol, r.request_start, pos)
  BY BeforeHere DEF SchemaSlash, In, Schemas
<1>1. CASE ch = "slash" /\ Go("schema_slash_slash")
  <2>1. /\ wire' = wire /\ pos' = pos + 1 /\ state' = "schema_slash_slash" /\ r' = r
        /\ wire[pos + 1] = "slash"
    BY <1>0, <1>1 DEF Go, Take
  <2>2. No(wire, Eol, r.request_start, pos + 1) /\ Named(wire, r, pos + 1)
    BY <1>0, <2>1, NoMore, NamedKept DEF Eol
  <2> QED BY <1>0, <2>1, <2>2, StayBefore DEF Schemas
<1> QED BY <1>1, Rejects DEF SchemaSlash

LEMMA SchemaSlashSlashFacts ==
  ASSUME Here, SchemaSlashSlash
  PROVE  Facts(wire', r', pos', state')
<1>0. /\ Cur = pos + 1 /\ ch = wire[pos + 1] /\ pos \in Nat /\ DOMAIN r = Fields
      /\ Fresh(r) /\ Named(wire, r, pos) /\ r.request_start \in Nat /\ r.method_end \in Nat
      /\ No(wire, {"slash"}, r.method_end, pos - 1) /\ No(wire, Eol, r.request_start, pos)
  BY BeforeHere DEF SchemaSlashSlash, In, Schemas
<1>1. CASE ch = "slash" /\ Take("host") /\ r' = [r EXCEPT !.host_start = Cur]
  <2>1. /\ Fresh(r') /\ r'.method_end = r.method_end /\ r'.request_start = r.request_start
        /\ r'.host_start = pos + 1
    BY <1>0, <1>1 DEF Fresh, Fields, Marks
  <2>2. wire' = wire /\ pos' = pos + 1 /\ state' = "host" /\ wire[pos + 1] = "slash"
    BY <1>0, <1>1 DEF Take
  <2>3. No(wire, Eol, r.request_start, pos + 1) /\ Named(wire, r', pos + 1)
    BY <1>0, <2>1, <2>2, NoMore, NamedKept DEF Eol
  <2>4. HostSlashes(wire, r', pos + 1)
    <3>1. ASSUME NEW i \in r'.method_end..(pos + 1), wire[i] = "slash"
          PROVE  r'.host_start \in i..(i + 1)
      <4>1. i \in r.method_end..(pos - 1) \/ i = pos \/ i = pos + 1
        BY <1>0, <2>1
      <4>2. i \notin r.method_end..(pos - 1)
        BY <1>0, <3>1 DEF No
      <4> QED BY <1>0, <2>1, <4>1, <4>2
    <3> QED BY <3>1 DEF HostSlashes
  <2> QED BY <1>0, <2>1, <2>2, <2>3, <2>4, StayBefore DEF Schemas
<1> QED BY <1>1, Rejects DEF SchemaSlashSlash

\* A byte that is no slash behind the slashes before the host.
LEMMA HostMore ==
  ASSUME NEW w, NEW q, NEW t, NEW p \in Nat, HostSlashes(w, q, p), q.method_end \in Nat,
         t.method_end = q.method_end, t.host_start = q.host_start, w[p + 1] # "slash"
  PROVE  HostSlashes(w, t, p + 1)
<1> SUFFICES ASSUME NEW i \in q.method_end..(p + 1), w[i] = "slash"
             PROVE  q.host_start \in i..(i + 1)
  BY DEF HostSlashes
<1>1. i \in q.method_end..p \/ i = p + 1
  OBVIOUS
<1> QED BY <1>1 DEF HostSlashes

LEMMA HostFacts ==
  ASSUME Here, Host
  PROVE  Facts(wire', r', pos', state')
<1>0. /\ Cur = pos + 1 /\ ch = wire[pos + 1] /\ pos \in Nat /\ DOMAIN r = Fields
      /\ Fresh(r) /\ Named(wire, r, pos) /\ r.request_start \in Nat /\ r.method_end \in Nat
      /\ HostSlashes(wire, r, pos) /\ No(wire, Eol, r.request_start, pos)
  BY BeforeHere DEF Host, In, Schemas
<1>1. CASE \/ ch = "colon" /\ Take("port") /\ r' = [r EXCEPT !.host_end = Cur]
           \/ ch \in HostBytes /\ Take("host") /\ r' = r
  <2>1. /\ Fresh(r') /\ r'.method_end = r.method_end /\ r'.request_start = r.request_start
        /\ r'.host_start = r.host_start
    BY <1>0, <1>1 DEF Fresh, Fields, Marks
  <2>2. /\ wire' = wire /\ pos' = pos + 1 /\ state' \in {"host", "port"}
        /\ wire[pos + 1] # "slash" /\ wire[pos + 1] \notin Eol
    BY <1>0, <1>1 DEF Take, HostBytes, Letters, Upper, Digits, Eol
  <2>3. No(wire, Eol, r.request_start, pos + 1) /\ Named(wire, r', pos + 1)
    BY <1>0, <2>1, <2>2, NoMore, NamedKept
  <2>4. HostSlashes(wire, r', pos + 1)
    BY <1>0, <2>1, <2>2, HostMore
  <2> QED BY <1>0, <2>1, <2>2, <2>3, <2>4, StayBefore DEF Schemas
<1>2. CASE /\ ch = "slash" /\ Take("after_slash_in_uri")
           /\ r' = [r EXCEPT !.host_end = Cur, !.uri_start = Cur]
  <2>1. /\ Fresh(r') /\ r'.method_end = r.method_end /\ r'.request_start = r.request_start
        /\ r'.uri_start = pos + 1 /\ r'.host_start = r.host_start /\ r'.host_end = pos + 1
    BY <1>0, <1>2 DEF Fresh, Fields, Marks
  <2>2. /\ wire' = wire /\ pos' = pos + 1 /\ state' = "after_slash_in_uri"
        /\ wire[pos + 1] = "slash"
    BY <1>0, <1>2 DEF Take
  <2>3. Named(wire, r', pos + 1)
    BY <1>0, <2>1, NamedKept
  <2>4. No(wire, Eol, r'.request_start, pos + 1)
    BY <1>0, <2>1, <2>2, NoMore DEF Eol
  <2>5. Ahead(wire, r')
    <3>1. /\ r'.method_end < r'.uri_start /\ r'.uri_start - 1 = pos
          /\ ~(r'.host_end < r'.uri_start)
      BY <1>0, <2>1 DEF Named
    <3>2. HostSlashes(wire, r', pos)
      BY <1>0, <2>1 DEF HostSlashes
    <3> QED BY <2>1, <2>2, <2>4, <3>1, <3>2 DEF Ahead
  <2>6. UriSoFar(wire, r', pos + 1, state')
    BY <1>0, <2>1, <2>2, FirstSlash DEF Fresh
  <2> QED BY <1>0, <2>2, <2>3, <2>5, <2>6, IntoUri DEF InUri
<1> QED BY <1>1, <1>2, Rejects DEF Host, Go

LEMMA PortFacts ==
  ASSUME Here, Port
  PROVE  Facts(wire', r', pos', state')
<1>0. /\ Cur = pos + 1 /\ ch = wire[pos + 1] /\ pos \in Nat /\ DOMAIN r = Fields
      /\ Fresh(r) /\ Named(wire, r, pos) /\ r.request_start \in Nat /\ r.method_end \in Nat
      /\ HostSlashes(wire, r, pos)
  BY BeforeHere DEF Port, In, Schemas
<1>1. CASE ch # "slash" /\ Go("port")
  <2>1. wire' = wire /\ pos' = pos + 1 /\ state' = "port" /\ r' = r /\ wire[pos + 1] # "slash"
    BY <1>0, <1>1 DEF Go, Take
  <2>2. Named(wire, r, pos + 1) /\ HostSlashes(wire, r, pos + 1)
    BY <1>0, <2>1, NamedKept, HostMore
  <2> QED BY <1>0, <2>1, <2>2, StayBefore DEF Schemas
<1>2. CASE /\ ch = "slash" /\ Take("after_slash_in_uri")
           /\ r' = [r EXCEPT !.port_end = Cur, !.uri_start = Cur]
  <2>1. /\ r'.uri_end = 0 /\ r'.args_start = 0 /\ r'.uri_ext = 0 /\ r'.request_end = 0
        /\ r'.method_end = r.method_end /\ r'.request_start = r.request_start
        /\ r'.uri_start = pos + 1 /\ r'.host_start = r.host_start /\ r'.port_end = pos + 1
    BY <1>0, <1>2 DEF Fresh, Fields, Marks
  <2>2. /\ wire' = wire /\ pos' = pos + 1 /\ state' = "after_slash_in_uri"
        /\ wire[pos + 1] = "slash"
    BY <1>0, <1>2 DEF Take
  <2>3. Named(wire, r', pos + 1)
    BY <1>0, <2>1, NamedKept
  <2>4. Ahead(wire, r')
    <3>1. /\ r'.method_end < r'.uri_start /\ r'.uri_start - 1 = pos /\ r'.port_end # 0
          /\ r'.port_end = r'.uri_start
      BY <1>0, <2>1 DEF Named
    <3>2. HostSlashes(wire, r', pos)
      BY <1>0, <2>1 DEF HostSlashes
    <3> QED BY <2>1, <2>2, <3>1, <3>2 DEF Ahead
  <2>5. UriSoFar(wire, r', pos + 1, state')
    BY <1>0, <2>1, <2>2, FirstSlash
  <2> QED BY <1>0, <2>2, <2>3, <2>4, <2>5, IntoUri DEF InUri
<1> QED BY <1>1, <1>2 DEF Port

-----------------------------------------------------------------------------
(***************************************************************************)
(* The steps in the path.                                                  *)
(***************************************************************************)
LEMMA SimpleKept ==
  ASSUME NEW w, NEW q, NEW t, NEW e, Simple(w, q, e),
         t.uri_start = q.uri_start, t.uri_ext = q.uri_ext
  PROVE  Simple(w, t, e)
BY DEF Simple, Names, Extension

LEMMA PathKept ==
  ASSUME NEW w, NEW q, NEW t, NEW e, Path(w, q, e), t.uri_start = q.uri_start,
         t.uri_ext = q.uri_ext, t.args_start = q.args_start, t.complex_uri = q.complex_uri
  PROVE  Path(w, t, e)
<1>1. PathStop(t, e) = PathStop(q, e)
  BY DEF PathStop
<1>2. ~q.complex_uri => Simple(w, t, PathStop(t, e))
  BY <1>1, SimpleKept DEF Path
<1> QED BY <1>2 DEF Path, Arguments

LEMMA PathMore ==
  ASSUME NEW w, NEW q, NEW t, NEW e \in Nat, Path(w, q, e), w[e] \notin EndBytes,
         q.uri_start \in Nat, q.args_start \in Nat,
         t.uri_start = q.uri_start, t.args_start = q.args_start,
         ~t.complex_uri => Simple(w, t, PathStop(t, e + 1))
  PROVE  Path(w, t, e + 1)
<1>1. No(w, EndBytes, q.uri_start, e - 1) /\ (e - 1) + 1 = e /\ e - 1 \in Int
  BY DEF Path
<1>2. No(w, EndBytes, q.uri_start, e)
  BY <1>1, NoMore
<1>3. q.uri_start < e + 1 /\ (e + 1) - 1 = e
  BY DEF Path
<1>4. t.args_start # 0 => Arguments(w, t, e + 1)
  BY DEF Path, Arguments
<1> QED BY <1>2, <1>3, <1>4 DEF Path

LEMMA PathArguments ==
  ASSUME NEW w, NEW q, NEW t, NEW e \in Nat, Path(w, q, e), w[e] = "question",
         q.uri_start \in Nat, q.args_start = 0, No(w, {"question"}, q.uri_start, e - 1),
         t.uri_start = q.uri_start, t.args_start = e + 1, t.uri_ext = q.uri_ext,
         t.complex_uri = q.complex_uri
  PROVE  Path(w, t, e + 1)
<1>1. No(w, EndBytes, q.uri_start, e - 1) /\ (e - 1) + 1 = e /\ e - 1 \in Int /\ q.uri_start < e
  BY DEF Path
<1>2. No(w, EndBytes, q.uri_start, e)
  BY <1>1, NoMore DEF EndBytes, Eol
<1>3. /\ q.uri_start < e + 1 /\ (e + 1) - 1 = e /\ (e + 1) - 2 = e - 1 /\ e + 1 # 0
      /\ e + 1 <= e + 1
  BY <1>1
<1>4. Arguments(w, t, e + 1)
  BY <1>1, <1>3 DEF Arguments
<1>5. PathStop(t, e + 1) = e /\ PathStop(q, e) = e
  BY <1>3 DEF PathStop
<1>6. ~t.complex_uri => Simple(w, t, PathStop(t, e + 1))
  BY <1>5, SimpleKept DEF Path
<1> QED BY <1>2, <1>3, <1>4, <1>6 DEF Path

\* A byte of a name, a dot, and a slash behind a name.
LEMMA SimplePlain ==
  ASSUME NEW w, NEW q, NEW e \in Nat, Simple(w, q, e), q.uri_start \in Nat, q.uri_ext \in Nat,
         w[e] \notin {"dot", "slash", "percent", "question"}
  PROVE  Simple(w, q, e + 1)
<1>1. (e - 1) + 1 = e /\ e - 1 \in Int /\ (e + 1) - 1 = e
  OBVIOUS
<1>2. No(w, {"percent", "question"}, q.uri_start, e)
  BY <1>1, NoMore DEF Simple
<1>3. ASSUME NEW i \in (q.uri_start + 1)..e, w[i - 1] = "slash"
      PROVE  w[i] \notin {"slash", "dot"}
  <2>1. i \in (q.uri_start + 1)..(e - 1) \/ i = e
    OBVIOUS
  <2> QED BY <1>3, <2>1 DEF Simple, Names
<1>4. ASSUME q.uri_ext # 0
      PROVE  /\ q.uri_start < q.uri_ext /\ q.uri_ext <= e + 1 /\ w[q.uri_ext - 1] = "dot"
             /\ No(w, {"dot", "slash"}, q.uri_ext, e)
  <2>1. No(w, {"dot", "slash"}, q.uri_ext, e - 1)
    BY <1>4 DEF Simple, Extension
  <2>2. No(w, {"dot", "slash"}, q.uri_ext, e)
    BY <1>1, <2>1, NoMore
  <2> QED BY <1>4, <2>2 DEF Simple, Extension
<1>5. ASSUME q.uri_ext = 0, NEW i \in q.uri_start..e, w[i] = "dot"
      PROVE  \E j \in i..e : w[j] = "slash"
  <2>1. i \in q.uri_start..(e - 1)
    <3>1. i # e
      BY <1>5
    <3> QED BY <3>1
  <2>2. PICK j \in i..(e - 1) : w[j] = "slash"
    BY <1>5, <2>1 DEF Simple, Extension
  <2> QED BY <2>2
<1> QED BY <1>1, <1>2, <1>3, <1>4, <1>5 DEF Simple, Names, Extension

LEMMA SimpleDot ==
  ASSUME NEW w, NEW q, NEW t, NEW e \in Nat, Simple(w, q, e), q.uri_start \in Nat,
         q.uri_start < e, t.uri_start = q.uri_start, t.uri_ext = e + 1,
         w[e] = "dot", w[e - 1] # "slash"
  PROVE  Simple(w, t, e + 1)
<1>1. (e - 1) + 1 = e /\ e - 1 \in Int /\ (e + 1) - 1 = e /\ e + 1 # 0
  OBVIOUS
<1>2. No(w, {"percent", "question"}, q.uri_start, e)
  BY <1>1, NoMore DEF Simple
<1>3. ASSUME NEW i \in (q.uri_start + 1)..e, w[i - 1] = "slash"
      PROVE  w[i] \notin {"slash", "dot"}
  <2>1. i \in (q.uri_start + 1)..(e - 1) \/ i = e
    OBVIOUS
  <2> QED BY <1>3, <2>1 DEF Simple, Names
<1>4. q.uri_start < e + 1 /\ e + 1 <= e + 1 /\ No(w, {"dot", "slash"}, e + 1, e)
  BY DEF No
<1> QED BY <1>1, <1>2, <1>3, <1>4 DEF Simple, Names, Extension

LEMMA SimpleSlash ==
  ASSUME NEW w, NEW q, NEW t, NEW e \in Nat, Simple(w, q, e), q.uri_start \in Nat,
         t.uri_start = q.uri_start, t.uri_ext = 0, w[e] = "slash", w[e - 1] # "slash"
  PROVE  Simple(w, t, e + 1)
<1>1. (e - 1) + 1 = e /\ e - 1 \in Int /\ (e + 1) - 1 = e
  OBVIOUS
<1>2. No(w, {"percent", "question"}, q.uri_start, e)
  BY <1>1, NoMore DEF Simple
<1>3. ASSUME NEW i \in (q.uri_start + 1)..e, w[i - 1] = "slash"
      PROVE  w[i] \notin {"slash", "dot"}
  <2>1. i \in (q.uri_start + 1)..(e - 1) \/ i = e
    OBVIOUS
  <2> QED BY <1>3, <2>1 DEF Simple, Names
<1>4. \A i \in q.uri_start..e : e \in i..e
  OBVIOUS
<1> QED BY <1>1, <1>2, <1>3, <1>4 DEF Simple, Names, Extension

LEMMA UriHere ==
  ASSUME Here, pos < Len(buf), state \in InUri
  PROVE  /\ Cur = pos + 1 /\ ch = wire[pos + 1] /\ pos \in Nat /\ DOMAIN r = Fields
         /\ Named(wire, r, pos) /\ Ahead(wire, r) /\ UriSoFar(wire, r, pos, state)
         /\ r.method_end \in Nat /\ r.uri_start \in Nat /\ r.args_start \in Nat
         /\ r.uri_ext \in Nat /\ pos + 1 \in Nat
         /\ r.complex_uri \in BOOLEAN
<1>1. r.complex_uri \in BOOLEAN
  BY DEF Here, TypeOK
<1> QED BY <1>1, Reads, Numbers DEF Here, Facts

\* What is before the path, while the path goes on.
LEMMA StillBehind ==
  ASSUME Here, pos < Len(buf), state \in InUri, DOMAIN r' = Fields,
         \A f \in {"request_start", "method_end", "host_start", "host_end", "port_end",
                   "uri_start"} : r'[f] = r[f]
  PROVE  Named(wire, r', pos + 1) /\ Ahead(wire, r')
<1>1. /\ r'.request_start = r.request_start /\ r'.method_end = r.method_end
      /\ r'.host_start = r.host_start /\ r'.host_end = r.host_end
      /\ r'.port_end = r.port_end /\ r'.uri_start = r.uri_start
  OBVIOUS
<1> QED BY <1>1, UriHere, NamedKept, AheadKept

LEMMA EndFacts ==
  ASSUME Here, pos < Len(buf), state \in InUri, UriEnds
  PROVE  Facts(wire', r', pos', state')
<1>0. /\ Cur = pos + 1 /\ ch = wire[pos + 1] /\ pos \in Nat /\ DOMAIN r = Fields
      /\ Path(wire, r, pos + 1) /\ r.request_end = 0
  BY UriHere DEF UriSoFar
<1>1. /\ DOMAIN r' = Fields
      /\ r'.request_start = r.request_start /\ r'.method_end = r.method_end
      /\ r'.host_start = r.host_start /\ r'.host_end = r.host_end
      /\ r'.port_end = r.port_end /\ r'.uri_start = r.uri_start
      /\ r'.args_start = r.args_start /\ r'.uri_ext = r.uri_ext
      /\ r'.complex_uri = r.complex_uri /\ r'.request_end = 0 /\ r'.uri_end = pos + 1
  BY <1>0 DEF UriEnds, Fields, Marks
<1>2. Named(wire, r', pos + 1) /\ Ahead(wire, r')
  BY <1>1, StillBehind
<1>3. /\ wire' = wire /\ pos' = pos + 1
      /\ \/ state' = "http_09" /\ wire[pos + 1] = "sp"
         \/ state' = "almost_done" /\ wire[pos + 1] = "cr"
         \/ state' = "done" /\ wire[pos + 1] = "lf"
  BY <1>0 DEF UriEnds, Take
<1>4. UriRead(wire, r')
  <2>1. Path(wire, r', pos + 1)
    BY <1>0, <1>1, PathKept
  <2> QED BY <1>1, <1>3, <2>1 DEF UriRead, EndBytes, Eol
<1>5. BehindPath(wire, r', pos + 1, state')
  <2>1. LineTo(wire, r', pos + 1)
    BY <1>0, <1>1 DEF LineTo, No
  <2>2. wire[pos + 1] = "sp" => LineTo(wire, r', (pos + 1) + 1)
    BY <1>0, <1>1 DEF LineTo, No, Eol
  <2> QED BY <1>1, <1>3, <2>1, <2>2 DEF BehindPath, LineOver, InVersion, InHttp
<1>6. r'.uri_end <= pos + 1
  BY <1>0, <1>1
<1> QED BY <1>2, <1>3, <1>4, <1>5, <1>6 DEF Facts, Before, Schemas, InUri, BehindUri,
           InVersion, InHttp

\* The path is still being looked at: no mark but those before it is set.
LEMMA CheckHere ==
  ASSUME Here, pos < Len(buf), state \in {"after_slash_in_uri", "check_uri"}
  PROVE  /\ Cur = pos + 1 /\ ch = wire[pos + 1] /\ pos \in Nat /\ DOMAIN r = Fields
         /\ r.uri_start \in Nat /\ r.args_start = 0 /\ r.uri_ext \in Nat /\ pos + 1 \in Nat
         /\ Path(wire, r, pos + 1) /\ No(wire, {"question"}, r.uri_start, pos)
         /\ r.request_end = 0 /\ state \in InUri /\ r.complex_uri \in BOOLEAN
         /\ ~r.complex_uri => Simple(wire, r, pos + 1)
<1>1. state \in InUri /\ state # "uri"
  BY DEF InUri
<1>2. r.args_start = 0 /\ Path(wire, r, pos + 1)
  BY <1>1, UriHere DEF UriSoFar
<1>3. ~r.complex_uri => Simple(wire, r, pos + 1)
  BY <1>2 DEF Path, PathStop
<1> QED BY <1>1, <1>2, <1>3, UriHere DEF UriSoFar

LEMMA FoundComplex ==
  ASSUME Here, pos < Len(buf), state \in {"after_slash_in_uri", "check_uri"},
         \/ ch \in {"dot", "percent"} /\ Take("uri")
         \/ ch = "slash" /\ Take("after_slash_in_uri"),
         r' = [r EXCEPT !.complex_uri = TRUE]
  PROVE  Facts(wire', r', pos', state')
<1>0. /\ Cur = pos + 1 /\ ch = wire[pos + 1] /\ pos \in Nat /\ DOMAIN r = Fields
      /\ r.uri_start \in Nat /\ r.args_start = 0 /\ pos + 1 \in Nat
      /\ Path(wire, r, pos + 1) /\ No(wire, {"question"}, r.uri_start, pos)
      /\ r.request_end = 0 /\ state \in InUri
  BY CheckHere
<1>1. /\ DOMAIN r' = Fields /\ r'.complex_uri = TRUE
      /\ \A f \in Fields \ {"complex_uri"} : r'[f] = r[f]
      /\ r'.uri_start = r.uri_start /\ r'.args_start = 0 /\ r'.request_end = 0
  BY <1>0 DEF Fields, Marks
<1>2. /\ wire' = wire /\ pos' = pos + 1 /\ wire[pos + 1] \notin EndBytes
      /\ wire[pos + 1] \notin {"question"} /\ state' \in InUri
      /\ state' \in {"uri", "after_slash_in_uri"}
      /\ state' = "after_slash_in_uri" => wire[pos + 1] = "slash"
  BY <1>0 DEF Take, EndBytes, Eol, InUri
<1>3. Path(wire, r', (pos + 1) + 1)
  <2>1. ~r'.complex_uri => Simple(wire, r', PathStop(r', (pos + 1) + 1))
    BY <1>1
  <2>2. /\ pos + 1 \in Nat /\ Path(wire, r, pos + 1) /\ wire[pos + 1] \notin EndBytes
        /\ r.uri_start \in Nat /\ r.args_start \in Nat /\ r'.uri_start = r.uri_start
        /\ r'.args_start = r.args_start
    BY <1>0, <1>1, <1>2
  <2> QED BY ONLY <2>1, <2>2, PathMore
<1>4. No(wire, {"question"}, r'.uri_start, pos + 1)
  BY <1>0, <1>1, <1>2, NoMore
<1>5. UriSoFar(wire, r', pos + 1, state')
  BY <1>1, <1>2, <1>3, <1>4 DEF UriSoFar
<1>6. Named(wire, r', pos + 1) /\ Ahead(wire, r')
  BY <1>0, <1>1, StillBehind DEF Fields, Marks
<1> QED BY <1>0, <1>2, <1>5, <1>6, IntoUri

LEMMA FoundArguments ==
  ASSUME Here, pos < Len(buf), state \in {"after_slash_in_uri", "check_uri"},
         ch = "question", Take("uri"), r' = [r EXCEPT !.args_start = Cur + 1]
  PROVE  Facts(wire', r', pos', state')
<1>0. /\ Cur = pos + 1 /\ ch = wire[pos + 1] /\ pos \in Nat /\ DOMAIN r = Fields
      /\ r.uri_start \in Nat /\ r.args_start = 0 /\ pos + 1 \in Nat /\ (pos + 1) - 1 = pos
      /\ Path(wire, r, pos + 1) /\ No(wire, {"question"}, r.uri_start, pos)
      /\ r.request_end = 0 /\ state \in InUri
  BY CheckHere
<1>1. /\ DOMAIN r' = Fields /\ r'.args_start = (pos + 1) + 1
      /\ \A f \in Fields \ {"args_start"} : r'[f] = r[f]
      /\ r'.uri_start = r.uri_start /\ r'.uri_ext = r.uri_ext /\ r'.request_end = 0
      /\ r'.complex_uri = r.complex_uri
  BY <1>0 DEF Fields, Marks
<1>2. wire' = wire /\ pos' = pos + 1 /\ wire[pos + 1] = "question" /\ state' = "uri"
  BY <1>0 DEF Take
<1>3. Path(wire, r', (pos + 1) + 1)
  BY <1>0, <1>1, <1>2, PathArguments
<1>4. UriSoFar(wire, r', pos + 1, state')
  BY <1>0, <1>1, <1>2, <1>3 DEF UriSoFar
<1>5. Named(wire, r', pos + 1) /\ Ahead(wire, r')
  BY <1>0, <1>1, StillBehind DEF Fields, Marks
<1> QED BY <1>0, <1>2, <1>4, <1>5, IntoUri DEF InUri

\* The byte belongs to the path, which stays simple if it was.
LEMMA StillSimple ==
  ASSUME Here, pos < Len(buf), state \in {"after_slash_in_uri", "check_uri"},
         Take(state'), state' \in {"after_slash_in_uri", "check_uri"}, DOMAIN r' = Fields,
         \A f \in Fields \ {"uri_ext"} : r'[f] = r[f],
         ch \notin EndBytes \cup {"percent", "question"},
         ~r.complex_uri => Simple(wire, r', (pos + 1) + 1),
         IF state' = "check_uri" THEN ch # "slash" ELSE ch = "slash" /\ r'.uri_ext = 0
  PROVE  Facts(wire', r', pos', state')
<1>0. /\ Cur = pos + 1 /\ ch = wire[pos + 1] /\ pos \in Nat /\ DOMAIN r = Fields
      /\ r.uri_start \in Nat /\ r.args_start = 0 /\ pos + 1 \in Nat
      /\ Path(wire, r, pos + 1) /\ No(wire, {"question"}, r.uri_start, pos)
      /\ r.request_end = 0 /\ state \in InUri
  BY CheckHere
<1>1. /\ r'.uri_start = r.uri_start /\ r'.args_start = 0 /\ r'.request_end = 0
      /\ r'.complex_uri = r.complex_uri
  BY <1>0 DEF Fields, Marks
<1>2. wire' = wire /\ pos' = pos + 1
  BY <1>0 DEF Take
<1>3. Path(wire, r', (pos + 1) + 1)
  <2>1. PathStop(r', (pos + 1) + 1) = (pos + 1) + 1
    BY <1>1 DEF PathStop
  <2> QED BY <1>0, <1>1, <2>1, PathMore
<1>4. No(wire, {"question"}, r'.uri_start, pos + 1)
  BY <1>0, <1>1, NoMore
<1>5. UriSoFar(wire, r', pos + 1, state')
  BY <1>0, <1>1, <1>3, <1>4 DEF UriSoFar
<1>6. Named(wire, r', pos + 1) /\ Ahead(wire, r')
  BY <1>0, StillBehind DEF Fields, Marks
<1> QED BY <1>0, <1>2, <1>5, <1>6, IntoUri DEF InUri

LEMMA AfterSlashFacts ==
  ASSUME Here, AfterSlashInUri
  PROVE  Facts(wire', r', pos', state')
<1>0. pos < Len(buf) /\ state = "after_slash_in_uri" /\ state \in InUri
  BY DEF AfterSlashInUri, In, InUri
<1>1. CASE UriEnds
  BY <1>0, <1>1, EndFacts
<1>2. CASE /\ \/ ch \in {"dot", "percent"} /\ Take("uri")
              \/ ch = "slash" /\ Take("after_slash_in_uri")
           /\ r' = [r EXCEPT !.complex_uri = TRUE]
  BY <1>0, <1>2, FoundComplex
<1>3. CASE ch = "question" /\ Take("uri") /\ r' = [r EXCEPT !.args_start = Cur + 1]
  BY <1>0, <1>3, FoundArguments
<1>4. CASE ch \notin EndBytes \cup {"dot", "percent", "slash", "question"} /\ Go("check_uri")
  <2>1. Take(state') /\ state' = "check_uri" /\ r' = r
    BY <1>4 DEF Go, Take
  <2>2. ~r.complex_uri => Simple(wire, r, (pos + 1) + 1)
    BY <1>0, <1>4, CheckHere, SimplePlain
  <2>3. DOMAIN r = Fields
    BY DEF Here
  <2> QED BY <1>0, <1>4, <2>1, <2>2, <2>3, StillSimple
<1> QED BY <1>1, <1>2, <1>3, <1>4 DEF AfterSlashInUri

LEMMA CheckUriFacts ==
  ASSUME Here, CheckUri
  PROVE  Facts(wire', r', pos', state')
<1>0. pos < Len(buf) /\ state = "check_uri" /\ state \in InUri /\ DOMAIN r = Fields
  BY DEF CheckUri, In, InUri, Here
<1>1. /\ Cur = pos + 1 /\ ch = wire[pos + 1] /\ pos \in Nat /\ pos + 1 \in Nat
      /\ r.uri_start \in Nat /\ r.uri_ext \in Nat /\ r.uri_start < pos + 1
      /\ ~r.complex_uri => Simple(wire, r, pos + 1)
      /\ (pos + 1) - 1 = pos /\ wire[pos] # "slash"
  BY <1>0, CheckHere, UriHere DEF Path, UriSoFar
<1>2. CASE UriEnds
  BY <1>0, <1>2, EndFacts
<1>3. CASE ch = "dot" /\ Take("check_uri") /\ r' = [r EXCEPT !.uri_ext = Cur + 1]
  <2>1. /\ r'.uri_ext = (pos + 1) + 1 /\ r'.uri_start = r.uri_start /\ DOMAIN r' = Fields
        /\ \A f \in Fields \ {"uri_ext"} : r'[f] = r[f]
    BY <1>0, <1>1, <1>3 DEF Fields, Marks
  <2>2. ~r.complex_uri => Simple(wire, r', (pos + 1) + 1)
    BY <1>1, <1>3, <2>1, SimpleDot
  <2>3. Take(state') /\ state' = "check_uri" /\ ch \notin EndBytes \cup {"percent", "question"}
    BY <1>3 DEF Take, EndBytes, Eol
  <2> QED BY <1>0, <1>3, <2>1, <2>2, <2>3, StillSimple
<1>4. CASE ch = "slash" /\ Take("after_slash_in_uri") /\ r' = [r EXCEPT !.uri_ext = 0]
  <2>1. /\ r'.uri_ext = 0 /\ r'.uri_start = r.uri_start /\ DOMAIN r' = Fields
        /\ \A f \in Fields \ {"uri_ext"} : r'[f] = r[f]
    BY <1>0, <1>4 DEF Fields, Marks
  <2>2. ~r.complex_uri => Simple(wire, r', (pos + 1) + 1)
    BY <1>1, <1>4, <2>1, SimpleSlash
  <2>3. /\ Take(state') /\ state' = "after_slash_in_uri"
        /\ ch \notin EndBytes \cup {"percent", "question"}
    BY <1>4 DEF Take, EndBytes, Eol
  <2> QED BY <1>0, <1>4, <2>1, <2>2, <2>3, StillSimple
<1>5. CASE ch = "percent" /\ Take("uri") /\ r' = [r EXCEPT !.complex_uri = TRUE]
  BY <1>0, <1>5, FoundComplex
<1>6. CASE ch = "question" /\ Take("uri") /\ r' = [r EXCEPT !.args_start = Cur + 1]
  BY <1>0, <1>6, FoundArguments
<1>7. CASE ch \notin EndBytes \cup {"dot", "slash", "percent", "question"} /\ Go("check_uri")
  <2>1. Take(state') /\ state' = "check_uri" /\ r' = r
    BY <1>7 DEF Go, Take
  <2>2. ~r.complex_uri => Simple(wire, r, (pos + 1) + 1)
    BY <1>1, <1>7, SimplePlain
  <2> QED BY <1>0, <1>7, <2>1, <2>2, StillSimple
<1> QED BY <1>2, <1>3, <1>4, <1>5, <1>6, <1>7 DEF CheckUri

LEMMA UriFacts ==
  ASSUME Here, Uri
  PROVE  Facts(wire', r', pos', state')
<1>0. pos < Len(buf) /\ state = "uri" /\ state \in InUri
  BY DEF Uri, In, InUri
<1>1. CASE UriEnds
  BY <1>0, <1>1, EndFacts
<1>2. CASE ch \notin EndBytes /\ Go("uri")
  <2>1. /\ Cur = pos + 1 /\ ch = wire[pos + 1] /\ pos \in Nat /\ pos + 1 \in Nat
        /\ DOMAIN r = Fields /\ r.uri_start \in Nat /\ r.args_start \in Nat
        /\ Path(wire, r, pos + 1) /\ r.request_end = 0
        /\ r.args_start # 0 \/ r.complex_uri
    BY <1>0, UriHere DEF UriSoFar
  <2>2. wire' = wire /\ pos' = pos + 1 /\ state' = "uri" /\ r' = r
    BY <1>2, <2>1 DEF Go, Take
  <2>3. ~r.complex_uri => Simple(wire, r, PathStop(r, (pos + 1) + 1))
    <3>1. r.args_start # 0 => PathStop(r, pos + 1) = PathStop(r, (pos + 1) + 1)
      BY DEF PathStop
    <3> QED BY <2>1, <3>1 DEF Path
  <2>4. Path(wire, r, (pos + 1) + 1)
    BY <1>2, <2>1, <2>3, PathMore
  <2>5. UriSoFar(wire, r', pos + 1, state')
    BY <2>1, <2>2, <2>4 DEF UriSoFar
  <2>6. Named(wire, r', pos + 1) /\ Ahead(wire, r')
    BY <1>0, <2>1, <2>2, StillBehind
  <2> QED BY <2>1, <2>2, <2>5, <2>6, IntoUri DEF InUri
<1> QED BY <1>1, <1>2 DEF Uri

-----------------------------------------------------------------------------
(***************************************************************************)
(* The steps behind the path.                                              *)
(***************************************************************************)
\* What is known of the method, the host and the path stays.
LEMMA PathBehind ==
  ASSUME Here, pos < Len(buf), state \in BehindUri, DOMAIN r' = Fields,
         \A f \in Fields \ {"major", "minor", "request_end"} : r'[f] = r[f]
  PROVE  /\ Named(wire, r', pos + 1) /\ Ahead(wire, r') /\ UriRead(wire, r')
         /\ r'.uri_end <= pos + 1 /\ r'.uri_end = r.uri_end /\ r.uri_end \in Nat
         /\ 0 < r.uri_end
         /\ Cur = pos + 1 /\ ch = wire[pos + 1] /\ pos \in Nat
         /\ BehindPath(wire, r, pos, state) /\ r.uri_end <= pos
<1>1. /\ Named(wire, r, pos) /\ Ahead(wire, r) /\ UriRead(wire, r) /\ r.uri_end <= pos
      /\ r.uri_end \in Nat /\ r.method_end \in Nat /\ r.uri_start \in Nat
      /\ Cur = pos + 1 /\ ch = wire[pos + 1] /\ pos \in Nat
      /\ BehindPath(wire, r, pos, state)
  BY Reads, Numbers DEF Here, Facts
<1>2. /\ r'.request_start = r.request_start /\ r'.method_end = r.method_end
      /\ r'.host_start = r.host_start /\ r'.host_end = r.host_end
      /\ r'.port_end = r.port_end /\ r'.uri_start = r.uri_start
      /\ r'.args_start = r.args_start /\ r'.uri_ext = r.uri_ext
      /\ r'.complex_uri = r.complex_uri /\ r'.uri_end = r.uri_end
  BY DEF Fields, Marks
<1>3. Named(wire, r', pos + 1) /\ Ahead(wire, r')
  BY <1>1, <1>2, NamedKept, AheadKept
<1>4. Path(wire, r', r.uri_end)
  BY <1>1, <1>2, PathKept DEF UriRead
<1>5. UriRead(wire, r')
  BY <1>1, <1>2, <1>4 DEF UriRead
<1>6. r'.uri_end <= pos + 1 /\ 0 < r.uri_end
  BY <1>1, <1>2 DEF UriRead, Path
<1> QED BY <1>1, <1>2, <1>3, <1>5, <1>6

LEMMA BehindFacts ==
  ASSUME wire' = wire, pos' = pos + 1, state' \in BehindUri,
         Named(wire, r', pos + 1), Ahead(wire, r'), UriRead(wire, r'), r'.uri_end <= pos + 1,
         BehindPath(wire, r', pos + 1, state')
  PROVE  Facts(wire', r', pos', state')
BY DEF Facts, Before, Schemas, InUri, BehindUri, InVersion, InHttp

LEMMA VersionGoes ==
  ASSUME Here, pos < Len(buf), state \in InVersion, Take(state'), DOMAIN r' = Fields,
         \A f \in Fields \ {"major", "minor"} : r'[f] = r[f],
         \/ state' \in InVersion /\ ch \notin Eol
         \/ state' = "almost_done" /\ ch = "cr"
         \/ state' = "done" /\ ch = "lf"
  PROVE  Facts(wire', r', pos', state')
<1>0. state \in BehindUri /\ state' \in BehindUri
  BY DEF BehindUri
<1>1. /\ Named(wire, r', pos + 1) /\ Ahead(wire, r') /\ UriRead(wire, r')
      /\ r'.uri_end <= pos + 1 /\ r'.uri_end = r.uri_end /\ r.uri_end \in Nat
      /\ Cur = pos + 1 /\ ch = wire[pos + 1] /\ pos \in Nat
      /\ BehindPath(wire, r, pos, state) /\ r.uri_end <= pos
  BY <1>0, PathBehind
<1>2. wire' = wire /\ pos' = pos + 1
  BY <1>1 DEF Take
<1>3. r.request_end = 0 /\ LineTo(wire, r, pos + 1)
  BY <1>1 DEF BehindPath
<1>4. r'.request_end = 0 /\ LineTo(wire, r', pos + 1)
  <2>1. r'.request_end = r.request_end
    BY DEF Fields, Marks
  <2> QED BY <1>1, <1>3, <2>1 DEF LineTo
<1>5. ch \notin Eol => LineTo(wire, r', (pos + 1) + 1)
  <2>1. No(wire, Eol, r.uri_end, pos) /\ r.uri_end <= (pos + 1) + 1 /\ (pos + 1) - 1 = pos
        /\ ((pos + 1) + 1) - 1 = pos + 1
    BY <1>1, <1>3 DEF LineTo, No
  <2> QED BY <1>1, <2>1, NoMore DEF LineTo
<1>6. BehindPath(wire, r', pos + 1, state')
  BY <1>1, <1>4, <1>5 DEF BehindPath, LineOver, InVersion, InHttp, Eol
<1> QED BY <1>0, <1>1, <1>2, <1>6, BehindFacts

LEMMA VersionFacts ==
  ASSUME Here, Http09 \/ HttpWord \/ MajorDigit \/ MinorDigit
  PROVE  Facts(wire', r', pos', state')
<1>0. DOMAIN r = Fields
  BY DEF Here
<1>1. CASE Http09
  <2>1. CASE Reject
    BY <2>1, Rejects
  <2>2. CASE ~Reject
    <3>1. /\ pos < Len(buf) /\ state \in InVersion /\ Take(state') /\ DOMAIN r' = Fields
          /\ \A f \in Fields \ {"major", "minor"} : r'[f] = r[f]
      BY <1>0, <1>1, <2>2 DEF Http09, In, Go, Take, InVersion, Fields, Marks
    <3>2. \/ state' \in InVersion /\ ch \notin Eol
          \/ state' = "almost_done" /\ ch = "cr"
          \/ state' = "done" /\ ch = "lf"
      BY <1>1, <2>2 DEF Http09, Go, Take, InVersion, InHttp, Eol
    <3> QED BY <3>1, <3>2, VersionGoes
  <2> QED BY <2>1, <2>2
<1>2. CASE HttpWord
  <2>1. CASE Reject
    BY <2>1, Rejects
  <2>2. CASE ~Reject
    <3>1. /\ pos < Len(buf) /\ state \in InVersion /\ Take(state') /\ r' = r
          /\ state' \in InVersion /\ ch \notin Eol
      BY <1>2, <2>2 DEF HttpWord, In, Go, Take, InVersion, InHttp, Eol
    <3> QED BY <1>0, <3>1, VersionGoes
  <2> QED BY <2>1, <2>2
<1>3. CASE MajorDigit
  <2>1. CASE Reject
    BY <2>1, Rejects
  <2>2. CASE ~Reject
    <3>1. /\ pos < Len(buf) /\ state \in InVersion /\ Take(state') /\ DOMAIN r' = Fields
          /\ \A f \in Fields \ {"major", "minor"} : r'[f] = r[f]
      BY <1>0, <1>3, <2>2 DEF MajorDigit, In, Go, Take, InVersion, Fields, Marks
    <3>2. state' \in InVersion /\ ch \notin Eol
      BY <1>3, <2>2 DEF MajorDigit, Go, Take, InVersion, InHttp, Eol, Digits
    <3> QED BY <3>1, <3>2, VersionGoes
  <2> QED BY <2>1, <2>2
<1>4. CASE MinorDigit
  <2>1. CASE Reject
    BY <2>1, Rejects
  <2>2. CASE ~Reject
    <3>1. /\ pos < Len(buf) /\ state \in InVersion /\ Take(state') /\ DOMAIN r' = Fields
          /\ \A f \in Fields \ {"major", "minor"} : r'[f] = r[f]
      BY <1>0, <1>4, <2>2 DEF MinorDigit, In, Go, Take, InVersion, Fields, Marks
    <3>2. \/ state' \in InVersion /\ ch \notin Eol
          \/ state' = "almost_done" /\ ch = "cr"
          \/ state' = "done" /\ ch = "lf"
      BY <1>4, <2>2 DEF MinorDigit, Go, Take, InVersion, InHttp, Eol, Digits
    <3> QED BY <3>1, <3>2, VersionGoes
  <2> QED BY <2>1, <2>2
<1> QED BY <1>1, <1>2, <1>3, <1>4

LEMMA AlmostDoneFacts ==
  ASSUME Here, AlmostDone
  PROVE  Facts(wire', r', pos', state')
<1>0. pos < Len(buf) /\ state = "almost_done" /\ state \in BehindUri /\ DOMAIN r = Fields
  BY DEF AlmostDone, In, BehindUri, Here
<1>1. CASE ch = "lf" /\ Take("done") /\ r' = [r EXCEPT !.request_end = Cur - 1]
  <2>1. /\ DOMAIN r' = Fields /\ r'.request_end = Cur - 1
        /\ \A f \in Fields \ {"major", "minor", "request_end"} : r'[f] = r[f]
    BY <1>0, <1>1 DEF Fields, Marks
  <2>2. /\ Named(wire, r', pos + 1) /\ Ahead(wire, r') /\ UriRead(wire, r')
        /\ r'.uri_end <= pos + 1 /\ r'.uri_end = r.uri_end /\ r.uri_end \in Nat
        /\ 0 < r.uri_end
        /\ Cur = pos + 1 /\ ch = wire[pos + 1] /\ pos \in Nat
        /\ BehindPath(wire, r, pos, state) /\ r.uri_end <= pos
    BY <1>0, <2>1, PathBehind
  <2>3. wire' = wire /\ pos' = pos + 1 /\ state' = "done" /\ state' \in BehindUri
    BY <1>1, <2>2 DEF Take, BehindUri
  <2>4. r'.request_end = pos /\ pos # 0 /\ (pos + 1) - 1 = pos
    BY <2>1, <2>2
  <2>5. LineTo(wire, r, pos) /\ wire[pos] = "cr"
    BY <1>0, <2>2 DEF BehindPath
  <2>6. LineOver(wire, r', pos + 1, pos)
    BY <1>1, <2>2, <2>4, <2>5 DEF LineOver, LineTo
  <2>7. BehindPath(wire, r', pos + 1, state')
    BY <2>3, <2>4, <2>6 DEF BehindPath, InVersion, InHttp
  <2> QED BY <2>2, <2>3, <2>7, BehindFacts
<1> QED BY <1>1, Rejects DEF AlmostDone

LEMMA ParseFacts ==
  ASSUME Here, Parse
  PROVE  Facts(wire', r', pos', state')
BY StartFacts, MethodFacts, SpacesFacts, SchemaFacts, SchemaSlashFacts, SchemaSlashSlashFacts,
   HostFacts, PortFacts, AfterSlashFacts, CheckUriFacts, UriFacts, VersionFacts,
   AlmostDoneFacts DEF Parse

-----------------------------------------------------------------------------
(***************************************************************************)
(* Types.                                                                  *)
(***************************************************************************)
Typed(q) ==
  /\ DOMAIN q = Fields /\ \A m \in Marks : q[m] \in Position
  /\ q.method \in {"none", "GET", "HEAD", "POST"}
  /\ q.complex_uri \in BOOLEAN /\ q.major \in Nat /\ q.minor \in Nat

LEMMA VersionTyped ==
  ASSUME TypeOK
  PROVE  /\ Value(ch) \in Nat
         /\ u_int(r.major * 10 + Value(ch)) \in Nat /\ u_int(r.minor * 10 + Value(ch)) \in Nat
<1>1. UintSize \in Nat \ {0} /\ r.major \in Nat /\ r.minor \in Nat
  BY LineAssumption DEF TypeOK
<1>2. \A n \in Nat : u_int(n) \in Nat
  BY <1>1 DEF u_int
<1>3. Value(ch) \in Nat
  BY DEF Value
<1> QED BY <1>1, <1>2, <1>3

\* Each step sets a mark to the byte, or one beside it.
LEMMA ParseTyped ==
  ASSUME Here, Parse, pos < Len(buf)
  PROVE  Typed(r')
<1>1. /\ Cur \in Position /\ Cur + 1 \in Position /\ Cur - 1 \in Position /\ 0 \in Position
      /\ 9 \in Nat
  BY Reads, Sizes DEF Position, Here
<1>2. Typed(r)
  BY DEF Typed, Here, TypeOK
<1>3. /\ \A n \in {Cur, Cur + 1, 0} : /\ Typed([r EXCEPT !.request_start = Cur])
                                      /\ Typed([r EXCEPT !.uri_ext = n])
      /\ Typed([r EXCEPT !.schema_start = Cur]) /\ Typed([r EXCEPT !.schema_end = Cur])
      /\ Typed([r EXCEPT !.host_start = Cur]) /\ Typed([r EXCEPT !.host_end = Cur])
      /\ Typed([r EXCEPT !.uri_start = Cur]) /\ Typed([r EXCEPT !.args_start = Cur + 1])
      /\ Typed([r EXCEPT !.request_end = Cur - 1]) /\ Typed([r EXCEPT !.uri_end = Cur])
  BY <1>1, <1>2 DEF Typed, Fields, Marks
<1>4. Typed([r EXCEPT !.complex_uri = TRUE])
  BY <1>1, <1>2 DEF Typed, Fields, Marks
<1>5. /\ Typed([r EXCEPT !.host_end = Cur, !.uri_start = Cur])
      /\ Typed([r EXCEPT !.port_end = Cur, !.uri_start = Cur])
      /\ Typed([r EXCEPT !.uri_end = Cur, !.minor = 9]) /\ Typed([r EXCEPT !.minor = 9])
  BY <1>1, <1>2 DEF Typed, Fields, Marks
<1>6. \A n \in Nat : Typed([r EXCEPT !.major = n]) /\ Typed([r EXCEPT !.minor = n])
  BY <1>1, <1>2 DEF Typed, Fields, Marks
<1>7. CASE Method
  <2>1. \A length : Methods(length) \subseteq {"none", "GET", "HEAD", "POST"}
    BY DEF Methods
  <2>2. \A m \in {"none", "GET", "HEAD", "POST"} :
          Typed([r EXCEPT !.method_end = Cur, !.method = m])
    BY <1>1, <1>2 DEF Typed, Fields, Marks
  <2> QED BY <1>2, <1>7, <2>1, <2>2 DEF Method, Go, Reject
<1>8. CASE Start \/ SpacesBeforeUri \/ Schema \/ SchemaSlash \/ SchemaSlashSlash \/ Host \/ Port
  BY <1>2, <1>3, <1>5, <1>8 DEF Start, SpacesBeforeUri, Schema, SchemaSlash, SchemaSlashSlash,
     Host, Port, Go, Reject
<1>9. CASE AfterSlashInUri \/ CheckUri \/ Uri
  BY <1>2, <1>3, <1>4, <1>5, <1>9 DEF AfterSlashInUri, CheckUri, Uri, UriEnds, Go, Reject
<1>10. CASE Http09 \/ HttpWord \/ AlmostDone
  BY <1>2, <1>3, <1>5, <1>10 DEF Http09, HttpWord, AlmostDone, Go, Reject
<1>11. CASE MajorDigit \/ MinorDigit
  <2>1. /\ Value(ch) \in Nat
        /\ u_int(r.major * 10 + Value(ch)) \in Nat /\ u_int(r.minor * 10 + Value(ch)) \in Nat
    BY VersionTyped DEF Here
  <2>2. r' \in {r, [r EXCEPT !.major = Value(ch)], [r EXCEPT !.minor = Value(ch)],
               [r EXCEPT !.major = u_int(@ * 10 + Value(ch))],
               [r EXCEPT !.minor = u_int(@ * 10 + Value(ch))]}
    BY <1>11 DEF MajorDigit, MinorDigit, Go, Reject, Longer
  <2> QED BY <1>2, <1>6, <2>1, <2>2
<1> QED BY <1>7, <1>8, <1>9, <1>10, <1>11 DEF Parse

\* What the steps of the parser have in common.
LEMMA ParseSteps ==
  ASSUME Parse
  PROVE  /\ pos < Len(buf) /\ state \in States \ {"done"}
         /\ UNCHANGED <<wire, buf, len>> /\ pos' \in {pos, Cur}
         /\ state' \in States \cup {"invalid"}
<1>1. ASSUME NEW s \in States, Take(s) \/ Reject
      PROVE  /\ UNCHANGED <<wire, buf, len>> /\ pos' \in {pos, Cur}
             /\ state' \in States \cup {"invalid"}
  BY <1>1 DEF Take, Reject
<1>2. CASE Start \/ Method \/ SpacesBeforeUri \/ Schema \/ SchemaSlash \/ SchemaSlashSlash
  <2>1. pos < Len(buf) /\ state \in States \ {"done"}
    BY <1>2 DEF Start, Method, SpacesBeforeUri, Schema, SchemaSlash, SchemaSlashSlash, In, States
  <2>2. \E s \in States : Take(s) \/ Reject
    BY <1>2 DEF Start, Method, SpacesBeforeUri, Schema, SchemaSlash, SchemaSlashSlash, Go, States
  <2> QED BY <1>1, <2>1, <2>2
<1>3. CASE Host \/ Port \/ AfterSlashInUri \/ CheckUri \/ Uri
  <2>1. pos < Len(buf) /\ state \in States \ {"done"}
    BY <1>3 DEF Host, Port, AfterSlashInUri, CheckUri, Uri, In, States
  <2>2. \E s \in States : Take(s) \/ Reject
    BY <1>3 DEF Host, Port, AfterSlashInUri, CheckUri, Uri, UriEnds, Go, States
  <2> QED BY <1>1, <2>1, <2>2
<1>4. CASE Http09 \/ MajorDigit \/ MinorDigit \/ AlmostDone
  <2>1. pos < Len(buf) /\ state \in States \ {"done"}
    BY <1>4 DEF Http09, MajorDigit, MinorDigit, AlmostDone, In, States
  <2>2. \E s \in States : Take(s) \/ Reject
    BY <1>4 DEF Http09, MajorDigit, MinorDigit, AlmostDone, Go, States
  <2> QED BY <1>1, <2>1, <2>2
<1>5. CASE HttpWord
  <2>1. PICK step \in {<<"http_H", "T", "http_HT">>, <<"http_HT", "T", "http_HTT">>,
                       <<"http_HTT", "P", "http_HTTP">>,
                       <<"http_HTTP", "slash", "first_major_digit">>} :
          In(step[1]) /\ (Take(step[3]) \/ Reject)
    BY <1>5 DEF HttpWord, Go
  <2>2. step[1] \in States \ {"done"} /\ step[3] \in States
    BY DEF States
  <2> QED BY <1>1, <2>1, <2>2 DEF In
<1> QED BY <1>2, <1>3, <1>4, <1>5 DEF Parse

LEMMA ParseInv ==
  ASSUME Inv, Parse
  PROVE  Inv'
<1>1. /\ pos < Len(buf) /\ state \in States \ {"done"}
      /\ UNCHANGED <<wire, buf, len>> /\ pos' \in {pos, Cur}
      /\ state' \in States \cup {"invalid"}
  BY ParseSteps
<1>2. Here /\ state # "headers"
  BY <1>1 DEF Inv, Here, Copied, States
<1>3. Typed(r') /\ Facts(wire', r', pos', state')
  BY <1>1, <1>2, ParseTyped, ParseFacts
<1>4. pos' \in 0..Len(wire) /\ state' \in States \cup Ends /\ state' # "headers"
  BY <1>1, <1>2, Reads, Sizes DEF Here, States, Ends
<1>5. TypeOK'
  BY <1>1, <1>3, <1>4 DEF Inv, TypeOK, Typed
<1>6. Copied'
  BY <1>1, <1>2, <1>4 DEF Inv, Copied
<1> QED BY <1>3, <1>5, <1>6 DEF Inv, Typed

-----------------------------------------------------------------------------
(***************************************************************************)
(* More bytes: nothing that is known looks behind the last one parsed.     *)
(***************************************************************************)
LEMMA NoLonger ==
  ASSUME NEW v, NEW w, NEW p \in Nat, \A i \in 1..p : v[i] = w[i], NEW set,
         NEW a \in Int, NEW b \in Int, a >= 1, b <= p, No(w, set, a, b)
  PROVE  No(v, set, a, b)
BY DEF No

LEMMA SimpleLonger ==
  ASSUME NEW v, NEW w, NEW p \in Nat, \A i \in 1..p : v[i] = w[i], NEW q, NEW e \in Nat,
         e <= p + 1, q.uri_start \in Nat, q.uri_start >= 1, q.uri_ext \in Nat, Simple(w, q, e)
  PROVE  Simple(v, q, e)
<1>0. e - 1 \in Int /\ e - 1 <= p /\ No(w, {"percent", "question"}, q.uri_start, e - 1)
  BY DEF Simple
<1>1. No(v, {"percent", "question"}, q.uri_start, e - 1)
  BY <1>0, NoLonger
<1>2. ASSUME NEW i \in (q.uri_start + 1)..(e - 1), v[i - 1] = "slash"
      PROVE  v[i] \notin {"slash", "dot"}
  <2>1. i \in 1..p /\ i - 1 \in 1..p
    OBVIOUS
  <2> QED BY <1>2, <2>1 DEF Simple, Names
<1>3. ASSUME q.uri_ext # 0
      PROVE  /\ q.uri_start < q.uri_ext /\ q.uri_ext <= e /\ v[q.uri_ext - 1] = "dot"
             /\ No(v, {"dot", "slash"}, q.uri_ext, e - 1)
  <2>1. /\ q.uri_start < q.uri_ext /\ q.uri_ext <= e /\ w[q.uri_ext - 1] = "dot"
        /\ No(w, {"dot", "slash"}, q.uri_ext, e - 1)
    BY <1>3 DEF Simple, Extension
  <2>2. q.uri_ext - 1 \in 1..p /\ q.uri_ext >= 1 /\ e - 1 <= p
    BY <2>1
  <2>3. No(v, {"dot", "slash"}, q.uri_ext, e - 1)
    BY <2>1, <2>2, NoLonger
  <2> QED BY <2>1, <2>2, <2>3
<1>4. ASSUME q.uri_ext = 0, NEW i \in q.uri_start..(e - 1), v[i] = "dot"
      PROVE  \E j \in i..(e - 1) : v[j] = "slash"
  <2>1. w[i] = "dot"
    BY <1>4
  <2>2. PICK j \in i..(e - 1) : w[j] = "slash"
    BY <1>4, <2>1 DEF Simple, Extension
  <2> QED BY <2>2
<1> QED BY <1>1, <1>2, <1>3, <1>4 DEF Simple, Names, Extension

LEMMA PathLonger ==
  ASSUME NEW v, NEW w, NEW p \in Nat, \A i \in 1..p : v[i] = w[i], NEW q, NEW e \in Nat,
         e <= p + 1, q.uri_start \in Nat, q.uri_start >= 1, q.uri_ext \in Nat,
         q.args_start \in Nat, Path(w, q, e)
  PROVE  Path(v, q, e)
<1>1. No(v, EndBytes, q.uri_start, e - 1) /\ q.uri_start < e
  BY NoLonger DEF Path
<1>2. ASSUME q.args_start # 0
      PROVE  Arguments(v, q, e) /\ q.args_start - 1 \in Nat /\ q.args_start - 1 <= p + 1
  <2>1. /\ q.uri_start < q.args_start - 1 /\ q.args_start <= e
        /\ w[q.args_start - 1] = "question" /\ No(w, {"question"}, q.uri_start, q.args_start - 2)
    BY <1>2 DEF Path, Arguments
  <2>2. q.args_start - 1 \in 1..p /\ q.args_start - 2 <= p /\ q.args_start - 2 \in Int
    BY <2>1
  <2>3. No(v, {"question"}, q.uri_start, q.args_start - 2)
    BY <2>1, <2>2, NoLonger
  <2> QED BY <2>1, <2>2, <2>3 DEF Arguments
<1>3. ~q.complex_uri => Simple(v, q, PathStop(q, e))
  <2>1. PathStop(q, e) \in Nat /\ PathStop(q, e) <= p + 1
    BY <1>2 DEF PathStop
  <2> QED BY <2>1, SimpleLonger DEF Path
<1> QED BY <1>1, <1>2, <1>3 DEF Path

LEMMA NamedLonger ==
  ASSUME NEW v, NEW w, NEW p \in Nat, \A i \in 1..p : v[i] = w[i], NEW q,
         q.request_start \in Nat, q.method_end \in Nat, Named(w, q, p)
  PROVE  Named(v, q, p)
BY DEF Named

LEMMA AheadLonger ==
  ASSUME NEW v, NEW w, NEW p \in Nat, \A i \in 1..p : v[i] = w[i], NEW q,
         q.request_start \in Nat, q.method_end \in Nat, q.uri_start \in Nat,
         q.uri_start <= p, Named(w, q, p), Ahead(w, q)
  PROVE  Ahead(v, q)
<1>1. /\ q.request_start >= 1 /\ q.method_end >= 1 /\ q.uri_start \in 1..p
      /\ q.method_end < q.uri_start /\ w[q.uri_start] = "slash"
  BY DEF Named, Ahead
<1>2. \A i \in q.method_end..(q.uri_start - 1) : i \in 1..p /\ v[i] = w[i]
  BY <1>1
<1>3. q.port_end = 0 => No(v, Eol, q.request_start, q.uri_start)
  BY <1>1, NoLonger DEF Ahead
<1> QED BY <1>1, <1>2, <1>3 DEF Ahead, HostSlashes

LEMMA BeforeLonger ==
  ASSUME NEW v, NEW w, NEW p \in Nat, \A i \in 1..p : v[i] = w[i], NEW q, NEW s,
         q.request_start \in Nat, q.method_end \in Nat, BeforeUri(w, q, p, s)
  PROVE  BeforeUri(v, q, p, s)
<1>1. s = "method" => Naming(v, q, p)
  BY DEF BeforeUri, Naming
<1>2. CASE s \in {"start", "method"}
  BY <1>1, <1>2 DEF BeforeUri, Schemas
<1>3. CASE s \notin {"start", "method"}
  <2>1. /\ Named(w, q, p) /\ q.request_start >= 1 /\ q.method_end >= 1 /\ q.method_end \in 1..p
        /\ q.request_start < q.method_end
    BY <1>3 DEF BeforeUri, Named
  <2>2. Named(v, q, p)
    BY <2>1, NamedLonger
  <2>3. /\ s \in Schemas => No(v, {"slash"}, q.method_end, p)
        /\ s \in Schemas \cup {"schema_slash_slash", "host"} => No(v, Eol, q.request_start, p)
        /\ s = "schema_slash_slash" => No(v, {"slash"}, q.method_end, p - 1)
    <3>1. p - 1 \in Int /\ p - 1 <= p /\ p <= p
      OBVIOUS
    <3> QED BY <2>1, <3>1, NoLonger DEF BeforeUri
  <2>4. s \in {"host", "port"} => HostSlashes(v, q, p)
    BY <2>1 DEF BeforeUri, HostSlashes
  <2>5. s = "schema_slash_slash" => v[p] = "slash"
    BY <2>1 DEF BeforeUri
  <2> QED BY <1>3, <2>2, <2>3, <2>4, <2>5 DEF BeforeUri
<1> QED BY <1>2, <1>3

LEMMA SoFarLonger ==
  ASSUME NEW v, NEW w, NEW p \in Nat, \A i \in 1..p : v[i] = w[i], NEW q, NEW s,
         q.uri_start \in Nat, q.uri_start >= 1, q.uri_ext \in Nat, q.args_start \in Nat,
         UriSoFar(w, q, p, s)
  PROVE  UriSoFar(v, q, p, s)
<1>1. p + 1 \in Nat /\ p + 1 <= p + 1 /\ p <= p /\ Path(w, q, p + 1)
  BY DEF UriSoFar
<1>2. Path(v, q, p + 1)
  BY <1>1, PathLonger
<1>3. p \in 1..p
  BY <1>1 DEF Path
<1>4. s # "uri" => No(v, {"question"}, q.uri_start, p)
  BY <1>1, NoLonger DEF UriSoFar
<1> QED BY <1>2, <1>3, <1>4 DEF UriSoFar

LEMMA BehindLonger ==
  ASSUME NEW v, NEW w, NEW p \in Nat, \A i \in 1..p : v[i] = w[i], NEW q, NEW s,
         q.uri_end \in Nat, q.uri_end >= 1, q.uri_end <= p, q.request_end \in Nat,
         BehindPath(w, q, p, s)
  PROVE  BehindPath(v, q, p, s)
<1>1. ASSUME NEW e \in Nat, e <= p + 1, LineTo(w, q, e)
      PROVE  LineTo(v, q, e)
  <2>1. e - 1 \in Int /\ e - 1 <= p
    BY <1>1
  <2> QED BY <1>1, <2>1, NoLonger DEF LineTo
<1>2. ASSUME NEW e \in Nat, LineOver(w, q, p, e)
      PROVE  LineOver(v, q, p, e)
  <2>1. e <= p + 1 /\ e \in 1..p /\ p \in 1..p
    BY <1>2 DEF LineOver, LineTo
  <2> QED BY <1>1, <1>2, <2>1 DEF LineOver
<1>3. p + 1 \in Nat /\ p + 1 <= p + 1 /\ p <= p + 1 /\ p \in 1..p
  OBVIOUS
<1> QED BY <1>1, <1>2, <1>3 DEF BehindPath

LEMMA FactsLonger ==
  ASSUME NEW v, NEW w, NEW p \in Nat, \A i \in 1..p : v[i] = w[i], NEW q, NEW s,
         \A m \in Marks : q[m] \in Nat, Facts(w, q, p, s)
  PROVE  Facts(v, q, p, s)
<1>0. /\ q.request_start \in Nat /\ q.method_end \in Nat /\ q.uri_start \in Nat
      /\ q.uri_end \in Nat /\ q.args_start \in Nat /\ q.uri_ext \in Nat
      /\ q.request_end \in Nat
  BY DEF Marks
<1>1. s \in Before => BeforeUri(v, q, p, s)
  BY <1>0, BeforeLonger DEF Facts
<1>2. ASSUME s \in InUri
      PROVE  Named(v, q, p) /\ Ahead(v, q) /\ UriSoFar(v, q, p, s)
  <2>1. Named(w, q, p) /\ Ahead(w, q) /\ UriSoFar(w, q, p, s)
    BY <1>2 DEF Facts
  <2>2. q.uri_start <= p /\ q.uri_start >= 1
    BY <1>0, <2>1 DEF Ahead, UriSoFar, Path
  <2> QED BY <1>0, <2>1, <2>2, NamedLonger, AheadLonger, SoFarLonger
<1>3. ASSUME s \in BehindUri
      PROVE  /\ Named(v, q, p) /\ Ahead(v, q) /\ UriRead(v, q) /\ q.uri_end <= p
             /\ BehindPath(v, q, p, s)
  <2>1. /\ Named(w, q, p) /\ Ahead(w, q) /\ UriRead(w, q) /\ q.uri_end <= p
        /\ BehindPath(w, q, p, s)
    BY <1>3 DEF Facts
  <2>2. q.uri_start <= p /\ q.uri_start >= 1 /\ q.uri_end \in 1..p /\ q.uri_end <= p + 1
        /\ q.uri_end >= 1
    BY <1>0, <2>1 DEF Ahead, UriRead, Path
  <2>3. UriRead(v, q)
    BY <1>0, <2>1, <2>2, PathLonger DEF UriRead
  <2> QED BY <1>0, <2>1, <2>2, <2>3, NamedLonger, AheadLonger, BehindLonger
<1> QED BY <1>1, <1>2, <1>3 DEF Facts

LEMMA ReceiveInv ==
  ASSUME Inv, NEW n \in 1..MaxRead, Running, NEW chunk \in [1..n -> Alphabet[state]],
         Receive(chunk)
  PROVE  Inv'
<1>0. /\ n \in Nat /\ TypeOK /\ DOMAIN r = Fields /\ Facts(wire, r, pos, state) /\ Copied
      /\ wire \in Seq(Bytes) /\ state # "headers" /\ state \in States /\ buf = wire
  BY LineAssumption DEF Inv, TypeOK, Running, States, Copied
<1>1. chunk \in Seq(Bytes) /\ Len(chunk) = n
  <2>1. Alphabet[state] \subseteq Bytes
    BY <1>0, AlphabetAssumption
  <2>2. chunk \in [1..n -> Bytes]
    BY <2>1
  <2> QED BY <1>0, <2>2
<1>2. /\ wire' = wire \o chunk /\ buf' = buf \o chunk /\ UNCHANGED <<pos, state, r, len>>
      /\ Len(buf) + Len(chunk) <= BufSize
  BY DEF Receive
<1>3. /\ wire' \in Seq(Bytes) /\ Len(wire') = Len(wire) + n
      /\ \A i \in 1..Len(wire) : wire'[i] = wire[i]
  <2>1. /\ wire \o chunk \in Seq(Bytes) /\ Len(wire \o chunk) = Len(wire) + Len(chunk)
        /\ \A i \in 1..(Len(wire) + Len(chunk)) : (wire \o chunk)[i] =
             IF i <= Len(wire) THEN wire[i] ELSE chunk[i - Len(wire)]
    BY <1>0, <1>1, ConcatProperties
  <2>2. Len(wire) \in Nat
    BY <1>0, LenProperties
  <2>3. \A i \in 1..Len(wire) : i \in 1..(Len(wire) + Len(chunk)) /\ i <= Len(wire)
    BY <1>0, <1>1, <2>2
  <2> QED BY <1>1, <1>2, <2>1, <2>3
<1>4. /\ BufSize \in Nat /\ Len(wire) \in Nat /\ pos \in Nat /\ pos <= Len(wire)
      /\ \A m \in Marks : r[m] \in Nat
  BY <1>0, Sizes
<1>5. Facts(wire', r', pos', state')
  <2>1. \A i \in 1..pos : wire'[i] = wire[i]
    BY <1>3, <1>4
  <2>2. Facts(wire', r, pos, state)
    BY <1>0, <1>4, <2>1, FactsLonger
  <2> QED BY <1>2, <2>2
<1>6. buf' = wire' /\ Len(buf') = Len(wire') /\ Len(wire') <= BufSize /\ pos' \in 0..Len(wire')
  BY <1>0, <1>1, <1>2, <1>3, <1>4
<1>7. buf' \in Seq(Bytes \cup {"nul"})
  <2>1. Seq(Bytes) \subseteq Seq(Bytes \cup {"nul"})
    OBVIOUS
  <2> QED BY <1>3, <1>6, <2>1
<1>8. TypeOK'
  BY <1>0, <1>2, <1>3, <1>6, <1>7 DEF TypeOK
<1> QED BY <1>0, <1>2, <1>5, <1>6, <1>8 DEF Inv, Copied

-----------------------------------------------------------------------------
(***************************************************************************)
(* The handler takes lengths from the marks and ends the line with a NUL.  *)
(***************************************************************************)
\* Where the marks lie once the path is read.
LEMMA ReadBounds ==
  ASSUME TypeOK, Named(wire, r, pos), Ahead(wire, r), UriRead(wire, r), r.uri_end <= pos
  PROVE  /\ r.request_start < r.uri_start /\ r.uri_start < r.uri_end /\ r.uri_end <= BufSize
         /\ r.uri_start < PathEnd /\ PathEnd <= r.uri_end
         /\ PathEnd \in Nat /\ PathEnd = PathStop(r, r.uri_end)
         /\ ~r.complex_uri /\ r.uri_ext # 0 => r.uri_start < r.uri_ext /\ r.uri_ext <= PathEnd
<1>1. /\ r.request_start \in Nat /\ r.method_end \in Nat /\ r.uri_start \in Nat
      /\ r.uri_end \in Nat /\ r.args_start \in Nat /\ r.uri_ext \in Nat
      /\ pos \in Nat /\ BufSize \in Nat /\ pos <= BufSize
  BY Numbers, Sizes
<1>2. r.request_start < r.method_end /\ r.method_end < r.uri_start /\ r.uri_start < r.uri_end
  BY DEF Named, Ahead, UriRead, Path
<1>3. r.args_start # 0 => r.uri_start < r.args_start - 1 /\ r.args_start <= r.uri_end
  BY DEF UriRead, Path, Arguments
<1>4. PathEnd = PathStop(r, r.uri_end)
  BY DEF PathEnd, PathStop
<1>5. ~r.complex_uri /\ r.uri_ext # 0 => r.uri_start < r.uri_ext /\ r.uri_ext <= PathEnd
  BY <1>4 DEF UriRead, Path, Simple, Extension
<1>6. r.uri_start < PathEnd /\ PathEnd <= r.uri_end /\ PathEnd \in Nat
  BY <1>1, <1>2, <1>3 DEF PathEnd
<1> QED BY <1>1, <1>2, <1>4, <1>5, <1>6

LEMMA PathComplex ==
  ASSUME NEW w, NEW q, NEW t, NEW e, Path(w, q, e), t.uri_start = q.uri_start,
         t.args_start = q.args_start, t.complex_uri
  PROVE  Path(w, t, e)
BY DEF Path, Arguments

LEMMA DoneInv ==
  ASSUME Inv, LineDone, ~Refused
  PROVE  Inv'
<1>0. /\ TypeOK /\ DOMAIN r = Fields /\ buf = wire /\ Named(wire, r, pos) /\ Ahead(wire, r)
      /\ UriRead(wire, r) /\ r.uri_end <= pos /\ LineOver(wire, r, pos, RequestEnd)
      /\ state = "done" /\ r.complex_uri \in BOOLEAN
  <2>1. state = "done" /\ state \in BehindUri
    BY DEF LineDone, BehindUri
  <2> QED BY <2>1 DEF Inv, Facts, BehindPath, RequestEnd, Copied, TypeOK
<1>1. /\ r' = [r EXCEPT !.request_end = RequestEnd,
                        !.uri_ext = IF r.complex_uri THEN 0 ELSE @]
      /\ len' = [unparsed |-> r.uri_end - r.uri_start,
                 uri |-> PathEnd - r.uri_start,
                 exten |-> IF r'.uri_ext # 0 THEN PathEnd - r.uri_ext ELSE 0,
                 line |-> RequestEnd - r.request_start, method_name |-> MethodNameLen]
      /\ buf' = [buf EXCEPT ![RequestEnd] = "nul"]
      /\ state' = "headers" /\ wire' = wire /\ pos' = pos
  BY DEF LineDone
<1>2. /\ r.request_start \in Nat /\ r.method_end \in Nat /\ r.uri_start \in Nat
      /\ r.uri_end \in Nat /\ r.args_start \in Nat /\ r.uri_ext \in Nat
      /\ r.request_end \in Nat /\ pos \in Nat /\ BufSize \in Nat /\ pos <= BufSize
      /\ Len(wire) \in Nat /\ pos <= Len(wire) /\ Len(buf) = Len(wire)
  BY <1>0, Numbers, Sizes
<1>3. /\ r.request_start < r.uri_start /\ r.uri_start < r.uri_end /\ r.uri_end <= BufSize
      /\ r.uri_start < PathEnd /\ PathEnd <= r.uri_end /\ PathEnd \in Nat
      /\ ~r.complex_uri /\ r.uri_ext # 0 => r.uri_start < r.uri_ext /\ r.uri_ext <= PathEnd
  BY <1>0, ReadBounds
<1>4. RequestEnd \in Nat /\ r.uri_end <= RequestEnd /\ RequestEnd <= pos
  BY <1>0, <1>2 DEF LineOver, LineTo, RequestEnd
<1>5. /\ DOMAIN r' = Fields /\ r'.request_end = RequestEnd
      /\ r'.uri_ext = IF r.complex_uri THEN 0 ELSE r.uri_ext
      /\ \A f \in Fields \ {"request_end", "uri_ext"} : r'[f] = r[f]
      /\ r'.request_start = r.request_start /\ r'.method_end = r.method_end
      /\ r'.host_start = r.host_start /\ r'.host_end = r.host_end
      /\ r'.port_end = r.port_end /\ r'.uri_start = r.uri_start
      /\ r'.args_start = r.args_start /\ r'.complex_uri = r.complex_uri
      /\ r'.uri_end = r.uri_end
  BY <1>0, <1>1 DEF Fields, Marks
<1>6. Facts(wire', r', pos', state')
  <2>1. Named(wire, r', pos) /\ Ahead(wire, r')
    BY <1>0, <1>5, AheadKept DEF Named
  <2>2. Path(wire, r', r.uri_end)
    <3>1. CASE r.complex_uri
      <4>1. r'.complex_uri
        BY <1>5, <3>1
      <4> QED BY <1>0, <1>5, <4>1, PathComplex DEF UriRead
    <3>2. CASE ~r.complex_uri
      <4>1. r'.uri_ext = r.uri_ext
        BY <1>5, <3>2
      <4> QED BY <1>0, <1>5, <4>1, PathKept DEF UriRead
    <3> QED BY <3>1, <3>2
  <2>3. UriRead(wire, r') /\ r'.uri_end <= pos
    BY <1>0, <1>5, <2>2 DEF UriRead
  <2>4. BehindPath(wire, r', pos, "headers")
    BY <1>0, <1>5 DEF BehindPath, LineOver, LineTo, InVersion, InHttp
  <2> QED BY <1>1, <2>1, <2>3, <2>4 DEF Facts, Before, Schemas, InUri, BehindUri, InVersion,
             InHttp
<1>7. Typed(r')
  <2>1. \A m \in Marks : r'[m] \in Position
    <3>1. RequestEnd \in Position /\ 0 \in Position
      BY <1>2, <1>4 DEF Position
    <3>2. \A m \in Marks : r[m] \in Position
      BY <1>0 DEF TypeOK
    <3>3. \A m \in Marks \ {"request_end", "uri_ext"} : r'[m] \in Position
      BY <1>5, <3>2 DEF Fields
    <3>4. r'.uri_ext \in Position /\ r'.request_end \in Position
      BY <1>5, <3>1, <3>2 DEF Marks
    <3> QED BY <3>3, <3>4
  <2>2. r'.method = r.method /\ r'.major = r.major /\ r'.minor = r.minor
    BY <1>5 DEF Fields, Marks
  <2> QED BY <1>0, <1>5, <2>1, <2>2 DEF Typed, TypeOK
<1>8. len' = Lengths' /\ (r'.complex_uri => r'.uri_ext = 0)
  <2>1. PathEnd' = PathEnd
    BY <1>5 DEF PathEnd
  <2>2. r'.uri_ext # 0 => r'.uri_ext = r.uri_ext
    BY <1>5
  <2>3. r'.complex_uri => r'.uri_ext = 0
    BY <1>5
  <2>4. MethodNameLen' = MethodNameLen
    <3>1. r'.method = r.method
      BY <1>5 DEF Fields, Marks
    <3> QED BY <1>5, <3>1 DEF MethodNameLen
  <2> QED BY <1>1, <1>5, <2>1, <2>2, <2>3, <2>4 DEF Lengths
<1>9. \A l \in DOMAIN len' : len'[l] \in 0..BufSize
  <2>1. r'.uri_ext # 0 => PathEnd - r.uri_ext \in 0..BufSize
    BY <1>2, <1>3, <1>5
  <2>2. r.uri_end - r.uri_start \in 0..BufSize /\ PathEnd - r.uri_start \in 0..BufSize
    BY <1>2, <1>3
  <2>3. RequestEnd - r.request_start \in 0..BufSize /\ 0 \in 0..BufSize
    <3>1. RequestEnd <= BufSize /\ r.request_start < RequestEnd
      BY <1>2, <1>3, <1>4
    <3> QED BY <1>2, <1>4, <3>1
  <2>4. MethodNameLen \in 0..BufSize
    <3>1. r.request_start >= 1 /\ r.request_start < r.method_end /\ r.method_end <= pos
      BY <1>0 DEF Named, Ahead
    <3>2. r.method_end - r.request_start + 1 \in 0..BufSize
      BY <1>2, <1>3, <3>1
    <3> QED BY <2>3, <3>2 DEF MethodNameLen
  <2> QED BY <1>1, <2>1, <2>2, <2>3, <2>4
<1>10. /\ buf' \in Seq(Bytes \cup {"nul"}) /\ Len(buf') = Len(wire')
  <2>1. RequestEnd \in 1..Len(buf)
    BY <1>2, <1>3, <1>4
  <2>2. buf \in Seq(Bytes \cup {"nul"})
    BY <1>0 DEF TypeOK
  <2> QED BY <1>1, <1>2, <2>1, <2>2, ExceptSeq
<1>11. TypeOK'
  BY <1>0, <1>1, <1>2, <1>7, <1>9, <1>10 DEF TypeOK, Typed, Ends
<1>12. Copied'
  BY <1>0, <1>1, <1>5, <1>8 DEF Copied
<1> QED BY <1>5, <1>6, <1>11, <1>12 DEF Inv

-----------------------------------------------------------------------------
(***************************************************************************)
(* The invariant.                                                          *)
(***************************************************************************)
LEMMA InvInit == Init => Inv
<1> SUFFICES ASSUME Init PROVE Inv
  OBVIOUS
<1>1. /\ wire \in Seq(Bytes) /\ buf = wire /\ pos = 0 /\ state = "start" /\ r = NoRequest
      /\ len = NoLengths /\ Len(wire) <= BufSize /\ BufSize \in Nat
  BY LineAssumption DEF Init
<1>2. DOMAIN r = Fields
  BY <1>1 DEF Fields, NoRequest
<1>3. /\ \A m \in Marks : r[m] = 0
      /\ r.method = "none" /\ r.complex_uri = FALSE /\ r.major = 0 /\ r.minor = 0
  BY <1>1 DEF NoRequest, Marks
<1>4. Fresh(r)
  BY <1>3 DEF Fresh, Marks
<1>5. Facts(wire, r, pos, state)
  BY <1>1, <1>4 DEF Facts, BeforeUri, Before, Schemas, InUri, BehindUri, InVersion, InHttp
<1>6. TypeOK
  <2>1. wire \in Seq(Bytes \cup {"nul"}) /\ Len(wire) \in Nat
    BY <1>1, LenProperties
  <2>2. \A l \in DOMAIN len : len[l] \in 0..BufSize
    BY <1>1 DEF NoLengths
  <2>3. \A m \in Marks : r[m] \in Position
    BY <1>1, <1>3 DEF Position
  <2>4. /\ r.method \in {"none", "GET", "HEAD", "POST"} /\ r.complex_uri \in BOOLEAN
        /\ r.major \in Nat /\ r.minor \in Nat
    <3>1. r.method \in {"none", "GET", "HEAD", "POST"} /\ r.major \in Nat /\ r.minor \in Nat
      BY <1>3
    <3>2. r.complex_uri \in BOOLEAN
      BY <1>3
    <3> QED BY <3>1, <3>2
  <2>5. pos \in 0..Len(wire) /\ state \in States \cup Ends
    BY <1>1, <2>1 DEF States
  <2> QED BY <1>1, <2>1, <2>2, <2>3, <2>4, <2>5 DEF TypeOK
<1> QED BY <1>1, <1>2, <1>5, <1>6 DEF Inv, Copied

\* The handler gives up.
LEMMA EndInv ==
  ASSUME Inv, state # "headers", state' \in Ends \ {"headers"},
         UNCHANGED <<wire, buf, pos, r, len>>
  PROVE  Inv'
<1>1. TypeOK'
  BY DEF Inv, TypeOK
<1>2. Facts(wire', r', pos', state')
  BY DEF Ends, Facts, Before, Schemas, InUri, BehindUri, InVersion, InHttp
<1> QED BY <1>1, <1>2 DEF Inv, Copied

LEMMA InvStep == Inv /\ [Next]_vars => Inv'
<1> SUFFICES ASSUME Inv, [Next]_vars PROVE Inv'
  OBVIOUS
<1>1. CASE Running /\ \E n \in 1..MaxRead : \E chunk \in [1..n -> Alphabet[state]] : Receive(chunk)
  BY <1>1, ReceiveInv
<1>2. CASE BufferFull
  <2>1. state # "headers" /\ state' \in Ends \ {"headers"}
    BY <1>2 DEF BufferFull, Starved, Running, States, Ends
  <2> QED BY <1>2, <2>1, EndInv DEF BufferFull
<1>3. CASE Parse
  BY <1>3, ParseInv
<1>4. CASE LineDone
  <2>1. CASE Refused
    BY <1>4, <2>1, EndInv DEF LineDone, Reject, Ends
  <2> QED BY <1>4, <2>1, DoneInv
<1>5. CASE Close
  BY <1>5, EndInv DEF Close, Ends
<1>6. CASE UNCHANGED vars
  BY <1>6 DEF vars, Inv, TypeOK, Facts, Copied, Lengths, MethodNameLen, PathEnd
<1> QED BY <1>1, <1>2, <1>3, <1>4, <1>5, <1>6 DEF Next, Over

LEMMA Invariant == Spec => []Inv
BY InvInit, InvStep, PTL DEF Spec

\* Types: in whatever pieces a line comes, no mark leaves the buffer, and no
\* length that is taken from two marks is negative.
THEOREM TypeCorrect == Spec => []TypeOK
BY Invariant, PTL DEF Inv

-----------------------------------------------------------------------------
(***************************************************************************)
(* What the invariant says once the line is read.                          *)
(***************************************************************************)
LEMMA Headers ==
  ASSUME Inv, state = "headers"
  PROVE  /\ TypeOK /\ Named(wire, r, pos) /\ Ahead(wire, r) /\ UriRead(wire, r)
         /\ r.uri_end <= pos /\ LineOver(wire, r, pos, r.request_end)
         /\ buf = [wire EXCEPT ![r.request_end] = "nul"] /\ len = Lengths
         /\ r.complex_uri => r.uri_ext = 0
         /\ r.request_start \in Nat /\ r.method_end \in Nat /\ r.uri_start \in Nat
         /\ r.uri_end \in Nat /\ r.args_start \in Nat /\ r.uri_ext \in Nat
         /\ r.request_end \in Nat /\ pos \in Nat /\ Len(wire) \in Nat /\ pos <= Len(wire)
         /\ r.request_start >= 1 /\ r.request_start < r.method_end
         /\ r.method_end < r.uri_start /\ r.uri_start < r.uri_end
         /\ r.uri_end <= r.request_end /\ r.request_end <= pos
<1>1. state \in BehindUri
  BY DEF BehindUri
<1>2. /\ TypeOK /\ Named(wire, r, pos) /\ Ahead(wire, r) /\ UriRead(wire, r)
      /\ r.uri_end <= pos /\ LineOver(wire, r, pos, r.request_end)
      /\ buf = [wire EXCEPT ![r.request_end] = "nul"] /\ len = Lengths
      /\ r.complex_uri => r.uri_ext = 0
  BY <1>1 DEF Inv, Facts, BehindPath, Copied
<1>3. /\ r.request_start \in Nat /\ r.method_end \in Nat /\ r.uri_start \in Nat
      /\ r.uri_end \in Nat /\ r.args_start \in Nat /\ r.uri_ext \in Nat
      /\ r.request_end \in Nat /\ pos \in Nat /\ Len(wire) \in Nat /\ pos <= Len(wire)
  BY <1>2, Numbers, Sizes
<1>4. /\ r.request_start >= 1 /\ r.request_start < r.method_end
      /\ r.method_end < r.uri_start /\ r.uri_start < r.uri_end
  BY <1>2 DEF Named, Ahead, UriRead, Path
<1>5. r.uri_end <= r.request_end /\ r.request_end <= pos
  BY <1>2, <1>3 DEF LineOver, LineTo
<1> QED BY <1>2, <1>3, <1>4, <1>5

\* The bytes sent from a position on.
LEMMA SentBytes ==
  ASSUME TypeOK, NEW a \in Nat, NEW n \in Nat, a >= 1, a + n - 1 <= Len(wire)
  PROVE  /\ Len(Sent(a, n)) = n
         /\ \A i \in 1..n : Sent(a, n)[i] = wire[a + i - 1]
         /\ Sent(a, n) \in Seq(Bytes)
<1>1. wire \in Seq(Bytes) /\ Len(wire) \in Nat
  BY LenProperties DEF TypeOK
<1>2. a \in 1..(Len(wire) + 1) /\ (a + n - 1) \in (a - 1)..Len(wire)
      /\ (a + n - 1) - a + 1 = n
  BY <1>1
<1> QED BY <1>1, <1>2, SubSeqProperties DEF Sent

LEMMA SentHasNot ==
  ASSUME TypeOK, NEW a \in Nat, NEW b \in Nat, a >= 1, a <= b, b <= Len(wire) + 1,
         NEW set, No(wire, set, a, b - 1)
  PROVE  ~Has(Sent(a, b - a), set)
<1>1. b - a \in Nat /\ a + (b - a) - 1 <= Len(wire) /\ Len(wire) \in Nat
  BY Sizes
<1>2. Len(Sent(a, b - a)) = b - a /\ \A i \in 1..(b - a) : Sent(a, b - a)[i] = wire[a + i - 1]
  BY <1>1, SentBytes
<1>3. \A i \in 1..(b - a) : a + i - 1 \in a..(b - 1)
  OBVIOUS
<1> QED BY <1>2, <1>3 DEF Has, No

\* However a line is cut into reads, the NUL lies where its end of line began,
\* behind everything the handler copies, and nothing else is overwritten.
THEOREM LineIsReadable == Spec => []LineReadable
<1>1. ASSUME Inv, state = "headers"
      PROVE  LineReadable
  <2>1. /\ TypeOK /\ UriRead(wire, r) /\ LineOver(wire, r, pos, r.request_end)
        /\ buf = [wire EXCEPT ![r.request_end] = "nul"]
        /\ r.uri_start \in Nat /\ r.uri_end \in Nat /\ r.request_end \in Nat /\ pos \in Nat
        /\ Len(wire) \in Nat /\ pos <= Len(wire) /\ r.uri_start < r.uri_end
        /\ r.uri_end <= r.request_end /\ r.request_end <= pos
    BY <1>1, Headers
  <2>2. \A i \in 1..Len(buf) : buf[i] = IF i = r.request_end THEN "nul" ELSE wire[i]
    <3>1. wire \in Seq(Bytes) /\ Len(buf) = Len(wire)
      BY <2>1 DEF TypeOK
    <3> QED BY <2>1, <3>1
  <2>3. Sent(r.request_end, pos + 1 - r.request_end) \in {<<"lf">>, <<"cr", "lf">>}
    <3> DEFINE end == Sent(r.request_end, pos + 1 - r.request_end)
    <3>1. /\ pos + 1 - r.request_end \in Nat /\ r.request_end >= 1
          /\ r.request_end + (pos + 1 - r.request_end) - 1 <= Len(wire)
      BY <2>1
    <3>2. /\ Len(end) = pos + 1 - r.request_end /\ end \in Seq(Bytes)
          /\ \A i \in 1..(pos + 1 - r.request_end) : end[i] = wire[r.request_end + i - 1]
      BY <2>1, <3>1, SentBytes
    <3> HIDE DEF end
    <3>3. CASE r.request_end = pos
      <4>1. pos + 1 - pos = 1 /\ pos + 1 - 1 = pos /\ 1 \in 1..1
        BY <2>1
      <4>2. Len(end) = 1 /\ end[1] = "lf"
        BY <2>1, <3>2, <3>3, <4>1 DEF LineOver
      <4>3. end = <<"lf">>
        BY <3>2, <4>2
      <4> QED BY <4>3 DEF end
    <3>4. CASE r.request_end = pos - 1
      <4>1. /\ pos + 1 - (pos - 1) = 2 /\ (pos - 1) + 1 - 1 = pos - 1 /\ (pos - 1) + 2 - 1 = pos
            /\ 1 \in 1..2 /\ 2 \in 1..2
        BY <2>1
      <4>2. wire[pos - 1] = "cr" /\ wire[pos] = "lf"
        <5>1. pos - 1 # pos
          BY <2>1
        <5> QED BY <2>1, <3>4, <5>1 DEF LineOver
      <4>3. Len(end) = 2 /\ end[1] = "cr" /\ end[2] = "lf"
        BY <3>2, <3>4, <4>1, <4>2
      <4>4. end = <<"cr", "lf">>
        BY <3>2, <4>3
      <4> QED BY <4>4 DEF end
    <3> QED BY <2>1, <3>3, <3>4 DEF LineOver
  <2>4. wire[r.request_end - 1] # "cr"
    <3>1. CASE r.request_end = r.uri_end
      <4>1. r.uri_end - 1 \in r.uri_start..(r.uri_end - 1)
        BY <2>1
      <4>2. wire[r.uri_end - 1] \notin EndBytes
        BY <2>1, <4>1 DEF UriRead, Path, No
      <4> QED BY <3>1, <4>2 DEF EndBytes, Eol
    <3>2. CASE r.request_end # r.uri_end
      <4>1. r.request_end - 1 \in r.uri_end..(r.request_end - 1)
        BY <2>1, <3>2
      <4>2. wire[r.request_end - 1] \notin Eol
        BY <2>1, <4>1 DEF LineOver, LineTo, No
      <4> QED BY <4>2 DEF Eol
    <3> QED BY <3>1, <3>2
  <2> QED BY <2>1, <2>2, <2>3, <2>4 DEF LineReadable
<1>2. Inv => LineReadable
  BY <1>1 DEF LineReadable
<1> QED BY <1>2, Invariant, PTL

\* The lengths, from the marks.
LEMMA LengthsAre ==
  ASSUME Inv, state = "headers"
  PROVE  /\ len.unparsed = r.uri_end - r.uri_start /\ len.uri = PathEnd - r.uri_start
         /\ r.uri_ext # 0 => len.exten = PathEnd - r.uri_ext
         /\ len.line = r.request_end - r.request_start /\ len.method_name = MethodNameLen
         /\ r.uri_start < PathEnd /\ PathEnd <= r.uri_end /\ PathEnd \in Nat
         /\ PathEnd = PathStop(r, r.uri_end)
<1>1. len = Lengths
  BY Headers
<1>2. /\ r.uri_start < PathEnd /\ PathEnd <= r.uri_end /\ PathEnd \in Nat
      /\ PathEnd = PathStop(r, r.uri_end)
  BY Headers, ReadBounds
<1> QED BY <1>1, <1>2 DEF Lengths

\* Whatever the line looks like, its marks and the lengths taken from them
\* delimit the method, the path, the arguments and the line itself; only the
\* length of method_name is one too many, the space behind the method.
THEOREM MarksAreRight == Spec => []MarksDelimit
<1>1. ASSUME Inv, state = "headers"
      PROVE  MarksDelimit
  <2>1. /\ TypeOK /\ Named(wire, r, pos) /\ Ahead(wire, r) /\ UriRead(wire, r)
        /\ LineOver(wire, r, pos, r.request_end)
        /\ r.request_start \in Nat /\ r.method_end \in Nat /\ r.uri_start \in Nat
        /\ r.uri_end \in Nat /\ r.args_start \in Nat /\ r.request_end \in Nat /\ pos \in Nat
        /\ Len(wire) \in Nat /\ pos <= Len(wire) /\ r.request_start >= 1
        /\ r.request_start < r.method_end /\ r.method_end < r.uri_start
        /\ r.uri_start < r.uri_end /\ r.uri_end <= r.request_end /\ r.request_end <= pos
    BY <1>1, Headers
  <2>2. /\ len.unparsed = r.uri_end - r.uri_start /\ len.uri = PathEnd - r.uri_start
        /\ len.line = r.request_end - r.request_start /\ len.method_name = MethodNameLen
        /\ r.uri_start < PathEnd /\ PathEnd <= r.uri_end /\ PathEnd \in Nat
        /\ PathEnd = PathStop(r, r.uri_end)
    BY <1>1, LengthsAre
  <2>3. /\ Sent(r.request_start, r.method_end - r.request_start) # <<>>
        /\ ~Has(Sent(r.request_start, r.method_end - r.request_start), Bytes \ Upper)
        /\ wire[r.method_end] = "sp"
    <3>1. No(wire, Bytes \ Upper, r.request_start, r.method_end - 1)
      BY <2>1 DEF Named, No
    <3>2. ~Has(Sent(r.request_start, r.method_end - r.request_start), Bytes \ Upper)
      <4>1. r.request_start <= r.method_end /\ r.method_end <= Len(wire) + 1
        BY <2>1
      <4> QED BY <2>1, <3>1, <4>1, SentHasNot
    <3>3. Len(Sent(r.request_start, r.method_end - r.request_start)) > 0
      <4>1. /\ r.method_end - r.request_start \in Nat /\ r.method_end - r.request_start > 0
            /\ r.request_start + (r.method_end - r.request_start) - 1 <= Len(wire)
        BY <2>1
      <4> QED BY <2>1, <4>1, SentBytes
    <3>4. wire[r.method_end] = "sp"
      BY <2>1 DEF Named
    <3>5. Len(<<>>) = 0
      OBVIOUS
    <3> QED BY <3>2, <3>3, <3>4, <3>5
  <2>4. /\ r.method_end < r.uri_start /\ wire[r.uri_start] = "slash"
        /\ \A i \in r.method_end..(r.uri_start - 1) : wire[i] = "slash" =>
             r.host_start \in i..(i + 1) /\ (r.host_end < r.uri_start => r.port_end = r.uri_start)
    BY <2>1 DEF Ahead, HostSlashes
  <2>5. /\ len.unparsed > 0 /\ ~Has(Sent(r.uri_start, len.unparsed), EndBytes)
        /\ wire[r.uri_start + len.unparsed] \in EndBytes
    <3>1. No(wire, EndBytes, r.uri_start, r.uri_end - 1) /\ wire[r.uri_end] \in EndBytes
      BY <2>1 DEF UriRead, Path
    <3>2. /\ r.uri_end - r.uri_start > 0 /\ r.uri_start + (r.uri_end - r.uri_start) = r.uri_end
          /\ r.uri_start >= 1 /\ r.uri_start <= r.uri_end /\ r.uri_end <= Len(wire) + 1
      BY <2>1
    <3> QED BY <2>1, <2>2, <3>1, <3>2, SentHasNot
  <2>6. len.uri <= len.unparsed
    BY <2>1, <2>2
  <2>7. ASSUME len.uri < len.unparsed
        PROVE  /\ wire[r.uri_start + len.uri] = "question"
               /\ ~Has(Sent(r.uri_start, len.uri), {"question"})
    <3>1. PathEnd # r.uri_end /\ r.uri_start + (PathEnd - r.uri_start) = PathEnd
      BY <2>1, <2>2, <2>7
    <3>2. r.args_start # 0 /\ PathEnd = r.args_start - 1 /\ PathEnd - 1 = r.args_start - 2
      BY <2>1, <2>2, <3>1 DEF PathStop
    <3>3. wire[PathEnd] = "question" /\ No(wire, {"question"}, r.uri_start, PathEnd - 1)
      BY <2>1, <3>2 DEF UriRead, Path, Arguments
    <3>4. r.uri_start >= 1 /\ r.uri_start <= PathEnd /\ PathEnd <= Len(wire) + 1
      BY <2>1, <2>2
    <3> QED BY <2>1, <2>2, <3>1, <3>3, <3>4, SentHasNot
  <2>8. ~Has(Sent(r.request_start, len.line), Eol) \/ r.port_end # 0
    <3>1. SUFFICES ASSUME r.port_end = 0 PROVE ~Has(Sent(r.request_start, len.line), Eol)
      OBVIOUS
    <3>2. ASSUME NEW i \in r.request_start..(r.request_end - 1) PROVE wire[i] \notin Eol
      <4>1. CASE i \in r.request_start..r.uri_start
        BY <2>1, <3>1, <4>1 DEF Ahead, No
      <4>2. CASE i \in r.uri_start..(r.uri_end - 1)
        BY <2>1, <4>2 DEF UriRead, Path, No, EndBytes
      <4>3. CASE i \in r.uri_end..(r.request_end - 1)
        BY <2>1, <4>3 DEF LineOver, LineTo, No
      <4> QED BY <2>1, <4>1, <4>2, <4>3
    <3>3. No(wire, Eol, r.request_start, r.request_end - 1)
      BY <3>2 DEF No
    <3>4. r.request_start <= r.request_end /\ r.request_end <= Len(wire) + 1
      BY <2>1
    <3> QED BY <2>1, <2>2, <3>3, <3>4, SentHasNot
  <2>9. IF r.method = "none"
        THEN /\ len.method_name > 1 /\ wire[r.request_start + len.method_name - 1] = "sp"
             /\ ~Has(Sent(r.request_start, len.method_name - 1), Bytes \ Upper)
        ELSE len.method_name = 0
    <3>1. CASE r.method = "none"
      <4>1. len.method_name = r.method_end - r.request_start + 1
        BY <2>2, <3>1 DEF MethodNameLen
      <4>2. /\ len.method_name > 1 /\ r.request_start + len.method_name - 1 = r.method_end
            /\ len.method_name - 1 = r.method_end - r.request_start
        BY <2>1, <4>1
      <4> QED BY <2>3, <3>1, <4>2
    <3>2. CASE r.method # "none"
      BY <2>2, <3>2 DEF MethodNameLen
    <3> QED BY <3>1, <3>2
  <2> QED BY <2>3, <2>4, <2>5, <2>6, <2>7, <2>8, <2>9 DEF MarksDelimit
<1>2. Inv => MarksDelimit
  BY <1>1 DEF MarksDelimit
<1> QED BY <1>2, Invariant, PTL

\* A path of any length that the parser has not called complex has nothing in
\* it to decode or to resolve, and its extension is the right one.
THEOREM SimpleNeedsNoRewriting == Spec => []SimplePathIsNormal
<1>1. ASSUME Inv, state = "headers", ~r.complex_uri
      PROVE  SimplePathIsNormal
  <2> DEFINE path == Sent(r.uri_start, len.uri)
             exten == Sent(r.uri_ext, len.exten)
  <2>1. /\ TypeOK /\ UriRead(wire, r)
        /\ r.uri_start \in Nat /\ r.uri_end \in Nat /\ r.uri_ext \in Nat
        /\ Len(wire) \in Nat /\ r.uri_end <= Len(wire) /\ r.uri_start >= 1
    BY <1>1, Headers
  <2>2. /\ len.uri = PathEnd - r.uri_start
        /\ r.uri_ext # 0 => len.exten = PathEnd - r.uri_ext
        /\ r.uri_start < PathEnd /\ PathEnd <= r.uri_end /\ PathEnd \in Nat
        /\ PathEnd = PathStop(r, r.uri_end)
    BY <1>1, LengthsAre
  <2>3. Simple(wire, r, PathEnd)
    BY <1>1, <2>1, <2>2 DEF UriRead, Path
  <2>4. /\ Len(path) = PathEnd - r.uri_start
        /\ \A i \in 1..(PathEnd - r.uri_start) : path[i] = wire[r.uri_start + i - 1]
    <3>1. /\ PathEnd - r.uri_start \in Nat
          /\ r.uri_start + (PathEnd - r.uri_start) - 1 <= Len(wire)
      BY <2>1, <2>2
    <3>2. /\ Len(Sent(r.uri_start, PathEnd - r.uri_start)) = PathEnd - r.uri_start
          /\ \A i \in 1..(PathEnd - r.uri_start) :
               Sent(r.uri_start, PathEnd - r.uri_start)[i] = wire[r.uri_start + i - 1]
      BY <2>1, <3>1, SentBytes
    <3> QED BY <2>2, <3>2
  <2>5. ~Has(path, {"percent", "question"})
    <3>1. r.uri_start <= PathEnd /\ PathEnd <= Len(wire) + 1
      BY <2>1, <2>2
    <3> QED BY <2>1, <2>2, <2>3, <3>1, SentHasNot DEF Simple
  <2>6. r.uri_ext # 0 =>
          /\ wire[r.uri_ext - 1] = "dot" /\ ~Has(exten, {"dot", "slash"})
          /\ r.uri_ext + len.exten = r.uri_start + len.uri
    <3> SUFFICES ASSUME r.uri_ext # 0
                 PROVE  /\ wire[r.uri_ext - 1] = "dot" /\ ~Has(exten, {"dot", "slash"})
                        /\ r.uri_ext + len.exten = r.uri_start + len.uri
      OBVIOUS
    <3>1. /\ r.uri_start < r.uri_ext /\ r.uri_ext <= PathEnd /\ wire[r.uri_ext - 1] = "dot"
          /\ No(wire, {"dot", "slash"}, r.uri_ext, PathEnd - 1)
      BY <2>3 DEF Simple, Extension
    <3>2. /\ r.uri_ext >= 1 /\ PathEnd <= Len(wire) + 1
          /\ r.uri_ext + (PathEnd - r.uri_ext) = r.uri_start + (PathEnd - r.uri_start)
      BY <2>1, <2>2, <3>1
    <3> QED BY <2>1, <2>2, <3>1, <3>2, SentHasNot
  <2> HIDE DEF path, exten
  <2>7. ASSUME NEW i \in 2..Len(path), path[i - 1] = "slash"
        PROVE  path[i] \notin {"slash", "dot"}
    <3>1. /\ i - 1 \in 1..(PathEnd - r.uri_start) /\ i \in 1..(PathEnd - r.uri_start)
          /\ r.uri_start + i - 1 \in (r.uri_start + 1)..(PathEnd - 1)
          /\ r.uri_start + (i - 1) - 1 = (r.uri_start + i - 1) - 1
      <4>1. i \in 2..(PathEnd - r.uri_start)
        BY <2>4
      <4> QED BY <2>1, <2>2, <4>1
    <3>2. wire[(r.uri_start + i - 1) - 1] = "slash" /\ path[i] = wire[r.uri_start + i - 1]
      BY <2>4, <2>7, <3>1
    <3> QED BY <2>3, <3>1, <3>2 DEF Simple, Names
  <2>8. ASSUME r.uri_ext = 0, NEW i \in 1..Len(path), path[i] = "dot"
        PROVE  \E j \in i..Len(path) : path[j] = "slash"
    <3>1. r.uri_start + i - 1 \in r.uri_start..(PathEnd - 1) /\ wire[r.uri_start + i - 1] = "dot"
      BY <2>1, <2>2, <2>4, <2>8
    <3>2. PICK k \in (r.uri_start + i - 1)..(PathEnd - 1) : wire[k] = "slash"
      BY <2>3, <2>8, <3>1 DEF Simple, Extension
    <3>3. /\ k - r.uri_start + 1 \in i..Len(path)
          /\ k - r.uri_start + 1 \in 1..(PathEnd - r.uri_start)
          /\ r.uri_start + (k - r.uri_start + 1) - 1 = k
      <4>1. i \in 1..(PathEnd - r.uri_start)
        BY <2>4
      <4> DEFINE u == r.uri_start
                 end == PathEnd
      <4>2. u \in Int /\ end \in Int /\ i \in 1..(end - u) /\ k \in (u + i - 1)..(end - 1)
        BY <2>1, <2>2, <4>1
      <4> HIDE DEF u, end
      <4>3. k - u + 1 \in i..(end - u) /\ k - u + 1 \in 1..(end - u) /\ u + (k - u + 1) - 1 = k
        BY ONLY <4>2
      <4> QED BY <2>4, <4>3 DEF u, end
    <3>4. path[k - r.uri_start + 1] = "slash"
      BY <2>4, <3>2, <3>3
    <3> QED BY <3>3, <3>4
  <2>9. r.uri_ext = 0 => ~\E i \in 1..Len(path) :
          path[i] = "dot" /\ \A j \in i..Len(path) : path[j] # "slash"
    BY <2>8
  <2> QED BY <2>5, <2>6, <2>7, <2>9 DEF SimplePathIsNormal, path, exten
<1>2. Inv => SimplePathIsNormal
  BY <1>1 DEF SimplePathIsNormal
<1> QED BY <1>2, Invariant, PTL

-----------------------------------------------------------------------------
(***************************************************************************)
(* What a request line may still become.  Each item of a line is a part    *)
(* with a name; Takes says which bytes it takes, and NextPart which part   *)
(* follows it in the line that has k before the target, h behind it, and   *)
(* ends in e.                                                              *)
(***************************************************************************)
Kinds == {"none", "host", "port"}
Forms == {"old", "version"}
Breaks == {"lf", "crlf"}

Takes ==
  [eol |-> Eol, m1 |-> Upper, m |-> Upper, sp1 |-> {"sp"}, sp |-> {"sp"},
   s1 |-> Letters, s |-> Letters, colon |-> {"colon"}, sl1 |-> {"slash"}, sl2 |-> {"slash"},
   host |-> HostBytes, colon2 |-> {"colon"}, port |-> Bytes \ {"slash"},
   path |-> {"slash"}, uri |-> Bytes \ EndBytes, pad |-> {"sp"}, v1 |-> {"sp"}, v |-> {"sp"},
   H |-> {"H"}, T1 |-> {"T"}, T2 |-> {"T"}, P |-> {"P"}, sl3 |-> {"slash"},
   d1 |-> {"digit"}, d |-> Digits, dot |-> {"dot"}, n1 |-> Digits, n |-> Digits,
   cr |-> {"cr"}, lf |-> {"lf"}]
Parts == DOMAIN Takes
Repeats == {"eol", "m", "sp", "s", "host", "port", "uri", "pad", "v", "d", "n"}

NextPart(k, h, e) ==
  [eol |-> "m1", m1 |-> "m", m |-> "sp1", sp1 |-> "sp",
   sp |-> IF k = "none" THEN "path" ELSE "s1",
   s1 |-> "s", s |-> "colon", colon |-> "sl1", sl1 |-> "sl2", sl2 |-> "host",
   host |-> IF k = "host" THEN "path" ELSE "colon2", colon2 |-> "port", port |-> "path",
   path |-> "uri", uri |-> IF h = "old" THEN "pad" ELSE "v1",
   pad |-> IF e = "lf" THEN "lf" ELSE "cr", v1 |-> "v", v |-> "H", H |-> "T1", T1 |-> "T2",
   T2 |-> "P", P |-> "sl3", sl3 |-> "d1", d1 |-> "d", d |-> "dot", dot |-> "n1",
   n1 |-> "n", n |-> IF e = "lf" THEN "lf" ELSE "cr", cr |-> "lf", lf |-> "end"]

\* The lines and the names of their items.
BeforeItems == [none |-> <<>>, host |-> Authority, port |-> Authority \o PortItems]
BehindItems == [old |-> Any({"sp"}), version |-> Version]
EndItems == [lf |-> One({"lf"}), crlf |-> One({"cr"}) \o One({"lf"})]
Line(k, h, e) == Lead \o BeforeItems[k] \o Target \o BehindItems[h] \o EndItems[e]

LeadParts == <<"eol">> \o (<<"m1">> \o <<"m">>) \o (<<"sp1">> \o <<"sp">>)
AuthorityParts == (<<"s1">> \o <<"s">>) \o <<"colon">> \o <<"sl1">> \o <<"sl2">> \o <<"host">>
PortParts == <<"colon2">> \o <<"port">>
TargetParts == <<"path">> \o <<"uri">>
VersionParts ==
  (<<"v1">> \o <<"v">>) \o <<"H">> \o <<"T1">> \o <<"T2">> \o <<"P">> \o <<"sl3">>
  \o <<"d1">> \o <<"d">> \o <<"dot">> \o (<<"n1">> \o <<"n">>)
BeforeParts == [none |-> <<>>, host |-> AuthorityParts, port |-> AuthorityParts \o PortParts]
BehindParts == [old |-> <<"pad">>, version |-> VersionParts]
EndParts == [lf |-> <<"lf">>, crlf |-> <<"cr">> \o <<"lf">>]
PartsOf(k, h, e) ==
  LeadParts \o BeforeParts[k] \o TargetParts \o BehindParts[h] \o EndParts[e] \o <<"end">>

\* Expected, of the bytes w, and the parts it comes to in a line.
StepOn(line, S, c) ==
  LET fits == {j \in S : j <= Len(line) /\ c \in line[j].bytes}
  IN Skip(line, {IF line[j].many THEN j ELSE j + 1 : j \in fits})
FoundBy(f, w, line, n) ==
  f = [i \in 0..n |-> IF i = 0 THEN Skip(line, {1}) ELSE StepOn(line, f[i - 1], w[i])]
ExpectedIn(w, line, n) ==
  LET f[i \in 0..n] == IF i = 0 THEN Skip(line, {1}) ELSE StepOn(line, f[i - 1], w[i])
  IN f[n]
Called(N, S) == {N[j] : j \in S}
Due(w, n, k, h, e) == Called(PartsOf(k, h, e), ExpectedIn(w, Line(k, h, e), n))

\* The parts that may come where part a may, F being what follows each.
From(F, a) ==
  {a} \cup IF a \in Repeats
           THEN {F[a]} \cup IF F[a] \in Repeats THEN {F[F[a]]} ELSE {}
           ELSE {}
Onward(F, Q, c) ==
  UNION {From(F, IF a \in Repeats THEN a ELSE F[a]) : a \in {b \in Q : b # "end" /\ c \in Takes[b]}}

\* The part that a state of the parser is in.
PartAt(s, h) ==
  CASE s = "start" -> "eol"
    [] s = "method" -> "m"
    [] s = "spaces_before_uri" -> "sp"
    [] s = "schema" -> "s"
    [] s = "schema_slash" -> "sl1"
    [] s = "schema_slash_slash" -> "sl2"
    [] s = "host" -> "host"
    [] s = "port" -> "port"
    [] s \in InUri -> "uri"
    [] s = "http_09" -> IF h = "old" THEN "pad" ELSE "v"
    [] s = "http_H" -> "T1"
    [] s = "http_HT" -> "T2"
    [] s = "http_HTT" -> "P"
    [] s = "http_HTTP" -> "sl3"
    [] s = "first_major_digit" -> "d1"
    [] s = "major_digit" -> "d"
    [] s = "first_minor_digit" -> "n1"
    [] s = "minor_digit" -> "n"
    [] s = "almost_done" -> "lf"
    [] s \in {"done", "headers"} -> "end"

\* Some lines are still open: which, depends on what has been read.
Open(w, n, K, H, E) == \A k \in K, h \in H, e \in E : Due(w, n, k, h, e) # {}
SomeOpen(w, n, s) ==
  /\ s \in {"start", "method", "spaces_before_uri"} => Open(w, n, Kinds, Forms, Breaks)
  /\ s \in {"schema", "schema_slash", "schema_slash_slash", "host"} =>
       Open(w, n, {"host", "port"}, Forms, Breaks)
  /\ s = "port" => Open(w, n, {"port"}, Forms, Breaks)
  /\ s \in InUri \cup {"http_09"} => \E k \in Kinds : Open(w, n, {k}, Forms, Breaks)
  /\ s \in InVersion \ {"http_09"} => \E k \in Kinds : Open(w, n, {k}, {"version"}, Breaks)
  /\ s = "almost_done" => \E k \in Kinds, h \in Forms : Open(w, n, {k}, {h}, {"crlf"})
  /\ s \in {"done", "headers"} =>
       \E k \in Kinds, h \in Forms, e \in Breaks : Open(w, n, {k}, {h}, {e})

InPart(w, n, s) ==
  \A k \in Kinds, h \in Forms, e \in Breaks :
    Due(w, n, k, h, e) \in {{}, From(NextPart(k, h, e), PartAt(s, h))}
NoneDue(w, n) == \A k \in Kinds, h \in Forms, e \in Breaks : Due(w, n, k, h, e) = {}

Possible(w, n, s) == InPart(w, n, s) /\ SomeOpen(w, n, s)

StopInv ==
  /\ state \in States \cup {"headers"} => Possible(wire, pos, state)
  /\ state = "invalid" => NoneDue(wire, pos + 1)

-----------------------------------------------------------------------------
(***************************************************************************)
(* What Expected is after one byte more, and that it depends on the bytes  *)
(* read only.                                                              *)
(***************************************************************************)
\* Induction on a set of natural numbers.
LEMMA NumbersByInduction ==
  ASSUME NEW S, 0 \in S, \A n \in Nat : n \in S => n + 1 \in S
  PROVE  \A n \in Nat : n \in S
<1> DEFINE T == Nat \ S
           R == OpToRel(<, Nat)
<1> SUFFICES ASSUME T # {} PROVE FALSE
  OBVIOUS
<1>1. IsWellFoundedOn(R, Nat)
  BY NatLessThanWellFounded
<1>2. PICK x \in T : \A y \in T : <<y, x>> \notin R
  <2> HIDE DEF R
  <2>1. T \subseteq Nat
    OBVIOUS
  <2> QED BY <1>1, <2>1, WFMin
<1>3. x \in Nat /\ x \notin S /\ x # 0
  OBVIOUS
<1>4. x - 1 \in Nat /\ x - 1 + 1 = x
  BY <1>3
<1>5. x - 1 \in T
  BY <1>3, <1>4
<1>6. <<x - 1, x>> \in R
  BY <1>3, <1>4 DEF OpToRel
<1> QED BY <1>2, <1>5, <1>6

LEMMA FoundExist ==
  ASSUME NEW w, NEW line, NEW n \in Nat
  PROVE  \E f : FoundBy(f, w, line, n)
<1> DEFINE S == {k \in Nat : \E f : FoundBy(f, w, line, k)}
<1>1. 0 \in S
  <2>1. FoundBy([i \in 0..0 |-> Skip(line, {1})], w, line, 0)
    BY DEF FoundBy
  <2> QED BY <2>1
<1>2. ASSUME NEW k \in Nat, k \in S PROVE k + 1 \in S
  <2>1. PICK f : FoundBy(f, w, line, k)
    BY <1>2
  <2> DEFINE v == StepOn(line, f[k], w[k + 1])
             g == [i \in 0..(k + 1) |-> IF i = k + 1 THEN v ELSE f[i]]
  <2>2. \A i \in 0..k : f[i] = IF i = 0 THEN Skip(line, {1}) ELSE StepOn(line, f[i - 1], w[i])
    BY <2>1 DEF FoundBy
  <2>3. \A i \in 0..(k + 1) :
          g[i] = IF i = 0 THEN Skip(line, {1}) ELSE StepOn(line, g[i - 1], w[i])
    <3> TAKE i \in 0..(k + 1)
    <3>1. CASE i = k + 1
      BY <3>1
    <3>2. CASE i \in 0..k
      BY <2>2, <3>2
    <3> QED BY <3>1, <3>2
  <2>4. FoundBy(g, w, line, k + 1)
    BY <2>3 DEF FoundBy
  <2> QED BY <2>4
<1> HIDE DEF S
<1>3. n \in S
  BY <1>1, <1>2, NumbersByInduction
<1> QED BY <1>3 DEF S

LEMMA FoundAgree ==
  ASSUME NEW m \in Nat, NEW n \in Nat, m <= n, NEW w, NEW x, \A i \in 1..m : w[i] = x[i],
         NEW line, NEW f, FoundBy(f, w, line, m), NEW g, FoundBy(g, x, line, n)
  PROVE  \A i \in 0..m : f[i] = g[i]
<1> DEFINE S == {k \in Nat : k \in 0..m => f[k] = g[k]}
<1>1. 0 \in S
  BY DEF FoundBy
<1>2. ASSUME NEW k \in Nat, k \in S PROVE k + 1 \in S
  <2>1. CASE k + 1 \notin 0..m
    BY <2>1
  <2>2. CASE k + 1 \in 0..m
    <3>1. /\ f[k + 1] = StepOn(line, f[k], w[k + 1])
          /\ g[k + 1] = StepOn(line, g[k], x[k + 1])
          /\ w[k + 1] = x[k + 1]
      <4>1. k + 1 \in 1..m /\ k + 1 \in 0..n /\ k + 1 # 0 /\ (k + 1) - 1 = k
        BY <2>2
      <4> QED BY <2>2, <4>1 DEF FoundBy
    <3>2. f[k] = g[k]
      <4>1. k \in 0..m
        BY <2>2
      <4> QED BY <1>2, <4>1
    <3>3. f[k + 1] = g[k + 1]
      BY <3>1, <3>2
    <3> QED BY <3>3
  <2> QED BY <2>1, <2>2
<1> HIDE DEF S
<1>3. \A k \in Nat : k \in S
  BY <1>1, <1>2, NumbersByInduction
<1> QED BY <1>3 DEF S

LEMMA ExpectedFound ==
  ASSUME NEW w, NEW line, NEW n \in Nat
  PROVE  \E f : FoundBy(f, w, line, n) /\ ExpectedIn(w, line, n) = f[n]
<1>1. \E f : FoundBy(f, w, line, n)
  BY FoundExist
<1> QED BY <1>1 DEF ExpectedIn, FoundBy

LEMMA ExpectedFirst ==
  ASSUME NEW w, NEW line
  PROVE  ExpectedIn(w, line, 0) = Skip(line, {1})
<1>1. PICK f : FoundBy(f, w, line, 0) /\ ExpectedIn(w, line, 0) = f[0]
  BY ExpectedFound
<1> QED BY <1>1 DEF FoundBy

LEMMA ExpectedSame ==
  ASSUME NEW w, NEW x, NEW line, NEW n \in Nat, \A i \in 1..n : w[i] = x[i]
  PROVE  ExpectedIn(w, line, n) = ExpectedIn(x, line, n)
<1>1. PICK f : FoundBy(f, w, line, n) /\ ExpectedIn(w, line, n) = f[n]
  BY ExpectedFound
<1>2. PICK g : FoundBy(g, x, line, n) /\ ExpectedIn(x, line, n) = g[n]
  BY ExpectedFound
<1>3. f[n] = g[n]
  BY <1>1, <1>2, FoundAgree
<1> QED BY <1>1, <1>2, <1>3

LEMMA ExpectedMore ==
  ASSUME NEW w, NEW line, NEW n \in Nat
  PROVE  ExpectedIn(w, line, n + 1) = StepOn(line, ExpectedIn(w, line, n), w[n + 1])
<1> DEFINE k == n + 1
<1>1. k \in Nat /\ k \in 0..k /\ k # 0 /\ k - 1 = n /\ n <= k
  OBVIOUS
<1> HIDE DEF k
<1>2. PICK f : FoundBy(f, w, line, n) /\ ExpectedIn(w, line, n) = f[n]
  BY ExpectedFound
<1>3. PICK g : FoundBy(g, w, line, k) /\ ExpectedIn(w, line, k) = g[k]
  BY <1>1, ExpectedFound
<1>4. f[n] = g[n]
  <2> DEFINE x == w
  <2>1. (\A i \in 1..n : w[i] = x[i]) /\ FoundBy(g, x, line, k)
    BY <1>3
  <2> HIDE DEF x
  <2>2. \A i \in 0..n : f[i] = g[i]
    BY <1>1, <1>2, <2>1, FoundAgree
  <2> QED BY <2>2
<1>5. g[k] = StepOn(line, g[n], w[k])
  BY <1>1, <1>3 DEF FoundBy
<1>6. ExpectedIn(w, line, k) = StepOn(line, ExpectedIn(w, line, n), w[k])
  BY <1>2, <1>3, <1>4, <1>5
<1> QED BY <1>6 DEF k

LEMMA ExpectedIs ==
  ASSUME NEW line, NEW n
  PROVE  Expected(line, n) = ExpectedIn(wire, line, n)
BY DEF Expected, ExpectedIn, StepOn

-----------------------------------------------------------------------------
(***************************************************************************)
(* The items of every line, by the names of its parts.                     *)
(***************************************************************************)
Items == [bytes : SUBSET Bytes, many : BOOLEAN]
Fits(item, part) == item.bytes = Takes[part] /\ (item.many <=> part \in Repeats)

Piece(s, q, a, b, F) ==
  /\ s \in Seq(Items) /\ q \in Seq(Parts) /\ Len(s) = Len(q) /\ Len(s) > 0
  /\ q[1] = a /\ q[Len(q)] = b
  /\ \A i \in 1..Len(s) : Fits(s[i], q[i])
  /\ \A i \in 1..(Len(s) - 1) : q[i + 1] = F[q[i]]

LEMMA PartsAre ==
  Parts = {"eol", "m1", "m", "sp1", "sp", "s1", "s", "colon", "sl1", "sl2", "host", "colon2",
           "port", "path", "uri", "pad", "v1", "v", "H", "T1", "T2", "P", "sl3", "d1", "d",
           "dot", "n1", "n", "cr", "lf"}
BY DEF Parts, Takes

LEMMA PieceOne ==
  ASSUME NEW a \in Parts, NEW set, set \subseteq Bytes, Takes[a] = set, a \notin Repeats, NEW F
  PROVE  Piece(One(set), <<a>>, a, a, F)
<1> DEFINE e == [bytes |-> set, many |-> FALSE]
<1>1. e \in Items /\ Fits(e, a)
  <2>1. e \in Items /\ e.bytes = set /\ e.many = FALSE
    BY DEF Items
  <2>2. (e.many <=> a \in Repeats)
    BY <2>1
  <2> QED BY <2>1, <2>2 DEF Fits
<1> HIDE DEF e
<1>2. One(set) = <<e>>
  BY DEF One, e
<1> QED BY <1>1, <1>2 DEF Piece

LEMMA PieceAny ==
  ASSUME NEW a \in Parts, NEW set, set \subseteq Bytes, Takes[a] = set, a \in Repeats, NEW F
  PROVE  Piece(Any(set), <<a>>, a, a, F)
<1> DEFINE e == [bytes |-> set, many |-> TRUE]
<1>1. e \in Items /\ Fits(e, a)
  <2>1. e \in Items /\ e.bytes = set /\ e.many = TRUE
    BY DEF Items
  <2>2. (e.many <=> a \in Repeats)
    BY <2>1
  <2> QED BY <2>1, <2>2 DEF Fits
<1> HIDE DEF e
<1>2. Any(set) = <<e>>
  BY DEF Any, e
<1> QED BY <1>1, <1>2 DEF Piece

LEMMA TwoSequences ==
  ASSUME NEW S, NEW s \in Seq(S), NEW t \in Seq(S), NEW m, NEW n, Len(s) = m, Len(t) = n
  PROVE  /\ s \o t \in Seq(S) /\ Len(s \o t) = m + n
         /\ \A i \in 1..(m + n) : (s \o t)[i] = IF i <= m THEN s[i] ELSE t[i - m]
BY ConcatProperties

LEMMA PieceTwo ==
  ASSUME NEW s, NEW t, NEW p, NEW q, NEW a, NEW b, NEW c, NEW d, NEW F,
         Piece(s, p, a, b, F), Piece(t, q, c, d, F), F[b] = c
  PROVE  Piece(s \o t, p \o q, a, d, F)
<1> DEFINE m == Len(s)
           n == Len(t)
           st == s \o t
           pq == p \o q
<1>1. /\ s \in Seq(Items) /\ t \in Seq(Items) /\ p \in Seq(Parts) /\ q \in Seq(Parts)
      /\ Len(s) = m /\ Len(t) = n /\ Len(p) = m /\ Len(q) = n /\ m > 0 /\ n > 0
      /\ p[1] = a /\ p[m] = b /\ q[1] = c /\ q[n] = d
  BY DEF Piece
<1>2. m \in Nat /\ n \in Nat
  BY <1>1, LenProperties
<1> HIDE DEF m, n
<1>3. /\ st \in Seq(Items) /\ Len(st) = m + n
      /\ \A i \in 1..(m + n) : st[i] = IF i <= m THEN s[i] ELSE t[i - m]
  BY <1>1, TwoSequences
<1>4. /\ pq \in Seq(Parts) /\ Len(pq) = m + n
      /\ \A i \in 1..(m + n) : pq[i] = IF i <= m THEN p[i] ELSE q[i - m]
  BY <1>1, TwoSequences
<1>5. /\ \A i \in 1..m : Fits(s[i], p[i])
      /\ \A i \in 1..n : Fits(t[i], q[i])
      /\ \A i \in 1..(m - 1) : p[i + 1] = F[p[i]]
      /\ \A i \in 1..(n - 1) : q[i + 1] = F[q[i]]
  BY <1>1 DEF Piece
<1> HIDE DEF st, pq
<1>6. \A i \in 1..(m + n) : Fits(st[i], pq[i])
  <2> TAKE i \in 1..(m + n)
  <2>1. CASE i <= m
    BY <1>2, <1>3, <1>4, <1>5, <2>1
  <2>2. CASE ~(i <= m)
    <3>1. i - m \in 1..n
      BY <1>2, <2>2
    <3> QED BY <1>3, <1>4, <1>5, <2>2, <3>1
  <2> QED BY <2>1, <2>2
<1>7. ASSUME NEW i \in 1..(m + n), i # m + n PROVE pq[i + 1] = F[pq[i]]
  <2>0. i \in 1..(m + n) /\ i + 1 \in 1..(m + n) /\ i <= m + n - 1
    BY <1>2, <1>7
  <2>1. CASE i < m
    <3>1. i \in 1..(m - 1) /\ i <= m /\ i + 1 <= m
      BY <1>2, <2>1
    <3>2. pq[i] = p[i] /\ pq[i + 1] = p[i + 1]
      BY <1>4, <2>0, <3>1
    <3> QED BY <1>5, <3>1, <3>2
  <2>2. CASE i = m
    <3>1. ~(i + 1 <= m) /\ i <= m /\ (i + 1) - m = 1
      BY <1>2, <2>2
    <3>2. pq[i] = p[m] /\ pq[i + 1] = q[1]
      BY <1>4, <2>0, <2>2, <3>1
    <3> QED BY <1>1, <3>2
  <2>3. CASE i > m
    <3>1. i - m \in 1..(n - 1) /\ ~(i <= m) /\ ~(i + 1 <= m) /\ (i + 1) - m = (i - m) + 1
      BY <1>2, <2>0, <2>3
    <3>2. pq[i] = q[i - m] /\ pq[i + 1] = q[(i - m) + 1]
      BY <1>4, <2>0, <3>1
    <3> QED BY <1>5, <3>1, <3>2
  <2> QED BY <1>2, <2>1, <2>2, <2>3
<1>8. pq[1] = a /\ pq[m + n] = d
  <2>1. 1 \in 1..(m + n) /\ 1 <= m /\ m + n \in 1..(m + n) /\ ~(m + n <= m) /\ m + n - m = n
    BY <1>1, <1>2
  <2>2. pq[1] = p[1]
    BY <1>4, <2>1
  <2>3. pq[m + n] = q[n]
    <3> DEFINE l == m + n
    <3>0. l \in 1..l /\ ~(l <= m) /\ l - m = n
      BY <1>1, <1>2
    <3>1. pq[l] = IF l <= m THEN p[l] ELSE q[l - m]
      BY <1>4, <2>1
    <3> HIDE DEF l
    <3>2. pq[l] = q[n]
      BY <3>0, <3>1
    <3> QED BY <3>2 DEF l
  <2> QED BY <1>1, <2>2, <2>3
<1>9. m + n > 0
  BY <1>1, <1>2
<1>10. Piece(st, pq, a, d, F)
  <2> DEFINE l == m + n
  <2> HIDE DEF l
  <2>1. Len(st) = l /\ Len(pq) = l /\ l > 0 /\ pq[l] = d
    BY <1>3, <1>4, <1>8, <1>9 DEF l
  <2>2. \A i \in 1..l : Fits(st[i], pq[i])
    BY <1>6 DEF l
  <2>3. ASSUME NEW i \in 1..(l - 1) PROVE pq[i + 1] = F[pq[i]]
    <3>1. i \in 1..l /\ i # l
      BY <1>2 DEF l
    <3> QED BY <1>7, <3>1 DEF l
  <2> QED BY <1>3, <1>4, <1>8, <2>1, <2>2, <2>3 DEF Piece
<1> QED BY <1>10 DEF st, pq

\* The classes are bytes.
LEMMA ClassesAreBytes ==
  \A p \in Parts : Takes[p] \subseteq Bytes
BY DEF Parts, Takes, Bytes, Eol, Upper, Letters, HostBytes, Digits, EndBytes

\* What follows each part.
LEMMA NextIs ==
  ASSUME NEW k \in Kinds, NEW h \in Forms, NEW e \in Breaks, NEW F, F = NextPart(k, h, e)
  PROVE  /\ F["eol"] = "m1" /\ F["m1"] = "m" /\ F["m"] = "sp1" /\ F["sp1"] = "sp"
         /\ F["s1"] = "s" /\ F["s"] = "colon" /\ F["colon"] = "sl1" /\ F["sl1"] = "sl2"
         /\ F["sl2"] = "host" /\ F["colon2"] = "port" /\ F["port"] = "path"
         /\ F["path"] = "uri" /\ F["v1"] = "v" /\ F["v"] = "H" /\ F["H"] = "T1"
         /\ F["T1"] = "T2" /\ F["T2"] = "P" /\ F["P"] = "sl3" /\ F["sl3"] = "d1"
         /\ F["d1"] = "d" /\ F["d"] = "dot" /\ F["dot"] = "n1" /\ F["n1"] = "n"
         /\ F["cr"] = "lf" /\ F["lf"] = "end"
         /\ F["sp"] = IF k = "none" THEN "path" ELSE "s1"
         /\ F["host"] = IF k = "host" THEN "path" ELSE "colon2"
         /\ F["uri"] = IF h = "old" THEN "pad" ELSE "v1"
         /\ F["pad"] = IF e = "lf" THEN "lf" ELSE "cr"
         /\ F["n"] = IF e = "lf" THEN "lf" ELSE "cr"
BY DEF NextPart

LEMMA TakesAre ==
  /\ Takes["eol"] = Eol /\ Takes["m1"] = Upper /\ Takes["m"] = Upper /\ Takes["sp1"] = {"sp"}
  /\ Takes["sp"] = {"sp"} /\ Takes["s1"] = Letters /\ Takes["s"] = Letters
  /\ Takes["colon"] = {"colon"} /\ Takes["sl1"] = {"slash"} /\ Takes["sl2"] = {"slash"}
  /\ Takes["host"] = HostBytes /\ Takes["colon2"] = {"colon"}
  /\ Takes["port"] = Bytes \ {"slash"} /\ Takes["path"] = {"slash"}
  /\ Takes["uri"] = Bytes \ EndBytes /\ Takes["pad"] = {"sp"} /\ Takes["v1"] = {"sp"}
  /\ Takes["v"] = {"sp"} /\ Takes["H"] = {"H"} /\ Takes["T1"] = {"T"} /\ Takes["T2"] = {"T"}
  /\ Takes["P"] = {"P"} /\ Takes["sl3"] = {"slash"} /\ Takes["d1"] = {"digit"}
  /\ Takes["d"] = Digits /\ Takes["dot"] = {"dot"} /\ Takes["n1"] = Digits
  /\ Takes["n"] = Digits /\ Takes["cr"] = {"cr"} /\ Takes["lf"] = {"lf"}
BY DEF Takes

\* An item more, that occurs once; any number of times; at least once.
LEMMA PieceThenOne ==
  ASSUME NEW s, NEW p, NEW a, NEW b, NEW F, Piece(s, p, a, b, F),
         NEW c \in Parts, NEW set, Takes[c] = set, c \notin Repeats, F[b] = c
  PROVE  Piece(s \o One(set), p \o <<c>>, a, c, F)
<1>1. Piece(One(set), <<c>>, c, c, F)
  BY ClassesAreBytes, PieceOne
<1> QED BY <1>1, PieceTwo

LEMMA PieceThenAny ==
  ASSUME NEW s, NEW p, NEW a, NEW b, NEW F, Piece(s, p, a, b, F),
         NEW c \in Parts, NEW set, Takes[c] = set, c \in Repeats, F[b] = c
  PROVE  Piece(s \o Any(set), p \o <<c>>, a, c, F)
<1>1. Piece(Any(set), <<c>>, c, c, F)
  BY ClassesAreBytes, PieceAny
<1> QED BY <1>1, PieceTwo

LEMMA PieceSome ==
  ASSUME NEW c \in Parts, NEW d \in Parts, NEW set, Takes[c] = set, Takes[d] = set,
         c \notin Repeats, d \in Repeats, NEW F, F[c] = d
  PROVE  Piece(Some(set), <<c>> \o <<d>>, c, d, F)
<1>1. Piece(One(set), <<c>>, c, c, F) /\ Piece(Any(set), <<d>>, d, d, F)
  BY ClassesAreBytes, PieceOne, PieceAny
<1> QED BY <1>1, PieceTwo DEF Some

LEMMA PieceThenSome ==
  ASSUME NEW s, NEW p, NEW a, NEW b, NEW F, Piece(s, p, a, b, F),
         NEW c \in Parts, NEW d \in Parts, NEW set, Takes[c] = set, Takes[d] = set,
         c \notin Repeats, d \in Repeats, F[b] = c, F[c] = d
  PROVE  Piece(s \o Some(set), p \o (<<c>> \o <<d>>), a, d, F)
<1>1. Piece(Some(set), <<c>> \o <<d>>, c, d, F)
  BY PieceSome
<1> QED BY <1>1, PieceTwo

\* The pieces of a line.
LEMMA LeadIs ==
  ASSUME NEW k \in Kinds, NEW h \in Forms, NEW e \in Breaks, NEW F, F = NextPart(k, h, e)
  PROVE  Piece(Lead, LeadParts, "eol", "sp", F)
<1> DEFINE x0 == Any(Eol)
           y0 == <<"eol">>
           x1 == x0 \o Some(Upper)
           y1 == y0 \o (<<"m1">> \o <<"m">>)
           x2 == x1 \o Some({"sp"})
           y2 == y1 \o (<<"sp1">> \o <<"sp">>)
<1>a. F["eol"] = "m1" /\ F["m1"] = "m" /\ F["m"] = "sp1" /\ F["sp1"] = "sp"
  BY NextIs
<1>b. /\ {"eol", "m", "sp"} \subseteq Repeats /\ "m1" \notin Repeats /\ "sp1" \notin Repeats
      /\ {"eol", "m1", "m", "sp1", "sp"} \subseteq Parts
  BY PartsAre DEF Repeats
<1>c. /\ Takes["eol"] = Eol /\ Takes["m1"] = Upper /\ Takes["m"] = Upper
      /\ Takes["sp1"] = {"sp"} /\ Takes["sp"] = {"sp"}
  BY TakesAre
<1>0. Piece(x0, y0, "eol", "eol", F)
  BY ONLY <1>b, <1>c, ClassesAreBytes, PieceAny
<1> HIDE DEF x0, y0
<1>1. Piece(x1, y1, "eol", "m", F)
  BY ONLY <1>0, <1>a, <1>b, <1>c, PieceThenSome
<1> HIDE DEF x1, y1
<1>2. Piece(x2, y2, "eol", "sp", F)
  BY ONLY <1>1, <1>a, <1>b, <1>c, PieceThenSome
<1> HIDE DEF x2, y2
<1> QED BY <1>2 DEF x0, y0, x1, y1, x2, y2, Lead, LeadParts

LEMMA AuthorityIs ==
  ASSUME NEW k \in Kinds, NEW h \in Forms, NEW e \in Breaks, NEW F, F = NextPart(k, h, e)
  PROVE  Piece(Authority, AuthorityParts, "s1", "host", F)
<1> DEFINE x0 == Some(Letters)
           y0 == <<"s1">> \o <<"s">>
           x1 == x0 \o One({"colon"})
           y1 == y0 \o <<"colon">>
           x2 == x1 \o One({"slash"})
           y2 == y1 \o <<"sl1">>
           x3 == x2 \o One({"slash"})
           y3 == y2 \o <<"sl2">>
           x4 == x3 \o Any(HostBytes)
           y4 == y3 \o <<"host">>
<1>a. /\ F["s1"] = "s" /\ F["s"] = "colon" /\ F["colon"] = "sl1" /\ F["sl1"] = "sl2"
      /\ F["sl2"] = "host"
  BY NextIs
<1>b. /\ {"s", "host"} \subseteq Repeats
      /\ "s1" \notin Repeats /\ "colon" \notin Repeats /\ "sl1" \notin Repeats
      /\ "sl2" \notin Repeats
      /\ {"s1", "s", "colon", "sl1", "sl2", "host"} \subseteq Parts
  BY PartsAre DEF Repeats
<1>c. /\ Takes["s1"] = Letters /\ Takes["s"] = Letters /\ Takes["colon"] = {"colon"}
      /\ Takes["sl1"] = {"slash"} /\ Takes["sl2"] = {"slash"}
      /\ Takes["host"] = HostBytes
  BY TakesAre
<1>0. Piece(x0, y0, "s1", "s", F)
  BY ONLY <1>a, <1>b, <1>c, PieceSome
<1> HIDE DEF x0, y0
<1>1. Piece(x1, y1, "s1", "colon", F)
  BY ONLY <1>0, <1>a, <1>b, <1>c, PieceThenOne
<1> HIDE DEF x1, y1
<1>2. Piece(x2, y2, "s1", "sl1", F)
  BY ONLY <1>1, <1>a, <1>b, <1>c, PieceThenOne
<1> HIDE DEF x2, y2
<1>3. Piece(x3, y3, "s1", "sl2", F)
  BY ONLY <1>2, <1>a, <1>b, <1>c, PieceThenOne
<1> HIDE DEF x3, y3
<1>4. Piece(x4, y4, "s1", "host", F)
  BY ONLY <1>3, <1>a, <1>b, <1>c, PieceThenAny
<1> HIDE DEF x4, y4
<1> QED BY <1>4 DEF x0, y0, x1, y1, x2, y2, x3, y3, x4, y4, Authority, AuthorityParts

LEMMA PortIs ==
  ASSUME NEW k \in Kinds, NEW h \in Forms, NEW e \in Breaks, NEW F, F = NextPart(k, h, e)
  PROVE  Piece(PortItems, PortParts, "colon2", "port", F)
<1> DEFINE x0 == One({"colon"})
           y0 == <<"colon2">>
           x1 == x0 \o Any(Bytes \ {"slash"})
           y1 == y0 \o <<"port">>
<1>a. /\ F["colon2"] = "port"
  BY NextIs
<1>b. /\ {"port"} \subseteq Repeats
      /\ "colon2" \notin Repeats
      /\ {"colon2", "port"} \subseteq Parts
  BY PartsAre DEF Repeats
<1>c. /\ Takes["colon2"] = {"colon"} /\ Takes["port"] = Bytes \ {"slash"}
  BY TakesAre
<1>0. Piece(x0, y0, "colon2", "colon2", F)
  BY ONLY <1>a, <1>b, <1>c, ClassesAreBytes, PieceOne
<1> HIDE DEF x0, y0
<1>1. Piece(x1, y1, "colon2", "port", F)
  BY ONLY <1>0, <1>a, <1>b, <1>c, PieceThenAny
<1> HIDE DEF x1, y1
<1> QED BY <1>1 DEF x0, y0, x1, y1, PortItems, PortParts

LEMMA TargetIs ==
  ASSUME NEW k \in Kinds, NEW h \in Forms, NEW e \in Breaks, NEW F, F = NextPart(k, h, e)
  PROVE  Piece(Target, TargetParts, "path", "uri", F)
<1> DEFINE x0 == One({"slash"})
           y0 == <<"path">>
           x1 == x0 \o Any(Bytes \ EndBytes)
           y1 == y0 \o <<"uri">>
<1>a. /\ F["path"] = "uri"
  BY NextIs
<1>b. /\ {"uri"} \subseteq Repeats
      /\ "path" \notin Repeats
      /\ {"path", "uri"} \subseteq Parts
  BY PartsAre DEF Repeats
<1>c. /\ Takes["path"] = {"slash"} /\ Takes["uri"] = Bytes \ EndBytes
  BY TakesAre
<1>0. Piece(x0, y0, "path", "path", F)
  BY ONLY <1>a, <1>b, <1>c, ClassesAreBytes, PieceOne
<1> HIDE DEF x0, y0
<1>1. Piece(x1, y1, "path", "uri", F)
  BY ONLY <1>0, <1>a, <1>b, <1>c, PieceThenAny
<1> HIDE DEF x1, y1
<1> QED BY <1>1 DEF x0, y0, x1, y1, Target, TargetParts

LEMMA VersionIs ==
  ASSUME NEW k \in Kinds, NEW h \in Forms, NEW e \in Breaks, NEW F, F = NextPart(k, h, e)
  PROVE  Piece(Version, VersionParts, "v1", "n", F)
<1> DEFINE x0 == Some({"sp"})
           y0 == <<"v1">> \o <<"v">>
           x1 == x0 \o One({"H"})
           y1 == y0 \o <<"H">>
           x2 == x1 \o One({"T"})
           y2 == y1 \o <<"T1">>
           x3 == x2 \o One({"T"})
           y3 == y2 \o <<"T2">>
           x4 == x3 \o One({"P"})
           y4 == y3 \o <<"P">>
           x5 == x4 \o One({"slash"})
           y5 == y4 \o <<"sl3">>
           x6 == x5 \o One({"digit"})
           y6 == y5 \o <<"d1">>
           x7 == x6 \o Any(Digits)
           y7 == y6 \o <<"d">>
           x8 == x7 \o One({"dot"})
           y8 == y7 \o <<"dot">>
           x9 == x8 \o Some(Digits)
           y9 == y8 \o (<<"n1">> \o <<"n">>)
<1>a. /\ F["v1"] = "v" /\ F["v"] = "H" /\ F["H"] = "T1" /\ F["T1"] = "T2"
      /\ F["T2"] = "P" /\ F["P"] = "sl3" /\ F["sl3"] = "d1" /\ F["d1"] = "d"
      /\ F["d"] = "dot" /\ F["dot"] = "n1" /\ F["n1"] = "n"
  BY NextIs
<1>b. /\ {"v", "d", "n"} \subseteq Repeats
      /\ "v1" \notin Repeats /\ "H" \notin Repeats /\ "T1" \notin Repeats
      /\ "T2" \notin Repeats /\ "P" \notin Repeats /\ "sl3" \notin Repeats
      /\ "d1" \notin Repeats /\ "dot" \notin Repeats /\ "n1" \notin Repeats
      /\ {"v1", "v", "H", "T1", "T2", "P", "sl3", "d1", "d", "dot", "n1", "n"} \subseteq Parts
  BY PartsAre DEF Repeats
<1>c. /\ Takes["v1"] = {"sp"} /\ Takes["v"] = {"sp"} /\ Takes["H"] = {"H"}
      /\ Takes["T1"] = {"T"} /\ Takes["T2"] = {"T"} /\ Takes["P"] = {"P"}
      /\ Takes["sl3"] = {"slash"} /\ Takes["d1"] = {"digit"} /\ Takes["d"] = Digits
      /\ Takes["dot"] = {"dot"} /\ Takes["n1"] = Digits /\ Takes["n"] = Digits
  BY TakesAre
<1>0. Piece(x0, y0, "v1", "v", F)
  BY ONLY <1>a, <1>b, <1>c, PieceSome
<1> HIDE DEF x0, y0
<1>1. Piece(x1, y1, "v1", "H", F)
  BY ONLY <1>0, <1>a, <1>b, <1>c, PieceThenOne
<1> HIDE DEF x1, y1
<1>2. Piece(x2, y2, "v1", "T1", F)
  BY ONLY <1>1, <1>a, <1>b, <1>c, PieceThenOne
<1> HIDE DEF x2, y2
<1>3. Piece(x3, y3, "v1", "T2", F)
  BY ONLY <1>2, <1>a, <1>b, <1>c, PieceThenOne
<1> HIDE DEF x3, y3
<1>4. Piece(x4, y4, "v1", "P", F)
  BY ONLY <1>3, <1>a, <1>b, <1>c, PieceThenOne
<1> HIDE DEF x4, y4
<1>5. Piece(x5, y5, "v1", "sl3", F)
  BY ONLY <1>4, <1>a, <1>b, <1>c, PieceThenOne
<1> HIDE DEF x5, y5
<1>6. Piece(x6, y6, "v1", "d1", F)
  BY ONLY <1>5, <1>a, <1>b, <1>c, PieceThenOne
<1> HIDE DEF x6, y6
<1>7. Piece(x7, y7, "v1", "d", F)
  BY ONLY <1>6, <1>a, <1>b, <1>c, PieceThenAny
<1> HIDE DEF x7, y7
<1>8. Piece(x8, y8, "v1", "dot", F)
  BY ONLY <1>7, <1>a, <1>b, <1>c, PieceThenOne
<1> HIDE DEF x8, y8
<1>9. Piece(x9, y9, "v1", "n", F)
  BY ONLY <1>8, <1>a, <1>b, <1>c, PieceThenSome
<1> HIDE DEF x9, y9
<1> QED BY <1>9 DEF x0, y0, x1, y1, x2, y2, x3, y3, x4, y4, x5, y5, x6, y6, x7,
           y7, x8, y8, x9, y9, Version, VersionParts

\* The parts of a whole line, with the end behind them.
Spells(line, N, F) ==
  /\ Len(line) \in Nat /\ N[1] = "eol" /\ N[Len(line) + 1] = "end"
  /\ \A i \in 1..Len(line) : N[i] \in Parts /\ Fits(line[i], N[i]) /\ N[i + 1] = F[N[i]]

LEMMA BeforeIs ==
  ASSUME NEW k \in Kinds, NEW h \in Forms, NEW e \in Breaks, NEW F, F = NextPart(k, h, e)
  PROVE  \E b : /\ Piece(Lead \o BeforeItems[k], LeadParts \o BeforeParts[k], "eol", b, F)
                /\ F[b] = "path"
<1>0. Piece(Lead, LeadParts, "eol", "sp", F)
  BY LeadIs
<1>1. CASE k = "none"
  <2>1. BeforeItems[k] = <<>> /\ BeforeParts[k] = <<>>
    BY <1>1 DEF BeforeItems, BeforeParts
  <2>2. Lead \o <<>> = Lead /\ LeadParts \o <<>> = LeadParts
    BY <1>0, ConcatEmptySeq DEF Piece
  <2>3. F["sp"] = "path"
    BY <1>1, NextIs
  <2> QED BY <1>0, <2>1, <2>2, <2>3
<1>2. CASE k = "host"
  <2>1. BeforeItems[k] = Authority /\ BeforeParts[k] = AuthorityParts
    BY <1>2 DEF BeforeItems, BeforeParts
  <2>2. Piece(Authority, AuthorityParts, "s1", "host", F)
    BY AuthorityIs
  <2>3. F["sp"] = "s1" /\ F["host"] = "path"
    BY <1>2, NextIs
  <2>4. Piece(Lead \o Authority, LeadParts \o AuthorityParts, "eol", "host", F)
    BY <1>0, <2>2, <2>3, PieceTwo
  <2> QED BY <2>1, <2>3, <2>4
<1>3. CASE k = "port"
  <2>1. /\ BeforeItems[k] = Authority \o PortItems
        /\ BeforeParts[k] = AuthorityParts \o PortParts
    BY <1>3 DEF BeforeItems, BeforeParts
  <2>2. /\ Piece(Authority, AuthorityParts, "s1", "host", F)
        /\ Piece(PortItems, PortParts, "colon2", "port", F)
    BY AuthorityIs, PortIs
  <2>3. F["sp"] = "s1" /\ F["host"] = "colon2" /\ F["port"] = "path"
    BY <1>3, NextIs
  <2>4. Piece(Authority \o PortItems, AuthorityParts \o PortParts, "s1", "port", F)
    BY <2>2, <2>3, PieceTwo
  <2>5. Piece(Lead \o (Authority \o PortItems), LeadParts \o (AuthorityParts \o PortParts),
              "eol", "port", F)
    BY <1>0, <2>3, <2>4, PieceTwo
  <2> QED BY <2>1, <2>3, <2>5
<1> QED BY <1>1, <1>2, <1>3 DEF Kinds

LEMMA BehindIs ==
  ASSUME NEW k \in Kinds, NEW h \in Forms, NEW e \in Breaks, NEW F, F = NextPart(k, h, e)
  PROVE  \E a, b : /\ Piece(BehindItems[h], BehindParts[h], a, b, F) /\ F["uri"] = a
                   /\ F[b] = IF e = "lf" THEN "lf" ELSE "cr"
<1>1. CASE h = "old"
  <2>1. BehindItems[h] = Any({"sp"}) /\ BehindParts[h] = <<"pad">>
    BY <1>1 DEF BehindItems, BehindParts
  <2>2. Takes["pad"] = {"sp"}
    BY TakesAre
  <2>3. "pad" \in Parts /\ "pad" \in Repeats
    BY PartsAre DEF Repeats
  <2>4. Piece(Any({"sp"}), <<"pad">>, "pad", "pad", F)
    BY <2>2, <2>3, ClassesAreBytes, PieceAny
  <2>5. F["uri"] = "pad" /\ F["pad"] = IF e = "lf" THEN "lf" ELSE "cr"
    BY <1>1, NextIs
  <2> QED BY <2>1, <2>4, <2>5
<1>2. CASE h = "version"
  <2>1. BehindItems[h] = Version /\ BehindParts[h] = VersionParts
    BY <1>2 DEF BehindItems, BehindParts
  <2>2. Piece(Version, VersionParts, "v1", "n", F)
    BY VersionIs
  <2>3. F["uri"] = "v1" /\ F["n"] = IF e = "lf" THEN "lf" ELSE "cr"
    BY <1>2, NextIs
  <2> QED BY <2>1, <2>2, <2>3
<1> QED BY <1>1, <1>2 DEF Forms

LEMMA EndIs ==
  ASSUME NEW k \in Kinds, NEW h \in Forms, NEW e \in Breaks, NEW F, F = NextPart(k, h, e)
  PROVE  Piece(EndItems[e], EndParts[e], IF e = "lf" THEN "lf" ELSE "cr", "lf", F)
<1>1. Takes["lf"] = {"lf"} /\ Takes["cr"] = {"cr"}
  BY TakesAre
<1>2. "lf" \in Parts /\ "cr" \in Parts /\ "lf" \notin Repeats /\ "cr" \notin Repeats
  BY PartsAre DEF Repeats
<1>3. CASE e = "lf"
  <2>1. EndItems[e] = One({"lf"}) /\ EndParts[e] = <<"lf">>
    BY <1>3 DEF EndItems, EndParts
  <2>2. Piece(One({"lf"}), <<"lf">>, "lf", "lf", F)
    BY <1>1, <1>2, ClassesAreBytes, PieceOne
  <2> QED BY <1>3, <2>1, <2>2
<1>4. CASE e = "crlf"
  <2>1. /\ EndItems[e] = One({"cr"}) \o One({"lf"}) /\ EndParts[e] = <<"cr">> \o <<"lf">>
        /\ (IF e = "lf" THEN "lf" ELSE "cr") = "cr"
    BY <1>4 DEF EndItems, EndParts
  <2>2. F["cr"] = "lf"
    BY NextIs
  <2>3. Piece(One({"cr"}), <<"cr">>, "cr", "cr", F)
    BY <1>1, <1>2, ClassesAreBytes, PieceOne
  <2>4. Piece(One({"cr"}) \o One({"lf"}), <<"cr">> \o <<"lf">>, "cr", "lf", F)
    BY <1>1, <1>2, <2>2, <2>3, PieceThenOne
  <2> QED BY <2>1, <2>4
<1> QED BY <1>3, <1>4 DEF Breaks

LEMMA LineSpelled ==
  ASSUME NEW k \in Kinds, NEW h \in Forms, NEW e \in Breaks
  PROVE  Spells(Line(k, h, e), PartsOf(k, h, e), NextPart(k, h, e))
<1> DEFINE F == NextPart(k, h, e)
           br == IF e = "lf" THEN "lf" ELSE "cr"
           x0 == Lead \o BeforeItems[k]
           y0 == LeadParts \o BeforeParts[k]
           x1 == x0 \o Target
           y1 == y0 \o TargetParts
           x2 == x1 \o BehindItems[h]
           y2 == y1 \o BehindParts[h]
           x3 == x2 \o EndItems[e]
           y3 == y2 \o EndParts[e]
<1>1. PICK b0 : Piece(x0, y0, "eol", b0, F) /\ F[b0] = "path"
  BY BeforeIs
<1>2. Piece(Target, TargetParts, "path", "uri", F)
  BY TargetIs
<1>3. PICK a2, b2 : Piece(BehindItems[h], BehindParts[h], a2, b2, F) /\ F["uri"] = a2 /\ F[b2] = br
  BY BehindIs
<1>4. Piece(EndItems[e], EndParts[e], br, "lf", F) /\ F["lf"] = "end"
  BY EndIs, NextIs
<1> HIDE DEF F, br, x0, y0
<1>5. Piece(x1, y1, "eol", "uri", F)
  BY ONLY <1>1, <1>2, PieceTwo
<1> HIDE DEF x1, y1
<1>6. Piece(x2, y2, "eol", b2, F)
  BY ONLY <1>3, <1>5, PieceTwo
<1> HIDE DEF x2, y2
<1>7. Piece(x3, y3, "eol", "lf", F)
  BY ONLY <1>3, <1>4, <1>6, PieceTwo
<1> HIDE DEF x3, y3
<1> DEFINE n == Len(x3)
           N == y3 \o <<"end">>
<1>8. /\ n \in Nat /\ Len(y3) = n /\ n > 0 /\ y3[1] = "eol" /\ y3[n] = "lf"
      /\ \A i \in 1..n : y3[i] \in Parts /\ Fits(x3[i], y3[i])
      /\ \A i \in 1..(n - 1) : y3[i + 1] = F[y3[i]]
  BY <1>7, LenProperties, ElementOfSeq DEF Piece
<1>9. /\ \A i \in 1..n : N[i] = y3[i]
      /\ N[n + 1] = "end"
  <2>1. y3 \in Seq(Parts \cup {"end"}) /\ <<"end">> \in Seq(Parts \cup {"end"})
    BY <1>7, SeqMonotonic DEF Piece
  <2>2. Len(<<"end">>) = 1 /\ <<"end">>[1] = "end"
    OBVIOUS
  <2> DEFINE t == <<"end">>
  <2> HIDE DEF n, t
  <2>3. \A i \in 1..(n + 1) : N[i] = IF i <= n THEN y3[i] ELSE t[i - n]
    BY <1>8, <2>1, <2>2, TwoSequences DEF t
  <2>4. ~(n + 1 <= n) /\ n + 1 - n = 1 /\ n + 1 \in 1..(n + 1)
    BY <1>8
  <2>5. N[n + 1] = "end"
    <3> DEFINE m == n + 1
    <3>1. N[m] = IF m <= n THEN y3[m] ELSE t[m - n]
      BY <2>3, <2>4
    <3>2. ~(m <= n) /\ m - n = 1
      BY <1>8
    <3> HIDE DEF m
    <3>3. N[m] = "end"
      BY <2>2, <3>1, <3>2 DEF t
    <3> QED BY <3>3 DEF m
  <2>6. \A i \in 1..n : i \in 1..(n + 1) /\ i <= n
    BY <1>8
  <2> QED BY <2>3, <2>5, <2>6
<1> HIDE DEF n, N
<1>10. ASSUME NEW i \in 1..n PROVE N[i] \in Parts /\ Fits(x3[i], N[i]) /\ N[i + 1] = F[N[i]]
  <2>1. CASE i = n
    BY <1>4, <1>8, <1>9, <2>1
  <2>2. CASE i # n
    <3>1. i \in 1..(n - 1) /\ i + 1 \in 1..n
      BY <1>8, <2>2
    <3> QED BY <1>8, <1>9, <3>1
  <2> QED BY <2>1, <2>2
<1>11. N[1] = "eol"
  BY <1>8, <1>9
<1>12. Spells(x3, N, F)
  BY <1>8, <1>9, <1>10, <1>11 DEF Spells, n
<1>13. x3 = Line(k, h, e) /\ N = PartsOf(k, h, e)
  BY DEF x0, x1, x2, x3, y0, y1, y2, y3, N, Line, PartsOf
<1> QED BY <1>12, <1>13 DEF F

-----------------------------------------------------------------------------
(***************************************************************************)
(* A byte more, by the names of the parts.                                 *)
(***************************************************************************)
LEMMA EndIsNoPart == "end" \notin Parts /\ "end" \notin Repeats
BY PartsAre DEF Repeats

\* The items from which an item may be reached without a byte.
Reach(line, i) ==
  {i} \cup IF Missing(line, i)
           THEN {i + 1} \cup IF Missing(line, i + 1) THEN {i + 2} ELSE {}
           ELSE {}

LEMMA SkipReaches ==
  ASSUME NEW line, Len(line) \in Nat, NEW S, S \subseteq Int
  PROVE  Skip(line, S) = UNION {Reach(line, i) : i \in S}
<1> DEFINE one == {i + 1 : i \in {j \in S : Missing(line, j)}}
           two == {i + 1 : i \in {j \in one : Missing(line, j)}}
<1>1. Skip(line, S) = S \cup one \cup two
  BY DEF Skip
<1>2. \A j : j \in one <=> \E i \in S : Missing(line, i) /\ j = i + 1
  OBVIOUS
<1>3. \A j : j \in two <=> \E i \in S : Missing(line, i) /\ Missing(line, i + 1) /\ j = i + 2
  <2>1. \A j : j \in two <=> \E i \in one : Missing(line, i) /\ j = i + 1
    OBVIOUS
  <2> HIDE DEF one, two
  <2>2. \A i \in S : i + 1 + 1 = i + 2
    OBVIOUS
  <2> QED BY <1>2, <2>1, <2>2
<1> HIDE DEF one, two
<1>4. \A i \in S : \A j : j \in Reach(line, i) <=>
        \/ j = i
        \/ Missing(line, i) /\ j = i + 1
        \/ Missing(line, i) /\ Missing(line, i + 1) /\ j = i + 2
  BY DEF Reach
<1>5. \A j : j \in Skip(line, S) <=> \E i \in S : j \in Reach(line, i)
  BY <1>1, <1>2, <1>3, <1>4
<1> QED BY <1>5

\* The names of what is reached from item i.
LEMMA ReachNames ==
  ASSUME NEW line, NEW N, NEW F, Spells(line, N, F), NEW i \in 1..(Len(line) + 1)
  PROVE  /\ Reach(line, i) \subseteq 1..(Len(line) + 1)
         /\ {N[j] : j \in Reach(line, i)} = From(F, N[i])
<1> DEFINE n == Len(line)
<1>1. /\ n \in Nat /\ N[n + 1] = "end"
      /\ \A j \in 1..n : N[j + 1] = F[N[j]] /\ (line[j].many <=> N[j] \in Repeats)
  BY DEF Spells, Fits
<1> HIDE DEF n
<1>2. ASSUME NEW j \in 1..(n + 1) PROVE Missing(line, j) <=> N[j] \in Repeats
  <2>1. CASE j = n + 1
    BY <1>1, <2>1, EndIsNoPart DEF Missing, n
  <2>2. CASE j # n + 1
    <3>1. j \in 1..n /\ j <= n
      BY <1>1, <2>2
    <3> QED BY <1>1, <3>1 DEF Missing, n
  <2> QED BY <2>1, <2>2
<1>3. \A j \in 1..(n + 1) : Missing(line, j) =>
        j \in 1..n /\ j + 1 \in 1..(n + 1) /\ N[j + 1] = F[N[j]]
  BY <1>1 DEF Missing, n
<1>4. i \in 1..(n + 1)
  BY DEF n
<1>5. CASE ~Missing(line, i)
  <2>1. Reach(line, i) = {i} /\ From(F, N[i]) = {N[i]}
    BY <1>2, <1>4, <1>5 DEF Reach, From
  <2> QED BY <1>4, <2>1 DEF n
<1>6. CASE Missing(line, i) /\ ~Missing(line, i + 1)
  <2>1. i + 1 \in 1..(n + 1) /\ N[i + 1] = F[N[i]]
    BY <1>3, <1>4, <1>6
  <2>2. Reach(line, i) = {i, i + 1} /\ From(F, N[i]) = {N[i], F[N[i]]}
    <3>1. N[i] \in Repeats /\ F[N[i]] \notin Repeats
      BY <1>2, <1>4, <1>6, <2>1
    <3> QED BY <1>6, <3>1 DEF Reach, From
  <2> QED BY <1>4, <2>1, <2>2 DEF n
<1>7. CASE Missing(line, i) /\ Missing(line, i + 1)
  <2>1. i + 1 \in 1..(n + 1) /\ N[i + 1] = F[N[i]]
    BY <1>3, <1>4, <1>7
  <2>2. i + 2 \in 1..(n + 1) /\ N[i + 2] = F[F[N[i]]]
    <3>1. i + 1 + 1 \in 1..(n + 1) /\ N[i + 1 + 1] = F[N[i + 1]]
      BY <1>3, <1>7, <2>1
    <3>2. i + 1 + 1 = i + 2
      BY <1>4
    <3> QED BY <2>1, <3>1, <3>2
  <2>3. Reach(line, i) = {i, i + 1, i + 2} /\ From(F, N[i]) = {N[i], F[N[i]], F[F[N[i]]]}
    <3>1. N[i] \in Repeats /\ F[N[i]] \in Repeats
      BY <1>2, <1>4, <1>7, <2>1
    <3> QED BY <1>7, <3>1 DEF Reach, From
  <2> QED BY <1>4, <2>1, <2>2, <2>3 DEF n
<1> QED BY <1>5, <1>6, <1>7

AllFrom(F, Q) == UNION {From(F, a) : a \in Q}

LEMMA SkipNames ==
  ASSUME NEW line, NEW N, NEW F, Spells(line, N, F), NEW S \in SUBSET (1..(Len(line) + 1))
  PROVE  /\ Skip(line, S) \subseteq 1..(Len(line) + 1)
         /\ Called(N, Skip(line, S)) = AllFrom(F, Called(N, S))
<1>1. Len(line) \in Nat /\ S \subseteq Int
  BY DEF Spells
<1>2. Skip(line, S) = UNION {Reach(line, i) : i \in S}
  BY <1>1, SkipReaches
<1>3. \A i \in S : /\ Reach(line, i) \subseteq 1..(Len(line) + 1)
                   /\ {N[j] : j \in Reach(line, i)} = From(F, N[i])
  BY ReachNames
<1>4. \A x : x \in {N[j] : j \in Skip(line, S)} <=> \E i \in S : x \in From(F, N[i])
  <2>1. \A j : j \in Skip(line, S) <=> \E i \in S : j \in Reach(line, i)
    BY <1>2
  <2>2. \A i \in S : \A x : x \in From(F, N[i]) <=> \E j \in Reach(line, i) : x = N[j]
    <3> TAKE i \in S
    <3>1. From(F, N[i]) = {N[j] : j \in Reach(line, i)}
      BY <1>3
    <3> QED BY <3>1
  <2> TAKE x
  <2>3. ASSUME x \in {N[j] : j \in Skip(line, S)} PROVE \E i \in S : x \in From(F, N[i])
    <3>1. PICK j \in Skip(line, S) : x = N[j]
      BY <2>3
    <3>2. PICK i \in S : j \in Reach(line, i)
      BY <2>1, <3>1
    <3> QED BY <2>2, <3>1, <3>2
  <2>4. ASSUME NEW i \in S, x \in From(F, N[i]) PROVE x \in {N[j] : j \in Skip(line, S)}
    <3>1. PICK j \in Reach(line, i) : x = N[j]
      BY <2>2, <2>4
    <3>2. j \in Skip(line, S)
      BY <2>1, <3>1
    <3> QED BY <3>1, <3>2
  <2> QED BY <2>3, <2>4
<1>5. \A x : x \in AllFrom(F, Called(N, S)) <=> \E i \in S : x \in From(F, N[i])
  BY DEF AllFrom, Called
<1> QED BY <1>2, <1>3, <1>4, <1>5 DEF Called

LEMMA StepNames ==
  ASSUME NEW line, NEW N, NEW F, Spells(line, N, F), NEW S \in SUBSET (1..(Len(line) + 1)), NEW c
  PROVE  /\ StepOn(line, S, c) \subseteq 1..(Len(line) + 1)
         /\ Called(N, StepOn(line, S, c)) = Onward(F, Called(N, S), c)
<1> DEFINE n == Len(line)
           fits == {j \in S : j <= n /\ c \in line[j].bytes}
           next == {IF line[j].many THEN j ELSE j + 1 : j \in fits}
           Q == Called(N, S)
           good == {b \in Q : b # "end" /\ c \in Takes[b]}
           To(a) == IF a \in Repeats THEN a ELSE F[a]
<1>1. /\ n \in Nat /\ N[n + 1] = "end"
      /\ \A j \in 1..n : /\ N[j] \in Parts /\ N[j + 1] = F[N[j]]
                         /\ line[j].bytes = Takes[N[j]]
                         /\ (line[j].many <=> N[j] \in Repeats)
  BY DEF Spells, Fits
<1>2. StepOn(line, S, c) = Skip(line, next)
  BY DEF StepOn
<1>3. S \subseteq 1..(n + 1)
  OBVIOUS
<1> HIDE DEF n
<1>4. \A j \in S : j \in 1..(n + 1) /\ (j <= n <=> j \in 1..n) /\ (j \notin 1..n => j = n + 1)
  BY <1>1, <1>3
<1>5. \A j \in S : (j <= n /\ c \in line[j].bytes) <=> (N[j] # "end" /\ c \in Takes[N[j]])
  BY <1>1, <1>4, EndIsNoPart
<1>6. \A j \in fits : /\ (IF line[j].many THEN j ELSE j + 1) \in 1..(n + 1)
                      /\ N[IF line[j].many THEN j ELSE j + 1] = To(N[j])
  <2> TAKE j \in fits
  <2>1. j \in 1..n /\ j + 1 \in 1..(n + 1) /\ j \in 1..(n + 1)
    BY <1>1, <1>4
  <2> QED BY <1>1, <2>1
<1>7. next \subseteq 1..(n + 1)
  BY <1>6
<1>8. good = Called(N, fits)
  BY <1>5 DEF Called
<1>9. Called(N, next) = {To(a) : a \in good}
  <2>1. \A i : i \in next <=> \E j \in fits : i = IF line[j].many THEN j ELSE j + 1
    OBVIOUS
  <2>2. \A a : a \in good <=> \E j \in fits : a = N[j]
    BY <1>8 DEF Called
  <2> HIDE DEF fits, next, good, To
  <2>3. \A x : x \in Called(N, next) <=> \E j \in fits : x = To(N[j])
    BY <1>6, <2>1 DEF Called
  <2> QED BY <2>2, <2>3
<1>10. /\ Skip(line, next) \subseteq 1..(n + 1)
       /\ Called(N, Skip(line, next)) = AllFrom(F, Called(N, next))
  <2> HIDE DEF next
  <2>1. next \subseteq 1..(Len(line) + 1)
    BY <1>7 DEF n
  <2>2. next \in SUBSET (1..(Len(line) + 1))
    BY <2>1
  <2> QED BY <2>2, SkipNames DEF n
<1>11. AllFrom(F, {To(a) : a \in good}) = UNION {From(F, To(a)) : a \in good}
  <2> HIDE DEF good, To
  <2> QED BY DEF AllFrom
<1>12. Onward(F, Q, c) = UNION {From(F, To(a)) : a \in good}
  BY DEF Onward
<1> QED BY <1>2, <1>9, <1>10, <1>11, <1>12 DEF n

LEMMA ExpectedInLine ==
  ASSUME NEW line, NEW N, NEW F, Spells(line, N, F), NEW w, NEW n \in Nat
  PROVE  ExpectedIn(w, line, n) \in SUBSET (1..(Len(line) + 1))
<1> DEFINE T == {k \in Nat : ExpectedIn(w, line, k) \in SUBSET (1..(Len(line) + 1))}
<1>1. 0 \in T
  <2>1. Len(line) \in Nat
    BY DEF Spells
  <2>2. {1} \in SUBSET (1..(Len(line) + 1))
    BY <2>1
  <2>3. Skip(line, {1}) \subseteq 1..(Len(line) + 1)
    BY <2>2, SkipNames
  <2> QED BY <2>3, ExpectedFirst
<1>2. ASSUME NEW k \in Nat, k \in T PROVE k + 1 \in T
  <2> DEFINE S == ExpectedIn(w, line, k)
  <2>1. S \in SUBSET (1..(Len(line) + 1))
    BY <1>2
  <2>2. ExpectedIn(w, line, k + 1) = StepOn(line, S, w[k + 1])
    BY ExpectedMore
  <2> HIDE DEF S
  <2>3. StepOn(line, S, w[k + 1]) \subseteq 1..(Len(line) + 1)
    BY <2>1, StepNames
  <2> QED BY <2>2, <2>3
<1> HIDE DEF T
<1>3. n \in T
  BY <1>1, <1>2, NumbersByInduction
<1> QED BY <1>3 DEF T

LEMMA DueFirst ==
  ASSUME NEW w, NEW k \in Kinds, NEW h \in Forms, NEW e \in Breaks
  PROVE  Due(w, 0, k, h, e) = From(NextPart(k, h, e), "eol")
<1> DEFINE line == Line(k, h, e)
           N == PartsOf(k, h, e)
           F == NextPart(k, h, e)
<1>1. Spells(line, N, F)
  BY LineSpelled
<1>2. Due(w, 0, k, h, e) = Called(N, Skip(line, {1}))
  BY ExpectedFirst DEF Due
<1> HIDE DEF line, N, F
<1>3. Len(line) \in Nat /\ N[1] = "eol"
  BY <1>1 DEF Spells
<1>4. {1} \in SUBSET (1..(Len(line) + 1))
  BY <1>3
<1>5. Called(N, Skip(line, {1})) = AllFrom(F, Called(N, {1}))
  BY <1>1, <1>4, SkipNames
<1>6. AllFrom(F, Called(N, {1})) = From(F, "eol")
  BY <1>3 DEF AllFrom, Called
<1> QED BY <1>2, <1>5, <1>6 DEF F

LEMMA DueMore ==
  ASSUME NEW w, NEW n \in Nat, NEW k \in Kinds, NEW h \in Forms, NEW e \in Breaks
  PROVE  Due(w, n + 1, k, h, e) = Onward(NextPart(k, h, e), Due(w, n, k, h, e), w[n + 1])
<1> DEFINE line == Line(k, h, e)
           N == PartsOf(k, h, e)
           F == NextPart(k, h, e)
           S == ExpectedIn(w, line, n)
<1>1. Spells(line, N, F)
  BY LineSpelled
<1>2. Due(w, n + 1, k, h, e) = Called(N, StepOn(line, S, w[n + 1]))
  BY ExpectedMore DEF Due
<1>3. Due(w, n, k, h, e) = Called(N, S)
  BY DEF Due
<1> HIDE DEF line, N, F
<1>4. S \in SUBSET (1..(Len(line) + 1))
  BY <1>1, ExpectedInLine
<1> HIDE DEF S
<1>5. Called(N, StepOn(line, S, w[n + 1])) = Onward(F, Called(N, S), w[n + 1])
  BY <1>1, <1>4, StepNames
<1> QED BY <1>2, <1>3, <1>5 DEF F

LEMMA DueSame ==
  ASSUME NEW w, NEW x, NEW n \in Nat, \A i \in 1..n : w[i] = x[i],
         NEW k \in Kinds, NEW h \in Forms, NEW e \in Breaks
  PROVE  Due(w, n, k, h, e) = Due(x, n, k, h, e)
BY ExpectedSame DEF Due

\* The lines are those of RequestLines.
LEMMA LinesAre ==
  /\ \A k \in Kinds, h \in Forms, e \in Breaks : Line(k, h, e) \in RequestLines
  /\ \A line \in RequestLines :
       \E k \in Kinds, h \in Forms, e \in Breaks : line = Line(k, h, e)
<1>1. /\ BeforeItems["none"] = <<>> /\ BeforeItems["host"] = Authority
      /\ BeforeItems["port"] = Authority \o PortItems
      /\ BehindItems["old"] = Any({"sp"}) /\ BehindItems["version"] = Version
      /\ EndItems["lf"] = One({"lf"}) /\ EndItems["crlf"] = One({"cr"}) \o One({"lf"})
  BY DEF BeforeItems, BehindItems, EndItems
<1> DEFINE Bs == {<<>>, Authority, Authority \o PortItems}
           Hs == {Any({"sp"}), Version}
           Es == {One({"lf"}), One({"cr"}) \o One({"lf"})}
           Whole(b, h, e) == Lead \o b \o Target \o h \o e
<1>2. RequestLines = {Whole(b, h, e) : b \in Bs, h \in Hs, e \in Es}
  BY DEF RequestLines
<1>3. /\ \A k \in Kinds : BeforeItems[k] \in Bs
      /\ \A h \in Forms : BehindItems[h] \in Hs
      /\ \A e \in Breaks : EndItems[e] \in Es
  BY <1>1 DEF Kinds, Forms, Breaks
<1>4. /\ \A b \in Bs : \E k \in Kinds : b = BeforeItems[k]
      /\ \A b \in Hs : \E h \in Forms : b = BehindItems[h]
      /\ \A b \in Es : \E e \in Breaks : b = EndItems[e]
  BY <1>1 DEF Kinds, Forms, Breaks
<1>5. \A k \in Kinds, h \in Forms, e \in Breaks :
        Line(k, h, e) = Whole(BeforeItems[k], BehindItems[h], EndItems[e])
  BY DEF Line
<1> HIDE DEF Bs, Hs, Es, Whole
<1>6. ASSUME NEW k \in Kinds, NEW h \in Forms, NEW e \in Breaks
      PROVE  Line(k, h, e) \in RequestLines
  BY <1>2, <1>3, <1>5
<1>7. ASSUME NEW line \in RequestLines
      PROVE  \E k \in Kinds, h \in Forms, e \in Breaks : line = Line(k, h, e)
  <2>1. PICK x \in Bs, y \in Hs, z \in Es : line = Whole(x, y, z)
    BY <1>2
  <2>2. PICK k \in Kinds : x = BeforeItems[k]
    BY <1>4
  <2>3. PICK h \in Forms : y = BehindItems[h]
    BY <1>4
  <2>4. PICK e \in Breaks : z = EndItems[e]
    BY <1>4
  <2> QED BY <1>5, <2>1, <2>2, <2>3, <2>4
<1> QED BY <1>6, <1>7

LEMMA BecomesIs ==
  ASSUME NEW n \in Nat
  PROVE  CanBecome(n) <=>
           \E k \in Kinds, h \in Forms, e \in Breaks : Due(wire, n, k, h, e) # {}
<1>1. \A k \in Kinds, h \in Forms, e \in Breaks :
        Due(wire, n, k, h, e) # {} <=> Expected(Line(k, h, e), n) # {}
  BY ExpectedIs DEF Due, Called
<1>2. ASSUME CanBecome(n)
      PROVE  \E k \in Kinds, h \in Forms, e \in Breaks : Due(wire, n, k, h, e) # {}
  <2>1. PICK line \in RequestLines : Expected(line, n) # {}
    BY <1>2 DEF CanBecome
  <2>2. PICK k \in Kinds, h \in Forms, e \in Breaks : line = Line(k, h, e)
    BY LinesAre
  <2> QED BY <1>1, <2>1, <2>2
<1>3. ASSUME NEW k \in Kinds, NEW h \in Forms, NEW e \in Breaks, Due(wire, n, k, h, e) # {}
      PROVE  CanBecome(n)
  <2>1. Line(k, h, e) \in RequestLines /\ Expected(Line(k, h, e), n) # {}
    BY <1>1, <1>3, LinesAre
  <2> QED BY <2>1 DEF CanBecome
<1> QED BY <1>2, <1>3

LEMMA WholeIs ==
  ASSUME NEW n \in Nat
  PROVE  IsWhole(n) <=>
           \E k \in Kinds, h \in Forms, e \in Breaks : "end" \in Due(wire, n, k, h, e)
<1>1. ASSUME NEW k \in Kinds, NEW h \in Forms, NEW e \in Breaks
      PROVE  "end" \in Due(wire, n, k, h, e) <=>
               Len(Line(k, h, e)) + 1 \in Expected(Line(k, h, e), n)
  <2> DEFINE line == Line(k, h, e)
             N == PartsOf(k, h, e)
             F == NextPart(k, h, e)
             S == ExpectedIn(wire, line, n)
  <2>1. Spells(line, N, F)
    BY LineSpelled
  <2>2. Due(wire, n, k, h, e) = Called(N, S) /\ Expected(line, n) = S
    BY ExpectedIs DEF Due
  <2> HIDE DEF line, N, F
  <2>3. S \in SUBSET (1..(Len(line) + 1))
    BY <2>1, ExpectedInLine
  <2> HIDE DEF S
  <2>4. /\ Len(line) \in Nat /\ N[Len(line) + 1] = "end"
        /\ \A i \in 1..Len(line) : N[i] # "end"
    BY <2>1, EndIsNoPart DEF Spells
  <2>5. \A i \in S : N[i] = "end" <=> i = Len(line) + 1
    BY <2>3, <2>4
  <2>6. "end" \in Called(N, S) <=> Len(line) + 1 \in S
    BY <2>4, <2>5 DEF Called
  <2> QED BY <2>2, <2>6 DEF line
<1>2. ASSUME IsWhole(n)
      PROVE  \E k \in Kinds, h \in Forms, e \in Breaks : "end" \in Due(wire, n, k, h, e)
  <2>1. PICK line \in RequestLines : Len(line) + 1 \in Expected(line, n)
    BY <1>2 DEF IsWhole
  <2>2. PICK k \in Kinds, h \in Forms, e \in Breaks : line = Line(k, h, e)
    BY LinesAre
  <2> QED BY <1>1, <2>1, <2>2
<1>3. ASSUME NEW k \in Kinds, NEW h \in Forms, NEW e \in Breaks,
             "end" \in Due(wire, n, k, h, e)
      PROVE  IsWhole(n)
  <2>1. Len(Line(k, h, e)) + 1 \in Expected(Line(k, h, e), n)
    BY <1>1, <1>3
  <2>2. Line(k, h, e) \in RequestLines
    BY LinesAre
  <2> QED BY <2>1, <2>2 DEF IsWhole
<1> QED BY <1>2, <1>3

-----------------------------------------------------------------------------
(***************************************************************************)
(* What may come after one byte more, for each state of the parser.        *)
(***************************************************************************)
LEMMA PartAtIs ==
  ASSUME NEW h
  PROVE  /\ PartAt("start", h) = "eol" /\ PartAt("method", h) = "m"
         /\ PartAt("spaces_before_uri", h) = "sp" /\ PartAt("schema", h) = "s"
         /\ PartAt("schema_slash", h) = "sl1" /\ PartAt("schema_slash_slash", h) = "sl2"
         /\ PartAt("host", h) = "host" /\ PartAt("port", h) = "port"
         /\ \A s \in InUri : PartAt(s, h) = "uri"
         /\ PartAt("http_09", h) = IF h = "old" THEN "pad" ELSE "v"
         /\ PartAt("http_H", h) = "T1" /\ PartAt("http_HT", h) = "T2"
         /\ PartAt("http_HTT", h) = "P" /\ PartAt("http_HTTP", h) = "sl3"
         /\ PartAt("first_major_digit", h) = "d1" /\ PartAt("major_digit", h) = "d"
         /\ PartAt("first_minor_digit", h) = "n1" /\ PartAt("minor_digit", h) = "n"
         /\ PartAt("almost_done", h) = "lf"
         /\ PartAt("done", h) = "end" /\ PartAt("headers", h) = "end"
BY DEF PartAt, InUri

LEMMA OnwardNone ==
  ASSUME NEW F, NEW Q, NEW c, \A b \in Q : ~(b # "end" /\ c \in Takes[b])
  PROVE  Onward(F, Q, c) = {}
BY DEF Onward

LEMMA OnwardOne ==
  ASSUME NEW F, NEW Q, NEW c, NEW a \in Q, a # "end", c \in Takes[a],
         \A b \in Q : b # "end" /\ c \in Takes[b] => b = a
  PROVE  Onward(F, Q, c) = From(F, IF a \in Repeats THEN a ELSE F[a])
<1>1. {b \in Q : b # "end" /\ c \in Takes[b]} = {a}
  OBVIOUS
<1> DEFINE To(b) == From(F, IF b \in Repeats THEN b ELSE F[b])
<1>2. Onward(F, Q, c) = UNION {To(b) : b \in {a}}
  BY <1>1 DEF Onward
<1> HIDE DEF To
<1>3. Onward(F, Q, c) = To(a)
  BY <1>2
<1> QED BY <1>3 DEF To

LEMMA FromHas == ASSUME NEW F, NEW a PROVE a \in From(F, a)
BY DEF From

\* What becomes of a line when a byte comes; nothing, if it is closed.
Becomes(w, n, k, h, e, a) ==
  /\ Due(w, n + 1, k, h, e) \in {{}, From(NextPart(k, h, e), a)}
  /\ Due(w, n, k, h, e) # {} => Due(w, n + 1, k, h, e) # {}
Closes(w, n, k, h, e) == Due(w, n + 1, k, h, e) = {}

LEMMA DueAfter ==
  ASSUME NEW w, NEW n \in Nat, NEW k \in Kinds, NEW h \in Forms, NEW e \in Breaks,
         NEW F, F = NextPart(k, h, e), NEW a, Due(w, n, k, h, e) \in {{}, From(F, a)}
  PROVE  /\ Due(w, n, k, h, e) = {} => Closes(w, n, k, h, e)
         /\ \A b : Onward(F, From(F, a), w[n + 1]) = From(F, b) => Becomes(w, n, k, h, e, b)
         /\ Onward(F, From(F, a), w[n + 1]) = {} => Closes(w, n, k, h, e)
<1> DEFINE D == Due(w, n, k, h, e)
           X == Due(w, n + 1, k, h, e)
<1>1. X = Onward(F, D, w[n + 1])
  BY DueMore
<1>2. Onward(F, {}, w[n + 1]) = {}
  BY OnwardNone
<1>3. D = {} \/ D = From(F, a)
  OBVIOUS
<1> HIDE DEF D, X
<1>4. D = {} => X = {}
  BY <1>1, <1>2
<1>5. ASSUME NEW b, Onward(F, From(F, a), w[n + 1]) = From(F, b)
      PROVE  X \in {{}, From(F, b)} /\ (D # {} => X # {})
  BY <1>1, <1>3, <1>4, <1>5, FromHas
<1>6. Onward(F, From(F, a), w[n + 1]) = {} => X = {}
  BY <1>1, <1>3, <1>4
<1> QED BY <1>4, <1>5, <1>6 DEF Becomes, Closes, D, X

\* A part that occurs once.
LEMMA AfterOne ==
  ASSUME NEW w, NEW n \in Nat, NEW k \in Kinds, NEW h \in Forms, NEW e \in Breaks,
         NEW F, F = NextPart(k, h, e), NEW a \in Parts \ Repeats,
         Due(w, n, k, h, e) \in {{}, From(F, a)}
  PROVE  /\ w[n + 1] \in Takes[a] => Becomes(w, n, k, h, e, F[a])
         /\ w[n + 1] \notin Takes[a] => Closes(w, n, k, h, e)
<1>1. From(F, a) = {a} /\ a # "end"
  BY EndIsNoPart DEF From
<1>2. w[n + 1] \in Takes[a] => Onward(F, From(F, a), w[n + 1]) = From(F, F[a])
  BY <1>1, OnwardOne
<1>3. w[n + 1] \notin Takes[a] => Onward(F, From(F, a), w[n + 1]) = {}
  BY <1>1, OnwardNone
<1> QED BY <1>2, <1>3, DueAfter

\* A part that may occur again, before one that has to.
LEMMA AfterTwo ==
  ASSUME NEW w, NEW n \in Nat, NEW k \in Kinds, NEW h \in Forms, NEW e \in Breaks,
         NEW F, F = NextPart(k, h, e), NEW a \in Parts \cap Repeats,
         NEW b \in Parts \ Repeats, F[a] = b, Takes[a] \cap Takes[b] = {},
         Due(w, n, k, h, e) \in {{}, From(F, a)}
  PROVE  /\ w[n + 1] \in Takes[a] => Becomes(w, n, k, h, e, a)
         /\ w[n + 1] \in Takes[b] => Becomes(w, n, k, h, e, F[b])
         /\ w[n + 1] \notin Takes[a] \cup Takes[b] => Closes(w, n, k, h, e)
<1>1. From(F, a) = {a, b} /\ a # "end" /\ b # "end" /\ a # b
  BY EndIsNoPart DEF From
<1>2. w[n + 1] \in Takes[a] => Onward(F, From(F, a), w[n + 1]) = From(F, a)
  BY <1>1, OnwardOne
<1>3. w[n + 1] \in Takes[b] => Onward(F, From(F, a), w[n + 1]) = From(F, F[b])
  BY <1>1, OnwardOne
<1>4. w[n + 1] \notin Takes[a] \cup Takes[b] => Onward(F, From(F, a), w[n + 1]) = {}
  BY <1>1, OnwardNone
<1> QED BY <1>2, <1>3, <1>4, DueAfter

\* Two such parts before it.
LEMMA AfterThree ==
  ASSUME NEW w, NEW n \in Nat, NEW k \in Kinds, NEW h \in Forms, NEW e \in Breaks,
         NEW F, F = NextPart(k, h, e), NEW a \in Parts \cap Repeats,
         NEW b \in Parts \cap Repeats, NEW c \in Parts \ Repeats, F[a] = b, F[b] = c, a # b,
         Takes[a] \cap Takes[b] = {}, Takes[a] \cap Takes[c] = {}, Takes[b] \cap Takes[c] = {},
         Due(w, n, k, h, e) \in {{}, From(F, a)}
  PROVE  /\ w[n + 1] \in Takes[a] => Becomes(w, n, k, h, e, a)
         /\ w[n + 1] \in Takes[b] => Becomes(w, n, k, h, e, b)
         /\ w[n + 1] \in Takes[c] => Becomes(w, n, k, h, e, F[c])
         /\ w[n + 1] \notin Takes[a] \cup Takes[b] \cup Takes[c] => Closes(w, n, k, h, e)
<1>1. From(F, a) = {a, b, c} /\ a # "end" /\ b # "end" /\ c # "end" /\ a # c /\ b # c
  BY EndIsNoPart DEF From
<1>2. w[n + 1] \in Takes[a] => Onward(F, From(F, a), w[n + 1]) = From(F, a)
  BY <1>1, OnwardOne
<1>3. w[n + 1] \in Takes[b] => Onward(F, From(F, a), w[n + 1]) = From(F, b)
  BY <1>1, OnwardOne
<1>4. w[n + 1] \in Takes[c] => Onward(F, From(F, a), w[n + 1]) = From(F, F[c])
  BY <1>1, OnwardOne
<1>5. w[n + 1] \notin Takes[a] \cup Takes[b] \cup Takes[c] =>
        Onward(F, From(F, a), w[n + 1]) = {}
  BY <1>1, OnwardNone
<1> QED BY <1>2, <1>3, <1>4, <1>5, DueAfter

\* States in which the same lines are open.
InMethod == {"start", "method", "spaces_before_uri"}
InAuthority == {"schema", "schema_slash", "schema_slash_slash", "host"}
SameOpen == {InMethod, InAuthority, InUri \cup {"http_09"}, InVersion \ {"http_09"}}

LEMMA InPartNext ==
  ASSUME NEW w, NEW n, NEW t,
         \A k \in Kinds, h \in Forms, e \in Breaks :
           Becomes(w, n, k, h, e, PartAt(t, h)) \/ Closes(w, n, k, h, e)
  PROVE  InPart(w, n + 1, t)
BY DEF InPart, Becomes, Closes

LEMMA OpenNext ==
  ASSUME NEW w, NEW n, NEW K, NEW H, NEW E, Open(w, n, K, H, E),
         \A k \in K, h \in H, e \in E : \E a : Becomes(w, n, k, h, e, a)
  PROVE  Open(w, n + 1, K, H, E)
BY DEF Open, Becomes

LEMMA OpenLess ==
  ASSUME NEW w, NEW n, NEW K, NEW H, NEW E, Open(w, n, K, H, E),
         NEW A \in SUBSET K, NEW B \in SUBSET H, NEW C \in SUBSET E
  PROVE  Open(w, n, A, B, C)
BY DEF Open

LEMMA SomeOpenNext ==
  ASSUME NEW w, NEW n, NEW s, NEW t, NEW G \in SameOpen, s \in G, t \in G, SomeOpen(w, n, s),
         \A k \in Kinds, h \in Forms, e \in Breaks : \E a : Becomes(w, n, k, h, e, a)
  PROVE  SomeOpen(w, n + 1, t)
<1>1. \A K \in SUBSET Kinds, H \in SUBSET Forms, E \in SUBSET Breaks :
        Open(w, n, K, H, E) => Open(w, n + 1, K, H, E)
  BY OpenNext
<1>2. /\ Kinds \in SUBSET Kinds /\ Forms \in SUBSET Forms /\ Breaks \in SUBSET Breaks
      /\ {"host", "port"} \in SUBSET Kinds /\ {"version"} \in SUBSET Forms
      /\ \A k \in Kinds : {k} \in SUBSET Kinds
  BY DEF Kinds, Forms
<1>3. CASE G = InMethod
  <2>1. Open(w, n, Kinds, Forms, Breaks)
    BY <1>3 DEF SomeOpen, InMethod
  <2>2. Open(w, n + 1, Kinds, Forms, Breaks)
    BY <1>1, <1>2, <2>1
  <2> QED BY <1>3, <2>2 DEF SomeOpen, InMethod, InUri, InVersion, InHttp
<1>4. CASE G = InAuthority
  <2>1. Open(w, n, {"host", "port"}, Forms, Breaks)
    BY <1>4 DEF SomeOpen, InAuthority
  <2>2. Open(w, n + 1, {"host", "port"}, Forms, Breaks)
    BY <1>1, <1>2, <2>1
  <2> QED BY <1>4, <2>2 DEF SomeOpen, InAuthority, InUri, InVersion, InHttp
<1>5. CASE G = InUri \cup {"http_09"}
  <2>1. PICK k \in Kinds : Open(w, n, {k}, Forms, Breaks)
    BY <1>5 DEF SomeOpen
  <2>2. Open(w, n + 1, {k}, Forms, Breaks)
    BY <1>1, <1>2, <2>1
  <2> QED BY <1>5, <2>2 DEF SomeOpen, InUri, InVersion, InHttp
<1>6. CASE G = InVersion \ {"http_09"}
  <2>1. PICK k \in Kinds : Open(w, n, {k}, {"version"}, Breaks)
    BY <1>6 DEF SomeOpen
  <2>2. Open(w, n + 1, {k}, {"version"}, Breaks)
    BY <1>1, <1>2, <2>1
  <2> QED BY <1>6, <2>2 DEF SomeOpen, InUri, InVersion, InHttp
<1> QED BY <1>3, <1>4, <1>5, <1>6 DEF SameOpen

LEMMA NoneDueNext ==
  ASSUME NEW w, NEW n, \A k \in Kinds, h \in Forms, e \in Breaks : Closes(w, n, k, h, e)
  PROVE  NoneDue(w, n + 1)
BY DEF NoneDue, Closes

\* The same lines are open in both states; the part a state is in, in every
\* line; the part behind a part, in every line.
Alike(s, t) == \E G \in SameOpen : s \in G /\ t \in G
IsAt(s, a) == \A h : PartAt(s, h) = a
Leads(a, b) == \A k \in Kinds, h \in Forms, e \in Breaks : NextPart(k, h, e)[a] = b

\* From a part that occurs once, s, to the next one, t.
LEMMA OneGoes ==
  ASSUME NEW w, NEW n \in Nat, NEW s, NEW t, Alike(s, t), Possible(w, n, s),
         NEW a \in Parts \ Repeats, NEW b, IsAt(s, a), IsAt(t, b), Leads(a, b)
  PROVE  /\ w[n + 1] \in Takes[a] => Possible(w, n + 1, t)
         /\ w[n + 1] \notin Takes[a] => NoneDue(w, n + 1)
<1>1. ASSUME NEW k \in Kinds, NEW h \in Forms, NEW e \in Breaks
      PROVE  /\ w[n + 1] \in Takes[a] => Becomes(w, n, k, h, e, b)
             /\ w[n + 1] \notin Takes[a] => Closes(w, n, k, h, e)
  <2>1. Due(w, n, k, h, e) \in {{}, From(NextPart(k, h, e), a)}
    BY DEF Possible, InPart, IsAt
  <2> QED BY <2>1, AfterOne DEF Leads
<1>2. ASSUME w[n + 1] \in Takes[a] PROVE Possible(w, n + 1, t)
  <2>1. InPart(w, n + 1, t)
    BY <1>1, <1>2, InPartNext DEF IsAt
  <2>2. PICK G \in SameOpen : s \in G /\ t \in G
    BY DEF Alike
  <2>3. SomeOpen(w, n + 1, t)
    BY <1>1, <1>2, <2>2, SomeOpenNext DEF Possible
  <2> QED BY <2>1, <2>3 DEF Possible
<1>3. w[n + 1] \notin Takes[a] => NoneDue(w, n + 1)
  BY <1>1, NoneDueNext
<1> QED BY <1>2, <1>3

\* From a part that may occur again: it does, or the one behind it comes.
LEMMA TwoGo ==
  ASSUME NEW w, NEW n \in Nat, NEW s, NEW t, Alike(s, t), Possible(w, n, s),
         NEW a \in Parts \cap Repeats, NEW b \in Parts \ Repeats, NEW c,
         Takes[a] \cap Takes[b] = {}, IsAt(s, a), IsAt(t, c), Leads(a, b), Leads(b, c)
  PROVE  /\ w[n + 1] \in Takes[a] => Possible(w, n + 1, s)
         /\ w[n + 1] \in Takes[b] => Possible(w, n + 1, t)
         /\ w[n + 1] \notin Takes[a] \cup Takes[b] => NoneDue(w, n + 1)
<1>1. ASSUME NEW k \in Kinds, NEW h \in Forms, NEW e \in Breaks
      PROVE  /\ w[n + 1] \in Takes[a] => Becomes(w, n, k, h, e, a)
             /\ w[n + 1] \in Takes[b] => Becomes(w, n, k, h, e, c)
             /\ w[n + 1] \notin Takes[a] \cup Takes[b] => Closes(w, n, k, h, e)
  <2>1. Due(w, n, k, h, e) \in {{}, From(NextPart(k, h, e), a)}
    BY DEF Possible, InPart, IsAt
  <2> QED BY <2>1, AfterTwo DEF Leads
<1>2. ASSUME w[n + 1] \in Takes[a] PROVE Possible(w, n + 1, s)
  <2>1. InPart(w, n + 1, s)
    BY <1>1, <1>2, InPartNext DEF IsAt
  <2>2. PICK G \in SameOpen : s \in G /\ s \in G
    BY DEF Alike
  <2>3. SomeOpen(w, n + 1, s)
    BY <1>1, <1>2, <2>2, SomeOpenNext DEF Possible
  <2> QED BY <2>1, <2>3 DEF Possible
<1>3. ASSUME w[n + 1] \in Takes[b] PROVE Possible(w, n + 1, t)
  <2>1. InPart(w, n + 1, t)
    BY <1>1, <1>3, InPartNext DEF IsAt
  <2>2. PICK G \in SameOpen : s \in G /\ t \in G
    BY DEF Alike
  <2>3. SomeOpen(w, n + 1, t)
    BY <1>1, <1>3, <2>2, SomeOpenNext DEF Possible
  <2> QED BY <2>1, <2>3 DEF Possible
<1>4. w[n + 1] \notin Takes[a] \cup Takes[b] => NoneDue(w, n + 1)
  BY <1>1, NoneDueNext
<1> QED BY <1>2, <1>3, <1>4

-----------------------------------------------------------------------------
(***************************************************************************)
(* Each state of the parser, and one byte more.                            *)
(***************************************************************************)
LEMMA NextFixed ==
  \A k \in Kinds, h \in Forms, e \in Breaks : LET F == NextPart(k, h, e) IN
    /\ F["eol"] = "m1" /\ F["m1"] = "m" /\ F["m"] = "sp1" /\ F["sp1"] = "sp"
    /\ F["s1"] = "s" /\ F["s"] = "colon" /\ F["colon"] = "sl1" /\ F["sl1"] = "sl2"
    /\ F["sl2"] = "host" /\ F["colon2"] = "port" /\ F["port"] = "path"
    /\ F["path"] = "uri" /\ F["v1"] = "v" /\ F["v"] = "H" /\ F["H"] = "T1"
    /\ F["T1"] = "T2" /\ F["T2"] = "P" /\ F["P"] = "sl3" /\ F["sl3"] = "d1"
    /\ F["d1"] = "d" /\ F["d"] = "dot" /\ F["dot"] = "n1" /\ F["n1"] = "n"
    /\ F["cr"] = "lf" /\ F["lf"] = "end"
BY DEF NextPart

LEMMA PartSorts ==
  /\ {"eol", "m", "sp", "s", "host", "port", "uri", "pad", "v", "d", "n"} \subseteq Parts \cap Repeats
  /\ {"m1", "sp1", "s1", "colon", "sl1", "sl2", "colon2", "path", "v1", "H", "T1", "T2", "P",
      "sl3", "d1", "dot", "n1", "cr", "lf"} \subseteq Parts \ Repeats
BY PartsAre DEF Repeats

\* In the method, and behind it.
LEMMA StartGoes ==
  ASSUME NEW w, NEW n \in Nat, Possible(w, n, "start")
  PROVE  /\ w[n + 1] \in Eol => Possible(w, n + 1, "start")
         /\ w[n + 1] \in Upper => Possible(w, n + 1, "method")
         /\ w[n + 1] \notin Eol \cup Upper => NoneDue(w, n + 1)
<1>1. "eol" \in Parts \cap Repeats /\ "m1" \in Parts \ Repeats
  BY PartSorts
<1>2. Takes["eol"] = Eol /\ Takes["m1"] = Upper /\ Eol \cap Upper = {}
  BY TakesAre DEF Eol, Upper
<1>3. IsAt("start", "eol") /\ IsAt("method", "m")
  BY PartAtIs DEF IsAt
<1>4. Leads("eol", "m1") /\ Leads("m1", "m")
  BY NextFixed DEF Leads
<1>5. Alike("start", "method")
  BY DEF Alike, SameOpen, InMethod
<1> QED BY <1>1, <1>2, <1>3, <1>4, <1>5, TwoGo

LEMMA MethodGoes ==
  ASSUME NEW w, NEW n \in Nat, Possible(w, n, "method")
  PROVE  /\ w[n + 1] \in Upper => Possible(w, n + 1, "method")
         /\ w[n + 1] = "sp" => Possible(w, n + 1, "spaces_before_uri")
         /\ w[n + 1] \notin Upper \cup {"sp"} => NoneDue(w, n + 1)
<1>1. "m" \in Parts \cap Repeats /\ "sp1" \in Parts \ Repeats
  BY PartSorts
<1>2. Takes["m"] = Upper /\ Takes["sp1"] = {"sp"} /\ Upper \cap {"sp"} = {}
  BY TakesAre DEF Upper
<1> Takes["m"] \cap Takes["sp1"] = {}
  BY <1>2
<1>3. IsAt("method", "m") /\ IsAt("spaces_before_uri", "sp")
  BY PartAtIs DEF IsAt
<1>4. Leads("m", "sp1") /\ Leads("sp1", "sp")
  BY NextFixed DEF Leads
<1>5. Alike("method", "spaces_before_uri")
  BY DEF Alike, SameOpen, InMethod
<1>6. /\ w[n + 1] \in Takes["m"] => Possible(w, n + 1, "method")
      /\ w[n + 1] \in Takes["sp1"] => Possible(w, n + 1, "spaces_before_uri")
      /\ w[n + 1] \notin Takes["m"] \cup Takes["sp1"] => NoneDue(w, n + 1)
  BY <1>1, <1>3, <1>4, <1>5, TwoGo
<1> QED BY <1>2, <1>6

\* Where lines part: each goes on in the part of t, or is closed, and those of
\* the kinds in A, the forms in B and the ends in C go on.
SomeGo(w, n, t) ==
  \A k \in Kinds, h \in Forms, e \in Breaks :
    Becomes(w, n, k, h, e, PartAt(t, h)) \/ Closes(w, n, k, h, e)
AllGo(w, n, t, A, B, C) ==
  \A k \in A, h \in B, e \in C : Becomes(w, n, k, h, e, PartAt(t, h))
Within(A, B, C, K, H, E) == A \subseteq K /\ B \subseteq H /\ C \subseteq E

LEMMA Parting ==
  ASSUME NEW w, NEW n, NEW t, NEW K, NEW H, NEW E, Open(w, n, K, H, E),
         NEW A, NEW B, NEW C, Within(A, B, C, K, H, E),
         SomeGo(w, n, t), AllGo(w, n, t, A, B, C)
  PROVE  InPart(w, n + 1, t) /\ Open(w, n + 1, A, B, C)
<1>1. InPart(w, n + 1, t)
  BY InPartNext DEF SomeGo
<1>2. Open(w, n, A, B, C)
  BY OpenLess DEF Within
<1>3. \A k \in A, h \in B, e \in C : \E a : Becomes(w, n, k, h, e, a)
  BY DEF AllGo
<1> QED BY <1>1, <1>2, <1>3, OpenNext

LEMMA SpacesGo ==
  ASSUME NEW w, NEW n \in Nat, Possible(w, n, "spaces_before_uri")
  PROVE  /\ w[n + 1] = "sp" => Possible(w, n + 1, "spaces_before_uri")
         /\ w[n + 1] = "slash" => Possible(w, n + 1, "after_slash_in_uri")
         /\ w[n + 1] \in Letters => Possible(w, n + 1, "schema")
         /\ w[n + 1] \notin Letters \cup {"slash", "sp"} => NoneDue(w, n + 1)
<1>1. /\ "sp" \in Parts \cap Repeats /\ "path" \in Parts \ Repeats /\ "s1" \in Parts \ Repeats
      /\ Takes["sp"] = {"sp"} /\ Takes["path"] = {"slash"} /\ Takes["s1"] = Letters
      /\ {"sp", "slash"} \cap Letters = {}
  BY PartSorts, TakesAre DEF Letters, Upper
<1>2. \A h : /\ PartAt("spaces_before_uri", h) = "sp"
             /\ PartAt("after_slash_in_uri", h) = "uri" /\ PartAt("schema", h) = "s"
  BY PartAtIs DEF InUri
<1>3. \A k \in Kinds, h \in Forms, e \in Breaks :
        Due(w, n, k, h, e) \in {{}, From(NextPart(k, h, e), "sp")}
  BY <1>2 DEF Possible, InPart
<1>4. Open(w, n, Kinds, Forms, Breaks)
  BY DEF Possible, SomeOpen
<1>5. ASSUME NEW h \in Forms, NEW e \in Breaks
      PROVE  /\ w[n + 1] = "sp" => Becomes(w, n, "none", h, e, "sp")
             /\ w[n + 1] = "slash" => Becomes(w, n, "none", h, e, "uri")
             /\ w[n + 1] \notin {"sp", "slash"} => Closes(w, n, "none", h, e)
  <2>1. "none" \in Kinds
    BY DEF Kinds
  <2>2. NextPart("none", h, e)["sp"] = "path" /\ NextPart("none", h, e)["path"] = "uri"
    BY <2>1, NextIs
  <2> QED BY <1>1, <1>3, <2>1, <2>2, AfterTwo
<1>6. ASSUME NEW k \in {"host", "port"}, NEW h \in Forms, NEW e \in Breaks
      PROVE  /\ w[n + 1] = "sp" => Becomes(w, n, k, h, e, "sp")
             /\ w[n + 1] \in Letters => Becomes(w, n, k, h, e, "s")
             /\ w[n + 1] \notin {"sp"} \cup Letters => Closes(w, n, k, h, e)
  <2>1. k \in Kinds /\ k # "none"
    BY DEF Kinds
  <2>2. NextPart(k, h, e)["sp"] = "s1" /\ NextPart(k, h, e)["s1"] = "s"
    BY <2>1, NextIs
  <2> QED BY <1>1, <1>3, <2>1, <2>2, AfterTwo
<1>7. Kinds = {"none"} \cup {"host", "port"}
  BY DEF Kinds
<1>8. ASSUME w[n + 1] = "sp" PROVE Possible(w, n + 1, "spaces_before_uri")
  <2>1. SomeGo(w, n, "spaces_before_uri")
    BY <1>2, <1>5, <1>6, <1>7, <1>8 DEF SomeGo
  <2>2. AllGo(w, n, "spaces_before_uri", Kinds, Forms, Breaks)
    BY <1>2, <1>5, <1>6, <1>7, <1>8 DEF AllGo
  <2>3. Within(Kinds, Forms, Breaks, Kinds, Forms, Breaks)
    BY DEF Within, Kinds, Forms, Breaks
  <2>4. InPart(w, n + 1, "spaces_before_uri") /\ Open(w, n + 1, Kinds, Forms, Breaks)
    BY <1>4, <2>1, <2>2, <2>3, Parting
  <2> QED BY <2>4 DEF Possible, SomeOpen, InUri, InVersion, InHttp
<1>9. ASSUME w[n + 1] = "slash" PROVE Possible(w, n + 1, "after_slash_in_uri")
  <2>1. \A h \in Forms, e \in Breaks : Becomes(w, n, "none", h, e, PartAt("after_slash_in_uri", h))
    BY <1>2, <1>5, <1>9
  <2>2. \A k \in {"host", "port"}, h \in Forms, e \in Breaks : Closes(w, n, k, h, e)
    BY <1>1, <1>6, <1>9
  <2>3. SomeGo(w, n, "after_slash_in_uri")
    BY <1>7, <2>1, <2>2 DEF SomeGo
  <2>4. AllGo(w, n, "after_slash_in_uri", {"none"}, Forms, Breaks)
    BY <2>1 DEF AllGo
  <2>5. Within({"none"}, Forms, Breaks, Kinds, Forms, Breaks)
    BY DEF Within, Kinds, Forms, Breaks
  <2>6. InPart(w, n + 1, "after_slash_in_uri") /\ Open(w, n + 1, {"none"}, Forms, Breaks)
    BY <1>4, <2>3, <2>4, <2>5, Parting
  <2> QED BY <1>7, <2>6 DEF Possible, SomeOpen, InUri, InVersion, InHttp
<1>10. ASSUME w[n + 1] \in Letters PROVE Possible(w, n + 1, "schema")
  <2>1. \A k \in {"host", "port"}, h \in Forms, e \in Breaks :
          Becomes(w, n, k, h, e, PartAt("schema", h))
    BY <1>2, <1>6, <1>10
  <2>2. \A h \in Forms, e \in Breaks : Closes(w, n, "none", h, e)
    BY <1>1, <1>5, <1>10
  <2>3. SomeGo(w, n, "schema")
    BY <1>7, <2>1, <2>2 DEF SomeGo
  <2>4. AllGo(w, n, "schema", {"host", "port"}, Forms, Breaks)
    BY <2>1 DEF AllGo
  <2>5. Within({"host", "port"}, Forms, Breaks, Kinds, Forms, Breaks)
    BY DEF Within, Kinds, Forms, Breaks
  <2>6. InPart(w, n + 1, "schema") /\ Open(w, n + 1, {"host", "port"}, Forms, Breaks)
    BY <1>4, <2>3, <2>4, <2>5, Parting
  <2> QED BY <2>6 DEF Possible, SomeOpen, InUri, InVersion, InHttp
<1>11. w[n + 1] \notin Letters \cup {"slash", "sp"} => NoneDue(w, n + 1)
  BY <1>5, <1>6, <1>7, NoneDueNext
<1> QED BY <1>8, <1>9, <1>10, <1>11

\* In a whole URI.
LEMMA SchemaGoes ==
  ASSUME NEW w, NEW n \in Nat, Possible(w, n, "schema")
  PROVE  /\ w[n + 1] \in Letters => Possible(w, n + 1, "schema")
         /\ w[n + 1] = "colon" => Possible(w, n + 1, "schema_slash")
         /\ w[n + 1] \notin Letters \cup {"colon"} => NoneDue(w, n + 1)
<1>1. "s" \in Parts \cap Repeats /\ "colon" \in Parts \ Repeats
  BY PartSorts
<1>2. Takes["s"] = Letters /\ Takes["colon"] = {"colon"} /\ Letters \cap {"colon"} = {}
  BY TakesAre DEF Letters, Upper
<1> Takes["s"] \cap Takes["colon"] = {}
  BY <1>2
<1>3. IsAt("schema", "s") /\ IsAt("schema_slash", "sl1")
  BY PartAtIs DEF IsAt
<1>4. Leads("s", "colon") /\ Leads("colon", "sl1")
  BY NextFixed DEF Leads
<1>5. Alike("schema", "schema_slash")
  BY DEF Alike, SameOpen, InAuthority
<1>6. /\ w[n + 1] \in Takes["s"] => Possible(w, n + 1, "schema")
      /\ w[n + 1] \in Takes["colon"] => Possible(w, n + 1, "schema_slash")
      /\ w[n + 1] \notin Takes["s"] \cup Takes["colon"] => NoneDue(w, n + 1)
  BY <1>1, <1>3, <1>4, <1>5, TwoGo
<1> QED BY <1>2, <1>6

LEMMA SchemaSlashGoes ==
  ASSUME NEW w, NEW n \in Nat, Possible(w, n, "schema_slash")
  PROVE  /\ w[n + 1] = "slash" => Possible(w, n + 1, "schema_slash_slash")
         /\ w[n + 1] # "slash" => NoneDue(w, n + 1)
<1>1. "sl1" \in Parts \ Repeats
  BY PartSorts
<1>2. IsAt("schema_slash", "sl1") /\ IsAt("schema_slash_slash", "sl2")
  BY PartAtIs DEF IsAt
<1>3. Leads("sl1", "sl2")
  BY NextFixed DEF Leads
<1>4. Alike("schema_slash", "schema_slash_slash")
  BY DEF Alike, SameOpen, InAuthority
<1>5. /\ w[n + 1] \in Takes["sl1"] => Possible(w, n + 1, "schema_slash_slash")
      /\ w[n + 1] \notin Takes["sl1"] => NoneDue(w, n + 1)
  BY <1>1, <1>2, <1>3, <1>4, OneGoes
<1> QED BY <1>5, TakesAre

LEMMA SchemaSlashSlashGoes ==
  ASSUME NEW w, NEW n \in Nat, Possible(w, n, "schema_slash_slash")
  PROVE  /\ w[n + 1] = "slash" => Possible(w, n + 1, "host")
         /\ w[n + 1] # "slash" => NoneDue(w, n + 1)
<1>1. "sl2" \in Parts \ Repeats
  BY PartSorts
<1>2. IsAt("schema_slash_slash", "sl2") /\ IsAt("host", "host")
  BY PartAtIs DEF IsAt
<1>3. Leads("sl2", "host")
  BY NextFixed DEF Leads
<1>4. Alike("schema_slash_slash", "host")
  BY DEF Alike, SameOpen, InAuthority
<1>5. /\ w[n + 1] \in Takes["sl2"] => Possible(w, n + 1, "host")
      /\ w[n + 1] \notin Takes["sl2"] => NoneDue(w, n + 1)
  BY <1>1, <1>2, <1>3, <1>4, OneGoes
<1> QED BY <1>5, TakesAre

LEMMA HostGoes ==
  ASSUME NEW w, NEW n \in Nat, Possible(w, n, "host")
  PROVE  /\ w[n + 1] \in HostBytes => Possible(w, n + 1, "host")
         /\ w[n + 1] = "colon" => Possible(w, n + 1, "port")
         /\ w[n + 1] = "slash" => Possible(w, n + 1, "after_slash_in_uri")
         /\ w[n + 1] \notin HostBytes \cup {"colon", "slash"} => NoneDue(w, n + 1)
<1>1. /\ "host" \in Parts \cap Repeats /\ "path" \in Parts \ Repeats /\ "colon2" \in Parts \ Repeats
      /\ Takes["host"] = HostBytes /\ Takes["path"] = {"slash"} /\ Takes["colon2"] = {"colon"}
      /\ {"colon", "slash"} \cap HostBytes = {}
  BY PartSorts, TakesAre DEF HostBytes, Letters, Upper, Digits
<1>2. \A h : /\ PartAt("host", h) = "host" /\ PartAt("port", h) = "port"
             /\ PartAt("after_slash_in_uri", h) = "uri"
  BY PartAtIs DEF InUri
<1>3. \A k \in Kinds, h \in Forms, e \in Breaks :
        Due(w, n, k, h, e) \in {{}, From(NextPart(k, h, e), "host")}
  BY <1>2 DEF Possible, InPart
<1>4. Open(w, n, {"host", "port"}, Forms, Breaks)
  BY DEF Possible, SomeOpen
<1>5. ASSUME NEW h \in Forms, NEW e \in Breaks
      PROVE  /\ w[n + 1] \in HostBytes => Becomes(w, n, "host", h, e, "host")
             /\ w[n + 1] = "slash" => Becomes(w, n, "host", h, e, "uri")
             /\ w[n + 1] \notin HostBytes \cup {"slash"} => Closes(w, n, "host", h, e)
  <2>1. "host" \in Kinds
    BY DEF Kinds
  <2>2. NextPart("host", h, e)["host"] = "path" /\ NextPart("host", h, e)["path"] = "uri"
    BY <2>1, NextIs
  <2> QED BY <1>1, <1>3, <2>1, <2>2, AfterTwo
<1>6. ASSUME NEW k \in {"none", "port"}, NEW h \in Forms, NEW e \in Breaks
      PROVE  /\ w[n + 1] \in HostBytes => Becomes(w, n, k, h, e, "host")
             /\ w[n + 1] = "colon" => Becomes(w, n, k, h, e, "port")
             /\ w[n + 1] \notin HostBytes \cup {"colon"} => Closes(w, n, k, h, e)
  <2>1. k \in Kinds /\ k # "host"
    BY DEF Kinds
  <2>2. NextPart(k, h, e)["host"] = "colon2" /\ NextPart(k, h, e)["colon2"] = "port"
    BY <2>1, NextIs
  <2> QED BY <1>1, <1>3, <2>1, <2>2, AfterTwo
<1>7. Kinds = {"host"} \cup {"none", "port"}
  BY DEF Kinds
<1>8. ASSUME w[n + 1] \in HostBytes PROVE Possible(w, n + 1, "host")
  <2>1. \A k \in Kinds, h \in Forms, e \in Breaks : Becomes(w, n, k, h, e, PartAt("host", h))
    BY <1>2, <1>5, <1>6, <1>7, <1>8
  <2>2. SomeGo(w, n, "host")
    BY <2>1 DEF SomeGo
  <2>3. AllGo(w, n, "host", {"host", "port"}, Forms, Breaks)
    BY <1>7, <2>1 DEF AllGo
  <2>4. Within({"host", "port"}, Forms, Breaks, {"host", "port"}, Forms, Breaks)
    BY DEF Within, Kinds, Forms, Breaks
  <2>5. InPart(w, n + 1, "host") /\ Open(w, n + 1, {"host", "port"}, Forms, Breaks)
    BY <1>4, <2>2, <2>3, <2>4, Parting
  <2> QED BY <2>5 DEF Possible, SomeOpen, InUri, InVersion, InHttp
<1>9. ASSUME w[n + 1] = "slash" PROVE Possible(w, n + 1, "after_slash_in_uri")
  <2>1. \A h \in Forms, e \in Breaks : Becomes(w, n, "host", h, e, PartAt("after_slash_in_uri", h))
    BY <1>2, <1>5, <1>9
  <2>2. \A k \in {"none", "port"}, h \in Forms, e \in Breaks : Closes(w, n, k, h, e)
    BY <1>1, <1>6, <1>9
  <2>3. SomeGo(w, n, "after_slash_in_uri")
    BY <1>7, <2>1, <2>2 DEF SomeGo
  <2>4. AllGo(w, n, "after_slash_in_uri", {"host"}, Forms, Breaks)
    BY <2>1 DEF AllGo
  <2>5. Within({"host"}, Forms, Breaks, {"host", "port"}, Forms, Breaks)
    BY DEF Within, Kinds, Forms, Breaks
  <2>6. InPart(w, n + 1, "after_slash_in_uri") /\ Open(w, n + 1, {"host"}, Forms, Breaks)
    BY <1>4, <2>3, <2>4, <2>5, Parting
  <2> QED BY <1>7, <2>6 DEF Possible, SomeOpen, InUri, InVersion, InHttp
<1>10. ASSUME w[n + 1] = "colon" PROVE Possible(w, n + 1, "port")
  <2>1. \A k \in {"none", "port"}, h \in Forms, e \in Breaks :
          Becomes(w, n, k, h, e, PartAt("port", h))
    BY <1>2, <1>6, <1>10
  <2>2. \A h \in Forms, e \in Breaks : Closes(w, n, "host", h, e)
    BY <1>1, <1>5, <1>10
  <2>3. SomeGo(w, n, "port")
    BY <1>7, <2>1, <2>2 DEF SomeGo
  <2>4. AllGo(w, n, "port", {"port"}, Forms, Breaks)
    BY <2>1 DEF AllGo
  <2>5. Within({"port"}, Forms, Breaks, {"host", "port"}, Forms, Breaks)
    BY DEF Within, Kinds, Forms, Breaks
  <2>6. InPart(w, n + 1, "port") /\ Open(w, n + 1, {"port"}, Forms, Breaks)
    BY <1>4, <2>3, <2>4, <2>5, Parting
  <2> QED BY <2>6 DEF Possible, SomeOpen, InUri, InVersion, InHttp
<1>11. w[n + 1] \notin HostBytes \cup {"colon", "slash"} => NoneDue(w, n + 1)
  BY <1>5, <1>6, <1>7, NoneDueNext
<1> QED BY <1>8, <1>9, <1>10, <1>11

LEMMA PortGoes ==
  ASSUME NEW w, NEW n \in Nat, Possible(w, n, "port"), w[n + 1] \in Bytes
  PROVE  /\ w[n + 1] = "slash" => Possible(w, n + 1, "after_slash_in_uri")
         /\ w[n + 1] # "slash" => Possible(w, n + 1, "port")
<1>1. /\ "port" \in Parts \cap Repeats /\ "path" \in Parts \ Repeats
      /\ Takes["port"] = Bytes \ {"slash"} /\ Takes["path"] = {"slash"}
  BY PartSorts, TakesAre
<1>2. \A h : PartAt("port", h) = "port" /\ PartAt("after_slash_in_uri", h) = "uri"
  BY PartAtIs DEF InUri
<1>3. Open(w, n, {"port"}, Forms, Breaks)
  BY DEF Possible, SomeOpen
<1>4. ASSUME NEW k \in Kinds, NEW h \in Forms, NEW e \in Breaks
      PROVE  /\ w[n + 1] = "slash" => Becomes(w, n, k, h, e, "uri")
             /\ w[n + 1] # "slash" => Becomes(w, n, k, h, e, "port")
  <2>1. Due(w, n, k, h, e) \in {{}, From(NextPart(k, h, e), "port")}
    BY <1>2 DEF Possible, InPart
  <2>2. NextPart(k, h, e)["port"] = "path" /\ NextPart(k, h, e)["path"] = "uri"
    BY NextFixed
  <2> QED BY <1>1, <2>1, <2>2, AfterTwo
<1>5. "port" \in Kinds
  BY DEF Kinds
<1>6. ASSUME w[n + 1] = "slash" PROVE Possible(w, n + 1, "after_slash_in_uri")
  <2>1. \A k \in Kinds, h \in Forms, e \in Breaks :
          Becomes(w, n, k, h, e, PartAt("after_slash_in_uri", h))
    BY <1>2, <1>4, <1>6
  <2>2. SomeGo(w, n, "after_slash_in_uri")
    BY <2>1 DEF SomeGo
  <2>3. AllGo(w, n, "after_slash_in_uri", {"port"}, Forms, Breaks)
    BY <1>5, <2>1 DEF AllGo
  <2>4. Within({"port"}, Forms, Breaks, {"port"}, Forms, Breaks)
    BY DEF Within, Kinds, Forms, Breaks
  <2>5. InPart(w, n + 1, "after_slash_in_uri") /\ Open(w, n + 1, {"port"}, Forms, Breaks)
    BY <1>3, <2>2, <2>3, <2>4, Parting
  <2> QED BY <1>5, <2>5 DEF Possible, SomeOpen, InUri, InVersion, InHttp
<1>7. ASSUME w[n + 1] # "slash" PROVE Possible(w, n + 1, "port")
  <2>1. \A k \in Kinds, h \in Forms, e \in Breaks : Becomes(w, n, k, h, e, PartAt("port", h))
    BY <1>2, <1>4, <1>7
  <2>2. SomeGo(w, n, "port")
    BY <2>1 DEF SomeGo
  <2>3. AllGo(w, n, "port", {"port"}, Forms, Breaks)
    BY <1>5, <2>1 DEF AllGo
  <2>4. Within({"port"}, Forms, Breaks, {"port"}, Forms, Breaks)
    BY DEF Within, Kinds, Forms, Breaks
  <2>5. InPart(w, n + 1, "port") /\ Open(w, n + 1, {"port"}, Forms, Breaks)
    BY <1>3, <2>2, <2>3, <2>4, Parting
  <2> QED BY <2>5 DEF Possible, SomeOpen, InUri, InVersion, InHttp
<1> QED BY <1>6, <1>7

\* In the version.
LEMMA HGoes ==
  ASSUME NEW w, NEW n \in Nat, Possible(w, n, "http_H")
  PROVE  /\ w[n + 1] = "T" => Possible(w, n + 1, "http_HT")
         /\ w[n + 1] # "T" => NoneDue(w, n + 1)
<1>1. "T1" \in Parts \ Repeats
  BY PartSorts
<1>2. IsAt("http_H", "T1") /\ IsAt("http_HT", "T2")
  BY PartAtIs DEF IsAt
<1>3. Leads("T1", "T2") /\ Alike("http_H", "http_HT")
  BY NextFixed DEF Leads, Alike, SameOpen, InVersion, InHttp
<1>4. /\ w[n + 1] \in Takes["T1"] => Possible(w, n + 1, "http_HT")
      /\ w[n + 1] \notin Takes["T1"] => NoneDue(w, n + 1)
  BY <1>1, <1>2, <1>3, OneGoes
<1> QED BY <1>4, TakesAre

LEMMA HTGoes ==
  ASSUME NEW w, NEW n \in Nat, Possible(w, n, "http_HT")
  PROVE  /\ w[n + 1] = "T" => Possible(w, n + 1, "http_HTT")
         /\ w[n + 1] # "T" => NoneDue(w, n + 1)
<1>1. "T2" \in Parts \ Repeats
  BY PartSorts
<1>2. IsAt("http_HT", "T2") /\ IsAt("http_HTT", "P")
  BY PartAtIs DEF IsAt
<1>3. Leads("T2", "P") /\ Alike("http_HT", "http_HTT")
  BY NextFixed DEF Leads, Alike, SameOpen, InVersion, InHttp
<1>4. /\ w[n + 1] \in Takes["T2"] => Possible(w, n + 1, "http_HTT")
      /\ w[n + 1] \notin Takes["T2"] => NoneDue(w, n + 1)
  BY <1>1, <1>2, <1>3, OneGoes
<1> QED BY <1>4, TakesAre

LEMMA HTTGoes ==
  ASSUME NEW w, NEW n \in Nat, Possible(w, n, "http_HTT")
  PROVE  /\ w[n + 1] = "P" => Possible(w, n + 1, "http_HTTP")
         /\ w[n + 1] # "P" => NoneDue(w, n + 1)
<1>1. "P" \in Parts \ Repeats
  BY PartSorts
<1>2. IsAt("http_HTT", "P") /\ IsAt("http_HTTP", "sl3")
  BY PartAtIs DEF IsAt
<1>3. Leads("P", "sl3") /\ Alike("http_HTT", "http_HTTP")
  BY NextFixed DEF Leads, Alike, SameOpen, InVersion, InHttp
<1>4. /\ w[n + 1] \in Takes["P"] => Possible(w, n + 1, "http_HTTP")
      /\ w[n + 1] \notin Takes["P"] => NoneDue(w, n + 1)
  BY <1>1, <1>2, <1>3, OneGoes
<1> QED BY <1>4, TakesAre

LEMMA HTTPGoes ==
  ASSUME NEW w, NEW n \in Nat, Possible(w, n, "http_HTTP")
  PROVE  /\ w[n + 1] = "slash" => Possible(w, n + 1, "first_major_digit")
         /\ w[n + 1] # "slash" => NoneDue(w, n + 1)
<1>1. "sl3" \in Parts \ Repeats
  BY PartSorts
<1>2. IsAt("http_HTTP", "sl3") /\ IsAt("first_major_digit", "d1")
  BY PartAtIs DEF IsAt
<1>3. Leads("sl3", "d1") /\ Alike("http_HTTP", "first_major_digit")
  BY NextFixed DEF Leads, Alike, SameOpen, InVersion, InHttp
<1>4. /\ w[n + 1] \in Takes["sl3"] => Possible(w, n + 1, "first_major_digit")
      /\ w[n + 1] \notin Takes["sl3"] => NoneDue(w, n + 1)
  BY <1>1, <1>2, <1>3, OneGoes
<1> QED BY <1>4, TakesAre

LEMMA FirstMajorGoes ==
  ASSUME NEW w, NEW n \in Nat, Possible(w, n, "first_major_digit")
  PROVE  /\ w[n + 1] = "digit" => Possible(w, n + 1, "major_digit")
         /\ w[n + 1] # "digit" => NoneDue(w, n + 1)
<1>1. "d1" \in Parts \ Repeats
  BY PartSorts
<1>2. IsAt("first_major_digit", "d1") /\ IsAt("major_digit", "d")
  BY PartAtIs DEF IsAt
<1>3. Leads("d1", "d") /\ Alike("first_major_digit", "major_digit")
  BY NextFixed DEF Leads, Alike, SameOpen, InVersion, InHttp
<1>4. /\ w[n + 1] \in Takes["d1"] => Possible(w, n + 1, "major_digit")
      /\ w[n + 1] \notin Takes["d1"] => NoneDue(w, n + 1)
  BY <1>1, <1>2, <1>3, OneGoes
<1> QED BY <1>4, TakesAre

LEMMA MajorGoes ==
  ASSUME NEW w, NEW n \in Nat, Possible(w, n, "major_digit")
  PROVE  /\ w[n + 1] \in Digits => Possible(w, n + 1, "major_digit")
         /\ w[n + 1] = "dot" => Possible(w, n + 1, "first_minor_digit")
         /\ w[n + 1] \notin Digits \cup {"dot"} => NoneDue(w, n + 1)
<1>1. "d" \in Parts \cap Repeats /\ "dot" \in Parts \ Repeats
  BY PartSorts
<1>2. Takes["d"] = Digits /\ Takes["dot"] = {"dot"} /\ Digits \cap {"dot"} = {}
  BY TakesAre DEF Digits
<1> Takes["d"] \cap Takes["dot"] = {}
  BY <1>2
<1>3. IsAt("major_digit", "d") /\ IsAt("first_minor_digit", "n1")
  BY PartAtIs DEF IsAt
<1>4. Leads("d", "dot") /\ Leads("dot", "n1")
  BY NextFixed DEF Leads
<1>5. Alike("major_digit", "first_minor_digit")
  BY DEF Alike, SameOpen, InVersion, InHttp
<1>6. /\ w[n + 1] \in Takes["d"] => Possible(w, n + 1, "major_digit")
      /\ w[n + 1] \in Takes["dot"] => Possible(w, n + 1, "first_minor_digit")
      /\ w[n + 1] \notin Takes["d"] \cup Takes["dot"] => NoneDue(w, n + 1)
  BY <1>1, <1>3, <1>4, <1>5, TwoGo
<1> QED BY <1>2, <1>6

LEMMA FirstMinorGoes ==
  ASSUME NEW w, NEW n \in Nat, Possible(w, n, "first_minor_digit")
  PROVE  /\ w[n + 1] \in Digits => Possible(w, n + 1, "minor_digit")
         /\ w[n + 1] \notin Digits => NoneDue(w, n + 1)
<1>1. "n1" \in Parts \ Repeats
  BY PartSorts
<1>2. IsAt("first_minor_digit", "n1") /\ IsAt("minor_digit", "n")
  BY PartAtIs DEF IsAt
<1>3. Leads("n1", "n") /\ Alike("first_minor_digit", "minor_digit")
  BY NextFixed DEF Leads, Alike, SameOpen, InVersion, InHttp
<1>4. /\ w[n + 1] \in Takes["n1"] => Possible(w, n + 1, "minor_digit")
      /\ w[n + 1] \notin Takes["n1"] => NoneDue(w, n + 1)
  BY <1>1, <1>2, <1>3, OneGoes
<1> QED BY <1>4, TakesAre

\* To the end of the line.
LEMMA BreaksAre ==
  ASSUME NEW k \in Kinds, NEW h \in Forms, NEW F
  PROVE  /\ F = NextPart(k, h, "lf") => F["n"] = "lf" /\ F["pad"] = "lf" /\ F["lf"] = "end"
         /\ F = NextPart(k, h, "crlf") => F["n"] = "cr" /\ F["pad"] = "cr" /\ F["cr"] = "lf"
         /\ "lf" \in Breaks /\ "crlf" \in Breaks /\ Breaks = {"lf", "crlf"}
<1>1. "lf" \in Breaks /\ "crlf" \in Breaks /\ Breaks = {"lf", "crlf"}
  BY DEF Breaks
<1> QED BY <1>1, NextIs

LEMMA MinorGoes ==
  ASSUME NEW w, NEW n \in Nat, Possible(w, n, "minor_digit")
  PROVE  /\ w[n + 1] \in Digits => Possible(w, n + 1, "minor_digit")
         /\ w[n + 1] = "cr" => Possible(w, n + 1, "almost_done")
         /\ w[n + 1] = "lf" => Possible(w, n + 1, "done")
         /\ w[n + 1] \notin Digits \cup Eol => NoneDue(w, n + 1)
<1>1. /\ "n" \in Parts \cap Repeats /\ "cr" \in Parts \ Repeats /\ "lf" \in Parts \ Repeats
      /\ Takes["n"] = Digits /\ Takes["cr"] = {"cr"} /\ Takes["lf"] = {"lf"}
      /\ {"cr", "lf"} \cap Digits = {} /\ Eol = {"cr", "lf"}
  BY PartSorts, TakesAre DEF Digits, Eol
<1>2. \A h : /\ PartAt("minor_digit", h) = "n" /\ PartAt("almost_done", h) = "lf"
             /\ PartAt("done", h) = "end"
  BY PartAtIs
<1>3. \A k \in Kinds, h \in Forms, e \in Breaks :
        Due(w, n, k, h, e) \in {{}, From(NextPart(k, h, e), "n")}
  BY <1>2 DEF Possible, InPart
<1>4. PICK k1 \in Kinds : Open(w, n, {k1}, {"version"}, Breaks)
  BY DEF Possible, SomeOpen, InVersion
<1>5. ASSUME NEW k \in Kinds, NEW h \in Forms
      PROVE  /\ w[n + 1] \in Digits => Becomes(w, n, k, h, "lf", "n")
             /\ w[n + 1] = "lf" => Becomes(w, n, k, h, "lf", "end")
             /\ w[n + 1] \notin Digits \cup {"lf"} => Closes(w, n, k, h, "lf")
  BY <1>1, <1>3, BreaksAre, AfterTwo
<1>6. ASSUME NEW k \in Kinds, NEW h \in Forms
      PROVE  /\ w[n + 1] \in Digits => Becomes(w, n, k, h, "crlf", "n")
             /\ w[n + 1] = "cr" => Becomes(w, n, k, h, "crlf", "lf")
             /\ w[n + 1] \notin Digits \cup {"cr"} => Closes(w, n, k, h, "crlf")
  BY <1>1, <1>3, BreaksAre, AfterTwo
<1>7. Breaks = {"lf", "crlf"} /\ "version" \in Forms
  BY DEF Breaks, Forms
<1>8. ASSUME w[n + 1] \in Digits PROVE Possible(w, n + 1, "minor_digit")
  <2>1. \A k \in Kinds, h \in Forms, e \in Breaks : Becomes(w, n, k, h, e, PartAt("minor_digit", h))
    BY <1>2, <1>5, <1>6, <1>7, <1>8
  <2>2. SomeGo(w, n, "minor_digit")
    BY <2>1 DEF SomeGo
  <2>3. AllGo(w, n, "minor_digit", {k1}, {"version"}, Breaks)
    BY <1>7, <2>1 DEF AllGo
  <2>4. Within({k1}, {"version"}, Breaks, {k1}, {"version"}, Breaks)
    BY DEF Within, Kinds, Forms, Breaks
  <2>5. InPart(w, n + 1, "minor_digit") /\ Open(w, n + 1, {k1}, {"version"}, Breaks)
    BY <1>4, <2>2, <2>3, <2>4, Parting
  <2> QED BY <2>5 DEF Possible, SomeOpen, InUri, InVersion, InHttp
<1>9. ASSUME w[n + 1] = "cr" PROVE Possible(w, n + 1, "almost_done")
  <2>1. /\ \A k \in Kinds, h \in Forms : Becomes(w, n, k, h, "crlf", PartAt("almost_done", h))
        /\ \A k \in Kinds, h \in Forms : Closes(w, n, k, h, "lf")
    BY <1>1, <1>2, <1>5, <1>6, <1>9
  <2>2. SomeGo(w, n, "almost_done")
    BY <1>7, <2>1 DEF SomeGo
  <2>3. AllGo(w, n, "almost_done", {k1}, {"version"}, {"crlf"})
    BY <1>7, <2>1 DEF AllGo
  <2>4. Within({k1}, {"version"}, {"crlf"}, {k1}, {"version"}, Breaks)
    BY DEF Within, Kinds, Forms, Breaks
  <2>5. InPart(w, n + 1, "almost_done") /\ Open(w, n + 1, {k1}, {"version"}, {"crlf"})
    BY <1>4, <2>2, <2>3, <2>4, Parting
  <2> QED BY <1>7, <2>5 DEF Possible, SomeOpen, InUri, InVersion, InHttp
<1>10. ASSUME w[n + 1] = "lf" PROVE Possible(w, n + 1, "done")
  <2>1. /\ \A k \in Kinds, h \in Forms : Becomes(w, n, k, h, "lf", PartAt("done", h))
        /\ \A k \in Kinds, h \in Forms : Closes(w, n, k, h, "crlf")
    BY <1>1, <1>2, <1>5, <1>6, <1>10
  <2>2. SomeGo(w, n, "done")
    BY <1>7, <2>1 DEF SomeGo
  <2>3. AllGo(w, n, "done", {k1}, {"version"}, {"lf"})
    BY <1>7, <2>1 DEF AllGo
  <2>4. Within({k1}, {"version"}, {"lf"}, {k1}, {"version"}, Breaks)
    BY DEF Within, Kinds, Forms, Breaks
  <2>5. InPart(w, n + 1, "done") /\ Open(w, n + 1, {k1}, {"version"}, {"lf"})
    BY <1>4, <2>2, <2>3, <2>4, Parting
  <2> QED BY <1>7, <2>5 DEF Possible, SomeOpen, InUri, InVersion, InHttp
<1>11. w[n + 1] \notin Digits \cup Eol => NoneDue(w, n + 1)
  BY <1>1, <1>5, <1>6, <1>7, NoneDueNext
<1> QED BY <1>8, <1>9, <1>10, <1>11

LEMMA AlmostDoneGoes ==
  ASSUME NEW w, NEW n \in Nat, Possible(w, n, "almost_done")
  PROVE  /\ w[n + 1] = "lf" => Possible(w, n + 1, "done")
         /\ w[n + 1] # "lf" => NoneDue(w, n + 1)
<1>1. "lf" \in Parts \ Repeats /\ Takes["lf"] = {"lf"}
  BY PartSorts, TakesAre
<1>2. \A h : PartAt("almost_done", h) = "lf" /\ PartAt("done", h) = "end"
  BY PartAtIs
<1>3. ASSUME NEW k \in Kinds, NEW h \in Forms, NEW e \in Breaks
      PROVE  /\ w[n + 1] = "lf" => Becomes(w, n, k, h, e, "end")
             /\ w[n + 1] # "lf" => Closes(w, n, k, h, e)
  <2>1. Due(w, n, k, h, e) \in {{}, From(NextPart(k, h, e), "lf")}
    BY <1>2 DEF Possible, InPart
  <2>2. NextPart(k, h, e)["lf"] = "end"
    BY NextFixed
  <2> QED BY <1>1, <2>1, <2>2, AfterOne
<1>4. PICK k1 \in Kinds, h1 \in Forms : Open(w, n, {k1}, {h1}, {"crlf"})
  BY DEF Possible, SomeOpen
<1>5. ASSUME w[n + 1] = "lf" PROVE Possible(w, n + 1, "done")
  <2>1. \A k \in Kinds, h \in Forms, e \in Breaks : Becomes(w, n, k, h, e, PartAt("done", h))
    BY <1>2, <1>3, <1>5
  <2>2. "crlf" \in Breaks
    BY DEF Breaks
  <2>3. SomeGo(w, n, "done")
    BY <2>1 DEF SomeGo
  <2>4. AllGo(w, n, "done", {k1}, {h1}, {"crlf"})
    BY <2>1, <2>2 DEF AllGo
  <2>5. Within({k1}, {h1}, {"crlf"}, {k1}, {h1}, {"crlf"})
    BY DEF Within, Kinds, Forms, Breaks
  <2>6. InPart(w, n + 1, "done") /\ Open(w, n + 1, {k1}, {h1}, {"crlf"})
    BY <1>4, <2>3, <2>4, <2>5, Parting
  <2> QED BY <2>2, <2>6 DEF Possible, SomeOpen, InUri, InVersion, InHttp
<1>6. w[n + 1] # "lf" => NoneDue(w, n + 1)
  BY <1>3, NoneDueNext
<1> QED BY <1>5, <1>6

LEMMA DoneGoes ==
  ASSUME NEW w, NEW n \in Nat, Possible(w, n, "done")
  PROVE  NoneDue(w, n + 1)
<1>1. ASSUME NEW k \in Kinds, NEW h \in Forms, NEW e \in Breaks
      PROVE  Closes(w, n, k, h, e)
  <2>1. Due(w, n, k, h, e) \in {{}, From(NextPart(k, h, e), "end")}
    BY PartAtIs DEF Possible, InPart
  <2>2. From(NextPart(k, h, e), "end") = {"end"}
    BY EndIsNoPart DEF From
  <2>3. Onward(NextPart(k, h, e), {"end"}, w[n + 1]) = {}
    BY OnwardNone
  <2> QED BY <2>1, <2>2, <2>3, DueAfter
<1> QED BY <1>1, NoneDueNext

\* In the target, and behind it: lines of both forms are open.
LEMMA OldAndVersion ==
  ASSUME NEW w, NEW n \in Nat, NEW s, IsAt(s, "uri"), Possible(w, n, s)
  PROVE  /\ \A k \in Kinds, e \in Breaks : LET c == NextPart(k, "old", e)["pad"] IN
              /\ w[n + 1] \in Takes["uri"] => Becomes(w, n, k, "old", e, "uri")
              /\ w[n + 1] = "sp" => Becomes(w, n, k, "old", e, "pad")
              /\ w[n + 1] \in Takes[c] =>
                   Becomes(w, n, k, "old", e, NextPart(k, "old", e)[c])
              /\ w[n + 1] \notin Takes["uri"] \cup {"sp"} \cup Takes[c] =>
                   Closes(w, n, k, "old", e)
         /\ \A k \in Kinds, e \in Breaks :
              /\ w[n + 1] \in Takes["uri"] => Becomes(w, n, k, "version", e, "uri")
              /\ w[n + 1] = "sp" => Becomes(w, n, k, "version", e, "v")
              /\ w[n + 1] \notin Takes["uri"] \cup {"sp"} => Closes(w, n, k, "version", e)
<1>1. /\ "uri" \in Parts \cap Repeats /\ "pad" \in Parts \cap Repeats
      /\ "v1" \in Parts \ Repeats /\ "cr" \in Parts \ Repeats /\ "lf" \in Parts \ Repeats
      /\ Takes["pad"] = {"sp"} /\ Takes["v1"] = {"sp"}
      /\ Takes["uri"] \cap {"sp"} = {} /\ "old" \in Forms /\ "version" \in Forms
      /\ \A c \in {"cr", "lf"} : Takes["uri"] \cap Takes[c] = {} /\ {"sp"} \cap Takes[c] = {}
  BY PartSorts, TakesAre DEF EndBytes, Eol, Forms
<1>2. \A k \in Kinds, h \in Forms, e \in Breaks :
        Due(w, n, k, h, e) \in {{}, From(NextPart(k, h, e), "uri")}
  BY DEF Possible, InPart, IsAt
<1>3. ASSUME NEW k \in Kinds, NEW e \in Breaks, NEW c, c = NextPart(k, "old", e)["pad"]
      PROVE  /\ w[n + 1] \in Takes["uri"] => Becomes(w, n, k, "old", e, "uri")
             /\ w[n + 1] = "sp" => Becomes(w, n, k, "old", e, "pad")
             /\ w[n + 1] \in Takes[c] => Becomes(w, n, k, "old", e, NextPart(k, "old", e)[c])
             /\ w[n + 1] \notin Takes["uri"] \cup {"sp"} \cup Takes[c] =>
                  Closes(w, n, k, "old", e)
  <2>1. c \in {"cr", "lf"} /\ NextPart(k, "old", e)["uri"] = "pad"
    BY <1>1, <1>3, NextIs
  <2>2. c \in Parts \ Repeats
    BY <1>1, <2>1
  <2> QED BY <1>1, <1>2, <1>3, <2>1, <2>2, AfterThree
<1>4. ASSUME NEW k \in Kinds, NEW e \in Breaks
      PROVE  /\ w[n + 1] \in Takes["uri"] => Becomes(w, n, k, "version", e, "uri")
             /\ w[n + 1] = "sp" => Becomes(w, n, k, "version", e, "v")
             /\ w[n + 1] \notin Takes["uri"] \cup {"sp"} => Closes(w, n, k, "version", e)
  <2>1. NextPart(k, "version", e)["uri"] = "v1" /\ NextPart(k, "version", e)["v1"] = "v"
    BY <1>1, NextIs
  <2> QED BY <1>1, <1>2, <2>1, AfterTwo
<1> QED BY <1>3, <1>4

\* An end of line at which lines of the old form go on.
LEMMA OldEnds ==
  ASSUME NEW w, NEW n, NEW k1 \in Kinds, Open(w, n, {k1}, Forms, Breaks),
         \A k \in Kinds, e \in Breaks : Closes(w, n, k, "version", e)
  PROVE  /\ /\ \A k \in Kinds : Becomes(w, n, k, "old", "crlf", "lf")
            /\ \A k \in Kinds : Closes(w, n, k, "old", "lf")
            => Possible(w, n + 1, "almost_done")
         /\ /\ \A k \in Kinds : Becomes(w, n, k, "old", "lf", "end")
            /\ \A k \in Kinds : Closes(w, n, k, "old", "crlf")
            => Possible(w, n + 1, "done")
<1>1. \A h : PartAt("almost_done", h) = "lf" /\ PartAt("done", h) = "end"
  BY PartAtIs
<1>2. Breaks = {"lf", "crlf"} /\ Forms = {"old", "version"}
  BY DEF Breaks, Forms
<1>3. ASSUME \A k \in Kinds : Becomes(w, n, k, "old", "crlf", "lf"),
             \A k \in Kinds : Closes(w, n, k, "old", "lf")
      PROVE  Possible(w, n + 1, "almost_done")
  <2>1. SomeGo(w, n, "almost_done")
    BY <1>1, <1>2, <1>3 DEF SomeGo
  <2>2. AllGo(w, n, "almost_done", {k1}, {"old"}, {"crlf"})
    BY <1>1, <1>3 DEF AllGo
  <2>3. Within({k1}, {"old"}, {"crlf"}, {k1}, Forms, Breaks)
    BY DEF Within, Kinds, Forms, Breaks
  <2>4. InPart(w, n + 1, "almost_done") /\ Open(w, n + 1, {k1}, {"old"}, {"crlf"})
    BY <2>1, <2>2, <2>3, Parting
  <2> QED BY <1>2, <2>4 DEF Possible, SomeOpen, InUri, InVersion, InHttp
<1>4. ASSUME \A k \in Kinds : Becomes(w, n, k, "old", "lf", "end"),
             \A k \in Kinds : Closes(w, n, k, "old", "crlf")
      PROVE  Possible(w, n + 1, "done")
  <2>1. SomeGo(w, n, "done")
    BY <1>1, <1>2, <1>4 DEF SomeGo
  <2>2. AllGo(w, n, "done", {k1}, {"old"}, {"lf"})
    BY <1>1, <1>4 DEF AllGo
  <2>3. Within({k1}, {"old"}, {"lf"}, {k1}, Forms, Breaks)
    BY DEF Within, Kinds, Forms, Breaks
  <2>4. InPart(w, n + 1, "done") /\ Open(w, n + 1, {k1}, {"old"}, {"lf"})
    BY <2>1, <2>2, <2>3, Parting
  <2> QED BY <1>2, <2>4 DEF Possible, SomeOpen, InUri, InVersion, InHttp
<1> QED BY <1>3, <1>4

LEMMA UriGoes ==
  ASSUME NEW w, NEW n \in Nat, NEW s \in InUri, Possible(w, n, s), w[n + 1] \in Bytes
  PROVE  /\ w[n + 1] \notin EndBytes => \A t \in InUri : Possible(w, n + 1, t)
         /\ w[n + 1] = "sp" => Possible(w, n + 1, "http_09")
         /\ w[n + 1] = "cr" => Possible(w, n + 1, "almost_done")
         /\ w[n + 1] = "lf" => Possible(w, n + 1, "done")
<1>1. IsAt(s, "uri")
  BY PartAtIs DEF IsAt
<1>2. PICK k1 \in Kinds : Open(w, n, {k1}, Forms, Breaks)
  BY DEF Possible, SomeOpen
<1>3. /\ Takes["uri"] = Bytes \ EndBytes /\ EndBytes = {"cr", "lf", "sp"}
      /\ Takes["cr"] = {"cr"} /\ Takes["lf"] = {"lf"} /\ Forms = {"old", "version"}
      /\ Breaks = {"lf", "crlf"} /\ "old" \in Forms
  BY TakesAre DEF EndBytes, Eol, Forms, Breaks
<1>4. \A k \in Kinds :
        /\ NextPart(k, "old", "lf")["pad"] = "lf" /\ NextPart(k, "old", "lf")["lf"] = "end"
        /\ NextPart(k, "old", "crlf")["pad"] = "cr" /\ NextPart(k, "old", "crlf")["cr"] = "lf"
  BY <1>3, BreaksAre
<1>5. \A k \in Kinds :
        /\ w[n + 1] \in Takes["uri"] =>
             Becomes(w, n, k, "old", "lf", "uri") /\ Becomes(w, n, k, "old", "crlf", "uri")
        /\ w[n + 1] = "sp" =>
             Becomes(w, n, k, "old", "lf", "pad") /\ Becomes(w, n, k, "old", "crlf", "pad")
        /\ w[n + 1] = "lf" =>
             Becomes(w, n, k, "old", "lf", "end") /\ Closes(w, n, k, "old", "crlf")
        /\ w[n + 1] = "cr" =>
             Becomes(w, n, k, "old", "crlf", "lf") /\ Closes(w, n, k, "old", "lf")
  BY <1>1, <1>3, <1>4, OldAndVersion
<1>6. \A k \in Kinds, e \in Breaks :
        /\ w[n + 1] \in Takes["uri"] => Becomes(w, n, k, "version", e, "uri")
        /\ w[n + 1] = "sp" => Becomes(w, n, k, "version", e, "v")
        /\ w[n + 1] \in {"cr", "lf"} => Closes(w, n, k, "version", e)
  BY <1>1, <1>3, OldAndVersion
<1>7. ASSUME w[n + 1] \notin EndBytes, NEW t \in InUri PROVE Possible(w, n + 1, t)
  <2>1. w[n + 1] \in Takes["uri"]
    BY <1>3, <1>7
  <2>6. \A k \in Kinds, h \in Forms, e \in Breaks : Becomes(w, n, k, h, e, "uri")
    BY <1>3, <1>5, <1>6, <2>1
  <2>2. \A k \in Kinds, h \in Forms, e \in Breaks : Becomes(w, n, k, h, e, PartAt(t, h))
    BY <2>6, PartAtIs
  <2>3. InPart(w, n + 1, t)
    BY <2>2, InPartNext
  <2>4. PICK G \in SameOpen : s \in G /\ t \in G
    BY DEF SameOpen
  <2>5. SomeOpen(w, n + 1, t)
    BY <2>2, <2>4, SomeOpenNext DEF Possible
  <2> QED BY <2>3, <2>5 DEF Possible
<1>8. ASSUME w[n + 1] = "sp" PROVE Possible(w, n + 1, "http_09")
  <2>1. \A k \in Kinds, h \in Forms, e \in Breaks :
          Becomes(w, n, k, h, e, PartAt("http_09", h))
    BY <1>3, <1>5, <1>6, <1>8, PartAtIs
  <2>2. InPart(w, n + 1, "http_09")
    BY <2>1, InPartNext
  <2>3. PICK G \in SameOpen : s \in G /\ "http_09" \in G
    BY DEF SameOpen
  <2>4. SomeOpen(w, n + 1, "http_09")
    BY <2>1, <2>3, SomeOpenNext DEF Possible
  <2> QED BY <2>2, <2>4 DEF Possible
<1>9. w[n + 1] = "cr" => Possible(w, n + 1, "almost_done")
  BY <1>2, <1>5, <1>6, OldEnds
<1>10. w[n + 1] = "lf" => Possible(w, n + 1, "done")
  BY <1>2, <1>5, <1>6, OldEnds
<1> QED BY <1>7, <1>8, <1>9, <1>10

LEMMA Http09Goes ==
  ASSUME NEW w, NEW n \in Nat, Possible(w, n, "http_09")
  PROVE  /\ w[n + 1] = "sp" => Possible(w, n + 1, "http_09")
         /\ w[n + 1] = "cr" => Possible(w, n + 1, "almost_done")
         /\ w[n + 1] = "lf" => Possible(w, n + 1, "done")
         /\ w[n + 1] = "H" => Possible(w, n + 1, "http_H")
         /\ w[n + 1] \notin EndBytes \cup {"H"} => NoneDue(w, n + 1)
<1>1. /\ "pad" \in Parts \cap Repeats /\ "v" \in Parts \cap Repeats
      /\ "H" \in Parts \ Repeats /\ "cr" \in Parts \ Repeats /\ "lf" \in Parts \ Repeats
      /\ Takes["pad"] = {"sp"} /\ Takes["v"] = {"sp"} /\ Takes["H"] = {"H"}
      /\ Takes["cr"] = {"cr"} /\ Takes["lf"] = {"lf"}
  BY PartSorts, TakesAre
<1>2. /\ EndBytes = {"cr", "lf", "sp"} /\ Forms = {"old", "version"}
      /\ Breaks = {"lf", "crlf"} /\ "old" \in Forms /\ "version" \in Forms
  BY DEF EndBytes, Eol, Forms, Breaks
<1>3. PICK k1 \in Kinds : Open(w, n, {k1}, Forms, Breaks)
  BY DEF Possible, SomeOpen
<1>4. /\ \A k \in Kinds, e \in Breaks :
           Due(w, n, k, "old", e) \in {{}, From(NextPart(k, "old", e), "pad")}
      /\ \A k \in Kinds, e \in Breaks :
           Due(w, n, k, "version", e) \in {{}, From(NextPart(k, "version", e), "v")}
  BY <1>2, PartAtIs DEF Possible, InPart
<1>5. ASSUME NEW k \in Kinds
      PROVE  /\ w[n + 1] = "sp" => Becomes(w, n, k, "old", "lf", "pad")
             /\ w[n + 1] = "lf" => Becomes(w, n, k, "old", "lf", "end")
             /\ w[n + 1] \notin {"sp", "lf"} => Closes(w, n, k, "old", "lf")
  <2>1. NextPart(k, "old", "lf")["pad"] = "lf" /\ NextPart(k, "old", "lf")["lf"] = "end"
    BY <1>2, BreaksAre
  <2> QED BY <1>1, <1>2, <1>4, <2>1, AfterTwo
<1>6. ASSUME NEW k \in Kinds
      PROVE  /\ w[n + 1] = "sp" => Becomes(w, n, k, "old", "crlf", "pad")
             /\ w[n + 1] = "cr" => Becomes(w, n, k, "old", "crlf", "lf")
             /\ w[n + 1] \notin {"sp", "cr"} => Closes(w, n, k, "old", "crlf")
  <2>1. NextPart(k, "old", "crlf")["pad"] = "cr" /\ NextPart(k, "old", "crlf")["cr"] = "lf"
    BY <1>2, BreaksAre
  <2> QED BY <1>1, <1>2, <1>4, <2>1, AfterTwo
<1>7. ASSUME NEW k \in Kinds, NEW e \in Breaks
      PROVE  /\ w[n + 1] = "sp" => Becomes(w, n, k, "version", e, "v")
             /\ w[n + 1] = "H" => Becomes(w, n, k, "version", e, "T1")
             /\ w[n + 1] \notin {"sp", "H"} => Closes(w, n, k, "version", e)
  <2>1. NextPart(k, "version", e)["v"] = "H" /\ NextPart(k, "version", e)["H"] = "T1"
    BY <1>2, NextFixed
  <2>2. Due(w, n, k, "version", e) \in {{}, From(NextPart(k, "version", e), "v")}
    BY <1>4
  <2>3. Takes["v"] \cap Takes["H"] = {} /\ "v" \in Parts \cap Repeats /\ "H" \in Parts \ Repeats
    BY <1>1
  <2>4. /\ w[n + 1] \in Takes["v"] => Becomes(w, n, k, "version", e, "v")
        /\ w[n + 1] \in Takes["H"] => Becomes(w, n, k, "version", e, "T1")
        /\ w[n + 1] \notin Takes["v"] \cup Takes["H"] => Closes(w, n, k, "version", e)
    BY <1>2, <2>1, <2>2, <2>3, AfterTwo
  <2> QED BY <1>1, <2>4
<1>8. ASSUME w[n + 1] = "sp" PROVE Possible(w, n + 1, "http_09")
  <2>1. \A k \in Kinds, h \in Forms, e \in Breaks :
          Becomes(w, n, k, h, e, PartAt("http_09", h))
    BY <1>2, <1>5, <1>6, <1>7, <1>8, PartAtIs
  <2>2. InPart(w, n + 1, "http_09")
    BY <2>1, InPartNext
  <2>3. PICK G \in SameOpen : "http_09" \in G
    BY DEF SameOpen
  <2>4. SomeOpen(w, n + 1, "http_09")
    BY <2>1, <2>3, SomeOpenNext DEF Possible
  <2> QED BY <2>2, <2>4 DEF Possible
<1>9. ASSUME w[n + 1] = "H" PROVE Possible(w, n + 1, "http_H")
  <2>1. \A k \in Kinds, e \in Breaks : Becomes(w, n, k, "version", e, PartAt("http_H", "version"))
    BY <1>7, <1>9, PartAtIs
  <2>2. \A k \in Kinds, e \in Breaks : Closes(w, n, k, "old", e)
    BY <1>2, <1>5, <1>6, <1>9
  <2>3. SomeGo(w, n, "http_H")
    BY <1>2, <2>1, <2>2 DEF SomeGo
  <2>4. AllGo(w, n, "http_H", {k1}, {"version"}, Breaks)
    BY <2>1 DEF AllGo
  <2>5. Within({k1}, {"version"}, Breaks, {k1}, Forms, Breaks)
    BY DEF Within, Kinds, Forms, Breaks
  <2>6. InPart(w, n + 1, "http_H") /\ Open(w, n + 1, {k1}, {"version"}, Breaks)
    BY <1>3, <2>3, <2>4, <2>5, Parting
  <2> QED BY <2>6 DEF Possible, SomeOpen, InUri, InVersion, InHttp
<1>10. w[n + 1] = "cr" => Possible(w, n + 1, "almost_done")
  BY <1>3, <1>5, <1>6, <1>7, OldEnds
<1>11. w[n + 1] = "lf" => Possible(w, n + 1, "done")
  BY <1>3, <1>5, <1>6, <1>7, OldEnds
<1>12. ASSUME w[n + 1] \notin EndBytes \cup {"H"} PROVE NoneDue(w, n + 1)
  <2>1. \A k \in Kinds, h \in Forms, e \in Breaks : Closes(w, n, k, h, e)
    BY <1>2, <1>5, <1>6, <1>7, <1>12
  <2> QED BY <2>1, NoneDueNext
<1> QED BY <1>8, <1>9, <1>10, <1>11, <1>12

-----------------------------------------------------------------------------
(***************************************************************************)
(* A step of the parser: in each state it goes on, or rejects the byte.    *)
(***************************************************************************)
LEMMA ByteHere ==
  ASSUME Inv, NEW s \in States, In(s)
  PROVE  /\ ch = wire[pos + 1] /\ ch \in Bytes /\ pos \in Nat /\ buf = wire
         /\ state = s /\ Cur = pos + 1
<1>1. state = s /\ s # "headers"
  BY DEF In, States
<1>2. buf = wire
  BY <1>1 DEF Inv, Copied
<1>3. wire \in Seq(Bytes) /\ pos \in 0..Len(wire) /\ pos < Len(wire)
  BY <1>2 DEF Inv, TypeOK, In
<1>4. pos \in Nat /\ pos + 1 \in 1..Len(wire)
  BY <1>3
<1>5. wire[pos + 1] \in Bytes
  BY <1>3, <1>4
<1> QED BY <1>1, <1>2, <1>4, <1>5 DEF ch, Cur

\* The step takes the byte to t.
GoesTo(t) == pos' = pos + 1 /\ wire' = wire /\ state' = t

LEMMA GoesOn ==
  ASSUME NEW t \in States, GoesTo(t), Possible(wire, pos + 1, t)
  PROVE  StopInv'
BY DEF StopInv, GoesTo, States

LEMMA Refuses ==
  ASSUME Reject, NoneDue(wire, pos + 1)
  PROVE  StopInv'
BY DEF StopInv, Reject, States

LEMMA TakeIs ==
  ASSUME NEW t, Cur = pos + 1
  PROVE  (Take(t) => GoesTo(t)) /\ (Go(t) => GoesTo(t))
BY DEF Take, Go, GoesTo

LEMMA StopThere ==
  ASSUME NEW s \in States, StopInv, state = s
  PROVE  Possible(wire, pos, s)
BY DEF StopInv

LEMMA BeforeUriStops ==
  ASSUME Inv, StopInv,
         Start \/ Method \/ SpacesBeforeUri \/ Schema \/ SchemaSlash \/ SchemaSlashSlash
  PROVE  StopInv'
<1>1. CASE Start
  <2>1. In("start") /\ "start" \in States /\ "method" \in States
    BY <1>1 DEF Start, States
  <2>2. /\ ch = wire[pos + 1] /\ pos \in Nat /\ Cur = pos + 1 /\ Possible(wire, pos, "start")
    BY <2>1, ByteHere, StopThere
  <2>3. \/ ch \in Eol /\ GoesTo("start")
        \/ ch \in Upper /\ GoesTo("method")
        \/ ch \notin Eol \cup Upper /\ Reject
    BY <1>1, <2>2, TakeIs DEF Start
  <2> QED BY <2>1, <2>2, <2>3, StartGoes, GoesOn, Refuses
<1>2. CASE Method
  <2>1. In("method") /\ "method" \in States /\ "spaces_before_uri" \in States
    BY <1>2 DEF Method, States
  <2>2. /\ ch = wire[pos + 1] /\ pos \in Nat /\ Cur = pos + 1 /\ Possible(wire, pos, "method")
    BY <2>1, ByteHere, StopThere
  <2>3. \/ ch = "sp" /\ GoesTo("spaces_before_uri")
        \/ ch \in Upper /\ GoesTo("method")
        \/ ch \notin Upper \cup {"sp"} /\ Reject
    BY <1>2, <2>2, TakeIs DEF Method
  <2> QED BY <2>1, <2>2, <2>3, MethodGoes, GoesOn, Refuses
<1>3. CASE SpacesBeforeUri
  <2>1. /\ In("spaces_before_uri") /\ "spaces_before_uri" \in States
        /\ "after_slash_in_uri" \in States /\ "schema" \in States
    BY <1>3 DEF SpacesBeforeUri, States
  <2>2. /\ ch = wire[pos + 1] /\ pos \in Nat /\ Cur = pos + 1
        /\ Possible(wire, pos, "spaces_before_uri")
    BY <2>1, ByteHere, StopThere
  <2>3. \/ ch = "slash" /\ GoesTo("after_slash_in_uri")
        \/ ch = "sp" /\ GoesTo("spaces_before_uri")
        \/ ch \in Letters /\ GoesTo("schema")
        \/ ch \notin Letters \cup {"slash", "sp"} /\ Reject
    BY <1>3, <2>2, TakeIs DEF SpacesBeforeUri
  <2> QED BY <2>1, <2>2, <2>3, SpacesGo, GoesOn, Refuses
<1>4. CASE Schema
  <2>1. In("schema") /\ "schema" \in States /\ "schema_slash" \in States
    BY <1>4 DEF Schema, States
  <2>2. /\ ch = wire[pos + 1] /\ pos \in Nat /\ Cur = pos + 1 /\ Possible(wire, pos, "schema")
    BY <2>1, ByteHere, StopThere
  <2>3. \/ ch = "colon" /\ GoesTo("schema_slash")
        \/ ch \in Letters /\ GoesTo("schema")
        \/ ch \notin Letters \cup {"colon"} /\ Reject
    BY <1>4, <2>2, TakeIs DEF Schema
  <2> QED BY <2>1, <2>2, <2>3, SchemaGoes, GoesOn, Refuses
<1>5. CASE SchemaSlash
  <2>1. In("schema_slash") /\ "schema_slash" \in States /\ "schema_slash_slash" \in States
    BY <1>5 DEF SchemaSlash, States
  <2>2. /\ ch = wire[pos + 1] /\ pos \in Nat /\ Cur = pos + 1
        /\ Possible(wire, pos, "schema_slash")
    BY <2>1, ByteHere, StopThere
  <2>3. \/ ch = "slash" /\ GoesTo("schema_slash_slash")
        \/ ch # "slash" /\ Reject
    BY <1>5, <2>2, TakeIs DEF SchemaSlash
  <2> QED BY <2>1, <2>2, <2>3, SchemaSlashGoes, GoesOn, Refuses
<1>6. CASE SchemaSlashSlash
  <2>1. In("schema_slash_slash") /\ "schema_slash_slash" \in States /\ "host" \in States
    BY <1>6 DEF SchemaSlashSlash, States
  <2>2. /\ ch = wire[pos + 1] /\ pos \in Nat /\ Cur = pos + 1
        /\ Possible(wire, pos, "schema_slash_slash")
    BY <2>1, ByteHere, StopThere
  <2>3. \/ ch = "slash" /\ GoesTo("host")
        \/ ch # "slash" /\ Reject
    BY <1>6, <2>2, TakeIs DEF SchemaSlashSlash
  <2> QED BY <2>1, <2>2, <2>3, SchemaSlashSlashGoes, GoesOn, Refuses
<1> QED BY <1>1, <1>2, <1>3, <1>4, <1>5, <1>6

LEMMA UriStops ==
  ASSUME Inv, StopInv, Host \/ Port \/ AfterSlashInUri \/ CheckUri \/ Uri
  PROVE  StopInv'
<1>1. CASE Host
  <2>1. /\ In("host") /\ "host" \in States /\ "port" \in States
        /\ "after_slash_in_uri" \in States
    BY <1>1 DEF Host, States
  <2>2. /\ ch = wire[pos + 1] /\ pos \in Nat /\ Cur = pos + 1 /\ Possible(wire, pos, "host")
    BY <2>1, ByteHere, StopThere
  <2>3. \/ ch = "colon" /\ GoesTo("port")
        \/ ch = "slash" /\ GoesTo("after_slash_in_uri")
        \/ ch \in HostBytes /\ GoesTo("host")
        \/ ch \notin HostBytes \cup {"colon", "slash"} /\ Reject
    BY <1>1, <2>2, TakeIs DEF Host
  <2> QED BY <2>1, <2>2, <2>3, HostGoes, GoesOn, Refuses
<1>2. CASE Port
  <2>1. In("port") /\ "port" \in States /\ "after_slash_in_uri" \in States
    BY <1>2 DEF Port, States
  <2>2. /\ ch = wire[pos + 1] /\ ch \in Bytes /\ pos \in Nat /\ Cur = pos + 1
        /\ Possible(wire, pos, "port")
    BY <2>1, ByteHere, StopThere
  <2>3. \/ ch = "slash" /\ GoesTo("after_slash_in_uri")
        \/ ch # "slash" /\ GoesTo("port")
    BY <1>2, <2>2, TakeIs DEF Port
  <2> QED BY <2>1, <2>2, <2>3, PortGoes, GoesOn
<1>3. ASSUME NEW s \in InUri, In(s),
             \/ UriEnds
             \/ ch \notin EndBytes /\ \E t \in InUri : Take(t)
             \/ ch \notin EndBytes /\ \E t \in InUri : Go(t)
      PROVE  StopInv'
  <2>1. /\ s \in States /\ InUri \subseteq States
        /\ "http_09" \in States /\ "almost_done" \in States /\ "done" \in States
    BY DEF InUri, States
  <2>2. /\ ch = wire[pos + 1] /\ ch \in Bytes /\ pos \in Nat /\ Cur = pos + 1
        /\ Possible(wire, pos, s)
    BY <1>3, <2>1, ByteHere, StopThere
  <2>3. \/ ch = "cr" /\ GoesTo("almost_done")
        \/ ch = "lf" /\ GoesTo("done")
        \/ ch = "sp" /\ GoesTo("http_09")
        \/ ch \notin EndBytes /\ \E t \in InUri : GoesTo(t)
    BY <1>3, <2>2, TakeIs DEF UriEnds
  <2>4. /\ ch \notin EndBytes => \A t \in InUri : Possible(wire, pos + 1, t)
        /\ ch = "sp" => Possible(wire, pos + 1, "http_09")
        /\ ch = "cr" => Possible(wire, pos + 1, "almost_done")
        /\ ch = "lf" => Possible(wire, pos + 1, "done")
    BY <2>2, UriGoes
  <2> QED BY <2>1, <2>3, <2>4, GoesOn
<1>4. EndBytes = {"cr", "lf", "sp"}
  BY DEF EndBytes, Eol
<1>5. ASSUME AfterSlashInUri PROVE StopInv'
  <2>1. "after_slash_in_uri" \in InUri /\ In("after_slash_in_uri")
    BY <1>5 DEF InUri, AfterSlashInUri
  <2>2. \/ UriEnds
        \/ ch \notin EndBytes /\ \E t \in InUri : Take(t)
        \/ ch \notin EndBytes /\ \E t \in InUri : Go(t)
    BY <1>4, <1>5 DEF AfterSlashInUri, InUri
  <2> QED BY <1>3, <2>1, <2>2
<1>6. ASSUME CheckUri PROVE StopInv'
  <2>1. "check_uri" \in InUri /\ In("check_uri")
    BY <1>6 DEF InUri, CheckUri
  <2>2. \/ UriEnds
        \/ ch \notin EndBytes /\ \E t \in InUri : Take(t)
        \/ ch \notin EndBytes /\ \E t \in InUri : Go(t)
    BY <1>4, <1>6 DEF CheckUri, InUri
  <2> QED BY <1>3, <2>1, <2>2
<1>7. ASSUME Uri PROVE StopInv'
  <2>1. "uri" \in InUri /\ In("uri")
    BY <1>7 DEF InUri, Uri
  <2>2. UriEnds \/ (ch \notin EndBytes /\ \E t \in InUri : Go(t))
    BY <1>7, <2>1 DEF Uri
  <2> QED BY <1>3, <2>1, <2>2
<1> QED BY <1>1, <1>2, <1>5, <1>6, <1>7

LEMMA VersionStops ==
  ASSUME Inv, StopInv, HttpWord \/ MajorDigit \/ MinorDigit
  PROVE  StopInv'
<1>1. /\ "http_H" \in States /\ "http_HT" \in States /\ "http_HTT" \in States
      /\ "http_HTTP" \in States /\ "first_major_digit" \in States /\ "major_digit" \in States
      /\ "first_minor_digit" \in States /\ "minor_digit" \in States
      /\ "almost_done" \in States /\ "done" \in States
  BY DEF States
<1>2. ASSUME HttpWord PROVE StopInv'
  <2>1. PICK step \in {<<"http_H", "T", "http_HT">>, <<"http_HT", "T", "http_HTT">>,
                       <<"http_HTT", "P", "http_HTTP">>,
                       <<"http_HTTP", "slash", "first_major_digit">>} :
          /\ In(step[1])
          /\ \/ ch = step[2] /\ Go(step[3])
             \/ ch # step[2] /\ Reject
    BY <1>2 DEF HttpWord
  <2>2. CASE step = <<"http_H", "T", "http_HT">>
    <3>1. In("http_H")
      BY <2>1, <2>2
    <3>2. ch = wire[pos + 1] /\ pos \in Nat /\ Cur = pos + 1 /\ Possible(wire, pos, "http_H")
      BY <1>1, <3>1, ByteHere, StopThere
    <3>3. \/ ch = "T" /\ GoesTo("http_HT")
          \/ ch # "T" /\ Reject
      BY <2>1, <2>2, <3>2, TakeIs
    <3> QED BY <1>1, <3>2, <3>3, HGoes, GoesOn, Refuses
  <2>3. CASE step = <<"http_HT", "T", "http_HTT">>
    <3>1. In("http_HT")
      BY <2>1, <2>3
    <3>2. ch = wire[pos + 1] /\ pos \in Nat /\ Cur = pos + 1 /\ Possible(wire, pos, "http_HT")
      BY <1>1, <3>1, ByteHere, StopThere
    <3>3. \/ ch = "T" /\ GoesTo("http_HTT")
          \/ ch # "T" /\ Reject
      BY <2>1, <2>3, <3>2, TakeIs
    <3> QED BY <1>1, <3>2, <3>3, HTGoes, GoesOn, Refuses
  <2>4. CASE step = <<"http_HTT", "P", "http_HTTP">>
    <3>1. In("http_HTT")
      BY <2>1, <2>4
    <3>2. ch = wire[pos + 1] /\ pos \in Nat /\ Cur = pos + 1 /\ Possible(wire, pos, "http_HTT")
      BY <1>1, <3>1, ByteHere, StopThere
    <3>3. \/ ch = "P" /\ GoesTo("http_HTTP")
          \/ ch # "P" /\ Reject
      BY <2>1, <2>4, <3>2, TakeIs
    <3> QED BY <1>1, <3>2, <3>3, HTTGoes, GoesOn, Refuses
  <2>5. CASE step = <<"http_HTTP", "slash", "first_major_digit">>
    <3>1. In("http_HTTP")
      BY <2>1, <2>5
    <3>2. ch = wire[pos + 1] /\ pos \in Nat /\ Cur = pos + 1 /\ Possible(wire, pos, "http_HTTP")
      BY <1>1, <3>1, ByteHere, StopThere
    <3>3. \/ ch = "slash" /\ GoesTo("first_major_digit")
          \/ ch # "slash" /\ Reject
      BY <2>1, <2>5, <3>2, TakeIs
    <3> QED BY <1>1, <3>2, <3>3, HTTPGoes, GoesOn, Refuses
  <2> QED BY <2>1, <2>2, <2>3, <2>4, <2>5
<1>3. ASSUME MajorDigit PROVE StopInv'
  <2>1. ASSUME In("first_major_digit"),
               \/ ch = "digit" /\ GoesTo("major_digit")
               \/ ch # "digit" /\ Reject
        PROVE  StopInv'
    <3>1. /\ ch = wire[pos + 1] /\ pos \in Nat /\ Possible(wire, pos, "first_major_digit")
      BY <1>1, <2>1, ByteHere, StopThere
    <3> QED BY <1>1, <2>1, <3>1, FirstMajorGoes, GoesOn, Refuses
  <2>2. ASSUME In("major_digit"),
               \/ ch = "dot" /\ GoesTo("first_minor_digit")
               \/ ch \in Digits /\ GoesTo("major_digit")
               \/ ch \notin Digits \cup {"dot"} /\ Reject
        PROVE  StopInv'
    <3>1. /\ ch = wire[pos + 1] /\ pos \in Nat /\ Possible(wire, pos, "major_digit")
      BY <1>1, <2>2, ByteHere, StopThere
    <3> QED BY <1>1, <2>2, <3>1, MajorGoes, GoesOn, Refuses
  <2>3. Cur = pos + 1
    BY DEF Cur
  <2> QED BY <1>3, <2>1, <2>2, <2>3, TakeIs DEF MajorDigit
<1>4. ASSUME MinorDigit PROVE StopInv'
  <2>1. ASSUME In("first_minor_digit"),
               \/ ch \in Digits /\ GoesTo("minor_digit")
               \/ ch \notin Digits /\ Reject
        PROVE  StopInv'
    <3>1. /\ ch = wire[pos + 1] /\ pos \in Nat /\ Possible(wire, pos, "first_minor_digit")
      BY <1>1, <2>1, ByteHere, StopThere
    <3> QED BY <1>1, <2>1, <3>1, FirstMinorGoes, GoesOn, Refuses
  <2>2. ASSUME In("minor_digit"),
               \/ ch = "cr" /\ GoesTo("almost_done")
               \/ ch = "lf" /\ GoesTo("done")
               \/ ch \in Digits /\ GoesTo("minor_digit")
               \/ ch \notin Digits \cup Eol /\ Reject
        PROVE  StopInv'
    <3>1. /\ ch = wire[pos + 1] /\ pos \in Nat /\ Possible(wire, pos, "minor_digit")
      BY <1>1, <2>2, ByteHere, StopThere
    <3> QED BY <1>1, <2>2, <3>1, MinorGoes, GoesOn, Refuses
  <2>3. Cur = pos + 1
    BY DEF Cur
  <2> QED BY <1>4, <2>1, <2>2, <2>3, TakeIs DEF MinorDigit
<1> QED BY <1>2, <1>3, <1>4

LEMMA EndStops ==
  ASSUME Inv, StopInv, Http09 \/ AlmostDone
  PROVE  StopInv'
<1>1. /\ "http_09" \in States /\ "almost_done" \in States /\ "done" \in States
      /\ "http_H" \in States /\ Cur = pos + 1
  BY DEF States, Cur
<1>2. CASE Http09
  <2>1. In("http_09")
    BY <1>2 DEF Http09
  <2>2. ch = wire[pos + 1] /\ pos \in Nat /\ Possible(wire, pos, "http_09")
    BY <1>1, <2>1, ByteHere, StopThere
  <2>3. \/ ch = "sp" /\ GoesTo("http_09")
        \/ ch = "cr" /\ GoesTo("almost_done")
        \/ ch = "lf" /\ GoesTo("done")
        \/ ch = "H" /\ GoesTo("http_H")
        \/ ch \notin EndBytes \cup {"H"} /\ Reject
    BY <1>1, <1>2, TakeIs DEF Http09
  <2> QED BY <1>1, <2>2, <2>3, Http09Goes, GoesOn, Refuses
<1>3. CASE AlmostDone
  <2>1. In("almost_done")
    BY <1>3 DEF AlmostDone
  <2>2. ch = wire[pos + 1] /\ pos \in Nat /\ Possible(wire, pos, "almost_done")
    BY <1>1, <2>1, ByteHere, StopThere
  <2>3. \/ ch = "lf" /\ GoesTo("done")
        \/ ch # "lf" /\ Reject
    BY <1>1, <1>3, TakeIs DEF AlmostDone
  <2> QED BY <1>1, <2>2, <2>3, AlmostDoneGoes, GoesOn, Refuses
<1> QED BY <1>2, <1>3

LEMMA ParseStops ==
  ASSUME Inv, StopInv, Parse
  PROVE  StopInv'
BY BeforeUriStops, UriStops, VersionStops, EndStops DEF Parse

\* More bytes do not change what the parsed ones may become.
LEMMA PossibleSame ==
  ASSUME NEW w, NEW x, NEW n \in Nat, \A i \in 1..n : w[i] = x[i], NEW s, Possible(w, n, s)
  PROVE  Possible(x, n, s)
<1>1. \A k \in Kinds, h \in Forms, e \in Breaks : Due(w, n, k, h, e) = Due(x, n, k, h, e)
  BY DueSame
<1>2. InPart(x, n, s)
  BY <1>1 DEF Possible, InPart
<1>3. \A K \in SUBSET Kinds, H \in SUBSET Forms, E \in SUBSET Breaks :
        Open(w, n, K, H, E) => Open(x, n, K, H, E)
  BY <1>1 DEF Open
<1>4. /\ Kinds \in SUBSET Kinds /\ Forms \in SUBSET Forms /\ Breaks \in SUBSET Breaks
      /\ {"host", "port"} \in SUBSET Kinds /\ {"port"} \in SUBSET Kinds
      /\ {"version"} \in SUBSET Forms /\ {"crlf"} \in SUBSET Breaks
      /\ \A k \in Kinds : {k} \in SUBSET Kinds
      /\ \A h \in Forms : {h} \in SUBSET Forms
      /\ \A e \in Breaks : {e} \in SUBSET Breaks
  BY DEF Kinds, Forms, Breaks
<1>5. SomeOpen(w, n, s)
  BY DEF Possible
<1>6. SomeOpen(x, n, s)
  BY <1>3, <1>4, <1>5 DEF SomeOpen
<1> QED BY <1>2, <1>6 DEF Possible

LEMMA ReceiveStops ==
  ASSUME Inv, StopInv, NEW m \in 1..MaxRead, NEW chunk \in [1..m -> Alphabet[state]],
         Running, Receive(chunk)
  PROVE  StopInv'
<1>1. /\ state \in States /\ state # "headers" /\ state # "invalid"
      /\ pos' = pos /\ state' = state /\ wire' = wire \o chunk
  BY DEF Running, Receive, States
<1>2. wire \in Seq(Bytes) /\ chunk \in Seq(Bytes) /\ pos \in 0..Len(wire)
  <2>1. m \in Nat
    BY LineAssumption
  <2>2. \A i \in 1..m : chunk[i] \in Bytes
    BY <1>1, AlphabetAssumption
  <2>3. chunk \in [1..m -> Bytes]
    BY <2>2
  <2> QED BY <2>1, <2>3, SeqDef DEF Inv, TypeOK
<1>3. pos \in Nat /\ \A i \in 1..pos : wire[i] = wire'[i]
  BY <1>1, <1>2
<1>4. Possible(wire, pos, state)
  BY <1>1 DEF StopInv
<1>5. Possible(wire', pos, state)
  BY <1>3, <1>4, PossibleSame
<1> QED BY <1>1, <1>5 DEF StopInv

LEMMA LineDoneStops ==
  ASSUME Inv, StopInv, LineDone
  PROVE  StopInv'
<1>1. pos \in Nat /\ Possible(wire, pos, "done")
  BY DEF Inv, TypeOK, LineDone, StopInv, States
<1>2. CASE Refused
  <2>1. NoneDue(wire, pos + 1)
    BY <1>1, DoneGoes
  <2> QED BY <1>2, <2>1, Refuses DEF LineDone
<1>3. CASE ~Refused
  <2>1. state' = "headers" /\ wire' = wire /\ pos' = pos
    BY <1>3 DEF LineDone
  <2>2. \A h : PartAt("done", h) = PartAt("headers", h)
    BY PartAtIs
  <2>3. Possible(wire, pos, "headers")
    BY <1>1, <2>2 DEF Possible, InPart, SomeOpen, InUri, InVersion, InHttp
  <2> QED BY <2>1, <2>3 DEF StopInv
<1> QED BY <1>2, <1>3

LEMMA StopInit == Init => StopInv
<1> SUFFICES ASSUME Init PROVE StopInv
  OBVIOUS
<1>1. state = "start" /\ pos = 0
  BY DEF Init
<1>2. \A k \in Kinds, h \in Forms, e \in Breaks :
        Due(wire, 0, k, h, e) = From(NextPart(k, h, e), "eol")
  BY DueFirst
<1>3. InPart(wire, 0, "start")
  BY <1>2, PartAtIs DEF InPart
<1>4. Open(wire, 0, Kinds, Forms, Breaks)
  BY <1>2, FromHas DEF Open
<1>5. Possible(wire, 0, "start")
  BY <1>3, <1>4 DEF Possible, SomeOpen, InUri, InVersion, InHttp
<1> QED BY <1>1, <1>5 DEF StopInv

LEMMA StopStep == Inv /\ StopInv /\ [Next]_vars => StopInv'
<1> SUFFICES ASSUME Inv, StopInv, [Next]_vars PROVE StopInv'
  OBVIOUS
<1>1. CASE Running /\ \E n \in 1..MaxRead : \E chunk \in [1..n -> Alphabet[state]] : Receive(chunk)
  BY <1>1, ReceiveStops
<1>2. CASE BufferFull
  BY <1>2 DEF BufferFull, StopInv, States
<1>3. CASE Parse
  BY <1>3, ParseStops
<1>4. CASE LineDone
  BY <1>4, LineDoneStops
<1>5. CASE Close
  BY <1>5 DEF Close, StopInv, States
<1>6. CASE UNCHANGED vars
  BY <1>6 DEF vars, StopInv
<1> QED BY <1>1, <1>2, <1>3, <1>4, <1>5, <1>6 DEF Next, Over

\* No line is over before the parser is done.
LEMMA NotOver ==
  ASSUME NEW k \in Kinds, NEW h \in Forms, NEW e \in Breaks, NEW s \in States \ {"done"}
  PROVE  "end" \notin From(NextPart(k, h, e), PartAt(s, h))
<1> DEFINE F == NextPart(k, h, e)
           a == PartAt(s, h)
<1>1. a \in Parts
  BY PartAtIs, PartsAre DEF States, InUri
<1>2. \A b \in Repeats : F[b] # "end"
  BY NextIs DEF Repeats
<1>3. \A b \in Repeats : F[b] \in Repeats => b = "uri" /\ F[b] = "pad"
  BY NextIs DEF Repeats
<1>4. F["pad"] # "end"
  BY NextIs
<1> HIDE DEF F, a
<1>5. a # "end"
  BY <1>1, EndIsNoPart
<1>6. a \in Repeats /\ F[a] \in Repeats => F[F[a]] # "end"
  BY <1>3, <1>4
<1>7. "end" \notin From(F, a)
  BY <1>2, <1>5, <1>6 DEF From
<1> QED BY <1>7 DEF F, a

LEMMA StillOpen ==
  ASSUME NEW s \in States \cup {"headers"}, Possible(wire, pos, s)
  PROVE  \E k \in Kinds, h \in Forms, e \in Breaks : Due(wire, pos, k, h, e) # {}
<1>1. /\ "lf" \in Breaks /\ "crlf" \in Breaks /\ "old" \in Forms /\ "version" \in Forms
      /\ "none" \in Kinds /\ "host" \in Kinds /\ "port" \in Kinds
  BY DEF Breaks, Forms, Kinds
<1>2. \/ \E k \in Kinds : Open(wire, pos, {k}, {"version"}, {"crlf"})
      \/ \E k \in Kinds, h \in Forms, e \in Breaks : Open(wire, pos, {k}, {h}, {e})
  <2>1. CASE s \in InMethod
    BY <1>1, <2>1 DEF Possible, SomeOpen, InMethod, Open
  <2>2. CASE s \in InAuthority
    BY <1>1, <2>2 DEF Possible, SomeOpen, InAuthority, Open
  <2>3. CASE s = "port"
    BY <1>1, <2>3 DEF Possible, SomeOpen, Open
  <2>4. CASE s \in InUri \cup {"http_09"}
    BY <1>1, <2>4 DEF Possible, SomeOpen, Open
  <2>5. CASE s \in InVersion \ {"http_09"}
    BY <1>1, <2>5 DEF Possible, SomeOpen, Open
  <2>6. CASE s \in {"almost_done", "done", "headers"}
    BY <1>1, <2>6 DEF Possible, SomeOpen, Open
  <2> QED
    BY <2>1, <2>2, <2>3, <2>4, <2>5, <2>6 DEF States, InMethod, InAuthority, InUri, InVersion, InHttp
<1> QED BY <1>1, <1>2 DEF Open

LEMMA StopsThere == Inv /\ StopInv => StopsWhereItMust
<1> SUFFICES ASSUME Inv, StopInv PROVE StopsWhereItMust
  OBVIOUS
<1>1. pos \in Nat /\ pos + 1 \in Nat
  BY DEF Inv, TypeOK
<1>2. ASSUME Running, state # "done" PROVE CanBecome(pos) /\ ~IsWhole(pos)
  <2>1. state \in States \ {"done"} /\ Possible(wire, pos, state)
    BY <1>2 DEF Running, StopInv
  <2>2. CanBecome(pos)
    BY <1>1, <2>1, StillOpen, BecomesIs
  <2>3. ~\E k \in Kinds, h \in Forms, e \in Breaks : "end" \in Due(wire, pos, k, h, e)
    BY <2>1, NotOver DEF Possible, InPart
  <2> QED BY <1>1, <2>2, <2>3, WholeIs
<1>3. ASSUME state = "invalid" PROVE ~CanBecome(pos + 1)
  <2>1. NoneDue(wire, pos + 1)
    BY <1>3 DEF StopInv
  <2> QED BY <1>1, <2>1, BecomesIs DEF NoneDue
<1>4. ASSUME state \in {"done", "headers"} PROVE IsWhole(pos)
  <2>1. state \in States \cup {"headers"} /\ Possible(wire, pos, state)
    BY <1>4 DEF StopInv, States
  <2>2. PICK k \in Kinds, h \in Forms, e \in Breaks : Due(wire, pos, k, h, e) # {}
    BY <2>1, StillOpen
  <2>3. Due(wire, pos, k, h, e) = From(NextPart(k, h, e), "end")
    BY <1>4, <2>1, <2>2, PartAtIs DEF Possible, InPart
  <2>4. "end" \in Due(wire, pos, k, h, e)
    BY <2>3, FromHas
  <2> QED BY <1>1, <2>4, WholeIs
<1> QED BY <1>2, <1>3, <1>4 DEF StopsWhereItMust

\* The parser, in whatever pieces the bytes come: it goes on exactly as long as
\* they can still become a request line, refuses the byte after which they can
\* not, and takes the line for whole where it is.
THEOREM StopsInTheRightPlace == Spec => []StopsWhereItMust
<1>1. Spec => []StopInv
  <2>1. Init /\ []Inv /\ [][Next]_vars => []StopInv
    BY StopInit, StopStep, PTL
  <2> QED BY <2>1, Invariant, PTL DEF Spec
<1> QED BY <1>1, Invariant, StopsThere, PTL
=============================================================================
