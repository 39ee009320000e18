----------------------------- MODULE ComplexUri -----------------------------
(***************************************************************************)
(* ehd_http_parse_complex_uri: the automaton that copies the path of a     *)
(* request which the request-line parser has marked as complex.  It merges *)
(* slashes, resolves "/./" and "/../", decodes %xx and finds the extension *)
(* of the last name.  The copy is as long as the path, and the automaton   *)
(* moves backwards in it.                                                  *)
(*                                                                         *)
(* One step is one turn of its loop.  "hex" stands for the hexadecimal     *)
(* digits, and two of them may decode to any byte.                         *)
(***************************************************************************)
EXTENDS Integers, Sequences

CONSTANT MaxLen     \* the longest path
ASSUME MaxLenAssumption == MaxLen \in Nat

Bytes == {"slash", "dot", "percent", "hex", "other"}
Behind == "behind"  \* the byte behind the path: a space, CR, LF or "?"

VARIABLES
  uri,     \* the path as the client sent it
  p,       \* bytes of it that were taken
  ch,      \* the byte taken last, or what it and the two before decode to
  state, back,    \* state and quoted_state; "underrun" reads before uri.data
  out,     \* what is written: uri.data up to u
  ext,     \* r->uri_ext as an index of out; 0 is NULL
  seen     \* the decoded path so far (only the properties read it)

vars == <<uri, p, ch, state, back, out, ext, seen>>

Plain == {"usual", "slash", "dot", "dot_dot"}
Quotes == {"quoted", "quoted_second"}
Ends == {"done", "bad_quote", "above_root", "no_memory", "underrun"}

\* The request-line parser lets a path begin with a slash only.
Paths == {s \in UNION {[1..n -> Bytes] : n \in 1..MaxLen} : s[1] = "slash"}

TypeOK ==
  /\ uri \in Seq(Bytes) /\ uri # <<>> /\ uri[1] = "slash"
  /\ p \in 1..(Len(uri) + 1)
  /\ ch \in Bytes \cup {Behind}
  /\ state \in Plain \cup Quotes \cup Ends /\ back \in Plain
  /\ out \in Seq(Bytes) /\ ext \in Nat
  /\ seen \in Seq(Bytes)

Init ==
  /\ uri \in Paths
  /\ p = 1 /\ ch = "slash"
  /\ state = "usual" /\ back = "usual"
  /\ out = <<>> /\ ext = 0 /\ seen = <<>>

-----------------------------------------------------------------------------
In(s) == state = s /\ p <= Len(uri)
u == Len(out)

\* ch = *p++; broken variant: the byte is skipped.
TakeTwo == p' = p + 2 /\ ch' = IF p + 2 <= Len(uri) THEN uri[p + 2] ELSE Behind
Take == p' = p + 1 /\ ch' = IF p < Len(uri) THEN uri[p + 1] ELSE Behind

\* A byte of the decoded path has been dealt with, and what became of it.
Eat(s) == /\ state' = s /\ Take /\ seen' = Append(seen, ch)
          /\ UNCHANGED <<uri, back>>
Put == out' = Append(out, ch)
Quote == /\ ch = "percent"
         /\ back' = state /\ state' = "quoted" /\ Take
         /\ UNCHANGED <<uri, out, ext, seen>>
\* The request is invalid, for one of two reasons.
Reject(why) == state' = why /\ UNCHANGED <<uri, p, ch, back, out, ext, seen>>

\* Broken variant: a slash does not end the name that has the extension.
UsualExt ==
  /\ In("usual")
  /\ \/ ch = "slash" /\ Eat("slash") /\ Put /\ UNCHANGED ext
     \/ ch = "dot" /\ Eat("usual") /\ Put /\ ext' = u + 1
     \/ ch \in {"hex", "other"} /\ Eat("usual") /\ Put /\ UNCHANGED ext
     \/ Quote

Usual ==
  /\ In("usual")
  /\ \/ ch = "slash" /\ Eat("slash") /\ Put /\ ext' = 0
     \/ ch = "dot" /\ Eat("usual") /\ Put /\ ext' = u + 1
     \/ ch \in {"hex", "other"} /\ Eat("usual") /\ Put /\ UNCHANGED ext
     \/ Quote

\* Broken variant: slashes are not merged.
SlashPut ==
  /\ In("slash")
  /\ \/ ch = "slash" /\ Eat("slash") /\ Put /\ UNCHANGED ext
     \/ ch = "dot" /\ Eat("dot") /\ Put /\ UNCHANGED ext
     \/ ch \in {"hex", "other"} /\ Eat("usual") /\ Put /\ UNCHANGED ext
     \/ Quote

Slash ==
  /\ In("slash")
  /\ \/ ch = "slash" /\ Eat("slash") /\ UNCHANGED <<out, ext>>
     \/ ch = "dot" /\ Eat("dot") /\ Put /\ UNCHANGED ext
     \/ ch \in {"hex", "other"} /\ Eat("usual") /\ Put /\ UNCHANGED ext
     \/ Quote

\* Broken variant: the slash before the dot is dropped too.
DotTwo ==
  /\ In("dot")
  /\ \/ ch = "slash" /\ Eat("slash") /\ out' = SubSeq(out, 1, u - 2) /\ UNCHANGED ext
     \/ ch = "dot" /\ Eat("dot_dot") /\ Put /\ UNCHANGED ext
     \/ ch \in {"hex", "other"} /\ Eat("usual") /\ Put /\ UNCHANGED ext
     \/ Quote

Dot ==
  /\ In("dot")
  /\ \/ ch = "slash" /\ Eat("slash") /\ out' = SubSeq(out, 1, u - 1) /\ UNCHANGED ext
     \/ ch = "dot" /\ Eat("dot_dot") /\ Put /\ UNCHANGED ext
     \/ ch \in {"hex", "other"} /\ Eat("usual") /\ Put /\ UNCHANGED ext
     \/ Quote

\* Back over "/..", and on to the slash before the name in front of it.
SlashBefore(k) == k \in 1..(u - 4) /\ out[k] = "slash"
Up ==
  \/ u < 4 /\ Reject("above_root")
  \/ u >= 4 /\ IF \E k \in 1..(u - 4) : SlashBefore(k)
               THEN \E k \in 1..(u - 4) :
                      /\ SlashBefore(k) /\ \A j \in (k + 1)..(u - 4) : ~SlashBefore(j)
                      /\ Eat("slash") /\ out' = SubSeq(out, 1, k) /\ UNCHANGED ext
               ELSE Reject("underrun")

\* Broken variant: a name that begins with two dots is taken for "..".
DotDotLong ==
  /\ In("dot_dot")
  /\ \/ ch = "slash" /\ Up
     \/ ch \in {"dot", "hex", "other"} /\ Eat("dot_dot") /\ Put /\ UNCHANGED ext
     \/ Quote

DotDot ==
  /\ In("dot_dot")
  /\ \/ ch = "slash" /\ Up
     \/ ch \in {"dot", "hex", "other"} /\ Eat("usual") /\ Put /\ UNCHANGED ext
     \/ Quote

Quoted ==
  /\ In("quoted")
  /\ \/ /\ ch = "hex" /\ state' = "quoted_second" /\ Take
        /\ UNCHANGED <<uri, back, out, ext, seen>>
     \/ ch # "hex" /\ Reject("bad_quote")

\* Broken variant: the decoded byte is never part of "/./" or "/../".
QuotedSecondUsual ==
  /\ In("quoted_second")
  /\ \/ /\ ch = "hex"
        /\ \E c \in Bytes \ {"percent"} : ch' = c /\ state' = "usual"
        /\ UNCHANGED <<uri, p, back, out, ext, seen>>
     \/ ch # "hex" /\ Reject("bad_quote")

\* A decoded byte is looked at again in the state the quote began in, but a
\* decoded percent sign stands for itself.
QuotedSecond ==
  /\ In("quoted_second")
  /\ \/ /\ ch = "hex"
        /\ \E c \in Bytes \ {"percent"} : ch' = c /\ state' = back
        /\ UNCHANGED <<uri, p, back, out, ext, seen>>
     \/ /\ ch = "hex" /\ state' = "usual" /\ Take
        /\ out' = Append(out, "percent") /\ seen' = Append(seen, "percent")
        /\ UNCHANGED <<uri, back, ext>>
     \/ ch # "hex" /\ Reject("bad_quote")

\* Behind the path: the copy is ended by a NUL, and the extension copied.
Finish ==
  /\ state \in Plain \cup Quotes /\ p > Len(uri)
  /\ state' = "done" \/ (ext # 0 /\ state' = "no_memory")
  /\ UNCHANGED <<uri, p, ch, back, out, ext, seen>>

Over == state \in Ends /\ UNCHANGED vars

Next == \/ Usual \/ Slash \/ Dot \/ DotDot \/ Quoted \/ QuotedSecond
        \/ Finish \/ Over

Spec == Init /\ [][Next]_vars

-----------------------------------------------------------------------------
(***************************************************************************)
(* Properties.                                                             *)
(***************************************************************************)
\* The output pointer stays in the copy: moving back over "/../" finds a slash
\* before it passes the start, and no more is written than was read, so that
\* the NUL behind the path has its byte too.
StaysInCopy == state # "underrun" /\ u < p

\* The copied path is not empty and begins with a slash, which the handlers of
\* the response count on (uri->data[uri->len - 1]).
Rooted == state = "done" => out # <<>> /\ out[1] = "slash"

\* The copy has no empty name and no "." or ".." as a name that a slash ends.
NormalForm ==
  \A i \in 2..u : out[i] = "slash" =>
    /\ out[i - 1] # "slash"
    /\ ~(i > 2 /\ out[i - 1] = "dot" /\ out[i - 2] = "slash")
    /\ ~(i > 3 /\ out[i - 1] = "dot" /\ out[i - 2] = "dot" /\ out[i - 3] = "slash")

\* The extension begins behind the last dot of the last name, and its length
\* is not negative.
ExtensionOfName ==
  ext # 0 => /\ ext <= u /\ out[ext] = "dot"
             /\ \A i \in (ext + 1)..u : out[i] \notin {"dot", "slash"}

(***************************************************************************)
(* What the copy should be, said with a stack of names: a slash ends the   *)
(* name on top; an empty name and "." are dropped, ".." is dropped with    *)
(* the name below it, and below the first name there is nothing.           *)
(***************************************************************************)
NoPath == <<>>
Below(names, n) == SubSeq(names, 1, Len(names) - n)
EndName(names) ==
  LET top == names[Len(names)]
  IN CASE top \in {<<>>, <<"dot">>} -> Below(names, 1) \o <<<<>>>>
       [] top = <<"dot", "dot">> -> IF Len(names) < 2 THEN NoPath
                                    ELSE Below(names, 2) \o <<<<>>>>
       [] OTHER -> Append(names, <<>>)
AddByte(names, c) ==
  CASE names = NoPath -> NoPath
    [] names # NoPath /\ c = "slash" -> EndName(names)
    [] OTHER -> Append(Below(names, 1), Append(names[Len(names)], c))

\* The names of the first n bytes of a path.
Names(path) ==
  LET f[n \in 1..Len(path)] ==
        IF n = 1 THEN <<<<>>>> ELSE AddByte(f[n - 1], path[n])
  IN f[Len(path)]
Written(names) ==
  LET f[n \in 0..Len(names)] ==
        IF n = 0 THEN <<>> ELSE f[n - 1] \o <<"slash">> \o names[n]
  IN f[Len(names)]

\* The copy is the decoded path with its dots resolved, and a path is refused
\* for leading above its root only when the next byte would make it do so.
ResolvesPath ==
  seen # <<>> =>
    /\ out = Written(Names(seen))
    /\ state = "above_root" => ch = "slash" /\ Names(Append(seen, ch)) = NoPath
=============================================================================
