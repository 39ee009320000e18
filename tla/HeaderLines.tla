---------------------------- MODULE HeaderLines -----------------------------
(***************************************************************************)
(* The header block of a request: ehd_http_parse_header_line and the loop  *)
(* of ehd_http_process_request_headers that calls it.  The parser goes     *)
(* through the buffer byte by byte, keeps its state in the request when    *)
(* the bytes run out, and leaves in the request the positions where names  *)
(* and values begin and end.  The handler then makes C strings of them in  *)
(* place: it overwrites the byte behind each with a NUL.                   *)
(*                                                                         *)
(* One step is one turn of the parser's loop.  A byte is known by its      *)
(* class; "name" stands for the letters, the digits and - _ ~ .            *)
(***************************************************************************)
EXTENDS Integers, Sequences

CONSTANTS
  BufSize,    \* bytes of the buffer behind the request line
  MaxRead     \* bytes that one recv returns at most

ASSUME BufAssumption == BufSize \in Nat /\ MaxRead \in Nat

Bytes == {"cr", "lf", "sp", "colon", "name", "other"}
States == {"start", "name", "space_before_value", "value", "space_after_value",
           "almost_done", "header_almost_done", "done"}
Ends == {"header_done", "invalid", "full", "no_memory"}

VARIABLES
  wire,      \* the bytes as they came
  buf,       \* the same buffer, with the NULs the handler has written
  pos,       \* how many of them are parsed: b->pos
  state,     \* r->state; one of Ends when the handler is through
  mark,      \* header_name_start, header_name_end, header_start, header_end
  headers,   \* headers_in.headers
  line       \* where the line being parsed begins (only the properties read it)

vars == <<wire, buf, pos, state, mark, headers, line>>

Marks == [name_start : 0..BufSize, name_end : 0..BufSize,
          start : 0..BufSize, end : 0..BufSize]
NoMark == [name_start |-> 0, name_end |-> 0, start |-> 0, end |-> 0]

TypeOK ==
  /\ wire \in Seq(Bytes) /\ Len(wire) <= BufSize
  /\ buf \in Seq(Bytes \cup {"nul"}) /\ Len(buf) = Len(wire)
  /\ pos \in 0..Len(wire)
  /\ state \in States \cup Ends
  /\ mark \in Marks
  /\ headers \in Seq(Marks)
  /\ line \in 1..(pos + 1)

Init ==
  /\ wire = <<>> /\ buf = <<>> /\ pos = 0
  /\ state = "start" /\ mark = NoMark /\ headers = <<>> /\ line = 1

-----------------------------------------------------------------------------
Running == state \in States
Parsing == Running /\ pos < Len(buf)
Cur == pos + 1            \* the byte that ch = *p++ takes, and p - 1 after it
ch == buf[Cur]

\* All bytes are parsed, and the parser has answered EHD_AGAIN: the handler
\* gives up if the buffer is full, else it reads what has arrived.
Starved == Running /\ state # "done" /\ pos = Len(buf)

BufferFull ==
  /\ Starved /\ Len(buf) = BufSize
  /\ state' = "full" /\ UNCHANGED <<wire, buf, pos, mark, headers, line>>

\* Broken variant: recv is told the size of the whole buffer.
ReceiveOver(chunk) ==
  /\ Starved /\ Len(buf) < BufSize /\ Len(chunk) <= BufSize
  /\ wire' = wire \o chunk /\ buf' = buf \o chunk
  /\ UNCHANGED <<pos, state, mark, headers, line>>

Receive(chunk) ==
  /\ Starved /\ Len(buf) + Len(chunk) <= BufSize
  /\ wire' = wire \o chunk /\ buf' = buf \o chunk
  /\ UNCHANGED <<pos, state, mark, headers, line>>

\* The byte is taken and the parser goes on in state s.
Take(s) == pos' = Cur /\ state' = s /\ UNCHANGED <<wire, buf, headers, line>>
Keep == UNCHANGED mark
Reject == state' = "invalid" /\ UNCHANGED <<wire, buf, pos, mark, headers, line>>

Start ==
  /\ Parsing /\ state = "start"
  /\ \/ ch = "cr" /\ Take("header_almost_done") /\ mark' = [mark EXCEPT !.end = Cur]
     \/ ch = "lf" /\ Take("header_done") /\ mark' = [mark EXCEPT !.end = Cur]
     \/ ch = "name" /\ Take("name") /\ mark' = [mark EXCEPT !.name_start = Cur]
     \/ ch \notin {"cr", "lf", "name"} /\ Reject

\* A name that goes on with / is for a proxy; r->proxy is never set.
Name ==
  /\ Parsing /\ state = "name"
  /\ \/ ch = "name" /\ Take("name") /\ Keep
     \/ /\ ch = "colon" /\ Take("space_before_value")
        /\ mark' = [mark EXCEPT !.name_end = Cur]
     \/ ch \notin {"name", "colon"} /\ Reject

SpaceBeforeValue ==
  /\ Parsing /\ state = "space_before_value"
  /\ \/ ch = "sp" /\ Take("space_before_value") /\ Keep
     \/ ch = "cr" /\ Take("almost_done") /\ mark' = [mark EXCEPT !.start = Cur, !.end = Cur]
     \/ ch = "lf" /\ Take("done") /\ mark' = [mark EXCEPT !.start = Cur, !.end = Cur]
     \/ /\ ch \notin {"sp", "cr", "lf"} /\ Take("value")
        /\ mark' = [mark EXCEPT !.start = Cur]

Value ==
  /\ Parsing /\ state = "value"
  /\ \/ ch = "sp" /\ Take("space_after_value") /\ mark' = [mark EXCEPT !.end = Cur]
     \/ ch = "cr" /\ Take("almost_done") /\ mark' = [mark EXCEPT !.end = Cur]
     \/ ch = "lf" /\ Take("done") /\ mark' = [mark EXCEPT !.end = Cur]
     \/ ch \notin {"sp", "cr", "lf"} /\ Take("value") /\ Keep

\* Broken variant: a space inside the value ends it.
SpaceAfterValueEnds ==
  /\ Parsing /\ state = "space_after_value"
  /\ \/ ch \notin {"cr", "lf"} /\ Take("space_after_value") /\ Keep
     \/ ch = "cr" /\ Take("almost_done") /\ Keep
     \/ ch = "lf" /\ Take("done") /\ Keep

SpaceAfterValue ==
  /\ Parsing /\ state = "space_after_value"
  /\ \/ ch = "sp" /\ Take("space_after_value") /\ Keep
     \/ ch = "cr" /\ Take("almost_done") /\ Keep
     \/ ch = "lf" /\ Take("done") /\ Keep
     \/ ch \notin {"sp", "cr", "lf"} /\ Take("value") /\ Keep

\* Broken variant: any byte may follow the CR.
AlmostDoneAny ==
  /\ Parsing /\ state = "almost_done" /\ Take("done") /\ Keep

AlmostDone ==
  /\ Parsing /\ state = "almost_done"
  /\ \/ ch = "lf" /\ Take("done") /\ Keep
     \/ ch # "lf" /\ Reject

HeaderAlmostDone ==
  /\ Parsing /\ state = "header_almost_done"
  /\ \/ ch = "lf" /\ Take("header_done") /\ Keep
     \/ ch # "lf" /\ Reject

\* Broken variant: the NULs are written behind the byte that ended the string.
LineDoneOff ==
  /\ state = "done"
  /\ headers' = Append(headers, mark)
  /\ buf' = [buf EXCEPT ![mark.name_end] = "nul",
                        ![IF mark.end < Len(buf) THEN mark.end + 1 ELSE mark.end] = "nul"]
  /\ state' = "start" /\ line' = Cur /\ UNCHANGED <<wire, pos, mark>>

\* The parser has answered EHD_OK: the handler takes the header over and
\* terminates its two strings.
LineDone ==
  /\ state = "done"
  /\ headers' = Append(headers, mark)
  /\ buf' = [buf EXCEPT ![mark.name_end] = "nul", ![mark.end] = "nul"]
  /\ state' = "start" /\ line' = Cur /\ UNCHANGED <<wire, pos, mark>>

\* There is no room in the pool for another header or cookie.
NoMemory ==
  /\ state = "done"
  /\ state' = "no_memory" /\ UNCHANGED <<wire, buf, pos, mark, headers, line>>

Parse == \/ Start \/ Name \/ SpaceBeforeValue \/ Value \/ SpaceAfterValue
         \/ AlmostDone \/ HeaderAlmostDone \/ LineDone \/ NoMemory

\* The header block has been read, or the connection is closed.
Over == state \in Ends /\ UNCHANGED vars

Next == \/ \E n \in 1..MaxRead : \E chunk \in [1..n -> Bytes] : Receive(chunk)
        \/ BufferFull \/ Parse \/ Over

Spec == Init /\ [][Next]_vars

-----------------------------------------------------------------------------
(***************************************************************************)
(* What a header block is, said without the parser: lines of a name, a     *)
(* colon and a value between optional spaces, and an empty line.           *)
(***************************************************************************)
Eol == {"cr", "lf"}

\* Positions a to b of the wire are the line that header h describes.
IsLine(h, a, b) ==
  /\ a = h.name_start /\ a < h.name_end /\ h.name_end < h.start
  /\ h.start <= h.end /\ h.end <= b
  /\ \A i \in a..(h.name_end - 1) : wire[i] = "name"
  /\ wire[h.name_end] = "colon"
  /\ \A i \in (h.name_end + 1)..(h.start - 1) : wire[i] = "sp"
  /\ \A i \in h.start..(h.end - 1) : wire[i] \notin Eol
  /\ h.start < h.end => wire[h.start] # "sp" /\ wire[h.end - 1] # "sp"
  /\ \A i \in h.end..(b - 2) : wire[i] = "sp"
  /\ h.end < b => wire[b - 1] \in {"sp", "cr"}
  /\ wire[b] = "lf"

EmptyLine(a, b) == wire[b] = "lf" /\ (a = b \/ (b = a + 1 /\ wire[a] = "cr"))

\* Positions a to b are the beginning of a line, or of the empty line.
IsBeginning(a, b) ==
  \/ a <= b /\ wire[a] \in Eol /\ \A i \in (a + 1)..b : i = a + 1 /\ wire[a] = "cr" /\ wire[i] = "lf"
  \/ \E c \in a..(b + 1) :
       /\ \A i \in a..(c - 1) : wire[i] = "name"
       /\ c <= b => a < c /\ wire[c] = "colon"
       /\ \A i \in (c + 1)..b : /\ wire[i] = "lf" => i = b
                               /\ wire[i - 1] = "cr" => wire[i] = "lf"

\* Every header in the list is one line of the block, with its name and its
\* trimmed value, and the lines follow each other without a gap - in whatever
\* pieces the bytes were read.
HeadersAreLines ==
  /\ \A k \in 1..Len(headers) :
       IsLine(headers[k], headers[k].name_start,
              IF k = Len(headers) THEN line - 1 ELSE headers[k + 1].name_start - 1)
  /\ IF headers = <<>> THEN line = 1 ELSE headers[1].name_start = 1

\* The NULs stay in the lines they belong to: the name and the value of every
\* header can be read as the client sent them, each ended by its NUL, and the
\* bytes the parser has still to see are untouched.
HeadersReadable ==
  /\ \A k \in 1..Len(headers) :
       LET h == headers[k]
       IN /\ buf[h.name_end] = "nul" /\ buf[h.end] = "nul"
          /\ \A i \in (h.name_start..(h.name_end - 1)) \cup (h.start..(h.end - 1)) :
               buf[i] = wire[i]
  /\ \A i \in line..Len(buf) : buf[i] = wire[i]

\* The parser stops where it must: it goes on exactly as long as the bytes can
\* still become a header block, and the block is over at its empty line only.
StopsWhereItMust ==
  /\ Running => IsBeginning(line, pos) /\ ~(line <= pos /\ EmptyLine(line, pos))
  /\ state = "invalid" => ~IsBeginning(line, pos + 1)
  /\ state = "header_done" => EmptyLine(line, pos)
=============================================================================
