------------------------- MODULE HeaderLinesProofs -------------------------
(***************************************************************************)
(* Proofs about HeaderLines, for buffers of every size and reads of every  *)
(* length: types; headers are lines of the block; their strings can be     *)
(* read where they are; the parser stops where it must.                    *)
(***************************************************************************)
EXTENDS HeaderLines, SequenceTheorems, TLAPS

-----------------------------------------------------------------------------
(***************************************************************************)
(* What the state and the marks say of the line being parsed.              *)
(***************************************************************************)
Colon ==
  /\ mark.name_start = line /\ line < mark.name_end /\ mark.name_end <= pos
  /\ \A i \in line..(mark.name_end - 1) : wire[i] = "name"
  /\ wire[mark.name_end] = "colon"

Begun ==
  /\ mark.name_end < mark.start
  /\ \A i \in (mark.name_end + 1)..(mark.start - 1) : wire[i] = "sp"

\* Positions a to b are a value, trimmed.
Text(a, b) ==
  /\ \A i \in a..b : wire[i] \notin Eol
  /\ a <= b => wire[a] # "sp" /\ wire[b] # "sp"

Spaces(a, b) == \A i \in a..b : wire[i] = "sp"

CurLine ==
  /\ state = "start" => line = pos + 1
  /\ state = "name" => /\ mark.name_start = line /\ line <= pos
                      /\ \A i \in line..pos : wire[i] = "name"
  /\ state \in {"space_before_value", "value", "space_after_value", "almost_done", "done"} => Colon
  /\ state \in {"value", "space_after_value", "almost_done", "done"} => Begun
  /\ state = "space_before_value" => Spaces(mark.name_end + 1, pos)
  /\ state = "value" => mark.start <= pos /\ Text(mark.start, pos)
  /\ state = "space_after_value" => /\ mark.start < mark.end /\ mark.end <= pos
                                   /\ Text(mark.start, mark.end - 1) /\ Spaces(mark.end, pos)
  /\ state = "almost_done" => /\ mark.start <= mark.end /\ mark.end <= pos
                             /\ Text(mark.start, mark.end - 1) /\ Spaces(mark.end, pos - 1)
                             /\ wire[pos] = "cr"
  /\ state = "done" => IsLine(mark, line, pos)
  /\ state = "header_almost_done" => pos = line /\ wire[line] = "cr"

\* The lines before it, and their NULs.
Earlier ==
  /\ \A k \in 1..Len(headers) : headers[k].name_start >= 1 /\ headers[k].end < line
  /\ HeadersAreLines /\ HeadersReadable

\* Where the parser has stopped.
Stopped ==
  /\ state = "invalid" => ~IsBeginning(line, pos + 1)
  /\ state = "header_done" => EmptyLine(line, pos)

Inv == TypeOK /\ CurLine /\ Earlier /\ Stopped

-----------------------------------------------------------------------------
(***************************************************************************)
(* The steps of the parser.                                                *)
(***************************************************************************)
\* Lengths and ranges.
LEMMA Ranges ==
  ASSUME TypeOK
  PROVE  /\ BufSize \in Nat /\ Len(wire) \in Nat /\ Len(buf) = Len(wire) /\ pos \in Nat
         /\ pos <= Len(wire) /\ Len(wire) <= BufSize /\ line \in Nat /\ line >= 1
         /\ line <= pos + 1
         /\ mark.name_start \in Nat /\ mark.name_end \in Nat /\ mark.start \in Nat
         /\ mark.end \in Nat /\ Len(headers) \in Nat
         /\ \A k \in 1..Len(headers) : headers[k] \in Marks
<1>1. BufSize \in Nat /\ Len(wire) \in Nat /\ Len(headers) \in Nat
  BY BufAssumption, LenProperties DEF TypeOK
<1>2. \A k \in 1..Len(headers) : headers[k] \in Marks
  BY ElementOfSeq DEF TypeOK
<1> QED BY <1>1, <1>2 DEF TypeOK, Marks

\* The byte that is parsed is the one that came.
LEMMA Reads ==
  ASSUME TypeOK, Earlier, Parsing
  PROVE  /\ Cur = pos + 1 /\ Cur \in 1..Len(wire) /\ Cur \in 0..BufSize
         /\ ch = wire[Cur] /\ ch \in Bytes
<1>1. Cur = pos + 1 /\ Cur \in 1..Len(wire) /\ Cur \in 0..BufSize /\ Cur \in line..Len(buf)
  BY Ranges DEF Parsing, Cur
<1>2. wire[Cur] \in Bytes
  BY <1>1, ElementOfSeq DEF TypeOK
<1> QED BY <1>1, <1>2 DEF ch, Earlier, HeadersReadable

LEMMA TakeTyped ==
  ASSUME TypeOK, Earlier, Parsing, NEW s \in States \cup Ends, Take(s), mark' \in Marks
  PROVE  TypeOK'
<1>1. pos' = pos + 1 /\ pos + 1 \in 0..Len(wire) /\ line \in 1..(pos + 1 + 1)
  BY Reads, Ranges DEF Take
<1> QED BY <1>1 DEF TypeOK, Take

\* What is said of the earlier lines does not look at pos, state and mark.
LEMMA EarlierSame ==
  ASSUME Earlier, UNCHANGED <<wire, buf, headers, line>>
  PROVE  Earlier'
BY DEF Earlier, HeadersAreLines, HeadersReadable, IsLine

LEMMA MarkSet ==
  ASSUME TypeOK, Earlier, Parsing
  PROVE  /\ [mark EXCEPT !.name_start = Cur] \in Marks
         /\ [mark EXCEPT !.name_end = Cur] \in Marks
         /\ [mark EXCEPT !.start = Cur] \in Marks
         /\ [mark EXCEPT !.end = Cur] \in Marks
         /\ [mark EXCEPT !.start = Cur, !.end = Cur] \in Marks
BY Reads DEF TypeOK, Marks

Stages == \/ Start \/ Name \/ SpaceBeforeValue \/ Value \/ SpaceAfterValue
          \/ AlmostDone \/ HeaderAlmostDone

LEMMA StageTyped ==
  ASSUME TypeOK, Earlier, Stages
  PROVE  TypeOK' /\ Earlier'
<1>0. Parsing
  BY DEF Stages, Start, Name, SpaceBeforeValue, Value, SpaceAfterValue, AlmostDone,
         HeaderAlmostDone
<1>1. CASE Reject
  <2>1. TypeOK'
    BY <1>1 DEF Reject, TypeOK, Ends
  <2> QED BY <1>1, <2>1, EarlierSame DEF Reject
<1>2. CASE ~Reject
  <2>1. PICK s \in States \cup Ends : Take(s)
    BY <1>2 DEF Stages, Start, Name, SpaceBeforeValue, Value, SpaceAfterValue, AlmostDone,
                HeaderAlmostDone, States, Ends
  <2>2. mark' \in Marks
    BY <1>0, <1>2, MarkSet DEF Stages, Start, Name, SpaceBeforeValue, Value, SpaceAfterValue,
       AlmostDone, HeaderAlmostDone, Keep, TypeOK
  <2> QED BY <1>0, <2>1, <2>2, TakeTyped, EarlierSame DEF Take
<1> QED BY <1>1, <1>2

\* CurLine, action by action.
LEMMA StartLine ==
  ASSUME TypeOK, Earlier, CurLine, Start
  PROVE  CurLine'
<1>0. Cur = pos + 1 /\ ch = wire[Cur] /\ line = pos + 1 /\ pos \in Nat
  BY Reads, Ranges DEF Start, CurLine
<1>1. CASE ch = "cr" /\ Take("header_almost_done") /\ mark' = [mark EXCEPT !.end = Cur]
  BY <1>0, <1>1 DEF Take, CurLine
<1>2. CASE ch = "lf" /\ Take("header_done")
  BY <1>0, <1>2 DEF Take, CurLine
<1>3. CASE ch = "name" /\ Take("name") /\ mark' = [mark EXCEPT !.name_start = Cur]
  <2>1. mark'.name_start = line /\ line \in Nat
    BY <1>0, <1>3 DEF TypeOK, Marks
  <2>2. line' = line /\ wire' = wire /\ pos' = line /\ wire[line] = "name"
    BY <1>0, <1>3 DEF Take
  <2>3. line' <= pos' /\ \A i \in line'..pos' : wire'[i] = "name"
    <3>1. line..line = {line} /\ line <= line
      BY <2>1
    <3> QED BY <2>2, <3>1
  <2> QED BY <1>3, <2>1, <2>2, <2>3 DEF Take, CurLine
<1>4. CASE Reject
  BY <1>4 DEF Reject, CurLine
<1> QED BY <1>1, <1>2, <1>3, <1>4 DEF Start

LEMMA NameLine ==
  ASSUME TypeOK, Earlier, CurLine, Name
  PROVE  CurLine'
<1>0. /\ Cur = pos + 1 /\ ch = wire[Cur] /\ pos \in Nat /\ line \in Nat
      /\ mark.name_start = line /\ line <= pos /\ \A i \in line..pos : wire[i] = "name"
  BY Reads, Ranges DEF Name, CurLine
<1>1. CASE ch = "name" /\ Take("name") /\ Keep
  <2>1. mark' = mark /\ wire' = wire /\ pos' = pos + 1 /\ line' = line
    BY <1>0, <1>1 DEF Take, Keep
  <2>2. ASSUME NEW i \in line..(pos + 1) PROVE wire[i] = "name"
    <3>1. i \in line..pos \/ i = pos + 1
      BY <1>0
    <3> QED BY <1>0, <1>1, <3>1
  <2>3. line <= pos + 1
    BY <1>0
  <2>4. mark'.name_start = line' /\ line' <= pos' /\ \A i \in line'..pos' : wire'[i] = "name"
    BY <1>0, <2>1, <2>2, <2>3
  <2> QED BY <1>1, <2>4 DEF Take, CurLine
<1>2. CASE ch = "colon" /\ Take("space_before_value") /\ mark' = [mark EXCEPT !.name_end = Cur]
  <2>1. mark'.name_start = line /\ mark'.name_end = pos + 1
    BY <1>0, <1>2 DEF TypeOK, Marks
  <2>2. Colon'
    <3>1. /\ line' = line /\ wire' = wire /\ pos' = pos + 1 /\ wire[pos + 1] = "colon"
      BY <1>0, <1>2 DEF Take
    <3>2. pos + 1 - 1 = pos /\ line < pos + 1 /\ pos + 1 <= pos + 1
      BY <1>0
    <3> QED BY <1>0, <2>1, <3>1, <3>2 DEF Colon
  <2>3. Spaces(mark.name_end + 1, pos)'
    BY <1>0, <1>2, <2>1 DEF Take, Spaces
  <2> QED BY <1>2, <2>2, <2>3 DEF Take, CurLine
<1>3. CASE Reject
  BY <1>3 DEF Reject, CurLine
<1> QED BY <1>1, <1>2, <1>3 DEF Name

\* Colon stays while the parser goes on and leaves the name alone.
LEMMA ColonSame ==
  ASSUME TypeOK, Colon, NEW s, Take(s), Cur = pos + 1,
         mark'.name_start = mark.name_start, mark'.name_end = mark.name_end
  PROVE  Colon'
BY Ranges DEF Colon, Take

LEMMA BegunSame ==
  ASSUME Begun, UNCHANGED wire, mark'.start = mark.start, mark'.name_end = mark.name_end
  PROVE  Begun'
BY DEF Begun

\* A line that ends in a line feed behind its value and spaces.
LEMMA LineEnds ==
  ASSUME TypeOK, Colon', Begun', pos' = pos + 1, line' = line,
         mark'.start <= mark'.end, mark'.end <= pos', mark'.start \in Nat, mark'.end \in Nat,
         mark'.name_end \in Nat, Text(mark.start, mark.end - 1)',
         \A i \in mark'.end..(pos' - 2) : wire'[i] = "sp",
         mark'.end < pos' => wire'[pos' - 1] \in {"sp", "cr"}, wire'[pos'] = "lf"
  PROVE  IsLine(mark, line, pos)'
<1>1. /\ line' \in Nat /\ pos' \in Nat
  BY Ranges
<1>2. \A i \in mark'.start..(mark'.end - 1) : wire'[i] \notin Eol
  BY DEF Text
<1>3. mark'.start < mark'.end => wire'[mark'.start] # "sp" /\ wire'[mark'.end - 1] # "sp"
  BY DEF Text
<1> QED BY <1>1, <1>2, <1>3 DEF IsLine, Colon, Begun

\* One more space.
LEMMA SpacesMore ==
  ASSUME NEW a \in Nat, pos \in Nat, Spaces(a, pos), wire[pos + 1] = "sp"
  PROVE  Spaces(a, pos + 1)
<1> SUFFICES ASSUME NEW i \in a..(pos + 1) PROVE wire[i] = "sp"
  BY DEF Spaces
<1>1. i \in a..pos \/ i = pos + 1
  OBVIOUS
<1> QED BY <1>1 DEF Spaces

LEMMA BeforeValueLine ==
  ASSUME TypeOK, Earlier, CurLine, SpaceBeforeValue
  PROVE  CurLine'
<1>0. /\ Cur = pos + 1 /\ ch = wire[Cur] /\ pos \in Nat /\ line \in Nat
      /\ mark.name_end \in Nat /\ Colon /\ Spaces(mark.name_end + 1, pos)
  BY Reads, Ranges DEF SpaceBeforeValue, CurLine
<1>1. CASE ch = "sp" /\ Take("space_before_value") /\ Keep
  <2>1. Colon'
    BY <1>0, <1>1, ColonSame DEF Keep
  <2>2. Spaces(mark.name_end + 1, pos)'
    <3>1. mark' = mark /\ wire' = wire /\ pos' = pos + 1 /\ wire[pos + 1] = "sp"
      BY <1>0, <1>1 DEF Take, Keep
    <3>2. mark.name_end + 1 \in Nat
      BY <1>0
    <3>3. Spaces(mark.name_end + 1, pos + 1)
      BY <1>0, <3>1, <3>2, SpacesMore
    <3> QED BY <3>1, <3>3 DEF Spaces
  <2> QED BY <1>1, <2>1, <2>2 DEF Take, CurLine
<1>2. CASE /\ \/ ch = "cr" /\ Take("almost_done")
              \/ ch = "lf" /\ Take("done")
           /\ mark' = [mark EXCEPT !.start = Cur, !.end = Cur]
  <2>1. /\ mark'.name_start = mark.name_start /\ mark'.name_end = mark.name_end
        /\ mark'.start = pos + 1 /\ mark'.end = pos + 1
    BY <1>0, <1>2 DEF TypeOK, Marks
  <2>2. wire' = wire /\ pos' = pos + 1 /\ line' = line
    BY <1>0, <1>2 DEF Take
  <2>3. Colon'
    BY <1>0, <1>2, <2>1, ColonSame
  <2>4. Begun'
    BY <1>0, <2>1, <2>2 DEF Begun, Spaces, Colon
  <2>5. Text(mark.start, mark.end - 1)' /\ Spaces(mark.end, pos - 1)'
    BY <1>0, <2>1, <2>2 DEF Text, Spaces
  <2>6. CASE ch = "cr" /\ Take("almost_done")
    BY <1>0, <2>1, <2>2, <2>3, <2>4, <2>5, <2>6 DEF Take, CurLine
  <2>7. CASE ch = "lf" /\ Take("done")
    <3>1. IsLine(mark, line, pos)'
      BY <1>0, <2>1, <2>2, <2>3, <2>4, <2>5, <2>7, LineEnds
    <3> QED BY <2>3, <2>4, <2>7, <3>1 DEF Take, CurLine
  <2> QED BY <1>2, <2>6, <2>7
<1>3. CASE ch \notin {"sp", "cr", "lf"} /\ Take("value") /\ mark' = [mark EXCEPT !.start = Cur]
  <2>1. /\ mark'.name_start = mark.name_start /\ mark'.name_end = mark.name_end
        /\ mark'.start = pos + 1
    BY <1>0, <1>3 DEF TypeOK, Marks
  <2>2. wire' = wire /\ pos' = pos + 1 /\ line' = line
    BY <1>0, <1>3 DEF Take
  <2>3. Colon'
    BY <1>0, <1>3, <2>1, ColonSame
  <2>4. Begun'
    BY <1>0, <2>1, <2>2 DEF Begun, Spaces, Colon
  <2>5. mark'.start <= pos' /\ Text(mark.start, pos)'
    BY <1>0, <1>3, <2>1, <2>2 DEF Text, Eol
  <2> QED BY <1>3, <2>3, <2>4, <2>5 DEF Take, CurLine
<1> QED BY <1>1, <1>2, <1>3 DEF SpaceBeforeValue

LEMMA ValueLine ==
  ASSUME TypeOK, Earlier, CurLine, Value
  PROVE  CurLine'
<1>0. /\ Cur = pos + 1 /\ ch = wire[Cur] /\ pos \in Nat /\ line \in Nat
      /\ mark.name_end \in Nat /\ mark.start \in Nat
      /\ Colon /\ Begun /\ mark.start <= pos /\ Text(mark.start, pos)
  BY Reads, Ranges DEF Value, CurLine
<1>1. CASE ch \notin {"sp", "cr", "lf"} /\ Take("value") /\ Keep
  <2>1. Colon' /\ Begun'
    BY <1>0, <1>1, ColonSame, BegunSame DEF Keep, Take
  <2>2. wire' = wire /\ pos' = pos + 1 /\ mark' = mark
    BY <1>0, <1>1 DEF Take, Keep
  <2>3. mark'.start <= pos' /\ Text(mark.start, pos)'
    BY <1>0, <1>1, <2>2 DEF Text, Eol
  <2> QED BY <1>1, <2>1, <2>3 DEF Take, CurLine
<1>2. CASE /\ \/ ch = "sp" /\ Take("space_after_value")
              \/ ch = "cr" /\ Take("almost_done")
              \/ ch = "lf" /\ Take("done")
           /\ mark' = [mark EXCEPT !.end = Cur]
  <2>1. /\ mark'.name_start = mark.name_start /\ mark'.name_end = mark.name_end
        /\ mark'.start = mark.start /\ mark'.end = pos + 1
    BY <1>0, <1>2 DEF TypeOK, Marks
  <2>2. wire' = wire /\ pos' = pos + 1 /\ line' = line
    BY <1>0, <1>2 DEF Take
  <2>3. Colon' /\ Begun'
    BY <1>0, <1>2, <2>1, <2>2, ColonSame, BegunSame
  <2>4. pos + 1 - 1 = pos /\ mark'.start < mark'.end /\ mark'.end <= pos'
    BY <1>0, <2>1, <2>2
  <2>5. Text(mark.start, mark.end - 1)'
    BY <1>0, <2>1, <2>2, <2>4 DEF Text
  <2>6. CASE ch = "sp" /\ Take("space_after_value")
    <3>1. Spaces(mark.end, pos)'
      <4>1. (pos + 1)..(pos + 1) = {pos + 1} /\ wire[pos + 1] = "sp"
        BY <1>0, <2>6
      <4> QED BY <2>1, <2>2, <4>1 DEF Spaces
    <3> QED BY <2>3, <2>4, <2>5, <2>6, <3>1 DEF Take, CurLine
  <2>7. CASE ch = "cr" /\ Take("almost_done")
    <3>1. Spaces(mark.end, pos - 1)' /\ mark'.start <= mark'.end /\ wire'[pos'] = "cr"
      BY <1>0, <2>1, <2>2, <2>7 DEF Spaces
    <3> QED BY <2>3, <2>4, <2>5, <2>7, <3>1 DEF Take, CurLine
  <2>8. CASE ch = "lf" /\ Take("done")
    <3>1. IsLine(mark, line, pos)'
      BY <1>0, <2>1, <2>2, <2>3, <2>4, <2>5, <2>8, LineEnds
    <3> QED BY <2>3, <2>8, <3>1 DEF Take, CurLine
  <2> QED BY <1>2, <2>6, <2>7, <2>8
<1> QED BY <1>1, <1>2 DEF Value

LEMMA AfterValueLine ==
  ASSUME TypeOK, Earlier, CurLine, SpaceAfterValue
  PROVE  CurLine'
<1>0. /\ Cur = pos + 1 /\ ch = wire[Cur] /\ pos \in Nat /\ line \in Nat
      /\ mark.name_end \in Nat /\ mark.start \in Nat /\ mark.end \in Nat
      /\ Colon /\ Begun /\ mark.start < mark.end /\ mark.end <= pos
      /\ Text(mark.start, mark.end - 1) /\ Spaces(mark.end, pos)
  BY Reads, Ranges DEF SpaceAfterValue, CurLine
<1>1. PICK s \in {"space_after_value", "almost_done", "done", "value"} : Take(s)
  BY DEF SpaceAfterValue
<1>2. mark' = mark /\ wire' = wire /\ pos' = pos + 1 /\ line' = line
  BY <1>0, <1>1 DEF Take, SpaceAfterValue, Keep
<1>3. Colon' /\ Begun'
  BY <1>0, <1>1, <1>2, ColonSame, BegunSame
<1>4. Text(mark.start, mark.end - 1)'
  BY <1>0, <1>2 DEF Text
<1>5. CASE ch = "sp" /\ Take("space_after_value")
  <2>1. wire[pos + 1] = "sp" /\ mark'.end <= pos'
    BY <1>0, <1>2, <1>5
  <2>2. Spaces(mark.end, pos + 1)
    BY <1>0, <2>1, SpacesMore
  <2>3. Spaces(mark.end, pos)'
    BY <1>2, <2>2 DEF Spaces
  <2> QED BY <1>0, <1>2, <1>3, <1>4, <1>5, <2>1, <2>3 DEF Take, CurLine
<1>6. CASE ch = "cr" /\ Take("almost_done")
  <2>1. /\ Spaces(mark.end, pos - 1)' /\ mark'.start <= mark'.end /\ mark'.end <= pos'
        /\ wire'[pos'] = "cr"
    BY <1>0, <1>2, <1>6 DEF Spaces
  <2> QED BY <1>3, <1>4, <1>6, <2>1 DEF Take, CurLine
<1>7. CASE ch = "lf" /\ Take("done")
  <2>1. /\ mark'.start <= mark'.end /\ mark'.end <= pos'
        /\ \A i \in mark'.end..(pos' - 2) : wire'[i] = "sp"
        /\ wire'[pos' - 1] \in {"sp", "cr"} /\ wire'[pos'] = "lf"
    BY <1>0, <1>2, <1>7 DEF Spaces
  <2>2. IsLine(mark, line, pos)'
    BY <1>0, <1>2, <1>3, <1>4, <2>1, LineEnds
  <2> QED BY <1>3, <1>7, <2>2 DEF Take, CurLine
<1>8. CASE ch \notin {"sp", "cr", "lf"} /\ Take("value")
  <2>1. mark'.start <= pos'
    BY <1>0, <1>2
  <2>2. ASSUME NEW i \in mark'.start..pos' PROVE wire'[i] \notin Eol
    <3>1. \/ i \in mark.start..(mark.end - 1)
          \/ i \in mark.end..pos
          \/ i = Cur
      BY <1>0, <1>2
    <3> QED BY <1>0, <1>2, <1>8, <3>1 DEF Text, Spaces, Eol
  <2>3. wire'[mark'.start] # "sp" /\ wire'[pos'] # "sp"
    BY <1>0, <1>2, <1>8 DEF Text
  <2> QED BY <1>3, <1>8, <2>1, <2>2, <2>3 DEF Take, CurLine, Text
<1> QED BY <1>5, <1>6, <1>7, <1>8 DEF SpaceAfterValue

LEMMA AlmostLines ==
  ASSUME TypeOK, Earlier, CurLine, AlmostDone \/ HeaderAlmostDone
  PROVE  CurLine'
<1>1. CASE AlmostDone /\ ch = "lf" /\ Take("done") /\ Keep
  <2>0. /\ Cur = pos + 1 /\ ch = wire[Cur] /\ pos \in Nat /\ line \in Nat
        /\ mark.name_end \in Nat /\ mark.start \in Nat /\ mark.end \in Nat
        /\ Colon /\ Begun /\ mark.start <= mark.end /\ mark.end <= pos
        /\ Text(mark.start, mark.end - 1) /\ Spaces(mark.end, pos - 1) /\ wire[pos] = "cr"
    BY <1>1, Reads, Ranges DEF AlmostDone, CurLine
  <2>1. mark' = mark /\ wire' = wire /\ pos' = pos + 1 /\ line' = line
    BY <1>1, <2>0 DEF Take, Keep
  <2>2. Colon' /\ Begun'
    BY <1>1, <2>0, <2>1, ColonSame, BegunSame
  <2>3. Text(mark.start, mark.end - 1)'
    BY <2>0, <2>1 DEF Text
  <2>4. /\ mark'.end <= pos' /\ wire'[pos' - 1] = "cr" /\ wire'[pos'] = "lf"
        /\ \A i \in mark'.end..(pos' - 2) : wire'[i] = "sp"
    BY <1>1, <2>0, <2>1 DEF Spaces
  <2>5. IsLine(mark, line, pos)'
    BY <2>0, <2>1, <2>2, <2>3, <2>4, LineEnds
  <2> QED BY <1>1, <2>2, <2>5 DEF Take, CurLine
<1>2. CASE Take("header_done")
  BY <1>2 DEF Take, CurLine
<1>3. CASE Reject
  BY <1>3 DEF Reject, CurLine
<1> QED BY <1>1, <1>2, <1>3 DEF AlmostDone, HeaderAlmostDone

-----------------------------------------------------------------------------
(***************************************************************************)
(* The handler's steps.                                                    *)
(***************************************************************************)
\* Where a line and its strings lie.
LEMMA LineBounds ==
  ASSUME TypeOK, CurLine, state = "done"
  PROVE  /\ mark.name_start = line /\ line < mark.name_end /\ mark.name_end < mark.start
         /\ mark.start <= mark.end /\ mark.end <= pos
         /\ mark.name_end \in 1..Len(buf) /\ mark.end \in 1..Len(buf)
         /\ IsLine(mark, line, pos)
<1>1. IsLine(mark, line, pos)
  BY DEF CurLine
<1> QED BY <1>1, Ranges DEF IsLine

\* What LineDone writes, element by element.
LEMMA Written ==
  ASSUME TypeOK, CurLine, LineDone
  PROVE  /\ buf' \in Seq(Bytes \cup {"nul"}) /\ Len(buf') = Len(buf)
         /\ \A i \in 1..Len(buf) :
              buf'[i] = IF i = mark.name_end \/ i = mark.end THEN "nul" ELSE buf[i]
         /\ headers' \in Seq(Marks) /\ Len(headers') = Len(headers) + 1
         /\ \A k \in 1..Len(headers) : headers'[k] = headers[k]
         /\ headers'[Len(headers) + 1] = mark /\ headers' # <<>>
<1> DEFINE a == mark.name_end
           e == mark.end
           one == [buf EXCEPT ![a] = "nul"]
           two == [one EXCEPT ![e] = "nul"]
           B == Bytes \cup {"nul"}
<1>1. a \in 1..Len(buf) /\ e \in 1..Len(buf) /\ buf \in Seq(B) /\ "nul" \in B
  BY LineBounds DEF LineDone, TypeOK
<1>2. buf' = two
  BY DEF LineDone
<1> HIDE DEF a, e, B
<1>3. /\ one \in Seq(B) /\ Len(one) = Len(buf)
      /\ \A i \in 1..Len(buf) : one[i] = IF i = a THEN "nul" ELSE buf[i]
  BY <1>1, ExceptSeq
<1> HIDE DEF one
<1>4. /\ two \in Seq(B) /\ Len(two) = Len(buf)
      /\ \A i \in 1..Len(buf) : two[i] = IF i = e THEN "nul" ELSE one[i]
  BY <1>1, <1>3, ExceptSeq
<1> HIDE DEF two
<1>5. /\ buf' \in Seq(Bytes \cup {"nul"}) /\ Len(buf') = Len(buf)
      /\ \A i \in 1..Len(buf) :
           buf'[i] = IF i = mark.name_end \/ i = mark.end THEN "nul" ELSE buf[i]
  BY <1>2, <1>3, <1>4 DEF B, a, e
<1>6. headers \in Seq(Marks) /\ mark \in Marks /\ headers' = Append(headers, mark)
  BY DEF LineDone, TypeOK
<1> QED BY <1>5, <1>6, AppendProperties

\* The positions of an earlier header.
LEMMA HeaderBounds ==
  ASSUME TypeOK, Earlier, NEW k \in 1..Len(headers)
  PROVE  LET h == headers[k]
         IN /\ h.name_start \in Nat /\ h.name_end \in Nat /\ h.start \in Nat /\ h.end \in Nat
            /\ 1 <= h.name_start /\ h.name_start < h.name_end /\ h.name_end < h.start
            /\ h.start <= h.end /\ h.end < line /\ line <= Len(buf) + 1
<1>1. headers[k] \in Marks
  BY Ranges
<1>2. line <= Len(buf) + 1
  BY Ranges
<1> QED BY <1>1, <1>2 DEF Earlier, HeadersAreLines, IsLine, Marks

LEMMA LineDoneRight ==
  ASSUME TypeOK, Earlier, CurLine, LineDone
  PROVE  TypeOK' /\ Earlier' /\ CurLine'
<1> DEFINE n == Len(headers)
<1>0. /\ state = "done" /\ state' = "start" /\ line' = pos + 1
      /\ wire' = wire /\ pos' = pos /\ mark' = mark
  BY DEF LineDone, Cur
<1>1. /\ mark.name_start = line /\ line < mark.name_end /\ mark.name_end < mark.start
      /\ mark.start <= mark.end /\ mark.end <= pos /\ pos <= Len(buf)
      /\ IsLine(mark, line, pos) /\ line \in Nat /\ line >= 1 /\ pos \in Nat
      /\ mark.name_end \in Nat /\ mark.start \in Nat /\ mark.end \in Nat /\ n \in Nat
      /\ Len(buf) \in Nat
  BY <1>0, LineBounds, Ranges
<1>2. TypeOK'
  <2>1. line' \in 1..(pos' + 1)
    BY <1>0, <1>1
  <2> QED BY <1>0, <2>1, Written DEF TypeOK, States
<1>3. CurLine'
  BY <1>0 DEF CurLine
<1>4. ASSUME NEW k \in 1..Len(headers')
      PROVE  \/ k \in 1..n /\ headers'[k] = headers[k] /\ k # n + 1
             \/ k = n + 1 /\ headers'[k] = mark
  BY <1>1, Written
<1>5. \A k \in 1..Len(headers') : headers'[k].name_start >= 1 /\ headers'[k].end < line'
  <2> SUFFICES ASSUME NEW k \in 1..Len(headers')
               PROVE  headers'[k].name_start >= 1 /\ headers'[k].end < line'
    OBVIOUS
  <2>1. CASE k \in 1..n /\ headers'[k] = headers[k]
    BY <1>0, <1>1, <2>1, HeaderBounds
  <2>2. CASE headers'[k] = mark
    BY <1>0, <1>1, <2>2
  <2> QED BY <1>4, <2>1, <2>2
<1>6. HeadersAreLines'
  <2>1. ASSUME NEW k \in 1..Len(headers')
        PROVE  IsLine(headers'[k], headers'[k].name_start,
                      IF k = Len(headers') THEN line' - 1 ELSE headers'[k + 1].name_start - 1)
    <3>0. Len(headers') = n + 1 /\ line' - 1 = pos
      BY <1>0, <1>1, Written
    <3>1. CASE k = n + 1 /\ headers'[k] = mark
      BY <1>1, <3>0, <3>1
    <3>2. CASE k \in 1..n /\ headers'[k] = headers[k] /\ k # n + 1
      <4>1. IsLine(headers[k], headers[k].name_start,
                   IF k = n THEN line - 1 ELSE headers[k + 1].name_start - 1)
        BY <3>2 DEF Earlier, HeadersAreLines
      <4>2. CASE k = n
        <5>1. headers'[k + 1].name_start - 1 = line - 1
          BY <1>1, <4>2, Written
        <5> QED BY <3>0, <3>2, <4>1, <4>2, <5>1
      <4>3. CASE k # n
        <5>1. k + 1 \in 1..n
          BY <1>1, <3>2, <4>3
        <5>2. headers'[k + 1] = headers[k + 1]
          BY <5>1, Written
        <5> QED BY <3>0, <3>2, <4>1, <4>3, <5>2
      <4> QED BY <4>2, <4>3
    <3> QED BY <1>4, <3>1, <3>2
  <2>2. \A h, a, b : IsLine(h, a, b)' <=> IsLine(h, a, b)
    BY <1>0 DEF IsLine
  <2>3. headers'[1].name_start = 1
    <3>1. CASE n = 0
      <4>1. headers = <<>>
        BY <3>1, EmptySeq DEF TypeOK
      <4>2. line = 1
        BY <4>1 DEF Earlier, HeadersAreLines
      <4> QED BY <1>1, <3>1, <4>2, Written
    <3>2. CASE n # 0
      <4>1. headers # <<>> /\ 1 \in 1..n
        BY <1>1, <3>2, EmptySeq
      <4> QED BY <4>1, Written DEF Earlier, HeadersAreLines
    <3> QED BY <3>1, <3>2
  <2> QED BY <1>0, <2>1, <2>2, <2>3, Written DEF HeadersAreLines, IsLine
<1>7. HeadersReadable'
  <2>1. \A i \in 1..Len(buf) :
          buf'[i] = IF i = mark.name_end \/ i = mark.end THEN "nul" ELSE buf[i]
    BY Written
  <2>2. \A i \in line'..Len(buf') : buf'[i] = wire'[i]
    <3> SUFFICES ASSUME NEW i \in line'..Len(buf') PROVE buf'[i] = wire'[i]
      OBVIOUS
    <3>1. i \in line..Len(buf) /\ i \in 1..Len(buf) /\ i # mark.name_end /\ i # mark.end
      BY <1>0, <1>1, Written
    <3> QED BY <1>0, <2>1, <3>1 DEF Earlier, HeadersReadable
  <2>3. ASSUME NEW k \in 1..Len(headers')
        PROVE  LET h == headers'[k]
               IN /\ buf'[h.name_end] = "nul" /\ buf'[h.end] = "nul"
                  /\ \A i \in (h.name_start..(h.name_end - 1)) \cup (h.start..(h.end - 1)) :
                       buf'[i] = wire'[i]
    <3>1. CASE headers'[k] = mark
      <4>1. buf'[mark.name_end] = "nul" /\ buf'[mark.end] = "nul"
        BY <1>0, <2>1, LineBounds
      <4>2. ASSUME NEW i \in (mark.name_start..(mark.name_end - 1)) \cup (mark.start..(mark.end - 1))
            PROVE  buf'[i] = wire'[i]
        <5>1. CASE i \in mark.name_start..(mark.name_end - 1)
          <6>1. i \in line..Len(buf) /\ i \in 1..Len(buf) /\ i # mark.name_end /\ i # mark.end
            BY <1>1, <5>1
          <6> QED BY <1>0, <2>1, <6>1 DEF Earlier, HeadersReadable
        <5>2. CASE i \in mark.start..(mark.end - 1)
          <6>1. i \in line..Len(buf) /\ i \in 1..Len(buf) /\ i # mark.name_end /\ i # mark.end
            BY <1>1, <5>2
          <6> QED BY <1>0, <2>1, <6>1 DEF Earlier, HeadersReadable
        <5> QED BY <5>1, <5>2
      <4> QED BY <3>1, <4>1, <4>2
    <3>2. CASE k \in 1..n /\ headers'[k] = headers[k]
      <4> DEFINE h == headers[k]
      <4>1. /\ h.name_start \in Nat /\ h.name_end \in Nat /\ h.start \in Nat /\ h.end \in Nat
            /\ 1 <= h.name_start /\ h.name_start < h.name_end /\ h.name_end < h.start
            /\ h.start <= h.end /\ h.end < line
        BY <3>2, HeaderBounds
      <4>2. /\ buf[h.name_end] = "nul" /\ buf[h.end] = "nul"
            /\ \A i \in (h.name_start..(h.name_end - 1)) \cup (h.start..(h.end - 1)) :
                 buf[i] = wire[i]
        BY <3>2 DEF Earlier, HeadersReadable
      <4> HIDE DEF h
      <4>3. \A i \in 1..(line - 1) : buf'[i] = buf[i]
        BY <1>1, <2>1
      <4>4. /\ h.name_end \in 1..(line - 1) /\ h.end \in 1..(line - 1)
            /\ \A i \in h.name_start..(h.name_end - 1) : i \in 1..(line - 1)
            /\ \A i \in h.start..(h.end - 1) : i \in 1..(line - 1)
        <5>1. line - 1 \in Nat
          BY <1>1
        <5>2. h.name_end \in 1..(line - 1) /\ h.end \in 1..(line - 1)
          BY <1>1, <4>1
        <5>3. \A i \in h.name_start..(h.name_end - 1) : i \in 1..(line - 1)
          BY <1>1, <4>1
        <5>4. \A i \in h.start..(h.end - 1) : i \in 1..(line - 1)
          BY <1>1, <4>1
        <5> QED BY <5>2, <5>3, <5>4
      <4>5. /\ buf'[h.name_end] = "nul" /\ buf'[h.end] = "nul"
            /\ \A i \in (h.name_start..(h.name_end - 1)) \cup (h.start..(h.end - 1)) :
                 buf'[i] = wire'[i]
        BY <1>0, <4>2, <4>3, <4>4
      <4> QED BY <3>2, <4>5 DEF h
    <3> QED BY <1>4, <3>1, <3>2
  <2> QED BY <2>2, <2>3 DEF HeadersReadable
<1> QED BY <1>2, <1>3, <1>5, <1>6, <1>7 DEF Earlier

\* Bytes behind those that came: nothing that was there changes.
LEMMA Longer ==
  ASSUME TypeOK, Earlier, NEW n \in Nat, NEW chunk \in [1..n -> Bytes], Receive(chunk)
  PROVE  /\ wire' \in Seq(Bytes) /\ buf' \in Seq(Bytes \cup {"nul"})
         /\ Len(wire') = Len(wire) + n /\ Len(buf') = Len(wire')
         /\ Len(wire') <= BufSize
         /\ \A i \in 1..Len(wire) : wire'[i] = wire[i] /\ buf'[i] = buf[i]
         /\ \A i \in line..Len(wire') : buf'[i] = wire'[i]
<1> DEFINE B == Bytes \cup {"nul"}
           w == Len(wire)
<1>1. /\ chunk \in Seq(Bytes) /\ chunk \in Seq(B) /\ Len(chunk) = n
      /\ \A i \in 1..n : chunk[i] \in Bytes
  <2>1. chunk \in Seq(Bytes) /\ Len(chunk) = n
    BY LenProperties
  <2>2. chunk \in [1..n -> B]
    OBVIOUS
  <2>3. chunk \in Seq(B)
    BY <2>2
  <2> QED BY <2>1, <2>3
<1>2. /\ wire \in Seq(Bytes) /\ buf \in Seq(B) /\ Len(buf) = w /\ w \in Nat
      /\ wire' = wire \o chunk /\ buf' = buf \o chunk
      /\ w + n <= BufSize /\ line \in Nat /\ line >= 1
  BY <1>1, Ranges DEF TypeOK, Receive
<1> HIDE DEF B, w
<1>3. /\ wire' \in Seq(Bytes) /\ Len(wire') = w + n
      /\ \A i \in 1..(w + n) : wire'[i] = IF i <= w THEN wire[i] ELSE chunk[i - w]
  BY <1>1, <1>2, ConcatProperties DEF w
<1>4. /\ buf' \in Seq(B) /\ Len(buf') = w + n
      /\ \A i \in 1..(w + n) : buf'[i] = IF i <= w THEN buf[i] ELSE chunk[i - w]
  BY <1>1, <1>2, ConcatProperties
<1>5. \A i \in 1..w : i \in 1..(w + n) /\ i <= w
  BY <1>2
<1>6. ASSUME NEW i \in line..(w + n) PROVE buf'[i] = wire'[i]
  <2>1. i \in 1..(w + n) /\ (i <= w => i \in line..w)
    BY <1>2
  <2>2. i <= w => buf[i] = wire[i]
    BY <1>2, <2>1 DEF Earlier, HeadersReadable
  <2> QED BY <1>3, <1>4, <2>1, <2>2
<1>7. \A i \in 1..w : wire'[i] = wire[i] /\ buf'[i] = buf[i]
  BY <1>3, <1>4, <1>5
<1> QED BY <1>2, <1>3, <1>4, <1>6, <1>7 DEF B, w

\* CurLine looks at nothing behind pos.
LEMMA CurLineSame ==
  ASSUME TypeOK, CurLine, state # "done", UNCHANGED <<pos, state, mark, line>>,
         \A i \in 1..pos : wire'[i] = wire[i]
  PROVE  CurLine'
<1>0. /\ pos \in Nat /\ line \in Nat /\ line >= 1 /\ line <= pos + 1
      /\ mark.name_start \in Nat /\ mark.name_end \in Nat /\ mark.start \in Nat
      /\ mark.end \in Nat
  BY Ranges
<1>1. ASSUME NEW a \in Nat, NEW b \in Nat, a >= 1, b <= pos
      PROVE  /\ Text(a, b) => \A i \in a..b : wire'[i] \notin Eol
             /\ Text(a, b) => (a <= b => wire'[a] # "sp" /\ wire'[b] # "sp")
             /\ Spaces(a, b) => \A i \in a..b : wire'[i] = "sp"
  BY <1>0, <1>1 DEF Text, Spaces
<1>2. Colon => Colon'
  BY <1>0 DEF Colon
<1>3. Colon /\ Begun /\ mark.start <= pos + 1 => Begun'
  BY <1>0 DEF Colon, Begun
<1>4. CASE state = "name"
  BY <1>0, <1>4 DEF CurLine
<1>5. CASE state = "space_before_value"
  <2>1. Colon /\ Spaces(mark.name_end + 1, pos)
    BY <1>5 DEF CurLine
  <2>2. mark.name_end + 1 \in Nat /\ mark.name_end + 1 >= 1
    BY <1>0
  <2>3. \A i \in (mark.name_end + 1)..pos : wire'[i] = "sp"
    BY <1>0, <1>1, <2>1, <2>2
  <2> QED BY <1>2, <1>5, <2>1, <2>3 DEF CurLine, Spaces
<1>6. CASE state = "value"
  <2>1. Colon /\ Begun /\ mark.start <= pos /\ Text(mark.start, pos)
    BY <1>6 DEF CurLine
  <2>2. mark.start >= 1
    BY <1>0, <2>1 DEF Begun
  <2>3. Text(mark.start, pos)'
    BY <1>0, <1>1, <2>1, <2>2 DEF Text
  <2>4. Colon' /\ Begun'
    BY <1>0, <1>2, <1>3, <2>1
  <2> QED BY <1>6, <2>1, <2>3, <2>4 DEF CurLine
<1>7. CASE state = "space_after_value"
  <2>1. /\ Colon /\ Begun /\ mark.start < mark.end /\ mark.end <= pos
        /\ Text(mark.start, mark.end - 1) /\ Spaces(mark.end, pos)
    BY <1>7 DEF CurLine
  <2>2. mark.start >= 1 /\ mark.end >= 1 /\ mark.end - 1 \in Nat /\ mark.end - 1 <= pos
    BY <1>0, <2>1 DEF Begun
  <2>3. Text(mark.start, mark.end - 1)'
    BY <1>0, <1>1, <2>1, <2>2 DEF Text
  <2>4. Spaces(mark.end, pos)'
    BY <1>0, <1>1, <2>1, <2>2 DEF Spaces
  <2>5. Colon' /\ Begun'
    BY <1>0, <1>2, <1>3, <2>1
  <2> QED BY <1>7, <2>1, <2>3, <2>4, <2>5 DEF CurLine
<1>8. CASE state = "almost_done"
  <2>1. /\ Colon /\ Begun /\ mark.start <= mark.end /\ mark.end <= pos
        /\ Text(mark.start, mark.end - 1) /\ Spaces(mark.end, pos - 1) /\ wire[pos] = "cr"
    BY <1>8 DEF CurLine
  <2>2. /\ mark.start >= 1 /\ mark.end >= 1 /\ mark.end - 1 \in Nat /\ mark.end - 1 <= pos
        /\ pos - 1 \in Nat /\ pos - 1 <= pos /\ pos \in 1..pos
    BY <1>0, <2>1 DEF Begun
  <2>3. Text(mark.start, mark.end - 1)'
    BY <1>0, <1>1, <2>1, <2>2 DEF Text
  <2>4. Spaces(mark.end, pos - 1)'
    BY <1>0, <1>1, <2>1, <2>2 DEF Spaces
  <2>5. Colon' /\ Begun'
    BY <1>0, <1>2, <1>3, <2>1
  <2> QED BY <1>8, <2>1, <2>2, <2>3, <2>4, <2>5 DEF CurLine
<1>9. CASE state = "header_almost_done"
  BY <1>0, <1>9 DEF CurLine
<1>10. CASE state \in {"start"} \cup Ends
  BY <1>10 DEF CurLine, Ends
<1> QED BY <1>4, <1>5, <1>6, <1>7, <1>8, <1>9, <1>10 DEF TypeOK, States

LEMMA ReceiveRight ==
  ASSUME TypeOK, Earlier, CurLine, NEW n \in Nat, NEW chunk \in [1..n -> Bytes], Receive(chunk)
  PROVE  TypeOK' /\ Earlier' /\ CurLine'
<1>0. /\ Len(wire) \in Nat /\ Len(buf) = Len(wire) /\ pos \in Nat /\ pos <= Len(wire)
      /\ line \in Nat /\ line >= 1 /\ line <= pos + 1
      /\ UNCHANGED <<pos, state, mark, headers, line>> /\ state # "done"
  BY Ranges DEF Receive, Starved
<1>1. pos' \in 0..Len(wire')
  BY <1>0, Longer
<1>2. TypeOK'
  BY <1>0, <1>1, Longer DEF TypeOK
<1>3. CurLine'
  <2>1. \A i \in 1..pos : i \in 1..Len(wire)
    BY <1>0
  <2>2. \A i \in 1..pos : wire'[i] = wire[i]
    BY <2>1, Longer
  <2> QED BY <1>0, <2>2, CurLineSame
<1>4. HeadersAreLines'
  <2>1. ASSUME NEW k \in 1..Len(headers), NEW b \in Nat, b <= Len(wire),
               IsLine(headers[k], headers[k].name_start, b)
        PROVE  IsLine(headers[k], headers[k].name_start, b)'
    <3> DEFINE h == headers[k]
    <3>1. /\ h.name_start \in Nat /\ h.name_end \in Nat /\ h.start \in Nat /\ h.end \in Nat
          /\ 1 <= h.name_start /\ h.name_start < h.name_end /\ h.name_end < h.start
          /\ h.start <= h.end
      BY HeaderBounds
    <3>2. IsLine(h, h.name_start, b) /\ h.end <= b
      BY <2>1 DEF IsLine
    <3>3. \A i \in 1..Len(wire) : wire'[i] = wire[i]
      BY Longer
    <3>4. headers'[k] = h
      BY <1>0
    <3> HIDE DEF h
    <3>5. /\ \A i \in h.name_start..(h.name_end - 1) : i \in 1..Len(wire)
          /\ h.name_end \in 1..Len(wire)
          /\ \A i \in (h.name_end + 1)..(h.start - 1) : i \in 1..Len(wire)
          /\ \A i \in h.start..(h.end - 1) : i \in 1..Len(wire)
      <4>1. h.end <= Len(wire)
        BY <1>0, <2>1, <3>1, <3>2
      <4>2. \A i \in h.name_start..(h.name_end - 1) : i \in 1..Len(wire)
        BY <1>0, <3>1, <4>1
      <4>3. h.name_end \in 1..Len(wire)
        BY <1>0, <3>1, <4>1
      <4>4. \A i \in (h.name_end + 1)..(h.start - 1) : i \in 1..Len(wire)
        BY <1>0, <3>1, <4>1
      <4>5. \A i \in h.start..(h.end - 1) : i \in 1..Len(wire)
        BY <1>0, <3>1, <4>1
      <4> QED BY <4>2, <4>3, <4>4, <4>5
    <3>6. /\ h.start < h.end => h.start \in 1..Len(wire) /\ h.end - 1 \in 1..Len(wire)
          /\ \A i \in h.end..(b - 2) : i \in 1..Len(wire)
          /\ h.end < b => b - 1 \in 1..Len(wire)
          /\ b \in 1..Len(wire)
      BY <1>0, <2>1, <3>1, <3>2
    <3>7. IsLine(h, h.name_start, b)'
      BY <3>2, <3>3, <3>5, <3>6, <3>4 DEF IsLine, h
    <3> QED BY <3>7 DEF h
  <2>2. ASSUME NEW k \in 1..Len(headers)
        PROVE  (IsLine(headers[k], headers[k].name_start,
                       IF k = Len(headers) THEN line - 1 ELSE headers[k + 1].name_start - 1))'
    <3> DEFINE b == IF k = Len(headers) THEN line - 1 ELSE headers[k + 1].name_start - 1
    <3>1. b \in Nat /\ b <= Len(wire)
      <4>1. CASE k = Len(headers)
        BY <1>0, <4>1
      <4>2. CASE k # Len(headers)
        <5>1. k + 1 \in 1..Len(headers)
          BY <4>2, Ranges
        <5>2. LET h == headers[k + 1]
              IN h.name_start \in Nat /\ 1 <= h.name_start /\ h.name_start < line
          BY <1>0, <5>1, HeaderBounds
        <5> QED BY <1>0, <4>2, <5>2
      <4> QED BY <4>1, <4>2
    <3>2. IsLine(headers[k], headers[k].name_start, b)
      BY DEF Earlier, HeadersAreLines
    <3>3. b' = b
      BY <1>0
    <3> HIDE DEF b
    <3>4. IsLine(headers[k], headers[k].name_start, b)'
      BY <2>1, <3>1, <3>2, <3>3 DEF IsLine
    <3> QED BY <3>4 DEF b
  <2> QED BY <1>0, <2>2 DEF Earlier, HeadersAreLines
<1>5. HeadersReadable'
  <2>1. ASSUME NEW k \in 1..Len(headers)
        PROVE  LET h == headers[k]
               IN /\ buf'[h.name_end] = "nul" /\ buf'[h.end] = "nul"
                  /\ \A i \in (h.name_start..(h.name_end - 1)) \cup (h.start..(h.end - 1)) :
                       buf'[i] = wire'[i]
    <3> DEFINE h == headers[k]
    <3>1. /\ h.name_start \in Nat /\ h.name_end \in Nat /\ h.start \in Nat /\ h.end \in Nat
          /\ 1 <= h.name_start /\ h.name_start < h.name_end /\ h.name_end < h.start
          /\ h.start <= h.end /\ h.end < line
      BY HeaderBounds
    <3>2. /\ buf[h.name_end] = "nul" /\ buf[h.end] = "nul"
          /\ \A i \in (h.name_start..(h.name_end - 1)) \cup (h.start..(h.end - 1)) :
               buf[i] = wire[i]
      BY DEF Earlier, HeadersReadable
    <3>3. \A i \in 1..Len(wire) : wire'[i] = wire[i] /\ buf'[i] = buf[i]
      BY Longer
    <3> HIDE DEF h
    <3>4. h.name_end \in 1..Len(wire) /\ h.end \in 1..Len(wire)
      BY <1>0, <3>1
    <3>5. \A i \in h.name_start..(h.name_end - 1) : i \in 1..Len(wire)
      BY <1>0, <3>1
    <3>6. \A i \in h.start..(h.end - 1) : i \in 1..Len(wire)
      BY <1>0, <3>1
    <3>7. /\ buf'[h.name_end] = "nul" /\ buf'[h.end] = "nul"
          /\ \A i \in (h.name_start..(h.name_end - 1)) \cup (h.start..(h.end - 1)) :
               buf'[i] = wire'[i]
      BY <3>2, <3>3, <3>4, <3>5, <3>6
    <3> QED BY <3>7 DEF h
  <2>2. \A i \in line..Len(buf') : buf'[i] = wire'[i]
    BY Longer
  <2> QED BY <1>0, <2>1, <2>2 DEF HeadersReadable
<1> QED BY <1>0, <1>2, <1>3, <1>4, <1>5 DEF Earlier

-----------------------------------------------------------------------------
(***************************************************************************)
(* Beginnings of lines.                                                    *)
(***************************************************************************)
\* Behind the colon a line feed comes last, and a CR before it.
LEMMA Goes ==
  ASSUME TypeOK, Colon, \A i \in mark.name_end..(pos - 1) : wire[i] # "lf",
         \A i \in mark.name_end..(pos - 1) : wire[i] = "cr" => i = pos - 1 /\ wire[pos] = "lf"
  PROVE  IsBeginning(line, pos)
<1> DEFINE c == mark.name_end
<1>1. /\ pos \in Nat /\ line \in Nat /\ c \in Nat /\ line < c /\ c <= pos
      /\ wire[c] = "colon" /\ \A i \in line..(c - 1) : wire[i] = "name"
  BY Ranges DEF Colon
<1>2. c \in line..(pos + 1)
  BY <1>1
<1>3. ASSUME NEW i \in (c + 1)..pos
      PROVE  (wire[i] = "lf" => i = pos) /\ (wire[i - 1] = "cr" => wire[i] = "lf")
  <2>1. i - 1 \in c..(pos - 1) /\ (i # pos => i \in c..(pos - 1)) /\ (i - 1 = pos - 1 => i = pos)
    BY <1>1
  <2> QED BY <2>1
<1> HIDE DEF c
<1> QED BY <1>1, <1>2, <1>3 DEF IsBeginning

LEMMA BeginsWithName ==
  ASSUME TypeOK, line <= pos, wire[line] = "name"
  PROVE  ~EmptyLine(line, pos)
BY DEF EmptyLine

LEMMA Begins ==
  ASSUME TypeOK, CurLine, Running
  PROVE  IsBeginning(line, pos) /\ ~(line <= pos /\ EmptyLine(line, pos))
<1>0. /\ pos \in Nat /\ line \in Nat /\ mark.name_end \in Nat /\ mark.start \in Nat
      /\ mark.end \in Nat
  BY Ranges
<1>1. CASE state = "start"
  <2>1. line = pos + 1 /\ line \in line..(pos + 1) /\ ~(line <= pos)
    BY <1>0, <1>1 DEF CurLine
  <2>2. line..(line - 1) = {} /\ (line + 1)..pos = {}
    BY <1>0, <2>1
  <2> QED BY <2>1, <2>2 DEF IsBeginning
<1>2. CASE state = "name"
  <2>1. line <= pos /\ \A i \in line..pos : wire[i] = "name"
    BY <1>2 DEF CurLine
  <2>2. /\ pos + 1 \in line..(pos + 1) /\ ~(pos + 1 <= pos) /\ (pos + 1) - 1 = pos
        /\ ((pos + 1) + 1)..pos = {} /\ line \in line..pos
    BY <1>0, <2>1
  <2>3. IsBeginning(line, pos)
    <3> DEFINE c == pos + 1
    <3>1. /\ c \in line..(pos + 1) /\ \A i \in line..(c - 1) : wire[i] = "name"
          /\ ~(c <= pos) /\ (c + 1)..pos = {}
      BY <2>1, <2>2
    <3> HIDE DEF c
    <3> QED BY <3>1 DEF IsBeginning
  <2> QED BY <2>1, <2>2, <2>3, BeginsWithName
<1>3. CASE Colon
  <2>1. wire[line] = "name" /\ line <= pos /\ mark.name_end <= pos
        /\ wire[mark.name_end] = "colon"
    BY <1>0, <1>3 DEF Colon
  <2>2. CASE \A i \in mark.name_end..(pos - 1) : wire[i] \notin Eol
    BY <1>3, <2>1, <2>2, Goes, BeginsWithName DEF Eol
  <2>3. CASE state = "space_before_value"
    <3>1. \A i \in mark.name_end..(pos - 1) :
            i = mark.name_end \/ i \in (mark.name_end + 1)..pos
      BY <1>0
    <3> QED BY <2>1, <2>2, <2>3, <3>1 DEF CurLine, Spaces, Eol
  <2>4. CASE state \in {"value", "space_after_value", "almost_done"}
    <3>1. ASSUME NEW i \in mark.name_end..(pos - 1) PROVE wire[i] \notin Eol
      <4>1. \/ i = mark.name_end
            \/ i \in (mark.name_end + 1)..(mark.start - 1)
            \/ mark.start <= i /\ i <= pos - 1
        BY <1>0
      <4>2. CASE state = "value" /\ mark.start <= i
        <5>1. i \in mark.start..pos
          BY <1>0, <4>2
        <5> QED BY <4>2, <5>1 DEF CurLine, Text
      <4>3. CASE state \in {"space_after_value", "almost_done"} /\ mark.start <= i
        <5>1. i \in mark.start..(mark.end - 1) \/ (i \in mark.end..pos /\ i \in mark.end..(pos - 1))
          BY <1>0, <4>3
        <5> QED BY <4>3, <5>1 DEF CurLine, Text, Spaces, Eol
      <4>4. CASE i = mark.name_end
        BY <2>1, <4>4 DEF Eol
      <4>5. CASE i \in (mark.name_end + 1)..(mark.start - 1)
        BY <2>4, <4>5 DEF CurLine, Begun, Eol
      <4> QED BY <2>4, <4>1, <4>2, <4>3, <4>4, <4>5
    <3> QED BY <2>2, <3>1
  <2>5. CASE state = "done"
    <3>1. IsLine(mark, line, pos)
      BY <2>5 DEF CurLine
    <3>2. ASSUME NEW i \in mark.name_end..(pos - 1)
          PROVE  wire[i] # "lf" /\ (wire[i] = "cr" => i = pos - 1 /\ wire[pos] = "lf")
      <4>1. \/ i = mark.name_end
            \/ i \in (mark.name_end + 1)..(mark.start - 1)
            \/ i \in mark.start..(mark.end - 1)
            \/ i \in mark.end..(pos - 2)
            \/ i = pos - 1 /\ mark.end < pos
        BY <1>0
      <4> QED BY <3>1, <4>1 DEF IsLine, Eol
    <3> QED BY <1>3, <2>1, <3>2, Goes, BeginsWithName
  <2>6. CASE state = "header_almost_done"
    BY <2>1, <2>6 DEF CurLine
  <2> QED BY <1>1, <1>2, <2>3, <2>4, <2>5, <2>6 DEF Running, States
<1>4. CASE state = "header_almost_done"
  <2>1. pos = line /\ wire[line] = "cr" /\ (line + 1)..line = {} /\ line <= line /\ line # line + 1
    BY <1>0, <1>4 DEF CurLine
  <2> QED BY <2>1 DEF IsBeginning, EmptyLine, Eol
<1> QED BY <1>1, <1>2, <1>3, <1>4 DEF Running, States, CurLine

\* A byte is rejected only where no beginning has it.
LEMMA Rejects ==
  ASSUME TypeOK, Earlier, CurLine, Stages, Reject
  PROVE  ~IsBeginning(line, pos + 1)
<1>0. /\ Cur = pos + 1 /\ ch = wire[Cur] /\ pos \in Nat /\ line \in Nat
      /\ mark.name_end \in Nat
  BY Reads, Ranges DEF Stages, Start, Name, SpaceBeforeValue, Value, SpaceAfterValue,
     AlmostDone, HeaderAlmostDone
<1> SUFFICES ASSUME IsBeginning(line, pos + 1) PROVE FALSE
  OBVIOUS
<1> DEFINE b == pos + 1
           Empty == /\ line <= b /\ wire[line] \in Eol
                    /\ \A i \in (line + 1)..b : i = line + 1 /\ wire[line] = "cr" /\ wire[i] = "lf"
           Named(c) == /\ c \in line..(b + 1)
                       /\ \A i \in line..(c - 1) : wire[i] = "name"
                       /\ c <= b => line < c /\ wire[c] = "colon"
                       /\ \A i \in (c + 1)..b : /\ wire[i] = "lf" => i = b
                                               /\ wire[i - 1] = "cr" => wire[i] = "lf"
<1>1. Empty \/ \E c : Named(c)
  BY DEF IsBeginning
<1> HIDE DEF Empty, Named
<1>2. CASE state = "start"
  <2>1. line = b /\ wire[line] \notin {"cr", "lf", "name"} /\ b \in Nat
    BY <1>0, <1>2 DEF Stages, Start, Name, SpaceBeforeValue, Value, SpaceAfterValue,
       AlmostDone, HeaderAlmostDone, Take, Reject, CurLine
  <2>2. ~Empty
    BY <2>1 DEF Empty, Eol
  <2>3. ASSUME NEW c, Named(c) PROVE FALSE
    <3>1. c = line \/ c = line + 1
      BY <2>1, <2>3 DEF Named
    <3>2. line \in line..(line + 1 - 1) /\ line <= b
      BY <2>1
    <3> QED BY <2>1, <2>3, <3>1, <3>2 DEF Named
  <2> QED BY <1>1, <2>2, <2>3
<1>3. CASE state = "name"
  <2>1. /\ wire[b] \notin {"name", "colon"} /\ line <= pos
        /\ \A i \in line..pos : wire[i] = "name"
    BY <1>0, <1>3 DEF Stages, Start, Name, SpaceBeforeValue, Value, SpaceAfterValue,
       AlmostDone, HeaderAlmostDone, Take, Reject, CurLine
  <2>2. ~Empty
    BY <1>0, <2>1 DEF Empty, Eol
  <2>3. ASSUME NEW c, Named(c) PROVE FALSE
    <3>1. \/ c \in line..pos /\ c <= b
          \/ c = b /\ c <= b
          \/ c = b + 1 /\ b \in line..(c - 1)
      BY <1>0, <2>1, <2>3 DEF Named
    <3> QED BY <2>1, <2>3, <3>1 DEF Named
  <2> QED BY <1>1, <2>2, <2>3
<1>4. CASE state = "almost_done"
  <2>1. wire[b] # "lf" /\ wire[pos] = "cr" /\ Colon /\ b \in Nat
        /\ mark.start \in Nat /\ mark.end \in Nat
        /\ Begun /\ mark.start <= mark.end /\ mark.end <= pos
    BY <1>0, <1>4, Ranges DEF Stages, Start, Name, SpaceBeforeValue, Value, SpaceAfterValue,
       AlmostDone, HeaderAlmostDone, Take, Reject, CurLine
  <2>2. /\ line < mark.name_end /\ mark.name_end < pos
        /\ \A i \in line..(mark.name_end - 1) : wire[i] = "name"
        /\ wire[mark.name_end] = "colon"
    BY <1>0, <2>1 DEF Colon, Begun
  <2>3. ~Empty
    <3>1. line \in line..(mark.name_end - 1)
      BY <1>0, <2>2
    <3> QED BY <2>2, <3>1 DEF Empty, Eol
  <2>4. ASSUME NEW c, Named(c) PROVE FALSE
    <3>1. \/ c \in line..(mark.name_end - 1) /\ c <= b
          \/ c = mark.name_end /\ b \in (c + 1)..b /\ b - 1 = pos
          \/ mark.name_end \in line..(c - 1)
      BY <1>0, <2>2, <2>4 DEF Named
    <3> QED BY <2>1, <2>2, <2>4, <3>1 DEF Named
  <2> QED BY <1>1, <2>3, <2>4
<1>5. CASE state = "header_almost_done"
  <2>1. wire[b] # "lf" /\ line = pos /\ wire[line] = "cr" /\ b = line + 1
    BY <1>0, <1>5 DEF Stages, Start, Name, SpaceBeforeValue, Value, SpaceAfterValue,
       AlmostDone, HeaderAlmostDone, Take, Reject, CurLine
  <2>2. ~Empty
    <3>1. b \in (line + 1)..b
      BY <1>0, <2>1
    <3> QED BY <2>1, <3>1 DEF Empty
  <2>3. ASSUME NEW c, Named(c) PROVE FALSE
    <3>1. (c = line /\ c <= b) \/ line \in line..(c - 1)
      BY <1>0, <2>1, <2>3 DEF Named
    <3> QED BY <1>0, <2>1, <2>3, <3>1 DEF Named
  <2> QED BY <1>1, <2>2, <2>3
<1>6. state \in {"start", "name", "almost_done", "header_almost_done"}
  BY DEF Stages, Start, Name, SpaceBeforeValue, Value, SpaceAfterValue, AlmostDone,
     HeaderAlmostDone, Take, Reject
<1> QED BY <1>2, <1>3, <1>4, <1>5, <1>6

-----------------------------------------------------------------------------
(***************************************************************************)
(* The invariant and the theorems.                                         *)
(***************************************************************************)
LEMMA InvInit == Init => Inv
<1> SUFFICES ASSUME Init PROVE Inv
  OBVIOUS
<1>1. Len(<<>>) = 0 /\ 1..0 = {} /\ 1 \in 1..(0 + 1)
  OBVIOUS
<1>2. TypeOK
  <2>1. BufSize \in Nat
    BY BufAssumption
  <2>2. <<>> \in Seq(Bytes) /\ <<>> \in Seq(Bytes \cup {"nul"}) /\ <<>> \in Seq(Marks)
    OBVIOUS
  <2>3. NoMark \in Marks /\ 0 \in 0..0 /\ 0 <= BufSize
    BY <2>1 DEF NoMark, Marks
  <2> QED BY <1>1, <2>2, <2>3 DEF Init, TypeOK, States
<1>3. CurLine
  BY DEF Init, CurLine
<1>4. Earlier
  BY <1>1 DEF Init, Earlier, HeadersAreLines, HeadersReadable
<1> QED BY <1>2, <1>3, <1>4 DEF Init, Inv, Stopped

LEMMA StageLine ==
  ASSUME TypeOK, Earlier, CurLine, Stages
  PROVE  CurLine'
BY StartLine, NameLine, BeforeValueLine, ValueLine, AfterValueLine, AlmostLines DEF Stages

LEMMA StageStopped ==
  ASSUME TypeOK, Earlier, CurLine, Stages
  PROVE  Stopped'
<1>1. CASE Reject
  <2>1. ~IsBeginning(line, pos + 1)'
    BY <1>1, Rejects DEF Reject, IsBeginning
  <2> QED BY <1>1, <2>1 DEF Reject, Stopped
<1>2. CASE Take("header_done")
  <2>0. Cur = pos + 1 /\ ch = wire[Cur] /\ pos \in Nat /\ line \in Nat
    BY Reads, Ranges DEF Stages, Start, Name, SpaceBeforeValue, Value, SpaceAfterValue,
       AlmostDone, HeaderAlmostDone
  <2>1. \/ line = Cur /\ wire[Cur] = "lf"
        \/ Cur = line + 1 /\ wire[line] = "cr" /\ wire[Cur] = "lf"
    BY <1>2, <2>0 DEF Stages, Start, Name, SpaceBeforeValue, Value, SpaceAfterValue, AlmostDone,
       HeaderAlmostDone, Take, Reject, CurLine
  <2> QED BY <1>2, <2>1 DEF Take, Stopped, EmptyLine
<1>3. CASE \E s \in States : Take(s)
  BY <1>3 DEF Take, Stopped, States
<1> QED BY <1>1, <1>2, <1>3 DEF Stages, Start, Name, SpaceBeforeValue, Value, SpaceAfterValue,
        AlmostDone, HeaderAlmostDone, States

LEMMA InvStep == Inv /\ [Next]_vars => Inv'
<1> SUFFICES ASSUME Inv, [Next]_vars PROVE Inv'
  OBVIOUS
<1>0. TypeOK /\ CurLine /\ Earlier /\ Stopped
  BY DEF Inv
<1>1. CASE Stages
  BY <1>0, <1>1, StageTyped, StageLine, StageStopped DEF Inv
<1>2. CASE LineDone
  <2>1. Stopped'
    BY <1>2 DEF LineDone, Stopped
  <2> QED BY <1>0, <1>2, <2>1, LineDoneRight DEF Inv
<1>3. ASSUME NEW n \in 1..MaxRead, NEW chunk \in [1..n -> Bytes], Receive(chunk) PROVE Inv'
  <2>1. n \in Nat
    BY BufAssumption
  <2>2. Stopped'
    BY <1>3 DEF Receive, Starved, Running, States, Stopped
  <2> QED BY <1>0, <1>3, <2>1, <2>2, ReceiveRight DEF Inv
<1>4. CASE /\ state' \in {"full", "no_memory"}
           /\ UNCHANGED <<wire, buf, pos, mark, headers, line>>
  <2>1. TypeOK' /\ CurLine' /\ Stopped'
    BY <1>0, <1>4 DEF TypeOK, CurLine, Stopped, Ends
  <2> QED BY <1>0, <1>4, <2>1, EarlierSame DEF Inv
<1>5. CASE UNCHANGED vars
  <2>1. TypeOK' /\ Stopped'
    BY <1>0, <1>5 DEF vars, TypeOK, Stopped, IsBeginning, EmptyLine
  <2>2. CurLine'
    BY <1>0, <1>5 DEF vars, CurLine, Colon, Begun, Text, Spaces, IsLine
  <2> QED BY <1>0, <1>5, <2>1, <2>2, EarlierSame DEF Inv, vars
<1>6. \/ Stages \/ LineDone
      \/ \E n \in 1..MaxRead : \E chunk \in [1..n -> Bytes] : Receive(chunk)
      \/ /\ state' \in {"full", "no_memory"}
         /\ UNCHANGED <<wire, buf, pos, mark, headers, line>>
      \/ UNCHANGED vars
  BY DEF Next, Parse, Stages, BufferFull, NoMemory, Over
<1> QED BY <1>1, <1>2, <1>3, <1>4, <1>5, <1>6

LEMMA Invariant == Spec => []Inv
BY InvInit, InvStep, PTL DEF Spec

\* Types: positions and marks stay in the buffer, whatever arrives and in
\* whatever pieces.
THEOREM TypeCorrect == Spec => []TypeOK
<1>1. Inv => TypeOK
  BY DEF Inv
<1> QED BY <1>1, Invariant, PTL

\* Every header is one line of the block, and no byte between lines is lost.
THEOREM HeadersAreRight == Spec => []HeadersAreLines
<1>1. Inv => HeadersAreLines
  BY DEF Inv, Earlier
<1> QED BY <1>1, Invariant, PTL

\* The NULs that end names and values never overwrite another string, nor a
\* byte that is still to be parsed.
THEOREM HeadersStayReadable == Spec => []HeadersReadable
<1>1. Inv => HeadersReadable
  BY DEF Inv, Earlier
<1> QED BY <1>1, Invariant, PTL

\* The parser goes on as long as a header block can still begin so, no longer
\* and no shorter, and ends it at the empty line.
THEOREM StopsRight == Spec => []StopsWhereItMust
<1>1. Inv => StopsWhereItMust
  BY Begins DEF Inv, Stopped, StopsWhereItMust
<1> QED BY <1>1, Invariant, PTL
=============================================================================
