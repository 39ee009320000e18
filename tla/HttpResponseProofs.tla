------------------------- MODULE HttpResponseProofs -------------------------
(***************************************************************************)
(* Proofs about HttpResponse: its type invariant, the framing of responses *)
(* whatever happens to the files, the search for the content type, and the *)
(* answers while no file changes - for all paths, tables of extensions,    *)
(* file sizes and lengths of pages.                                        *)
(***************************************************************************)
EXTENDS HttpResponse, SequenceTheorems, TLAPS

-----------------------------------------------------------------------------
(***************************************************************************)
(* The pages of the four errors that are used.                             *)
(***************************************************************************)
\* The arithmetic on an error code finds the page that is written for it.
LEMMA PagesOfErrors ==
  PageOf(302) = 302 /\ PageOf(403) = 403 /\ PageOf(404) = 404 /\ PageOf(501) = 501
BY DEF PageOf, error_pages

(***************************************************************************)
(* The content type.                                                       *)
(***************************************************************************)
\* Facts about a path and an extension, without the assumptions' quantifiers.
LEMMA Shapes ==
  ASSUME uri \in Uris, NEW i \in 1..Len(Extensions)
  PROVE  /\ uri \in Seq(STRING) /\ Len(uri) \in Nat /\ Len(uri) >= 1 /\ uri[1] = Slash
         /\ Extensions[i] \in Seq(STRING) /\ Len(Extensions[i]) \in Nat
         /\ \A k \in 1..Len(Extensions[i]) : Extensions[i][k] # Slash
<1>1. uri \in Seq(STRING) /\ uri # <<>> /\ uri[1] = Slash
  BY UriAssumption
<1>2. Len(uri) \in Nat /\ Len(uri) # 0
  BY <1>1, LenProperties, EmptySeq
<1>3. Extensions \in Seq(Seq(STRING)) /\ i \in DOMAIN Extensions
  BY ExtensionAssumption, LenProperties
<1>4. Extensions[i] \in Seq(STRING)
  BY <1>3, ElementOfSeq
<1>5. Len(Extensions[i]) \in Nat /\ DOMAIN Extensions[i] = 1..Len(Extensions[i])
  BY <1>4, LenProperties
<1>6. \A k \in 1..Len(Extensions[i]) : Extensions[i][k] # Slash
  BY <1>3, <1>5, ExtensionAssumption
<1> QED BY <1>1, <1>2, <1>4, <1>5, <1>6

\* Where the slash of the uri is, seen from the extension.
LEMMA SlashPos ==
  ASSUME NEW ext, Len(uri) \in Nat, Len(uri) >= 1, Len(ext) \in Nat,
         NEW j \in 1..Len(ext), Pos(ext, j) < 1
  PROVE  /\ Len(ext) + 1 - Len(uri) \in (j + 1)..Len(ext)
         /\ Len(ext) + 1 - Len(uri) \in 1..Len(ext)
         /\ Pos(ext, Len(ext) + 1 - Len(uri)) = 1
BY DEF Pos

LEMMA SlashPosLong ==
  ASSUME NEW ext, Len(uri) \in Nat, Len(uri) >= 1, Len(ext) \in Nat,
         Len(ext) >= Len(uri)
  PROVE  /\ Len(ext) + 1 - Len(uri) \in 1..Len(ext)
         /\ Pos(ext, Len(ext) + 1 - Len(uri)) = 1
BY DEF Pos

\* A position behind the first b letters of the uri.
LEMMA TailPos ==
  ASSUME NEW ext, Len(uri) \in Nat, Len(ext) \in Nat, NEW b \in Nat,
         Len(uri) = b + Len(ext)
  PROVE  /\ \A k \in 1..Len(uri) : k > b => k - b \in 1..Len(ext) /\ Pos(ext, k - b) = k
         /\ \A k \in 1..Len(ext) : /\ Pos(ext, k) = b + k
                                   /\ b + k \in 1..(b + Len(ext))
                                   /\ ~(b + k <= b) /\ b + k - b = k
BY DEF Pos

\* The first b letters of the uri.
LEMMA Prefix ==
  ASSUME uri \in Seq(STRING), NEW b \in 0..Len(uri)
  PROVE  /\ SubSeq(uri, 1, b) \in Seq(STRING) /\ Len(SubSeq(uri, 1, b)) = b
         /\ \A k \in 1..b : SubSeq(uri, 1, b)[k] = uri[k]
<1>1. Len(uri) \in Nat
  BY LenProperties
<1>2. b \in Int /\ \A k \in 1..b : k \in 1..Len(uri)
  BY <1>1
<1>3. \A k \in 1..b : uri[k] \in STRING
  BY <1>2, ElementOfSeq
<1>4. /\ SubSeq(uri, 1, b) \in Seq(STRING)
      /\ Len(SubSeq(uri, 1, b)) = IF 1 <= b THEN b - 1 + 1 ELSE 0
      /\ \A k \in 1..(b - 1 + 1) : SubSeq(uri, 1, b)[k] = uri[1 + k - 1]
  BY <1>2, <1>3, SubSeqProperties
<1>5. (IF 1 <= b THEN b - 1 + 1 ELSE 0) = b /\ 1..(b - 1 + 1) = 1..b
      /\ \A k \in 1..b : 1 + k - 1 = k
  BY <1>1
<1> QED BY <1>4, <1>5

\* The comparison has stopped before it would read in front of the uri: it
\* would have had to find the slash that the uri begins with in the extension.
LEMMA ReadsInUri ==
  ASSUME uri \in Uris
  PROVE  TypeReadsInUri
<1> SUFFICES ASSUME NEW i \in 1..Len(Extensions), NEW j \in Compared(Extensions[i]),
                    Pos(Extensions[i], j) < 1
             PROVE  FALSE
  <2>1. \A i \in 1..Len(Extensions) : \A j \in Compared(Extensions[i]) :
          Pos(Extensions[i], j) \in Int
    BY Shapes DEF Compared, Pos
  <2> QED BY <2>1 DEF TypeReadsInUri
<1> DEFINE ext == Extensions[i]
           k == Len(ext) + 1 - Len(uri)
<1>1. Len(uri) \in Nat /\ Len(uri) >= 1 /\ Len(ext) \in Nat /\ uri[1] = Slash
  BY Shapes
<1>2. j \in 1..Len(ext) /\ \A n \in (j + 1)..Len(ext) : Equal(ext, n)
  BY DEF Compared
<1>3. k \in (j + 1)..Len(ext) /\ k \in 1..Len(ext) /\ Pos(ext, k) = 1
  BY <1>1, <1>2, SlashPos
<1>4. uri[1] = ext[k]
  BY <1>2, <1>3 DEF Equal
<1> QED BY <1>1, <1>3, <1>4, Shapes

\* An extension that fits is shorter than the uri ...
LEMMA FitsIsShorter ==
  ASSUME uri \in Uris, NEW i \in 1..Len(Extensions), Fits(Extensions[i])
  PROVE  Len(Extensions[i]) < Len(uri)
<1> DEFINE ext == Extensions[i]
           k == Len(ext) + 1 - Len(uri)
<1>1. Len(uri) \in Nat /\ Len(uri) >= 1 /\ Len(ext) \in Nat /\ uri[1] = Slash
  BY Shapes
<1> SUFFICES ASSUME Len(ext) >= Len(uri) PROVE FALSE
  BY <1>1
<1>2. k \in 1..Len(ext) /\ Pos(ext, k) = 1
  BY <1>1, SlashPosLong
<1>3. uri[1] = ext[k]
  BY <1>2 DEF Fits, Equal
<1> QED BY <1>1, <1>2, <1>3, Shapes

\* ... and it is what the uri ends with, and nothing else fits.
LEMMA FitsIsEnding ==
  ASSUME uri \in Uris, NEW i \in 1..Len(Extensions)
  PROVE  Fits(Extensions[i]) <=> i \in Ending
<1> DEFINE ext == Extensions[i]
<1>1. /\ uri \in Seq(STRING) /\ Len(uri) \in Nat /\ Len(uri) >= 1
      /\ ext \in Seq(STRING) /\ Len(ext) \in Nat
  BY Shapes
<1>2. ASSUME Fits(ext) PROVE i \in Ending
  <2> DEFINE b == Len(uri) - Len(ext)
             s == SubSeq(uri, 1, b)
  <2>1. b \in Nat /\ b \in Int /\ b \in 0..Len(uri) /\ Len(uri) = b + Len(ext)
    BY <1>1, <1>2, FitsIsShorter
  <2>2. s \in Seq(STRING) /\ Len(s) = b /\ \A k \in 1..b : s[k] = uri[k]
    BY <1>1, <2>1, Prefix
  <2> HIDE DEF s, b
  <2>3. /\ s \o ext \in Seq(STRING) /\ Len(s \o ext) = b + Len(ext)
        /\ \A k \in 1..(b + Len(ext)) :
             (s \o ext)[k] = IF k <= b THEN s[k] ELSE ext[k - b]
    BY <1>1, <2>2, ConcatProperties
  <2>4. ASSUME NEW k \in 1..Len(uri) PROVE uri[k] = (s \o ext)[k]
    <3>0. k \in 1..(b + Len(ext)) /\ k \in Nat /\ b \in Nat
      BY <2>1
    <3>1. CASE k <= b
      <4>1. k \in 1..b
        BY <3>0, <3>1
      <4> QED BY <2>2, <2>3, <3>0, <3>1, <4>1
    <3>2. CASE ~(k <= b)
      <4>1. k > b
        BY <3>0, <3>2
      <4>2. k - b \in 1..Len(ext) /\ Pos(ext, k - b) = k
        BY <1>1, <2>1, <4>1, TailPos
      <4>3. k >= 1 /\ k \in Int
        OBVIOUS
      <4>4. uri[k] = ext[k - b]
        BY <1>2, <4>2, <4>3 DEF Fits, Equal
      <4> QED BY <2>3, <3>0, <3>2, <4>4
    <3> QED BY <3>1, <3>2
  <2>5. uri = s \o ext
    <3>1. Len(uri) = Len(s \o ext)
      BY <2>1, <2>3
    <3> HIDE DEF ext
    <3> DEFINE t == s \o ext
    <3>2. t \in Seq(STRING) /\ Len(uri) = Len(t) /\ \A k \in 1..Len(uri) : uri[k] = t[k]
      BY <2>3, <2>4, <3>1
    <3> HIDE DEF t
    <3>3. uri = t
      BY <1>1, <3>2, SeqEqual
    <3> QED BY <3>3 DEF t
  <2> QED BY <2>1, <2>5 DEF Ending, s
<1>3. ASSUME i \in Ending PROVE Fits(ext)
  <2>1. PICK b \in 0..Len(uri) : uri = SubSeq(uri, 1, b) \o ext
    BY <1>3 DEF Ending
  <2> DEFINE s == SubSeq(uri, 1, b)
  <2>0. b \in Nat
    BY <1>1
  <2>2. s \in Seq(STRING) /\ Len(s) = b
    BY <1>1, Prefix
  <2>4. uri = s \o ext
    BY <2>1
  <2> HIDE DEF s
  <2>3. /\ Len(s \o ext) = b + Len(ext)
        /\ \A k \in 1..(b + Len(ext)) :
             (s \o ext)[k] = IF k <= b THEN s[k] ELSE ext[k - b]
    BY <1>1, <2>2, ConcatProperties
  <2>6. Len(uri) = b + Len(ext)
    BY <2>3, <2>4
  <2>5. ASSUME NEW k \in 1..Len(ext) PROVE uri[Pos(ext, k)] = ext[k]
    <3>1. /\ Pos(ext, k) = b + k /\ b + k \in 1..(b + Len(ext))
          /\ ~(b + k <= b) /\ b + k - b = k
      <4> HIDE DEF ext
      <4> QED BY <1>1, <2>0, <2>6, TailPos
    <3>2. (s \o ext)[b + k] = ext[k]
      BY <2>3, <3>1
    <3> QED BY <2>4, <3>1, <3>2
  <2> QED BY <2>5 DEF Fits, Equal
<1> QED BY <1>2, <1>3

\* What Answers says of a type.
TypeRight(t) == (t = 0 <=> Ending = {}) /\ (t # 0 => t \in Ending)

LEMMA ContentTypeRight ==
  ASSUME uri \in Uris, NEW t \in 0..Len(Extensions), ContentType(t)
  PROVE  TypeRight(t)
<1>1. Ending \subseteq 1..Len(Extensions)
  BY DEF Ending
<1>2. CASE t = 0
  BY <1>1, <1>2, FitsIsEnding DEF TypeRight, ContentType
<1>3. CASE t # 0
  BY <1>3, FitsIsEnding DEF TypeRight, ContentType
<1> QED BY <1>2, <1>3

-----------------------------------------------------------------------------
(***************************************************************************)
(* Types.                                                                  *)
(***************************************************************************)
\* What a step asks of the socket lies within what the response has left.
LEMMA GivesWithin ==
  ASSUME head \in Nat, sent \in Nat, resp.length \in Nat, file.size \in Nat,
         sent <= resp.length
  PROVE  /\ Gives \in Nat /\ Rest \in Nat /\ Gives <= Rest
         /\ at = "head" => Gives = head
         /\ (~InMemory /\ Gives < Rest) => Gives = Left
         /\ InMemory => Gives = Rest
BY DEF Gives, Rest, Left, InMemory

LEMMA SpecialResponseTyped ==
  ASSUME TypeOK, NEW error \in {302, 403, 404, 501}, SpecialResponse(error)
  PROVE  TypeOK'
BY SizeAssumption, PagesOfErrors
   DEF TypeOK, SpecialResponse, Respond, request, Statuses, Stages, Ends

LEMMA FileResponseTyped ==
  ASSUME TypeOK, NEW n \in 0..MaxSize, FileResponse(n),
         file' \in [kind : Kinds, size : 0..MaxSize, linked : BOOLEAN]
  PROVE  TypeOK'
BY SizeAssumption DEF TypeOK, FileResponse, Respond, request, Statuses, Stages, Ends

Early == {"handler", "stat", "index", "open", "size", "blocked"}

\* The writer starts from nothing sent, sends the body behind the header, and
\* gives up the connection unless all is sent.
Progress ==
  /\ pc \in Early => sent = 0 /\ head = HeadLen /\ at = "head" /\ resp.length = 0
  /\ at = "body" => head = 0
  /\ Framed

LEMMA TypeStep ==
  ASSUME TypeOK, Progress, [Next]_vars
  PROVE  TypeOK'
<1>0. /\ MaxSize \in Nat /\ HeadLen \in Nat /\ 0 \in 0..MaxSize
      /\ NoResponse.length = 0
  BY SizeAssumption DEF NoResponse
<1> USE DEF Stages, Ends
<1>1. CASE Handler
  <2>1. CASE Goto("stat")
    BY <2>1 DEF Goto, request, TypeOK
  <2>2. CASE SpecialResponse(501)
    BY <2>2, SpecialResponseTyped
  <2> QED BY <1>1, <2>1, <2>2 DEF Handler
<1>2. CASE Stat
  <2>1. CASE Goto("open") \/ Goto("index")
    BY <2>1 DEF Goto, request, TypeOK
  <2>2. CASE SpecialResponse(404) \/ SpecialResponse(302)
    BY <2>2, SpecialResponseTyped
  <2> QED BY <1>2, <2>1, <2>2 DEF Stat
<1>3. CASE StatIndex
  <2>1. CASE SpecialResponse(403)
    BY <2>1, SpecialResponseTyped
  <2>2. CASE ~SpecialResponse(403)
    BY <1>3, <2>2 DEF StatIndex, request, TypeOK
  <2> QED BY <2>1, <2>2
<1>4. CASE Open
  <2>1. CASE FileResponse(0) /\ UNCHANGED file
    BY <1>0, <2>1, FileResponseTyped DEF TypeOK
  <2>2. CASE Goto("blocked")
    BY <2>2 DEF Goto, request, TypeOK
  <2>3. CASE /\ fs[name].kind \in {"reg", "dir"}
             /\ file' = [kind |-> fs[name].kind, size |-> fs[name].size, linked |-> TRUE]
             /\ pc' = "size" /\ UNCHANGED <<request, fs, name, resp, at, head, sent, past>>
    <3>1. fs[name] \in Entry
      BY DEF TypeOK
    <3> QED BY <2>3, <3>1 DEF request, TypeOK, Entry, Kinds
  <2> QED BY <1>4, <2>1, <2>2, <2>3 DEF Open
<1>5. CASE Size
  <2>1. fs[name] \in Entry
    BY DEF TypeOK
  <2>2. CASE FileResponse(0) /\ file' = [kind |-> "none", size |-> 0, linked |-> FALSE]
    BY <1>0, <2>2, FileResponseTyped DEF Kinds
  <2>3. CASE FileResponse(fs[name].size) /\ UNCHANGED file
    BY <2>1, <2>3, FileResponseTyped DEF Entry, TypeOK
  <2> QED BY <1>5, <2>2, <2>3 DEF Size
<1>6. CASE Write
  <2>0. Gives \in Nat /\ Gives <= Rest /\ (at = "head" => Gives = head)
    BY <1>0, GivesWithin DEF TypeOK, Progress, Framed
  <2>1. CASE Goto("full")
    BY <2>1 DEF Goto, request, TypeOK
  <2>2. ASSUME at = "head", NEW n \in 1..Gives, SendHead(n) PROVE TypeOK'
    <3>1. head \in 0..HeadLen /\ n \in 1..head
      BY <2>0, <2>2 DEF TypeOK
    <3>2. head - n \in 0..HeadLen
      BY <1>0, <3>1
    <3> QED BY <2>2, <3>2 DEF SendHead, request, TypeOK
  <2>3. ASSUME at = "body", NEW n \in 1..Gives, SendBody(n) PROVE TypeOK'
    BY <2>0, <2>3 DEF SendBody, request, TypeOK
  <2> QED BY <1>6, <2>1, <2>2, <2>3 DEF Write
<1>7. CASE WriteNone
  BY <1>7 DEF WriteNone, Close, request, TypeOK
<1>8. CASE Resume
  BY <1>8 DEF Resume, request, TypeOK
<1>9. CASE WriteBroken
  BY <1>9 DEF WriteBroken, request, TypeOK
<1>10. CASE Replace
  BY <1>10 DEF Replace, FileSystems, request, TypeOK
<1>11. CASE Resize
  <2>1. PICK n \in (0..MaxSize) \ {fs[name].size} :
          /\ fs' = [fs EXCEPT ![name] = [kind |-> "reg", size |-> n]]
          /\ file' = IF file.linked THEN [file EXCEPT !.size = n] ELSE file
    BY <1>11 DEF Resize
  <2>2. [kind |-> "reg", size |-> n] \in Entry
    BY DEF Entry, Kinds
  <2>3. fs' \in [path : Entry, index : Entry]
    BY <2>1, <2>2 DEF TypeOK
  <2>4. file' \in [kind : Kinds, size : 0..MaxSize, linked : BOOLEAN]
    BY <2>1 DEF TypeOK
  <2> QED BY <1>11, <2>3, <2>4 DEF Resize, request, TypeOK
<1>12. CASE WriterComes
  BY <1>0, <1>12 DEF WriterComes, request, TypeOK, Kinds
<1>13. CASE UNCHANGED vars
  BY <1>13 DEF vars, request, TypeOK
<1> QED BY <1>1, <1>2, <1>3, <1>4, <1>5, <1>6, <1>7, <1>8, <1>9, <1>10, <1>11, <1>12, <1>13
        DEF Next, Over

LEMMA TypeInit == Init => TypeOK
BY SizeAssumption
   DEF Init, TypeOK, FileSystems, Stages, Ends, NoResponse, Statuses, Methods, Kinds

-----------------------------------------------------------------------------
(***************************************************************************)
(* Framing.                                                                *)
(***************************************************************************)
LEMMA ProgressInit == Init => Progress
BY SizeAssumption DEF Init, Progress, Framed, NoResponse, Early

\* A response starts the writer at the header, whatever length it has.
LEMMA RespondProgress ==
  ASSUME TypeOK, Progress, pc \in Early, NEW r, r.length \in Nat, Respond(r)
  PROVE  Progress'
BY DEF Progress, Framed, Respond, Early, TypeOK

LEMMA ResponsesProgress ==
  ASSUME TypeOK, Progress, pc \in Early
  PROVE  /\ \A error : SpecialResponse(error) => Progress'
         /\ \A n \in Nat : FileResponse(n) => Progress'
<1>1. ASSUME NEW error, SpecialResponse(error) PROVE Progress'
  <2> DEFINE r == [status |-> error, length |-> PageLen, type |-> 0, page |-> PageOf(error),
                   location |-> IF error = 302 THEN Redirect ELSE <<>>]
  <2>1. Respond(r) /\ r.length \in Nat
    BY <1>1, SizeAssumption DEF SpecialResponse
  <2> HIDE DEF r
  <2> QED BY <2>1, RespondProgress
<1>2. ASSUME NEW n \in Nat, FileResponse(n) PROVE Progress'
  <2>1. PICK t : Respond([status |-> 200, length |-> n, type |-> t, page |-> 0,
                          location |-> <<>>])
    BY <1>2 DEF FileResponse
  <2> DEFINE r == [status |-> 200, length |-> n, type |-> t, page |-> 0, location |-> <<>>]
  <2>2. Respond(r) /\ r.length \in Nat
    BY <2>1
  <2> HIDE DEF r
  <2> QED BY <2>2, RespondProgress
<1> QED BY <1>1, <1>2

LEMMA ProgressStep ==
  ASSUME TypeOK, Progress, [Next]_vars
  PROVE  Progress'
<1>0. /\ fs[name].size \in Nat /\ 0 \in Nat /\ HeadLen \in Nat
      /\ head \in Nat /\ sent \in Nat /\ resp.length \in Nat /\ file.size \in Nat
  BY SizeAssumption DEF TypeOK, Entry
<1>1. CASE Handler
  BY <1>1, ResponsesProgress DEF Handler, Goto, Progress, Framed, Early
<1>2. CASE Stat
  BY <1>2, ResponsesProgress DEF Stat, Goto, Progress, Framed, Early
<1>3. CASE StatIndex
  BY <1>3, ResponsesProgress DEF StatIndex, Progress, Framed, Early
<1>4. CASE Open
  BY <1>0, <1>4, ResponsesProgress DEF Open, Goto, Progress, Framed, Early
<1>5. CASE Size
  BY <1>0, <1>5, ResponsesProgress DEF Size, Progress, Framed, Early
<1>6. CASE Write
  <2>0. /\ Gives \in Nat /\ Gives <= Rest /\ (at = "head" => Gives = head)
        /\ pc = "write" /\ sent <= resp.length /\ (sent > 0 => head = 0)
    BY <1>0, <1>6, GivesWithin DEF Progress, Framed, Write
  <2>1. CASE Goto("full")
    BY <2>1 DEF Goto, Progress, Framed, Early
  <2>2. ASSUME at = "head", NEW n \in 1..Gives, SendHead(n) PROVE Progress'
    <3>1. head > 0 /\ sent = 0 /\ n \in Nat /\ n <= head
      BY <1>0, <2>0, <2>2
    <3>2. pc' = "write" /\ sent' = 0 /\ resp' = resp /\ (at' = "body" => head' = 0)
      BY <1>0, <2>0, <2>2, <3>1 DEF SendHead
    <3> QED BY <1>0, <3>2 DEF Progress, Framed, Early
  <2>3. ASSUME at = "body", NEW n \in 1..Gives, SendBody(n) PROVE Progress'
    <3>1. Gives <= resp.length - sent /\ n \in Nat /\ n >= 1 /\ n <= Gives /\ head = 0
      BY <2>0, <2>3 DEF Rest, Progress
    <3>2. sent + n <= resp.length /\ resp.length > 0
      BY <1>0, <2>0, <3>1
    <3> QED BY <1>0, <2>3, <3>1, <3>2 DEF SendBody, Progress, Framed, Early
  <2> QED BY <1>6, <2>1, <2>2, <2>3 DEF Write
<1>7. CASE WriteNone
  BY <1>7 DEF WriteNone, Close, Progress, Framed, Early
<1>8. CASE Resume
  BY <1>8 DEF Resume, Progress, Framed, Early
<1>9. CASE WriteBroken
  BY <1>9 DEF WriteBroken, Progress, Framed, Early
<1>10. CASE Replace \/ Resize
  BY <1>10 DEF Replace, Resize, Progress, Framed
<1>11. CASE WriterComes
  BY <1>11 DEF WriterComes, Progress, Framed, Early
<1>12. CASE UNCHANGED vars
  BY <1>12 DEF vars, Progress, Framed
<1> QED BY <1>1, <1>2, <1>3, <1>4, <1>5, <1>6, <1>7, <1>8, <1>9, <1>10, <1>11, <1>12
        DEF Next, Over

\* Types: every length, count and code stays in its range, and the parts of
\* the response and of the file keep their shape.
THEOREM TypeCorrect == Spec => []TypeOK
<1>1. TypeOK /\ Progress /\ [Next]_vars => (TypeOK /\ Progress)'
  BY TypeStep, ProgressStep
<1> QED BY <1>1, TypeInit, ProgressInit, PTL DEF Spec

\* However files are replaced, removed and truncated while they are sent, a
\* connection that is kept is at the end of a response of the announced
\* length, and no byte of a body goes before its header.
THEOREM ResponsesAreFramed == Spec => []Framed
<1>1. TypeOK /\ Progress /\ [Next]_vars => (TypeOK /\ Progress)'
  BY TypeStep, ProgressStep
<1>2. Progress => Framed
  BY DEF Progress
<1> QED BY <1>1, <1>2, TypeInit, ProgressInit, PTL DEF Spec

\* The search for the content type stays in the path of the request, for all
\* paths that begin with a slash and all extensions without one.
THEOREM TypeReads == Spec => []TypeReadsInUri
<1>1. TypeOK => TypeReadsInUri
  BY ReadsInUri DEF TypeOK
<1> QED BY <1>1, TypeCorrect, PTL

-----------------------------------------------------------------------------
(***************************************************************************)
(* Answers.  While no file changes, what the handler has found out so far  *)
(* is still so.                                                            *)
(***************************************************************************)
\* The file to serve is found.
Picked ==
  /\ method = "GET" /\ Served.kind # "none" /\ Served = fs[name]
  /\ Dir => fs.path.kind = "dir"
  /\ ~Dir => fs.path.kind = "reg"

\* The file itself, as long as its name means it.
Opened == file.kind = Served.kind /\ file.size = Served.size

Found ==
  /\ Proper(fs)
  /\ pc \in {"handler", "stat", "index"} => name = "path"
  /\ pc \in {"stat", "index"} => method = "GET"
  /\ pc = "index" => Dir /\ fs.path.kind = "dir"
  /\ pc \in {"open", "size", "blocked"} => Picked
  /\ pc = "size" => Opened
  /\ pc = "blocked" => Served.kind = "fifo"

FileRight ==
  /\ Picked /\ resp.page = 0 /\ resp.length \in {0, Served.size} /\ TypeRight(resp.type)
  /\ resp.length # 0 => Opened

ErrorRight ==
  /\ resp.status = Status /\ resp.page = resp.status /\ resp.length = PageLen
  /\ resp.status = 302 => resp.location[Len(resp.location)] = Slash

\* A response is cut only where Answers allows it.
CutRight ==
  (pc = "closed" /\ ~past.gone /\ sent < resp.length) =>
    head = 0 /\ (past.resumed \/ (Dir /\ fs.index.kind = "dir"))

Right ==
  /\ pc \in Early <=> resp.status = 0
  /\ pc \notin Early /\ at = "head" /\ head = 0 => past.resumed
  /\ past.changed \/
       /\ Found
       /\ resp.status = 200 => FileRight
       /\ resp.status \notin {0, 200} => ErrorRight
       /\ CutRight

LEMMA RightInit == Init => Right
BY SizeAssumption DEF Init, Right, Found, NoResponse, Early, FileSystems, Proper, CutRight

\* What is said of the request and of the file system holds while they stay.
LEMMA Same ==
  ASSUME method' = method, uri' = uri, fs' = fs
  PROVE  /\ Dir' = Dir /\ Served' = Served /\ Status' = Status
         /\ Proper(fs)' = Proper(fs) /\ Ending' = Ending
BY DEF Dir, Served, Status, Proper, Ending

LEMMA SamePicked ==
  ASSUME method' = method, uri' = uri, fs' = fs, name' = name
  PROVE  Picked' <=> Picked
BY Same DEF Picked

LEMMA SlashLast ==
  ASSUME uri \in Uris
  PROVE  Redirect[Len(Redirect)] = Slash
<1>1. uri \in Seq(STRING)
  BY UriAssumption
<1> QED BY <1>1, AppendProperties DEF Redirect, Slash

LEMMA SpecialRight ==
  ASSUME TypeOK, Progress, Right, pc \in Early, NEW error \in {302, 403, 404, 501},
         past.changed \/ error = Status, SpecialResponse(error)
  PROVE  Right'
<1> DEFINE r == [status |-> error, length |-> PageLen, type |-> 0, page |-> PageOf(error),
                 location |-> IF error = 302 THEN Redirect ELSE <<>>]
<1>1. /\ pc' = "write" /\ resp' = r
      /\ method' = method /\ uri' = uri /\ fs' = fs /\ past' = past /\ head' = head
  BY DEF SpecialResponse, Respond, request
<1>2. head' # 0
  BY <1>1, SizeAssumption DEF Progress
<1>3. /\ r.status = error /\ error \notin {0, 200} /\ r.page = error /\ r.length = PageLen
      /\ error = 302 => r.location = Redirect
  BY PagesOfErrors
<1>4. Redirect[Len(Redirect)] = Slash
  BY SlashLast DEF TypeOK
<1> HIDE DEF r
<1>5. past.changed \/ (Found' /\ ErrorRight' /\ CutRight')
  BY <1>1, <1>3, <1>4, Same DEF Right, Found, ErrorRight, CutRight
<1> QED BY <1>1, <1>2, <1>3, <1>5 DEF Right, Early

LEMMA FileResponseRight ==
  ASSUME TypeOK, Progress, Right, pc \in Early, NEW n,
         past.changed \/ (Picked /\ n \in {0, Served.size} /\ (n # 0 => Opened')),
         FileResponse(n)
  PROVE  Right'
<1>1. PICK t \in 0..Len(Extensions) :
        /\ ContentType(t)
        /\ Respond([status |-> 200, length |-> n, type |-> t, page |-> 0, location |-> <<>>])
  BY DEF FileResponse
<1> DEFINE r == [status |-> 200, length |-> n, type |-> t, page |-> 0, location |-> <<>>]
<1>2. /\ pc' = "write" /\ resp' = r /\ name' = name
      /\ method' = method /\ uri' = uri /\ fs' = fs /\ past' = past /\ head' = head
  BY <1>1 DEF Respond, request
<1>3. r.status = 200 /\ r.page = 0 /\ r.length = n /\ r.type = t
  OBVIOUS
<1>4. TypeRight(t)
  BY <1>1, ContentTypeRight DEF TypeOK
<1>5. head' # 0
  BY <1>2, SizeAssumption DEF Progress
<1> HIDE DEF r
<1>6. TypeRight(resp.type)'
  BY <1>2, <1>3, <1>4, Same DEF TypeRight
<1>7. past.changed \/ (Found' /\ FileRight' /\ CutRight')
  BY <1>2, <1>3, <1>6, Same, SamePicked DEF Right, Found, FileRight, CutRight
<1> QED BY <1>2, <1>3, <1>5, <1>7 DEF Right, Early

\* The writer changes none of what the response rests on.
LEMMA WritingRight ==
  ASSUME TypeOK, Right, pc \notin Early, pc' \notin Early,
         UNCHANGED <<method, uri, fs, name, file, resp>>, past'.changed = past.changed,
         (at = "head" /\ head = 0 => past.resumed)', past.changed \/ CutRight'
  PROVE  Right'
<1>1. TypeRight(resp.type)' <=> TypeRight(resp.type)
  BY Same DEF TypeRight
<1>2. past.changed \/ Found'
  BY Same DEF Right, Found, Early
<1>3. FileRight' <=> FileRight
  BY <1>1, Same, SamePicked DEF FileRight, Opened
<1>4. ErrorRight' <=> ErrorRight
  BY Same DEF ErrorRight
<1> QED BY <1>2, <1>3, <1>4 DEF Right

\* Where nothing is left to send but the response is not complete, the header
\* has been sent before, or an index that is a directory was opened.
LEMMA NothingLeft ==
  ASSUME TypeOK, Progress, Right, ~past.changed, pc = "write", Gives = 0,
         sent < resp.length
  PROVE  head = 0 /\ (past.resumed \/ (Dir /\ fs.index.kind = "dir"))
<1>0. /\ head \in Nat /\ sent \in Nat /\ resp.length \in Nat /\ file.size \in Nat
      /\ sent <= resp.length /\ resp.length # 0 /\ resp.status # 0
      /\ (at = "body" => head = 0) /\ at \in {"head", "body"}
      /\ PageLen \in Nat
  BY SizeAssumption DEF TypeOK, Entry, Progress, Framed, Right, Early
<1>1. CASE at = "head"
  BY <1>0, <1>1, GivesWithin DEF Right, Early
<1>2. CASE at = "body"
  <2>1. Rest > 0 /\ (InMemory <=> resp.page # 0)
    BY <1>0, <1>2 DEF Rest, InMemory
  <2>2. ~InMemory /\ Left = 0
    BY <1>0, <2>1, GivesWithin
  <2>3. resp.page = 0
    BY <2>1, <2>2
  <2>4. resp.status = 200
    BY <1>0, <2>3 DEF Right, ErrorRight
  <2>5. FileRight /\ Opened /\ resp.length = Served.size /\ Found
    BY <1>0, <2>4 DEF Right, FileRight
  <2>6. file.kind # "reg"
    BY <1>0, <2>2, <2>5 DEF Left, Opened
  <2>7. Served \in Entry /\ Served.kind \notin {"none", "fifo"}
    BY <1>0, <2>5 DEF Found, Proper, Served, TypeOK
  <2>8. Served.kind = "dir"
    BY <2>5, <2>6, <2>7 DEF Opened, Entry, Kinds
  <2> QED BY <1>0, <1>2, <2>5, <2>8 DEF FileRight, Picked, Served
<1> QED BY <1>0, <1>1, <1>2

LEMMA RightStep ==
  ASSUME TypeOK, Progress, Right, [Next]_vars
  PROVE  Right'
<1>0. /\ HeadLen \in Nat \ {0} /\ head \in Nat /\ sent \in Nat /\ resp.length \in Nat
      /\ file.size \in Nat /\ at \in {"head", "body"} /\ name \in {"path", "index"}
      /\ fs.path \in Entry /\ fs.index \in Entry
  BY SizeAssumption DEF TypeOK, Entry
<1>1. CASE Handler
  <2>1. CASE method = "GET" /\ Goto("stat")
    BY <1>1, <2>1, Same DEF Handler, Goto, request, Right, Found, FileRight, Early, CutRight
  <2>2. CASE method # "GET" /\ SpecialResponse(501)
    BY <1>1, <2>2, SpecialRight DEF Handler, Early, Status
  <2> QED BY <1>1, <2>1, <2>2 DEF Handler
<1>2. CASE Stat
  <2>0. past.changed \/ (method = "GET" /\ name = "path" /\ Proper(fs))
    BY <1>2 DEF Stat, Right, Found
  <2>1. CASE fs.path.kind \in {"none", "fifo"} /\ SpecialResponse(404)
    BY <1>2, <2>0, <2>1, SpecialRight DEF Stat, Early, Status
  <2>2. CASE fs.path.kind = "reg" /\ Goto("open")
    <3>1. past.changed \/ Picked
      BY <2>0, <2>2 DEF Picked, Served, Proper
    <3> QED BY <1>2, <2>2, <3>1, Same, SamePicked
            DEF Stat, Goto, request, Right, Found, Early, CutRight
  <2>3. CASE fs.path.kind = "dir" /\ ~Dir /\ SpecialResponse(302)
    BY <1>2, <2>0, <2>3, SpecialRight DEF Stat, Early, Status
  <2>4. CASE fs.path.kind = "dir" /\ Dir /\ Goto("index")
    BY <1>2, <2>0, <2>4, Same DEF Stat, Goto, request, Right, Found, Early, CutRight
  <2> QED BY <1>2, <2>1, <2>2, <2>3, <2>4 DEF Stat
<1>3. CASE StatIndex
  <2>0. past.changed \/ (method = "GET" /\ Dir /\ fs.path.kind = "dir" /\ Served = fs.index)
    BY <1>3 DEF StatIndex, Right, Found, Served
  <2>1. CASE fs.index.kind = "none" /\ SpecialResponse(403)
    BY <1>3, <2>0, <2>1, SpecialRight DEF StatIndex, Early, Status
  <2>2. CASE /\ fs.index.kind # "none" /\ name' = "index" /\ pc' = "open"
             /\ UNCHANGED <<request, fs, file, resp, at, head, sent, past>>
    <3>1. past.changed \/ Picked'
      BY <2>0, <2>2, Same DEF Picked, request
    <3> QED BY <1>3, <2>2, <3>1, Same
            DEF StatIndex, request, Right, Found, Early, CutRight
  <2> QED BY <1>3, <2>1, <2>2 DEF StatIndex
<1>4. CASE Open
  <2>0. past.changed \/ (Picked /\ Proper(fs) /\ Served = fs[name])
    BY <1>4 DEF Open, Right, Found, Picked
  <2>1. CASE FileResponse(0) /\ UNCHANGED file
    BY <1>4, <2>0, <2>1, FileResponseRight DEF Open, Early
  <2>2. CASE fs[name].kind = "fifo" /\ Goto("blocked")
    BY <1>4, <2>0, <2>2, Same, SamePicked
       DEF Open, Goto, request, Right, Found, Early, CutRight
  <2>3. CASE /\ file' = [kind |-> fs[name].kind, size |-> fs[name].size, linked |-> TRUE]
             /\ pc' = "size" /\ UNCHANGED <<request, fs, name, resp, at, head, sent, past>>
    <3>1. past.changed \/ Opened'
      BY <2>0, <2>3, Same DEF Opened, request
    <3> QED BY <1>4, <2>0, <2>3, <3>1, Same, SamePicked
            DEF Open, request, Right, Found, Early, CutRight
  <2> QED BY <1>4, <2>1, <2>2, <2>3 DEF Open
<1>5. CASE Size
  <2>0. past.changed \/ (Picked /\ Opened /\ Served = fs[name] /\ Served.kind # "none")
    BY <1>5 DEF Size, Right, Found, Picked
  <2>1. CASE fs[name].kind = "none" /\ FileResponse(0)
    BY <1>5, <2>0, <2>1, FileResponseRight DEF Size, Early
  <2>2. CASE FileResponse(fs[name].size) /\ UNCHANGED file
    <3>1. fs' = fs /\ uri' = uri /\ method' = method
      BY <2>2 DEF FileResponse, Respond, request
    <3>2. Opened' <=> Opened
      BY <2>2, <3>1, Same DEF Opened
    <3> QED BY <1>5, <2>0, <2>2, <3>2, FileResponseRight DEF Size, Early
  <2> QED BY <1>5, <2>1, <2>2 DEF Size
<1>6. CASE Write
  <2>0. /\ pc = "write" /\ pc \notin Early /\ Gives \in Nat /\ Gives <= Rest
        /\ (at = "head" => Gives = head)
    BY <1>0, <1>6, GivesWithin DEF Write, Progress, Framed, Early
  <2>1. CASE Goto("full")
    BY <2>0, <2>1, WritingRight DEF Goto, request, Right, Early, CutRight
  <2>2. ASSUME at = "head", NEW n \in 1..Gives, SendHead(n) PROVE Right'
    <3>1. n \in 1..head /\ (n # head => head - n # 0)
      BY <1>0, <2>0, <2>2
    <3> QED BY <2>0, <2>2, <3>1, WritingRight DEF SendHead, request, Early, CutRight
  <2>3. ASSUME at = "body", NEW n \in 1..Gives, SendBody(n) PROVE Right'
    BY <2>0, <2>3, WritingRight DEF SendBody, request, Early, CutRight
  <2> QED BY <1>6, <2>1, <2>2, <2>3 DEF Write
<1>7. CASE WriteNone
  <2>1. past.changed \/ CutRight'
    BY <1>7, NothingLeft, Same DEF WriteNone, Close, request, CutRight
  <2> QED BY <1>7, <2>1, WritingRight DEF WriteNone, Close, request, Right, Early
<1>8. CASE Resume
  BY <1>8, WritingRight DEF Resume, request, Early, CutRight, TypeOK
<1>9. CASE WriteBroken
  BY <1>9, WritingRight DEF WriteBroken, request, Right, Early, CutRight, TypeOK
<1>10. CASE Replace \/ Resize
  BY <1>10 DEF Replace, Resize, Right, TypeOK
<1>11. CASE WriterComes
  <2>0. past.changed \/ (Picked /\ Proper(fs) /\ Served.kind = "fifo")
    BY <1>11 DEF WriterComes, Right, Found
  <2>1. Served.kind = "fifo" /\ Proper(fs) => Served.size = 0
    BY DEF Served, Proper
  <2>2. past.changed \/ Opened'
    BY <1>11, <2>0, <2>1, Same DEF WriterComes, request, Opened
  <2> QED BY <1>11, <2>0, <2>2, Same, SamePicked
          DEF WriterComes, request, Right, Found, Early, CutRight
<1>12. CASE UNCHANGED vars
  <2>1. UNCHANGED <<method, uri, fs, name, file, pc, resp, at, head, sent, past>>
    BY <1>12 DEF vars, request
  <2>2. TypeRight(resp.type)' <=> TypeRight(resp.type)
    BY <2>1, Same DEF TypeRight
  <2>3. /\ Found' <=> Found
        /\ FileRight' <=> FileRight
        /\ ErrorRight' <=> ErrorRight
        /\ CutRight' <=> CutRight
    BY <2>1, <2>2, Same, SamePicked DEF Found, FileRight, ErrorRight, CutRight, Opened
  <2> QED BY <2>1, <2>3 DEF Right
<1> QED BY <1>1, <1>2, <1>3, <1>4, <1>5, <1>6, <1>7, <1>8, <1>9, <1>10, <1>11, <1>12
        DEF Next, Over

\* What Right says of a response is what Answers asks for.
LEMMA RightAnswers ==
  ASSUME TypeOK, Right
  PROVE  Answers
<1> SUFFICES ASSUME ~past.changed PROVE Answers
  BY DEF Answers
<1>1. Found /\ CutRight /\ (resp.status = 200 => FileRight)
      /\ (resp.status \notin {0, 200} => ErrorRight)
  BY DEF Right
<1>2. resp.status = 200 => Status = 200
  BY <1>1 DEF FileRight, Picked, Status, Served
<1>3. resp.status \in {0, Status}
  BY <1>1, <1>2 DEF ErrorRight
<1>4. pc = "blocked" => (Dir /\ fs.index.kind = "fifo")
  BY <1>1 DEF Found, Picked, Served
<1> QED BY <1>1, <1>3, <1>4 DEF Answers, FileRight, ErrorRight, CutRight, TypeRight

\* While no file changes, every response is the one that the file system and
\* the method call for, and is complete unless the writer was resumed behind
\* the header, the client is gone or the index is a directory.
THEOREM AnswersRight == Spec => []Answers
<1>1. TypeOK /\ Progress /\ Right /\ [Next]_vars => (TypeOK /\ Progress /\ Right)'
  BY TypeStep, ProgressStep, RightStep
<1>2. TypeOK /\ Right => Answers
  BY RightAnswers
<1> QED BY <1>1, <1>2, TypeInit, ProgressInit, RightInit, PTL DEF Spec
=============================================================================
