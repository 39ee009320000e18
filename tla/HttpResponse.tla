---------------------------- MODULE HttpResponse ----------------------------
(***************************************************************************)
(* The answer to one request, from ehd_http_handler to the end of          *)
(* ehd_http_writer, while others change the files that are being served.   *)
(* The program asks for a file by name up to four times - stat, stat of    *)
(* the index, open, and stat again for the size - and then sends from the  *)
(* descriptor; between any two of these the file may be replaced, removed  *)
(* or truncated.                                                           *)
(*                                                                         *)
(* When and how often the socket is full is EhdServer's; here a send may   *)
(* be cut short or refused at any point.                                   *)
(***************************************************************************)
EXTENDS Integers, Sequences

CONSTANTS
  Uris,        \* decoded paths that the parsers may leave in r->uri
  Extensions,  \* the first column of the table mime, as sequences of letters
  MaxSize,     \* largest size of a file
  PageLen,     \* length of an error page with its tail
  HeadLen      \* bytes of a response header

Slash == "/"

ASSUME SizeAssumption == MaxSize \in Nat /\ PageLen \in Nat \ {0} /\ HeadLen \in Nat \ {0}
ASSUME UriAssumption == \A u \in Uris : u \in Seq(STRING) /\ u # <<>> /\ u[1] = Slash
ASSUME ExtensionAssumption ==
  /\ Extensions \in Seq(Seq(STRING))
  /\ \A i \in DOMAIN Extensions : \A k \in DOMAIN Extensions[i] : Extensions[i][k] # Slash

Methods == {"GET", "HEAD", "POST"}
Kinds == {"none", "dir", "reg", "fifo"}
Stages == {"handler", "stat", "index", "open", "size", "write", "full"}
Ends == {"kept", "closed"}

VARIABLES
  method, uri,  \* of the request
  fs,           \* what the file system has under root + uri, and there with index
  name,         \* which of the two is being served
  file,         \* the opened file, and whether it is still the one of that name
  pc,
  resp,         \* status, length, type, page and Location of the response
  at, head,     \* the buffer the writer is at, bytes of the header to send
  sent,         \* bytes of the body that are sent
  past          \* what the properties need of the past

request == <<method, uri>>
vars == <<method, uri, fs, name, file, pc, resp, at, head, sent, past>>

-----------------------------------------------------------------------------
Entry == [kind : Kinds, size : 0..MaxSize]
NoFile == [kind |-> "none", size |-> 0]
Dir == uri[Len(uri)] = Slash

\* A name that ends in a slash is a directory or nothing, and only a
\* directory has an index.
Proper(f) ==
  /\ f.path.kind # "dir" => f.index.kind = "none"
  /\ Dir => f.path.kind \in {"none", "dir"}
  /\ \A e \in {f.path, f.index} : e.kind \in {"none", "fifo"} => e.size = 0
FileSystems == {f \in [path : Entry, index : Entry] : Proper(f)}

NoResponse == [status |-> 0, length |-> 0, type |-> 0, page |-> 0, location |-> <<>>]
Statuses == {0, 200, 302, 403, 404, 501}

TypeOK ==
  /\ method \in Methods /\ uri \in Uris
  /\ fs \in [path : Entry, index : Entry]
  /\ name \in {"path", "index"}
  /\ file \in [kind : Kinds, size : 0..MaxSize, linked : BOOLEAN]
  /\ pc \in Stages \cup {"blocked"} \cup Ends
  /\ resp.status \in Statuses /\ resp.page \in Statuses \ {200}
  /\ resp.length \in Nat /\ resp.type \in 0..Len(Extensions)
  /\ at \in {"head", "body"} /\ head \in 0..HeadLen /\ sent \in Nat
  /\ past \in [changed : BOOLEAN, resumed : BOOLEAN, gone : BOOLEAN]

Init ==
  /\ method \in Methods /\ uri \in Uris /\ fs \in FileSystems
  /\ name = "path" /\ file = [kind |-> "none", size |-> 0, linked |-> FALSE]
  /\ pc = "handler" /\ resp = NoResponse /\ at = "head" /\ head = HeadLen /\ sent = 0
  /\ past = [changed |-> FALSE, resumed |-> FALSE, gone |-> FALSE]

-----------------------------------------------------------------------------
\* The name of a file is compared with an extension from the end; the loop
\* stops behind the first difference.  What lies before the uri may be equal
\* to anything.
Pos(ext, k) == Len(uri) - Len(ext) + k
Equal(ext, k) == Pos(ext, k) >= 1 => uri[Pos(ext, k)] = ext[k]

\* Broken variant: all positions are compared.
ComparedAll(ext) == 1..Len(ext)

Compared(ext) == {j \in 1..Len(ext) : \A k \in (j + 1)..Len(ext) : Equal(ext, k)}
Fits(ext) == \A j \in 1..Len(ext) : Equal(ext, j)

\* The row that the loop stops at: the first that fits, 0 if none does.
ContentType(t) ==
  \/ t = 0 /\ \A i \in 1..Len(Extensions) : ~Fits(Extensions[i])
  \/ /\ t \in 1..Len(Extensions) /\ Fits(Extensions[t])
     /\ \A i \in 1..(t - 1) : ~Fits(Extensions[i])

\* error_pages, each as the status it is written for; 0 has no page.
error_pages ==
  <<301, 302, 0,
    400, 0, 0, 403, 404, 405, 0, 0, 408, 0, 0, 0, 0, 413, 414, 0, 416,
    497, 404, 0, 500, 501, 502, 503, 504>>

\* Broken variant: the table is taken to begin with 300.
PageOfNext(error) ==
  error_pages[2 + (IF error < 400 THEN error - 301
                   ELSE IF error < 497 THEN error - 400 + 3 ELSE error - 497 + 3 + 17)]

PageOf(error) ==
  error_pages[1 + (IF error < 400 THEN error - 301
                   ELSE IF error < 497 THEN error - 400 + 3 ELSE error - 497 + 3 + 17)]

Goto(s) == pc' = s /\ UNCHANGED <<request, fs, name, file, resp, at, head, sent, past>>
Respond(r) == pc' = "write" /\ resp' = r /\ UNCHANGED <<request, fs, name, at, head, sent, past>>

\* Broken variant: the redirect leads to where it came from.
RedirectSame == uri
Redirect == Append(uri, Slash)

SpecialResponse(error) ==
  /\ Respond([status |-> error, length |-> PageLen, type |-> 0, page |-> PageOf(error),
              location |-> IF error = 302 THEN Redirect ELSE <<>>])
  /\ UNCHANGED file

\* ehd_http_file_writer_handler from h->status = 200 on.
FileResponse(n) ==
  \E t \in 0..Len(Extensions) :
    /\ ContentType(t)
    /\ Respond([status |-> 200, length |-> n, type |-> t, page |-> 0, location |-> <<>>])

Handler ==
  /\ pc = "handler"
  /\ \/ method = "GET" /\ Goto("stat")
     \/ method # "GET" /\ SpecialResponse(501)

Stat ==
  /\ pc = "stat"
  /\ \/ fs.path.kind \in {"none", "fifo"} /\ SpecialResponse(404)
     \/ fs.path.kind = "reg" /\ Goto("open")
     \/ fs.path.kind = "dir" /\ ~Dir /\ SpecialResponse(302)
     \/ fs.path.kind = "dir" /\ Dir /\ Goto("index")

\* The index need not be a regular file.
StatIndex ==
  /\ pc = "index"
  /\ \/ fs.index.kind = "none" /\ SpecialResponse(403)
     \/ /\ fs.index.kind # "none"
        /\ name' = "index" /\ pc' = "open"
        /\ UNCHANGED <<request, fs, file, resp, at, head, sent, past>>

\* ehd_file_open_rs.  Its result is not looked at: a file that is gone, may
\* not be read or finds no descriptor is answered by 200 and no length.
Open ==
  /\ pc = "open"
  /\ \/ FileResponse(0) /\ UNCHANGED file
     \/ fs[name].kind = "fifo" /\ Goto("blocked")
     \/ /\ fs[name].kind \in {"reg", "dir"}
        /\ file' = [kind |-> fs[name].kind, size |-> fs[name].size, linked |-> TRUE]
        /\ pc' = "size" /\ UNCHANGED <<request, fs, name, resp, at, head, sent, past>>

\* The second half of ehd_file_open_rs takes the size of what now has the
\* name.  If nothing has, the descriptor is lost: file->fd stays 0.
Size ==
  /\ pc = "size"
  /\ \/ /\ fs[name].kind = "none"
        /\ FileResponse(0) /\ file' = [kind |-> "none", size |-> 0, linked |-> FALSE]
     \/ fs[name].kind # "none" /\ FileResponse(fs[name].size) /\ UNCHANGED file

-----------------------------------------------------------------------------
\* ehd_http_writer.  A buffer in memory: a send of its last bytes goes on to
\* the next buffer, a send of none returns 0.
Rest == IF at = "head" THEN head ELSE resp.length - sent
InMemory == at = "head" \/ resp.page # 0

\* What sendfile has to give: it is asked for the bytes up to file->size, and
\* stops where the file ends now.
Left == IF file.kind # "reg" \/ file.size < sent THEN 0 ELSE file.size - sent

\* Broken variant: sendfile is asked for all there is.
GivesAll == IF InMemory THEN Rest ELSE Left

Gives == IF InMemory \/ Rest <= Left THEN Rest ELSE Left

Close == pc' = "closed" /\ UNCHANGED <<request, fs, name, file, resp, at, head, sent, past>>

SendHead(n) ==
  /\ head' = head - n /\ at' = IF n = head THEN "body" ELSE "head"
  /\ UNCHANGED <<request, fs, name, file, pc, resp, sent, past>>

SendBody(n) ==
  /\ sent' = sent + n
  /\ pc' = IF sent + n = resp.length THEN "kept" ELSE "write"
  /\ UNCHANGED <<request, fs, name, file, resp, at, head, past>>

\* Some bytes go out, or the socket is full and EAGAIN ends the handler.
Write ==
  /\ pc = "write"
  /\ \/ at = "head" /\ \E n \in 1..Gives : SendHead(n)
     \/ at = "body" /\ \E n \in 1..Gives : SendBody(n)
     \/ Gives > 0 /\ Goto("full")

\* Nothing to send: send or sendfile returns 0, or sendfile refuses a
\* directory.  Both close the request and the connection.
WriteNone == pc = "write" /\ Gives = 0 /\ Close

\* With room in the socket the writer is called again; it starts from
\* r->response.last, which is still the header.
Resume ==
  /\ pc = "full"
  /\ pc' = "write" /\ at' = "head" /\ past' = [past EXCEPT !.resumed = TRUE]
  /\ UNCHANGED <<request, fs, name, file, resp, head, sent>>

\* The client has closed the connection.
WriteBroken ==
  /\ pc = "write"
  /\ pc' = "closed" /\ past' = [past EXCEPT !.gone = TRUE]
  /\ UNCHANGED <<request, fs, name, file, resp, at, head, sent>>

-----------------------------------------------------------------------------
\* Meanwhile: the two names come to mean something else, ...
Replace ==
  /\ pc \in Stages
  /\ fs' \in FileSystems /\ fs' # fs
  /\ file' = [file EXCEPT !.linked = FALSE]
  /\ past' = [past EXCEPT !.changed = TRUE]
  /\ UNCHANGED <<request, name, pc, resp, at, head, sent>>

\* ... a regular file is written or truncated, also when it is open, ...
Resize ==
  /\ pc \in Stages
  /\ fs[name].kind = "reg"
  /\ \E n \in (0..MaxSize) \ {fs[name].size} :
       /\ fs' = [fs EXCEPT ![name] = [kind |-> "reg", size |-> n]]
       /\ file' = IF file.linked THEN [file EXCEPT !.size = n] ELSE file
  /\ past' = [past EXCEPT !.changed = TRUE]
  /\ UNCHANGED <<request, name, pc, resp, at, head, sent>>

\* ... and somebody opens the other end of the FIFO that the server waits in.
WriterComes ==
  /\ pc = "blocked"
  /\ file' = [kind |-> "fifo", size |-> 0, linked |-> TRUE]
  /\ pc' = "size" /\ UNCHANGED <<request, fs, name, resp, at, head, sent, past>>

Over == pc \in Ends /\ UNCHANGED vars

Next ==
  \/ Handler \/ Stat \/ StatIndex \/ Open \/ Size
  \/ Write \/ WriteNone \/ Resume \/ WriteBroken
  \/ Replace \/ Resize \/ WriterComes \/ Over

Spec == Init /\ [][Next]_vars

-----------------------------------------------------------------------------
\* A connection is kept only behind a response that says how long it is and
\* is that long; a response without Content-Length ends with the connection.
\* However the file changes, the client does not take bytes of this response
\* for the next one, nor wait for bytes that do not come.
Framed ==
  /\ sent <= resp.length
  /\ pc = "kept" => resp.length > 0 /\ sent = resp.length /\ head = 0
  /\ sent > 0 => head = 0

\* The search for the content type reads no byte before the uri, although an
\* extension may be longer than it: every uri begins with a slash, which is in
\* no extension.
TypeReadsInUri ==
  \A i \in 1..Len(Extensions) : \A j \in Compared(Extensions[i]) : Pos(Extensions[i], j) >= 1

\* What the file system calls for.
Served == IF Dir THEN fs.index ELSE fs.path
Ending == {i \in 1..Len(Extensions) :
             \E b \in 0..Len(uri) : uri = SubSeq(uri, 1, b) \o Extensions[i]}
Status ==
  IF method # "GET" THEN 501
  ELSE IF fs.path.kind \in {"none", "fifo"} THEN 404
  ELSE IF fs.path.kind = "dir" /\ ~Dir THEN 302
  ELSE IF Served.kind = "none" THEN 403 ELSE 200

\* While no file changes, the response is the one the file system calls for:
\* an error has the page of its own status, a redirect leads to the directory
\* and not to another redirect, a file has its length and the type of its
\* extension; only an index that is no regular file stops the server, and a
\* response to a client that is there is cut only when it is resumed behind
\* its header, or when the file did not open or is no regular file.
Answers ==
  past.changed \/
    /\ resp.status \in {0, Status}
    /\ resp.status \notin {0, 200} => resp.page = resp.status /\ resp.length = PageLen
    /\ resp.status = 302 => resp.location[Len(resp.location)] = Slash
    /\ resp.status = 200 =>
         /\ resp.page = 0 /\ resp.length \in {0, Served.size}
         /\ resp.type = 0 <=> Ending = {}
         /\ resp.type # 0 => resp.type \in Ending
    /\ pc = "blocked" => (Dir /\ fs.index.kind = "fifo")
    /\ (pc = "closed" /\ ~past.gone /\ sent < resp.length) =>
         head = 0 /\ (past.resumed \/ (Dir /\ fs.index.kind = "dir"))
=============================================================================
