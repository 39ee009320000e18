# ehttpd in TLA+

ehttpd is a small single-threaded HTTP server: one process, one edge-triggered
epoll instance, non-blocking sockets, a table of connection slots indexed by file
descriptor, and HTTP handlers that close, re-arm and reuse these slots. This
directory models the program from `main` to the last byte of a response: startup,
the event loop and its handlers, the three parsers, the choice and sending of a
response, and the memory pools with their containers. The models are checked with
TLC on small instances, and most of their safety properties are proved with TLAPS
for all sizes.

    tlc -config EhdServer_one.cfg MCEhdServer.tla     # any EhdServer_*.cfg
    tlc -config RequestLine.cfg MCRequestLine.tla     # and HttpResponse likewise
    tlc -config HeaderLines.cfg HeaderLines.tla       # and ComplexUri, EhdPool, EhdStartup
    tlapm EhdServerProofs.tla                         # any module named ...Proofs

| module | what it is |
| --- | --- |
| `Kernel` | external: descriptor table, TCP sockets, edge-triggered epoll, the clients |
| `EhdServer` | the event loop, the accept handler, the HTTP handlers, the writer, the slots |
| `MCEhdServer` | small instances of `EhdServer`, with `EhdServer_*.cfg` |
| `EhdServerProofs` | inductive invariants and theorems about `EhdServer` |
| `HttpService` | abstract: what the server promises to one client |
| `EhdServerRefinement` | the proof that `EhdServer` implements `HttpService` |
| `RequestLine`, `MCRequestLine`, `RequestLineProofs` | the request-line parser and the handler that uses its marks, and theorems |
| `ComplexUri`, `ComplexUriProofs` | the automaton that rewrites a path, and theorems about it |
| `HeaderLines`, `HeaderLinesProofs` | the header-line parser and the handler around it, and theorems |
| `HttpResponse`, `MCHttpResponse`, `HttpResponseProofs` | the answer to a request, against a file system that changes |
| `EhdStartup`, `EhdStartupProofs` | from `main` to the event loop |
| `EhdPool`, `EhdPoolProofs` | a memory pool with an array, a list, buffers and large pieces in it, and theorems |

## 1. Inventory

### Components, their state and their operations

* **Event loop** (`src/event/ehd_epoll.c`). State: the epoll descriptor and
  `event_list`, the batch that one `epoll_wait` fills. Operations: add, modify and
  delete interest in a descriptor; `ehd_event_epoll_process`, which waits and then
  calls, for each entry with an open slot, the write handler and then the read
  handler. Correct if no entry is stale when it is dispatched and no edge is lost.
* **Accepting** (`src/event/ehd_event_accept.c`, `ehd_event.c`). State: the slot
  table `ehd_cycle->connections` / `->events`. The handler accepts until EAGAIN and,
  for each socket, zeroes the slot with that number, gives it a pool and a buffer
  and registers it. Correct if every accepted socket ends up in a slot or closed,
  and nothing of the previous owner of a slot survives.
* **Connection slots** (`src/core/ehd_connection.c`, `src/http/ehd_http.c`). State per
  slot: descriptor, `read_handler`, `write_handler`, `data`, pool, event.
  `ehd_close_connection` takes the descriptor and the pools back. Startup opens the
  listening sockets here.
* **Request handlers** (`src/http/ehd_http_request.c`). State: the request, its pool,
  the buffer with `pos <= last <= end`. A connection goes through init connection,
  init request, request line, headers, response, keep-alive, and round again. Correct
  if handler, `c->data` and pools agree at every event, and each way out closes once.
* **Response and writer** (`src/http/ehd_http_core.c`). State: a chain of two
  buffers, header and page or file, each with its unsent rest. Correct if
  the response is sent completely or the client is gone, and interest in the
  descriptor follows what the handlers wait for.
* **Socket I/O** (`src/core/ehd_socket.c`). `ehd_recv` and `ehd_send` keep the
  readiness flag `rready` (the other flags are written and never read).
* **Parsers** (`src/http/ehd_http_parse.c`). Three resumable character automata: request
  line, complex URI, header line. State in the request: `state` and the marks.
  Correct if they accept what they should, in whatever pieces it comes, the marks
  delimit it, and the rewritten path is the one the client's path means.
* **Pools, containers, strings** (`ehd_palloc`, `ehd_list`, `ehd_array`, `ehd_buf`,
  `ehd_string`). Memory of a connection and of a request: blocks, large pieces,
  and arrays and lists that grow in them. Correct if no two users share memory,
  contents survive growth, and a destroyed pool gives every chunk back once.
* **Startup** (`ehttpd.c`, `ehd_cycle.c`, `ehd_conf.c`, parts of `ehd_connection.c` and
  `ehd_event.c`). Sets built-in configuration values (no file is read), opens sockets
  in up to five rounds, enters the loop. Correct if the loop is entered only with
  every listener ready.
* **Echo handlers** (`ehd_event_echo.c`): never installed. **Tests** (`src/test`): print
  the contents of the containers; their call is commented out.

### How they interact

Everything runs in callbacks of one thread. The loop reads `read_handler` and
`write_handler` of a slot; the handlers replace them as the request advances
and call each other directly (init connection calls init request, which calls the
request-line handler, then headers, response, writer). They share the slot, the
buffer and the interest mask in the kernel. The only concurrency is between
this thread and the clients, through the kernel: bytes, FINs, resets and free
buffer space appear between any two system calls.

### What is hard here

Edge-triggered wakeups, stale entries of a batch, reuse of a descriptor within
a batch (by a new connection or by an opened file), helpers that close what
their caller closes again, resumption after EAGAIN, descriptors running out,
allocation failure in the middle of a handler, clients that close or reset at every
point, parsers that stop after any byte. `PROJECT.json` lists each under
"hazards" at the line where it bites, with the properties that cover it.

## 2. The models and the code

### Kernel

`sock` maps each descriptor to what it is (free, listener, connection, file), what the
peer has done, the unread bytes (or waiting connections), the free send buffer,
and the registered interest. `ready` is epoll's ready list: the
descriptors with an edge not yet reported. An event of the client makes an edge only
for a registered event; `epoll_ctl` looks at the socket at once and makes one if it
is ready already; `epoll_wait` takes the whole list. A new descriptor is always
the lowest free one, which is what makes reuse within a batch possible. A reset that
follows a FIN leaves the pending error EPIPE, so that the next write raises
SIGPIPE; any other reset leaves ECONNRESET. Bytes are counted, not
looked at.

### EhdServer

One step of the server is one system call together with the computation after
it; between two steps clients may do anything.

| model | code |
| --- | --- |
| `conn[s]` | slot `s` and its event: `open` is `c->fd != -1`, `rh`/`wh` the handlers, `data` what `c->data` points to, `cpool`/`rpool` the pools (none, live, freed), `pos`/`last` of the buffer, `hrest`/`brest` the unsent bytes of the two buffers |
| `batch` | the rest of `event_list`; entries may be dispatched in any order, since the kernel fixes none |
| `pc`, `cur` | where the thread is and for which connection |
| `EpollWait`, `Dispatch` | `ehd_event_epoll_process` |
| `Accept` (`AcceptNone/Over/NoPool/New`) | one turn of the loop of `ehd_event_accept_handler` |
| `InitConnection`, `InitRequest` | `ehd_http_init_connection`, `ehd_http_init_request` |
| `ProcessRequestLine`, `ProcessHeaders`, `HeadersError` | the two reading handlers, one turn of their loops; `HeadersError` is the second pair of closes after a failed read |
| `Respond` | `ehd_http_handler` with the file and the error-page branch; `"blocked"` is `open` waiting for a writer of a FIFO, which ends by `WriterComes` |
| `Writer` | one turn of `ehd_http_writer`, ending with `ehd_http_keep_alive` |
| `CloseBoth` | `ehd_http_close_request` and `ehd_http_close_connection` |

`Init` is the state in which the loop is entered: listeners open and registered.

What is abstract: the parsers, here, either want more bytes, accept a prefix of the
buffer or reject; which response a request gets is any of the responses; sizes
are taken from `MemSizes` and `FileSizes`. A file (`file`) gives what `sendfile` is asked
for, a part of it, or no more at all, as one does that was truncated or is a
directory; why it does is `HttpResponse`'s business. A second destroy of a freed pool ends the
process, because glibc aborts on it. `ehd_recv` is never interrupted, since
no signal handler is installed. Members the code writes and never reads
(`wready`, `eof`, `error`) are left out.

### HttpService

The promise to one client: `link[c]` is the phase of connection `c` (closed,
waiting, reading, response), the bytes that wait to be taken and the rest of header
and page. In `EhdServer`, `Links` computes it for every descriptor: the phase from
`conn[s]`, the pending bytes from the socket's and the buffer's, the rest of the
response from `hrest` and `brest`; `Service` is the instance under this mapping, and
`ImplementsService` the refinement. The service says that no byte is lost or taken
twice, that bytes behind a request are still there for the next, that a request is
answered once and that keep-alive follows a response that is out completely. It
promises no answer: the server may cut, close, wait or die (section 5 says when).

### RequestLine

One step is one turn of `ehd_http_parse_request_line`, an action per parser state,
on bytes known by class. `r` holds the marks, `buf` the buffer with the NUL behind
the line. `LineDone` is what the handler computes from the marks (`len`, with the length
of the name of an unknown method), `Close` and `BufferFull` its error paths. `sw_space_after_method` is never entered and left out.

### ComplexUri

One step is one turn of `ehd_http_parse_complex_uri`. `out` is the copy up to the
output pointer `u`, which moves back over `/./` and `/../`; reading before the copy is
the state `underrun`. Two hexadecimal digits may decode to any byte; `seen`, the
decoded path, is read by the properties only.

### HeaderLines

One step is one turn of the loop of `ehd_http_parse_header_line`, an action per
parser state, on bytes known by their class (letters, digits and `-_~.` are
one class). `wire` is what came, `buf` the buffer with the NULs that the handler
writes to make strings in place, `mark` the four positions. `LineDone` is what
the handler does with a finished line, `Receive` the read that brings the next
bytes. `sw_ignore_line` is left out: it needs `r->proxy`, which is never set.

### HttpResponse

One step is one call by name (`Stat`, `StatIndex`, `Open`, `Size`) or one send. `fs` is
what the path and its index are in the file system, `file` the opened file and
whether the name still means it; `Replace`, `Resize` and `WriterComes` are what others
do meanwhile. `resp` has the status, length, content type, page and Location;
`ContentType` is the search of the MIME table from the end of the uri, position by
position. `past` is read by the properties only. When and how often a socket is
full belongs to `EhdServer`; here a send may be cut short or refused at any point.

### EhdStartup

One step is one system call or one function of the startup. `lis` are the listeners'
descriptors, `use` the descriptor table, `tries`, `i` and `failed` the locals of
`ehd_open_listening_socket`. Every call may fail. `ehd_listening_init` has no
return statement, so its result is either answer. Where `pc = "loop"`, `EhdServer` begins.

### EhdPool

Addresses are pairs of a chunk that malloc returned and an offset, so that
nothing is assumed of where chunks lie. `pool.blocks` has the free offset of every
block, `pool.large` the large pieces with their nodes, `pool.live` every region handed
out and its owner (for the properties), `mem` the contents. An action is a call of a
container's operation with all allocations it makes, each of which may fail.
An array is allocated with its structure (`ArrayCreate`) or lies in a structure of its
user, as the server's two arrays do (`ArrayInit`, at `Embedded`).
`Destroy`, `FreeLarge` and `FreeBlock` are the loops of `ehd_destroy_pool`, one `free` at a time.

## 3. What the runs check

| run | instance | what it asks | states |
| --- | --- | --- | --- |
| `one` | 1 connection, 1 spare descriptor, backlog 2, buffer 3, header 3, page 1 or 3, send buffer 2, `malloc` and `epoll_ctl(ADD)` may fail, a file may end early | the safety properties of `EhdServer`, and that it implements `HttpService` | 260 000 |
| `two` | 2 connections, no spare descriptor: a served file takes one of theirs | `BatchIsCurrent`: batches with several connections, reuse of descriptors within a batch | 1 141 000 |
| `live` | 1 slot, fairness | handlers return, data is read, responses end | 34 000 |
| `headers` | blocks of 9 bytes, pieces of 1 or 2 | the header parser | 406 000 |
| `request_line` | lines of 13 bytes, pieces of 1 or 2, six beginnings | the request-line parser and the marks | 122 000 |
| `complex_uri` | every path of up to 8 bytes | the path automaton | 752 000 |
| `response` | paths of up to 3 letters, 3 extensions, every small file system | choice, length and sending of a response | 181 000 |
| `pool` | up to 3 chunks with 5 free units each | allocator, array, list, destruction | 265 000 |
| `startup` | 2 listeners, 5 rounds, 14 descriptors | what the loop is entered with | 715 |
| `doublefree`, `eof`, `deaf` | as `live` | the disagreements of section 5 | - |

Safety properties of `EhdServer`:

* `WatchesWhatItWaitsFor`: a connection is watched for one direction, the one its
  handlers wait for. This is why `ehd_http_block_read`, with its uninitialised
  variable in `ehd_event_epoll_del`, is never reached, and why an entry never carries
  two events.
* `BatchIsCurrent`: no handler makes a later entry of the same batch stale. It
  holds because a handler touches only its own connection, and because a descriptor
  in the batch is open and therefore not given out.
* `UseAfterCloseOnlyAtEof`: every handler works on an open connection and a live
  request, but for one. `headers_error` is the handler that comes back from a read at the
  end of the stream: its connection is closed and both pools are freed, always, and it
  goes on to use them (`doublefree`, section 5). No other handler may be in that place.
* `DataFitsHandler`: the meaning of `c->data` between events.
* `NothingLeaksOnClose`: descriptors and pools come back. (Descriptors of served
  files do not; they appear as files in `sock` and stay. The pool that the accept handler
  loses with a socket when `fcntl` fails, `ehd_event_accept.c:49-52`, belongs to no slot
  and is not followed.)
* `NoLostWakeup`: unread data, or buffer space, of a connection that waits for it is
  announced by an edge still to come.
* `FaultsExplained`: the three ways the process can die and what each needs.
* `CutsExplained` (about steps): where a response to a live client is cut. Never in its
  header; a generated page only when the writer is resumed in it; a file also when
  `sendfile` gives no more of it (empty, not opened, a directory, or shorter by now than
  announced).
* `ImplementsService` (about steps): every step of the server and its clients is a
  step of the abstract service for one connection, or none.

Liveness: `HandlersReturn`, `DataReachesHandler`, `ResponseEnds`; `Starts` in `EhdStartup`.
The first three are promises of a server that goes on: each excepts a process that has
died and one whose only thread waits in `open` for a writer of a FIFO (`Halted`).

`RequestLine`: `StopsWhereItMust` compares the verdict with a definition of a request
line as sequences of items, whatever the pieces; `MarksDelimit` says that the marks
and lengths delimit the parts they are named for, and that the length of an unknown
method, the one exception, takes exactly the space behind it as well;
`SimplePathIsNormal` that a path which is not rewritten needs no rewriting;
`LineReadable` that the NUL is where it harms nothing.

`ComplexUri`: `StaysInCopy` (the output pointer, with the room for the NUL), `Rooted`,
`NormalForm` (no empty name, `.` or `..` that a slash ends), `ExtensionOfName`, and
`ResolvesPath`: the copy is what a stack of names makes of the decoded path.

`HeaderLines`: `HeadersAreLines` compares every header with a definition of a header
line that knows nothing of the automaton; `StopsWhereItMust` says the parser goes on
exactly while the bytes can become a header block; `HeadersReadable` that the
in-place NULs damage neither the strings nor the bytes still to be parsed.

`HttpResponse`: `Framed` holds whatever happens to the files: a connection is kept only
behind a response of the announced length. `Answers` holds while nothing
changes: status, page, length, type and Location are those the file system calls
for. `TypeReadsInUri`: the suffix search does not read before the path.

`EhdStartup`: `LoopIsReady` is the state in which `EhdServer` begins;
`SocketsBounded` bounds what failed binds leave open, and with it the slot numbers.

`EhdPool`: `OwnMemory` (no two users share memory; the elements lie in memory of their
container), `ReadBack` (what was pushed is read back, through growth in place, moves,
new nodes and failures), `FreedOnce`.

### Bounds

All bounds are constants. Two connections are enough for one to disturb the other
through a batch, the slot table or the descriptor table. In `one` there is one
descriptor more than there are slots: a served file takes it, or a connection for which
there is no slot (`AcceptOver`). One listener is enough for the runs, since listeners
share nothing but the descriptor table; the theorems hold for any set of them. A buffer of 3 bytes has partial, exact and overfull requests and a
pipelined rest; a send buffer smaller than the header and than the page forces
EAGAIN in each of them. The receive window and the backlog are bounded by the
kernel as in reality. A header block of 9 bytes holds two complete lines and
the beginning of a third, or one with spaces around and inside its value.
In `request_line` each beginning leaves the rest of the buffer to one part of the line
(path, version, host and port, method), so that every state is entered and left in
every way; `UintSize` replaces 2^32, which no version number of that length
reaches either. Eight bytes hold a path with two names and a `/../` behind them, or a
quoted `/../`. Two extensions of the instance of `response` are as long as a whole
path or longer. Five free units of a block and pieces of three make the array grow
in place, into a second block and into a large piece, and make a list node not
fit; three chunks make malloc fail at every point. `startup` has the two listeners
and five rounds of the program.
The actions and the branches of every action are taken in the runs together.
No run uses symmetry: descriptors are ordered by `LowestFree`.

`CHECK_DEADLOCK FALSE` is set for `EhdServer` because the system really may stop:
once the listener has lost its edge with a full backlog and no connection is
open, neither server nor client has a step left. The other modules have no deadlock
and are checked for it: where the modelled code is through, `Over` stutters.

### Fairness

`FairSpec` has `WF_vars(Server)`, which leaves out `WriterComes`: one thread that does not yield, so a step that
can be taken is taken. `FairClientSpec` adds, for `live`, that a client that has not
gone away keeps reading what it is sent; nothing is assumed of clients that
send, and they may close or reset at any time. Without reading clients
`ResponseEnds` would be false, as the server has no timers. `eof` and `deaf` assume
only `FairSpec`, so that their counterexamples do not come from a server that
stopped. `EhdStartup` has `WF_vars(Next)`: it is one sequential program that
waits for nothing.

## 4. What is proved

`EhdServerProofs` proves, for any number of descriptors, slots and listeners, any
buffer sizes and response sizes, with or without shortage:

| theorem | property |
| --- | --- |
| `TypeCorrect` | `TypeOK` |
| `WatchesCorrectly` | `WatchesWhatItWaitsFor` |
| `BatchStaysCurrent` | `BatchIsCurrent` |
| `OnlyEofUsesClosedMemory` | `UseAfterCloseOnlyAtEof` |
| `HandlersFitData` | `DataFitsHandler` |
| `ClosingFreesAll` | `NothingLeaksOnClose` |
| `WakeupsAreNotLost` | `NoLostWakeup` |
| `OnlyKnownFaults` | `FaultsExplained` |
| `CutsAreExplained` | `CutsExplained` |
| `HandlersAdvance` | the safety part of `HandlersReturn` |

Assumptions: `KernelAssumption` and `ServerAssumption` only (sizes are naturals, the
buffers are not empty, listeners have slots, a generated page is not empty).

`TypeOK` is not inductive: that `recv` stays inside the buffer needs `pos <= last`, and
a handler's step needs a current connection. `TypeInv` adds both.

The other properties are not inductive one by one, because they lean on each
other: that a batch entry is not stale needs that interest follows the handlers;
that a handler owns its memory needs that the slot was consistent when its event
was dispatched; that no wakeup is lost needs to know exactly which flag the running
handler has already consumed. `SafetyInv` joins

* `SlotInv` for every descriptor: a slot is a listener's, closed or open, and for an
  open one handler, data, pools, response and kernel interest are those of one
  stage of a connection's life;
* the entries of the batch are within the registered interest;
* `Wakeup` for every descriptor: unread data or room is covered by an edge, by the
  batch, or by the handler at work on it;
* `PcInv`: at each `pc`, what the stage of the connection at work is.

Each action is shown to preserve it by a lemma of its own (`WriterSafe`,
`AcceptSafe`, `LoopSafe`, `ClientSafe`, ...), built on lemmas about the steps that
handlers share (closing, returning, moving on): what happens to the connection at
work, and that the other connections keep what they had. `StepSafe` puts them
together, and each theorem follows from `[]SafetyInv`. `CutsAreExplained` is an
action property, proved from the same invariant by looking at the closes a writer
can do. `HandlersAdvance` needs `TypeInv` only. It says why no handler can run for ever:
each of its steps returns, ends the process, calls a handler further on (waiting
for a FIFO counts as that), or lowers
`Left`, a natural number (free descriptors in the accept loop, room behind `pos` while
parsing, unsent bytes while writing) that no client changes. What `HandlersReturn` has
beyond it is that a handler always has a step to take (ENABLED) and takes it (fairness).

`EhdServerRefinement` proves `ServiceImplemented`: `Spec => ImplementsService`, for any
number of connections. `LinksInit` maps the initial state; each action is shown to be
one step of the service for the connection at work, or a stutter. It rests on
`SafetyInv`, which says what stage a handler finds its connection in, and on lemmas
that the mapping of all other connections is unchanged.

`ComplexUriProofs` proves, for paths of any length, `UriTypeCorrect` (`TypeOK`),
`CopyIsNotLeft` (`StaysInCopy`), `CopyIsRooted` (`Rooted`), `CopyIsNormal` (`NormalForm`)
and `ExtensionIsInName` (`ExtensionOfName`). `UriInv` adds to them what the last bytes
of the copy are in each state (`/` in slash, `/.` in dot, `/..` in dot_dot): that is
why moving back finds a slash. `PathIsResolved` (`ResolvesPath`) compares the copy with
the stack `Names` of the decoded path. `NamesInv` says that the copy spells the names that
a slash has ended, all proper ones, and the name on top, which the state knows (empty,
`.`, `..` or proper), and what one more byte does to them.

`HeaderLinesProofs` proves, for blocks and pieces of any length, `TypeCorrect`,
`HeadersAreRight` (`HeadersAreLines`), `HeadersStayReadable` (`HeadersReadable`) and
`StopsRight` (`StopsWhereItMust`). The invariant is `TypeOK`, `CurLine` (in each
state, what the bytes of the current line are and where its marks point), `Earlier` (the
finished lines lie one behind the other, before the current one, and the NULs only in
them) and `Stopped`.

`RequestLineProofs` proves, for lines and pieces of any length, `TypeCorrect`,
`MarksAreRight` (`MarksDelimit`), `SimpleNeedsNoRewriting` (`SimplePathIsNormal`) and
`LineIsReadable` (`LineReadable`). Their invariant, `Facts`, is about the bytes parsed so
far, the marks and the state: what lies before the path (`BeforeUri`, `Ahead`), the path
as far as it is read (`Path`, with `Simple` while no complex byte has come) and what
lies behind it (`BehindPath`). A received piece keeps it because it never looks behind
the last byte parsed (`FactsLonger`).

`StopsInTheRightPlace` (`StopsWhereItMust`) compares the state machine with
`RequestLines`, sequences of items that the model states on their own. The proof gives the
items names: `LineSpelled` spells each of the lines with them, and `Due`, the names that may
come next, changes with a byte by `Onward` (`DueMore`), whatever the line. `StopInv` says
for each state of the parser which names are due, and in which of the lines. Then going
on, refusing and finishing are each right for every byte; and as the invariant is about
the bytes and not about the calls, so they are in whatever pieces the bytes come.

`HttpResponseProofs` proves, for any paths, extensions, sizes and any interference,
`TypeCorrect`, `ResponsesAreFramed` (`Framed`), `TypeReads` (`TypeReadsInUri`) and
`AnswersRight` (`Answers`). The invariant is `TypeOK`, `Progress` (what is sent and left
at each stage) and `Right` (while nothing has changed, what has been found out so far
agrees with the file system).

`EhdStartupProofs` proves, for any number of listeners, rounds, descriptors and
slots, `TypeCorrect`, `LoopStartsReady` (`LoopIsReady`) and `SocketsAreBounded`
(`SocketsBounded`). The invariant is `TypeOK`, `Taken` (open sockets lie below a bound
that goes up by one for each listener tried), `Owned` (which descriptors and slots
are whose) and `Reached` (what is done where the program is). `StartupIsShort` is the safety
part of `Starts`: `StepsLeft` counts what the rounds, listeners and stages still to come
can take, starts at 4 + (Tries + 2) * (NListen + 2), and falls with every step.

`EhdPoolProofs` proves, for blocks, structures and elements of any size, `TypeCorrect`,
`MemoryIsOwn` (`OwnMemory`) and `ChunksAreFreedOnce` (`FreedOnce`). Its invariant has four
parts. `PoolOK` says that what has been handed out lies in blocks of the pool and apart
from everything else handed out; `PallocRight` shows it for every outcome of
`ehd_palloc`. `ArrayParts` and `ListParts` say where the memory of the array and of the
list is, which only needs that no allocation takes anything back. For
`ehd_array_destroy`, the one operation that does, it matters that the elements are
covered byte by byte: the move of `b->last` it makes can only reach memory of the array
itself. `FreedOK` follows the order in which `ehd_destroy_pool` frees.
`PushedIsRead` (`ReadBack`) adds `HoldsInv`, what the bytes of the elements are: memory
that an allocation hands out is apart from them, so that only the push that means an
element writes to it, and a move copies all of them.

Besides the assumptions above they use only the named assumptions of their modules
(`MaxLenAssumption`, `SizeAssumption`, `UriAssumption`, `ExtensionAssumption`,
`StartupAssumption`, ...), all of which TLC evaluates.

What a recursive function computes for an input of any length is proved from its
equation at one more element; where a fact has to hold at every length, from the least
one at which it would fail (`NumbersByInduction`, from the well-foundedness of the naturals
in WellFoundedInduction), since the induction theorems themselves take an operator.

Every safety and action property of a passing run is so a theorem. Only model-checked are the
liveness properties (`HandlersReturn`, `DataReachesHandler`, `ResponseEnds`, `Starts`), as
fairness and ENABLED are beyond the prover, and the three counterexamples.

## 5. Where code and comments disagree

* `doublefree`: a client closes before its headers are complete. The read helper closes
  request and connection, and the headers handler closes them again
  (`ehd_http_request.c:314-318`); the pools were never set to NULL, so freed blocks are
  freed again and the process aborts. The comment in `ehd_close_connection` takes a
  second close for harmless.
* `eof`: a FIN arriving together with the last bytes of an unfinished request. The short
  read clears `rready`, the handler returns without asking again, and no edge follows.
  The comment in `ehd_connection.h` promises the call of the read handler.
* `deaf`: the accept handler returns early, without a descriptor, and leaves
  connections in the backlog of an edge-triggered listener. With the backlog full
  no edge ever comes. Its returns without a slot, without memory and after a failed
  `fcntl` are of the same kind; this run does not go through them.

Met while modelling and part of the models, without a line of the repository that
promises otherwise:

* A response larger than the send buffer is cut when the writer resumes in its page or
  file, and a file when it has become shorter than announced or cannot be sent
  (`CutsExplained`). An empty file closes the connection after the header. A file that does not open is answered 200 with no length.
  SIGPIPE is not ignored; served files are never closed; bytes of a pipelined request
  wait for more bytes to come.
* Request line: the test of the port (`ehd_http_parse.c:183`) is never true, so that any
  bytes pass for a port; the length of an unknown method is one too long
  (`ehd_http_request.c:204, 231`); the version is made of the major number twice (416); POST
  is compared with POTT (67), so that a POST keeps no known method.
* A path that is rewritten keeps what follows a `?` in its copy. The Location of a
  redirect is the decoded path, not encoded again. The page of status 501 is
  headed 500. The index of a directory may be a FIFO, which stops the server, or a
  directory, which cannot be sent.
* `ehd_listening_init` has no return statement, and `ehd_array_init` none where it
  succeeds (`ehd_array.h:22-30`). Its result is compared with EHD_ERROR when a request gets
  its cookies, so that a request may be closed for no reason, and not looked at when the
  cycle gets its listeners. Sizes given out by a pool are not rounded, so that
  structures may be unaligned.
* Never called: `ehd_event_disable_accept`, `ehd_event_epoll_mod`,
  `ehd_event_epoll_close` and `ehd_array_destroy` (`EhdPool` has the last all the same,
  as an operation its users may call).

## 6. Not modelled

The echo handlers and the container tests (no code path reaches them), logging, the
wording of headers and pages, the configuration values, `ehd_file_open_r` (its only
call is commented out), `ehd_atoi` (never called). Timers: the code has none. The
formatting of a response header is modelled by which fields it has, not by its bytes,
and `HeadLen` is any positive number.

The models meet at states, not in one composed specification: `EhdStartup` ends where
`EhdServer` begins; `EhdServer` takes the parsers by what they do to the buffer and
`HttpResponse` by the sizes it sends; the pools are live or freed in `EhdServer` and
memory in `EhdPool`. A composition down to bytes would multiply state spaces without a
behaviour that the pairs do not have, since within one event the handlers run one
after the other.
