----------------------------- MODULE EhdServer ------------------------------
(***************************************************************************)
(* ehttpd's event loop and everything it runs: the accept handler, the     *)
(* HTTP read handlers, the response writer, and the life of a connection   *)
(* slot with its memory pools (event/, http/ehd_http_request.c,            *)
(* http/ehd_http_core.c, core/ehd_connection.c, core/ehd_socket.c).        *)
(* The program is one thread: pc says where that thread is, cur which      *)
(* connection it works for, and between two of its steps the clients of    *)
(* module Kernel may do anything.  One step is one system call, together   *)
(* with the computation that follows it.                                   *)
(***************************************************************************)
EXTENDS Kernel

CONSTANTS
  ConnNum,    \* connection_num: the size of the slot table
  BufSize,    \* EHD_DEFAULT_BUF_SIZE: the request buffer of a connection
  HeadLen,    \* bytes of a response header
  MemSizes,   \* possible sizes of a generated (error) page
  FileSizes,  \* possible sizes of a served file, as announced
  Shortage    \* whether malloc and epoll_ctl(ADD) may fail

ASSUME ServerAssumption ==
  /\ ConnNum \in Nat /\ \A l \in Listeners : l < ConnNum
  /\ BufSize \in Nat \ {0} /\ HeadLen \in Nat \ {0}
  /\ MemSizes \subseteq Nat \ {0} /\ FileSizes \subseteq Nat
  /\ Shortage \in BOOLEAN

VARIABLES
  conn,    \* ehd_cycle->connections and ->events: the slot of each descriptor
  batch,   \* event_list: what epoll_wait returned and is not dispatched yet
  pc,      \* the handler that runs; "loop" between handlers
  cur      \* the connection of that handler

kernel == <<sock, ready>>
vars == <<sock, ready, conn, batch, pc, cur>>

NoFd == -1
Readers == {"none", "accept", "init_connection", "init_request",
            "request_line", "headers", "block"}
Writers == {"null", "empty", "writer"}
Stages == {"accept", "init_connection", "init_request", "request_line",
           "headers", "headers_error", "respond", "blocked", "head", "body", "block"}
Faults == {"double_free", "null", "sigpipe"}     \* how the process can die
PoolState == {"none", "live", "freed"}

(***************************************************************************)
(* open is c->fd # -1.  rh and wh are read_handler and write_handler, data *)
(* what c->data points to, cpool and rpool the pools of the connection and *)
(* of its current request.  pos and last are the indexes of the request    *)
(* buffer.  hrest and brest are the unsent bytes of the two buffers of the *)
(* response: the header, and the page or the file; file is the type of the *)
(* second one.                                                             *)
(***************************************************************************)
SlotRec == [ open : BOOLEAN, active : BOOLEAN, rready : BOOLEAN,
             rh : Readers, wh : Writers, data : {"null", "hc", "request"},
             cpool : PoolState, rpool : PoolState,
             pos : 0..BufSize, last : 0..BufSize,
             hrest : Nat, brest : Nat, file : BOOLEAN ]

ZeroSlot == [ open |-> FALSE, active |-> FALSE, rready |-> FALSE,
              rh |-> "none", wh |-> "null", data |-> "null",
              cpool |-> "none", rpool |-> "none",
              pos |-> 0, last |-> 0, hrest |-> 0, brest |-> 0, file |-> FALSE ]

TypeOK ==
  /\ KernelTypeOK
  /\ conn \in [Fd -> SlotRec]
  /\ batch \in [Fd -> SUBSET Events]
  /\ pc \in Stages \cup Faults \cup {"loop"}
  /\ cur \in Fd \cup {NoFd}

\* The state in which ehd_event_epoll_process enters its loop: the listening
\* sockets are open, own their slots, and are registered.
Init ==
  /\ sock = [s \in Fd |-> IF s \in Listeners
                          THEN [FreeSock EXCEPT !.use = "listen", !.interest = {"IN"}]
                          ELSE FreeSock]
  /\ ready = {}
  /\ conn = [s \in Fd |-> IF s \in Listeners
                          THEN [ZeroSlot EXCEPT !.open = TRUE, !.active = TRUE,
                                                !.rh = "accept"]
                          ELSE ZeroSlot]
  /\ batch = [s \in Fd |-> {}]
  /\ pc = "loop" /\ cur = NoFd

-----------------------------------------------------------------------------
C == conn[cur]
K == sock[cur]
Least(a, b) == IF a <= b THEN a ELSE b

Goto(p) == pc' = p /\ UNCHANGED <<batch, cur>>
Crash(how) == Goto(how) /\ UNCHANGED <<kernel, conn>>

\* A handler returns to the dispatch loop, which goes on with the same entry
\* of event_list if the other event of the entry is still to be dispatched.
Return == /\ pc' = "loop"
          /\ cur' = IF batch[cur] = {} THEN NoFd ELSE cur
          /\ UNCHANGED batch

\* ehd_event_epoll_add: MOD if the slot says active, else ADD.  MOD fails on
\* an unregistered descriptor, ADD on a registered one.
Registers(c, k) == c.active = (k.interest # {})

\* Broken variant: the pool of the request is forgotten.
CloseRequestNoFree(c) == [c EXCEPT !.hrest = 0, !.brest = 0, !.file = FALSE]

\* ehd_http_close_request
CloseRequest(c) ==
  [c EXCEPT !.rpool = IF @ = "none" THEN @ ELSE "freed",
            !.hrest = 0, !.brest = 0, !.file = FALSE]

\* ehd_close_connection.  Closing the descriptor also unregisters it.  The
\* buffer went with the pool, and rready, which the failing calls clear on
\* the way here, is not read again before the slot is zeroed.
CloseConnection(c) ==
  /\ conn' = [conn EXCEPT ![cur] =
                [c EXCEPT !.open = FALSE, !.data = "null", !.cpool = "freed",
                          !.rready = FALSE, !.pos = 0, !.last = 0]]
  /\ sock' = [sock EXCEPT ![cur] = FreeSock]
  /\ ready' = ready \ {cur}

\* close_request followed by close_connection.  Destroying a pool for the
\* second time hands its blocks to free() again, which aborts the process.
CloseBoth == IF C.rpool = "freed"
             THEN Crash("double_free")
             ELSE CloseConnection(CloseRequest(C)) /\ Return

-----------------------------------------------------------------------------
(***************************************************************************)
(* The loop of ehd_event_epoll_process.  There is no timer: when nothing   *)
(* is ready the server sleeps in epoll_wait.                               *)
(***************************************************************************)
EpollWait ==
  /\ pc = "loop" /\ cur = NoFd /\ \A s \in Fd : batch[s] = {}
  /\ \E s \in ready : Reported(sock[s]) # {}
  /\ batch' = [s \in Fd |-> IF s \in ready THEN Reported(sock[s]) ELSE {}]
  /\ ready' = {}
  /\ UNCHANGED <<sock, conn, pc, cur>>

\* Where a dispatched event leads.
OnWrite(c) == CASE c.wh = "null"   -> "null"
                [] c.wh = "empty"  -> "loop"
                [] c.wh = "writer" -> "head"
OnRead(c) == IF c.rh = "none" THEN "null" ELSE c.rh

\* One event of one entry; of an entry with both, the write event goes first.
\* c->fd is looked at once per entry.
Dispatch(s) ==
  /\ pc = "loop" /\ cur \in {NoFd, s} /\ batch[s] # {}
  /\ LET e == IF "OUT" \in batch[s] THEN "OUT" ELSE "IN"
     IN IF cur = NoFd /\ ~conn[s].open
        THEN /\ batch' = [batch EXCEPT ![s] = {}]
             /\ UNCHANGED <<conn, pc, cur>>
        ELSE /\ batch' = [batch EXCEPT ![s] = @ \ {e}]
             /\ conn' = [conn EXCEPT ![s].rready = @ \/ e = "IN"]
             /\ pc' = IF e = "OUT" THEN OnWrite(conn[s]) ELSE OnRead(conn[s])
             /\ cur' = IF pc' = "loop" /\ batch'[s] = {} THEN NoFd ELSE s
  /\ UNCHANGED kernel

-----------------------------------------------------------------------------
(***************************************************************************)
(* ehd_event_accept_handler, one turn of its loop.  Every return but the   *)
(* one on EAGAIN leaves the rest of the backlog for a later edge.          *)
(***************************************************************************)
Accepted(s, k) == [sock EXCEPT ![cur].inq = @ - 1, ![s] = k]

\* Broken variant: any error but EAGAIN is tried again at once.
AcceptNoneSpins ==
  \/ K.inq = 0 /\ Return /\ UNCHANGED <<kernel, conn>>
  \/ K.inq > 0 /\ NoFreeFd /\ Goto("accept") /\ UNCHANGED <<kernel, conn>>

AcceptNone ==          \* EAGAIN, or EMFILE: the flags it sets are never read
  /\ K.inq = 0 \/ NoFreeFd
  /\ Return /\ UNCHANGED <<kernel, conn>>

AcceptOver(s) ==       \* no slot for this descriptor: close it
  /\ s >= ConnNum
  /\ sock' = Accepted(s, FreeSock)
  /\ Return /\ UNCHANGED <<ready, conn>>

\* No memory, or fcntl failed, and then the new pool is lost too: the socket
\* stays open, without a slot.
AcceptNoPool(s) ==
  /\ s < ConnNum /\ Shortage
  /\ sock' = Accepted(s, NewSock)
  /\ Return /\ UNCHANGED <<ready, conn>>

\* The slot the accept handler fills in: zeroed, then given its handler.
FreshSlot == [ZeroSlot EXCEPT !.open = TRUE, !.cpool = "live", !.rh = "init_connection"]

AcceptNew(s) ==        \* the result of ehd_add_event is not looked at
  /\ s < ConnNum
  /\ LET c == FreshSlot
         k == IF Registers(c, NewSock) THEN Watch(NewSock, "IN") ELSE NewSock
     IN /\ conn' = [conn EXCEPT ![s] = [c EXCEPT !.active = TRUE]]
        /\ \/ sock' = Accepted(s, k)
           \/ Shortage /\ sock' = Accepted(s, NewSock)
  /\ Goto("accept") /\ UNCHANGED ready

Accept ==
  /\ pc = "accept"
  /\ \/ AcceptNone
     \/ K.inq > 0 /\ \E s \in Fd : /\ LowestFree(s)
                                   /\ \/ AcceptOver(s)
                                      \/ AcceptNoPool(s)
                                      \/ AcceptNew(s)

-----------------------------------------------------------------------------
(***************************************************************************)
(* Reading a request.                                                      *)
(***************************************************************************)
InitConnection ==
  /\ pc = "init_connection"
  /\ conn' = [conn EXCEPT ![cur].rh = "init_request", ![cur].wh = "empty"]
  /\ IF C.open THEN Goto("init_request") ELSE Return
  /\ UNCHANGED kernel

InitRequest ==
  /\ pc = "init_request"
  /\ \/ /\ conn' = [conn EXCEPT ![cur].data = "request", ![cur].rpool = "live",
                                ![cur].rh = "request_line"]
        /\ Goto("request_line") /\ UNCHANGED kernel
     \/ Shortage /\ CloseConnection([C EXCEPT !.rpool = "none"]) /\ Return

(***************************************************************************)
(* ehd_http_read_request_header: bytes already in the buffer come first;   *)
(* else, if the socket is thought readable, one recv into the rest of the  *)
(* buffer.  A short read means the socket is drained.                      *)
(***************************************************************************)
Buffered == C.pos < C.last
Space == BufSize - C.last
GotAll == K.inq      \* broken variant: recv is not told the space left
Got == Least(K.inq, Space)

\* ehd_recv, when it returns n > 0 bytes
Received(c, n, size) == [c EXCEPT !.last = @ + n, !.rready = @ /\ n = size]

Filled == IF Buffered THEN C ELSE Received(C, Got, Space)
Drained == IF Buffered THEN sock ELSE [sock EXCEPT ![cur].inq = @ - Got]

MayParse == C.pos < BufSize /\ (Buffered \/ (C.rready /\ Got > 0))

\* Broken variant: the handler returns without asking the socket.
ReadLaterUnasked ==
  /\ C.pos < BufSize /\ ~Buffered
  /\ conn' = [conn EXCEPT ![cur].rready = FALSE]
  /\ Return /\ UNCHANGED kernel

ReadLater ==           \* EHD_AGAIN: wait for the next event
  /\ C.pos < BufSize /\ ~Buffered
  /\ C.rready => K.inq = 0 /\ K.peer = "up"
  /\ conn' = [conn EXCEPT ![cur].rready = FALSE]
  /\ Return /\ UNCHANGED kernel

AtEof ==               \* recv returned 0 or an error
  C.pos < BufSize /\ ~Buffered /\ C.rready /\ K.inq = 0 /\ K.peer # "up"

BufferFull == C.pos = BufSize /\ CloseBoth

(***************************************************************************)
(* The parsers, by what they do to the buffer: an unfinished line takes    *)
(* all of it, a finished one at least a byte.  The rest of the handlers    *)
(* closes the connection on a malformed request, for want of memory, or on *)
(* the undefined result of ehd_array_init (EhdPool).                       *)
(***************************************************************************)
ParseAgain ==
  /\ MayParse
  /\ conn' = [conn EXCEPT ![cur] = [Filled EXCEPT !.pos = Filled.last]]
  /\ sock' = Drained
  /\ Goto(pc) /\ UNCHANGED ready

ParseDone(c, next) ==
  /\ MayParse
  /\ \E n \in 1..(c.last - c.pos) :
       conn' = [conn EXCEPT ![cur] = [c EXCEPT !.pos = @ + n]]
  /\ sock' = Drained
  /\ Goto(next) /\ UNCHANGED ready

ParseError == MayParse /\ CloseBoth

\* Broken variant: the handler closes again what the read helper closed.
LineEofTwice == /\ AtEof
                /\ CloseConnection(CloseRequest(C)) /\ Goto("headers_error")
LineEof == AtEof /\ CloseBoth

ProcessRequestLine ==
  /\ pc = "request_line"
  /\ \/ BufferFull
     \/ ReadLater
     \/ LineEof
     \/ ParseAgain
     \/ ParseDone([Filled EXCEPT !.rh = "headers"], "headers")
     \/ ParseError

\* On end of file the read helper closes everything, and then the handler
\* does so once more.
ProcessHeaders ==
  /\ pc = "headers"
  /\ \/ BufferFull
     \/ ReadLater
     \/ /\ AtEof
        /\ CloseConnection(CloseRequest(C)) /\ Goto("headers_error")
     \/ ParseAgain
     \/ ParseDone(Filled, "respond")
     \/ ParseError

HeadersError == pc = "headers_error" /\ CloseBoth

-----------------------------------------------------------------------------
(***************************************************************************)
(* The response.                                                           *)
(***************************************************************************)
\* Broken variant: the write event is added to the read event.
WatchWriteToo(k) == [k EXCEPT !.interest = @ \cup {"OUT"}]
WatchWrite(k) == Watch(k, "OUT")

\* From here on read events are blocked: the writer is installed, the
\* descriptor is watched for EPOLLOUT instead of EPOLLIN, and the writer runs.
StartWriter(n, file, table) ==
  /\ conn' = [conn EXCEPT ![cur].hrest = HeadLen, ![cur].brest = n,
                          ![cur].file = file,
                          ![cur].rh = "block", ![cur].wh = "writer"]
  /\ IF Registers(C, K)
     THEN /\ sock' = [table EXCEPT ![cur] = WatchWrite(K)]
          /\ ready' = ReadyAfterCtl(cur, WatchWrite(K))
          /\ Goto("head")
     ELSE /\ sock' = table /\ UNCHANGED ready /\ Goto("null")

\* A descriptor was opened, which is never closed.  The size is that of what
\* has the name now, 0 if nothing has.
ServeFile ==
  \E n \in FileSizes \cup {0}, f \in Fd :
    LowestFree(f) /\ StartWriter(n, TRUE, [sock EXCEPT ![f] = FileSock])

Respond ==
  /\ pc = "respond"
  /\ \/ \E n \in MemSizes : StartWriter(n, FALSE, sock) \* an error page
     \/ ServeFile
     \/ StartWriter(0, TRUE, sock)                      \* open() failed
     \/ /\ ~NoFreeFd                                    \* open() of a FIFO
        /\ Goto("blocked") /\ UNCHANGED <<kernel, conn>>
     \/ Shortage /\ Crash("null")                       \* unchecked allocation

\* The thread is inside open() until a process of the machine opens the FIFO
\* for writing, if one ever does.
WriterComes == pc = "blocked" /\ ServeFile

(***************************************************************************)
(* ehd_http_writer, one turn of its loop.  "head" and "body" are its local *)
(* `last`: it always starts from the first buffer again.  A transfer of 0  *)
(* bytes returns 0, which it takes for a closed connection; the write to a *)
(* socket whose error is EPIPE raises SIGPIPE (only sendfile of 0 bytes    *)
(* does not get as far).  A buffer in memory goes out as far as there is   *)
(* room.  A file may be shorter by now than was announced, or a directory, *)
(* which sendfile refuses: it gives what it will, and maybe nothing.       *)
(***************************************************************************)
InFile == pc = "body" /\ C.file
Rest == IF pc = "head" THEN C.hrest ELSE C.brest
Sent == Least(Rest, K.room)
Transfers == IF InFile THEN 1..Sent ELSE {Sent}
AfterSend(k, n) == [k EXCEPT !.room = @ - n]

WriteBroken ==
  /\ K.peer = "finrst" /\ (Rest > 0 \/ ~InFile)
  /\ Crash("sigpipe")

WriteEnds ==
  /\ \/ Rest = 0 /\ K.peer # "finrst"
     \/ InFile
     \/ K.peer = "rst"
  /\ CloseBoth

\* Broken variants: EAGAIN ends the connection; is taken for granted.
WriteLaterCloses == Rest > 0 /\ ~Reset(K) /\ K.room = 0 /\ CloseBoth
WriteLaterAlways == Rest > 0 /\ ~Reset(K) /\ Return /\ UNCHANGED <<kernel, conn>>

WriteLater ==
  /\ Rest > 0 /\ ~Reset(K) /\ K.room = 0
  /\ Return /\ UNCHANGED <<kernel, conn>>

WriteHead ==
  /\ pc = "head" /\ Rest > 0 /\ ~Reset(K) /\ K.room > 0
  /\ conn' = [conn EXCEPT ![cur].hrest = @ - Sent]
  /\ sock' = [sock EXCEPT ![cur] = AfterSend(@, Sent)]
  /\ Goto(IF Sent = Rest THEN "body" ELSE "head") /\ UNCHANGED ready

WriteBody ==
  /\ pc = "body" /\ ~Reset(K) /\ K.room > 0
  /\ \E n \in Transfers :
       /\ n < Rest
       /\ conn' = [conn EXCEPT ![cur].brest = @ - n]
       /\ sock' = [sock EXCEPT ![cur] = AfterSend(@, n)]
  /\ Goto("body") /\ UNCHANGED ready

\* Broken variants: c->data is left alone; the write handler is left alone;
\* the bytes behind the request are dropped with it.
KeptAliveData(c) ==
  [CloseRequest(c) EXCEPT !.rh = "init_request", !.wh = "empty",
                          !.pos = 0, !.last = c.last - c.pos]
KeptAliveWriter(c) ==
  [CloseRequest(c) EXCEPT !.data = "hc", !.rh = "init_request",
                          !.pos = 0, !.last = c.last - c.pos]
KeptAliveEmpty(c) ==
  [CloseRequest(c) EXCEPT !.data = "hc", !.rh = "init_request", !.wh = "empty",
                          !.pos = 0, !.last = 0]

\* ehd_http_keep_alive: the bytes behind the request move to the start of the
\* buffer, and the connection waits for the next request.
KeptAlive(c) ==
  [CloseRequest(c) EXCEPT !.data = "hc", !.rh = "init_request", !.wh = "empty",
                          !.pos = 0, !.last = c.last - c.pos]

WriteLast ==
  /\ pc = "body" /\ Rest > 0 /\ Sent = Rest /\ ~Reset(K)
  /\ LET k == Watch(AfterSend(K, Sent), "IN")
     IN IF Registers(C, K)
        THEN /\ conn' = [conn EXCEPT ![cur] = KeptAlive(C)]
             /\ sock' = [sock EXCEPT ![cur] = k]
             /\ ready' = ReadyAfterCtl(cur, k)
        ELSE CloseConnection(KeptAlive(C))
  /\ Return

Writer ==
  /\ pc \in {"head", "body"}
  /\ WriteBroken \/ WriteEnds \/ WriteLater \/ WriteHead \/ WriteBody \/ WriteLast

-----------------------------------------------------------------------------
Server ==
  \/ EpollWait
  \/ \E s \in Fd : Dispatch(s)
  \/ Accept
  \/ InitConnection \/ InitRequest
  \/ ProcessRequestLine \/ ProcessHeaders \/ HeadersError
  \/ Respond \/ Writer

Dead == pc \in Faults
Halted == Dead \/ pc = "blocked"

Clients == /\ ~Dead
           /\ \E s \in Fd : Client(s)
           /\ UNCHANGED <<conn, batch, pc, cur>>

\* The process is gone.
Terminated == Dead /\ UNCHANGED vars

Next == Server \/ Clients \/ WriterComes \/ Terminated

Spec == Init /\ [][Next]_vars

\* The program is one thread that never yields: it keeps running while it can.
\* Nobody need ever come to the other end of a FIFO.
FairSpec == Spec /\ WF_vars(Server)

\* A client that has not gone away keeps taking what it is sent.
ClientReads(s) == ~Dead /\ PeerRead(s) /\ UNCHANGED <<conn, batch, pc, cur>>
FairClientSpec == FairSpec /\ \A s \in Fd : WF_vars(ClientReads(s))

-----------------------------------------------------------------------------
(***************************************************************************)
(* Properties.                                                             *)
(***************************************************************************)
IsConn(s) == conn[s].open /\ s \notin Listeners

\* A descriptor is watched for one direction, the one its handlers wait for:
\* EPOLLOUT exactly while a response is under way, else EPOLLIN.  (It may be
\* unwatched only when epoll refused it, and then no handler ever ran.)  So
\* ehd_http_block_read and its uninitialised `active` are never reached, and
\* the write handler never runs without a response.
WatchesWhatItWaitsFor ==
  \A s \in Fd : IsConn(s) =>
     \/ sock[s].interest = IF conn[s].rh = "block" THEN {"OUT"} ELSE {"IN"}
     \/ /\ Shortage /\ sock[s].interest = {}
        /\ conn[s].rh = "init_connection"

\* An event that waits in event_list is still wanted when its turn comes: no
\* handler run earlier from the same list closed its descriptor, gave it to a
\* new connection or asked for the other direction.
BatchIsCurrent ==
  \A s \in Fd : batch[s] \subseteq sock[s].interest /\ (batch[s] # {} => conn[s].open)

\* A handler works with memory of a live connection and a live request, and
\* what it casts c->data to is what c->data points to, with one exception: when
\* a client ends its stream within the header lines, the handler goes on to
\* close the request and the connection that the read helper has just closed,
\* and there is nothing of them left that it could use.
UseAfterCloseOnlyAtEof ==
  LET c == conn[cur]
  IN /\ pc \in {"init_connection", "init_request"} =>
          IsConn(cur) /\ c.cpool = "live" /\ c.rpool # "live" /\ c.data # "request"
     /\ pc \in {"request_line", "headers", "respond", "blocked", "head", "body"} =>
          IsConn(cur) /\ c.cpool = "live" /\ c.rpool = "live" /\ c.data = "request"
     /\ pc = "headers_error" =>
          /\ ~c.open /\ c.cpool = "freed" /\ c.rpool = "freed" /\ c.data = "null"
          /\ c.rh = "headers"

\* The same between events: what a read or write handler will be given when
\* the next event comes.
DataFitsHandler ==
  \A s \in Fd : IsConn(s) =>
    /\ conn[s].rh \in {"request_line", "headers", "block"} <=> conn[s].data = "request"
    /\ conn[s].data = "request" <=> conn[s].rpool = "live"
    /\ conn[s].wh = "writer" => conn[s].rh = "block"
    /\ conn[s].cpool = "live"

\* Closing a connection gives back its descriptor and both pools, whatever
\* handler did it; only an accept that ran out of memory strands a socket.
NothingLeaksOnClose ==
  \A s \in Fd \ Listeners :
    /\ ~conn[s].open => conn[s].rpool # "live" /\ conn[s].cpool # "live"
    /\ conn[s].open => sock[s].use = "sock" /\ s < ConnNum
    /\ sock[s].use = "sock" => conn[s].open \/ (Shortage /\ sock[s].interest = {})

\* With edge-triggered epoll a wakeup is never lost: when no handler runs for
\* it, unread data of a connection that waits to read, and buffer space of one
\* that waits to write, are announced by an edge still to be delivered.
NoLostWakeup ==
  \A s \in Fd : IsConn(s) /\ s # cur
      /\ \/ "IN" \in sock[s].interest /\ sock[s].inq > 0
         \/ "OUT" \in sock[s].interest /\ Writable(sock[s])
    => s \in ready \/ batch[s] # {}

\* What may end the process: a second close of the same request only from the
\* header stage, SIGPIPE only for a client that had closed and then reset, a
\* null pointer only for want of memory.
FaultsExplained ==
  /\ pc = "double_free" => conn[cur].rh = "headers"
  /\ pc = "sigpipe" => conn[cur].rh = "block" /\ sock[cur].peer = "finrst"
  /\ pc = "null" => Shortage

\* Where a response to a client that is still there is cut short.  Never in
\* its header.  A page that the server has generated is cut in one case only:
\* the socket was full in the middle of it, and the writer starts again from
\* the header, of which nothing is left to send.  A file is cut in that case,
\* and when sendfile gives no more of it: it is empty, was not opened, is a
\* directory, or has become shorter than its announced size.
CutsExplained ==
  [][\A s \in Fd :
       IsConn(s) /\ conn[s].wh = "writer" /\ ~conn'[s].open /\ ~Reset(sock[s])
       => conn[s].hrest = 0 /\ (pc = "head" \/ conn[s].file)]_vars

(***************************************************************************)
(* The service that the server is, seen from its clients.  What a client   *)
(* has sent and no request has taken is in the socket or in the buffer.    *)
(***************************************************************************)
Seen(c, k) ==
  [phase |-> IF c.rh = "block" THEN "response"
             ELSE IF c.data = "request" THEN "reading" ELSE "waiting",
   pending |-> k.inq + c.last - c.pos, head |-> c.hrest, page |-> c.brest]
Unseen == [phase |-> "closed", pending |-> 0, head |-> 0, page |-> 0]
Links == [s \in Fd |-> IF IsConn(s) THEN Seen(conn[s], sock[s]) ELSE Unseen]

Service == INSTANCE HttpService
             WITH Clients <- Fd, PageSizes <- MemSizes \cup FileSizes \cup {0},
                  link <- Links, alive <- ~Dead

\* Every step of the server and of its clients is one step of the service for
\* one connection, or none: no byte a client sends is lost or read twice, the
\* bytes behind a request survive keep-alive, a request is answered once, and
\* a response ends in keep-alive only when it is out to the last byte.
ImplementsService == Service!ServiceSpec

-----------------------------------------------------------------------------
\* Every handler returns to the event loop, whatever the clients do meanwhile,
\* unless it dies or waits in the open() of a FIFO for somebody to write to it.
HandlersReturn == pc \in Stages ~> (pc = "loop" \/ Halted)

\* Data that waits in the socket of a connection which is reading reaches its
\* read handler, unless the server dies or waits in the open() of a FIFO.
DataReachesHandler ==
  \A s \in Fd : (IsConn(s) /\ sock[s].inq > 0 /\ sock[s].interest = {"IN"})
                 ~> (cur = s \/ ~IsConn(s) \/ Halted)

\* A response comes to an end, sent or given up, if its client either reads or
\* goes away, and the server neither dies nor waits in the open() of a FIFO.
ResponseEnds ==
  \A s \in Fd : (IsConn(s) /\ conn[s].rh = "block")
                 ~> (conn[s].rh # "block" \/ ~IsConn(s) \/ Halted)

-----------------------------------------------------------------------------
(***************************************************************************)
(* What the comments of the code say, and the code does not do.            *)
(***************************************************************************)
\* Closing twice is harmless: "this error does not need to be handled"
\* (core/ehd_connection.c:118).
NoDoubleFree == pc # "double_free"

\* "event_impl.process will call c->read_handler(c) when EHD_READ_EVENT is
\* avialable" (core/ehd_connection.h:22): a connection that is reading and has
\* something to read, be it the end of the stream, gets its handler called.
ReadEventServed ==
  \A s \in Fd : (IsConn(s) /\ conn[s].rh # "block" /\ Readable(sock[s]))
                 ~> (cur = s \/ ~IsConn(s) \/ Halted)

\* The same comment, of a listener: a client that waits to be accepted is
\* accepted, as long as there are descriptors and slots for it.
SlotFree == \E s \in Fd : LowestFree(s) /\ s < ConnNum
BacklogServed ==
  \A l \in Listeners : (sock[l].inq > 0 /\ SlotFree) ~> (cur = l \/ ~SlotFree \/ Halted)
=============================================================================
