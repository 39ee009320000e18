------------------------ MODULE EhdServerRefinement -------------------------
(***************************************************************************)
(* Proof that EhdServer implements HttpService: on the states of the       *)
(* inductive invariant of EhdServerProofs, every step is a step of the     *)
(* service for one connection, or leaves what the clients see unchanged.   *)
(***************************************************************************)
EXTENDS EhdServerProofs

\* A step of the service, or none.
Serves == Service!ServiceNext \/ (Links' = Links /\ (Dead' <=> Dead))

LinkOf(s, c, k) == IF c.open /\ s \notin Listeners THEN Seen(c, k) ELSE Unseen

\* A step that changes one slot and one socket, and perhaps opens a file,
\* changes what one client sees.
LEMMA ChangesOne ==
  ASSUME SafetyInv, NEW s \in Fd, NEW c, NEW k,
         conn' = [conn EXCEPT ![s] = c], sock'[s] = k,
         \A t \in Fd : t # s => \/ sock'[t] = sock[t]
                                \/ sock[t].use = "free"
  PROVE  Links' = [Links EXCEPT ![s] = LinkOf(s, c, k)]
<1> DEFINE L(t) == IF IsConn(t) THEN Seen(conn[t], sock[t]) ELSE Unseen
<1>1. L(s)' = LinkOf(s, c, k)
  BY DEF LinkOf, IsConn, SafetyInv, TypeInv, TypeOK, Seen
<1>2. ASSUME NEW t \in Fd, t # s
      PROVE  L(t)' = L(t)
  <2>1. conn'[t] = conn[t]
    BY <1>2 DEF SafetyInv, TypeInv, TypeOK
  <2>2. CASE sock'[t] = sock[t]
    BY <2>1, <2>2 DEF IsConn, Seen
  <2>3. CASE sock[t].use = "free"
    <3>1. ~IsConn(t)
      BY <2>3 DEF SafetyInv, SlotInv, ClosedSlot, OpenSlot, IsConn
    <3> QED
      BY <2>1, <3>1 DEF IsConn
  <2> QED
    BY <1>2, <2>2, <2>3
<1> HIDE DEF L
<1>3. Links = [t \in Fd |-> L(t)] /\ Links' = [t \in Fd |-> L(t)']
  BY DEF Links, L
<1> QED
  BY <1>1, <1>2, <1>3

\* What a handler at work sees of its own client.
LEMMA LinkAtWork ==
  ASSUME SafetyInv, pc \in AtWork
  PROVE  /\ Links[cur] = Seen(C, K) /\ cur \in Fd /\ cur \notin Listeners /\ ~Dead
         /\ C.open /\ conn[cur] = C /\ sock[cur] = K
         /\ conn = [conn EXCEPT ![cur] = C] /\ sock = [sock EXCEPT ![cur] = K]
<1>1. cur \in Fd /\ cur \notin Listeners /\ C.open
  BY AtWorkSlot DEF OpenSlot
<1>2. ~Dead
  BY DEF Dead, AtWork, Faults
<1> QED
  BY <1>1, <1>2 DEF Links, IsConn, C, K, SafetyInv, TypeInv, TypeOK, KernelTypeOK

\* A crash is the service's death.
LEMMA CrashServes ==
  ASSUME NEW f \in Faults, Crash(f), ~Dead
  PROVE  Serves
<1>1. Links' = Links /\ Dead'
  BY DEF Crash, Goto, kernel, Links, IsConn, Seen, Dead
<1> QED
  BY <1>1 DEF Serves, Service!ServiceNext, Service!Die

LEMMA CloseServes ==
  ASSUME SafetyInv, pc \in AtWork, NEW c, CloseConnection(c), c \in SlotRec, ~Dead'
  PROVE  Serves
<1> DEFINE d == [c EXCEPT !.open = FALSE, !.data = "null", !.cpool = "freed",
                          !.rready = FALSE, !.pos = 0, !.last = 0]
<1>1. /\ conn' = [conn EXCEPT ![cur] = d] /\ sock' = [sock EXCEPT ![cur] = FreeSock]
  BY DEF CloseConnection
<1>2. ~d.open
  BY DEF SlotRec
<1> HIDE DEF d
<1>3. PICK s \in Fd : s = cur
  BY LinkAtWork
<1>4. /\ conn' = [conn EXCEPT ![s] = d] /\ sock'[s] = FreeSock
      /\ \A t \in Fd : t # s => sock'[t] = sock[t]
  BY <1>1, <1>3 DEF SafetyInv, TypeInv, TypeOK, KernelTypeOK
<1>5. Links' = [Links EXCEPT ![s] = LinkOf(s, d, FreeSock)]
  BY <1>4, ChangesOne
<1>6. LinkOf(s, d, FreeSock) = Unseen
  BY <1>2 DEF LinkOf
<1>7. Links[s].phase # "closed" /\ ~Dead
  BY <1>3, LinkAtWork DEF Seen
<1>8. Service!Close(s)
  BY <1>5, <1>6, <1>7 DEF Service!Close, Service!Becomes, Service!Closed, Unseen
<1> QED
  BY <1>8 DEF Serves, Service!ServiceNext

\* The step of a handler that leaves its connection open: what its client sees
\* becomes what the service's action makes of it.
LEMMA StepsOn ==
  ASSUME SafetyInv, pc \in AtWork, NEW c, NEW k,
         conn' = [conn EXCEPT ![cur] = c], sock' = [sock EXCEPT ![cur] = k],
         c.open, ~Dead'
  PROVE  Service!Becomes(cur, Seen(c, k))
<1>1. PICK s \in Fd : s = cur
  BY LinkAtWork
<1>2. /\ conn' = [conn EXCEPT ![s] = c] /\ sock'[s] = k
      /\ \A t \in Fd : t # s => \/ sock'[t] = sock[t]
                              \/ sock[t].use = "free"
  BY <1>1 DEF SafetyInv, TypeInv, TypeOK, KernelTypeOK
<1>3. Links' = [Links EXCEPT ![s] = LinkOf(s, c, k)]
  BY <1>2, ChangesOne
<1>4. LinkOf(s, c, k) = Seen(c, k) /\ ~Dead
  BY <1>1, LinkAtWork DEF LinkOf
<1> QED
  BY <1>1, <1>3, <1>4 DEF Service!Becomes

LEMMA ReturnAlive ==
  ASSUME pc \in Stages, Return \/ (\E p \in Stages : Goto(p))
  PROVE  ~Dead'
BY DEF Return, Goto, Dead, Stages, Faults

LEMMA BothServes ==
  ASSUME SafetyInv, pc \in {"request_line", "headers", "head", "body"}, CloseBoth
  PROVE  Serves
<1>1. pc \in AtWork /\ pc \in Stages /\ C.rpool = "live" /\ C \in SlotRec
  BY AtWorkSlot DEF AtWork, Stages, HandlerAt, OpenSlot, WithRequest
<1>2. CloseConnection(CloseRequest(C)) /\ Return
  BY <1>1 DEF CloseBoth
<1>3. ~Dead' /\ CloseRequest(C) \in SlotRec
  BY <1>1, <1>2, ReturnAlive, CloseRequestFrees
<1> QED
  BY <1>1, <1>2, <1>3, CloseServes

-----------------------------------------------------------------------------
(***************************************************************************)
(* The actions, one handler at a time.                                     *)
(***************************************************************************)
\* Nothing that the clients see has changed.
LEMMA Unnoticed ==
  ASSUME SafetyInv, conn' = conn, sock' = sock, ~Dead, ~Dead'
  PROVE  Serves
<1>1. Links' = Links
  BY DEF Links, IsConn, Seen
<1> QED
  BY <1>1 DEF Serves

LEMMA LoopServes ==
  ASSUME SafetyInv, NEW s \in Fd, EpollWait \/ Dispatch(s)
  PROVE  Serves
<1>1. CASE EpollWait
  BY <1>1, Unnoticed DEF EpollWait, Dead, Faults
<1>2. CASE Dispatch(s)
  <2>1. ~Dead /\ sock' = sock
    BY <1>2 DEF Dispatch, Dead, Faults, kernel
  <2>2. PICK r \in BOOLEAN : conn' = [conn EXCEPT ![s].rready = r] \/ conn' = conn
    BY <1>2 DEF Dispatch
  <2>3. Links' = Links
    <3>1. conn \in [Fd -> SlotRec]
      BY DEF SafetyInv, TypeInv, TypeOK
    <3>2. \A t \in Fd : /\ conn'[t].open = conn[t].open /\ conn'[t].rh = conn[t].rh
                        /\ conn'[t].data = conn[t].data /\ conn'[t].last = conn[t].last
                        /\ conn'[t].pos = conn[t].pos /\ conn'[t].hrest = conn[t].hrest
                        /\ conn'[t].brest = conn[t].brest
      BY <2>2, <3>1 DEF SlotRec
    <3> QED
      BY <2>1, <3>2 DEF Links, IsConn, Seen
  <2> QED
    BY <2>1, <2>3 DEF Serves, Service!ServiceNext, Service!Die
<1> QED
  BY <1>1, <1>2

LEMMA InitServes ==
  ASSUME SafetyInv, InitConnection \/ InitRequest
  PROVE  Serves
<1>1. pc \in AtWork /\ pc \in Stages /\ cur \in Fd /\ C \in SlotRec /\ C.open
      /\ C.rh = pc /\ C.data # "request" /\ C.rpool # "live"
  BY AtWorkSlot, LinkAtWork
     DEF AtWork, Stages, HandlerAt, OpenSlot, WithRequest, InitConnection, InitRequest
<1>2. CASE InitConnection
  <2> DEFINE c == [C EXCEPT !.rh = "init_request", !.wh = "empty"]
  <2>1. conn' = [conn EXCEPT ![cur] = c] /\ sock' = [sock EXCEPT ![cur] = K]
    BY <1>1, <1>2, LinkAtWork DEF InitConnection, kernel, C
  <2>2. ~Dead'
    BY <1>1, <1>2, ReturnAlive DEF InitConnection, Stages
  <2>3. c.open /\ Seen(c, K) = Seen(C, K)
    BY <1>1, <1>2 DEF Seen, SlotRec, InitConnection
  <2> HIDE DEF c
  <2>4. Service!Becomes(cur, Seen(C, K))
    BY <1>1, <2>1, <2>2, <2>3, StepsOn
  <2>5. Links' = Links
    BY <2>4, <1>1, LinkAtWork DEF Service!Becomes, Links
  <2> QED
    BY <1>1, <2>2, <2>5, LinkAtWork DEF Serves
<1>3. CASE pc = "init_request" /\ Goto("request_line") /\ UNCHANGED kernel
           /\ conn' = [conn EXCEPT ![cur].data = "request", ![cur].rpool = "live",
                                   ![cur].rh = "request_line"]
  <2> DEFINE c == [C EXCEPT !.data = "request", !.rpool = "live", !.rh = "request_line"]
  <2>1. conn' = [conn EXCEPT ![cur] = c] /\ sock' = [sock EXCEPT ![cur] = K]
    BY <1>1, <1>3, LinkAtWork DEF kernel, C
  <2>2. ~Dead'
    BY <1>1, <1>3, ReturnAlive DEF Stages
  <2>3. c.open /\ Seen(c, K) = [Seen(C, K) EXCEPT !.phase = "reading"]
        /\ Seen(C, K).phase = "waiting"
    BY <1>1, <1>3 DEF Seen, SlotRec
  <2> HIDE DEF c
  <2>4. Service!Becomes(cur, Seen(c, K)) /\ Links[cur] = Seen(C, K)
    BY <1>1, <2>1, <2>2, <2>3, StepsOn, LinkAtWork
  <2>5. Service!BeginRequest(cur)
    BY <2>3, <2>4 DEF Service!BeginRequest
  <2> QED
    BY <1>1, <2>5 DEF Serves, Service!ServiceNext
<1>4. CASE CloseConnection([C EXCEPT !.rpool = "none"]) /\ Return
  <2>1. [C EXCEPT !.rpool = "none"] \in SlotRec
    BY <1>1 DEF SlotRec, PoolState
  <2> QED
    BY <1>1, <1>4, <2>1, ReturnAlive, CloseServes
<1> QED
  BY <1>2, <1>3, <1>4 DEF InitRequest

\* Filling the buffer from the socket moves bytes that the client has sent
\* from one place to the other.
LEMMA FilledSees ==
  ASSUME SafetyInv, pc \in {"request_line", "headers"}, MayParse
  PROVE  \E k \in SockRec :
           /\ sock[cur] \in SockRec /\ Drained = [sock EXCEPT ![cur] = k]
           /\ Filled \in SlotRec /\ Filled.open /\ Filled.data = "request"
           /\ Filled.rh = pc /\ Filled.pos <= Filled.last
           /\ Seen(Filled, k) = Seen(C, K)
           /\ k.inq + Filled.last - Filled.pos \in Nat
<1>1. /\ pc \in AtWork /\ cur \in Fd /\ C \in SlotRec /\ K \in SockRec
      /\ C.rh = pc /\ C.data = "request" /\ C.open
  BY AtWorkSlot DEF AtWork, HandlerAt, OpenSlot, WithRequest
<1>2. Filled \in SlotRec /\ Filled.pos <= Filled.last
  BY <1>1, FilledType DEF SafetyInv, SlotOK
<1>3. CASE Buffered
  <2>1. Filled = C /\ Drained = [sock EXCEPT ![cur] = K]
    BY <1>1, <1>3, LinkAtWork DEF Filled, Drained
  <2>2. K.inq + C.last - C.pos \in Nat
    BY <1>1, <1>2, <2>1 DEF SlotRec, SockRec
  <2> QED
    BY <1>1, <1>2, <2>1, <2>2 DEF K
<1>4. CASE ~Buffered
  <2> DEFINE k == [K EXCEPT !.inq = K.inq - Got]
  <2>1. /\ Got \in Nat /\ K.inq - Got \in Nat
    BY <1>1, ConstantTypes DEF Got, Space, Least, SlotRec, SockRec
  <2>2. k \in SockRec /\ k.inq = K.inq - Got
    BY <1>1, <2>1 DEF SockRec
  <2>3. Drained = [sock EXCEPT ![cur] = k]
    BY <1>1, <1>4 DEF Drained, K
  <2>4. PICK b \in BOOLEAN : Filled = [C EXCEPT !.last = C.last + Got, !.rready = b]
    BY <1>4 DEF Filled, Received
  <2>5. /\ Filled.open = C.open /\ Filled.data = C.data /\ Filled.rh = C.rh
        /\ Filled.pos = C.pos /\ Filled.last = C.last + Got
        /\ Filled.hrest = C.hrest /\ Filled.brest = C.brest
    BY <1>1, <2>4 DEF SlotRec
  <2> HIDE DEF k
  <2>6. /\ k.inq + Filled.last - Filled.pos = K.inq + C.last - C.pos
        /\ k.inq + Filled.last - Filled.pos \in Nat
    BY <1>1, <1>2, <2>1, <2>2, <2>5 DEF SlotRec, SockRec
  <2>7. Seen(Filled, k) = Seen(C, K)
    BY <1>1, <2>5, <2>6 DEF Seen
  <2> QED
    BY <1>1, <1>2, <2>2, <2>3, <2>5, <2>6, <2>7 DEF K
<1> QED
  BY <1>3, <1>4

\* The parser takes n bytes of the request from the front.
LEMMA ParseServes ==
  ASSUME SafetyInv, pc \in {"request_line", "headers"}, MayParse,
         NEW n \in Nat, Filled.pos + n <= Filled.last, n > 0,
         NEW c \in SlotRec, c.open, c.data = "request", c.rh # "block",
         c.pos = Filled.pos + n, c.last = Filled.last,
         c.hrest = Filled.hrest, c.brest = Filled.brest,
         conn' = [conn EXCEPT ![cur] = c], sock' = Drained, ~Dead'
  PROVE  Serves
<1>1. pc \in AtWork
  BY DEF AtWork
<1>2. PICK k \in SockRec :
           /\ Drained = [sock EXCEPT ![cur] = k]
           /\ Filled \in SlotRec /\ Filled.open /\ Filled.data = "request"
           /\ Filled.rh = pc /\ Filled.pos <= Filled.last
           /\ Seen(Filled, k) = Seen(C, K)
           /\ k.inq + Filled.last - Filled.pos \in Nat
  BY FilledSees
<1> DEFINE l == Seen(Filled, k)
<1>3. l.phase = "reading" /\ l.pending = k.inq + Filled.last - Filled.pos
  BY <1>2 DEF Seen
<1>4. n \in 1..l.pending
  BY <1>2, <1>3 DEF SlotRec, SockRec
<1>5. Seen(c, k) = [l EXCEPT !.pending = l.pending - n]
  <2>1. k.inq + c.last - c.pos = k.inq + Filled.last - Filled.pos - n
    BY <1>2 DEF SlotRec, SockRec
  <2>2. Filled.rh # "block"
    BY <1>2
  <2>3. l = [phase |-> "reading", pending |-> k.inq + Filled.last - Filled.pos,
             head |-> Filled.hrest, page |-> Filled.brest]
    BY <1>2, <2>2 DEF Seen
  <2> HIDE DEF l
  <2>4. k.inq + c.last - c.pos = l.pending - n
    BY <1>2, <1>3, <2>1 DEF SlotRec, SockRec
  <2>5. Seen(c, k) = [phase |-> "reading", pending |-> l.pending - n,
                      head |-> Filled.hrest, page |-> Filled.brest]
    BY <2>4 DEF Seen
  <2> QED
    BY <2>3, <2>5
<1> HIDE DEF l
<1>6. Service!Becomes(cur, Seen(c, k)) /\ Links[cur] = l /\ cur \in Fd
  BY <1>1, <1>2, StepsOn, LinkAtWork DEF l
<1>7. Service!Take(cur)
  BY <1>3, <1>4, <1>5, <1>6 DEF Service!Take
<1> QED
  BY <1>6, <1>7 DEF Serves, Service!ServiceNext

LEMMA RequestServes ==
  ASSUME SafetyInv, ProcessRequestLine \/ ProcessHeaders
  PROVE  Serves
<1>1. pc \in {"request_line", "headers"} /\ pc \in AtWork /\ pc \in Stages
  BY DEF ProcessRequestLine, ProcessHeaders, AtWork, Stages
<1>2. C \in SlotRec /\ ~Dead /\ cur \in Fd /\ conn[cur] = C /\ C.open /\ C.data = "request"
      /\ C.rh = pc /\ conn = [conn EXCEPT ![cur] = C] /\ sock = [sock EXCEPT ![cur] = K]
  BY <1>1, AtWorkSlot, LinkAtWork DEF AtWork, HandlerAt, OpenSlot, WithRequest
<1>3. CASE CloseBoth
  BY <1>1, <1>3, BothServes
<1>4. CASE ReadLater
  <2> DEFINE c == [C EXCEPT !.rready = FALSE]
  <2>1. conn' = [conn EXCEPT ![cur] = c] /\ sock' = [sock EXCEPT ![cur] = K]
    BY <1>2, <1>4 DEF ReadLater, kernel, C
  <2>2. ~Dead'
    BY <1>1, <1>4, ReturnAlive DEF ReadLater
  <2>3. c.open /\ Seen(c, K) = Seen(C, K)
    BY <1>2 DEF Seen, SlotRec
  <2> HIDE DEF c
  <2>4. Service!Becomes(cur, Seen(C, K))
    BY <1>1, <2>1, <2>2, <2>3, StepsOn
  <2>5. Links' = Links
    BY <2>4, <1>1, LinkAtWork DEF Service!Becomes, Links
  <2> QED
    BY <1>2, <2>2, <2>5 DEF Serves
<1>5. CASE CloseConnection(CloseRequest(C)) /\ Goto("headers_error")
  <2>1. ~Dead' /\ CloseRequest(C) \in SlotRec
    BY <1>1, <1>2, <1>5, ReturnAlive, CloseRequestFrees DEF Stages
  <2> QED
    BY <1>1, <1>5, <2>1, CloseServes
<1>6. MayParse => /\ Filled \in SlotRec /\ Filled.open /\ Filled.data = "request"
                  /\ Filled.rh = pc /\ Filled.pos <= Filled.last
                  /\ C.pos = Filled.pos
  BY <1>1, <1>2, FilledSees, FilledType DEF SafetyInv
<1>7. CASE ParseAgain
  <2> DEFINE c == [Filled EXCEPT !.pos = Filled.last]
             n == Filled.last - Filled.pos
  <2>1. MayParse /\ conn' = [conn EXCEPT ![cur] = c] /\ sock' = Drained /\ ~Dead'
    BY <1>1, <1>7, ReturnAlive DEF ParseAgain
  <2>2. n \in Nat /\ n > 0 /\ Filled.pos + n = Filled.last
    <3>1. Filled.pos < Filled.last
      <4>1. CASE Buffered
        BY <4>1 DEF Filled, Buffered
      <4>2. CASE ~Buffered
        <5>1. Got > 0 /\ Got \in Nat /\ C.last - C.pos \in Nat
          BY <1>1, <1>2, <2>1, <4>2, AtWorkSlot, ConstantTypes
             DEF MayParse, Got, Space, Least, SlotRec, SockRec, SafetyInv, TypeInv, C
        <5>2. Filled.last = C.last + Got
          BY <1>2, <4>2 DEF Filled, Received, SlotRec
        <5> QED
          BY <1>2, <1>6, <2>1, <5>1, <5>2 DEF SlotRec
      <4> QED
        BY <4>1, <4>2
    <3> QED
      BY <1>6, <2>1, <3>1 DEF SlotRec
  <2>3. /\ c \in SlotRec /\ c.open /\ c.data = "request" /\ c.rh # "block"
        /\ c.pos = Filled.pos + n /\ c.last = Filled.last
        /\ c.hrest = Filled.hrest /\ c.brest = Filled.brest
    BY <1>1, <1>6, <2>1, <2>2 DEF SlotRec
  <2>4. Filled.pos + n <= Filled.last
    BY <1>6, <2>1, <2>2 DEF SlotRec
  <2> HIDE DEF c, n
  <2> QED
    BY <1>1, <2>1, <2>2, <2>3, <2>4, ParseServes
<1>8. ASSUME NEW f, f = Filled \/ f = [Filled EXCEPT !.rh = "headers"],
             NEW p \in Stages, ParseDone(f, p)
      PROVE  Serves
  <2>1. MayParse /\ sock' = Drained /\ ~Dead'
    BY <1>1, <1>8, ReturnAlive DEF ParseDone
  <2>2. /\ f \in SlotRec /\ f.open /\ f.data = "request" /\ f.rh # "block"
        /\ f.pos = Filled.pos /\ f.last = Filled.last
        /\ f.hrest = Filled.hrest /\ f.brest = Filled.brest
    BY <1>1, <1>6, <1>8, <2>1 DEF SlotRec, Readers
  <2>3. PICK n \in 1..(f.last - f.pos) :
          conn' = [conn EXCEPT ![cur] = [f EXCEPT !.pos = f.pos + n]]
    BY <1>8 DEF ParseDone
  <2> DEFINE c == [f EXCEPT !.pos = f.pos + n]
  <2>4. n \in Nat /\ n > 0 /\ Filled.pos + n <= Filled.last /\ f.pos + n \in 0..BufSize
    BY <1>6, <2>1, <2>2, <2>3, ConstantTypes DEF SlotRec
  <2>5. /\ c \in SlotRec /\ c.open /\ c.data = "request" /\ c.rh # "block"
        /\ c.pos = Filled.pos + n /\ c.last = Filled.last
        /\ c.hrest = Filled.hrest /\ c.brest = Filled.brest
    BY <2>2, <2>4 DEF SlotRec
  <2>6. conn' = [conn EXCEPT ![cur] = c]
    BY <2>3
  <2> HIDE DEF c
  <2> QED
    BY <1>1, <2>1, <2>4, <2>5, <2>6, ParseServes
<1> QED
  BY <1>3, <1>4, <1>5, <1>7, <1>8
     DEF ProcessRequestLine, ProcessHeaders, BufferFull, LineEof, ParseError, Stages

LEMMA RespondServes ==
  ASSUME SafetyInv, Respond \/ WriterComes
  PROVE  Serves
<1>0. pc \in {"respond", "blocked"} /\ pc \in AtWork /\ pc \in Stages
  BY DEF Respond, WriterComes, AtWork, Stages
<1>1. PICK s \in Fd : s = cur
  BY <1>0, AtWorkSlot
<1>2. /\ pc \in AtWork /\ pc \in Stages /\ s \notin Listeners /\ ~Dead
      /\ C \in SlotRec /\ K \in SockRec /\ C.open /\ C.rh = "headers"
      /\ C.data = "request" /\ K.interest = {"IN"} /\ C.active
      /\ Links[s] = Seen(C, K) /\ C = conn[s] /\ K = sock[s]
  BY <1>0, <1>1, AtWorkSlot, LinkAtWork DEF HandlerAt, OpenSlot, WithRequest
<1>3. CASE Crash("null")
  BY <1>2, <1>3, CrashServes DEF Faults
<1>4. ASSUME NEW n \in MemSizes \cup FileSizes \cup {0},
             NEW file \in BOOLEAN, NEW table \in [Fd -> SockRec], StartWriter(n, file, table),
             \A t \in Fd : table[t] = sock[t] \/ sock[t].use = "free"
      PROVE  Serves
  <2> DEFINE c == [C EXCEPT !.hrest = HeadLen, !.brest = n, !.file = file,
                            !.rh = "block", !.wh = "writer"]
             k == Watch(K, "OUT")
  <2>1. conn' = [conn EXCEPT ![s] = c]
    BY <1>1, <1>2, <1>4 DEF StartWriter, SafetyInv, TypeInv, TypeOK, SlotRec
  <2>2. sock' = [table EXCEPT ![s] = k] /\ Goto("head")
    BY <1>1, <1>2, <1>4 DEF StartWriter, WatchWrite, Registers
  <2>3. /\ sock'[s] = k
        /\ \A t \in Fd : t # s => sock'[t] = sock[t] \/ sock[t].use = "free"
    BY <1>4, <2>2
  <2>4. /\ c.open /\ c.rh = "block" /\ c.hrest = HeadLen /\ c.brest = n
        /\ c.last = C.last /\ c.pos = C.pos /\ k.inq = K.inq
    BY <1>2 DEF Watch, SlotRec, SockRec
  <2> HIDE DEF c, k
  <2>5. Links' = [Links EXCEPT ![s] = LinkOf(s, c, k)]
    BY <2>1, <2>3, ChangesOne
  <2>6. LinkOf(s, c, k) = Seen(c, k) /\ ~Dead'
    BY <1>2, <2>2, <2>4, ReturnAlive DEF LinkOf, Stages
  <2>7. Service!Becomes(s, Seen(c, k))
    BY <1>2, <2>5, <2>6 DEF Service!Becomes
  <2>8. Links[s].phase = "reading"
    BY <1>2 DEF Seen
  <2>9. Seen(c, k) = [phase |-> "response", pending |-> Links[s].pending,
                      head |-> HeadLen, page |-> n]
    BY <1>2, <2>4 DEF Seen
  <2>10. Service!Becomes(s, [phase |-> "response", pending |-> Links[s].pending,
                             head |-> HeadLen, page |-> n])
    BY <2>7, <2>9
  <2>11. Service!Answer(s)
    BY <2>8, <2>10 DEF Service!Answer
  <2> QED
    BY <2>11 DEF Serves, Service!ServiceNext
<1>5. sock \in [Fd -> SockRec]
  BY DEF SafetyInv, TypeInv, TypeOK, KernelTypeOK
<1>6. ASSUME NEW f \in Fd, LowestFree(f)
      PROVE  /\ [sock EXCEPT ![f] = FileSock] \in [Fd -> SockRec]
             /\ \A t \in Fd : \/ [sock EXCEPT ![f] = FileSock][t] = sock[t]
                              \/ sock[t].use = "free"
  BY <1>5, <1>6, ConstantTypes DEF LowestFree
<1>7. CASE ServeFile
  BY <1>4, <1>6, <1>7 DEF ServeFile
<1>8. CASE Goto("blocked") /\ UNCHANGED <<kernel, conn>>
  BY <1>0, <1>2, <1>8, ReturnAlive, Unnoticed DEF kernel, Stages
<1> QED
  BY <1>3, <1>4, <1>5, <1>7, <1>8 DEF Respond, WriterComes

LEMMA WriterServes ==
  ASSUME SafetyInv, Writer
  PROVE  Serves
<1>1. /\ pc \in {"head", "body"} /\ pc \in AtWork /\ pc \in Stages /\ cur \in Fd
      /\ C \in SlotRec /\ K \in SockRec /\ C.open /\ C.rh = "block" /\ C.active
      /\ K.interest = {"OUT"}
  BY AtWorkSlot DEF Writer, AtWork, Stages, HandlerAt, OpenSlot
<1>2. /\ conn = [conn EXCEPT ![cur] = C] /\ sock = [sock EXCEPT ![cur] = K] /\ ~Dead
      /\ conn[cur] = C /\ sock[cur] = K /\ Links[cur] = Seen(C, K)
      /\ pc = "body" => C.hrest = 0
  BY <1>1, LinkAtWork DEF SafetyInv, PcInv, C
<1>3. /\ Rest \in Nat /\ Sent \in Nat
      /\ \A n \in Transfers \cup {Sent} :
           n \in Nat /\ AfterSend(K, n) \in SockRec /\ AfterSend(K, n).inq = K.inq
  BY <1>1, SentType DEF SafetyInv, AfterSend, SockRec
<1>4. CASE WriteBroken
  BY <1>2, <1>4, CrashServes DEF WriteBroken, Faults
<1>5. CASE WriteEnds
  BY <1>1, <1>5, BothServes DEF WriteEnds
<1>6. CASE WriteLater
  BY <1>1, <1>2, <1>6, ReturnAlive, Unnoticed DEF WriteLater, kernel
<1>7. CASE WriteHead \/ WriteBody
  <2>1. ~Dead'
    BY <1>1, <1>2, <1>7, ReturnAlive DEF WriteHead, WriteBody, Stages
  <2>2. Rest > 0 => Sent > 0 /\ Sent <= Rest
    BY <1>1, <1>3, <1>7, ConstantTypes DEF WriteHead, WriteBody, Sent, Least, SockRec
  <2>3. Links[cur].phase = "response"
    BY <1>1, <1>2 DEF Seen
  <2>4. CASE WriteHead
    <3>0. sock' = [sock EXCEPT ![cur] = AfterSend(K, Sent)] /\ Sent > 0 /\ Sent <= Rest
      BY <1>2, <2>2, <2>4 DEF WriteHead
    <3> DEFINE c == [C EXCEPT !.hrest = C.hrest - Sent]
    <3>1. conn' = [conn EXCEPT ![cur] = c]
      BY <1>2, <2>4 DEF WriteHead
    <3>2. c.open /\ Seen(c, AfterSend(K, Sent)) = [Seen(C, K) EXCEPT !.head = C.hrest - Sent]
      BY <1>1, <1>3 DEF Seen, SlotRec
    <3> HIDE DEF c
    <3>3. Service!Becomes(cur, Seen(c, AfterSend(K, Sent)))
      BY <1>1, <1>3, <2>1, <3>0, <3>1, <3>2, StepsOn
    <3>4. Links[cur].head = C.hrest /\ Sent \in 1..C.hrest
      BY <1>1, <1>2, <1>3, <2>4, <3>0 DEF Seen, WriteHead, Rest, SlotRec
    <3>5. Service!SendHead(cur)
      BY <1>2, <2>3, <3>2, <3>3, <3>4 DEF Service!SendHead, Seen
    <3> QED
      BY <1>1, <3>5 DEF Serves, Service!ServiceNext
  <2>5. CASE WriteBody
    <3>1. PICK n \in Transfers :
            /\ n < Rest
            /\ conn' = [conn EXCEPT ![cur] = [C EXCEPT !.brest = C.brest - n]]
            /\ sock' = [sock EXCEPT ![cur] = AfterSend(K, n)]
      BY <1>1, <1>2, <2>5 DEF WriteBody
    <3>2. n \in Nat /\ n > 0
      <4>1. n \in Nat
        BY <1>3
      <4> QED
        BY <1>3, <2>2, <3>1, <4>1 DEF Transfers
    <3> DEFINE c == [C EXCEPT !.brest = C.brest - n]
    <3>3. c.open /\ Seen(c, AfterSend(K, n)) = [Seen(C, K) EXCEPT !.page = C.brest - n]
      BY <1>1, <1>3 DEF Seen, SlotRec
    <3>4. conn' = [conn EXCEPT ![cur] = c]
      BY <3>1
    <3> HIDE DEF c
    <3>5. Service!Becomes(cur, Seen(c, AfterSend(K, n)))
      BY <1>1, <1>3, <2>1, <3>1, <3>3, <3>4, StepsOn
    <3>6. Links[cur].page = C.brest /\ Links[cur].head = 0 /\ n \in 1..(C.brest - 1)
      BY <1>1, <1>2, <1>3, <2>5, <3>1, <3>2 DEF Seen, WriteBody, Rest, SlotRec
    <3>7. Service!SendPage(cur)
      BY <1>2, <2>3, <3>3, <3>5, <3>6 DEF Service!SendPage, Seen
    <3> QED
      BY <1>1, <3>7 DEF Serves, Service!ServiceNext
  <2> QED
    BY <1>7, <2>4, <2>5
<1>8. CASE WriteLast
  <2> DEFINE c == KeptAlive(C)
             k == Watch(AfterSend(K, Sent), "IN")
  <2>1. /\ conn' = [conn EXCEPT ![cur] = c] /\ sock' = [sock EXCEPT ![cur] = k] /\ ~Dead'
    BY <1>1, <1>8, ReturnAlive DEF WriteLast, Registers
  <2>2. k.inq = K.inq
    BY <1>3 DEF Watch, SockRec
  <2>3. /\ c.open /\ c.rh = "init_request" /\ c.data = "hc" /\ c.hrest = 0 /\ c.brest = 0
        /\ c.pos = 0 /\ c.last = C.last - C.pos
    <3>1. CloseRequest(C).hrest = 0 /\ CloseRequest(C).brest = 0
      BY <1>1 DEF CloseRequest, SlotRec
    <3> QED
      BY <1>1, <3>1, CloseRequestFrees DEF KeptAlive, SlotRec
  <2> HIDE DEF c, k
  <2>4. k.inq + c.last - c.pos = K.inq + C.last - C.pos
    BY <1>1, <2>2, <2>3 DEF SlotRec, SockRec
  <2>5. /\ C.hrest = 0 /\ C.brest > 0
    BY <1>1, <1>2, <1>8 DEF WriteLast, Rest
  <2>6. Seen(c, k) = [phase |-> "waiting", pending |-> K.inq + C.last - C.pos,
                      head |-> 0, page |-> 0]
    BY <2>3, <2>4 DEF Seen
  <2>7. Service!Becomes(cur, Seen(c, k))
    BY <1>1, <2>1, <2>3, StepsOn
  <2>8. /\ Links[cur].phase = "response" /\ Links[cur].head = 0 /\ Links[cur].page > 0
        /\ Links[cur].pending = K.inq + C.last - C.pos
    BY <1>1, <1>2, <2>5 DEF Seen
  <2>9. Service!Finish(cur)
    BY <1>2, <2>6, <2>7, <2>8 DEF Service!Finish
  <2> QED
    BY <1>1, <2>9 DEF Serves, Service!ServiceNext
<1> QED
  BY <1>4, <1>5, <1>6, <1>7, <1>8 DEF Writer

LEMMA AcceptServes ==
  ASSUME SafetyInv, Accept
  PROVE  Serves
<1>1. /\ pc \in Stages /\ ~Dead /\ cur \in Fd /\ cur \in Listeners
      /\ sock \in [Fd -> SockRec] /\ conn \in [Fd -> SlotRec]
  BY DEF Accept, SafetyInv, TypeInv, TypeOK, KernelTypeOK, PcInv, Stages, Dead, Faults
<1>2. PICK l \in Fd : l = cur /\ l \in Listeners
  BY <1>1
<1>3. CASE AcceptNone
  BY <1>1, <1>3, ReturnAlive, Unnoticed DEF AcceptNone, kernel
<1>4. ASSUME NEW s \in Fd, LowestFree(s)
      PROVE  ~conn[s].open /\ s \notin Listeners /\ s # l
  BY <1>1, <1>2, <1>4 DEF LowestFree, SafetyInv, SlotInv, ListenSlot, OpenSlot, ClosedSlot
<1>5. ASSUME NEW s \in Fd, LowestFree(s), NEW k, sock' = Accepted(s, k), conn' = conn, ~Dead'
      PROVE  Serves
  <2>1. \A t \in Fd : t # s /\ t # l => sock'[t] = sock[t]
    BY <1>1, <1>2, <1>5 DEF Accepted
  <2>2. ASSUME NEW t \in Fd
        PROVE  (IF IsConn(t) THEN Seen(conn[t], sock[t]) ELSE Unseen)'
               = IF IsConn(t) THEN Seen(conn[t], sock[t]) ELSE Unseen
    <3>1. CASE t = s \/ t = l
      BY <1>2, <1>4, <1>5, <3>1 DEF IsConn
    <3>2. CASE t # s /\ t # l
      BY <1>5, <2>1, <3>2 DEF IsConn, Seen
    <3> QED
      BY <3>1, <3>2
  <2>3. Links' = Links
    BY <2>2 DEF Links
  <2> QED
    BY <1>1, <1>5, <2>3 DEF Serves
<1>6. ASSUME NEW s \in Fd, LowestFree(s), AcceptOver(s) \/ AcceptNoPool(s)
      PROVE  Serves
  BY <1>1, <1>5, <1>6, ReturnAlive DEF AcceptOver, AcceptNoPool
<1>7. ASSUME NEW s \in Fd, LowestFree(s), AcceptNew(s)
      PROVE  Serves
  <2> DEFINE c == [FreshSlot EXCEPT !.active = TRUE]
  <2>1. /\ c.open /\ c.rh = "init_connection" /\ c.data = "null" /\ c.hrest = 0
        /\ c.brest = 0 /\ c.pos = 0 /\ c.last = 0
    BY DEF FreshSlot, ZeroSlot
  <2>2. conn' = [conn EXCEPT ![s] = c] /\ ~Dead'
    BY <1>1, <1>7, ReturnAlive DEF AcceptNew, Stages
  <2> HIDE DEF c
  <2>3. PICK k \in {NewSock, Watch(NewSock, "IN")} : sock' = Accepted(s, k)
    BY <1>7 DEF AcceptNew
  <2>4. k.inq = 0
    BY DEF Watch, NewSock, FreeSock
  <2>5. s # l /\ s \notin Listeners /\ ~conn[s].open
    BY <1>4, <1>7
  <2>6. sock'[s] = k /\ \A t \in Fd : t # s /\ t # l => sock'[t] = sock[t]
    BY <1>1, <1>2, <2>3 DEF Accepted
  <2>7. Seen(c, k) = [phase |-> "waiting", pending |-> 0, head |-> 0, page |-> 0]
    BY <2>1, <2>4 DEF Seen
  <2>8. ASSUME NEW t \in Fd
        PROVE  (IF IsConn(t) THEN Seen(conn[t], sock[t]) ELSE Unseen)'
               = IF t = s THEN Seen(c, k)
                 ELSE IF IsConn(t) THEN Seen(conn[t], sock[t]) ELSE Unseen
    <3>1. CASE t = s
      BY <1>1, <2>1, <2>2, <2>5, <2>6, <3>1 DEF IsConn, Seen
    <3>2. CASE t = l
      BY <1>2, <2>5, <3>2 DEF IsConn
    <3>3. CASE t # s /\ t # l
      BY <1>1, <2>2, <2>6, <3>3 DEF IsConn, Seen
    <3> QED
      BY <3>1, <3>2, <3>3
  <2>9. Links' = [Links EXCEPT ![s] = Seen(c, k)]
    BY <2>8 DEF Links
  <2>10. Links[s] = Unseen
    BY <2>5 DEF Links, IsConn
  <2>11. Seen(c, k) = [Service!Closed EXCEPT !.phase = "waiting"]
    BY <2>7 DEF Service!Closed
  <2>12. Service!Becomes(s, [Service!Closed EXCEPT !.phase = "waiting"])
    BY <1>1, <2>2, <2>9, <2>11 DEF Service!Becomes
  <2>13. Service!Accept(s)
    BY <2>10, <2>12 DEF Service!Accept, Unseen
  <2> QED
    BY <2>13 DEF Serves, Service!ServiceNext
<1> QED
  BY <1>3, <1>6, <1>7 DEF Accept

LEMMA ClientServes ==
  ASSUME SafetyInv, Clients
  PROVE  Serves
<1>1. PICK s \in Fd : Client(s)
  BY DEF Clients
<1>2. /\ ~Dead /\ ~Dead' /\ conn' = conn /\ sock[s] \in SockRec
      /\ sock \in [Fd -> SockRec] /\ conn[s] \in SlotRec
  BY DEF Clients, Dead, SafetyInv, TypeInv, TypeOK, KernelTypeOK
<1>3. ASSUME NEW k \in SockRec, sock' = [sock EXCEPT ![s] = k]
      PROVE  /\ Links' = [Links EXCEPT ![s] = LinkOf(s, conn[s], k)]
             /\ Links[s] = LinkOf(s, conn[s], sock[s])
  <2>1. conn' = [conn EXCEPT ![s] = conn[s]]
    BY <1>2 DEF SafetyInv, TypeInv, TypeOK
  <2>2. sock'[s] = k /\ \A t \in Fd : t # s => sock'[t] = sock[t] \/ sock[t].use = "free"
    BY <1>2, <1>3
  <2>3. Links' = [Links EXCEPT ![s] = LinkOf(s, conn[s], k)]
    BY <2>1, <2>2, ChangesOne
  <2>4. Links[s] = LinkOf(s, conn[s], sock[s])
    BY DEF Links, LinkOf, IsConn
  <2> QED
    BY <2>3, <2>4
<1>4. ASSUME NEW k \in SockRec, sock' = [sock EXCEPT ![s] = k], k.inq = sock[s].inq
      PROVE  Serves
  <2>1. LinkOf(s, conn[s], k) = LinkOf(s, conn[s], sock[s])
    BY <1>4 DEF LinkOf, Seen
  <2>2. Links' = Links
    BY <1>3, <1>4, <2>1 DEF Links
  <2> QED
    BY <1>2, <2>2 DEF Serves
<1>5. CASE PeerFin(s) \/ PeerReset(s) \/ PeerRead(s)
  <2>1. ASSUME NEW p \in {"fin", "rst", "finrst"}, sock' = [sock EXCEPT ![s].peer = p]
        PROVE  Serves
    <3>1. [sock[s] EXCEPT !.peer = p] \in SockRec /\ [sock[s] EXCEPT !.peer = p].inq = sock[s].inq
      BY <1>2 DEF SockRec
    <3> QED
      BY <1>4, <2>1, <3>1
  <2>2. CASE PeerFin(s)
    BY <2>1, <2>2 DEF PeerFin
  <2>3. CASE PeerReset(s)
    BY <2>1, <2>3 DEF PeerReset
  <2>4. CASE PeerRead(s)
    <3> DEFINE k == [sock[s] EXCEPT !.room = sock[s].room + 1]
    <3>1. k \in SockRec /\ k.inq = sock[s].inq
      BY <1>2, <2>4, ConstantTypes DEF PeerRead, SockRec
    <3>2. sock' = [sock EXCEPT ![s] = k]
      BY <2>4 DEF PeerRead
    <3> HIDE DEF k
    <3> QED
      BY <1>4, <3>1, <3>2
  <2> QED
    BY <1>5, <2>2, <2>3, <2>4
<1>6. CASE Arrive(s)
  <2> DEFINE k == [sock[s] EXCEPT !.inq = sock[s].inq + 1]
  <2>1. k \in SockRec /\ k.inq = sock[s].inq + 1
    BY <1>2 DEF SockRec
  <2>2. sock' = [sock EXCEPT ![s] = k]
    BY <1>6 DEF Arrive
  <2> HIDE DEF k
  <2>3. CASE IsConn(s)
    <3>1. k.inq + conn[s].last - conn[s].pos = sock[s].inq + conn[s].last - conn[s].pos + 1
      BY <1>2, <2>1 DEF SockRec, SlotRec
    <3>2. Seen(conn[s], k) = [Seen(conn[s], sock[s]) EXCEPT
                                !.pending = sock[s].inq + conn[s].last - conn[s].pos + 1]
      BY <3>1 DEF Seen
    <3>3. Links[s] = Seen(conn[s], sock[s]) /\ Links' = [Links EXCEPT ![s] = Seen(conn[s], k)]
      BY <1>3, <2>1, <2>2, <2>3 DEF LinkOf, IsConn
    <3>4. Links[s].phase # "closed"
              /\ Links[s].pending = sock[s].inq + conn[s].last - conn[s].pos
      BY <3>3 DEF Seen
    <3>5. Service!Arrives(s)
      BY <1>2, <3>2, <3>3, <3>4 DEF Service!Arrives, Service!Becomes
    <3> QED
      BY <3>5 DEF Serves, Service!ServiceNext
  <2>4. CASE ~IsConn(s)
    <3>1. LinkOf(s, conn[s], k) = LinkOf(s, conn[s], sock[s])
      BY <2>4 DEF LinkOf, IsConn
    <3>2. Links' = Links
      BY <1>3, <2>1, <2>2, <3>1 DEF Links
    <3> QED
      BY <1>2, <3>2 DEF Serves
  <2> QED
    BY <2>3, <2>4
<1> QED
  BY <1>1, <1>5, <1>6 DEF Client

-----------------------------------------------------------------------------
LEMMA StepServes ==
  ASSUME SafetyInv, [Next]_vars
  PROVE  Serves
<1>1. CASE HeadersError
  <2>1. C.rpool = "freed" /\ ~Dead
    BY <1>1 DEF HeadersError, SafetyInv, PcInv, C, Dead, Faults
  <2>2. Crash("double_free")
    BY <1>1, <2>1 DEF HeadersError, CloseBoth
  <2> QED
    BY <2>1, <2>2, CrashServes DEF Faults
<1>2. CASE Server
  <2>1. CASE EpollWait \/ \E s \in Fd : Dispatch(s)
    <3>1. MaxFd \in Fd
      BY KernelAssumption DEF KernelAssumption, Fd
    <3> QED
      BY <2>1, <3>1, LoopServes
  <2>2. CASE InitConnection \/ InitRequest
    BY <2>2, InitServes
  <2>3. CASE ProcessRequestLine \/ ProcessHeaders
    BY <2>3, RequestServes
  <2> QED
    BY <1>1, <1>2, <2>1, <2>2, <2>3, AcceptServes, RespondServes, WriterServes DEF Server
<1>3. CASE Terminated \/ UNCHANGED vars
  <2>1. Links' = Links /\ (Dead' <=> Dead)
    BY <1>3 DEF Terminated, vars, Links, IsConn, Seen, Dead
  <2> QED
    BY <2>1 DEF Serves
<1> QED
  BY <1>2, <1>3, ClientServes, RespondServes DEF Next

LEMMA ServiceStarts == Init => Service!ServiceInit
BY DEF Init, Service!ServiceInit, Links, IsConn, ZeroSlot, Unseen, Service!Closed, Dead, Faults

\* The event loop, its handlers and its sockets, for any number of connections
\* and all sizes, do nothing that the service does not allow: the bytes of every
\* client are taken once and in front, those behind a request survive
\* keep-alive, and a response ends in keep-alive only when it is out.
THEOREM ServiceImplemented == Spec => ImplementsService
<1>1. SafetyInv /\ [Next]_vars => [Service!ServiceNext]_(Service!svars)
  BY StepServes DEF Serves, Service!svars, Dead
<1> QED
  BY <1>1, ServiceStarts, Safe, PTL DEF Spec, ImplementsService, Service!ServiceSpec
=============================================================================
