-------------------------- MODULE EhdServerProofs ---------------------------
(***************************************************************************)
(* Proofs, for every value of the constants, of the safety properties of   *)
(* EhdServer.                                                              *)
(***************************************************************************)
EXTENDS EhdServer, FiniteSetTheorems, TLAPS

\* What the type invariant rests on: the buffer indexes are in order, and a
\* running handler has a connection.
TypeInv ==
  /\ TypeOK
  /\ \A s \in Fd : conn[s].pos <= conn[s].last
  /\ pc \in Stages => cur \in Fd

SlotOK(c) == c \in SlotRec /\ c.pos <= c.last

LEMMA ConstantTypes ==
  /\ ZeroSlot \in SlotRec /\ ZeroSlot.pos = 0 /\ ZeroSlot.last = 0
  /\ FreeSock \in SockRec /\ NewSock \in SockRec /\ FileSock \in SockRec
  /\ BufSize \in Nat \ {0} /\ HeadLen \in Nat /\ SndBuf \in Nat
  /\ NoFd \notin Fd
BY KernelAssumption, ServerAssumption
   DEF KernelAssumption, ServerAssumption, ZeroSlot, SlotRec, FreeSock, NewSock, FileSock,
       SockRec, Readers, Writers, PoolState, Fd, NoFd

LEMMA CloseRequestType ==
  ASSUME NEW c, SlotOK(c)
  PROVE  SlotOK(CloseRequest(c))
BY DEF SlotOK, CloseRequest, SlotRec, PoolState

\* The steps that handlers share, on well-typed states.
LEMMA ReturnType ==
  ASSUME TypeInv, Return
  PROVE  /\ batch' \in [Fd -> SUBSET Events]
         /\ pc' \in Stages \cup Faults \cup {"loop"}
         /\ cur' \in Fd \cup {NoFd}
         /\ pc' \in Stages => cur' \in Fd
BY DEF TypeInv, TypeOK, Return, Stages, Faults

LEMMA GotoType ==
  ASSUME TypeInv, NEW p \in Stages \cup Faults, Goto(p), cur \in Fd
  PROVE  /\ batch' \in [Fd -> SUBSET Events]
         /\ pc' \in Stages \cup Faults \cup {"loop"}
         /\ cur' \in Fd \cup {NoFd}
         /\ pc' \in Stages => cur' \in Fd
BY DEF TypeInv, TypeOK, Goto

LEMMA CloseType ==
  ASSUME TypeInv, cur \in Fd, NEW c, SlotOK(c), CloseConnection(c)
  PROVE  /\ conn' \in [Fd -> SlotRec]
         /\ \A s \in Fd : conn'[s].pos <= conn'[s].last
         /\ KernelTypeOK'
<1>1. [c EXCEPT !.open = FALSE, !.data = "null", !.cpool = "freed",
                !.rready = FALSE, !.pos = 0, !.last = 0] \in SlotRec
  BY ConstantTypes DEF SlotOK, SlotRec, PoolState
<1>2. [c EXCEPT !.open = FALSE, !.data = "null", !.cpool = "freed",
                !.rready = FALSE, !.pos = 0, !.last = 0].pos = 0
  BY DEF SlotOK, SlotRec
<1>3. [c EXCEPT !.open = FALSE, !.data = "null", !.cpool = "freed",
                !.rready = FALSE, !.pos = 0, !.last = 0].last = 0
  BY DEF SlotOK, SlotRec
<1> QED
  BY <1>1, <1>2, <1>3, ConstantTypes DEF CloseConnection, TypeInv, TypeOK, KernelTypeOK

LEMMA CloseBothType ==
  ASSUME TypeInv, cur \in Fd, CloseBoth
  PROVE  TypeInv'
<1>1. CASE C.rpool = "freed"
  <2>1. Goto("double_free") /\ UNCHANGED <<kernel, conn>>
    BY <1>1 DEF CloseBoth, Crash
  <2> QED
    BY <2>1 DEF TypeInv, TypeOK, KernelTypeOK, Goto, kernel, Stages, Faults
<1>2. CASE C.rpool # "freed"
  <2>1. CloseConnection(CloseRequest(C)) /\ Return
    BY <1>2 DEF CloseBoth
  <2>2. SlotOK(CloseRequest(C))
    BY CloseRequestType DEF TypeInv, TypeOK, SlotOK, C
  <2> QED
    BY <2>1, <2>2, CloseType, ReturnType DEF TypeInv, TypeOK
<1> QED
  BY <1>1, <1>2

LEMMA InitType == Init => TypeInv
<1> SUFFICES ASSUME Init PROVE TypeInv
  OBVIOUS
<1>1. KernelTypeOK
  <2>1. [FreeSock EXCEPT !.use = "listen", !.interest = {"IN"}] \in SockRec
    BY ConstantTypes DEF SockRec, Events
  <2> QED
    BY <2>1, ConstantTypes DEF Init, KernelTypeOK
<1>2. conn \in [Fd -> SlotRec] /\ \A s \in Fd : conn[s].pos <= conn[s].last
  <2>1. ASSUME NEW c, SlotOK(c)
        PROVE  SlotOK([c EXCEPT !.open = TRUE, !.active = TRUE, !.rh = "accept"])
    BY <2>1 DEF SlotOK, SlotRec, Readers
  <2>2. SlotOK(ZeroSlot)
    BY ConstantTypes DEF SlotOK
  <2> QED
    BY <2>1, <2>2 DEF Init, SlotOK
<1> QED
  BY <1>1, <1>2 DEF Init, TypeInv, TypeOK, Stages

LEMMA ClientType ==
  ASSUME TypeInv, Clients
  PROVE  TypeInv'
<1>1. PICK s \in Fd : Client(s)
  BY DEF Clients
<1>2. sock[s] \in SockRec
  BY DEF TypeInv, TypeOK, KernelTypeOK
<1>3. KernelTypeOK'
  <2>1. CASE Arrive(s)
    BY <1>2, <2>1 DEF Arrive, Edge, TypeInv, TypeOK, KernelTypeOK, SockRec
  <2>2. CASE PeerFin(s)
    BY <1>2, <2>2 DEF PeerFin, EdgeAny, TypeInv, TypeOK, KernelTypeOK, SockRec
  <2>3. CASE PeerReset(s)
    BY <1>2, <2>3 DEF PeerReset, EdgeAny, TypeInv, TypeOK, KernelTypeOK, SockRec
  <2>4. CASE PeerRead(s)
    BY <1>2, <2>4, ConstantTypes DEF PeerRead, Edge, TypeInv, TypeOK, KernelTypeOK, SockRec
  <2> QED
    BY <1>1, <2>1, <2>2, <2>3, <2>4 DEF Client
<1> QED
  BY <1>3 DEF Clients, TypeInv, TypeOK

LEMMA WatchType ==
  ASSUME NEW k \in SockRec, NEW e \in Events
  PROVE  Watch(k, e) \in SockRec
BY DEF Watch, SockRec, Events

LEMMA LoopType ==
  ASSUME TypeInv, NEW s \in Fd, EpollWait \/ Dispatch(s)
  PROVE  TypeInv'
<1>1. CASE EpollWait
  <2>1. \A t \in Fd : Reported(sock[t]) \subseteq Events
    BY DEF Reported, TypeInv, TypeOK, KernelTypeOK, SockRec
  <2> QED
    BY <1>1, <2>1 DEF EpollWait, TypeInv, TypeOK, KernelTypeOK
<1>2. CASE Dispatch(s)
  <2>1. conn[s] \in SlotRec
    BY DEF TypeInv, TypeOK
  <2>2. /\ OnWrite(conn[s]) \in Stages \cup Faults \cup {"loop"}
        /\ OnRead(conn[s]) \in Stages \cup Faults
    BY <2>1 DEF OnWrite, OnRead, SlotRec, Readers, Writers, Stages, Faults
  <2> QED
    <3>1. conn' \in [Fd -> SlotRec] /\ \A t \in Fd : conn'[t].pos <= conn'[t].last
      <4>1. ASSUME NEW b \in BOOLEAN
            PROVE  SlotOK([conn[s] EXCEPT !.rready = b])
        BY <2>1 DEF SlotOK, SlotRec, TypeInv
      <4>2. PICK b \in BOOLEAN : conn' = [conn EXCEPT ![s].rready = b] \/ conn' = conn
        BY <1>2 DEF Dispatch
      <4> QED
        BY <4>1, <4>2 DEF SlotOK, TypeInv, TypeOK
    <3>2. KernelTypeOK' /\ batch' \in [Fd -> SUBSET Events]
      BY <1>2 DEF Dispatch, kernel, TypeInv, TypeOK, KernelTypeOK
    <3>3. /\ pc' \in Stages \cup Faults \cup {"loop"} /\ cur' \in Fd \cup {NoFd}
          /\ pc' \in Stages => cur' \in Fd
      BY <1>2, <2>2 DEF Dispatch, TypeInv, TypeOK, Stages
    <3> QED
      BY <3>1, <3>2, <3>3 DEF TypeInv, TypeOK
<1> QED
  BY <1>1, <1>2

LEMMA AcceptType ==
  ASSUME TypeInv, Accept
  PROVE  TypeInv'
<1>1. cur \in Fd /\ K \in SockRec
  BY DEF Accept, TypeInv, TypeOK, KernelTypeOK, Stages, K
<1>2. CASE AcceptNone
  BY <1>2, ReturnType DEF AcceptNone, kernel, TypeInv, TypeOK, KernelTypeOK
<1>3. ASSUME NEW s \in Fd, K.inq > 0, LowestFree(s),
             AcceptOver(s) \/ AcceptNoPool(s) \/ AcceptNew(s)
      PROVE  TypeInv'
  <2>1. ASSUME NEW k \in SockRec
        PROVE  Accepted(s, k) \in [Fd -> SockRec]
    <3>1. sock \in [Fd -> SockRec]
      BY DEF TypeInv, TypeOK, KernelTypeOK
    <3>2. K.inq - 1 \in Nat
      BY <1>1, <1>3 DEF SockRec
    <3>3. [K EXCEPT !.inq = K.inq - 1] \in SockRec
      BY <1>1, <3>2 DEF SockRec
    <3>4. Accepted(s, k) = [sock EXCEPT ![cur] = [K EXCEPT !.inq = K.inq - 1], ![s] = k]
      BY <1>1, <3>1 DEF Accepted, K
    <3> QED
      BY ONLY <1>1, <2>1, <3>1, <3>3, <3>4
  <2>2. CASE AcceptOver(s) \/ AcceptNoPool(s)
    <3>1. Return /\ UNCHANGED <<ready, conn>>
      BY <2>2 DEF AcceptOver, AcceptNoPool
    <3>2. sock' \in [Fd -> SockRec]
      BY <2>1, <2>2, ConstantTypes DEF AcceptOver, AcceptNoPool
    <3> QED
      BY <3>1, <3>2, ReturnType DEF TypeInv, TypeOK, KernelTypeOK
  <2>3. CASE AcceptNew(s)
    <3>1. SlotOK(FreshSlot)
      <4>1. ASSUME NEW c, SlotOK(c)
            PROVE  SlotOK([c EXCEPT !.open = TRUE, !.cpool = "live",
                                    !.rh = "init_connection"])
        BY <4>1 DEF SlotOK, SlotRec, Readers, PoolState
      <4>2. SlotOK(ZeroSlot)
        BY ConstantTypes DEF SlotOK
      <4> QED
        BY <4>1, <4>2 DEF FreshSlot
    <3>2. SlotOK([FreshSlot EXCEPT !.active = TRUE])
      BY <3>1 DEF SlotOK, SlotRec
    <3>3. Watch(NewSock, "IN") \in SockRec
      BY ConstantTypes, WatchType DEF Events
    <3>4. sock' \in [Fd -> SockRec]
      BY <2>1, <2>3, <3>3, ConstantTypes DEF AcceptNew
    <3>5. conn' \in [Fd -> SlotRec] /\ \A t \in Fd : conn'[t].pos <= conn'[t].last
      BY <2>3, <3>2 DEF AcceptNew, SlotOK, TypeInv, TypeOK
    <3> QED
      BY <2>3, <3>4, <3>5, <1>1, GotoType
         DEF AcceptNew, TypeInv, TypeOK, KernelTypeOK, Stages
  <2> QED
    BY <1>3, <2>2, <2>3
<1> QED
  BY <1>2, <1>3 DEF Accept

LEMMA FilledType ==
  ASSUME TypeInv, cur \in Fd, MayParse
  PROVE  /\ SlotOK(Filled)
         /\ Drained \in [Fd -> SockRec]
         /\ Filled.pos = C.pos
<1>1. SlotOK(C) /\ K \in SockRec
  BY DEF TypeInv, TypeOK, KernelTypeOK, SlotOK, C, K
<1>2. CASE Buffered
  BY <1>1, <1>2 DEF Filled, Drained, TypeInv, TypeOK, KernelTypeOK
<1>3. CASE ~Buffered
  <2>1. /\ Got \in Nat /\ Got <= Space /\ Got <= K.inq
        /\ C.last + Got \in 0..BufSize /\ C.pos <= C.last + Got
    BY <1>1, ConstantTypes DEF Got, Space, Least, SlotOK, SlotRec, SockRec
  <2>2. PICK b \in BOOLEAN : Filled = [C EXCEPT !.last = C.last + Got, !.rready = b]
    BY <1>3 DEF Filled, Received
  <2>3. SlotOK(Filled) /\ Filled.pos = C.pos
    BY <1>1, <2>1, <2>2 DEF SlotOK, SlotRec
  <2>4. Drained \in [Fd -> SockRec]
    BY <1>1, <1>3, <2>1 DEF Drained, K, TypeInv, TypeOK, KernelTypeOK, SockRec
  <2> QED
    BY <2>3, <2>4
<1> QED
  BY <1>2, <1>3

LEMMA ReadType ==
  ASSUME TypeInv, pc \in {"request_line", "headers"},
         ReadLater \/ ParseAgain \/ ParseDone(Filled, "respond")
         \/ ParseDone([Filled EXCEPT !.rh = "headers"], "headers")
  PROVE  TypeInv'
<1>1. cur \in Fd /\ SlotOK(C)
  BY DEF TypeInv, TypeOK, Stages, SlotOK, C
<1>2. CASE ReadLater
  <2>1. SlotOK([C EXCEPT !.rready = FALSE])
    BY <1>1 DEF SlotOK, SlotRec
  <2>2. conn' = [conn EXCEPT ![cur] = [C EXCEPT !.rready = FALSE]]
    BY <1>2 DEF ReadLater, C
  <2> QED
    BY <1>2, <2>1, <2>2, ReturnType
       DEF ReadLater, SlotOK, kernel, TypeInv, TypeOK, KernelTypeOK
<1>3. ASSUME NEW c, SlotOK(c), NEW p \in Stages, MayParse,
             conn' = [conn EXCEPT ![cur] = c], sock' = Drained, Goto(p), UNCHANGED ready
      PROVE  TypeInv'
  BY <1>1, <1>3, FilledType, GotoType DEF SlotOK, TypeInv, TypeOK, KernelTypeOK
<1>4. CASE ParseAgain
  <2>1. SlotOK([Filled EXCEPT !.pos = Filled.last])
    BY <1>1, <1>4, FilledType, ConstantTypes DEF ParseAgain, SlotOK, SlotRec
  <2> QED
    BY <1>3, <1>4, <2>1 DEF ParseAgain, Stages
<1>5. ASSUME NEW c, SlotOK(c), NEW p \in Stages, ParseDone(c, p)
      PROVE  TypeInv'
  <2>1. PICK n \in 1..(c.last - c.pos) : conn' = [conn EXCEPT ![cur] = [c EXCEPT !.pos = c.pos + n]]
    BY <1>5 DEF ParseDone
  <2>2. SlotOK([c EXCEPT !.pos = c.pos + n])
    BY <1>5, <2>1, ConstantTypes DEF SlotOK, SlotRec
  <2> QED
    BY <1>3, <1>5, <2>1, <2>2 DEF ParseDone
<1>6. CASE ParseDone(Filled, "respond")
  BY <1>1, <1>5, <1>6, FilledType DEF ParseDone, Stages
<1>7. CASE ParseDone([Filled EXCEPT !.rh = "headers"], "headers")
  <2>1. SlotOK([Filled EXCEPT !.rh = "headers"])
    BY <1>1, <1>7, FilledType DEF ParseDone, SlotOK, SlotRec, Readers
  <2> QED
    BY <1>5, <1>7, <2>1 DEF Stages
<1> QED
  BY <1>2, <1>4, <1>6, <1>7

LEMMA RequestType ==
  ASSUME TypeInv, InitConnection \/ InitRequest \/ ProcessRequestLine
                  \/ ProcessHeaders \/ HeadersError
  PROVE  TypeInv'
<1>1. cur \in Fd /\ SlotOK(C)
  BY DEF TypeInv, TypeOK, Stages, SlotOK, C, InitConnection, InitRequest,
         ProcessRequestLine, ProcessHeaders, HeadersError
<1>2. CASE InitConnection
  <2>1. SlotOK([C EXCEPT !.rh = "init_request", !.wh = "empty"])
    BY <1>1 DEF SlotOK, SlotRec, Readers, Writers
  <2>2. conn' = [conn EXCEPT ![cur] = [C EXCEPT !.rh = "init_request", !.wh = "empty"]]
    BY <1>2, <1>1 DEF InitConnection, C, TypeInv, TypeOK, SlotRec
  <2>3. Goto("init_request") \/ Return
    BY <1>2 DEF InitConnection
  <2> QED
    <3>1. conn' \in [Fd -> SlotRec] /\ \A s \in Fd : conn'[s].pos <= conn'[s].last
      BY <1>1, <2>1, <2>2 DEF SlotOK, TypeInv, TypeOK
    <3>2. "init_request" \in Stages
      BY DEF Stages
    <3>3. /\ batch' \in [Fd -> SUBSET Events]
          /\ pc' \in Stages \cup Faults \cup {"loop"}
          /\ cur' \in Fd \cup {NoFd}
          /\ pc' \in Stages => cur' \in Fd
      BY <1>1, <2>3, <3>2, GotoType, ReturnType
    <3>4. KernelTypeOK'
      BY <1>2 DEF InitConnection, kernel, TypeInv, TypeOK, KernelTypeOK
    <3> QED
      BY <3>1, <3>3, <3>4 DEF TypeInv, TypeOK
<1>3. CASE InitRequest
  <2>1. CASE CloseConnection([C EXCEPT !.rpool = "none"]) /\ Return
    <3>1. SlotOK([C EXCEPT !.rpool = "none"])
      BY <1>1 DEF SlotOK, SlotRec, PoolState
    <3> QED
      BY <1>1, <2>1, <3>1, CloseType, ReturnType DEF TypeInv, TypeOK
  <2>2. CASE Goto("request_line") /\ UNCHANGED kernel
    <3>1. SlotOK([C EXCEPT !.data = "request", !.rpool = "live", !.rh = "request_line"])
      BY <1>1 DEF SlotOK, SlotRec, Readers, PoolState
    <3>2. CASE conn' = [conn EXCEPT ![cur] =
                  [C EXCEPT !.data = "request", !.rpool = "live", !.rh = "request_line"]]
      BY <1>1, <2>2, <3>1, <3>2, GotoType
         DEF SlotOK, kernel, TypeInv, TypeOK, KernelTypeOK, Stages
    <3>3. CASE CloseConnection([C EXCEPT !.rpool = "none"]) /\ Return
      BY <2>1, <3>3
    <3> QED
      BY <1>1, <1>3, <3>2, <3>3 DEF InitRequest, C, TypeInv, TypeOK, SlotRec
  <2> QED
    BY <1>3, <2>1, <2>2 DEF InitRequest
<1>4. CASE CloseBoth
  BY <1>1, <1>4, CloseBothType
<1>5. CASE CloseConnection(CloseRequest(C)) /\ Goto("headers_error")
  BY <1>1, <1>5, CloseRequestType, CloseType, GotoType DEF TypeInv, TypeOK, Stages
<1>6. CASE ProcessRequestLine
  BY <1>4, <1>6, ReadType DEF ProcessRequestLine, BufferFull, LineEof, ParseError
<1>7. CASE ProcessHeaders
  BY <1>4, <1>5, <1>7, ReadType DEF ProcessHeaders, BufferFull, ParseError
<1> QED
  BY <1>2, <1>3, <1>4, <1>6, <1>7 DEF HeadersError

LEMMA RespondType ==
  ASSUME TypeInv, Respond \/ WriterComes
  PROVE  TypeInv'
<1>1. cur \in Fd /\ SlotOK(C) /\ K \in SockRec
  BY DEF TypeInv, TypeOK, KernelTypeOK, Stages, SlotOK, C, K, Respond, WriterComes
<1>2. ASSUME NEW n \in Nat, NEW file \in BOOLEAN, NEW table \in [Fd -> SockRec],
             StartWriter(n, file, table)
      PROVE  TypeInv'
  <2>1. SlotOK([C EXCEPT !.hrest = HeadLen, !.brest = n, !.file = file,
                         !.rh = "block", !.wh = "writer"])
    BY <1>1, <1>2, ConstantTypes DEF SlotOK, SlotRec, Readers, Writers
  <2>2. conn' = [conn EXCEPT ![cur] =
          [C EXCEPT !.hrest = HeadLen, !.brest = n, !.file = file,
                    !.rh = "block", !.wh = "writer"]]
    BY <1>1, <1>2 DEF StartWriter, C, TypeInv, TypeOK, SlotRec
  <2>3. conn' \in [Fd -> SlotRec] /\ \A s \in Fd : conn'[s].pos <= conn'[s].last
    BY <1>1, <2>1, <2>2 DEF SlotOK, TypeInv, TypeOK
  <2>4. WatchWrite(K) \in SockRec
    BY <1>1, WatchType DEF WatchWrite, Events
  <2>5. KernelTypeOK'
    BY <1>1, <1>2, <2>4 DEF StartWriter, ReadyAfterCtl, TypeInv, TypeOK, KernelTypeOK
  <2>6. Goto("head") \/ Goto("null")
    BY <1>2 DEF StartWriter
  <2>7. "head" \in Stages /\ "null" \in Faults
    BY DEF Stages, Faults
  <2>8. /\ batch' \in [Fd -> SUBSET Events]
        /\ pc' \in Stages \cup Faults \cup {"loop"}
        /\ cur' \in Fd \cup {NoFd}
        /\ pc' \in Stages => cur' \in Fd
    BY <1>1, <2>6, <2>7, GotoType
  <2> QED
    BY <2>3, <2>5, <2>8 DEF TypeInv, TypeOK
<1>3. sock \in [Fd -> SockRec] /\ \A f \in Fd : [sock EXCEPT ![f] = FileSock] \in [Fd -> SockRec]
  BY ConstantTypes DEF TypeInv, TypeOK, KernelTypeOK
<1>4. MemSizes \subseteq Nat /\ FileSizes \subseteq Nat /\ 0 \in Nat
  BY ServerAssumption DEF ServerAssumption
<1>5. CASE Crash("null")
  BY <1>5 DEF Crash, Goto, kernel, TypeInv, TypeOK, KernelTypeOK, Stages, Faults
<1>6. CASE Goto("blocked") /\ UNCHANGED <<kernel, conn>>
  BY <1>1, <1>6 DEF Goto, kernel, TypeInv, TypeOK, KernelTypeOK, Stages
<1>7. CASE ServeFile
  BY <1>2, <1>3, <1>4, <1>7 DEF ServeFile
<1> QED
  BY <1>2, <1>3, <1>4, <1>5, <1>6, <1>7 DEF Respond, WriterComes

LEMMA SentType ==
  ASSUME TypeInv, pc \in {"head", "body"}
  PROVE  /\ Rest \in Nat /\ Sent \in Nat /\ Rest - Sent \in Nat
         /\ \A n \in Transfers \cup {Sent} :
              n \in Nat /\ n <= Sent /\ AfterSend(K, n) \in SockRec
<1>1. SlotOK(C) /\ K \in SockRec
  BY DEF TypeInv, TypeOK, KernelTypeOK, Stages, SlotOK, C, K
<1>2. Rest \in Nat /\ Sent \in Nat /\ Rest - Sent \in Nat /\ Sent <= K.room
  BY <1>1, ConstantTypes DEF Rest, Sent, Least, SlotOK, SlotRec, SockRec
<1>3. ASSUME NEW n \in Transfers \cup {Sent}
      PROVE  n \in Nat /\ n <= Sent /\ AfterSend(K, n) \in SockRec
  <2>1. n \in Nat /\ n <= Sent
    BY <1>2, <1>3 DEF Transfers
  <2>2. K.room - n \in 0..SndBuf
    BY <1>1, <1>2, <2>1, ConstantTypes DEF SockRec
  <2> QED
    BY <1>1, <2>1, <2>2 DEF AfterSend, SockRec
<1> QED
  BY <1>2, <1>3

LEMMA KeptAliveType ==
  ASSUME NEW c, SlotOK(c)
  PROVE  SlotOK(KeptAlive(c))
<1>1. SlotOK(CloseRequest(c))
  BY CloseRequestType
<1>2. c.last - c.pos \in 0..BufSize
  BY ConstantTypes DEF SlotOK, SlotRec
<1>3. 0 \in 0..BufSize
  BY ConstantTypes
<1>4. ASSUME NEW d, SlotOK(d), NEW n \in 0..BufSize
      PROVE  SlotOK([d EXCEPT !.data = "hc", !.rh = "init_request", !.wh = "empty",
                              !.pos = 0, !.last = n])
  <2> DEFINE e == [d EXCEPT !.data = "hc", !.rh = "init_request", !.wh = "empty",
                            !.pos = 0, !.last = n]
  <2>1. e \in SlotRec
    BY <1>3, <1>4 DEF SlotOK, SlotRec, Readers, Writers
  <2>2. e.pos = 0 /\ e.last = n /\ 0 <= n
    BY <1>4, ConstantTypes DEF SlotOK, SlotRec
  <2> QED
    BY <2>1, <2>2 DEF SlotOK
<1> QED
  BY <1>1, <1>2, <1>4 DEF KeptAlive

LEMMA WriterType ==
  ASSUME TypeInv, Writer
  PROVE  TypeInv'
<1>1. cur \in Fd /\ SlotOK(C) /\ K \in SockRec /\ pc \in {"head", "body"}
  BY DEF TypeInv, TypeOK, KernelTypeOK, Stages, SlotOK, C, K, Writer
<1>2. CASE WriteBroken
  BY <1>2 DEF WriteBroken, Crash, Goto, kernel, TypeInv, TypeOK, KernelTypeOK, Stages, Faults
<1>3. CASE WriteEnds
  BY <1>1, <1>3, CloseBothType DEF WriteEnds
<1>4. CASE WriteLater
  BY <1>4, ReturnType DEF WriteLater, kernel, TypeInv, TypeOK, KernelTypeOK
<1>5. ASSUME NEW c, SlotOK(c), conn' = [conn EXCEPT ![cur] = c],
             NEW n \in Transfers \cup {Sent},
             sock' = [sock EXCEPT ![cur] = AfterSend(K, n)], UNCHANGED ready,
             NEW p \in Stages, Goto(p)
      PROVE  TypeInv'
  BY <1>1, <1>5, SentType, GotoType DEF SlotOK, TypeInv, TypeOK, KernelTypeOK
<1>6. CASE WriteHead
  <2>1. SlotOK([C EXCEPT !.hrest = C.hrest - Sent])
    BY <1>1, <1>6, SentType DEF WriteHead, Rest, SlotOK, SlotRec
  <2>2. /\ conn' = [conn EXCEPT ![cur] = [C EXCEPT !.hrest = C.hrest - Sent]]
        /\ sock' = [sock EXCEPT ![cur] = AfterSend(K, Sent)]
    BY <1>1, <1>6 DEF WriteHead, C, K
  <2> QED
    BY <1>5, <1>6, <2>1, <2>2 DEF WriteHead, Stages
<1>7. CASE WriteBody
  <2>1. PICK n \in Transfers :
          /\ n < Rest
          /\ conn' = [conn EXCEPT ![cur] = [C EXCEPT !.brest = C.brest - n]]
          /\ sock' = [sock EXCEPT ![cur] = AfterSend(K, n)]
    BY <1>1, <1>7 DEF WriteBody, C, K
  <2>2. SlotOK([C EXCEPT !.brest = C.brest - n])
    BY <1>1, <1>7, <2>1, SentType DEF WriteBody, Rest, SlotOK, SlotRec
  <2> QED
    BY <1>5, <1>7, <2>1, <2>2 DEF WriteBody, Stages
<1>8. CASE WriteLast
  <2>1. SlotOK(KeptAlive(C))
    BY <1>1, KeptAliveType
  <2>2. CASE CloseConnection(KeptAlive(C))
    BY <1>1, <1>8, <2>1, <2>2, CloseType, ReturnType DEF WriteLast, TypeInv, TypeOK
  <2>3. CASE /\ conn' = [conn EXCEPT ![cur] = KeptAlive(C)]
             /\ sock' = [sock EXCEPT ![cur] = Watch(AfterSend(K, Sent), "IN")]
             /\ ready' = ReadyAfterCtl(cur, Watch(AfterSend(K, Sent), "IN"))
    <3>1. Watch(AfterSend(K, Sent), "IN") \in SockRec
      BY <1>1, SentType, WatchType DEF Events
    <3>2. KernelTypeOK'
      BY <1>1, <2>3, <3>1 DEF ReadyAfterCtl, TypeInv, TypeOK, KernelTypeOK
    <3>3. conn' \in [Fd -> SlotRec] /\ \A s \in Fd : conn'[s].pos <= conn'[s].last
      BY <1>1, <2>1, <2>3 DEF SlotOK, TypeInv, TypeOK
    <3> QED
      BY <1>8, <3>2, <3>3, ReturnType DEF WriteLast, TypeInv, TypeOK
  <2> QED
    BY <1>8, <2>2, <2>3 DEF WriteLast
<1> QED
  BY <1>2, <1>3, <1>4, <1>6, <1>7, <1>8 DEF Writer

LEMMA StepType == TypeInv /\ [Next]_vars => TypeInv'
<1> SUFFICES ASSUME TypeInv, [Next]_vars PROVE TypeInv'
  OBVIOUS
<1>1. CASE UNCHANGED vars
  BY <1>1 DEF vars, TypeInv, TypeOK, KernelTypeOK
<1>2. CASE Server
  <2>1. CASE EpollWait \/ \E s \in Fd : Dispatch(s)
    <3>1. 0 \in Fd
      BY KernelAssumption DEF KernelAssumption, Fd
    <3> QED
      BY <2>1, <3>1, LoopType
  <2> QED
    BY <1>2, <2>1, AcceptType, RequestType, RespondType, WriterType DEF Server
<1> QED
  BY <1>1, <1>2, ClientType, RespondType DEF Next, Terminated

\* Type correctness: every field keeps to its range - the buffer indexes to the
\* buffer, the free room to the send buffer - and pc names a handler.
THEOREM TypeCorrect == Spec => []TypeOK
<1>1. TypeInv => TypeOK
  BY DEF TypeInv
<1> QED
  BY <1>1, InitType, StepType, PTL DEF Spec

-----------------------------------------------------------------------------
(***************************************************************************)
(* The inductive invariant of the safety theorems.  It describes the slot  *)
(* of every descriptor, ties the running handler to the slot it runs for,  *)
(* and says who owes a connection its next wakeup.                         *)
(***************************************************************************)
WithRequest == {"request_line", "headers", "block"}

ListenSlot(c, k) ==
  /\ c.open /\ c.rh = "accept"
  /\ k.use = "listen" /\ k.interest = {"IN"}

ClosedSlot(c, k) ==
  /\ ~c.open /\ c.cpool # "live" /\ c.rpool # "live"
  /\ k.use # "listen" /\ k.interest = {}
  /\ k.use = "sock" => Shortage

OpenSlot(c, k) ==
  /\ c.open /\ c.active /\ c.cpool = "live"
  /\ c.rh \in {"init_connection", "init_request"} \cup WithRequest
  /\ c.data = "request" <=> c.rh \in WithRequest
  /\ c.rpool = "live" <=> c.rh \in WithRequest
  /\ c.wh = "writer" <=> c.rh = "block"
  /\ c.rh = "block" /\ ~c.file => c.brest > 0
  /\ k.use = "sock"
  /\ \/ k.interest = IF c.rh = "block" THEN {"OUT"} ELSE {"IN"}
     \/ Shortage /\ k.interest = {} /\ c.rh = "init_connection"

SlotInv(s, c, k) ==
  IF s \in Listeners THEN ListenSlot(c, k)
  ELSE ClosedSlot(c, k) \/ (OpenSlot(c, k) /\ s < ConnNum)

\* The handler that runs at pc has this read_handler in its slot.
AtWork == {"init_connection", "init_request", "request_line", "headers",
           "respond", "blocked", "head", "body"}
HandlerAt == [p \in AtWork |-> IF p \in {"respond", "blocked"} THEN "headers"
                               ELSE IF p \in {"head", "body"} THEN "block" ELSE p]

PcInv ==
  /\ pc # "block"
  /\ pc = "loop" => cur = NoFd
  /\ pc \in Stages => batch[cur] = {}
  /\ pc = "accept" => cur \in Listeners
  /\ pc \in AtWork => /\ cur \notin Listeners /\ conn[cur].open
                      /\ sock[cur].interest # {}
                      /\ conn[cur].rh = HandlerAt[pc]
  /\ pc = "body" => conn[cur].hrest = 0
  /\ pc = "headers_error" => /\ cur \notin Listeners /\ ~conn[cur].open
                             /\ conn[cur].cpool = "freed" /\ conn[cur].rpool = "freed"
                             /\ conn[cur].data = "null" /\ conn[cur].rh = "headers"
  /\ FaultsExplained

\* Something will run the handler: an edge, an event of the current batch, or
\* the handler runs and has not yet found its socket drained (or filled).
Wakeup(s, c, k) ==
  /\ "IN" \in k.interest /\ k.inq > 0 =>
       s \in ready \/ batch[s] # {} \/ (cur = s /\ (c.rready \/ Dead))
  /\ "OUT" \in k.interest /\ Writable(k) =>
       s \in ready \/ batch[s] # {} \/ (cur = s /\ (pc \in {"head", "body"} \/ Dead))

SafetyInv ==
  /\ TypeInv
  /\ \A s \in Fd : /\ SlotInv(s, conn[s], sock[s])
                   /\ batch[s] \subseteq sock[s].interest
                   /\ s \notin Listeners => Wakeup(s, conn[s], sock[s])
  /\ PcInv

\* What holds of descriptor s in the invariant, and its primed form, in one name.
At(s) == /\ SlotInv(s, conn[s], sock[s])
         /\ batch[s] \subseteq sock[s].interest
         /\ s \notin Listeners => Wakeup(s, conn[s], sock[s])

\* A step of a handler does not touch other connections; it may open a file.
LEMMA OtherKeeps ==
  ASSUME SafetyInv, NEW t \in Fd, t # cur, cur' # t, batch' = batch, conn'[t] = conn[t],
         sock'[t] = sock[t] \/ (sock[t].use = "free" /\ sock'[t] = FileSock),
         t \in ready => t \in ready'
  PROVE  At(t)'
<1>1. CASE sock'[t] = sock[t]
  <2>1. SlotInv(t, conn[t], sock[t])' /\ batch'[t] \subseteq sock'[t].interest
    BY <1>1 DEF SafetyInv, SlotInv, ListenSlot, ClosedSlot, OpenSlot
  <2>2. t \notin Listeners => Wakeup(t, conn[t], sock[t])'
    BY <1>1 DEF SafetyInv, Wakeup, Writable, Reset
  <2> QED
    BY <2>1, <2>2 DEF At
<1>2. CASE sock[t].use = "free" /\ sock'[t] = FileSock
  <2>1. FileSock.use = "file" /\ FileSock.interest = {}
    BY DEF FileSock, FreeSock
  <2>2. t \notin Listeners /\ ClosedSlot(conn[t], sock[t]) /\ batch[t] = {}
    BY <1>2 DEF SafetyInv, SlotInv, ListenSlot, ClosedSlot, OpenSlot
  <2> QED
    BY <1>2, <2>1, <2>2 DEF At, SlotInv, ClosedSlot, Wakeup
<1> QED
  BY <1>1, <1>2

LEMMA OthersKeep ==
  ASSUME SafetyInv, cur \in Fd, cur' \in {cur, NoFd}, batch' = batch,
         NEW c, NEW k, conn' = [conn EXCEPT ![cur] = c], sock' = [sock EXCEPT ![cur] = k],
         \A t \in Fd : t # cur /\ t \in ready => t \in ready'
  PROVE  \A t \in Fd : t # cur => At(t)'
<1> SUFFICES ASSUME NEW t \in Fd, t # cur PROVE At(t)'
  OBVIOUS
<1>1. conn'[t] = conn[t] /\ sock'[t] = sock[t] /\ cur' # t
  BY ConstantTypes DEF SafetyInv, TypeInv, TypeOK, KernelTypeOK
<1> QED
  BY <1>1, OtherKeeps

LEMMA InitSafe == Init => SafetyInv
<1> SUFFICES ASSUME Init PROVE SafetyInv
  OBVIOUS
<1>1. TypeInv
  BY InitType
<1>2. ASSUME NEW s \in Fd
      PROVE  At(s)
  <2>1. CASE s \in Listeners
    BY <2>1 DEF Init, At, SlotInv, ListenSlot, FreeSock, ZeroSlot
  <2>2. CASE s \notin Listeners
    BY <2>2 DEF Init, At, SlotInv, ClosedSlot, FreeSock, ZeroSlot, Wakeup
  <2> QED
    BY <2>1, <2>2
<1>3. PcInv
  BY DEF Init, PcInv, Stages, AtWork, FaultsExplained
<1> QED
  BY <1>1, <1>2, <1>3 DEF SafetyInv, At

\* A handler that runs for an open connection works for one OpenSlot.
LEMMA AtWorkSlot ==
  ASSUME SafetyInv, pc \in AtWork
  PROVE  /\ cur \in Fd /\ cur \notin Listeners /\ batch[cur] = {}
         /\ OpenSlot(C, K) /\ cur < ConnNum
         /\ C.rh = HandlerAt[pc] /\ K.interest # {}
         /\ C \in SlotRec /\ K \in SockRec
         /\ Wakeup(cur, C, K)
<1>1. cur \in Fd /\ cur \notin Listeners /\ pc \in Stages
  BY DEF SafetyInv, TypeInv, PcInv, AtWork, Stages
<1>2. SlotInv(cur, C, K) /\ Wakeup(cur, C, K)
  BY <1>1 DEF SafetyInv, C, K
<1>3. C.open /\ K.interest # {} /\ C.rh = HandlerAt[pc] /\ batch[cur] = {}
  BY <1>1 DEF SafetyInv, PcInv, C, K
<1>4. C \in SlotRec /\ K \in SockRec
  BY <1>1 DEF SafetyInv, TypeInv, TypeOK, KernelTypeOK, C, K
<1> QED
  BY <1>1, <1>2, <1>3, <1>4 DEF SlotInv, ClosedSlot

\* The step of a handler, at its own connection: the two ways it may end.
LEMMA ReturnSafe ==
  ASSUME SafetyInv, TypeInv', pc \in AtWork, Return,
         NEW c, NEW k, conn' = [conn EXCEPT ![cur] = c], sock' = [sock EXCEPT ![cur] = k],
         \A t \in Fd : t # cur /\ t \in ready => t \in ready',
         ClosedSlot(c, k) \/ OpenSlot(c, k),
         "IN" \in k.interest /\ k.inq > 0 => cur \in ready',
         "OUT" \in k.interest /\ Writable(k) => cur \in ready'
  PROVE  SafetyInv'
<1>0. PICK s \in Fd : s = cur
  BY AtWorkSlot
<1>1. cur' = NoFd /\ pc' = "loop" /\ batch' = batch /\ batch[s] = {}
  BY <1>0, AtWorkSlot DEF Return
<1>2. conn'[s] = c /\ sock'[s] = k
  BY <1>0 DEF SafetyInv, TypeInv, TypeOK, KernelTypeOK
<1>3. At(s)'
  <2>1. SlotInv(s, conn[s], sock[s])'
    BY <1>0, <1>2, AtWorkSlot DEF SlotInv, ClosedSlot, OpenSlot
  <2>2. Wakeup(s, conn[s], sock[s])'
    BY <1>0, <1>1, <1>2 DEF Wakeup, Writable, Reset
  <2> QED
    BY <1>1, <2>1, <2>2 DEF At
<1>4. \A t \in Fd : t # s => At(t)'
  BY <1>0, <1>1, OthersKeep
<1>5. PcInv'
  BY <1>1 DEF PcInv, Stages, AtWork, FaultsExplained
<1> QED
  BY <1>3, <1>4, <1>5 DEF SafetyInv, At

LEMMA GotoSafe ==
  ASSUME SafetyInv, TypeInv', pc \in AtWork, NEW p \in AtWork, Goto(p),
         NEW c, NEW k, conn' = [conn EXCEPT ![cur] = c], sock' = [sock EXCEPT ![cur] = k],
         \A t \in Fd : t # cur /\ t \in ready => t \in ready',
         OpenSlot(c, k), k.interest # {}, c.rh = HandlerAt[p], p = "body" => c.hrest = 0,
         "IN" \in k.interest /\ k.inq > 0 => c.rready \/ cur \in ready',
         "OUT" \in k.interest /\ Writable(k) => p \in {"head", "body"}
  PROVE  SafetyInv'
<1>0. PICK s \in Fd : s = cur
  BY AtWorkSlot
<1>1. cur' = s /\ pc' = p /\ batch' = batch /\ batch[s] = {}
  BY <1>0, AtWorkSlot DEF Goto
<1>2. conn'[s] = c /\ sock'[s] = k
  BY <1>0 DEF SafetyInv, TypeInv, TypeOK, KernelTypeOK
<1>3. At(s)'
  <2>1. SlotInv(s, conn[s], sock[s])'
    BY <1>0, <1>2, AtWorkSlot DEF SlotInv, OpenSlot
  <2>2. Wakeup(s, conn[s], sock[s])'
    BY <1>0, <1>1, <1>2 DEF Wakeup, Writable, Reset
  <2> QED
    BY <1>1, <2>1, <2>2 DEF At
<1>4. \A t \in Fd : t # s => At(t)'
  BY <1>0, <1>1, OthersKeep
<1>5. PcInv'
  BY <1>0, <1>1, <1>2, AtWorkSlot DEF PcInv, Stages, Faults, AtWork, FaultsExplained, OpenSlot
<1> QED
  BY <1>3, <1>4, <1>5 DEF SafetyInv, At

\* A crash leaves everything but pc as it was.
LEMMA CrashSafe ==
  ASSUME SafetyInv, TypeInv', cur \in Fd, NEW f \in Faults, Crash(f),
         f = "double_free" => conn[cur].rh = "headers",
         f = "sigpipe" => conn[cur].rh = "block" /\ sock[cur].peer = "finrst",
         f = "null" => Shortage
  PROVE  SafetyInv'
<1>1. /\ pc' = f /\ cur' = cur /\ batch' = batch /\ Dead'
      /\ sock' = sock /\ ready' = ready /\ conn' = conn
  BY DEF Crash, Goto, kernel, Dead
<1>2. ASSUME NEW t \in Fd
      PROVE  At(t)'
  BY <1>1 DEF SafetyInv, At, SlotInv, ListenSlot, ClosedSlot, OpenSlot, Wakeup, Writable, Reset, Dead
<1>3. PcInv'
  BY <1>1 DEF PcInv, Stages, Faults, AtWork, FaultsExplained
<1> QED
  BY <1>1, <1>2, <1>3 DEF SafetyInv, At

LEMMA CloseSafe ==
  ASSUME SafetyInv, TypeInv', pc \in AtWork, Return,
         NEW c \in SlotRec, c.rpool # "live", CloseConnection(c)
  PROVE  SafetyInv'
<1> DEFINE d == [c EXCEPT !.open = FALSE, !.data = "null", !.cpool = "freed",
                          !.rready = FALSE, !.pos = 0, !.last = 0]
<1>1. /\ conn' = [conn EXCEPT ![cur] = d] /\ sock' = [sock EXCEPT ![cur] = FreeSock]
      /\ ready' = ready \ {cur}
  BY DEF CloseConnection
<1>2. ~d.open /\ d.cpool = "freed" /\ d.rpool # "live"
  BY DEF SlotRec
<1>3. FreeSock.interest = {} /\ FreeSock.use = "free"
  BY DEF FreeSock
<1> HIDE DEF d
<1>4. ClosedSlot(d, FreeSock)
  BY <1>2, <1>3 DEF ClosedSlot
<1> QED
  BY <1>1, <1>3, <1>4, ReturnSafe

LEMMA CloseRequestFrees ==
  ASSUME NEW c \in SlotRec
  PROVE  /\ CloseRequest(c) \in SlotRec /\ CloseRequest(c).rpool # "live"
         /\ c.rpool = "live" => CloseRequest(c).rpool = "freed"
         /\ CloseRequest(c).rh = c.rh /\ CloseRequest(c).open = c.open
         /\ CloseRequest(c).active = c.active /\ CloseRequest(c).cpool = c.cpool
BY DEF CloseRequest, SlotRec, PoolState

LEMMA CloseBothSafe ==
  ASSUME SafetyInv, TypeInv', pc \in {"request_line", "headers", "head", "body"}, CloseBoth
  PROVE  SafetyInv'
<1>1. pc \in AtWork /\ C.rpool = "live" /\ C \in SlotRec
  BY AtWorkSlot DEF AtWork, HandlerAt, OpenSlot, WithRequest
<1>2. CloseConnection(CloseRequest(C)) /\ Return
  BY <1>1 DEF CloseBoth
<1> QED
  BY <1>1, <1>2, CloseRequestFrees, CloseSafe

LEMMA InitRequestSafe ==
  ASSUME SafetyInv, TypeInv', InitConnection \/ InitRequest
  PROVE  SafetyInv'
<1>1. CASE InitConnection
  <2> DEFINE c == [C EXCEPT !.rh = "init_request", !.wh = "empty"]
  <2>1. pc = "init_connection" /\ pc \in AtWork /\ "init_request" \in AtWork
    BY <1>1 DEF InitConnection, AtWork
  <2>2. /\ C \in SlotRec /\ OpenSlot(C, K) /\ C.rh = "init_connection"
        /\ K.interest = {"IN"} /\ cur \in Fd
    BY <2>1, AtWorkSlot DEF HandlerAt, OpenSlot
  <2>3. conn' = [conn EXCEPT ![cur] = c] /\ sock' = [sock EXCEPT ![cur] = K]
    BY <1>1, <2>2 DEF InitConnection, kernel, C, K, SafetyInv, TypeInv, TypeOK, KernelTypeOK, SlotRec
  <2>4. Goto("init_request") /\ ready' = ready
    BY <1>1, <2>2 DEF InitConnection, kernel, OpenSlot
  <2>5. OpenSlot(c, K) /\ c.rh = "init_request" /\ c.rready = C.rready
    BY <2>2 DEF OpenSlot, SlotRec, WithRequest
  <2>6. "IN" \in K.interest /\ K.inq > 0 => C.rready \/ cur \in ready
    BY <2>1, AtWorkSlot DEF Wakeup, Dead, Faults, AtWork
  <2>7. HandlerAt["init_request"] = "init_request"
    BY DEF HandlerAt, AtWork
  <2> HIDE DEF c
  <2> QED
    BY <2>1, <2>2, <2>3, <2>4, <2>5, <2>6, <2>7, GotoSafe
<1>2. CASE InitRequest
  <2> DEFINE c == [C EXCEPT !.data = "request", !.rpool = "live", !.rh = "request_line"]
  <2>1. pc = "init_request" /\ pc \in AtWork /\ "request_line" \in AtWork
    BY <1>2 DEF InitRequest, AtWork
  <2>2. /\ C \in SlotRec /\ OpenSlot(C, K) /\ C.rh = "init_request"
        /\ K.interest = {"IN"} /\ cur \in Fd
    BY <2>1, AtWorkSlot DEF HandlerAt, OpenSlot
  <2>3. CASE CloseConnection([C EXCEPT !.rpool = "none"]) /\ Return
    <3>1. [C EXCEPT !.rpool = "none"] \in SlotRec /\ [C EXCEPT !.rpool = "none"].rpool = "none"
      BY <2>2 DEF SlotRec, PoolState
    <3> QED
      BY <2>1, <2>3, <3>1, CloseSafe
  <2>4. CASE /\ conn' = [conn EXCEPT ![cur] = c]
             /\ Goto("request_line") /\ UNCHANGED kernel
    <3>1. sock' = [sock EXCEPT ![cur] = K] /\ ready' = ready
      BY <2>4 DEF kernel, K, SafetyInv, TypeInv, TypeOK, KernelTypeOK
    <3>2. OpenSlot(c, K) /\ c.rh = "request_line" /\ c.rready = C.rready
      BY <2>2 DEF OpenSlot, SlotRec, WithRequest
    <3>3. "IN" \in K.interest /\ K.inq > 0 => C.rready \/ cur \in ready
      BY <2>1, AtWorkSlot DEF Wakeup, Dead, Faults, AtWork
    <3>4. HandlerAt["request_line"] = "request_line"
      BY DEF HandlerAt, AtWork
    <3> HIDE DEF c
    <3> QED
      BY <2>1, <2>2, <2>4, <3>1, <3>2, <3>3, <3>4, GotoSafe
  <2> QED
    BY <1>2, <2>2, <2>3, <2>4 DEF InitRequest, C, SafetyInv, TypeInv, TypeOK, SlotRec
<1> QED
  BY <1>1, <1>2

\* A recv leaves the slot open, and data behind only if it filled the buffer.
LEMMA FilledSafe ==
  ASSUME SafetyInv, pc \in {"request_line", "headers"}, MayParse,
         NEW c \in SlotRec, c.open = Filled.open, c.active = Filled.active,
         c.rready = Filled.rready, c.cpool = Filled.cpool, c.rpool = Filled.rpool,
         c.data = Filled.data, c.wh = Filled.wh, c.rh \in {"request_line", "headers"},
         conn' = [conn EXCEPT ![cur] = c], sock' = Drained, UNCHANGED ready,
         NEW p \in {"request_line", "headers", "respond"}, Goto(p), c.rh = HandlerAt[p],
         TypeInv'
  PROVE  SafetyInv'
<1>1. /\ pc \in AtWork /\ p \in AtWork /\ C.rh \in {"request_line", "headers"}
      /\ cur \in Fd /\ C \in SlotRec /\ K \in SockRec /\ OpenSlot(C, K)
      /\ K.interest = {"IN"}
  BY AtWorkSlot DEF AtWork, HandlerAt, OpenSlot
<1>2. K.inq > 0 => C.rready \/ cur \in ready
  BY <1>1, AtWorkSlot DEF Wakeup, Dead, Faults, AtWork
<1>3. /\ Filled.open = C.open /\ Filled.active = C.active /\ Filled.cpool = C.cpool
      /\ Filled.rpool = C.rpool /\ Filled.data = C.data /\ Filled.wh = C.wh
  BY <1>1 DEF Filled, Received, SlotRec
<1>4. PICK k \in SockRec : /\ sock' = [sock EXCEPT ![cur] = k]
                           /\ k.use = K.use /\ k.interest = K.interest
                           /\ k.inq > 0 => Filled.rready \/ cur \in ready
  <2>1. CASE Buffered
    <3>1. Filled = C /\ sock' = sock /\ sock = [sock EXCEPT ![cur] = K]
      BY <2>1, <1>1 DEF Filled, Drained, K, SafetyInv, TypeInv, TypeOK, KernelTypeOK
    <3> QED
      BY <3>1, <1>1, <1>2
  <2>2. CASE ~Buffered
    <3>1. C.rready /\ Filled.rready = (C.rready /\ Got = Space)
      BY <2>2, <1>1 DEF MayParse, Filled, Received, SlotRec
    <3>2. Got \in Nat /\ Got <= K.inq /\ (K.inq - Got > 0 => Got = Space)
      BY <1>1, <2>2, ConstantTypes
         DEF Got, Space, Least, SlotRec, SockRec, MayParse
    <3>3. sock' = [sock EXCEPT ![cur] = [K EXCEPT !.inq = K.inq - Got]]
      BY <2>2, <1>1 DEF Drained, K, SafetyInv, TypeInv, TypeOK, KernelTypeOK, SockRec
    <3>4. [K EXCEPT !.inq = K.inq - Got] \in SockRec
      BY <1>1, <3>2 DEF SockRec
    <3> QED
      BY <1>1, <3>1, <3>2, <3>3, <3>4 DEF SockRec
  <2> QED
    BY <2>1, <2>2
<1>5. OpenSlot(c, k)
  BY <1>1, <1>3, <1>4 DEF OpenSlot, WithRequest
<1>6. /\ k.interest # {} /\ p # "body" /\ ~("OUT" \in k.interest)
      /\ "IN" \in k.interest /\ k.inq > 0 => c.rready \/ cur \in ready'
      /\ \A t \in Fd : t # cur /\ t \in ready => t \in ready'
  BY <1>1, <1>4
<1> QED
  BY <1>1, <1>4, <1>5, <1>6, GotoSafe

LEMMA ReadSafe ==
  ASSUME SafetyInv, TypeInv', pc \in {"request_line", "headers"},
         ReadLater \/ ParseAgain \/ (pc = "headers" /\ ParseDone(Filled, "respond"))
         \/ (pc = "request_line"
             /\ ParseDone([Filled EXCEPT !.rh = "headers"], "headers"))
  PROVE  SafetyInv'
<1>1. /\ pc \in AtWork /\ cur \in Fd /\ C \in SlotRec /\ K \in SockRec
      /\ C.rh = pc /\ OpenSlot(C, K) /\ K.interest = {"IN"}
  BY AtWorkSlot DEF AtWork, HandlerAt, OpenSlot
<1>2. K.inq > 0 => C.rready \/ cur \in ready
  BY <1>1, AtWorkSlot DEF Wakeup, Dead, Faults, AtWork
<1>3. MayParse => Filled \in SlotRec /\ Filled.rh = pc /\ Filled.pos <= Filled.last
  <2>1. MayParse => Filled \in SlotRec /\ Filled.pos <= Filled.last
    BY <1>1, FilledType DEF SafetyInv, SlotOK
  <2>2. Filled.rh = C.rh
    BY <1>1 DEF Filled, Received, SlotRec
  <2> QED
    BY <1>1, <2>1, <2>2
<1>4. CASE ReadLater
  <2> DEFINE c == [C EXCEPT !.rready = FALSE]
  <2>1. conn' = [conn EXCEPT ![cur] = c] /\ sock' = [sock EXCEPT ![cur] = K]
        /\ ready' = ready
    BY <1>1, <1>4 DEF ReadLater, kernel, C, K, SafetyInv, TypeInv, TypeOK, KernelTypeOK
  <2>2. OpenSlot(c, K)
    BY <1>1 DEF OpenSlot, SlotRec
  <2>3. K.inq > 0 => cur \in ready
    BY <1>1, <1>2, <1>4 DEF ReadLater, SockRec
  <2>4. Return
    BY <1>4 DEF ReadLater
  <2> HIDE DEF c
  <2> QED
    BY <1>1, <2>1, <2>2, <2>3, <2>4, ReturnSafe
<1>5. CASE ParseAgain
  <2> DEFINE c == [Filled EXCEPT !.pos = Filled.last]
  <2>1. MayParse /\ conn' = [conn EXCEPT ![cur] = c] /\ sock' = Drained
        /\ Goto(pc) /\ UNCHANGED ready
    BY <1>5 DEF ParseAgain
  <2>2. /\ c \in SlotRec /\ c.open = Filled.open /\ c.active = Filled.active
        /\ c.rready = Filled.rready /\ c.cpool = Filled.cpool /\ c.rpool = Filled.rpool
        /\ c.data = Filled.data /\ c.wh = Filled.wh /\ c.rh = pc
    BY <1>3, <2>1 DEF SlotRec
  <2>3. HandlerAt[pc] = pc
    BY DEF HandlerAt, AtWork
  <2> HIDE DEF c
  <2> QED
    BY <2>1, <2>2, <2>3, FilledSafe
<1>6. CASE pc = "headers" /\ ParseDone(Filled, "respond")
  <2>1. PICK n \in 1..(Filled.last - Filled.pos) :
          conn' = [conn EXCEPT ![cur] = [Filled EXCEPT !.pos = Filled.pos + n]]
    BY <1>6 DEF ParseDone
  <2> DEFINE c == [Filled EXCEPT !.pos = Filled.pos + n]
  <2>2. MayParse /\ conn' = [conn EXCEPT ![cur] = c] /\ sock' = Drained
        /\ Goto("respond") /\ UNCHANGED ready
    BY <1>6, <2>1 DEF ParseDone
  <2>3. /\ c \in SlotRec /\ c.open = Filled.open /\ c.active = Filled.active
        /\ c.rready = Filled.rready /\ c.cpool = Filled.cpool /\ c.rpool = Filled.rpool
        /\ c.data = Filled.data /\ c.wh = Filled.wh /\ c.rh = "headers"
    BY <1>3, <1>6, <2>1, <2>2, ConstantTypes DEF SlotRec
  <2>4. HandlerAt["respond"] = "headers"
    BY DEF HandlerAt, AtWork
  <2> HIDE DEF c
  <2> QED
    BY <2>2, <2>3, <2>4, FilledSafe
<1>7. CASE pc = "request_line" /\ ParseDone([Filled EXCEPT !.rh = "headers"], "headers")
  <2> DEFINE f == [Filled EXCEPT !.rh = "headers"]
  <2>1. PICK n \in 1..(f.last - f.pos) :
          conn' = [conn EXCEPT ![cur] = [f EXCEPT !.pos = f.pos + n]]
    BY <1>7 DEF ParseDone
  <2> DEFINE c == [f EXCEPT !.pos = f.pos + n]
  <2>2. MayParse /\ conn' = [conn EXCEPT ![cur] = c] /\ sock' = Drained
        /\ Goto("headers") /\ UNCHANGED ready
    BY <1>7, <2>1 DEF ParseDone
  <2>3. /\ f \in SlotRec /\ f.open = Filled.open /\ f.active = Filled.active
        /\ f.rready = Filled.rready /\ f.cpool = Filled.cpool /\ f.rpool = Filled.rpool
        /\ f.data = Filled.data /\ f.wh = Filled.wh /\ f.rh = "headers"
        /\ f.pos = Filled.pos /\ f.last = Filled.last
    BY <1>3, <2>2 DEF SlotRec, Readers
  <2> HIDE DEF f
  <2>4. /\ c \in SlotRec /\ c.open = f.open /\ c.active = f.active
        /\ c.rready = f.rready /\ c.cpool = f.cpool /\ c.rpool = f.rpool
        /\ c.data = f.data /\ c.wh = f.wh /\ c.rh = "headers"
    BY <2>1, <2>3, ConstantTypes DEF SlotRec
  <2>5. HandlerAt["headers"] = "headers"
    BY DEF HandlerAt, AtWork
  <2> HIDE DEF c
  <2> QED
    BY <2>2, <2>3, <2>4, <2>5, FilledSafe
<1> QED
  BY <1>4, <1>5, <1>6, <1>7

LEMMA RequestSafe ==
  ASSUME SafetyInv, TypeInv', ProcessRequestLine \/ ProcessHeaders \/ HeadersError
  PROVE  SafetyInv'
<1>1. CASE ProcessRequestLine
  <2>1. CASE CloseBoth
    BY <1>1, <2>1, CloseBothSafe DEF ProcessRequestLine
  <2> QED
    BY <1>1, <2>1, ReadSafe DEF ProcessRequestLine, BufferFull, LineEof, ParseError
<1>2. CASE ProcessHeaders
  <2>1. CASE CloseBoth
    BY <1>2, <2>1, CloseBothSafe DEF ProcessHeaders
  <2>2. CASE CloseConnection(CloseRequest(C)) /\ Goto("headers_error")
    <3>1. PICK s \in Fd : s = cur
      BY <1>2, AtWorkSlot DEF ProcessHeaders, AtWork
    <3>2. /\ s \notin Listeners /\ batch[s] = {} /\ C \in SlotRec
          /\ C.rpool = "live" /\ C.rh = "headers"
      BY <1>2, <3>1, AtWorkSlot DEF ProcessHeaders, AtWork, HandlerAt, OpenSlot, WithRequest
    <3>3. pc' = "headers_error" /\ cur' = s /\ batch' = batch
      BY <2>2, <3>1 DEF Goto
    <3> DEFINE c == CloseRequest(C)
               d == [c EXCEPT !.open = FALSE, !.data = "null", !.cpool = "freed",
                              !.rready = FALSE, !.pos = 0, !.last = 0]
    <3>4. /\ conn' = [conn EXCEPT ![s] = d] /\ sock' = [sock EXCEPT ![s] = FreeSock]
          /\ ready' = ready \ {s}
      BY <2>2, <3>1 DEF CloseConnection
    <3>5. c \in SlotRec /\ c.rpool = "freed" /\ c.rh = "headers"
      BY <3>2, CloseRequestFrees
    <3> HIDE DEF c
    <3>6. /\ ~d.open /\ d.cpool = "freed" /\ d.rpool = "freed" /\ d.data = "null"
          /\ d.rh = "headers"
      BY <3>5 DEF SlotRec
    <3> HIDE DEF d
    <3>7. FreeSock.interest = {} /\ FreeSock.use = "free"
      BY DEF FreeSock
    <3>8. conn'[s] = d /\ sock'[s] = FreeSock
      BY <3>4 DEF SafetyInv, TypeInv, TypeOK, KernelTypeOK
    <3>9. At(s)'
      BY <3>2, <3>3, <3>6, <3>7, <3>8 DEF At, SlotInv, ClosedSlot, Wakeup
    <3>10. \A t \in Fd : t # s => At(t)'
      BY <3>1, <3>3, <3>4, OthersKeep
    <3>11. PcInv'
      BY <3>2, <3>3, <3>6, <3>8 DEF PcInv, Stages, AtWork, FaultsExplained
    <3> QED
      BY <3>9, <3>10, <3>11 DEF SafetyInv, At
  <2> QED
    BY <1>2, <2>1, <2>2, ReadSafe DEF ProcessHeaders, BufferFull, ParseError
<1>3. CASE HeadersError
  <2>1. cur \in Fd /\ C.rpool = "freed" /\ C.rh = "headers"
    BY <1>3 DEF HeadersError, SafetyInv, TypeInv, PcInv, Stages, C
  <2>2. Crash("double_free")
    BY <1>3, <2>1 DEF HeadersError, CloseBoth
  <2> QED
    BY <2>1, <2>2, CrashSafe DEF Faults, C
<1> QED
  BY <1>1, <1>2, <1>3

LEMMA RespondSafe ==
  ASSUME SafetyInv, TypeInv', Respond \/ WriterComes
  PROVE  SafetyInv'
<1>0. pc \in {"respond", "blocked"} /\ pc \in AtWork
  BY DEF Respond, WriterComes, AtWork
<1>1. PICK s \in Fd : s = cur
  BY <1>0, AtWorkSlot
<1>2. /\ pc \in AtWork /\ s \notin Listeners /\ batch[s] = {} /\ s < ConnNum
      /\ C \in SlotRec /\ K \in SockRec /\ OpenSlot(C, K) /\ C.rh = "headers"
      /\ K.interest = {"IN"} /\ C = conn[s] /\ K = sock[s]
  BY <1>0, <1>1, AtWorkSlot DEF HandlerAt, OpenSlot, C, K
<1>3. CASE Crash("null") /\ Shortage
  BY <1>2, <1>3, AtWorkSlot, CrashSafe DEF Faults
<1>4. ASSUME NEW n, NEW file \in BOOLEAN, file \/ n > 0,
             NEW table \in [Fd -> SockRec], StartWriter(n, file, table),
             \A t \in Fd : \/ table[t] = sock[t]
                           \/ sock[t].use = "free" /\ table[t] = FileSock
      PROVE  SafetyInv'
  <2> DEFINE c == [C EXCEPT !.hrest = HeadLen, !.brest = n, !.file = file,
                            !.rh = "block", !.wh = "writer"]
             k == Watch(K, "OUT")
  <2>1. conn' = [conn EXCEPT ![s] = c]
    BY <1>1, <1>2, <1>4 DEF StartWriter, SafetyInv, TypeInv, TypeOK, SlotRec
  <2>2. Registers(C, K)
    BY <1>2 DEF Registers, OpenSlot
  <2>3. /\ sock' = [table EXCEPT ![s] = k]
        /\ ready' = ReadyAfterCtl(s, k) /\ Goto("head")
    BY <1>1, <1>4, <2>2 DEF StartWriter, WatchWrite
  <2>4. pc' = "head" /\ cur' = s /\ batch' = batch
    BY <1>1, <2>3 DEF Goto
  <2>5. k.use = "sock" /\ k.interest = {"OUT"}
    BY <1>2 DEF Watch, OpenSlot, SockRec
  <2>6. OpenSlot(c, k) /\ c.open /\ c.rh = "block"
    BY <1>2, <1>4, <2>5 DEF OpenSlot, SlotRec, WithRequest
  <2> HIDE DEF c, k
  <2>7. conn'[s] = c /\ sock'[s] = k
    BY <1>4, <2>1, <2>3 DEF SafetyInv, TypeInv, TypeOK
  <2>8. At(s)'
    BY <1>2, <2>4, <2>5, <2>6, <2>7 DEF At, SlotInv, Wakeup
  <2>9. ASSUME NEW t \in Fd, t # s
        PROVE  At(t)'
    <3>1. conn'[t] = conn[t] /\ sock'[t] = table[t] /\ (t \in ready => t \in ready')
      BY <1>4, <2>1, <2>3, <2>9 DEF ReadyAfterCtl, SafetyInv, TypeInv, TypeOK
    <3> QED
      BY <1>1, <1>4, <2>4, <2>9, <3>1, OtherKeeps
  <2>10. PcInv'
    BY <1>2, <2>4, <2>5, <2>6, <2>7 DEF PcInv, Stages, Faults, AtWork, HandlerAt, FaultsExplained
  <2> QED
    BY <2>8, <2>9, <2>10 DEF SafetyInv, At
<1>5. sock \in [Fd -> SockRec]
  BY DEF SafetyInv, TypeInv, TypeOK, KernelTypeOK
<1>6. ASSUME NEW f \in Fd, LowestFree(f)
      PROVE  /\ [sock EXCEPT ![f] = FileSock] \in [Fd -> SockRec]
             /\ \A t \in Fd : \/ [sock EXCEPT ![f] = FileSock][t] = sock[t]
                              \/ /\ sock[t].use = "free"
                                 /\ [sock EXCEPT ![f] = FileSock][t] = FileSock
  BY <1>5, <1>6, ConstantTypes DEF LowestFree
<1>7. CASE ServeFile
  BY <1>4, <1>6, <1>7 DEF ServeFile
<1>8. CASE Goto("blocked") /\ UNCHANGED <<kernel, conn>>
  <2>1. /\ conn' = [conn EXCEPT ![cur] = C] /\ sock' = [sock EXCEPT ![cur] = K]
        /\ ready' = ready
    BY <1>8 DEF kernel, C, K, SafetyInv, TypeInv, TypeOK, KernelTypeOK
  <2>2. "blocked" \in AtWork /\ HandlerAt["blocked"] = "headers"
    BY DEF AtWork, HandlerAt
  <2>3. K.inq > 0 => C.rready \/ cur \in ready
    BY <1>0, <1>2, AtWorkSlot DEF Wakeup, Dead, Faults, AtWork
  <2> QED
    BY <1>2, <1>8, <2>1, <2>2, <2>3, GotoSafe
<1>9. CASE \E n \in MemSizes : StartWriter(n, FALSE, sock)
  <2>1. PICK n \in MemSizes : StartWriter(n, FALSE, sock)
    BY <1>9
  <2>2. n > 0
    BY ServerAssumption DEF ServerAssumption
  <2> QED
    BY <1>4, <1>5, <2>1, <2>2
<1>10. CASE StartWriter(0, TRUE, sock)
  BY <1>4, <1>5, <1>10
<1> QED
  BY <1>3, <1>7, <1>8, <1>9, <1>10 DEF Respond, WriterComes

LEMMA WriterSafe ==
  ASSUME SafetyInv, TypeInv', Writer
  PROVE  SafetyInv'
<1>1. /\ pc \in {"head", "body"} /\ pc \in AtWork /\ cur \in Fd /\ cur \notin Listeners
      /\ C \in SlotRec /\ K \in SockRec /\ OpenSlot(C, K) /\ C.rh = "block"
      /\ K.interest = {"OUT"}
  BY AtWorkSlot DEF Writer, AtWork, HandlerAt, OpenSlot
<1>2. /\ conn = [conn EXCEPT ![cur] = C] /\ sock = [sock EXCEPT ![cur] = K]
      /\ pc = "body" => C.hrest = 0
  BY <1>1 DEF SafetyInv, PcInv, TypeInv, TypeOK, KernelTypeOK, C, K
<1>3. /\ Rest \in Nat /\ Sent \in Nat
      /\ \A n \in Transfers \cup {Sent} :
           /\ n \in Nat /\ AfterSend(K, n) \in SockRec
           /\ AfterSend(K, n).use = "sock" /\ AfterSend(K, n).interest = {"OUT"}
           /\ AfterSend(K, n).inq = K.inq
  BY <1>1, SentType DEF SafetyInv, AfterSend, OpenSlot, SockRec
<1>4. CASE WriteBroken
  BY <1>1, <1>4, CrashSafe DEF WriteBroken, Faults, C, K
<1>5. CASE WriteEnds
  BY <1>1, <1>5, CloseBothSafe DEF WriteEnds
<1>6. CASE WriteLater
  <2>1. conn' = conn /\ sock' = sock /\ ready' = ready /\ Return
    BY <1>6 DEF WriteLater, kernel
  <2>2. ~Writable(K)
    BY <1>6 DEF WriteLater, Writable
  <2> QED
    BY <1>1, <1>2, <2>1, <2>2, ReturnSafe
<1>7. ASSUME NEW p \in {"head", "body"}, Goto(p),
             NEW c, OpenSlot(c, K), c.rh = "block", c.hrest = 0 \/ p = "head",
             conn' = [conn EXCEPT ![cur] = c], NEW n \in Transfers \cup {Sent},
             sock' = [sock EXCEPT ![cur] = AfterSend(K, n)], UNCHANGED ready
      PROVE  SafetyInv'
  <2>1. OpenSlot(c, AfterSend(K, n))
    BY <1>3, <1>7 DEF OpenSlot
  <2>2. HandlerAt[p] = "block" /\ p \in AtWork
    BY DEF HandlerAt, AtWork
  <2> QED
    BY <1>1, <1>3, <1>7, <2>1, <2>2, GotoSafe
<1>8. CASE WriteHead
  <2> DEFINE c == [C EXCEPT !.hrest = C.hrest - Sent]
  <2>1. OpenSlot(c, K) /\ c.rh = "block" /\ (Sent = Rest => c.hrest = 0)
    BY <1>1, <1>3, <1>8 DEF OpenSlot, SlotRec, WriteHead, Rest
  <2>2. conn' = [conn EXCEPT ![cur] = c] /\ sock' = [sock EXCEPT ![cur] = AfterSend(K, Sent)]
    BY <1>1, <1>8 DEF WriteHead, C, K
  <2> HIDE DEF c
  <2>3. CASE Sent = Rest
    BY <1>7, <1>8, <2>1, <2>2, <2>3 DEF WriteHead
  <2>4. CASE Sent # Rest
    BY <1>7, <1>8, <2>1, <2>2, <2>4 DEF WriteHead
  <2> QED
    BY <2>3, <2>4
<1>9. CASE WriteBody
  <2>1. PICK n \in Transfers :
          /\ n < Rest
          /\ conn' = [conn EXCEPT ![cur] = [C EXCEPT !.brest = C.brest - n]]
          /\ sock' = [sock EXCEPT ![cur] = AfterSend(K, n)]
    BY <1>1, <1>9 DEF WriteBody, C, K
  <2> DEFINE c == [C EXCEPT !.brest = C.brest - n]
  <2>2. OpenSlot(c, K) /\ c.rh = "block" /\ c.hrest = 0
    <3>1. C.brest = Rest /\ Rest - n > 0
      BY <1>3, <1>9, <2>1 DEF WriteBody, Rest
    <3> QED
      BY <1>1, <1>2, <1>9, <3>1 DEF OpenSlot, SlotRec, WriteBody
  <2>3. /\ conn' = [conn EXCEPT ![cur] = c] /\ sock' = [sock EXCEPT ![cur] = AfterSend(K, n)]
        /\ Goto("body") /\ UNCHANGED ready
    BY <1>9, <2>1 DEF WriteBody
  <2> HIDE DEF c
  <2> QED
    BY <1>7, <2>2, <2>3
<1>10. CASE WriteLast
  <2> DEFINE c == KeptAlive(C)
             k == Watch(AfterSend(K, Sent), "IN")
  <2>1. Registers(C, K)
    BY <1>1 DEF Registers, OpenSlot
  <2>2. /\ conn' = [conn EXCEPT ![cur] = c] /\ sock' = [sock EXCEPT ![cur] = k]
        /\ ready' = ReadyAfterCtl(cur, k) /\ Return
    BY <1>10, <2>1 DEF WriteLast
  <2>3. k.use = "sock" /\ k.interest = {"IN"} /\ k.inq = K.inq
    BY <1>1, <1>3 DEF Watch, SockRec
  <2>4. /\ c.rh = "init_request" /\ c.data = "hc" /\ c.wh = "empty" /\ c.rpool # "live"
        /\ c.open = C.open /\ c.active = C.active /\ c.cpool = C.cpool
    BY <1>1, CloseRequestFrees DEF KeptAlive, SlotRec
  <2> HIDE DEF c, k
  <2>5. OpenSlot(c, k)
    BY <1>1, <2>3, <2>4 DEF OpenSlot, WithRequest
  <2>6. k.inq > 0 => cur \in ready'
    BY <2>2, <2>3 DEF ReadyAfterCtl, Reported, Readable
  <2>7. \A t \in Fd : t # cur /\ t \in ready => t \in ready'
    BY <2>2 DEF ReadyAfterCtl
  <2>8. ~("OUT" \in k.interest)
    BY <2>3
  <2> QED
    BY <1>1, <2>2, <2>5, <2>6, <2>7, <2>8, ReturnSafe
<1> QED
  BY <1>4, <1>5, <1>6, <1>8, <1>9, <1>10 DEF Writer

LEMMA AcceptSafe ==
  ASSUME SafetyInv, TypeInv', Accept
  PROVE  SafetyInv'
<1>1. PICK l \in Fd : /\ l = cur /\ l \in Listeners /\ batch[l] = {}
                      /\ ListenSlot(conn[l], sock[l]) /\ sock[l] \in SockRec
  BY DEF Accept, SafetyInv, TypeInv, TypeOK, KernelTypeOK, PcInv, Stages, SlotInv
<1>2. ASSUME Return, UNCHANGED <<ready, conn>>, At(l)',
             \A t \in Fd : t # l => At(t)'
      PROVE  SafetyInv'
  <2>1. pc' = "loop" /\ cur' = NoFd /\ batch' = batch
    BY <1>1, <1>2 DEF Return
  <2>2. PcInv'
    BY <2>1 DEF PcInv, Stages, AtWork, FaultsExplained
  <2> QED
    BY <1>2, <2>2 DEF SafetyInv, At
<1>3. CASE AcceptNone
  <2>1. Return /\ cur' = NoFd /\ batch' = batch /\ conn' = conn
        /\ sock' = sock /\ ready' = ready
    BY <1>1, <1>3 DEF AcceptNone, Return, kernel
  <2>2. At(l)'
    BY <1>1, <2>1 DEF SafetyInv, At, SlotInv, ListenSlot
  <2>3. ASSUME NEW t \in Fd, t # l
        PROVE  At(t)'
    BY <1>1, <2>1, <2>3, OtherKeeps, ConstantTypes
  <2> QED
    BY <1>2, <2>1, <2>2, <2>3
<1>4. ASSUME NEW s \in Fd, LowestFree(s), K.inq > 0
      PROVE  /\ s # l /\ s \notin Listeners /\ ClosedSlot(conn[s], sock[s]) /\ batch[s] = {}
             /\ FreeSock.interest = {} /\ FreeSock.use = "free"
             /\ NewSock.interest = {} /\ NewSock.use = "sock" /\ NewSock.inq = 0
  BY <1>1, <1>4
     DEF LowestFree, SafetyInv, SlotInv, ListenSlot, ClosedSlot, OpenSlot, FreeSock, NewSock
<1>5. ASSUME NEW s \in Fd, LowestFree(s), K.inq > 0, NEW k, sock' = Accepted(s, k)
      PROVE  /\ sock'[s] = k
             /\ sock'[l].interest = {"IN"} /\ sock'[l].use = "listen"
             /\ \A t \in Fd \ {s, l} : sock'[t] = sock[t]
  BY <1>1, <1>4, <1>5 DEF Accepted, ListenSlot, SafetyInv, TypeInv, TypeOK, KernelTypeOK, SockRec
<1>6. ASSUME NEW s \in Fd, LowestFree(s), K.inq > 0, AcceptOver(s) \/ AcceptNoPool(s)
      PROVE  SafetyInv'
  <2>1. Return /\ cur' = NoFd /\ batch' = batch /\ conn' = conn /\ ready' = ready
    BY <1>1, <1>6 DEF AcceptOver, AcceptNoPool, Return
  <2>2. PICK k : /\ sock' = Accepted(s, k) /\ k.interest = {}
                 /\ k.use = "free" \/ (k.use = "sock" /\ Shortage)
    BY <1>4, <1>6 DEF AcceptOver, AcceptNoPool
  <2>3. At(l)'
    BY <1>1, <1>5, <1>6, <2>1, <2>2 DEF At, SlotInv, ListenSlot
  <2>4. At(s)'
    BY <1>4, <1>5, <1>6, <2>1, <2>2 DEF At, SlotInv, ClosedSlot, Wakeup
  <2>5. ASSUME NEW t \in Fd, t # l, t # s
        PROVE  At(t)'
    BY <1>1, <1>5, <1>6, <2>1, <2>2, <2>5, OtherKeeps, ConstantTypes
  <2> QED
    BY <1>2, <2>1, <2>3, <2>4, <2>5
<1>7. ASSUME NEW s \in Fd, LowestFree(s), K.inq > 0, AcceptNew(s)
      PROVE  SafetyInv'
  <2> DEFINE c == [FreshSlot EXCEPT !.active = TRUE]
  <2>1. /\ pc' = "accept" /\ cur' = l /\ batch' = batch /\ ready' = ready
        /\ conn' = [conn EXCEPT ![s] = c] /\ s < ConnNum
    BY <1>1, <1>7 DEF AcceptNew, Goto
  <2>2. /\ FreshSlot.active = FALSE
        /\ c.open /\ c.active /\ c.cpool = "live" /\ c.rh = "init_connection"
        /\ c.data = "null" /\ c.rpool = "none" /\ c.wh = "null"
    BY DEF FreshSlot, ZeroSlot
  <2>3. PICK k : /\ sock' = Accepted(s, k) /\ k.use = "sock" /\ k.inq = 0
                 /\ k.interest = {"IN"} \/ (k.interest = {} /\ Shortage)
    <3>1. Registers(FreshSlot, NewSock)
      BY <1>4, <1>7, <2>2 DEF Registers
    <3>2. /\ Watch(NewSock, "IN").interest = {"IN"} /\ Watch(NewSock, "IN").use = "sock"
          /\ Watch(NewSock, "IN").inq = 0
      BY DEF Watch, NewSock, FreeSock
    <3> QED
      BY <1>4, <1>7, <3>1, <3>2 DEF AcceptNew
  <2> HIDE DEF c
  <2>4. OpenSlot(c, k)
    BY <2>2, <2>3 DEF OpenSlot, WithRequest
  <2>5. conn'[s] = c /\ \A t \in Fd : t # s => conn'[t] = conn[t]
    BY <2>1 DEF SafetyInv, TypeInv, TypeOK
  <2>6. At(l)'
    BY <1>1, <1>4, <1>5, <1>7, <2>1, <2>3, <2>5 DEF At, SlotInv, ListenSlot
  <2>7. At(s)'
    BY <1>4, <1>5, <1>7, <2>1, <2>3, <2>4, <2>5 DEF At, SlotInv, Wakeup
  <2>8. ASSUME NEW t \in Fd, t # l, t # s
        PROVE  At(t)'
    BY <1>1, <1>5, <1>7, <2>1, <2>3, <2>5, <2>8, OtherKeeps
  <2>9. PcInv'
    BY <1>1, <2>1 DEF PcInv, Stages, AtWork, FaultsExplained
  <2> QED
    BY <2>6, <2>7, <2>8, <2>9 DEF SafetyInv, At
<1> QED
  BY <1>3, <1>6, <1>7 DEF Accept

\* The loop: every edge that epoll_wait takes goes into event_list, and every
\* event of the list goes to its handler.
LEMMA LoopSafe ==
  ASSUME SafetyInv, TypeInv', NEW s \in Fd, EpollWait \/ Dispatch(s)
  PROVE  SafetyInv'
<1>1. CASE EpollWait
  <2>1. /\ pc' = "loop" /\ cur' = NoFd /\ sock' = sock /\ conn' = conn /\ pc = "loop"
        /\ cur = NoFd /\ \A t \in Fd : batch[t] = {}
        /\ batch' = [t \in Fd |-> IF t \in ready THEN Reported(sock[t]) ELSE {}]
    BY <1>1 DEF EpollWait
  <2>2. ASSUME NEW t \in Fd
        PROVE  At(t)'
    <3>1. SlotInv(t, conn[t], sock[t])'
      BY <2>1 DEF SafetyInv, SlotInv, ListenSlot, ClosedSlot, OpenSlot
    <3>2. batch'[t] \subseteq sock'[t].interest
      BY <2>1 DEF Reported
    <3>3. t \notin Listeners => Wakeup(t, conn[t], sock[t])'
      <4>1. ASSUME NEW e \in Reported(sock[t]), t \in ready
            PROVE  batch'[t] # {}
        BY <2>1, <4>1
      <4>2. /\ "IN" \in sock[t].interest /\ sock[t].inq > 0 => "IN" \in Reported(sock[t])
            /\ "OUT" \in sock[t].interest /\ Writable(sock[t]) => "OUT" \in Reported(sock[t])
        BY DEF Reported, Readable
      <4>3. cur # t /\ cur' # t
        BY <2>1, ConstantTypes
      <4>4. t \notin Listeners => Wakeup(t, conn[t], sock[t])
        BY DEF SafetyInv
      <4>5. batch[t] = {}
        BY <2>1
      <4>6. /\ conn'[t] = conn[t] /\ sock'[t] = sock[t]
            /\ Writable(sock'[t]) = Writable(sock[t])
        BY <2>1
      <4> QED
        BY <4>1, <4>2, <4>3, <4>4, <4>5, <4>6 DEF Wakeup, Writable, Reset
    <3> QED
      BY <3>1, <3>2, <3>3 DEF At
  <2>3. PcInv'
    BY <2>1 DEF PcInv, Stages, AtWork, FaultsExplained
  <2> QED
    BY <2>2, <2>3 DEF SafetyInv, At
<1>2. CASE Dispatch(s)
  <2> DEFINE c == conn[s]
             k == sock[s]
  <2>1. /\ pc = "loop" /\ cur = NoFd /\ batch[s] # {} /\ batch[s] \subseteq k.interest
        /\ SlotInv(s, c, k) /\ c \in SlotRec /\ k \in SockRec
        /\ sock' = sock /\ ready' = ready
    BY <1>2 DEF Dispatch, kernel, SafetyInv, TypeInv, TypeOK, KernelTypeOK, PcInv
  <2>2. /\ c.open /\ c.rh # "none"
        /\ \/ k.interest = {"IN"} /\ c.rh # "block"
           \/ k.interest = {"OUT"} /\ c.rh = "block" /\ c.wh = "writer"
    BY <2>1 DEF SlotInv, ListenSlot, ClosedSlot, OpenSlot, WithRequest
  <2>3. batch[s] = k.interest
    BY <2>1, <2>2
  <2> DEFINE p == IF c.rh = "block" THEN "head" ELSE c.rh
             d == [c EXCEPT !.rready = c.rready \/ c.rh # "block"]
  <2>4. /\ batch' = [batch EXCEPT ![s] = {}]
        /\ conn' = [conn EXCEPT ![s] = d]
        /\ pc' = p /\ cur' = s
    <3>1. /\ batch' = [batch EXCEPT ![s] = batch[s] \ {IF "OUT" \in batch[s] THEN "OUT" ELSE "IN"}]
          /\ conn' = [conn EXCEPT ![s].rready =
                         @ \/ (IF "OUT" \in batch[s] THEN "OUT" ELSE "IN") = "IN"]
          /\ pc' = IF "OUT" \in batch[s] THEN OnWrite(c) ELSE OnRead(c)
          /\ cur' = IF pc' = "loop" /\ batch'[s] = {} THEN NoFd ELSE s
      BY <1>2, <2>1, <2>2 DEF Dispatch
    <3>2. CASE k.interest = {"IN"} /\ c.rh # "block"
      <4>1. pc' = c.rh /\ c.rh # "loop"
        BY <2>1, <2>2, <2>3, <3>1, <3>2 DEF OnRead, SlotRec, Readers
      <4>2. ~("OUT" \in batch[s]) /\ batch[s] \ {"IN"} = {}
        BY <2>3, <3>2
      <4> QED
        BY <3>1, <3>2, <4>1, <4>2
    <3>3. CASE k.interest = {"OUT"} /\ c.rh = "block" /\ c.wh = "writer"
      <4>1. "OUT" \in batch[s] /\ batch[s] \ {"OUT"} = {}
        BY <2>3, <3>3
      <4>2. pc' = "head"
        BY <3>1, <3>3, <4>1 DEF OnWrite
      <4> QED
        BY <2>1, <3>1, <3>3, <4>1, <4>2 DEF SlotRec
    <3> QED
      BY <2>2, <3>2, <3>3
  <2>5. /\ d.open = c.open /\ d.active = c.active /\ d.rh = c.rh /\ d.wh = c.wh
        /\ d.data = c.data /\ d.cpool = c.cpool /\ d.rpool = c.rpool
        /\ d.file = c.file /\ d.brest = c.brest
        /\ c.rh # "block" => d.rready
    BY <2>1 DEF SlotRec
  <2>6. /\ p = "accept" <=> s \in Listeners
        /\ p \in AtWork \cup {"accept"} /\ p # "body"
        /\ p \in AtWork => c.rh = HandlerAt[p]
    BY <2>1, <2>2
       DEF SlotInv, ListenSlot, ClosedSlot, OpenSlot, WithRequest, AtWork, HandlerAt
  <2>7. c.rh = "block" => p = "head"
    OBVIOUS
  <2> HIDE DEF d, p
  <2>8. conn'[s] = d /\ batch'[s] = {}
    BY <2>4 DEF SafetyInv, TypeInv, TypeOK
  <2>9. At(s)'
    <3>1. SlotInv(s, conn[s], sock[s])'
      BY <2>1, <2>5, <2>8 DEF SlotInv, ListenSlot, ClosedSlot, OpenSlot
    <3>2. s \notin Listeners => Wakeup(s, conn[s], sock[s])'
      BY <2>1, <2>2, <2>4, <2>5, <2>7, <2>8 DEF Wakeup
    <3> QED
      BY <2>8, <3>1, <3>2 DEF At
  <2>10. ASSUME NEW t \in Fd, t # s
         PROVE  At(t)'
    <3>1. conn'[t] = conn[t] /\ sock'[t] = sock[t] /\ batch'[t] = batch[t]
      BY <2>1, <2>4, <2>10 DEF SafetyInv, TypeInv, TypeOK
    <3>2. SlotInv(t, conn[t], sock[t])' /\ batch'[t] \subseteq sock'[t].interest
      BY <3>1 DEF SafetyInv, SlotInv, ListenSlot, ClosedSlot, OpenSlot
    <3>3. t \notin Listeners => Wakeup(t, conn[t], sock[t])'
      BY <2>1, <3>1, ConstantTypes DEF SafetyInv, Wakeup, Writable, Reset
    <3> QED
      BY <3>2, <3>3 DEF At
  <2>11. PcInv'
    BY <2>1, <2>2, <2>4, <2>5, <2>6, <2>8
       DEF PcInv, Stages, Faults, AtWork, FaultsExplained
  <2> QED
    BY <2>9, <2>10, <2>11 DEF SafetyInv, At
<1> QED
  BY <1>1, <1>2

\* What a client does to a socket comes with the edge that announces it.
LEMMA ClientSafe ==
  ASSUME SafetyInv, TypeInv', Clients
  PROVE  SafetyInv'
<1>1. /\ conn' = conn /\ batch' = batch /\ pc' = pc /\ cur' = cur /\ ~Dead
  BY DEF Clients
<1>2. PICK s \in Fd : Client(s)
  BY DEF Clients
<1>3. sock \in [Fd -> SockRec] /\ sock[s] \in SockRec /\ sock[s].use \in {"sock", "listen"}
  BY <1>2 DEF SafetyInv, TypeInv, TypeOK, KernelTypeOK, Client, Arrive, PeerFin, PeerReset, PeerRead
<1>4. PICK k \in SockRec :
        /\ sock' = [sock EXCEPT ![s] = k]
        /\ k.use = sock[s].use /\ k.interest = sock[s].interest
        /\ sock[s].peer = "finrst" => k.peer = "finrst"
        /\ \A t \in ready : t \in ready'
        /\ "IN" \in k.interest /\ k.inq > 0 => s \in ready' \/ sock[s].inq > 0
        /\ "OUT" \in k.interest /\ Writable(k) => s \in ready' \/ Writable(sock[s])
  <2>1. CASE Arrive(s)
    <3> DEFINE k == [sock[s] EXCEPT !.inq = sock[s].inq + 1]
    <3>1. k \in SockRec /\ sock' = [sock EXCEPT ![s] = k]
      BY <1>3, <2>1 DEF Arrive, SockRec
    <3>2. Writable(k) = Writable(sock[s]) /\ k.interest = sock[s].interest
          /\ k.use = sock[s].use /\ k.peer = sock[s].peer
      BY <1>3 DEF Writable, Reset, SockRec
    <3>3. ("IN" \in sock[s].interest => s \in ready') /\ \A t \in ready : t \in ready'
      BY <2>1 DEF Arrive, Edge
    <3> HIDE DEF k
    <3> QED
      BY <3>1, <3>2, <3>3
  <2>2. CASE PeerFin(s)
    <3> DEFINE k == [sock[s] EXCEPT !.peer = "fin"]
    <3>1. k \in SockRec /\ sock' = [sock EXCEPT ![s] = k]
      BY <1>3, <2>2 DEF PeerFin, SockRec
    <3>2. k.interest = sock[s].interest /\ k.use = sock[s].use /\ sock[s].peer = "up"
      BY <1>3, <2>2 DEF PeerFin, SockRec
    <3>3. /\ sock[s].interest # {} => s \in ready'
          /\ \A t \in ready : t \in ready'
      BY <2>2 DEF PeerFin, EdgeAny
    <3> HIDE DEF k
    <3> QED
      BY <3>1, <3>2, <3>3
  <2>3. CASE PeerReset(s)
    <3> DEFINE k == [sock[s] EXCEPT !.peer = IF sock[s].peer = "up" THEN "rst" ELSE "finrst"]
    <3>1. k \in SockRec /\ sock' = [sock EXCEPT ![s] = k]
      BY <1>3, <2>3 DEF PeerReset, SockRec
    <3>2. k.interest = sock[s].interest /\ k.use = sock[s].use /\ sock[s].peer # "finrst"
      BY <1>3, <2>3 DEF PeerReset, Reset, SockRec
    <3>3. /\ sock[s].interest # {} => s \in ready'
          /\ \A t \in ready : t \in ready'
      BY <2>3 DEF PeerReset, EdgeAny
    <3> HIDE DEF k
    <3> QED
      BY <3>1, <3>2, <3>3
  <2>4. CASE PeerRead(s)
    <3> DEFINE k == [sock[s] EXCEPT !.room = sock[s].room + 1]
    <3>1. k \in SockRec /\ sock' = [sock EXCEPT ![s] = k]
      BY <1>3, <2>4, ConstantTypes DEF PeerRead, SockRec
    <3>2. k.interest = sock[s].interest /\ k.use = sock[s].use /\ k.peer = sock[s].peer
          /\ k.inq = sock[s].inq
      BY <1>3 DEF SockRec
    <3>3. ("OUT" \in sock[s].interest => s \in ready') /\ \A t \in ready : t \in ready'
      BY <2>4 DEF PeerRead, Edge
    <3> HIDE DEF k
    <3> QED
      BY <3>1, <3>2, <3>3
  <2> QED
    BY <1>2, <2>1, <2>2, <2>3, <2>4 DEF Client
<1>5. sock'[s] = k /\ \A t \in Fd : t # s => sock'[t] = sock[t]
  BY <1>3, <1>4
<1>6. At(s)'
  <2>1. SlotInv(s, conn[s], sock[s])' /\ batch'[s] \subseteq sock'[s].interest
    BY <1>1, <1>4, <1>5 DEF SafetyInv, SlotInv, ListenSlot, ClosedSlot, OpenSlot
  <2>2. s \notin Listeners => Wakeup(s, conn[s], sock[s])'
    <3>1. s \notin Listeners => Wakeup(s, conn[s], sock[s])
      BY DEF SafetyInv
    <3>2. Dead' = Dead /\ Writable(sock[s])' = Writable(k)
      BY <1>1, <1>5 DEF Dead, Writable, Reset
    <3>3. s \in ready => s \in ready'
      BY <1>4
    <3> QED
      BY <1>1, <1>4, <1>5, <3>1, <3>2, <3>3 DEF Wakeup
  <2> QED
    BY <2>1, <2>2 DEF At
<1>7. ASSUME NEW t \in Fd, t # s
      PROVE  At(t)'
  <2>1. conn'[t] = conn[t] /\ sock'[t] = sock[t] /\ (t \in ready => t \in ready')
    BY <1>1, <1>4, <1>5, <1>7
  <2>2. SlotInv(t, conn[t], sock[t])' /\ batch'[t] \subseteq sock'[t].interest
    BY <1>1, <2>1 DEF SafetyInv, SlotInv, ListenSlot, ClosedSlot, OpenSlot
  <2>3. t \notin Listeners => Wakeup(t, conn[t], sock[t])'
    BY <1>1, <2>1 DEF SafetyInv, Wakeup, Writable, Reset, Dead
  <2> QED
    BY <2>2, <2>3 DEF At
<1>8. PcInv'
  <2>1. pc \in Stages => cur \in Fd
    BY DEF SafetyInv, TypeInv
  <2>2. \A t \in Fd : /\ sock'[t].interest = sock[t].interest
                      /\ sock[t].peer = "finrst" => sock'[t].peer = "finrst"
    BY <1>4, <1>5
  <2>3. AtWork \subseteq Stages
    BY DEF AtWork, Stages
  <2>4. FaultsExplained'
    BY <1>1 DEF FaultsExplained, Dead, Faults
  <2>5. pc \in AtWork => sock'[cur].interest # {}
    BY <2>1, <2>2, <2>3 DEF SafetyInv, PcInv
  <2> QED
    BY <1>1, <2>4, <2>5 DEF SafetyInv, PcInv
<1> QED
  BY <1>6, <1>7, <1>8 DEF SafetyInv, At

LEMMA StepSafe == SafetyInv /\ [Next]_vars => SafetyInv'
<1> SUFFICES ASSUME SafetyInv, [Next]_vars PROVE SafetyInv'
  OBVIOUS
<1>1. TypeInv'
  BY StepType DEF SafetyInv
<1>2. CASE UNCHANGED vars
  <2>1. \A t \in Fd : At(t)'
    BY <1>2 DEF vars, SafetyInv, At, SlotInv, ListenSlot, ClosedSlot, OpenSlot, Wakeup,
                Writable, Reset, Dead
  <2>2. /\ sock' = sock /\ ready' = ready /\ conn' = conn /\ batch' = batch
        /\ pc' = pc /\ cur' = cur
    BY <1>2 DEF vars
  <2>3. PcInv'
    BY <2>2 DEF SafetyInv, PcInv, FaultsExplained
  <2> QED
    BY <1>1, <2>1, <2>3 DEF SafetyInv, At
<1>3. CASE Server
  <2>1. CASE EpollWait \/ \E s \in Fd : Dispatch(s)
    <3>1. 0 \in Fd
      BY KernelAssumption DEF KernelAssumption, Fd
    <3> QED
      BY <1>1, <2>1, <3>1, LoopSafe
  <2> QED
    BY <1>1, <1>3, <2>1, AcceptSafe, InitRequestSafe, RequestSafe, RespondSafe, WriterSafe
       DEF Server
<1> QED
  BY <1>1, <1>2, <1>3, ClientSafe, RespondSafe DEF Next, Terminated

LEMMA Safe == Spec => []SafetyInv
BY InitSafe, StepSafe, PTL DEF Spec

\* Every open connection is registered with epoll for exactly the direction its
\* handlers wait for, in every reachable state of the accept handler, the
\* request handlers and the writer.
THEOREM WatchesCorrectly == Spec => []WatchesWhatItWaitsFor
<1>1. SafetyInv => WatchesWhatItWaitsFor
  BY DEF SafetyInv, SlotInv, ClosedSlot, OpenSlot, WatchesWhatItWaitsFor, IsConn
<1> QED
  BY <1>1, Safe, PTL

\* No entry of event_list is stale when ehd_event_epoll_process gets to it.
THEOREM BatchStaysCurrent == Spec => []BatchIsCurrent
<1>1. SafetyInv => BatchIsCurrent
  BY DEF SafetyInv, SlotInv, ListenSlot, ClosedSlot, OpenSlot, BatchIsCurrent
<1> QED
  BY <1>1, Safe, PTL

\* Every handler works on a live connection and a live request, but one: the
\* header handler, behind the end of the stream (ehd_http_request.c:314-318), and
\* that one finds both closed.
THEOREM OnlyEofUsesClosedMemory == Spec => []UseAfterCloseOnlyAtEof
<1>1. SafetyInv => UseAfterCloseOnlyAtEof
  <2> SUFFICES ASSUME SafetyInv PROVE UseAfterCloseOnlyAtEof
    OBVIOUS
  <2>1. CASE pc \in AtWork
    <3>1. /\ cur \notin Listeners /\ OpenSlot(conn[cur], sock[cur])
          /\ conn[cur].rh = HandlerAt[pc]
      BY <2>1, AtWorkSlot DEF C, K
    <3>2. /\ pc \in {"init_connection", "init_request"} => conn[cur].rh \notin WithRequest
          /\ pc \in {"request_line", "headers", "respond", "blocked", "head", "body"} =>
               conn[cur].rh \in WithRequest
          /\ pc # "headers_error"
      BY <2>1, <3>1 DEF HandlerAt, AtWork, WithRequest
    <3> QED
      BY <3>1, <3>2 DEF UseAfterCloseOnlyAtEof, OpenSlot, IsConn
  <2>2. CASE pc \notin AtWork
    <3>1. pc = "headers_error" =>
            /\ ~conn[cur].open /\ conn[cur].cpool = "freed" /\ conn[cur].rpool = "freed"
            /\ conn[cur].data = "null" /\ conn[cur].rh = "headers"
      BY DEF SafetyInv, PcInv
    <3> QED
      BY <2>2, <3>1 DEF AtWork, UseAfterCloseOnlyAtEof
  <2> QED
    BY <2>1, <2>2
<1> QED
  BY <1>1, Safe, PTL

\* Between events the handlers of a connection, c->data and the pool of its
\* request agree, so the next event finds what its handler expects.
THEOREM HandlersFitData == Spec => []DataFitsHandler
<1>1. SafetyInv => DataFitsHandler
  BY DEF SafetyInv, SlotInv, ClosedSlot, OpenSlot, WithRequest, DataFitsHandler, IsConn
<1> QED
  BY <1>1, Safe, PTL

\* ehd_close_connection and ehd_http_close_request give everything back: a
\* closed slot has no pool and no registered socket, and an accepted socket
\* has a slot unless memory ran out.
THEOREM ClosingFreesAll == Spec => []NothingLeaksOnClose
<1>1. SafetyInv => NothingLeaksOnClose
  BY DEF SafetyInv, SlotInv, ClosedSlot, OpenSlot, NothingLeaksOnClose
<1> QED
  BY <1>1, Safe, PTL

\* With edge-triggered epoll no connection sleeps on data or on buffer space
\* that nobody will announce any more, for every number of connections, size
\* of the buffers and order of events.
THEOREM WakeupsAreNotLost == Spec => []NoLostWakeup
<1>1. SafetyInv => NoLostWakeup
  BY DEF SafetyInv, Wakeup, NoLostWakeup, IsConn
<1> QED
  BY <1>1, Safe, PTL

\* The process dies in three ways only: of the second close in the header
\* handler, of SIGPIPE in the writer, and of an unchecked allocation.
THEOREM OnlyKnownFaults == Spec => []FaultsExplained
<1>1. SafetyInv => FaultsExplained
  BY DEF SafetyInv, PcInv
<1> QED
  BY <1>1, Safe, PTL

\* A connection that is being written to is closed by the writer only, and by
\* it only when it came to an empty buffer, or to a file that gave nothing.
LEMMA WriterCloses ==
  ASSUME SafetyInv, [Next]_vars, NEW s \in Fd, IsConn(s), conn[s].wh = "writer",
         ~conn'[s].open, ~Reset(sock[s])
  PROVE  conn[s].hrest = 0 /\ (pc = "head" \/ conn[s].file)
<1>1. /\ conn[s].open /\ s \notin Listeners /\ OpenSlot(conn[s], sock[s])
      /\ conn[s].rh = "block" /\ sock[s].use = "sock"
      /\ conn \in [Fd -> SlotRec] /\ conn[s] \in SlotRec
  BY DEF IsConn, SafetyInv, TypeInv, TypeOK, SlotInv, ClosedSlot, OpenSlot
<1>2. ~UNCHANGED conn
  BY <1>1
<1>3. CASE Writer
  <2>1. pc \in {"head", "body"} /\ cur \in Fd /\ C \in SlotRec /\ Registers(C, K)
    BY <1>3, AtWorkSlot DEF Writer, AtWork, Registers, OpenSlot
  <2>2. CASE s # cur
    <3>1. ASSUME NEW c, conn' = [conn EXCEPT ![cur] = c]
          PROVE  FALSE
      BY <1>1, <2>1, <2>2, <3>1
    <3>2. CASE WriteEnds
      BY <1>2, <3>1, <3>2 DEF WriteEnds, CloseBoth, Crash, CloseConnection
    <3>3. CASE WriteHead \/ WriteBody
      BY <3>1, <3>3 DEF WriteHead, WriteBody
    <3>4. CASE WriteLast
      BY <2>1, <3>1, <3>4 DEF WriteLast
    <3> QED
      BY <1>2, <1>3, <3>2, <3>3, <3>4 DEF Writer, WriteBroken, WriteLater, Crash
  <2>3. CASE s = cur
    <3>1. CASE WriteEnds
      <4>1. Rest = 0 \/ InFile
        BY <2>3, <3>1 DEF WriteEnds, Reset, K
      <4>2. pc = "body" => conn[s].hrest = 0
        BY <2>3 DEF SafetyInv, PcInv
      <4>3. ~conn[s].file => conn[s].brest > 0
        BY <1>1 DEF OpenSlot
      <4>4. conn[s].file \in BOOLEAN /\ conn[s].brest \in Nat
        BY <1>1 DEF SlotRec
      <4> QED
        BY <2>1, <2>3, <4>1, <4>2, <4>3, <4>4 DEF Rest, InFile, C
    <3>2. CASE WriteHead \/ WriteBody
      BY <1>1, <2>3, <3>2 DEF WriteHead, WriteBody, SlotRec
    <3>3. CASE WriteLast
      <4>1. conn'[s] = KeptAlive(C)
        BY <1>1, <2>1, <2>3, <3>3 DEF WriteLast
      <4>2. KeptAlive(C).open = C.open
        BY <2>1, CloseRequestFrees DEF KeptAlive, SlotRec
      <4> QED
        BY <1>1, <2>3, <4>1, <4>2 DEF C
    <3> QED
      BY <1>2, <1>3, <3>1, <3>2, <3>3 DEF Writer, WriteBroken, WriteLater, Crash
  <2> QED
    BY <2>2, <2>3
<1>4. CASE InitConnection \/ InitRequest \/ ProcessRequestLine \/ ProcessHeaders
  <2>1. cur \in Fd /\ C.rh # "block"
    BY <1>4, AtWorkSlot
       DEF InitConnection, InitRequest, ProcessRequestLine, ProcessHeaders, AtWork, HandlerAt
  <2>2. s # cur
    BY <1>1, <2>1 DEF C
  <2>3. ASSUME NEW c, conn' = [conn EXCEPT ![cur] = c]
        PROVE  FALSE
    BY <1>1, <2>1, <2>2, <2>3
  <2>4. CASE CloseBoth \/ \E c : CloseConnection(c)
    BY <1>2, <2>3, <2>4 DEF CloseBoth, Crash, CloseConnection
  <2>5. CASE InitConnection \/ InitRequest
    BY <1>1, <2>2, <2>4, <2>5 DEF InitConnection, InitRequest, CloseConnection
  <2>6. CASE ProcessRequestLine \/ ProcessHeaders
    <3>1. CASE ReadLater \/ ParseAgain
      BY <1>1, <2>2, <3>1 DEF ReadLater, ParseAgain
    <3>2. ASSUME NEW c, NEW p, ParseDone(c, p)
          PROVE  FALSE
      BY <1>1, <2>2, <3>2 DEF ParseDone
    <3> QED
      BY <2>4, <2>6, <3>1, <3>2
         DEF ProcessRequestLine, ProcessHeaders, BufferFull, LineEof, ParseError
  <2> QED
    BY <1>4, <2>5, <2>6
<1>5. CASE HeadersError
  <2>1. C.rpool = "freed"
    BY <1>5 DEF HeadersError, SafetyInv, PcInv, C
  <2> QED
    BY <1>2, <1>5, <2>1 DEF HeadersError, CloseBoth, Crash
<1>6. CASE Accept
  <2>1. ASSUME NEW t \in Fd, LowestFree(t), AcceptNew(t)
        PROVE  FALSE
    <3>1. t # s
      BY <1>1, <2>1 DEF LowestFree
    <3> QED
      BY <1>1, <2>1, <3>1 DEF AcceptNew
  <2> QED
    BY <1>2, <1>6, <2>1 DEF Accept, AcceptNone, AcceptOver, AcceptNoPool
<1>7. CASE Respond \/ WriterComes
  <2>1. ASSUME NEW n, NEW file, NEW table, StartWriter(n, file, table)
        PROVE  FALSE
    BY <1>1, <2>1 DEF StartWriter, SlotRec
  <2> QED
    BY <1>2, <1>7, <2>1 DEF Respond, WriterComes, ServeFile, Crash
<1>8. CASE EpollWait \/ \E t \in Fd : Dispatch(t)
  <2>1. ASSUME NEW t \in Fd, Dispatch(t)
        PROVE  FALSE
    BY <1>1, <2>1 DEF Dispatch, SlotRec
  <2> QED
    BY <1>2, <1>8, <2>1 DEF EpollWait
<1>9. CASE Clients \/ Terminated \/ UNCHANGED vars
  BY <1>2, <1>9 DEF Clients, Terminated, vars
<1> QED
  BY <1>3, <1>4, <1>5, <1>6, <1>7, <1>8, <1>9 DEF Next, Server

\* Where the server cuts the response of a client that is still there: behind
\* the header, when the writer was resumed and started again from the empty
\* first buffer, or when sendfile gave no more of a file.
THEOREM CutsAreExplained == Spec => CutsExplained
<1> DEFINE Cut == \A s \in Fd :
              IsConn(s) /\ conn[s].wh = "writer" /\ ~conn'[s].open /\ ~Reset(sock[s])
              => conn[s].hrest = 0 /\ (pc = "head" \/ conn[s].file)
<1>1. SafetyInv /\ [Next]_vars => [Cut]_vars
  BY WriterCloses
<1> QED
  BY <1>1, Safe, PTL DEF Spec, CutsExplained
-----------------------------------------------------------------------------
(***************************************************************************)
(* How long a handler can run.                                             *)
(***************************************************************************)
\* Handlers that call one another, the later ones lower.
Stage(p) == CASE p = "init_connection" -> 8
              [] p = "init_request" -> 7
              [] p = "request_line" -> 6
              [] p = "headers" -> 5
              [] p = "respond" -> 4
              [] p = "blocked" -> 3
              [] p = "head" -> 2
              [] OTHER -> 1

\* What the loop of a handler uses up: free descriptors, the room behind pos in
\* the buffer, the bytes of the response buffer it is at.
FreeFds == {s \in Fd : sock[s].use = "free"}
Left == CASE pc = "accept" -> Cardinality(FreeFds)
          [] pc \in {"request_line", "headers"} -> BufSize - C.pos
          [] pc = "head" -> C.hrest
          [] pc = "body" -> C.brest
          [] OTHER -> 0

GoesOn ==
  /\ pc' \in Stages /\ cur' = cur
  /\ \/ Stage(pc') < Stage(pc)
     \/ pc' = pc /\ Left' < Left
Ends == pc' = "loop" \/ Dead'
Waits == UNCHANGED <<pc, cur>> /\ Left' = Left
HandlerAdvances == pc \in Stages => GoesOn \/ Ends \/ (Clients /\ Waits)

LEMMA FewFreeFds == IsFiniteSet(FreeFds) /\ Cardinality(FreeFds) \in Nat
<1>1. MaxFd \in Int /\ 0 \in Int
  BY KernelAssumption DEF KernelAssumption
<1>2. IsFiniteSet(Fd)
  BY <1>1, FS_Interval DEF Fd
<1>3. FreeFds \subseteq Fd
  BY DEF FreeFds
<1> QED
  BY <1>2, <1>3, FS_Subset, FS_CardinalityType

LEMMA LeftIsNat == TypeInv /\ pc \in Stages => Left \in Nat
<1> SUFFICES ASSUME TypeInv, pc \in Stages PROVE Left \in Nat
  OBVIOUS
<1>1. C \in SlotRec
  BY DEF TypeInv, TypeOK, C
<1>2. /\ C.hrest \in Nat /\ C.brest \in Nat /\ C.pos \in 0..BufSize
  BY <1>1 DEF SlotRec
<1>3. BufSize - C.pos \in Nat
  BY <1>2, ConstantTypes
<1> QED
  BY <1>2, <1>3, FewFreeFds DEF Left

LEMMA CloseBothEnds == CloseBoth => Ends
BY DEF CloseBoth, Crash, Goto, Return, Ends, Dead, Faults

\* An accepted connection takes a descriptor that was free.
LEMMA AcceptGoesOn ==
  ASSUME TypeInv, Accept
  PROVE  GoesOn \/ Ends
<1>1. CASE Return
  BY <1>1 DEF Return, Ends
<1>2. ASSUME NEW s \in Fd, LowestFree(s), AcceptNew(s)
      PROVE  GoesOn
  <2>1. pc = "accept" /\ pc' = "accept" /\ cur' = cur
    BY <1>2 DEF AcceptNew, Goto, Accept
  <2>2. PICK k : k.use = "sock" /\ sock' = Accepted(s, k)
    BY <1>2 DEF AcceptNew, Watch, NewSock, FreeSock
  <2>3. FreeFds' = FreeFds \ {s} /\ s \in FreeFds
    <3>1. \A t \in Fd : sock'[t].use = IF t = s THEN "sock" ELSE sock[t].use
      BY <2>2 DEF Accepted, TypeInv, TypeOK, KernelTypeOK, SockRec
    <3>2. sock[s].use = "free"
      BY <1>2 DEF LowestFree
    <3> QED
      BY <3>1, <3>2 DEF FreeFds
  <2>4. Cardinality(FreeFds') = Cardinality(FreeFds) - 1
    BY <2>3, FewFreeFds, FS_RemoveElement
  <2>5. Left' = Cardinality(FreeFds') /\ Left = Cardinality(FreeFds)
    BY <2>1 DEF Left
  <2>6. Left' < Left
    BY <2>4, <2>5, FewFreeFds
  <2> QED
    BY <2>1, <2>6 DEF GoesOn, Stages
<1> QED
  BY <1>1, <1>2 DEF Accept, AcceptNone, AcceptOver, AcceptNoPool

\* A parser that has not finished has used up what it was given, which is
\* something.
LEMMA ParseGoesOn ==
  ASSUME TypeInv, pc \in {"request_line", "headers"}, ParseAgain
  PROVE  GoesOn
<1>1. /\ MayParse /\ pc' = pc /\ cur' = cur
      /\ conn' = [conn EXCEPT ![cur] = [Filled EXCEPT !.pos = Filled.last]]
  BY DEF ParseAgain, Goto
<1>2. cur \in Fd /\ C \in SlotRec /\ K \in SockRec /\ SlotOK(Filled)
  BY <1>1, FilledType DEF TypeInv, TypeOK, KernelTypeOK, Stages, C, K
<1>3. C' = [Filled EXCEPT !.pos = Filled.last]
  BY <1>1, <1>2 DEF TypeInv, TypeOK, C
<1>4. C'.pos = Filled.last
  BY <1>2, <1>3 DEF SlotOK, SlotRec
<1>5. Filled.last > C.pos
  <2>1. CASE Buffered
    BY <2>1 DEF Buffered, Filled
  <2>2. CASE ~Buffered
    <3>1. Filled.last = C.last + Got
      BY <1>2, <2>2 DEF Filled, Received, SlotRec
    <3>2. Got > 0 /\ Got \in Int
      BY <1>1, <1>2, <2>2, ConstantTypes DEF MayParse, Got, Space, Least, SlotRec, SockRec
    <3>3. C.pos <= C.last /\ C.pos \in Int /\ C.last \in Int
      BY <1>2 DEF TypeInv, C, SlotRec
    <3> QED
      BY <3>1, <3>2, <3>3
  <2> QED
    BY <2>1, <2>2
<1>6. Left = BufSize - C.pos /\ Left' = BufSize - C'.pos
  BY <1>1 DEF Left
<1>7. C.pos \in Int /\ Filled.last \in Int /\ BufSize \in Int
  BY <1>2, ConstantTypes DEF SlotOK, SlotRec
<1>8. Left' < Left
  BY <1>4, <1>5, <1>6, <1>7
<1> QED
  BY <1>1, <1>8 DEF GoesOn, Stages

LEMMA RequestGoesOn ==
  ASSUME TypeInv, InitConnection \/ InitRequest \/ ProcessRequestLine
                  \/ ProcessHeaders \/ HeadersError \/ Respond \/ WriterComes
  PROVE  GoesOn \/ Ends
<1>1. CASE InitConnection
  BY <1>1 DEF InitConnection, Goto, Return, GoesOn, Ends, Stage, Stages
<1>2. CASE InitRequest
  BY <1>2 DEF InitRequest, Goto, Return, GoesOn, Ends, Stage, Stages
<1>3. CASE ProcessRequestLine
  <2>1. pc = "request_line"
    BY <1>3 DEF ProcessRequestLine
  <2>2. CASE ReadLater
    BY <2>2 DEF ReadLater, Return, Ends
  <2>3. CASE ParseDone([Filled EXCEPT !.rh = "headers"], "headers")
    BY <2>1, <2>3 DEF ParseDone, Goto, GoesOn, Stage, Stages
  <2> QED
    BY <1>3, <2>1, <2>2, <2>3, ParseGoesOn, CloseBothEnds
       DEF ProcessRequestLine, BufferFull, LineEof, ParseError
<1>4. CASE ProcessHeaders
  <2>1. pc = "headers"
    BY <1>4 DEF ProcessHeaders
  <2>2. CASE ReadLater
    BY <2>2 DEF ReadLater, Return, Ends
  <2>3. CASE Goto("headers_error")
    BY <2>1, <2>3 DEF Goto, GoesOn, Stage, Stages
  <2>4. CASE ParseDone(Filled, "respond")
    BY <2>1, <2>4 DEF ParseDone, Goto, GoesOn, Stage, Stages
  <2> QED
    BY <1>4, <2>1, <2>2, <2>3, <2>4, ParseGoesOn, CloseBothEnds
       DEF ProcessHeaders, BufferFull, ParseError
<1>5. CASE HeadersError
  BY <1>5, CloseBothEnds DEF HeadersError
<1>6. CASE Respond \/ WriterComes
  <2>1. \/ pc = "respond" /\ (Goto("head") \/ Goto("null") \/ Goto("blocked"))
        \/ pc = "blocked" /\ (Goto("head") \/ Goto("null"))
    BY <1>6 DEF Respond, WriterComes, ServeFile, StartWriter, Crash
  <2> QED
    BY <2>1 DEF Goto, GoesOn, Ends, Dead, Faults, Stage, Stages
<1> QED
  BY <1>1, <1>2, <1>3, <1>4, <1>5, <1>6

\* A write that is taken leaves fewer bytes in the buffer it came from.
LEMMA WriterGoesOn ==
  ASSUME TypeInv, Writer
  PROVE  GoesOn \/ Ends
<1>1. pc \in {"head", "body"} /\ cur \in Fd /\ C \in SlotRec /\ K \in SockRec
  BY DEF Writer, TypeInv, TypeOK, KernelTypeOK, Stages, C, K
<1>2. Rest \in Nat /\ Sent \in Nat
  BY <1>1, SentType
<1>3. Rest > 0 /\ K.room > 0 => Sent > 0
  BY <1>1, <1>2 DEF Sent, Least, SockRec
<1>4. CASE WriteBroken
  BY <1>4 DEF WriteBroken, Crash, Goto, Ends, Dead, Faults
<1>5. CASE WriteEnds
  BY <1>5, CloseBothEnds DEF WriteEnds
<1>6. CASE WriteLater \/ WriteLast
  BY <1>6 DEF WriteLater, WriteLast, Return, Ends
<1>7. CASE WriteHead
  <2>1. pc = "head" /\ cur' = cur /\ C'.hrest = C.hrest - Sent /\ Sent > 0
        /\ (pc' = "head" \/ pc' = "body")
    BY <1>1, <1>3, <1>7 DEF WriteHead, Goto, C, TypeInv, TypeOK, SlotRec
  <2>2. pc' = "head" => Left' = C.hrest - Sent /\ Left = C.hrest
    BY <2>1 DEF Left
  <2>3. C.hrest \in Nat
    BY <1>1 DEF SlotRec
  <2>4. pc' = "head" => Left' < Left
    BY <1>2, <2>1, <2>2, <2>3
  <2> QED
    BY <2>1, <2>4 DEF GoesOn, Stage, Stages
<1>8. CASE WriteBody
  <2>1. PICK n \in Transfers :
          /\ pc = "body" /\ pc' = "body" /\ cur' = cur /\ C'.brest = C.brest - n
          /\ Rest = C.brest /\ n < Rest
    BY <1>1, <1>8 DEF WriteBody, Goto, C, Rest, TypeInv, TypeOK, SlotRec
  <2>2. n \in Nat /\ n > 0
    <3>1. n \in Nat
      BY <1>1, SentType
    <3>2. Rest > 0 /\ K.room > 0
      BY <1>2, <1>8, <2>1, <3>1 DEF WriteBody
    <3> QED
      BY <1>2, <1>3, <3>1, <3>2 DEF Transfers
  <2>3. Left' = C.brest - n /\ Left = C.brest
    BY <2>1 DEF Left
  <2>4. Left' < Left
    BY <1>2, <2>1, <2>2, <2>3
  <2> QED
    BY <2>1, <2>4 DEF GoesOn, Stages
<1> QED
  BY <1>4, <1>5, <1>6, <1>7, <1>8 DEF Writer

\* The clients can neither lengthen the work of a handler nor shorten it.
LEMMA ClientsWait ==
  ASSUME TypeInv, Clients
  PROVE  Waits
<1>1. UNCHANGED <<conn, pc, cur>>
  BY DEF Clients
<1>2. PICK s \in Fd : Client(s)
  BY DEF Clients
<1>3. \A t \in Fd : sock'[t].use = sock[t].use
  BY <1>2 DEF Client, Arrive, PeerFin, PeerReset, PeerRead,
              TypeInv, TypeOK, KernelTypeOK, SockRec
<1>4. FreeFds' = FreeFds
  BY <1>3 DEF FreeFds
<1> QED
  BY <1>1, <1>4 DEF Waits, Left, C

LEMMA HandlerStep ==
  ASSUME TypeInv, pc \in Stages, Next
  PROVE  GoesOn \/ Ends \/ (Clients /\ Waits)
<1>1. CASE Accept
  BY <1>1, AcceptGoesOn
<1>2. CASE InitConnection \/ InitRequest \/ ProcessRequestLine \/ ProcessHeaders
           \/ HeadersError \/ Respond \/ WriterComes
  BY <1>2, RequestGoesOn
<1>3. CASE Writer
  BY <1>3, WriterGoesOn
<1>4. CASE Clients
  BY <1>4, ClientsWait
<1>5. ~EpollWait /\ ~(\E s \in Fd : Dispatch(s)) /\ ~Terminated
  BY DEF EpollWait, Dispatch, Terminated, Dead, Stages, Faults
<1> QED
  BY <1>1, <1>2, <1>3, <1>4, <1>5 DEF Next, Server

\* The safety part of HandlersReturn: whatever the clients do, every step of a
\* handler returns to the event loop, ends the process, calls a handler further
\* on, or leaves less of the free descriptors, of the room in the buffer or of
\* the response to work through; and what is left is a natural number, which no
\* client changes.  (In the open() of a FIFO that step is not the server's.)
THEOREM HandlersAdvance ==
  Spec => /\ [](pc \in Stages => Left \in Nat)
          /\ [][HandlerAdvances]_vars
<1>1. TypeInv => (pc \in Stages => Left \in Nat)
  BY LeftIsNat
<1>2. TypeInv /\ [Next]_vars => [HandlerAdvances]_vars
  BY HandlerStep DEF HandlerAdvances
<1> QED
  BY <1>1, <1>2, InitType, StepType, PTL DEF Spec
=============================================================================
