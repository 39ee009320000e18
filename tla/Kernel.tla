------------------------------- MODULE Kernel -------------------------------
(***************************************************************************)
(* The part of the operating system that ehttpd drives: descriptors, TCP   *)
(* sockets and one edge-triggered epoll instance.  None of this code is in *)
(* src/; it is modelled from the calls src/ makes (accept4, recv, send,    *)
(* sendfile, epoll_ctl, epoll_wait, close) and what each may answer.       *)
(* Payload bytes are counted, never looked at.                             *)
(***************************************************************************)
EXTENDS Integers

CONSTANTS
  MaxFd,      \* descriptors are 0..MaxFd (RLIMIT_NOFILE)
  Listeners,  \* the descriptors of the listening sockets
  Backlog,    \* connections a listener can hold until they are accepted
  InBound,    \* receive window of a connection
  SndBuf      \* capacity of a socket's send buffer

Fd == 0..MaxFd
Events == {"IN", "OUT"}              \* EPOLLIN, EPOLLOUT

ASSUME KernelAssumption ==
  /\ MaxFd \in Nat
  /\ Listeners \subseteq Fd
  /\ Backlog \in Nat \ {0} /\ InBound \in Nat \ {0}
  /\ SndBuf \in Nat \ {0}

VARIABLES
  sock,   \* the descriptor table: what each descriptor is, and its socket
  ready   \* the epoll ready list: descriptors with an edge not yet reported

(***************************************************************************)
(* peer: "fin" after the client's FIN, "rst" after a reset of an           *)
(* established connection, "finrst" after a reset that follows a FIN (the  *)
(* pending error is then EPIPE).  inq counts unread bytes of a connection, *)
(* or connections waiting in the backlog of a listener.  interest = {}     *)
(* means the descriptor is not registered with epoll.                      *)
(***************************************************************************)
SockRec == [ use      : {"free", "listen", "sock", "file"},
             peer     : {"up", "fin", "rst", "finrst"},
             inq      : Nat,
             room     : 0..SndBuf,
             interest : SUBSET Events ]

FreeSock == [use |-> "free", peer |-> "up", inq |-> 0, room |-> SndBuf,
             interest |-> {}]
NewSock == [FreeSock EXCEPT !.use = "sock"]
FileSock == [FreeSock EXCEPT !.use = "file"]

KernelTypeOK == sock \in [Fd -> SockRec] /\ ready \subseteq Fd

\* A new descriptor is always the lowest free one.
LowestFree(s) == /\ sock[s].use = "free"
                 /\ \A t \in Fd : sock[t].use = "free" => s <= t
NoFreeFd == \A s \in Fd : sock[s].use # "free"

Reset(k) == k.peer \in {"rst", "finrst"}
Readable(k) == k.inq > 0 \/ k.peer # "up"
Writable(k) == k.room > 0 \/ Reset(k)

\* What epoll_wait would report of socket k: the requested events that hold.
Reported(k) == {e \in k.interest : \/ e = "IN" /\ Readable(k)
                                   \/ e = "OUT" /\ Writable(k)}

(***************************************************************************)
(* epoll_ctl(ADD or MOD) replaces the set of requested events and looks at *)
(* the socket at once: if it is ready, that counts as a new edge.          *)
(***************************************************************************)
Watch(k, e) == [k EXCEPT !.interest = {e}]
ReadyAfterCtl(s, k) == IF Reported(k) # {} THEN ready \cup {s} ELSE ready

-----------------------------------------------------------------------------
(***************************************************************************)
(* The clients.                                                            *)
(***************************************************************************)
Edge(s, e) == ready' = IF e \in sock[s].interest THEN ready \cup {s} ELSE ready
EdgeAny(s) == ready' = IF sock[s].interest # {} THEN ready \cup {s} ELSE ready

\* A byte arrives on a connection, or a connection request at a listener.
\* A full window or backlog turns it away.
Arrive(s) ==
  /\ sock[s].peer = "up"
  /\ \/ sock[s].use = "sock" /\ sock[s].inq < InBound
     \/ sock[s].use = "listen" /\ sock[s].inq < Backlog
  /\ sock' = [sock EXCEPT ![s].inq = @ + 1]
  /\ Edge(s, "IN")

\* The client closes its side of the connection.
PeerFin(s) ==
  /\ sock[s].use = "sock" /\ sock[s].peer = "up"
  /\ sock' = [sock EXCEPT ![s].peer = "fin"]
  /\ EdgeAny(s)

\* The connection is reset (the client aborts, or answers data with a RST).
PeerReset(s) ==
  /\ sock[s].use = "sock" /\ ~Reset(sock[s])
  /\ sock' = [sock EXCEPT ![s].peer = IF @ = "up" THEN "rst" ELSE "finrst"]
  /\ EdgeAny(s)

\* The client reads, which frees a unit of the send buffer.
PeerRead(s) ==
  /\ sock[s].use = "sock" /\ ~Reset(sock[s])
  /\ sock[s].room < SndBuf
  /\ sock' = [sock EXCEPT ![s].room = @ + 1]
  /\ Edge(s, "OUT")

Client(s) == Arrive(s) \/ PeerFin(s) \/ PeerReset(s) \/ PeerRead(s)
=============================================================================
