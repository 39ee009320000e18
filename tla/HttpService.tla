---------------------------- MODULE HttpService -----------------------------
(***************************************************************************)
(* What ehttpd promises to the client at the other end of a connection,    *)
(* without sockets, buffers, handlers or events.  Each connection is a     *)
(* state of its own: the bytes a client has sent wait until the service    *)
(* takes them, a request that has been read is answered once, a response   *)
(* is a whole header and then a whole page, and what the client has sent   *)
(* behind its request is still there when the response is out.             *)
(*                                                                         *)
(* The service promises no answer: it may close any connection at any      *)
(* time, and it may die.  EhdServer implements it (ImplementsService).     *)
(***************************************************************************)
EXTENDS Integers

CONSTANTS
  Clients,   \* the connections there may be
  HeadLen,   \* bytes of a response header
  PageSizes  \* possible sizes of the page behind it

VARIABLES
  link,      \* the connection of each client
  alive      \* the process still runs

svars == <<link, alive>>

Phases == {"closed", "waiting", "reading", "response"}
LinkRec == [phase : Phases, pending : Nat, head : Nat, page : Nat]
Closed == [phase |-> "closed", pending |-> 0, head |-> 0, page |-> 0]

ServiceInit == link = [c \in Clients |-> Closed] /\ alive = TRUE

Becomes(c, l) == alive /\ link' = [link EXCEPT ![c] = l] /\ UNCHANGED alive

Accept(c) ==
  /\ link[c].phase = "closed"
  /\ Becomes(c, [Closed EXCEPT !.phase = "waiting"])

\* A byte comes from the client, in whatever phase.
Arrives(c) ==
  /\ link[c].phase # "closed"
  /\ Becomes(c, [link[c] EXCEPT !.pending = @ + 1])

BeginRequest(c) ==
  /\ link[c].phase = "waiting"
  /\ Becomes(c, [link[c] EXCEPT !.phase = "reading"])

\* Bytes are taken only from the front, and only as part of a request.
Take(c) ==
  /\ link[c].phase = "reading"
  /\ \E n \in 1..link[c].pending : Becomes(c, [link[c] EXCEPT !.pending = @ - n])

Answer(c) ==
  /\ link[c].phase = "reading"
  /\ \E n \in PageSizes :
       Becomes(c, [phase |-> "response", pending |-> link[c].pending,
                   head |-> HeadLen, page |-> n])

SendHead(c) ==
  /\ link[c].phase = "response"
  /\ \E n \in 1..link[c].head : Becomes(c, [link[c] EXCEPT !.head = @ - n])

\* The page only behind the whole header.
SendPage(c) ==
  /\ link[c].phase = "response" /\ link[c].head = 0
  /\ \E n \in 1..(link[c].page - 1) : Becomes(c, [link[c] EXCEPT !.page = @ - n])

\* With the last bytes of the page the connection is free for the next
\* request, of which some bytes may be pending.
Finish(c) ==
  /\ link[c].phase = "response" /\ link[c].head = 0 /\ link[c].page > 0
  /\ Becomes(c, [phase |-> "waiting", pending |-> link[c].pending, head |-> 0, page |-> 0])

Close(c) == link[c].phase # "closed" /\ Becomes(c, Closed)

Die == alive /\ alive' = FALSE /\ UNCHANGED link

ServiceNext ==
  \/ \E c \in Clients :
       \/ Accept(c) \/ Arrives(c) \/ BeginRequest(c) \/ Take(c) \/ Answer(c)
       \/ SendHead(c) \/ SendPage(c) \/ Finish(c) \/ Close(c)
  \/ Die

ServiceSpec == ServiceInit /\ [][ServiceNext]_svars
=============================================================================
