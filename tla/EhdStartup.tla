----------------------------- MODULE EhdStartup -----------------------------
(***************************************************************************)
(* From main to the event loop: ehd_cycle_init opens the listening sockets *)
(* in up to five rounds, gives each its slot, sets up epoll, and           *)
(* ehd_process_event registers the listeners.  Every call to the system    *)
(* may fail; most results are passed up, and main ignores them all.  Where *)
(* startup succeeds, EhdServer begins.                                     *)
(***************************************************************************)
EXTENDS Integers, FiniteSets

CONSTANTS
  NListen,   \* addresses with a port in the configuration
  Tries,     \* rounds of ehd_open_listening_socket
  ConnNum,   \* slots: conf->connection_num
  FirstFd,   \* the first free descriptor when main begins
  MaxFd      \* the last descriptor of the process

ASSUME StartupAssumption ==
  /\ {NListen, Tries, ConnNum, FirstFd, MaxFd} \subseteq Nat \ {0}
  /\ FirstFd <= MaxFd
  /\ FirstFd + Tries * NListen <= ConnNum   \* 3 + 5 * 2 and 1024 in the program

Listening == 1..NListen
Fd == 0..MaxFd
NoFd == -1

VARIABLES
  pc,          \* the function that main is in, or how it ended
  lis,         \* listening[l].fd
  use,         \* what each descriptor is
  tries, i, failed,   \* locals of ehd_open_listening_socket; i also of enable_accept
  slot,        \* connections[s].listening of each slot, 0 for none
  handled,     \* listeners whose handler is set
  funps,       \* ehd_event_funps is set
  registered,  \* descriptors in the epoll set
  fault        \* some call has failed (only the properties read it)

sockets == <<lis, use>>
loopvars == <<tries, i, failed>>
events == <<slot, handled, funps, registered>>
vars == <<pc, sockets, loopvars, events, fault>>

TypeOK ==
  /\ pc \in {"listening_init", "open", "event_init", "http_init", "process_event",
             "enable_accept", "loop", "crash", "overrun"}
  /\ lis \in [Listening -> Fd \cup {NoFd}]
  /\ use \in [Fd -> {"free", "other", "socket", "listening", "epoll"}]
  /\ tries \in 1..Tries /\ i \in 1..(NListen + 1) /\ failed \in BOOLEAN
  /\ slot \in [0..(ConnNum - 1) -> Listening \cup {0}]
  /\ handled \subseteq Listening /\ funps \in BOOLEAN /\ registered \subseteq Fd
  /\ fault \in BOOLEAN

Init ==
  /\ pc = "listening_init"
  /\ lis = [l \in Listening |-> NoFd]
  /\ use = [s \in Fd |-> IF s < FirstFd THEN "other" ELSE "free"]
  /\ tries = Tries /\ i = 1 /\ failed = FALSE
  /\ slot = [s \in 0..(ConnNum - 1) |-> 0] /\ handled = {}
  /\ funps = FALSE /\ registered = {} /\ fault = FALSE

-----------------------------------------------------------------------------
Free == {s \in Fd : use[s] = "free"}
Lowest(s) == s \in Free /\ \A t \in Free : s <= t

\* ehd_cycle_init returns early; main goes on all the same.
Error == pc' = "process_event"

\* ehd_listening_init ends without a return: what its caller compares with
\* EHD_ERROR is whatever is there.  Without memory the array gives NULL.
ListeningInit ==
  /\ pc = "listening_init"
  /\ \/ pc' = "open" /\ UNCHANGED fault
     \/ Error /\ UNCHANGED fault
     \/ pc' = "crash" /\ fault' = TRUE
  /\ UNCHANGED <<sockets, loopvars, events>>

Opening == pc = "open" /\ i <= NListen
NextListener == i' = i + 1 /\ UNCHANGED <<pc, tries>>

\* Broken variant: the loop does not get to the next listener.
OpenedAgain ==
  /\ Opening /\ lis[i] # NoFd
  /\ UNCHANGED vars

Opened ==
  /\ Opening /\ lis[i] # NoFd
  /\ NextListener /\ UNCHANGED <<sockets, failed, events, fault>>

\* Broken variant: a listener that is open is opened once more.
UnopenedOrNot == Opening
Unopened == Opening /\ lis[i] = NoFd

SocketFails ==
  /\ Unopened
  /\ Error /\ fault' = TRUE /\ UNCHANGED <<sockets, loopvars, events>>

\* The new socket cannot be set up, its address is in use, or listen fails.
\* The socket is left open.
SetupFails ==
  /\ Unopened
  /\ \E s \in Fd : Lowest(s) /\ use' = [use EXCEPT ![s] = "socket"]
  /\ Error /\ fault' = TRUE /\ UNCHANGED <<lis, loopvars, events>>

\* bind fails otherwise: to be tried again with another socket in the next
\* round.  This one is left open, too.
BindFails ==
  /\ Unopened
  /\ \E s \in Fd : Lowest(s) /\ use' = [use EXCEPT ![s] = "socket"]
  /\ failed' = TRUE /\ fault' = TRUE
  /\ NextListener /\ UNCHANGED <<lis, events>>

Listens ==
  /\ Unopened
  /\ \E s \in Fd : /\ Lowest(s)
                   /\ use' = [use EXCEPT ![s] = "listening"]
                   /\ lis' = [lis EXCEPT ![i] = s]
  /\ NextListener /\ UNCHANGED <<failed, events, fault>>

\* Broken variant: the number of rounds is not limited.
RoundNoLimit ==
  /\ pc = "open" /\ i > NListen
  /\ \/ ~failed /\ pc' = "event_init" /\ UNCHANGED loopvars
     \/ failed /\ tries' = tries - 1 /\ i' = 1 /\ failed' = FALSE /\ UNCHANGED pc
  /\ UNCHANGED <<sockets, events, fault>>

\* Broken variant: the rounds are not counted.
RoundNoCount ==
  /\ pc = "open" /\ i > NListen
  /\ IF failed THEN pc' = "open" /\ i' = 1 /\ failed' = FALSE
     ELSE pc' = "event_init" /\ UNCHANGED <<i, failed>>
  /\ UNCHANGED <<tries, sockets, events, fault>>

Round ==
  /\ pc = "open" /\ i > NListen
  /\ \/ ~failed /\ pc' = "event_init" /\ UNCHANGED loopvars
     \/ failed /\ tries = 1 /\ Error /\ UNCHANGED loopvars
     \/ /\ failed /\ tries > 1
        /\ tries' = tries - 1 /\ i' = 1 /\ failed' = FALSE /\ UNCHANGED pc
  /\ UNCHANGED <<sockets, events, fault>>

-----------------------------------------------------------------------------
\* Slots are found by descriptor; the table's length is not asked for.
Slots == [s \in DOMAIN slot |-> IF \E l \in Listening : lis[l] = s
                                THEN CHOOSE l \in Listening : lis[l] = s ELSE slot[s]]

\* The functions are set last: without epoll or without memory there are none.
EpollInit ==
  \/ /\ \E s \in Fd : Lowest(s) /\ use' = [use EXCEPT ![s] = "epoll"]
     /\ \/ funps' = TRUE /\ UNCHANGED fault
        \/ fault' = TRUE /\ UNCHANGED funps
  \/ fault' = TRUE /\ UNCHANGED <<use, funps>>

\* The result of ehd_event_epoll_init is ignored.
EventInit ==
  /\ pc = "event_init"
  /\ \/ Error /\ fault' = TRUE /\ UNCHANGED <<use, slot, funps>>
     \/ /\ slot' = Slots /\ EpollInit
        /\ pc' = IF \E l \in Listening : lis[l] >= ConnNum THEN "overrun" ELSE "http_init"
  /\ UNCHANGED <<lis, loopvars, handled, registered>>

HttpInit ==
  /\ pc = "http_init"
  /\ handled' = Listening /\ pc' = "process_event"
  /\ UNCHANGED <<sockets, loopvars, slot, funps, registered, fault>>

\* main calls through ehd_event_funps, which may still be empty.
ProcessEvent ==
  /\ pc = "process_event"
  /\ \/ ~funps /\ pc' = "crash" /\ UNCHANGED i
     \/ funps /\ pc' = "enable_accept" /\ i' = 1
  /\ UNCHANGED <<sockets, tries, failed, events, fault>>

\* ehd_event_enable_accept stops at the first failure; its result is ignored.
EnableAccept ==
  /\ pc = "enable_accept"
  /\ \/ /\ i <= NListen
        /\ registered' = registered \cup {lis[i]}
        /\ i' = i + 1 /\ UNCHANGED <<pc, fault>>
     \/ i <= NListen /\ fault' = TRUE /\ pc' = "loop" /\ UNCHANGED <<i, registered>>
     \/ i > NListen /\ pc' = "loop" /\ UNCHANGED <<i, registered, fault>>
  /\ UNCHANGED <<sockets, tries, failed, slot, handled, funps>>

Over == pc \in {"loop", "crash", "overrun"} /\ UNCHANGED vars

Next ==
  \/ ListeningInit \/ Opened \/ SocketFails \/ SetupFails \/ BindFails \/ Listens
  \/ Round \/ EventInit \/ HttpInit \/ ProcessEvent \/ EnableAccept \/ Over

Spec == Init /\ [][Next]_vars /\ WF_vars(Next)

-----------------------------------------------------------------------------
\* The event loop is entered with every listener open, each in the slot of its
\* own descriptor, with its handler, and with no other socket listening: the
\* state that EhdServer begins with.  All are registered unless epoll_ctl has
\* failed; then those up to the failure are, and nobody is told of the rest.
\* Otherwise main has called through an empty table.
LoopIsReady ==
  pc = "loop" =>
    /\ \A l \in Listening : lis[l] # NoFd /\ slot[lis[l]] = l
    /\ {s \in Fd : use[s] = "listening"} = {lis[l] : l \in Listening}
    /\ handled = Listening
    /\ \/ registered = {lis[l] : l \in Listening}
       \/ fault /\ registered = {lis[l] : l \in 1..(i - 1)}

\* A failed bind leaves its socket open, one for each listener and round and
\* not more, so that no listener gets a descriptor beyond the slots, which
\* ehd_event_init would write to without looking.
SocketsBounded ==
  /\ Cardinality({s \in Fd : use[s] \in {"socket", "listening"}})
       <= (Tries - tries) * NListen + (i - 1) + (IF pc = "open" THEN 0 ELSE NListen)
  /\ \A l \in Listening : lis[l] < FirstFd + Tries * NListen
  /\ pc # "overrun"

\* Startup comes to an end, whatever fails and however often bind does.
Starts == <>(pc \in {"loop", "crash"})
=============================================================================
