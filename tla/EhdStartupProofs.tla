-------------------------- MODULE EhdStartupProofs --------------------------
(***************************************************************************)
(* Proofs about EhdStartup, for any number of listeners, rounds, slots and *)
(* descriptors: types; what the event loop starts with; how many sockets   *)
(* failed rounds leave behind; how many steps startup takes.               *)
(***************************************************************************)
EXTENDS EhdStartup, FiniteSetTheorems, TLAPS

\* The constants, without the product of two of them.
LEMMA ConstantsAreNat ==
  /\ NListen \in Nat /\ NListen > 0 /\ Tries \in Nat /\ Tries > 0
  /\ ConnNum \in Nat /\ FirstFd \in Nat /\ MaxFd \in Nat
BY StartupAssumption

-----------------------------------------------------------------------------
(***************************************************************************)
(* The inductive invariant.                                                *)
(***************************************************************************)
\* Sockets that the rounds before this one may have left.
Before == (Tries - tries) * NListen

Opens == {"listening_init", "open"}
Bound == Before + (IF pc \in Opens THEN i - 1 ELSE NListen)

\* Descriptors are taken in their order; each listener passed takes one.
FreeFrom(n) == \A s \in Fd : use[s] = "free" <=> s >= FirstFd + n
Taken ==
  /\ pc \in Opens => \E n \in Nat : n <= Bound /\ FreeFrom(n)
  /\ \A s \in Fd : use[s] \in {"socket", "listening"} => s >= FirstFd /\ s < FirstFd + Bound

\* A listening socket is that of one listener.
Owned ==
  /\ \A l \in Listening : lis[l] # NoFd => use[lis[l]] = "listening"
  /\ \A s \in Fd : use[s] = "listening" => \E l \in Listening : lis[l] = s
  /\ \A l, m \in Listening : lis[l] # NoFd /\ lis[l] = lis[m] => l = m

AllOpen == \A l \in Listening : lis[l] # NoFd
Slotted == \A l \in Listening : slot[lis[l]] = l

\* What each stage of the way to the loop has from those before it.
Reached ==
  /\ pc = "listening_init" => i = 1
  /\ pc = "open" /\ ~failed => \A l \in 1..(i - 1) : lis[l] # NoFd
  /\ pc \in {"event_init", "http_init", "enable_accept", "loop"} \/ funps => AllOpen
  /\ pc \in Opens \cup {"event_init"} => ~funps
  /\ pc = "http_init" \/ funps => Slotted
  /\ pc \in {"enable_accept", "loop"} => funps
  /\ pc \in {"process_event", "enable_accept", "loop"} /\ funps => handled = Listening
  /\ registered = IF pc \in {"enable_accept", "loop"} THEN {lis[l] : l \in 1..(i - 1)} ELSE {}
  /\ pc = "loop" /\ i <= NListen => fault
  /\ pc # "overrun"

Inv == TypeOK /\ Taken /\ Owned /\ Reached

-----------------------------------------------------------------------------
(***************************************************************************)
(* Types.                                                                  *)
(***************************************************************************)
LEMMA TypeInit == Init => TypeOK
<1> SUFFICES ASSUME Init PROVE TypeOK
  OBVIOUS
<1> USE ConstantsAreNat
<1>1. lis \in [Listening -> Fd \cup {NoFd}]
  BY DEF Init
<1>2. use \in [Fd -> {"free", "other", "socket", "listening", "epoll"}]
  BY DEF Init
<1>3. slot \in [0..(ConnNum - 1) -> Listening \cup {0}]
  BY DEF Init
<1>4. tries \in 1..Tries /\ i \in 1..(NListen + 1)
  BY DEF Init
<1>5. /\ failed \in BOOLEAN /\ handled \subseteq Listening /\ funps \in BOOLEAN
      /\ registered \subseteq Fd /\ fault \in BOOLEAN
  BY DEF Init
<1>6. pc = "listening_init"
  BY DEF Init
<1> QED BY <1>1, <1>2, <1>3, <1>4, <1>5, <1>6 DEF TypeOK

LEMMA SlotsTyped ==
  ASSUME TypeOK
  PROVE  Slots \in [0..(ConnNum - 1) -> Listening \cup {0}]
<1>1. DOMAIN slot = 0..(ConnNum - 1)
  BY DEF TypeOK
<1>2. ASSUME NEW s \in DOMAIN slot
      PROVE  (IF \E l \in Listening : lis[l] = s
              THEN CHOOSE l \in Listening : lis[l] = s ELSE slot[s]) \in Listening \cup {0}
  BY DEF TypeOK
<1> QED BY <1>1, <1>2 DEF Slots

\* A step of i stays in its range, and a listener is at i.
LEMMA Steps ==
  ASSUME TypeOK, i <= NListen
  PROVE  i \in Listening /\ i + 1 \in 1..(NListen + 1) /\ (i + 1) - 1 = i
BY ConstantsAreNat DEF TypeOK, Listening

LEMMA TypeStep ==
  ASSUME TypeOK, Reached, [Next]_vars
  PROVE  TypeOK'
<1>1. CASE ListeningInit
  BY <1>1 DEF ListeningInit, Error, TypeOK, sockets, loopvars, events
<1>2. CASE Opened
  BY <1>2, Steps DEF Opened, Opening, NextListener, TypeOK, sockets, events
<1>3. CASE SocketFails
  BY <1>3 DEF SocketFails, Error, TypeOK, sockets, loopvars, events
<1>4. CASE SetupFails
  BY <1>4 DEF SetupFails, Error, TypeOK, loopvars, events
<1>5. CASE BindFails
  BY <1>5, Steps DEF BindFails, Unopened, Opening, NextListener, TypeOK, events
<1>6. CASE Listens
  BY <1>6, Steps DEF Listens, Unopened, Opening, NextListener, TypeOK, events
<1>7. CASE Round
  <2>1. 1 \in 1..(NListen + 1) /\ (tries > 1 => tries - 1 \in 1..Tries)
    BY ConstantsAreNat DEF TypeOK
  <2> QED BY <1>7, <2>1 DEF Round, Error, TypeOK, sockets, loopvars, events
<1>8. CASE EventInit
  BY <1>8, SlotsTyped DEF EventInit, EpollInit, Error, TypeOK, loopvars
<1>9. CASE HttpInit
  BY <1>9 DEF HttpInit, TypeOK, sockets, loopvars
<1>10. CASE ProcessEvent
  <2>1. 1 \in 1..(NListen + 1)
    BY ConstantsAreNat
  <2> QED BY <1>10, <2>1 DEF ProcessEvent, TypeOK, sockets, events
<1>11. CASE EnableAccept
  <2>1. CASE i <= NListen /\ registered' = registered \cup {lis[i]} /\ i' = i + 1
             /\ UNCHANGED <<pc, fault>>
    <3>1. lis[i] \in Fd
      BY <1>11, <2>1, Steps DEF EnableAccept, Reached, AllOpen, TypeOK
    <3> QED BY <1>11, <2>1, <3>1, Steps DEF EnableAccept, TypeOK, sockets
  <2>2. CASE pc' = "loop" /\ fault' \in BOOLEAN /\ UNCHANGED <<i, registered>>
    BY <1>11, <2>2 DEF EnableAccept, TypeOK, sockets
  <2> QED BY <1>11, <2>1, <2>2 DEF EnableAccept, TypeOK
<1>12. CASE UNCHANGED vars
  BY <1>12 DEF vars, TypeOK, sockets, loopvars, events
<1> QED BY <1>1, <1>2, <1>3, <1>4, <1>5, <1>6, <1>7, <1>8, <1>9, <1>10, <1>11, <1>12
        DEF Next, Over

-----------------------------------------------------------------------------
(***************************************************************************)
(* Sockets that are left.                                                  *)
(***************************************************************************)
LEMMA Products ==
  ASSUME NEW t \in 1..Tries
  PROVE  /\ (Tries - t) * NListen \in Nat
         /\ (Tries - t) * NListen + NListen <= Tries * NListen
         /\ (Tries - (t - 1)) * NListen = (Tries - t) * NListen + NListen
         /\ (Tries - Tries) * NListen = 0
<1>1. Tries \in Int /\ NListen \in Nat /\ t \in Int /\ t <= Tries /\ t >= 1
  BY ConstantsAreNat
<1>2. (Tries - (t - 1)) * NListen = (Tries - t) * NListen + NListen
  BY <1>1
<1>3. \A a, b \in Nat : a * b \in Nat
  OBVIOUS
<1>4. (Tries - t) * NListen \in Nat /\ (t - 1) * NListen \in Nat
  <2>1. Tries - t \in Nat /\ t - 1 \in Nat
    BY <1>1
  <2> QED BY <1>1, <1>3, <2>1
<1>5. Tries * NListen = (Tries - t) * NListen + NListen + (t - 1) * NListen
  BY <1>1
<1>6. (Tries - Tries) * NListen = 0
  BY <1>1
<1>7. Tries * NListen \in Nat
  BY <1>1, <1>3
<1> DEFINE x == (Tries - t) * NListen
           y == (t - 1) * NListen
           z == Tries * NListen
<1>8. x \in Nat /\ y \in Nat /\ z = x + NListen + y
  BY <1>4, <1>5
<1> HIDE DEF x, y, z
<1>9. x + NListen <= z
  BY <1>1, <1>8
<1> QED BY <1>2, <1>4, <1>6, <1>9 DEF x, z

\* The last is what keeps every descriptor below the number of slots.
LEMMA BoundIsBounded ==
  TypeOK => /\ Before \in Nat /\ Bound \in Nat /\ Bound <= Before + NListen
            /\ FirstFd + Bound <= FirstFd + Tries * NListen /\ FirstFd + Bound <= ConnNum
<1> SUFFICES ASSUME TypeOK
             PROVE  /\ Before \in Nat /\ Bound \in Nat /\ Bound <= Before + NListen
                    /\ FirstFd + Bound <= FirstFd + Tries * NListen
                    /\ FirstFd + Bound <= ConnNum
  OBVIOUS
<1>1. Before \in Nat /\ Before + NListen <= Tries * NListen
  BY Products DEF TypeOK, Before
<1>2. Bound \in Nat /\ Bound <= Before + NListen
  BY <1>1, ConstantsAreNat DEF TypeOK, Bound
<1> DEFINE z == Tries * NListen
<1>3. z \in Int /\ FirstFd + z <= ConnNum /\ Before + NListen <= z
  BY <1>1, ConstantsAreNat, StartupAssumption
<1> HIDE DEF z
<1>4. FirstFd + Bound <= FirstFd + z /\ FirstFd + Bound <= ConnNum
  BY <1>1, <1>2, <1>3, ConstantsAreNat
<1> QED BY <1>1, <1>2, <1>4 DEF z

LEMMA BoundIsNat == TypeOK => Bound \in Nat
BY BoundIsBounded

LEMMA BoundsAreNat ==
  ASSUME TypeOK, TypeOK'
  PROVE  Bound \in Nat /\ Bound' \in Nat
<1>1. TypeOK' => (Bound \in Nat)'
  BY BoundIsNat, PTL
<1> QED BY <1>1, BoundIsNat

LEMMA TakeLowest ==
  ASSUME TypeOK, NEW n \in Nat, FreeFrom(n), NEW s \in Fd, Lowest(s),
         NEW kind, kind # "free", use' = [use EXCEPT ![s] = kind]
  PROVE  s = FirstFd + n /\ FreeFrom(n + 1)'
<1>1. s >= FirstFd + n /\ \A t \in Fd : t >= FirstFd + n => s <= t
  BY DEF FreeFrom, Lowest, Free
<1>2. FirstFd \in Nat /\ MaxFd \in Nat /\ s \in 0..MaxFd
  BY ConstantsAreNat DEF Fd
<1>3. FirstFd + n \in Fd
  BY <1>1, <1>2 DEF Fd
<1>4. s = FirstFd + n
  BY <1>1, <1>2, <1>3
<1>5. ASSUME NEW t \in Fd PROVE use'[t] = "free" <=> t >= FirstFd + (n + 1)
  <2>1. t \in Int /\ use'[t] = IF t = s THEN kind ELSE use[t]
    BY DEF TypeOK, Fd
  <2>2. use[t] = "free" <=> t >= FirstFd + n
    BY DEF FreeFrom
  <2> QED BY <1>2, <1>4, <2>1, <2>2
<1> QED BY <1>4, <1>5 DEF FreeFrom

LEMMA TakenInit == Init => Taken
<1> SUFFICES ASSUME Init PROVE Taken
  OBVIOUS
<1>1. Bound = 0
  <2>1. Tries \in 1..Tries
    BY ConstantsAreNat
  <2>2. Before = 0
    BY <2>1, Products DEF Init, Before
  <2> QED BY <2>2 DEF Init, Bound, Opens
<1>2. FreeFrom(0)
  BY ConstantsAreNat DEF Init, FreeFrom, Fd
<1>3. \A s \in Fd : use[s] \notin {"socket", "listening"}
  BY DEF Init
<1> QED BY <1>1, <1>2, <1>3 DEF Taken

\* Nothing is taken: the bound does not fall.
LEMMA TakenSame ==
  ASSUME TypeOK, TypeOK', Taken, Bound' >= Bound, use' = use, pc' \in Opens => pc \in Opens
  PROVE  Taken'
<1>1. Bound \in Nat /\ Bound' \in Nat /\ FirstFd \in Nat /\ Fd \subseteq Nat
  BY BoundsAreNat, ConstantsAreNat DEF Fd
<1> DEFINE b == Bound
           c == Bound'
<1>2. b \in Nat /\ c \in Nat /\ c >= b
  BY <1>1
<1> HIDE DEF b, c
<1>3. /\ \A s \in Nat : s < FirstFd + b => s < FirstFd + c
      /\ \A n \in Nat : n <= b => n <= c
  BY <1>1, <1>2
<1>4. \A s \in Fd : s < FirstFd + Bound => s < FirstFd + Bound'
  BY <1>1, <1>3 DEF b, c
<1>5. \A n \in Nat : n <= Bound => n <= Bound'
  BY <1>3 DEF b, c
<1>6. \A n : FreeFrom(n)' <=> FreeFrom(n)
  BY DEF FreeFrom
<1> QED BY <1>4, <1>5, <1>6 DEF Taken

\* The lowest descriptor is taken: the bound rises at least by one.
LEMMA TakenMore ==
  ASSUME TypeOK, TypeOK', Taken, pc \in Opens, NEW s \in Fd, Lowest(s),
         NEW kind \in {"socket", "listening"}, use' = [use EXCEPT ![s] = kind],
         Bound' >= Bound + 1
  PROVE  Taken'
<1>1. /\ Bound \in Nat /\ Bound' \in Nat /\ FirstFd \in Nat /\ Fd \subseteq Nat
  BY BoundsAreNat, ConstantsAreNat DEF Fd
<1>2. PICK n \in Nat : n <= Bound /\ FreeFrom(n)
  BY DEF Taken
<1>3. s = FirstFd + n /\ FreeFrom(n + 1)'
  BY <1>2, TakeLowest
<1> DEFINE b == Bound
           c == Bound'
<1>4. b \in Nat /\ c \in Nat /\ c >= b + 1 /\ n <= b
  BY <1>1, <1>2
<1> HIDE DEF b, c
<1>5. /\ n + 1 \in Nat /\ n + 1 <= c /\ s >= FirstFd /\ s < FirstFd + c
      /\ \A t \in Nat : t < FirstFd + b => t < FirstFd + c
  BY <1>1, <1>3, <1>4
<1>6. ASSUME NEW t \in Fd, use'[t] \in {"socket", "listening"}
      PROVE  t >= FirstFd /\ t < FirstFd + Bound'
  <2>1. CASE t = s
    BY <1>5, <2>1 DEF c
  <2>2. CASE t # s
    <3>1. use'[t] = use[t]
      BY <2>2 DEF TypeOK
    <3> QED BY <1>1, <1>5, <1>6, <3>1 DEF Taken, b, c
  <2> QED BY <2>1, <2>2
<1>7. \E m \in Nat : m <= Bound' /\ FreeFrom(m)'
  BY <1>3, <1>5 DEF c
<1> QED BY <1>6, <1>7 DEF Taken

\* How the bound moves.
LEMMA BoundSame ==
  ASSUME TypeOK, tries' = tries, i' = i \/ pc \notin Opens, pc' \in Opens => pc \in Opens
  PROVE  Bound' >= Bound
<1> DEFINE b == Before
<1>1. b \in Nat /\ b' = b /\ NListen \in Nat /\ i \in 1..(NListen + 1)
  BY BoundIsBounded, ConstantsAreNat DEF Before, TypeOK
<1> HIDE DEF b
<1>2. b + (i - 1) <= b + NListen
  BY <1>1
<1>3. Bound = b + (IF pc \in Opens THEN i - 1 ELSE NListen)
      /\ Bound' = b' + (IF pc' \in Opens THEN i' - 1 ELSE NListen)
  BY DEF Bound, b
<1> QED BY <1>1, <1>2, <1>3

LEMMA BoundMore ==
  ASSUME TypeOK, tries' = tries, pc = "open", i <= NListen,
         \/ pc' = "open" /\ i' = i + 1
         \/ pc' \notin Opens /\ i' = i
  PROVE  Bound' >= Bound + 1
<1> DEFINE b == Before
<1>1. b \in Nat /\ b' = b /\ NListen \in Nat /\ i \in 1..(NListen + 1)
  BY BoundIsBounded, ConstantsAreNat DEF Before, TypeOK
<1> HIDE DEF b
<1>2. Bound = b + (i - 1)
      /\ Bound' = b' + (IF pc' \in Opens THEN i' - 1 ELSE NListen)
  BY DEF Bound, b, Opens
<1> QED BY <1>1, <1>2 DEF Opens

LEMMA BoundRound ==
  ASSUME TypeOK, pc = "open", pc' = "open", i > NListen, tries' = tries - 1, i' = 1
  PROVE  Bound' = Bound
<1>1. Before' = Before + NListen /\ Before \in Nat
  <2>1. tries \in 1..Tries
    BY DEF TypeOK
  <2>2. /\ (Tries - (tries - 1)) * NListen = (Tries - tries) * NListen + NListen
        /\ (Tries - tries) * NListen \in Nat
    BY <2>1, Products
  <2>3. Before' = (Tries - (tries - 1)) * NListen
    BY DEF Before
  <2> QED BY <2>2, <2>3 DEF Before
<1> DEFINE b == Before
           c == Before'
<1>2. Bound = b + (i - 1) /\ Bound' = c + (1 - 1)
  BY DEF Bound, Opens
<1>3. b \in Nat /\ c = b + NListen /\ NListen \in Nat /\ i \in 1..(NListen + 1)
  BY <1>1, ConstantsAreNat DEF TypeOK
<1> HIDE DEF b, c
<1> QED BY <1>2, <1>3

LEMMA TakenStep ==
  ASSUME TypeOK, TypeOK', Taken, [Next]_vars
  PROVE  Taken'
<1>1. CASE ListeningInit
  <2>1. tries' = tries /\ i' = i /\ use' = use /\ pc \in Opens
    BY <1>1 DEF ListeningInit, sockets, loopvars, Opens
  <2> QED BY <2>1, TakenSame, BoundSame
<1>2. CASE Opened
  <2>1. /\ tries' = tries /\ use' = use /\ pc = "open" /\ pc' = "open"
        /\ i <= NListen /\ i' = i + 1
    BY <1>2 DEF Opened, Opening, NextListener, sockets
  <2>2. Bound' >= Bound + 1
    BY <2>1, BoundMore
  <2>3. Bound' >= Bound
    BY <2>2, BoundsAreNat
  <2> QED BY <2>1, <2>3, TakenSame DEF Opens
<1>3. CASE SocketFails
  <2>1. tries' = tries /\ i' = i /\ use' = use /\ pc' \notin Opens
    BY <1>3 DEF SocketFails, Error, sockets, loopvars, Opens
  <2> QED BY <2>1, TakenSame, BoundSame
<1>4. CASE SetupFails
  <2>1. /\ tries' = tries /\ i' = i /\ pc = "open" /\ i <= NListen /\ pc' \notin Opens
        /\ \E s \in Fd : Lowest(s) /\ use' = [use EXCEPT ![s] = "socket"]
    BY <1>4 DEF SetupFails, Unopened, Opening, Error, loopvars, Opens
  <2> QED BY <2>1, BoundMore, TakenMore DEF Opens
<1>5. CASE BindFails
  <2>1. /\ tries' = tries /\ i' = i + 1 /\ pc = "open" /\ i <= NListen /\ pc' = "open"
        /\ \E s \in Fd : Lowest(s) /\ use' = [use EXCEPT ![s] = "socket"]
    BY <1>5 DEF BindFails, Unopened, Opening, NextListener
  <2> QED BY <2>1, BoundMore, TakenMore DEF Opens
<1>6. CASE Listens
  <2>1. /\ tries' = tries /\ i' = i + 1 /\ pc = "open" /\ i <= NListen /\ pc' = "open"
        /\ \E s \in Fd : Lowest(s) /\ use' = [use EXCEPT ![s] = "listening"]
    BY <1>6 DEF Listens, Unopened, Opening, NextListener
  <2> QED BY <2>1, BoundMore, TakenMore DEF Opens
<1>7. CASE Round
  <2>0. pc = "open" /\ i > NListen /\ use' = use
    BY <1>7 DEF Round, sockets
  <2>1. CASE pc' \notin Opens /\ UNCHANGED loopvars
    BY <2>0, <2>1, TakenSame, BoundSame DEF loopvars
  <2>2. CASE tries' = tries - 1 /\ i' = 1 /\ UNCHANGED pc
    <3>1. Bound' = Bound
      BY <2>0, <2>2, BoundRound
    <3>2. Bound' >= Bound
      BY <3>1, BoundsAreNat
    <3> QED BY <2>0, <2>2, <3>2, TakenSame
  <2>3. \/ pc' \notin Opens /\ UNCHANGED loopvars
        \/ tries' = tries - 1 /\ i' = 1 /\ UNCHANGED pc
    BY <1>7 DEF Round, Error, Opens
  <2> QED BY <2>1, <2>2, <2>3
<1>8. CASE EventInit
  <2>1. pc \notin Opens /\ pc' \notin Opens /\ tries' = tries
    BY <1>8 DEF EventInit, Error, Opens, loopvars
  <2>2. Bound' = Bound
    BY <2>1 DEF Bound, Before
  <2>3. \A s \in Fd : use'[s] \in {"socket", "listening"} => use[s] \in {"socket", "listening"}
    BY <1>8 DEF EventInit, EpollInit, TypeOK
  <2> QED BY <2>1, <2>2, <2>3 DEF Taken
<1>9. CASE HttpInit \/ ProcessEvent \/ EnableAccept
  <2>1. pc \notin Opens /\ pc' \notin Opens /\ tries' = tries /\ use' = use
    BY <1>9 DEF HttpInit, ProcessEvent, EnableAccept, Opens, sockets, loopvars
  <2> QED BY <2>1, TakenSame, BoundSame
<1>10. CASE UNCHANGED vars
  <2>1. tries' = tries /\ i' = i /\ use' = use /\ pc' = pc
    BY <1>10 DEF vars, sockets, loopvars
  <2> QED BY <2>1, TakenSame, BoundSame
<1> QED BY <1>1, <1>2, <1>3, <1>4, <1>5, <1>6, <1>7, <1>8, <1>9, <1>10 DEF Next, Over

-----------------------------------------------------------------------------
(***************************************************************************)
(* Listeners and their sockets.                                            *)
(***************************************************************************)
LEMMA OwnedInit == Init => Owned
BY DEF Init, Owned, Fd

\* A free descriptor comes to be anything but listening.
LEMMA OwnedOther ==
  ASSUME TypeOK, Owned, lis' = lis, NEW s \in Fd, use[s] = "free",
         NEW kind \in {"socket", "epoll"}, use' = [use EXCEPT ![s] = kind]
  PROVE  Owned'
<1>1. \A t \in Fd : use'[t] = "listening" <=> use[t] = "listening"
  BY DEF TypeOK
<1>2. \A l \in Listening : lis[l] # NoFd => lis[l] \in Fd
  BY DEF TypeOK
<1> QED BY <1>1, <1>2 DEF Owned

LEMMA OwnedListens ==
  ASSUME TypeOK, Owned, NEW l \in Listening, lis[l] = NoFd, NEW s \in Fd, use[s] = "free",
         use' = [use EXCEPT ![s] = "listening"], lis' = [lis EXCEPT ![l] = s]
  PROVE  Owned'
<1>1. \A t \in Fd : use'[t] = "listening" <=> (use[t] = "listening" \/ t = s)
  BY DEF TypeOK
<1>2. \A m \in Listening : /\ lis[m] # NoFd => lis[m] \in Fd /\ lis[m] # s
                           /\ lis'[m] = IF m = l THEN s ELSE lis[m]
  BY DEF TypeOK, Owned
<1>3. \A t \in Fd : t # NoFd
  BY ConstantsAreNat DEF Fd, NoFd
<1>4. ASSUME NEW t \in Fd, use'[t] = "listening" PROVE \E m \in Listening : lis'[m] = t
  <2>1. CASE t = s
    BY <1>2, <2>1
  <2>2. CASE t # s
    <3>1. PICK m \in Listening : lis[m] = t
      BY <1>1, <1>4, <2>2 DEF Owned
    <3> QED BY <1>2, <1>3, <3>1
  <2> QED BY <2>1, <2>2
<1>5. \A m \in Listening : lis'[m] # NoFd => use'[lis'[m]] = "listening"
  BY <1>1, <1>2 DEF Owned
<1>6. \A m, n \in Listening : lis'[m] # NoFd /\ lis'[m] = lis'[n] => m = n
  BY <1>2, <1>3 DEF Owned
<1> QED BY <1>4, <1>5, <1>6 DEF Owned

LEMMA OwnedStep ==
  ASSUME TypeOK, Owned, [Next]_vars
  PROVE  Owned'
<1>1. CASE lis' = lis /\ use' = use
  BY <1>1 DEF Owned
<1>2. CASE SetupFails \/ BindFails
  BY <1>2, OwnedOther DEF SetupFails, BindFails, Lowest, Free
<1>3. CASE Listens
  BY <1>3, Steps, OwnedListens DEF Listens, Unopened, Opening, Lowest, Free
<1>4. CASE EventInit
  BY <1>1, <1>4, OwnedOther DEF EventInit, EpollInit, Lowest, Free
<1>5. \/ lis' = lis /\ use' = use
      \/ SetupFails \/ BindFails \/ Listens \/ EventInit
  BY DEF Next, vars, sockets, ListeningInit, Opened, SocketFails, Round, HttpInit,
         ProcessEvent, EnableAccept, Over
<1> QED BY <1>1, <1>2, <1>3, <1>4, <1>5

-----------------------------------------------------------------------------
(***************************************************************************)
(* The way to the event loop.                                              *)
(***************************************************************************)
LEMMA ReachedInit == Init => Reached
BY DEF Init, Reached, Opens

\* Each listener gets the slot of its own descriptor, and there is one.
LEMMA SlotsRight ==
  ASSUME TypeOK, Taken, Owned, AllOpen
  PROVE  \A l \in Listening : lis[l] < ConnNum /\ Slots[lis[l]] = l
<1> TAKE l \in Listening
<1>1. lis[l] \in Fd /\ use[lis[l]] = "listening"
  BY DEF TypeOK, AllOpen, Owned
<1>2. lis[l] < FirstFd + Bound
  BY <1>1 DEF Taken
<1> DEFINE s == lis[l]
           b == FirstFd + Bound
<1>3. s \in Nat /\ b \in Nat /\ b <= ConnNum /\ s < b /\ ConnNum \in Nat
  BY <1>1, <1>2, BoundIsBounded, ConstantsAreNat DEF Fd
<1> HIDE DEF s, b
<1>4. s < ConnNum /\ s \in 0..(ConnNum - 1)
  BY <1>3
<1>5. lis[l] \in DOMAIN slot
  BY <1>4 DEF TypeOK, s
<1>6. Slots[lis[l]] = CHOOSE m \in Listening : lis[m] = lis[l]
  BY <1>5 DEF Slots
<1>7. \A m \in Listening : lis[m] = lis[l] => m = l
  BY DEF Owned, AllOpen
<1> QED BY <1>4, <1>6, <1>7 DEF s

LEMMA ReachedStep ==
  ASSUME TypeOK, Taken, Owned, Reached, [Next]_vars
  PROVE  Reached'
<1> USE DEF Opens
<1>0. i \in 1..(NListen + 1) /\ NListen \in Nat /\ NListen > 0
  BY ConstantsAreNat DEF TypeOK
<1>1. CASE ListeningInit
  <2>1. 1..(1 - 1) = {}
    OBVIOUS
  <2> QED BY <1>1, <2>1 DEF ListeningInit, Error, Reached, sockets, loopvars, events
<1>2. CASE Opened
  <2>1. \A l \in 1..((i + 1) - 1) : l = i \/ l \in 1..(i - 1)
    BY <1>0
  <2>2. pc' = "open" /\ ~failed' => \A l \in 1..(i' - 1) : lis'[l] # NoFd
    BY <1>2, <2>1 DEF Opened, Opening, NextListener, Reached, sockets
  <2> QED BY <1>2, <2>2 DEF Opened, Opening, NextListener, Reached, sockets, events
<1>3. CASE SocketFails
  BY <1>3 DEF SocketFails, Unopened, Opening, Error, Reached, sockets, events
<1>4. CASE SetupFails
  BY <1>4 DEF SetupFails, Unopened, Opening, Error, Reached, events
<1>5. CASE BindFails
  BY <1>5 DEF BindFails, Unopened, Opening, NextListener, Reached, events
<1>6. CASE Listens
  <2>1. \A l \in 1..((i + 1) - 1) : l \in Listening /\ (l = i \/ l \in 1..(i - 1))
    BY <1>0, <1>6 DEF Listens, Unopened, Opening, Listening
  <2>2. PICK s \in Fd : lis' = [lis EXCEPT ![i] = s]
    BY <1>6 DEF Listens
  <2>3. s # NoFd
    BY ConstantsAreNat DEF Fd, NoFd
  <2>4. \A l \in 1..((i + 1) - 1) : lis'[l] = IF l = i THEN s ELSE lis[l]
    BY <2>1, <2>2 DEF TypeOK
  <2>5. pc' = "open" /\ ~failed' => \A l \in 1..(i' - 1) : lis'[l] # NoFd
    BY <1>6, <2>1, <2>3, <2>4 DEF Listens, Unopened, Opening, NextListener, Reached
  <2> QED BY <1>6, <2>5 DEF Listens, Unopened, Opening, NextListener, Reached, events
<1>7. CASE Round
  <2>0. pc = "open" /\ i > NListen /\ UNCHANGED <<sockets, events, fault>>
    BY <1>7 DEF Round
  <2>1. CASE ~failed /\ pc' = "event_init" /\ UNCHANGED loopvars
    <3>1. Listening \subseteq 1..(i - 1)
      BY <1>0, <2>0 DEF Listening
    <3>2. AllOpen'
      BY <2>0, <2>1, <3>1 DEF Reached, AllOpen, sockets
    <3> QED BY <2>0, <2>1, <3>2 DEF Reached, sockets, events
  <2>2. CASE Error
    BY <2>0, <2>2 DEF Error, Reached, sockets, events
  <2>3. CASE i' = 1 /\ UNCHANGED pc
    <3>1. 1..(1 - 1) = {}
      OBVIOUS
    <3> QED BY <2>0, <2>3, <3>1 DEF Reached, sockets, events
  <2> QED BY <1>7, <2>1, <2>2, <2>3 DEF Round
<1>8. CASE EventInit
  <2>0. pc = "event_init" /\ AllOpen /\ ~funps /\ registered = {}
        /\ lis' = lis /\ registered' = registered
    BY <1>8 DEF EventInit, Reached
  <2>1. CASE Error /\ UNCHANGED <<use, slot, funps>>
    BY <2>0, <2>1 DEF Error, Reached
  <2>2. CASE /\ slot' = Slots
             /\ pc' = IF \E l \in Listening : lis[l] >= ConnNum THEN "overrun" ELSE "http_init"
    <3>1. \A l \in Listening : lis[l] < ConnNum /\ lis[l] \in Nat /\ Slots[lis[l]] = l
      BY <2>0, SlotsRight, ConstantsAreNat DEF TypeOK, AllOpen, Fd
    <3>2. pc' = "http_init"
      BY <2>2, <3>1, ConstantsAreNat
    <3>3. AllOpen' /\ Slotted'
      BY <2>0, <2>2, <3>1 DEF AllOpen, Slotted
    <3> QED BY <2>0, <3>2, <3>3 DEF Reached
  <2> QED BY <1>8, <2>1, <2>2 DEF EventInit
<1>9. CASE HttpInit
  BY <1>9 DEF HttpInit, Reached, AllOpen, Slotted, sockets, loopvars
<1>10. CASE ProcessEvent
  <2>1. {lis[l] : l \in 1..(1 - 1)} = {}
    OBVIOUS
  <2> QED BY <1>10, <2>1 DEF ProcessEvent, Reached, AllOpen, Slotted, sockets, events
<1>11. CASE EnableAccept
  <2>0. /\ pc = "enable_accept" /\ AllOpen' /\ Slotted' /\ funps' /\ handled' = Listening
        /\ registered = {lis[l] : l \in 1..(i - 1)} /\ lis' = lis
    BY <1>11 DEF EnableAccept, Reached, AllOpen, Slotted, sockets
  <2>1. CASE i <= NListen /\ registered' = registered \cup {lis[i]} /\ i' = i + 1
             /\ UNCHANGED <<pc, fault>>
    <3>1. 1..((i + 1) - 1) = (1..(i - 1)) \cup {i}
      BY <1>0
    <3>2. registered' = {lis'[l] : l \in 1..(i' - 1)}
      BY <2>0, <2>1, <3>1
    <3> QED BY <2>0, <2>1, <3>2 DEF Reached
  <2>2. CASE i <= NListen /\ fault' = TRUE /\ pc' = "loop" /\ UNCHANGED <<i, registered>>
    BY <2>0, <2>2 DEF Reached
  <2>3. CASE i > NListen /\ pc' = "loop" /\ UNCHANGED <<i, registered, fault>>
    BY <1>0, <2>0, <2>3 DEF Reached
  <2> QED BY <1>11, <2>1, <2>2, <2>3 DEF EnableAccept
<1>12. CASE UNCHANGED vars
  BY <1>12 DEF vars, Reached, AllOpen, Slotted, sockets, loopvars, events
<1> QED BY <1>1, <1>2, <1>3, <1>4, <1>5, <1>6, <1>7, <1>8, <1>9, <1>10, <1>11, <1>12
        DEF Next, Over

LEMMA InvInit == Init => Inv
BY TypeInit, TakenInit, OwnedInit, ReachedInit DEF Inv

LEMMA InvStep == Inv /\ [Next]_vars => Inv'
BY TypeStep, TakenStep, OwnedStep, ReachedStep DEF Inv

LEMMA Invariant == Spec => []Inv
BY InvInit, InvStep, PTL DEF Spec

-----------------------------------------------------------------------------
\* Types: above all, no listener without a socket is ever registered.
THEOREM TypeCorrect == Spec => []TypeOK
<1>1. Inv => TypeOK
  BY DEF Inv
<1> QED BY <1>1, Invariant, PTL

LEMMA Ready == Inv => LoopIsReady
<1> SUFFICES ASSUME Inv, pc = "loop" PROVE LoopIsReady
  BY DEF LoopIsReady
<1>1. /\ AllOpen /\ Slotted /\ handled = Listening
      /\ registered = {lis[l] : l \in 1..(i - 1)}
      /\ i <= NListen => fault
  BY DEF Inv, Reached
<1>2. {s \in Fd : use[s] = "listening"} = {lis[l] : l \in Listening}
  BY <1>1 DEF Inv, Owned, AllOpen, TypeOK
<1>3. i > NListen => 1..(i - 1) = Listening
  BY ConstantsAreNat DEF Inv, TypeOK, Listening
<1>4. i <= NListen \/ i > NListen
  BY ConstantsAreNat DEF Inv, TypeOK
<1> QED BY <1>1, <1>2, <1>3, <1>4 DEF LoopIsReady, AllOpen, Slotted

\* Whenever the event loop is entered, every listener is open, in its slot and
\* has its handler, and all are registered but for a failed epoll_ctl.
THEOREM LoopStartsReady == Spec => []LoopIsReady
BY Ready, Invariant, PTL

LEMMA Bounded == Inv => SocketsBounded
<1> SUFFICES ASSUME Inv PROVE SocketsBounded
  OBVIOUS
<1> DEFINE S == {s \in Fd : use[s] \in {"socket", "listening"}}
           T == FirstFd..(FirstFd + Bound - 1)
<1>1. /\ Bound \in Nat /\ FirstFd \in Nat /\ Before \in Nat /\ NListen \in Nat
      /\ i \in 1..(NListen + 1) /\ FirstFd + Bound <= FirstFd + Tries * NListen
  BY BoundIsBounded, ConstantsAreNat DEF Inv, TypeOK
<1>2. \A s \in Fd : s \in Nat
  BY ConstantsAreNat DEF Fd
<1>3. S \subseteq T
  BY <1>1, <1>2 DEF Inv, Taken
<1>4. IsFiniteSet(T) /\ Cardinality(T) = Bound
  <2>1. FirstFd \in Int /\ FirstFd + Bound - 1 \in Int
    BY <1>1
  <2>2. /\ IsFiniteSet(T)
        /\ Cardinality(T) = IF FirstFd > FirstFd + Bound - 1 THEN 0
                            ELSE (FirstFd + Bound - 1) - FirstFd + 1
    BY <2>1, FS_Interval
  <2> HIDE DEF T
  <2> QED BY <1>1, <2>2
<1>5. Cardinality(S) \in Nat /\ Cardinality(S) <= Bound
  <2> HIDE DEF S, T
  <2> QED BY <1>3, <1>4, FS_Subset, FS_CardinalityType
<1>6. Bound <= Before + (i - 1) + (IF pc = "open" THEN 0 ELSE NListen)
  BY <1>1 DEF Bound, Opens
<1>7. Cardinality(S) <= Before + (i - 1) + (IF pc = "open" THEN 0 ELSE NListen)
  <2> HIDE DEF S
  <2> QED BY <1>1, <1>5, <1>6
<1>8. ASSUME NEW l \in Listening PROVE lis[l] < FirstFd + Tries * NListen
  <2> DEFINE b == FirstFd + Bound
             z == FirstFd + Tries * NListen
  <2>1. lis[l] \in Int /\ b \in Nat /\ z \in Int /\ b <= z
    BY <1>1, <1>2, ConstantsAreNat DEF Inv, TypeOK, NoFd
  <2>2. CASE lis[l] = NoFd
    <3>1. lis[l] < 0
      BY <2>2 DEF NoFd
    <3> HIDE DEF b, z
    <3>2. lis[l] < z
      BY <2>1, <3>1
    <3> QED BY <3>2 DEF z
  <2>3. CASE lis[l] # NoFd
    <3>1. lis[l] \in Fd /\ use[lis[l]] = "listening"
      BY <2>3 DEF Inv, TypeOK, Owned
    <3>2. lis[l] < b
      BY <3>1 DEF Inv, Taken
    <3> HIDE DEF b, z
    <3>3. lis[l] < z
      BY <2>1, <3>2
    <3> QED BY <3>3 DEF z
  <2> QED BY <2>2, <2>3
<1> QED BY <1>7, <1>8 DEF SocketsBounded, Before, Inv, Reached

\* However often bind fails, the sockets that startup leaves behind are bounded
\* by rounds and listeners, and no listener has a descriptor without a slot.
THEOREM SocketsAreBounded == Spec => []SocketsBounded
BY Bounded, Invariant, PTL
-----------------------------------------------------------------------------
(***************************************************************************)
(* How long startup can take.                                              *)
(***************************************************************************)
\* More than the listeners of a round, and what a round at most takes.
Turn == NListen + 2
Rounds == tries * Turn
ToGo == (NListen + 1) - i

StepsLeft ==
  CASE pc = "listening_init" -> 4 + Turn + Rounds + Turn
    [] pc = "open" -> 4 + Turn + Rounds + ToGo
    [] pc = "event_init" -> 3 + Turn
    [] pc = "http_init" -> 2 + Turn
    [] pc = "process_event" -> 1 + Turn
    [] pc = "enable_accept" -> 1 + ToGo
    [] OTHER -> 0

LEMMA RoundsCount ==
  ASSUME TypeOK
  PROVE  Rounds \in Nat /\ (tries - 1) * Turn = Rounds - Turn
<1>1. tries \in Nat /\ Turn \in Nat
  BY ConstantsAreNat DEF TypeOK, Turn
<1>2. \A a, b \in Nat : a * b \in Nat /\ (a - 1) * b = a * b - b
  <2>1. ASSUME NEW a \in Nat, NEW b \in Nat PROVE a * b \in Nat
    BY <2>1
  <2>2. ASSUME NEW a \in Nat, NEW b \in Nat PROVE (a - 1) * b = a * b - b
    BY <2>2
  <2> QED BY <2>1, <2>2
<1> QED BY <1>1, <1>2 DEF Rounds

LEMMA Counts ==
  ASSUME TypeOK
  PROVE  /\ Turn \in Nat /\ Turn = NListen + 2 /\ ToGo \in Nat /\ ToGo <= NListen
         /\ Rounds \in Nat
<1>1. i \in 1..(NListen + 1) /\ NListen \in Nat
  BY ConstantsAreNat DEF TypeOK
<1> QED BY <1>1, RoundsCount DEF Turn, ToGo

LEMMA StepsCount ==
  ASSUME TypeOK
  PROVE  StepsLeft \in Nat /\ (StepsLeft = 0 <=> pc \in {"loop", "crash", "overrun"})
<1>1. /\ Turn \in Nat /\ ToGo \in Nat /\ Rounds \in Nat
  BY Counts
<1>2. pc \in {"listening_init", "open", "event_init", "http_init", "process_event",
             "enable_accept", "loop", "crash", "overrun"}
  BY DEF TypeOK
<1> QED BY <1>1, <1>2 DEF StepsLeft

\* A step that is none of the loop's leaves less to do.
LEMMA StepLeavesLess ==
  ASSUME TypeOK, TypeOK', Next, ~Over
  PROVE  StepsLeft' < StepsLeft
<1>0. /\ Turn \in Nat /\ Turn = NListen + 2 /\ NListen \in Nat
      /\ ToGo \in Nat /\ ToGo <= NListen /\ Rounds \in Nat /\ Turn' = Turn
  BY Counts, ConstantsAreNat DEF Turn
<1>n. TypeOK' => (ToGo \in Nat /\ ToGo <= NListen /\ Rounds \in Nat)'
  BY Counts, PTL
<1>1. CASE ListeningInit
  <2>1. Rounds' = Rounds /\ ToGo' = ToGo
    BY <1>1 DEF ListeningInit, loopvars, Rounds, ToGo, Turn
  <2> QED BY <1>0, <1>1, <2>1 DEF ListeningInit, Error, StepsLeft
<1>2. CASE Opened \/ BindFails \/ Listens
  <2>1. pc = "open" /\ pc' = "open" /\ tries' = tries /\ i' = i + 1
    BY <1>2 DEF Opened, BindFails, Listens, Unopened, Opening, NextListener
  <2>2. Rounds' = Rounds /\ ToGo' = ToGo - 1
    BY <2>1, ConstantsAreNat DEF Rounds, ToGo, Turn, TypeOK
  <2> QED BY <1>0, <2>1, <2>2 DEF StepsLeft
<1>3. CASE SocketFails \/ SetupFails
  <2>1. pc = "open" /\ pc' = "process_event"
    BY <1>3 DEF SocketFails, SetupFails, Unopened, Opening, Error
  <2> QED BY <1>0, <2>1 DEF StepsLeft
<1>4. CASE Round
  <2>1. pc = "open"
    BY <1>4 DEF Round
  <2>2. CASE pc' \in {"event_init", "process_event"}
    BY <1>0, <2>1, <2>2 DEF StepsLeft
  <2>3. CASE pc' = pc /\ tries' = tries - 1
    <3>1. Rounds' = Rounds - Turn
      <4>1. Rounds' = (tries - 1) * Turn
        BY <2>3 DEF Rounds, Turn
      <4> QED BY <4>1, RoundsCount
    <3>2. ToGo' \in Nat /\ ToGo' <= NListen
      BY <1>n
    <3> QED BY <1>0, <2>1, <2>3, <3>1, <3>2 DEF StepsLeft
  <2> QED BY <1>4, <2>2, <2>3 DEF Round, Error
<1>5. CASE EventInit
  <2>1. pc = "event_init" /\ pc' \in {"process_event", "overrun", "http_init"}
    BY <1>5 DEF EventInit, Error
  <2> QED BY <1>0, <2>1 DEF StepsLeft
<1>6. CASE HttpInit
  BY <1>0, <1>6 DEF HttpInit, StepsLeft
<1>7. CASE ProcessEvent
  <2>1. pc = "process_event" /\ pc' \in {"crash", "enable_accept"}
    BY <1>7 DEF ProcessEvent
  <2>2. ToGo' \in Nat /\ ToGo' <= NListen
    BY <1>n
  <2> QED BY <1>0, <2>1, <2>2 DEF StepsLeft
<1>8. CASE EnableAccept
  <2>1. pc = "enable_accept" /\ (pc' = "loop" \/ (pc' = pc /\ i' = i + 1))
    BY <1>8 DEF EnableAccept
  <2>2. CASE pc' = "loop"
    BY <1>0, <2>1, <2>2 DEF StepsLeft
  <2>3. CASE pc' = pc /\ i' = i + 1
    <3>1. ToGo' = ToGo - 1
      BY <2>3, ConstantsAreNat DEF ToGo, TypeOK
    <3> QED BY <1>0, <2>1, <2>3, <3>1 DEF StepsLeft
  <2> QED BY <2>1, <2>2, <2>3
<1> QED BY <1>1, <1>2, <1>3, <1>4, <1>5, <1>6, <1>7, <1>8 DEF Next

\* What startup has left to do at first: a number of steps that its rounds and
\* its listeners bound.
StepsAtMost == 4 + (Tries + 2) * (NListen + 2)

LEMMA StepsAtFirst == Init => StepsLeft = StepsAtMost
<1> SUFFICES ASSUME Init PROVE StepsLeft = StepsAtMost
  OBVIOUS
<1>1. StepsLeft = 4 + (NListen + 2) + Tries * (NListen + 2) + (NListen + 2)
  BY DEF Init, StepsLeft, Turn, Rounds
<1>2. Tries \in Nat /\ NListen + 2 \in Nat
  BY ConstantsAreNat
<1>3. \A a, b \in Nat : 4 + b + a * b + b = 4 + (a + 2) * b
  OBVIOUS
<1> QED BY <1>1, <1>2, <1>3 DEF StepsAtMost

\* The safety part of Starts: startup has at first so many steps to go, each
\* step that changes anything leaves fewer, and none are left only where it has
\* come to an end, whatever fails and however often bind does.
THEOREM StartupIsShort ==
  Spec => /\ StepsLeft = StepsAtMost
          /\ [](StepsLeft \in Nat /\ (StepsLeft = 0 <=> pc \in {"loop", "crash"}))
          /\ [][StepsLeft' < StepsLeft]_vars
<1>1. Inv => StepsLeft \in Nat /\ (StepsLeft = 0 <=> pc \in {"loop", "crash"})
  BY StepsCount DEF Inv, Reached
<1>2. Inv /\ Inv' /\ [Next]_vars => [StepsLeft' < StepsLeft]_vars
  <2>1. TypeOK /\ TypeOK' /\ Next /\ ~Over => StepsLeft' < StepsLeft
    BY StepLeavesLess
  <2>2. Over => UNCHANGED vars
    BY DEF Over
  <2> QED BY <2>1, <2>2 DEF Inv
<1>3. Init => StepsLeft = StepsAtMost
  BY StepsAtFirst
<1> QED BY <1>1, <1>2, <1>3, Invariant, PTL DEF Spec
=============================================================================
