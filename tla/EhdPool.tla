------------------------------- MODULE EhdPool -------------------------------
(***************************************************************************)
(* A memory pool with its users: an array and a list in it, buffers and    *)
(* plain allocations between their growth, and its end.  A pool is a list  *)
(* of blocks of one size, each beginning with its own administration, and  *)
(* a list of large pieces whose nodes lie in the blocks.  Addresses are    *)
(* pairs: a chunk that malloc has returned (block i is i, large piece i is *)
(* -i) and an offset in it; nothing is known of where chunks lie.          *)
(*                                                                         *)
(* malloc may fail at any call, and does when MaxChunks are handed out or  *)
(* more than MaxAlloc is asked for.  One unit of memory stands for any     *)
(* number of bytes; the sizes of the structures are parameters.            *)
(***************************************************************************)
EXTENDS Integers, Sequences, FiniteSets

CONSTANTS
  BlockSize,    \* size of a block with its administration: pool->end - pool
  Hdr,          \* sizeof(ehd_pool_t)
  MaxFromPool,  \* EHD_MAX_ALLOC_FROM_POOL
  LargeNode, ArraySize, ListSize, ListNode, BufSize,  \* of the other structures
  ElSize,       \* size of an element of the array and of the list
  ArrayN, ListN,  \* elements the array begins with, elements of a list node
  Sizes,        \* what the other users ask for
  MaxChunks, MaxAlloc

ASSUME SizesAssumption ==
  /\ {BlockSize, Hdr, MaxFromPool, MaxChunks, MaxAlloc} \subseteq Nat
  /\ {LargeNode, ArraySize, ListSize, ListNode, BufSize, ElSize, ArrayN, ListN}
       \subseteq Nat \ {0}
  /\ Sizes \subseteq Nat \ {0}
ASSUME BlockAssumption ==
  /\ MaxChunks > 0 /\ BlockSize <= MaxAlloc
  /\ \A n \in {LargeNode, ArraySize, ListSize, ListNode, BufSize} :
       Hdr + n <= BlockSize /\ n <= MaxFromPool

VARIABLES
  pool,   \* the next free offset of each block, the large pieces with their
          \* nodes, and the regions handed out, each with its owner
  array, list,
  mem,    \* what the memory holds: an element is its number, else 0
  pc,     \* "run", where ehd_destroy_pool is, "null" for a null dereference
  freed   \* chunks given back to malloc, in this order

vars == <<pool, array, list, mem, pc, freed>>

Chunks == -MaxChunks..MaxChunks
Addr == [chunk : Chunks, off : 0..MaxAlloc]
NULL == [chunk |-> 0, off |-> 0]
At(c, o) == [chunk |-> c, off |-> o]
Plus(a, n) == At(a.chunk, a.off + n)
Owners == {"pool", "array", "list", "other"}
Region(a, n, who) == [at |-> a, size |-> n, owner |-> who]

Pool(b, l, v) == [blocks |-> b, large |-> l, live |-> v]
Array(a, d, block, data) == [at |-> a, data |-> d, nblock |-> block, ndata |-> data]
Node(d, n) == [data |-> d, ndata |-> n]

NoArray == Array(NULL, NULL, 0, 0)
Gone == Array(NULL, NULL, ArrayN, 0)  \* destroyed, and not created again
\* An array that is a member of another structure, wherever that lies; its
\* fields are not set when ehd_array_init has failed.
Embedded == At(0, 1)
Unset == Array(Embedded, NULL, 0, 0)
NoList == [at |-> NULL, nodes |-> <<>>]

Init ==
  /\ pool = Pool(<<Hdr>>, <<>>, {})
  /\ array = NoArray /\ list = NoList
  /\ mem = [c \in Chunks \X (0..MaxAlloc) |-> 0]
  /\ pc = "run" /\ freed = <<>>

-----------------------------------------------------------------------------
MallocMay(p, n) == Len(p.blocks) + Len(p.large) < MaxChunks /\ n <= MaxAlloc
Fails(p) == [pool |-> p, at |-> NULL]
Gives(b, l, v, a, n, who) == [pool |-> Pool(b, l, v \cup {Region(a, n, who)}), at |-> a]

\* Broken variant: the size of the blocks is forgotten.
FitsAnyBlock(n) == n <= MaxFromPool

Fits(n) == n <= MaxFromPool /\ n <= BlockSize - Hdr

\* ehd_palloc, first half: the first block with room, or a new one.
Room(p, n) == {i \in DOMAIN p.blocks : n <= BlockSize - p.blocks[i]}
Small(p, n, who) ==
  IF Room(p, n) # {}
  THEN {Gives([p.blocks EXCEPT ![i] = @ + n], p.large, p.live, At(i, p.blocks[i]), n, who) :
          i \in {j \in Room(p, n) : \A k \in Room(p, n) : j <= k}}
  ELSE {Fails(p)} \cup
       IF MallocMay(p, BlockSize)
       THEN {Gives(Append(p.blocks, Hdr + n), p.large, p.live,
                   At(Len(p.blocks) + 1, Hdr), n, who)}
       ELSE {}

\* Second half: a node in a block, then the piece itself.  A node whose piece
\* malloc refuses is not linked.  (No data is ever NULL: there is no free for
\* a single piece, and the search for a node to use again finds none.)
Large(p, n, who) ==
  UNION {IF r.at = NULL THEN {r}
         ELSE {Fails(r.pool)} \cup
              IF MallocMay(r.pool, n)
              THEN {Gives(r.pool.blocks, Append(r.pool.large, [node |-> r.at, size |-> n]),
                          r.pool.live, At(-(Len(p.large) + 1), 0), n, who)}
              ELSE {} : r \in Small(p, LargeNode, "pool")}

\* The outcomes of ehd_palloc.
Palloc(p, n, who) == IF Fits(n) THEN Small(p, n, who) ELSE Large(p, n, who)

In(c, a, n) == c[1] = a.chunk /\ c[2] >= a.off /\ c[2] < a.off + n
Write(m, a, n, v) == [c \in DOMAIN m |-> IF In(c, a, n) THEN v ELSE m[c]]
Copy(m, to, from, n) ==
  [c \in DOMAIN m |-> IF In(c, to, n) THEN m[<<from.chunk, from.off + c[2] - to.off>>] ELSE m[c]]

-----------------------------------------------------------------------------
Run == pc = "run" /\ UNCHANGED freed
Null == pc' = "null" /\ UNCHANGED <<array, list, mem>>

\* Some other user allocates and writes all it got (ehd_pcalloc writes zeros).
Allocate(n) ==
  /\ Run /\ UNCHANGED <<array, list, pc>>
  /\ \E r \in Palloc(pool, n, "other") :
       pool' = r.pool /\ mem' = IF r.at = NULL THEN mem ELSE Write(mem, r.at, n, 0)

CreateTempBuf(n) ==
  /\ Run /\ UNCHANGED <<array, list, pc>>
  /\ \E b \in Palloc(pool, BufSize, "other") :
       \/ b.at = NULL /\ pool' = b.pool /\ UNCHANGED mem
       \/ /\ b.at # NULL
          /\ \E s \in Palloc(b.pool, n, "other") :
               /\ pool' = s.pool
               /\ LET m == Write(mem, b.at, BufSize, 0)
                  IN mem' = IF s.at = NULL THEN m ELSE Write(m, s.at, n, 0)

\* ehd_array_create looks at neither result; only that of the struct is used.
ArrayCreate ==
  /\ Run /\ array = NoArray
  /\ \E s \in Palloc(pool, ArraySize, "array") :
       \/ s.at = NULL /\ pool' = s.pool /\ Null
       \/ /\ s.at # NULL
          /\ \E d \in Palloc(s.pool, ElSize * ArrayN, "array") :
               /\ pool' = d.pool
               /\ array' = Array(s.at, d.at, ArrayN, 0)
          /\ mem' = Write(mem, s.at, ArraySize, 0) /\ UNCHANGED <<list, pc>>

\* ehd_array_init, for the cookies of a request and the listeners of the cycle.
\* It has no return statement where it succeeds, so that a caller who compares
\* the result may take it for EHD_ERROR and destroy the pool, as it may anyway.
ArrayInit ==
  /\ Run /\ array = NoArray /\ UNCHANGED <<list, mem, pc>>
  /\ \E d \in Palloc(pool, ElSize * ArrayN, "array") :
       /\ pool' = d.pool
       /\ array' = IF d.at = NULL THEN Unset ELSE Array(Embedded, d.at, ArrayN, 0)

\* The array is the last thing in the first block and there is room behind it.
AtLast(p) == array.data.chunk = 1 /\ array.data.off + ElSize * array.ndata = p.blocks[1]
\* Broken variant: room is enough.
InPlaceAnywhere == array.data.chunk = 1 /\ BlockSize - pool.blocks[1] >= ElSize
InPlace == AtLast(pool) /\ BlockSize - pool.blocks[1] >= ElSize

\* Broken variant: ndata, not yet multiplied by the size, is copied.
GrownShort(new) == Copy(mem, new, array.data, array.nblock)
Grown(new) == Copy(mem, new, array.data, ElSize * array.nblock)

\* The new element gets the number it has.
Element(d, m) == mem' = Write(m, Plus(d, ElSize * array.ndata), ElSize, array.ndata + 1)
Pushed(d, block) == array' = Array(array.at, d, block, array.ndata + 1)

ArrayPush ==
  /\ Run /\ array.data # NULL /\ UNCHANGED <<list, pc>>
  /\ \/ /\ array.ndata < array.nblock
        /\ Element(array.data, mem) /\ Pushed(array.data, array.nblock) /\ UNCHANGED pool
     \/ /\ array.ndata = array.nblock /\ InPlace
        /\ pool' = Gives([pool.blocks EXCEPT ![1] = @ + ElSize], pool.large, pool.live,
                         At(1, pool.blocks[1]), ElSize, "array").pool
        /\ Element(array.data, mem) /\ Pushed(array.data, array.nblock + 1)
     \/ /\ array.ndata = array.nblock /\ ~InPlace
        /\ \E r \in Palloc(pool, 2 * ElSize * array.nblock, "array") :
             /\ pool' = r.pool
             /\ \/ r.at = NULL /\ UNCHANGED <<array, mem>>
                \/ /\ r.at # NULL
                   /\ Element(r.at, Grown(r.at)) /\ Pushed(r.at, 2 * array.nblock)

\* The element is written through the null pointer of ehd_array_create, or the
\* push reads the pool from a struct that ehd_array_init has not set, as
\* ehd_cycle_init looks at no result: it crashes, or anything may follow.
ArrayPushNull ==
  Run /\ array.at # NULL /\ array.data = NULL /\ UNCHANGED pool /\ Null

\* ehd_array_destroy gives back what lies at the end of the first block: the
\* elements if all that were reserved are used, then the array itself.
ArrayDestroy ==
  /\ Run /\ array \notin {NoArray, Gone, Unset}
  /\ LET last == IF AtLast(pool) THEN array.data.off ELSE pool.blocks[1]
         all == IF array.at.chunk = 1 /\ array.at.off + ArraySize = last
                THEN array.at.off ELSE last
     IN pool' = Pool([pool.blocks EXCEPT ![1] = all], pool.large,
                     {r \in pool.live : r.owner # "array"})
  /\ array' = Gone /\ UNCHANGED <<list, mem, pc>>

ListCreate ==
  /\ Run /\ list = NoList /\ UNCHANGED <<array, pc>>
  /\ \E s \in Palloc(pool, ListSize, "list") :
       \/ s.at = NULL /\ pool' = s.pool /\ UNCHANGED <<list, mem>>
       \/ /\ s.at # NULL
          /\ mem' = Write(mem, s.at, ListSize, 0)
          /\ \E d \in Palloc(s.pool, ElSize * ListN, "list") :
               /\ pool' = d.pool
               /\ list' = IF d.at = NULL THEN NoList
                          ELSE [at |-> s.at, nodes |-> <<Node(d.at, 0)>>]

ListElement(nodes, m) ==
  LET k == Len(nodes)
      n == nodes[k].ndata
  IN /\ list' = [at |-> list.at, nodes |-> [nodes EXCEPT ![k] = Node(nodes[k].data, n + 1)]]
     /\ mem' = Write(m, Plus(nodes[k].data, ElSize * n), ElSize, ListN * (k - 1) + n + 1)

\* A full last node is followed by a new one, which is linked when both its
\* allocations have succeeded.
ListPush ==
  /\ Run /\ list # NoList /\ UNCHANGED <<array, pc>>
  /\ IF list.nodes[Len(list.nodes)].ndata < ListN
     THEN ListElement(list.nodes, mem) /\ UNCHANGED pool
     ELSE \E s \in Palloc(pool, ListNode, "list") :
            \/ s.at = NULL /\ pool' = s.pool /\ UNCHANGED <<list, mem>>
            \/ /\ s.at # NULL
               /\ \E d \in Palloc(s.pool, ListN * ElSize, "list") :
                    /\ pool' = d.pool
                    /\ LET m == Write(mem, s.at, ListNode, 0)
                       IN \/ d.at = NULL /\ mem' = m /\ UNCHANGED list
                          \/ /\ d.at # NULL
                             /\ ListElement(Append(list.nodes, Node(d.at, 0)), m)

-----------------------------------------------------------------------------
\* ehd_destroy_pool.  What was in the pool is not used any more, but for the
\* nodes of the large pieces, which lie in the blocks.
Forget ==
  /\ pool' = Pool(pool.blocks, pool.large, {})
  /\ array' = Gone /\ list' = NoList /\ mem' = [c \in DOMAIN mem |-> 0]

\* Broken variant: the large pieces are forgotten.
DestroyBlocks == Run /\ pc' = "blocks" /\ Forget

Destroy == Run /\ pc' = "large" /\ Forget

Free(c) == freed' = Append(freed, c) /\ UNCHANGED <<pool, array, list, mem>>

\* Pieces are freed in the order of their list; l is the number of the next.
FreeLarge ==
  /\ pc = "large"
  /\ LET l == Len(freed) + 1
     IN \/ l <= Len(pool.large) /\ Free(-l) /\ UNCHANGED pc
        \/ l > Len(pool.large) /\ pc' = "blocks" /\ UNCHANGED <<pool, array, list, mem, freed>>

\* Then the blocks; the link to the next is read before a block is freed.
FreeBlock ==
  /\ pc = "blocks"
  /\ LET p == Len(freed) - Len(pool.large) + 1
     IN Free(p) /\ pc' = IF p = Len(pool.blocks) THEN "destroyed" ELSE "blocks"

Over == pc \in {"destroyed", "null"} /\ UNCHANGED vars

Next ==
  \/ \E n \in Sizes : Allocate(n) \/ CreateTempBuf(n)
  \/ ArrayCreate \/ ArrayInit \/ ArrayPush \/ ArrayPushNull \/ ArrayDestroy
  \/ ListCreate \/ ListPush
  \/ Destroy \/ FreeLarge \/ FreeBlock \/ Over

Spec == Init /\ [][Next]_vars

-----------------------------------------------------------------------------
Inside(p, r) ==
  IF r.at.chunk > 0
  THEN /\ r.at.chunk \in DOMAIN p.blocks
       /\ r.at.off >= Hdr /\ r.at.off + r.size <= p.blocks[r.at.chunk]
  ELSE /\ -r.at.chunk \in DOMAIN p.large
       /\ r.at.off + r.size <= p.large[-r.at.chunk].size

Apart(r, s) ==
  \/ r.at.chunk # s.at.chunk
  \/ r.at.off + r.size <= s.at.off \/ s.at.off + s.size <= r.at.off

Covers(r, a) ==
  r.at.chunk = a.chunk /\ r.at.off <= a.off /\ a.off + ElSize <= r.at.off + r.size

TypeOK ==
  /\ pool.blocks \in Seq(Hdr..BlockSize) /\ Len(pool.blocks) > 0
  /\ pool.large \in Seq([node : Addr, size : 0..MaxAlloc])
  /\ Len(pool.blocks) + Len(pool.large) <= MaxChunks
  /\ \A r \in pool.live : r \in [at : Addr, size : 1..MaxAlloc, owner : Owners]
  /\ array \in [at : Addr, data : Addr, nblock : Nat, ndata : Nat]
  /\ array.ndata <= array.nblock
  /\ list.at \in Addr /\ list.nodes \in Seq([data : Addr, ndata : 0..ListN])
  /\ pc \in {"run", "large", "blocks", "destroyed", "null"}
  /\ freed \in Seq(Chunks \ {0})

\* No two users get the same memory: what is handed out lies inside its chunk,
\* behind the administration and before the offset that is handed out next,
\* and apart from everything else, whatever grew in place, moved or was given
\* back in between; and the elements of the array and of the list lie in
\* memory that is theirs.
OwnMemory ==
  /\ \A r \in pool.live : Inside(pool, r)
  /\ \A r, s \in pool.live : r # s => Apart(r, s)
  /\ array.data # NULL => \A k \in 0..(array.nblock - 1) :
       \E r \in pool.live : r.owner = "array" /\ Covers(r, Plus(array.data, ElSize * k))
  /\ \A i \in DOMAIN list.nodes :
       \E r \in pool.live : r.owner = "list" /\ r.at = list.nodes[i].data
                             /\ r.size = ElSize * ListN

\* The array and the list give back what was pushed, in its order, through
\* growth in place, growth by moving, new nodes and failed pushes in between
\* (test/test_all.c:32-58 reads a list back, and only pushes to the array).
ReadBack ==
  /\ \A k \in 0..(array.ndata - 1), b \in 0..(ElSize - 1) :
       mem[<<array.data.chunk, array.data.off + ElSize * k + b>>] = k + 1
  /\ \A i \in DOMAIN list.nodes : \A n \in 0..(list.nodes[i].ndata - 1) :
       mem[<<list.nodes[i].data.chunk, list.nodes[i].data.off + ElSize * n>>]
         = ListN * (i - 1) + n + 1
  /\ \A i \in 1..(Len(list.nodes) - 1) : list.nodes[i].ndata = ListN

\* Destroying a pool gives every chunk back once, and it does not read a node
\* or a block that is already freed.
FreedOnce ==
  /\ \A i, k \in DOMAIN freed : i # k => freed[i] # freed[k]
  /\ pc = "large" => \A i \in DOMAIN pool.large : \A k \in DOMAIN freed :
       freed[k] # pool.large[i].node.chunk
  /\ pc = "destroyed" =>
       {freed[i] : i \in DOMAIN freed}
         = DOMAIN pool.blocks \cup {-i : i \in DOMAIN pool.large}
=============================================================================
