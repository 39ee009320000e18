--------------------------- MODULE EhdPoolProofs ----------------------------
(***************************************************************************)
(* Proofs about EhdPool, for any sizes of blocks, structures and elements: *)
(* no two users of a pool share memory, what is pushed to the array and to *)
(* the list is read back from them, and a destroyed pool gives every chunk *)
(* back once.                                                              *)
(*                                                                         *)
(* PoolOK is kept by every outcome of ehd_palloc (PallocRight); the other  *)
(* parts of the invariant say where the memory of the array and of the     *)
(* list is, which only needs that nothing handed out is taken back, and    *)
(* what ehd_destroy_pool has freed so far.                                 *)
(*                                                                         *)
(* HoldsInv is about the contents of the memory: it needs that a region is *)
(* apart from all those handed out before it when its user first writes to *)
(* it, which Outcome says of ehd_palloc, and that regions stay apart.      *)
(***************************************************************************)
EXTENDS EhdPool, SequenceTheorems, TLAPS

RegionRec == [at : Addr, size : 1..MaxAlloc, owner : Owners]
Large0 == [node : Addr, size : 0..MaxAlloc]

Shape(p) ==
  /\ p.blocks \in Seq(Hdr..BlockSize) /\ Len(p.blocks) > 0
  /\ p.large \in Seq(Large0)
  /\ Len(p.blocks) + Len(p.large) <= MaxChunks
  /\ \A i \in DOMAIN p.large : p.large[i].node.chunk > 0

Regions(p) ==
  /\ \A r \in p.live : r \in RegionRec /\ Inside(p, r)
  /\ \A r, s \in p.live : r # s => Apart(r, s)

PoolOK(p) == Shape(p) /\ Regions(p)

\* Every byte, and every element, of n elements at d lies in memory of the array.
BytesIn(v, d, n) ==
  \A x \in d.off..(d.off + ElSize * n - 1) :
    \E r \in v : /\ r.owner = "array" /\ r.at.chunk = d.chunk
                 /\ r.at.off <= x /\ x < r.at.off + r.size
ElementsIn(v, d, n) ==
  \A k \in 0..(n - 1) : \E r \in v : r.owner = "array" /\ Covers(r, Plus(d, ElSize * k))

ArrayParts(v, a) ==
  /\ a \in [at : Addr, data : Addr, nblock : Nat, ndata : Nat]
  /\ a.ndata <= a.nblock
  /\ a.at \notin {NULL, Embedded} => Region(a.at, ArraySize, "array") \in v
  /\ a.data # NULL => /\ a.nblock > 0
                      /\ BytesIn(v, a.data, a.nblock) /\ ElementsIn(v, a.data, a.nblock)

ListParts(v, l) ==
  /\ l.at \in Addr /\ l.nodes \in Seq([data : Addr, ndata : 0..ListN])
  /\ l # NoList => Len(l.nodes) > 0
  /\ \A i \in DOMAIN l.nodes : Region(l.nodes[i].data, ElSize * ListN, "list") \in v

\* What is freed, in its order.
InOrder ==
  \A i \in 1..Len(freed) :
    freed[i] = IF i <= Len(pool.large) THEN -i ELSE i - Len(pool.large)

FreedOK ==
  /\ pc \in {"run", "large", "blocks", "destroyed", "null"}
  /\ freed \in Seq(Chunks \ {0})
  /\ InOrder
  /\ pc \in {"run", "null"} => Len(freed) = 0
  /\ pc = "large" => Len(freed) <= Len(pool.large)
  /\ pc = "blocks" => /\ Len(pool.large) <= Len(freed)
                      /\ Len(freed) < Len(pool.large) + Len(pool.blocks)
  /\ pc = "destroyed" => Len(freed) = Len(pool.large) + Len(pool.blocks)

Inv ==
  /\ PoolOK(pool) /\ FreedOK
  /\ ArrayParts(pool.live, array) /\ ListParts(pool.live, list)

-----------------------------------------------------------------------------
(***************************************************************************)
(* The allocator.                                                          *)
(***************************************************************************)
LEMMA ConstantsAreNat ==
  /\ BlockSize \in Nat /\ Hdr \in Nat /\ MaxFromPool \in Nat /\ MaxChunks \in Nat
  /\ MaxAlloc \in Nat /\ BlockSize <= MaxAlloc
  /\ LargeNode \in Nat \ {0} /\ ArraySize \in Nat \ {0} /\ ListSize \in Nat \ {0}
  /\ ListNode \in Nat \ {0} /\ BufSize \in Nat \ {0} /\ ElSize \in Nat \ {0}
  /\ ArrayN \in Nat \ {0} /\ ListN \in Nat \ {0}
  /\ \A n \in Sizes : n \in Nat \ {0}
  /\ Hdr + LargeNode <= BlockSize /\ LargeNode <= MaxFromPool
  /\ MaxChunks > 0 /\ Hdr <= BlockSize
BY SizesAssumption, BlockAssumption

\* Two positive sizes have a positive product.
LEMMA Product ==
  ASSUME NEW a \in Nat \ {0}, NEW b \in Nat \ {0}
  PROVE  a * b \in Nat \ {0} /\ a * b = b * a
OBVIOUS

LEMMA ApartBothWays ==
  ASSUME NEW r \in RegionRec, NEW s \in RegionRec, Apart(r, s)
  PROVE  Apart(s, r)
BY DEF Apart

LEMMA RegionHas ==
  ASSUME NEW a, NEW n, NEW who
  PROVE  /\ Region(a, n, who).at = a /\ Region(a, n, who).size = n
         /\ Region(a, n, who).owner = who
BY DEF Region

\* A region that is inside its chunk and apart from all others.
LEMMA AddRegion ==
  ASSUME NEW v, NEW p, NEW g \in RegionRec, Shape(p), p.live = v \cup {g}, Inside(p, g),
         \A s \in v : s \in RegionRec /\ Inside(p, s) /\ Apart(g, s),
         \A s, t \in v : s # t => Apart(s, t)
  PROVE  PoolOK(p)
<1>1. \A s \in v : Apart(s, g)
  BY ApartBothWays
<1> QED BY <1>1 DEF PoolOK, Regions

LEMMA PoolHas ==
  ASSUME NEW b, NEW l, NEW v
  PROVE  Pool(b, l, v).blocks = b /\ Pool(b, l, v).large = l /\ Pool(b, l, v).live = v
BY DEF Pool

LEMMA AtIsAddr ==
  ASSUME NEW c \in Chunks, NEW o \in 0..MaxAlloc
  PROVE  At(c, o) \in Addr /\ At(c, o).chunk = c /\ At(c, o).off = o
BY DEF At, Addr

LEMMA Sums ==
  ASSUME NEW a \in Nat, NEW b \in Nat, NEW c \in Nat
  PROVE  /\ a > 0 /\ a + b <= c => a \in 1..c /\ b \in 0..c /\ a <= c
         /\ a + b < c => a + 1 \in 1..c /\ b + 1 \in 1..c /\ a + 1 + b <= c /\ a + (b + 1) <= c
OBVIOUS

\* The parts of a pool have their sizes.
LEMMA Lens ==
  ASSUME NEW p, Shape(p)
  PROVE  /\ Len(p.blocks) \in 1..MaxChunks /\ Len(p.large) \in 0..MaxChunks
         /\ Len(p.blocks) \in Nat /\ Len(p.large) \in Nat
         /\ Len(p.blocks) > 0 /\ Len(p.blocks) <= MaxChunks
         /\ Len(p.blocks) + Len(p.large) <= MaxChunks
         /\ DOMAIN p.blocks = 1..Len(p.blocks) /\ DOMAIN p.large = 1..Len(p.large)
         /\ \A k \in DOMAIN p.blocks :
              /\ p.blocks[k] \in Int /\ Hdr <= p.blocks[k] /\ p.blocks[k] <= BlockSize
         /\ \A k \in DOMAIN p.large : p.large[k] \in Large0
<1>1. /\ Len(p.blocks) \in Nat /\ DOMAIN p.blocks = 1..Len(p.blocks)
      /\ Len(p.large) \in Nat /\ DOMAIN p.large = 1..Len(p.large)
  BY LenProperties DEF Shape
<1>2. \A k \in DOMAIN p.blocks : p.blocks[k] \in Hdr..BlockSize
  BY <1>1, ElementOfSeq DEF Shape
<1>3. \A k \in DOMAIN p.large : p.large[k] \in Large0
  BY <1>1, ElementOfSeq DEF Shape
<1>4. Hdr \in Nat /\ BlockSize \in Nat /\ MaxChunks \in Nat
  BY ConstantsAreNat
<1>5. Len(p.blocks) > 0 /\ Len(p.blocks) + Len(p.large) <= MaxChunks
  BY DEF Shape
<1>6. /\ Len(p.blocks) \in 1..MaxChunks /\ Len(p.large) \in 0..MaxChunks
      /\ Len(p.blocks) <= MaxChunks
  <2> DEFINE m == Len(p.blocks)
             h == Len(p.large)
  <2>1. m \in Nat /\ h \in Nat /\ m > 0 /\ m + h <= MaxChunks
    BY <1>1, <1>5
  <2> HIDE DEF m, h
  <2>2. m \in 1..MaxChunks /\ h \in 0..MaxChunks /\ m <= MaxChunks
    BY <1>4, <2>1, Sums
  <2> QED BY <2>2 DEF m, h
<1>7. ASSUME NEW k \in DOMAIN p.blocks
      PROVE  p.blocks[k] \in Int /\ Hdr <= p.blocks[k] /\ p.blocks[k] <= BlockSize
  BY <1>2, <1>4
<1> QED BY <1>1, <1>3, <1>5, <1>6, <1>7

LEMMA RoomForChunk ==
  ASSUME NEW p, Shape(p), Len(p.blocks) + Len(p.large) < MaxChunks
  PROVE  /\ Len(p.blocks) + 1 \in 1..MaxChunks /\ Len(p.large) + 1 \in 1..MaxChunks
         /\ Len(p.blocks) + 1 + Len(p.large) <= MaxChunks
         /\ Len(p.blocks) + (Len(p.large) + 1) <= MaxChunks
<1> DEFINE m == Len(p.blocks)
           h == Len(p.large)
<1>1. m \in Nat /\ h \in Nat /\ MaxChunks \in Nat /\ m + h < MaxChunks
  BY Lens, ConstantsAreNat
<1> HIDE DEF m, h
<1>2. m + 1 \in 1..MaxChunks /\ h + 1 \in 1..MaxChunks /\ m + 1 + h <= MaxChunks
      /\ m + (h + 1) <= MaxChunks
  BY <1>1, Sums
<1> QED BY <1>2 DEF m, h

\* Room behind the end of a block is given out.
LEMMA BlockGrows ==
  ASSUME NEW p, PoolOK(p), NEW i \in DOMAIN p.blocks, NEW n \in Nat \ {0},
         n <= BlockSize - p.blocks[i], NEW who \in Owners
  PROVE  LET g == Region(At(i, p.blocks[i]), n, who)
             q == Pool([p.blocks EXCEPT ![i] = @ + n], p.large, p.live \cup {g})
         IN /\ PoolOK(q) /\ At(i, p.blocks[i]) \in Addr /\ At(i, p.blocks[i]) # NULL
            /\ \A r \in p.live : Apart(g, r)
            /\ \A r \in p.live : r.at.chunk = i => r.at.off + r.size <= p.blocks[i]
<1> DEFINE a == At(i, p.blocks[i])
           g == Region(a, n, who)
           b == [p.blocks EXCEPT ![i] = @ + n]
           q == Pool(b, p.large, p.live \cup {g})
<1>1. /\ p.blocks \in Seq(Hdr..BlockSize) /\ Len(p.blocks) > 0
      /\ Len(p.blocks) \in Nat /\ Len(p.large) \in Nat
      /\ DOMAIN p.blocks = 1..Len(p.blocks) /\ Len(p.blocks) <= MaxChunks
      /\ p.blocks[i] \in Hdr..BlockSize
  <2>1. Hdr \in Nat /\ BlockSize \in Nat /\ MaxChunks \in Nat
    BY ConstantsAreNat
  <2>2. Shape(p) /\ p.blocks \in Seq(Hdr..BlockSize)
    BY DEF PoolOK, Shape
  <2>3. p.blocks[i] \in Hdr..BlockSize
    BY <2>2, ElementOfSeq, Lens
  <2> QED BY <2>2, <2>3, Lens
<1>2. /\ b \in Seq(Hdr..BlockSize) /\ Len(b) = Len(p.blocks) /\ DOMAIN b = DOMAIN p.blocks
      /\ b[i] = p.blocks[i] + n /\ \A k \in DOMAIN p.blocks : k # i => b[k] = p.blocks[k]
  <2>1. p.blocks[i] + n \in Hdr..BlockSize
    BY <1>1, ConstantsAreNat
  <2> QED BY <1>1, <2>1, ExceptSeq
<1>3. a \in Addr /\ a.chunk = i /\ a.off = p.blocks[i] /\ i > 0 /\ a # NULL
  <2>1. i \in Chunks /\ p.blocks[i] \in 0..MaxAlloc /\ i > 0
    BY <1>1, ConstantsAreNat DEF Chunks
  <2>2. NULL.chunk = 0
    BY DEF NULL
  <2> QED BY <2>1, <2>2, AtIsAddr
<1>4. n \in 1..MaxAlloc
  BY <1>1, ConstantsAreNat
<1>5. g \in RegionRec /\ g.at = a /\ g.size = n
  BY <1>3, <1>4 DEF Region, RegionRec
<1>6. q.blocks = b /\ q.large = p.large /\ q.live = p.live \cup {g}
  BY PoolHas
<1> HIDE DEF b, q, g, a
<1>7. Shape(q)
  BY <1>1, <1>2, <1>6 DEF PoolOK, Shape
<1>8. Inside(q, g)
  <2>1. /\ g.at.chunk = i /\ g.at.off = p.blocks[i] /\ q.blocks[i] = p.blocks[i] + n
        /\ i \in DOMAIN q.blocks /\ i > 0
    BY <1>2, <1>3, <1>5, <1>6
  <2>2. p.blocks[i] >= Hdr /\ p.blocks[i] + n <= p.blocks[i] + n
    BY <1>1, ConstantsAreNat
  <2> QED BY <1>5, <2>1, <2>2 DEF Inside
<1>9. ASSUME NEW s \in p.live
      PROVE  /\ s \in RegionRec /\ Inside(q, s) /\ Apart(g, s)
             /\ s.at.chunk = i => s.at.off + s.size <= p.blocks[i]
  <2>1. s \in RegionRec /\ Inside(p, s)
    BY DEF PoolOK, Regions
  <2>2. /\ s.at.chunk \in Int /\ s.at.off \in Nat /\ s.size \in Nat
    BY <2>1, ConstantsAreNat DEF RegionRec, Addr, Chunks
  <2>3. CASE s.at.chunk > 0
    <3>1. /\ s.at.chunk \in DOMAIN p.blocks
          /\ s.at.off >= Hdr /\ s.at.off + s.size <= p.blocks[s.at.chunk]
      BY <2>1, <2>3 DEF Inside
    <3>2. CASE s.at.chunk = i
      BY <1>1, <1>2, <1>3, <1>5, <1>6, <2>1, <2>2, <2>3, <3>1, <3>2 DEF Inside, Apart
    <3>3. CASE s.at.chunk # i
      BY <1>2, <1>3, <1>5, <1>6, <2>1, <2>3, <3>1, <3>3 DEF Inside, Apart
    <3> QED BY <3>2, <3>3
  <2>4. CASE ~(s.at.chunk > 0)
    BY <1>3, <1>5, <1>6, <2>1, <2>2, <2>4 DEF Inside, Apart
  <2> QED BY <2>3, <2>4
<1>10. PoolOK(q)
  <2>1. \A s, t \in p.live : s # t => Apart(s, t)
    BY DEF PoolOK, Regions
  <2> QED BY <1>5, <1>6, <1>7, <1>8, <1>9, <2>1, AddRegion
<1> QED BY <1>3, <1>9, <1>10 DEF q, g, b, a

\* What every outcome of ehd_palloc keeps and gives.
Outcome(p, r, n, who) ==
  /\ PoolOK(r.pool) /\ p.live \subseteq r.pool.live
  /\ r.at # NULL => /\ r.at \in Addr /\ Region(r.at, n, who) \in r.pool.live
                    /\ \A s \in p.live : Apart(Region(r.at, n, who), s)

LEMMA GivesIs ==
  ASSUME NEW b, NEW l, NEW v, NEW a, NEW n, NEW who
  PROVE  /\ Gives(b, l, v, a, n, who).pool = Pool(b, l, v \cup {Region(a, n, who)})
         /\ Gives(b, l, v, a, n, who).at = a
BY DEF Gives

\* An outcome that gives memory.
LEMMA OutcomeGives ==
  ASSUME NEW p, NEW r, NEW n, NEW who, NEW a, NEW q, NEW v, PoolOK(q), a \in Addr,
         r.at = a, r.pool = q, p.live \subseteq v, q.live = v \cup {Region(a, n, who)},
         \A s \in v : Apart(Region(a, n, who), s)
  PROVE  Outcome(p, r, n, who)
<1> DEFINE g == Region(a, n, who)
<1> HIDE DEF g
<1>1. \A s \in p.live : Apart(g, s)
  BY DEF g
<1>2. p.live \subseteq q.live /\ g \in q.live
  BY DEF g
<1> QED BY <1>1, <1>2 DEF Outcome, g

\* A new block with a region behind its administration.
LEMMA BlockAdded ==
  ASSUME NEW p, PoolOK(p), MallocMay(p, BlockSize), NEW n \in Nat \ {0},
         n <= BlockSize - Hdr, NEW who \in Owners
  PROVE  LET a == At(Len(p.blocks) + 1, Hdr)
             q == Pool(Append(p.blocks, Hdr + n), p.large, p.live \cup {Region(a, n, who)})
         IN /\ PoolOK(q) /\ a \in Addr /\ a.chunk > 0
            /\ \A s \in p.live : Apart(Region(a, n, who), s)
<1> DEFINE k == Len(p.blocks) + 1
           a == At(k, Hdr)
           g == Region(a, n, who)
           b == Append(p.blocks, Hdr + n)
           q == Pool(b, p.large, p.live \cup {g})
<1>1. /\ Len(p.blocks) \in Nat /\ Len(p.large) \in Nat /\ k \in 1..MaxChunks
      /\ Len(p.blocks) + 1 + Len(p.large) <= MaxChunks
      /\ DOMAIN p.blocks = 1..Len(p.blocks) /\ p.blocks \in Seq(Hdr..BlockSize)
  <2>1. Shape(p) /\ p.blocks \in Seq(Hdr..BlockSize)
    BY DEF PoolOK, Shape
  <2>2. /\ Len(p.blocks) + 1 \in 1..MaxChunks
        /\ Len(p.blocks) + 1 + Len(p.large) <= MaxChunks
    BY <2>1, RoomForChunk DEF MallocMay
  <2> QED BY <2>1, <2>2, Lens
<1>2. /\ b \in Seq(Hdr..BlockSize) /\ Len(b) = k /\ DOMAIN b = 1..k
      /\ b[k] = Hdr + n /\ \A j \in DOMAIN p.blocks : b[j] = p.blocks[j]
  <2>1. Hdr + n \in Hdr..BlockSize
    BY ConstantsAreNat
  <2>2. /\ b \in Seq(Hdr..BlockSize) /\ Len(b) = k /\ b[k] = Hdr + n
        /\ \A j \in 1..Len(p.blocks) : b[j] = p.blocks[j]
    BY <1>1, <2>1, AppendProperties
  <2> QED BY <1>1, <2>2, LenProperties
<1>3. a \in Addr /\ a.chunk = k /\ a.off = Hdr
  <2>1. k \in Chunks
    BY <1>1, ConstantsAreNat DEF Chunks
  <2>2. Hdr \in 0..MaxAlloc
    BY ConstantsAreNat
  <2> QED BY <2>1, <2>2, AtIsAddr
<1>4. g \in RegionRec /\ g.at = a /\ g.size = n
  <2>1. n \in 1..MaxAlloc
    BY ConstantsAreNat
  <2> QED BY <1>3, <2>1 DEF Region, RegionRec
<1> HIDE DEF b, g, a, k
<1>5. q.blocks = b /\ q.large = p.large /\ q.live = p.live \cup {g}
  BY PoolHas
<1> HIDE DEF q
<1>6. Shape(q)
  <2>1. Len(b) = Len(p.blocks) + 1
    BY <1>2 DEF k
  <2>2. Len(b) > 0
    BY <1>1, <1>2
  <2>3. Len(b) + Len(p.large) <= MaxChunks
    BY <1>1, <2>1
  <2> QED BY <1>2, <1>5, <2>2, <2>3 DEF PoolOK, Shape
<1>7. Inside(q, g)
  <2>1. /\ g.at.chunk = k /\ g.at.off = Hdr /\ q.blocks[k] = Hdr + n
        /\ k \in DOMAIN q.blocks /\ k > 0
    BY <1>1, <1>2, <1>3, <1>4, <1>5
  <2>2. Hdr >= Hdr /\ Hdr + n <= Hdr + n
    BY ConstantsAreNat
  <2> QED BY <1>4, <2>1, <2>2 DEF Inside
<1>8. ASSUME NEW s \in p.live
      PROVE  s \in RegionRec /\ Inside(q, s) /\ Apart(g, s)
  <2>1. s \in RegionRec /\ Inside(p, s)
    BY DEF PoolOK, Regions
  <2>2. s.at.chunk \in Int
    BY <2>1, ConstantsAreNat DEF RegionRec, Addr, Chunks
  <2>3. s.at.chunk # k
    BY <1>1, <2>1, <2>2 DEF Inside, k
  <2>4. CASE s.at.chunk > 0
    <3>1. s.at.chunk \in DOMAIN p.blocks /\ s.at.chunk \in DOMAIN b
      BY <1>1, <1>2, <2>1, <2>4 DEF Inside, k
    <3> QED BY <1>2, <1>3, <1>4, <1>5, <2>1, <2>3, <2>4, <3>1 DEF Inside, Apart
  <2>5. CASE ~(s.at.chunk > 0)
    BY <1>3, <1>4, <1>5, <2>1, <2>3, <2>5 DEF Inside, Apart
  <2> QED BY <2>4, <2>5
<1>9. PoolOK(q)
  <2>1. \A s, t \in p.live : s # t => Apart(s, t)
    BY DEF PoolOK, Regions
  <2> QED BY <1>4, <1>5, <1>6, <1>7, <1>8, <2>1, AddRegion
<1> QED BY <1>1, <1>3, <1>8, <1>9 DEF q, b, g, a, k

\* A large piece whose node lies in a block.
LEMMA LargeAdded ==
  ASSUME NEW p, PoolOK(p), NEW n \in Nat \ {0}, MallocMay(p, n), NEW who \in Owners,
         NEW d \in Addr, d.chunk > 0
  PROVE  LET a == At(-(Len(p.large) + 1), 0)
             q == Pool(p.blocks, Append(p.large, [node |-> d, size |-> n]),
                       p.live \cup {Region(a, n, who)})
         IN PoolOK(q) /\ a \in Addr /\ \A s \in p.live : Apart(Region(a, n, who), s)
<1> DEFINE k == Len(p.large) + 1
           a == At(-k, 0)
           g == Region(a, n, who)
           e == [node |-> d, size |-> n]
           l == Append(p.large, e)
           q == Pool(p.blocks, l, p.live \cup {g})
<1>1. /\ Len(p.blocks) \in Nat /\ Len(p.large) \in Nat /\ k \in 1..MaxChunks
      /\ Len(p.blocks) + k <= MaxChunks /\ n <= MaxAlloc
      /\ DOMAIN p.large = 1..Len(p.large) /\ p.large \in Seq(Large0)
  <2>1. Shape(p) /\ p.large \in Seq(Large0)
    BY DEF PoolOK, Shape
  <2>2. /\ Len(p.large) + 1 \in 1..MaxChunks
        /\ Len(p.blocks) + (Len(p.large) + 1) <= MaxChunks
    BY <2>1, RoomForChunk DEF MallocMay
  <2>3. n <= MaxAlloc
    BY DEF MallocMay
  <2> QED BY <2>1, <2>2, <2>3, Lens
<1>2. /\ l \in Seq(Large0) /\ Len(l) = k /\ DOMAIN l = 1..k
      /\ l[k] = e /\ \A j \in DOMAIN p.large : l[j] = p.large[j]
  <2>1. e \in Large0
    BY <1>1, ConstantsAreNat DEF Large0
  <2>2. /\ l \in Seq(Large0) /\ Len(l) = k /\ l[k] = e
        /\ \A j \in 1..Len(p.large) : l[j] = p.large[j]
    <3> HIDE DEF e
    <3> QED BY <1>1, <2>1, AppendProperties
  <2> QED BY <1>1, <2>2, LenProperties
<1>3. a \in Addr /\ a.chunk = -k /\ a.off = 0
  <2>1. -k \in Chunks
    BY <1>1, ConstantsAreNat DEF Chunks
  <2>2. 0 \in 0..MaxAlloc
    BY ConstantsAreNat
  <2> QED BY <2>1, <2>2, AtIsAddr
<1>4. g \in RegionRec /\ g.at = a /\ g.size = n
  <2>1. n \in 1..MaxAlloc
    BY <1>1, ConstantsAreNat
  <2> QED BY <1>3, <2>1 DEF Region, RegionRec
<1>6. e.node = d /\ e.size = n
  OBVIOUS
<1> HIDE DEF l, e, g, a, k
<1>5. q.blocks = p.blocks /\ q.large = l /\ q.live = p.live \cup {g}
  BY PoolHas
<1> HIDE DEF q
<1>7. Shape(q)
  <2>1. \A i \in DOMAIN l : l[i].node.chunk > 0
    <3>1. \A i \in DOMAIN p.large : p.large[i].node.chunk > 0
      BY DEF PoolOK, Shape
    <3>2. \A i \in DOMAIN l : i \in DOMAIN p.large \/ i = k
      BY <1>1, <1>2 DEF k
    <3> QED BY <1>2, <1>6, <3>1, <3>2
  <2>2. Len(p.blocks) + Len(l) <= MaxChunks
    BY <1>1, <1>2
  <2> QED BY <1>2, <1>5, <2>1, <2>2 DEF PoolOK, Shape
<1>8. Inside(q, g)
  <2>1. g.at.chunk = -k /\ g.at.off = 0 /\ k \in DOMAIN q.large /\ q.large[k].size = n
    BY <1>1, <1>2, <1>3, <1>4, <1>5, <1>6
  <2>2. ~(-k > 0) /\ -(-k) = k /\ 0 + n <= n
    BY <1>1
  <2> QED BY <1>4, <2>1, <2>2 DEF Inside
<1>9. ASSUME NEW s \in p.live
      PROVE  s \in RegionRec /\ Inside(q, s) /\ Apart(g, s)
  <2>1. s \in RegionRec /\ Inside(p, s)
    BY DEF PoolOK, Regions
  <2>2. s.at.chunk \in Int
    BY <2>1, ConstantsAreNat DEF RegionRec, Addr, Chunks
  <2>3. s.at.chunk # -k
    BY <1>1, <2>1, <2>2 DEF Inside, k
  <2>4. CASE s.at.chunk > 0
    BY <1>3, <1>4, <1>5, <2>1, <2>3, <2>4 DEF Inside, Apart
  <2>5. CASE ~(s.at.chunk > 0)
    <3>1. -s.at.chunk \in DOMAIN p.large /\ -s.at.chunk \in DOMAIN l
      BY <1>1, <1>2, <2>1, <2>2, <2>5 DEF Inside, k
    <3> QED BY <1>2, <1>3, <1>4, <1>5, <2>1, <2>3, <2>5, <3>1 DEF Inside, Apart
  <2> QED BY <2>4, <2>5
<1>10. PoolOK(q)
  <2>1. \A s, t \in p.live : s # t => Apart(s, t)
    BY DEF PoolOK, Regions
  <2> QED BY <1>4, <1>5, <1>7, <1>8, <1>9, <2>1, AddRegion
<1> QED BY <1>3, <1>9, <1>10 DEF q, l, e, g, a, k

LEMMA GivesHasLarge ==
  ASSUME NEW b, NEW l, NEW v, NEW a, NEW n, NEW who
  PROVE  Gives(b, l, v, a, n, who).pool.large = l
BY DEF Gives, Pool

LEMMA FailsIs == ASSUME NEW p PROVE Fails(p).pool = p /\ Fails(p).at = NULL
BY DEF Fails

\* The only outcome that is no failure of a set with one of them at most.
LEMMA OtherThan ==
  ASSUME NEW f, NEW g, NEW cond, NEW r \in {f} \cup IF cond THEN {g} ELSE {}, r # f
  PROVE  cond /\ r = g
OBVIOUS

\* Small pieces: nothing, room in a block, or a new block.
LEMMA SmallRight ==
  ASSUME NEW p, PoolOK(p), NEW n \in Nat \ {0}, n <= BlockSize - Hdr, NEW who \in Owners,
         NEW r \in Small(p, n, who)
  PROVE  Outcome(p, r, n, who) /\ (r.at # NULL => r.at.chunk > 0)
<1>1. CASE Room(p, n) # {}
  <2>1. PICK i \in Room(p, n) :
          r = Gives([p.blocks EXCEPT ![i] = @ + n], p.large, p.live, At(i, p.blocks[i]), n, who)
    BY <1>1 DEF Small
  <2> DEFINE g == Region(At(i, p.blocks[i]), n, who)
             q == Pool([p.blocks EXCEPT ![i] = @ + n], p.large, p.live \cup {g})
  <2>6. i \in DOMAIN p.blocks /\ n <= BlockSize - p.blocks[i] /\ i \in 1..Len(p.blocks)
    BY Lens DEF Room, PoolOK
  <2>2. r.at = At(i, p.blocks[i]) /\ r.pool = q
    BY <2>1, GivesIs
  <2>3. PoolOK(q) /\ At(i, p.blocks[i]) \in Addr /\ \A s \in p.live : Apart(g, s)
    BY <2>6, BlockGrows
  <2>4. q.live = p.live \cup {g}
    BY PoolHas
  <2>5. r.at.chunk > 0
    BY <2>6, <2>2, Lens DEF At, PoolOK
  <2>7. Outcome(p, r, n, who)
    <3> HIDE DEF q
    <3> QED BY <2>2, <2>3, <2>4, OutcomeGives DEF g
  <2> QED BY <2>5, <2>7
<1>2. CASE r = Fails(p)
  BY <1>2, FailsIs DEF Outcome
<1>3. CASE Room(p, n) = {} /\ r # Fails(p)
  <2> DEFINE a == At(Len(p.blocks) + 1, Hdr)
             b == Append(p.blocks, Hdr + n)
             q == Pool(b, p.large, p.live \cup {Region(a, n, who)})
  <2>1. MallocMay(p, BlockSize) /\ r.at = a /\ r.pool = q
    <3> DEFINE new == Gives(b, p.large, p.live, a, n, who)
               may == MallocMay(p, BlockSize)
    <3>1. r \in {Fails(p)} \cup IF may THEN {new} ELSE {}
      BY <1>3 DEF Small
    <3> HIDE DEF new, may
    <3>2. may /\ r = new
      BY <1>3, <3>1, OtherThan
    <3> HIDE DEF a, b
    <3> QED BY <3>2, GivesIs DEF may, new
  <2>2. /\ PoolOK(q) /\ a \in Addr /\ a.chunk > 0
        /\ \A s \in p.live : Apart(Region(a, n, who), s)
    BY <2>1, BlockAdded
  <2>3. q.live = p.live \cup {Region(a, n, who)}
    BY PoolHas
  <2>4. Outcome(p, r, n, who)
    <3> HIDE DEF a, q
    <3> QED BY <2>1, <2>2, <2>3, OutcomeGives
  <2> QED BY <2>1, <2>2, <2>4
<1> QED BY <1>1, <1>2, <1>3

\* Every outcome of ehd_palloc keeps what was handed out, and the memory it
\* gives is nobody else's.
LEMMA PallocRight ==
  ASSUME NEW p, PoolOK(p), NEW n \in Nat \ {0}, NEW who \in Owners,
         NEW r \in Palloc(p, n, who)
  PROVE  Outcome(p, r, n, who)
<1>1. CASE Fits(n)
  BY <1>1, SmallRight DEF Palloc, Fits
<1>2. CASE ~Fits(n)
  <2>1. PICK d \in Small(p, LargeNode, "pool") :
          r \in IF d.at = NULL THEN {d}
                ELSE {Fails(d.pool)} \cup
                     IF MallocMay(d.pool, n)
                     THEN {Gives(d.pool.blocks, Append(d.pool.large, [node |-> d.at, size |-> n]),
                                 d.pool.live, At(-(Len(p.large) + 1), 0), n, who)}
                     ELSE {}
    BY <1>2 DEF Palloc, Large
  <2>2. /\ PoolOK(d.pool) /\ p.live \subseteq d.pool.live
        /\ d.at # NULL => d.at \in Addr /\ d.at.chunk > 0
        /\ d.pool.large = p.large
    <3>1. LargeNode \in Nat \ {0} /\ LargeNode <= BlockSize - Hdr /\ "pool" \in Owners
      BY ConstantsAreNat DEF Owners
    <3>2. d.pool.large = p.large
      <4>1. CASE Room(p, LargeNode) # {}
        <5>1. PICK i : d = Gives([p.blocks EXCEPT ![i] = @ + LargeNode], p.large, p.live,
                                 At(i, p.blocks[i]), LargeNode, "pool")
          BY <4>1 DEF Small
        <5> QED BY <5>1, GivesHasLarge
      <4>2. CASE Room(p, LargeNode) = {} /\ d # Fails(p)
        <5>1. d = Gives(Append(p.blocks, Hdr + LargeNode), p.large, p.live, At(Len(p.blocks) + 1, Hdr), LargeNode, "pool")
          BY <4>2 DEF Small
        <5> QED BY <5>1, GivesHasLarge
      <4> QED BY <4>1, <4>2, FailsIs
    <3> QED BY <3>1, <3>2, SmallRight DEF Outcome
  <2>3. CASE r = d /\ d.at = NULL
    BY <2>2, <2>3 DEF Outcome
  <2>4. CASE r = Fails(d.pool)
    BY <2>2, <2>4, FailsIs DEF Outcome
  <2>5. CASE d.at # NULL /\ r # Fails(d.pool)
    <3> DEFINE a == At(-(Len(d.pool.large) + 1), 0)
               l == Append(d.pool.large, [node |-> d.at, size |-> n])
               q == Pool(d.pool.blocks, l, d.pool.live \cup {Region(a, n, who)})
    <3>1. MallocMay(d.pool, n) /\ r.at = a /\ r.pool = q
      <4> DEFINE new == Gives(d.pool.blocks, l, d.pool.live, a, n, who)
                 may == MallocMay(d.pool, n)
      <4>1. r \in {Fails(d.pool)} \cup IF may THEN {new} ELSE {}
        BY <2>1, <2>2, <2>5
      <4> HIDE DEF new, may
      <4>2. may /\ r = new
        BY <2>5, <4>1, OtherThan
      <4> HIDE DEF a, l
      <4> QED BY <4>2, GivesIs DEF may, new
    <3>2. /\ PoolOK(q) /\ a \in Addr
          /\ \A s \in d.pool.live : Apart(Region(a, n, who), s)
      BY <2>2, <2>5, <3>1, LargeAdded
    <3>3. q.live = d.pool.live \cup {Region(a, n, who)}
      BY PoolHas
    <3> HIDE DEF a, q
    <3> QED BY <2>2, <3>1, <3>2, <3>3, OutcomeGives
  <2> QED BY <2>1, <2>3, <2>4, <2>5
<1> QED BY <1>1, <1>2

-----------------------------------------------------------------------------
(***************************************************************************)
(* The array, the list and the freed chunks, when the pool grows.          *)
(***************************************************************************)
LEMMA ArrayKept ==
  ASSUME NEW v, NEW w, v \subseteq w, NEW a, ArrayParts(v, a)
  PROVE  ArrayParts(w, a)
<1>1. a.data # NULL => BytesIn(w, a.data, a.nblock)
  BY DEF ArrayParts, BytesIn
<1>2. a.data # NULL => ElementsIn(w, a.data, a.nblock)
  BY DEF ArrayParts, ElementsIn
<1> QED BY <1>1, <1>2 DEF ArrayParts

LEMMA ListKept ==
  ASSUME NEW v, NEW w, v \subseteq w, NEW l, ListParts(v, l)
  PROVE  ListParts(w, l)
BY DEF ListParts

LEMMA FreedKept ==
  ASSUME FreedOK, pc = "run", pc' \in {"run", "null"}, UNCHANGED freed
  PROVE  FreedOK'
<1>1. Len(freed) = 0 /\ freed \in Seq(Chunks \ {0}) /\ freed' = freed
  BY DEF FreedOK
<1>2. InOrder'
  BY <1>1 DEF InOrder
<1> QED BY <1>1, <1>2 DEF FreedOK

LEMMA Multiples ==
  ASSUME NEW e \in Nat \ {0}, NEW n \in Nat, NEW k \in 0..(n - 1)
  PROVE  e * k \in Nat /\ e * k + e <= e * n /\ e * (n + 1) = e * n + e
<1> DEFINE j == n - k - 1
<1>1. j \in Nat /\ n = k + 1 + j /\ k \in Nat
  OBVIOUS
<1> HIDE DEF j
<1>2. e * n = e * k + e + e * j /\ e * j \in Nat /\ e * k \in Nat
  BY <1>1
<1>3. e * (n + 1) = e * n + e
  OBVIOUS
<1> QED BY <1>2, <1>3

LEMMA Monotone ==
  ASSUME NEW e \in Nat \ {0}, NEW m \in Nat, NEW n \in Nat, m <= n
  PROVE  e * m \in Nat /\ e * n \in Nat /\ e * m <= e * n
<1> DEFINE j == n - m
<1>1. j \in Nat /\ n = m + j
  OBVIOUS
<1> HIDE DEF j
<1>2. e * n = e * m + e * j /\ e * j \in Nat /\ e * m \in Nat
  BY <1>1
<1> QED BY <1>2

LEMMA DoubleSize ==
  ASSUME NEW e \in Nat \ {0}, NEW n \in Nat \ {0}
  PROVE  /\ 2 * e * n \in Nat \ {0} /\ 2 * n \in Nat \ {0} /\ n < 2 * n
         /\ 2 * e * n = e * (2 * n)
<1>1. e * n \in Nat \ {0}
  BY Product
<1>2. 2 * e * n = 2 * (e * n) /\ e * (2 * n) = 2 * (e * n)
  OBVIOUS
<1> QED BY <1>1, <1>2

\* One region with room for n elements.
LEMMA OneRegion ==
  ASSUME NEW v, NEW d \in Addr, NEW n \in Nat \ {0}, Region(d, ElSize * n, "array") \in v
  PROVE  BytesIn(v, d, n) /\ ElementsIn(v, d, n)
<1> DEFINE g == Region(d, ElSize * n, "array")
<1>1. g.owner = "array" /\ g.at = d /\ g.size = ElSize * n
  BY RegionHas
<1>2. d.off \in Nat /\ ElSize * n \in Nat
  BY Product, ConstantsAreNat DEF Addr
<1> HIDE DEF g
<1>3. g \in v
  BY DEF g
<1>4. BytesIn(v, d, n)
  <2> DEFINE m == ElSize * n
  <2>1. m \in Nat /\ g.size = m
    BY <1>1, <1>2
  <2> HIDE DEF m
  <2>2. \A x \in d.off..(d.off + m - 1) : g.at.off <= x /\ x < g.at.off + g.size
    BY <1>1, <1>2, <2>1
  <2> QED BY <1>1, <1>3, <2>2 DEF BytesIn, m
<1>5. ElementsIn(v, d, n)
  <2> SUFFICES ASSUME NEW k \in 0..(n - 1) PROVE Covers(g, Plus(d, ElSize * k))
    BY <1>1, <1>3 DEF ElementsIn
  <2>1. ElSize * k \in Nat /\ ElSize * k + ElSize <= ElSize * n
    BY ConstantsAreNat, Multiples
  <2>2. Plus(d, ElSize * k).chunk = d.chunk /\ Plus(d, ElSize * k).off = d.off + ElSize * k
    BY DEF Plus, At
  <2> DEFINE h == ElSize * k
             m == ElSize * n
  <2>3. h \in Nat /\ h + ElSize <= m /\ m \in Nat /\ ElSize \in Nat
    BY <1>2, <2>1, ConstantsAreNat
  <2> HIDE DEF h, m
  <2>4. d.off <= d.off + h /\ d.off + h + ElSize <= d.off + m
    BY <1>2, <2>3
  <2> QED BY <1>1, <2>2, <2>4 DEF Covers, h, m
<1> QED BY <1>4, <1>5

\* One more element right behind the n that are there.
LEMMA OneMore ==
  ASSUME NEW v, NEW d \in Addr, NEW n \in Nat, BytesIn(v, d, n), ElementsIn(v, d, n),
         NEW e \in Addr, e.chunk = d.chunk, e.off = d.off + ElSize * n
  PROVE  LET w == v \cup {Region(e, ElSize, "array")}
         IN BytesIn(w, d, n + 1) /\ ElementsIn(w, d, n + 1)
<1> DEFINE g == Region(e, ElSize, "array")
           w == v \cup {g}
           m == ElSize * n
<1>1. g.owner = "array" /\ g.at = e /\ g.size = ElSize
  BY RegionHas
<1>2. d.off \in Nat /\ m \in Nat /\ ElSize \in Nat \ {0} /\ ElSize * (n + 1) = m + ElSize
  <2>1. d.off \in Nat /\ ElSize \in Nat \ {0}
    BY ConstantsAreNat DEF Addr
  <2> QED BY <2>1
<1>3. g \in w /\ v \subseteq w
  OBVIOUS
<1>4. BytesIn(v, d, n) <=>
        \A x \in d.off..(d.off + m - 1) :
          \E r \in v : /\ r.owner = "array" /\ r.at.chunk = d.chunk
                       /\ r.at.off <= x /\ x < r.at.off + r.size
  BY DEF BytesIn
<1>5. e.off = d.off + m /\ Plus(d, ElSize * n).off = d.off + m /\ Plus(d, ElSize * n).chunk = d.chunk
  BY DEF Plus, At
<1> HIDE DEF g, w, m
<1>6. ASSUME NEW x \in d.off..(d.off + (m + ElSize) - 1)
      PROVE  \E r \in w : /\ r.owner = "array" /\ r.at.chunk = d.chunk
                          /\ r.at.off <= x /\ x < r.at.off + r.size
  <2>1. CASE x < d.off + m
    <3>1. x \in d.off..(d.off + m - 1)
      BY <1>2, <2>1
    <3> QED BY <1>3, <1>4, <3>1
  <2>2. CASE x >= d.off + m
    <3>1. g.at.off <= x /\ x < g.at.off + g.size
      BY <1>1, <1>2, <1>5, <2>2
    <3> QED BY <1>1, <1>3, <3>1
  <2> QED BY <1>2, <2>1, <2>2
<1>7. BytesIn(w, d, n + 1)
  BY <1>2, <1>6 DEF BytesIn
<1>8. ASSUME NEW k \in 0..n
      PROVE  \E r \in w : r.owner = "array" /\ Covers(r, Plus(d, ElSize * k))
  <2>1. CASE k \in 0..(n - 1)
    BY <1>3, <2>1 DEF ElementsIn
  <2>2. CASE k = n
    <3>1. g.at.off <= d.off + m /\ d.off + m + ElSize <= g.at.off + g.size
      BY <1>1, <1>2, <1>5
    <3> QED BY <1>1, <1>3, <1>5, <2>2, <3>1 DEF Covers
  <2> QED BY <2>1, <2>2
<1>9. ElementsIn(w, d, n + 1)
  <2>1. 0..(n + 1 - 1) = 0..n
    OBVIOUS
  <2> QED BY <1>8, <2>1 DEF ElementsIn
<1> QED BY <1>7, <1>9 DEF w, g

-----------------------------------------------------------------------------
(***************************************************************************)
(* The steps.                                                              *)
(***************************************************************************)
LEMMA OwnersAre == {"array", "list", "other"} \subseteq Owners
BY DEF Owners

\* Where an outcome is taken and neither array nor list changes.
LEMMA OnlyPool ==
  ASSUME Inv, pc = "run", UNCHANGED <<freed, array, list>>, pc' \in {"run", "null"},
         PoolOK(pool'), pool.live \subseteq pool'.live
  PROVE  Inv'
<1>1. FreedOK'
  BY FreedKept DEF Inv
<1>2. ArrayParts(pool'.live, array') /\ ListParts(pool'.live, list')
  BY ArrayKept, ListKept DEF Inv
<1> QED BY <1>1, <1>2 DEF Inv

LEMMA AllocateStep == ASSUME NEW n \in Sizes, Inv, Allocate(n) PROVE Inv'
<1>1. n \in Nat \ {0} /\ "other" \in Owners /\ PoolOK(pool)
  BY ConstantsAreNat, OwnersAre DEF Inv
<1>2. PICK r \in Palloc(pool, n, "other") : pool' = r.pool
  BY DEF Allocate
<1>3. PoolOK(pool') /\ pool.live \subseteq pool'.live
  BY <1>1, <1>2, PallocRight DEF Outcome
<1> QED BY <1>3, OnlyPool DEF Allocate, Run

\* Two outcomes, one after the other.
LEMMA PallocTwice ==
  ASSUME NEW p, PoolOK(p), NEW m \in Nat \ {0}, NEW n \in Nat \ {0}, NEW who \in Owners,
         NEW s \in Palloc(p, m, who), NEW d \in Palloc(s.pool, n, who)
  PROVE  /\ Outcome(p, s, m, who) /\ Outcome(p, d, n, who)
         /\ s.pool.live \subseteq d.pool.live
<1>1. Outcome(p, s, m, who)
  BY PallocRight
<1>2. Outcome(s.pool, d, n, who)
  BY <1>1, PallocRight DEF Outcome
<1> QED BY <1>1, <1>2 DEF Outcome

LEMMA CreateTempBufStep == ASSUME NEW n \in Sizes, Inv, CreateTempBuf(n) PROVE Inv'
<1>1. /\ n \in Nat \ {0} /\ BufSize \in Nat \ {0} /\ "other" \in Owners
      /\ PoolOK(pool)
  BY ConstantsAreNat, OwnersAre DEF Inv
<1>2. PICK b \in Palloc(pool, BufSize, "other") :
        \/ pool' = b.pool
        \/ \E s \in Palloc(b.pool, n, "other") : pool' = s.pool
  BY DEF CreateTempBuf
<1>3. PoolOK(pool') /\ pool.live \subseteq pool'.live
  <2>1. CASE pool' = b.pool
    BY <1>1, <2>1, PallocRight DEF Outcome
  <2>2. CASE \E s \in Palloc(b.pool, n, "other") : pool' = s.pool
    BY <1>1, <2>2, PallocTwice DEF Outcome
  <2> QED BY <1>2, <2>1, <2>2
<1> QED BY <1>3, OnlyPool DEF CreateTempBuf, Run

LEMMA ArrayHas ==
  ASSUME NEW a, NEW d, NEW n, NEW k
  PROVE  /\ Array(a, d, n, k).at = a /\ Array(a, d, n, k).data = d
         /\ Array(a, d, n, k).nblock = n /\ Array(a, d, n, k).ndata = k
BY DEF Array

LEMMA NullIsAddr == NULL \in Addr /\ NULL.chunk = 0
BY ConstantsAreNat DEF NULL, Addr, Chunks

LEMMA ArrayTyped ==
  ASSUME NEW a \in Addr, NEW d \in Addr, NEW n \in Nat, NEW k \in Nat
  PROVE  Array(a, d, n, k) \in [at : Addr, data : Addr, nblock : Nat, ndata : Nat]
BY DEF Array

LEMMA EmbeddedIsAddr == Embedded \in Addr /\ Embedded.chunk = 0
<1>1. 0 \in Chunks /\ 1 \in 0..MaxAlloc
  BY ConstantsAreNat DEF Chunks
<1> QED BY <1>1, AtIsAddr DEF Embedded

\* No array needs no memory.
LEMMA GoneOK == ASSUME NEW v PROVE ArrayParts(v, Gone) /\ ArrayParts(v, NoArray)
<1>1. /\ Gone.data = NULL /\ NoArray.data = NULL
      /\ Gone.ndata = 0 /\ NoArray.ndata = 0 /\ Gone.nblock = ArrayN /\ NoArray.nblock = 0
  BY ArrayHas DEF Gone, NoArray
<1>2. \A a \in {Gone, NoArray} : a \in [at : Addr, data : Addr, nblock : Nat, ndata : Nat]
  BY ArrayTyped, NullIsAddr, ConstantsAreNat DEF Gone, NoArray
<1>3. 0 <= ArrayN /\ 0 <= 0
  BY ConstantsAreNat
<1>4. Gone.at = NULL /\ NoArray.at = NULL
  BY ArrayHas DEF Gone, NoArray
<1> QED BY <1>1, <1>2, <1>3, <1>4 DEF ArrayParts

LEMMA ArrayCreateStep == ASSUME Inv, ArrayCreate PROVE Inv'
<1>1. /\ ArraySize \in Nat \ {0} /\ ElSize * ArrayN \in Nat \ {0} /\ "array" \in Owners
      /\ ArrayN \in Nat \ {0} /\ PoolOK(pool)
  BY ConstantsAreNat, Product, OwnersAre DEF Inv
<1>2. PICK s \in Palloc(pool, ArraySize, "array") :
        \/ s.at = NULL /\ pool' = s.pool /\ Null
        \/ /\ s.at # NULL
           /\ \E d \in Palloc(s.pool, ElSize * ArrayN, "array") :
                pool' = d.pool /\ array' = Array(s.at, d.at, ArrayN, 0)
           /\ UNCHANGED <<list, pc>>
  BY DEF ArrayCreate
<1>3. CASE pool' = s.pool /\ Null
  <2>1. PoolOK(pool') /\ pool.live \subseteq pool'.live
    BY <1>1, <1>3, PallocRight DEF Outcome
  <2> QED BY <1>3, <2>1, OnlyPool DEF ArrayCreate, Run, Null
<1>4. ASSUME s.at # NULL, NEW d \in Palloc(s.pool, ElSize * ArrayN, "array"),
             pool' = d.pool, array' = Array(s.at, d.at, ArrayN, 0), UNCHANGED <<list, pc>>
      PROVE  Inv'
  <2>1. /\ PoolOK(pool') /\ pool.live \subseteq pool'.live
        /\ s.at \in Addr /\ Region(s.at, ArraySize, "array") \in pool'.live
        /\ d.at # NULL => /\ d.at \in Addr
                          /\ Region(d.at, ElSize * ArrayN, "array") \in pool'.live
    BY <1>1, <1>4, PallocTwice DEF Outcome
  <2>2. ArrayParts(pool'.live, array')
    <3>1. d.at \in Addr
      BY <2>1, NullIsAddr
    <3>2. d.at # NULL => BytesIn(pool'.live, d.at, ArrayN) /\ ElementsIn(pool'.live, d.at, ArrayN)
      BY <1>1, <2>1, OneRegion
    <3>3. /\ array'.at = s.at /\ array'.data = d.at /\ array'.nblock = ArrayN
          /\ array'.ndata = 0
      BY <1>4, ArrayHas
    <3>4. array' \in [at : Addr, data : Addr, nblock : Nat, ndata : Nat]
      BY <1>1, <1>4, <2>1, <3>1, ArrayTyped
    <3>5. 0 <= ArrayN /\ ArrayN > 0
      BY <1>1
    <3> QED BY <2>1, <3>2, <3>3, <3>4, <3>5 DEF ArrayParts
  <2>3. FreedOK' /\ ListParts(pool'.live, list')
    BY <1>4, <2>1, FreedKept, ListKept DEF Inv, ArrayCreate, Run
  <2> QED BY <2>1, <2>2, <2>3 DEF Inv
<1> QED BY <1>2, <1>3, <1>4

LEMMA ArrayInitStep == ASSUME Inv, ArrayInit PROVE Inv'
<1>1. /\ ElSize * ArrayN \in Nat \ {0} /\ "array" \in Owners
      /\ ArrayN \in Nat \ {0} /\ PoolOK(pool)
  BY ConstantsAreNat, Product, OwnersAre DEF Inv
<1>2. PICK d \in Palloc(pool, ElSize * ArrayN, "array") :
        /\ pool' = d.pool
        /\ array' = IF d.at = NULL THEN Unset ELSE Array(Embedded, d.at, ArrayN, 0)
  BY DEF ArrayInit
<1>3. /\ PoolOK(pool') /\ pool.live \subseteq pool'.live
      /\ d.at # NULL => /\ d.at \in Addr
                        /\ Region(d.at, ElSize * ArrayN, "array") \in pool'.live
  BY <1>1, <1>2, PallocRight DEF Outcome
<1>4. ArrayParts(pool'.live, array')
  <2>1. CASE d.at = NULL
    <3>1. /\ array'.at = Embedded /\ array'.data = NULL /\ array'.nblock = 0
          /\ array'.ndata = 0
      BY <1>2, <2>1, ArrayHas DEF Unset
    <3>2. array' \in [at : Addr, data : Addr, nblock : Nat, ndata : Nat]
      BY <1>2, <2>1, ArrayTyped, EmbeddedIsAddr, NullIsAddr DEF Unset
    <3> QED BY <3>1, <3>2 DEF ArrayParts
  <2>2. CASE d.at # NULL
    <3>1. BytesIn(pool'.live, d.at, ArrayN) /\ ElementsIn(pool'.live, d.at, ArrayN)
      BY <1>1, <1>3, <2>2, OneRegion
    <3>2. /\ array'.at = Embedded /\ array'.data = d.at /\ array'.nblock = ArrayN
          /\ array'.ndata = 0
      BY <1>2, <2>2, ArrayHas
    <3>3. array' \in [at : Addr, data : Addr, nblock : Nat, ndata : Nat]
      BY <1>1, <1>2, <1>3, <2>2, ArrayTyped, EmbeddedIsAddr
    <3>4. 0 <= ArrayN /\ ArrayN > 0
      BY <1>1
    <3> QED BY <3>1, <3>2, <3>3, <3>4 DEF ArrayParts
  <2> QED BY <2>1, <2>2
<1>5. FreedOK' /\ ListParts(pool'.live, list')
  BY <1>3, FreedKept, ListKept DEF Inv, ArrayInit, Run
<1> QED BY <1>3, <1>4, <1>5 DEF Inv

\* An array with one element more and room for n.
LEMMA PushedOK ==
  ASSUME Inv, array.data # NULL, NEW d \in Addr, NEW n \in Nat \ {0}, array.ndata < n,
         Pushed(d, n), pool.live \subseteq pool'.live, PoolOK(pool'),
         BytesIn(pool'.live, d, n), ElementsIn(pool'.live, d, n),
         Run, UNCHANGED <<list, pc>>
  PROVE  Inv'
<1>1. /\ array \in [at : Addr, data : Addr, nblock : Nat, ndata : Nat]
      /\ array.at \notin {NULL, Embedded} => Region(array.at, ArraySize, "array") \in pool'.live
  BY DEF Inv, ArrayParts
<1>2. /\ array'.at = array.at /\ array'.data = d /\ array'.nblock = n
      /\ array'.ndata = array.ndata + 1
  BY ArrayHas DEF Pushed
<1>3. array.ndata \in Nat /\ array.at \in Addr
  BY <1>1
<1>4. array.ndata + 1 \in Nat /\ array.ndata + 1 <= n /\ n > 0
  BY <1>3
<1>5. array' \in [at : Addr, data : Addr, nblock : Nat, ndata : Nat]
  BY <1>3, <1>4, ArrayTyped DEF Pushed
<1>6. ArrayParts(pool'.live, array')
  BY <1>1, <1>2, <1>4, <1>5 DEF ArrayParts
<1>7. FreedOK' /\ ListParts(pool'.live, list')
  BY FreedKept, ListKept DEF Inv, Run
<1> QED BY <1>6, <1>7 DEF Inv

LEMMA ArrayPushStep == ASSUME Inv, ArrayPush PROVE Inv'
<1>1. /\ array.data # NULL /\ Run /\ UNCHANGED <<list, pc>> /\ PoolOK(pool)
      /\ array \in [at : Addr, data : Addr, nblock : Nat, ndata : Nat]
      /\ array.nblock > 0 /\ BytesIn(pool.live, array.data, array.nblock)
      /\ ElementsIn(pool.live, array.data, array.nblock)
  BY DEF Inv, ArrayParts, ArrayPush
<1>2. array.nblock \in Nat \ {0} /\ array.ndata \in Nat /\ array.data \in Addr
  <2>1. array.nblock \in Nat /\ array.ndata \in Nat /\ array.data \in Addr
    BY <1>1
  <2> QED BY <1>1, <2>1
<1>3. CASE array.ndata < array.nblock /\ Pushed(array.data, array.nblock) /\ UNCHANGED pool
  BY <1>1, <1>2, <1>3, PushedOK
<1>4. CASE /\ array.ndata = array.nblock /\ InPlace
           /\ pool' = Gives([pool.blocks EXCEPT ![1] = @ + ElSize], pool.large, pool.live,
                            At(1, pool.blocks[1]), ElSize, "array").pool
           /\ Pushed(array.data, array.nblock + 1)
  <2> DEFINE g == Region(At(1, pool.blocks[1]), ElSize, "array")
  <2>1. 1 \in DOMAIN pool.blocks /\ ElSize <= BlockSize - pool.blocks[1]
    <3>1. 1 \in DOMAIN pool.blocks /\ pool.blocks[1] \in Int
      <4>1. /\ Len(pool.blocks) \in Nat /\ Len(pool.blocks) > 0
            /\ DOMAIN pool.blocks = 1..Len(pool.blocks)
            /\ \A k \in DOMAIN pool.blocks : pool.blocks[k] \in Int
        BY <1>1, Lens DEF PoolOK
      <4> QED BY <4>1
    <3>2. BlockSize - pool.blocks[1] >= ElSize
      BY <1>4 DEF InPlace
    <3> QED BY <3>1, <3>2, ConstantsAreNat
  <2>2. pool' = Pool([pool.blocks EXCEPT ![1] = @ + ElSize], pool.large, pool.live \cup {g})
    BY <1>4, GivesIs
  <2>3. PoolOK(pool') /\ At(1, pool.blocks[1]) \in Addr
    BY <1>1, <2>1, <2>2, BlockGrows, ConstantsAreNat, OwnersAre
  <2>4. pool'.live = pool.live \cup {g}
    BY <2>2, PoolHas
  <2>5. /\ At(1, pool.blocks[1]).chunk = array.data.chunk
        /\ At(1, pool.blocks[1]).off = array.data.off + ElSize * array.nblock
    BY <1>4 DEF InPlace, AtLast, At
  <2>6. /\ BytesIn(pool'.live, array.data, array.nblock + 1)
        /\ ElementsIn(pool'.live, array.data, array.nblock + 1)
    BY <1>1, <1>2, <2>3, <2>4, <2>5, OneMore
  <2>7. array.nblock + 1 \in Nat \ {0} /\ array.ndata < array.nblock + 1
    BY <1>2, <1>4
  <2> QED BY <1>1, <1>2, <1>4, <2>3, <2>4, <2>6, <2>7, PushedOK
<1>5. CASE /\ array.ndata = array.nblock
           /\ \E r \in Palloc(pool, 2 * ElSize * array.nblock, "array") :
                /\ pool' = r.pool
                /\ \/ r.at = NULL /\ UNCHANGED array
                   \/ r.at # NULL /\ Pushed(r.at, 2 * array.nblock)
  <2>1. PICK r \in Palloc(pool, 2 * ElSize * array.nblock, "array") :
          /\ pool' = r.pool
          /\ \/ r.at = NULL /\ UNCHANGED array
             \/ r.at # NULL /\ Pushed(r.at, 2 * array.nblock)
    BY <1>5
  <2>2. /\ 2 * ElSize * array.nblock \in Nat \ {0} /\ 2 * array.nblock \in Nat \ {0}
        /\ 2 * ElSize * array.nblock = ElSize * (2 * array.nblock)
        /\ array.ndata < 2 * array.nblock
    BY <1>2, <1>5, DoubleSize, ConstantsAreNat
  <2>3. /\ PoolOK(pool') /\ pool.live \subseteq pool'.live
        /\ r.at # NULL => r.at \in Addr
             /\ Region(r.at, 2 * ElSize * array.nblock, "array") \in pool'.live
    BY <1>1, <2>1, <2>2, PallocRight, OwnersAre DEF Outcome
  <2>4. CASE UNCHANGED array
    BY <1>1, <2>3, <2>4, OnlyPool DEF Run
  <2>5. CASE r.at # NULL /\ Pushed(r.at, 2 * array.nblock)
    <3>1. /\ BytesIn(pool'.live, r.at, 2 * array.nblock)
          /\ ElementsIn(pool'.live, r.at, 2 * array.nblock)
      BY <2>2, <2>3, <2>5, OneRegion
    <3> QED BY <1>1, <2>2, <2>3, <2>5, <3>1, PushedOK
  <2> QED BY <2>1, <2>4, <2>5
<1> QED BY <1>3, <1>4, <1>5 DEF ArrayPush

LEMMA ArrayPushNullStep == ASSUME Inv, ArrayPushNull PROVE Inv'
<1>1. UNCHANGED <<freed, array, list, pool>> /\ pc = "run" /\ pc' \in {"run", "null"}
  BY DEF ArrayPushNull, Run, Null
<1> QED BY <1>1, OnlyPool DEF Inv

\* The free offset of the first block goes back, and what is behind it goes.
LEMMA BlockShrinks ==
  ASSUME NEW p, PoolOK(p), NEW o \in Nat, Hdr <= o, o <= p.blocks[1],
         NEW v, v \subseteq p.live,
         \A r \in v : r.at.chunk = 1 => r.at.off + r.size <= o
  PROVE  PoolOK(Pool([p.blocks EXCEPT ![1] = o], p.large, v))
<1> DEFINE b == [p.blocks EXCEPT ![1] = o]
           q == Pool(b, p.large, v)
<1>1. /\ p.blocks \in Seq(Hdr..BlockSize) /\ Len(p.blocks) \in Nat /\ Len(p.blocks) > 0
      /\ DOMAIN p.blocks = 1..Len(p.blocks) /\ 1 \in DOMAIN p.blocks
  <2>1. /\ p.blocks \in Seq(Hdr..BlockSize) /\ Len(p.blocks) \in Nat
        /\ Len(p.blocks) > 0 /\ DOMAIN p.blocks = 1..Len(p.blocks)
    BY Lens DEF PoolOK, Shape
  <2> QED BY <2>1
<1>2. o \in Hdr..BlockSize
  <2>1. p.blocks[1] \in Int /\ p.blocks[1] <= BlockSize
    BY <1>1, Lens DEF PoolOK
  <2> QED BY <2>1, ConstantsAreNat
<1>3. /\ b \in Seq(Hdr..BlockSize) /\ Len(b) = Len(p.blocks) /\ DOMAIN b = DOMAIN p.blocks
      /\ b[1] = o /\ \A k \in DOMAIN p.blocks : k # 1 => b[k] = p.blocks[k]
  BY <1>1, <1>2, ExceptSeq
<1> HIDE DEF b
<1>4. q.blocks = b /\ q.large = p.large /\ q.live = v
  BY PoolHas
<1> HIDE DEF q
<1>5. Shape(q)
  BY <1>1, <1>3, <1>4 DEF PoolOK, Shape
<1>6. ASSUME NEW r \in v PROVE r \in RegionRec /\ Inside(q, r)
  <2>1. r \in RegionRec /\ Inside(p, r)
    BY DEF PoolOK, Regions
  <2>2. CASE r.at.chunk = 1
    BY <1>1, <1>3, <1>4, <2>1, <2>2 DEF Inside
  <2>3. CASE r.at.chunk # 1
    BY <1>3, <1>4, <2>1, <2>3 DEF Inside
  <2> QED BY <2>2, <2>3
<1>7. \A r, t \in v : r # t => Apart(r, t)
  BY DEF PoolOK, Regions
<1> QED BY <1>4, <1>5, <1>6, <1>7 DEF PoolOK, Regions, q, b

\* Nothing of others lies between the elements and the end of the block, when
\* the elements that are used reach to that end.
LEMMA BeforeElements ==
  ASSUME NEW p, PoolOK(p), NEW d \in Addr, NEW m \in Nat, NEW n \in Nat, m <= n,
         BytesIn(p.live, d, n), d.chunk = 1, d.off + ElSize * m = p.blocks[1],
         NEW r \in p.live, r.owner # "array", r.at.chunk = 1
  PROVE  r.at.off + r.size <= d.off
<1>1. /\ r.at.off \in Nat /\ r.size \in Nat /\ r.size > 0 /\ d.off \in Nat
      /\ r.at.off + r.size <= p.blocks[1]
  <2>1. r \in RegionRec /\ Inside(p, r)
    BY DEF PoolOK, Regions
  <2>2. r.at.off + r.size <= p.blocks[1]
    BY <2>1 DEF Inside
  <2>3. /\ r.at.off \in 0..MaxAlloc /\ r.size \in 1..MaxAlloc /\ d.off \in 0..MaxAlloc
    BY <2>1 DEF RegionRec, Addr
  <2> QED BY <2>2, <2>3, ConstantsAreNat
<1> SUFFICES ASSUME r.at.off + r.size > d.off PROVE FALSE
  BY <1>1
<1> DEFINE x == IF r.at.off <= d.off THEN d.off ELSE r.at.off
           e == ElSize * m
           f == ElSize * n
<1>2. e \in Nat /\ f \in Nat /\ e <= f
  BY ConstantsAreNat, Monotone
<1>3. d.off + e = p.blocks[1]
  OBVIOUS
<1>4. BytesIn(p.live, d, n) <=>
        \A y \in d.off..(d.off + f - 1) :
          \E s \in p.live : /\ s.owner = "array" /\ s.at.chunk = d.chunk
                            /\ s.at.off <= y /\ y < s.at.off + s.size
  BY DEF BytesIn
<1> HIDE DEF e, f
<1>5. x \in d.off..(d.off + f - 1) /\ r.at.off <= x /\ x < r.at.off + r.size
  BY <1>1, <1>2, <1>3
<1>6. PICK s \in p.live : /\ s.owner = "array" /\ s.at.chunk = 1
                          /\ s.at.off <= x /\ x < s.at.off + s.size
  BY <1>4, <1>5
<1>7. s # r /\ Apart(r, s)
  BY <1>6 DEF PoolOK, Regions
<1>8. s.at.off \in Nat /\ s.size \in Nat
  <2>1. s \in RegionRec
    BY DEF PoolOK, Regions
  <2>2. s.at.off \in 0..MaxAlloc /\ s.size \in 1..MaxAlloc
    BY <2>1 DEF RegionRec, Addr
  <2> QED BY <2>2, ConstantsAreNat
<1> QED BY <1>1, <1>5, <1>6, <1>7, <1>8 DEF Apart

LEMMA ArrayDestroyStep == ASSUME Inv, ArrayDestroy PROVE Inv'
<1> DEFINE last == IF AtLast(pool) THEN array.data.off ELSE pool.blocks[1]
           all == IF array.at.chunk = 1 /\ array.at.off + ArraySize = last
                  THEN array.at.off ELSE last
           v == {r \in pool.live : r.owner # "array"}
           g == Region(array.at, ArraySize, "array")
<1>1. /\ PoolOK(pool) /\ Run /\ array' = Gone /\ UNCHANGED <<list, pc>>
      /\ pool' = Pool([pool.blocks EXCEPT ![1] = all], pool.large, v)
      /\ array \in [at : Addr, data : Addr, nblock : Nat, ndata : Nat]
      /\ array.ndata <= array.nblock
      /\ array.at \notin {NULL, Embedded} => g \in pool.live
      /\ array.data # NULL => array.nblock > 0 /\ BytesIn(pool.live, array.data, array.nblock)
  BY DEF Inv, ArrayDestroy, ArrayParts
<1>2. /\ array.data \in Addr /\ array.nblock \in Nat /\ array.ndata \in Nat
      /\ array.data.off \in Nat /\ array.at.off \in Nat
  <2>1. array.data \in Addr /\ array.at \in Addr /\ array.nblock \in Nat /\ array.ndata \in Nat
    BY <1>1
  <2> QED BY <2>1, ConstantsAreNat DEF Addr
<1>3. pool.blocks[1] \in Nat /\ Hdr <= pool.blocks[1] /\ Hdr \in Nat
  <2>1. /\ Len(pool.blocks) \in Nat /\ Len(pool.blocks) > 0
        /\ DOMAIN pool.blocks = 1..Len(pool.blocks)
        /\ \A k \in DOMAIN pool.blocks : pool.blocks[k] \in Int /\ Hdr <= pool.blocks[k]
    BY <1>1, Lens DEF PoolOK
  <2> QED BY <2>1, ConstantsAreNat
<1>4. ASSUME AtLast(pool)
      PROVE  /\ array.data # NULL /\ array.data.chunk = 1
             /\ array.data.off + ElSize * array.ndata = pool.blocks[1]
  BY <1>4, NullIsAddr DEF AtLast
<1>5. last \in Nat /\ Hdr <= last /\ last <= pool.blocks[1]
  <2>1. CASE AtLast(pool)
    <3>1. ElSize * array.ndata \in Nat /\ ElSize * array.nblock \in Nat \ {0}
      <4>1. array.nblock \in Nat \ {0}
        BY <1>1, <1>2, <1>4, <2>1
      <4> QED BY <1>2, <4>1, ConstantsAreNat, Product, Monotone
    <3>2. array.data.off <= pool.blocks[1]
      <4> DEFINE e == ElSize * array.ndata
      <4>1. e \in Nat /\ array.data.off + e = pool.blocks[1]
        BY <1>4, <2>1, <3>1
      <4> HIDE DEF e
      <4> QED BY <1>2, <1>3, <4>1
    <3>3. PICK r \in pool.live : r.at.chunk = 1 /\ r.at.off <= array.data.off
      <4> DEFINE f == ElSize * array.nblock
      <4>1. f \in Nat \ {0}
        BY <3>1
      <4>2. BytesIn(pool.live, array.data, array.nblock) =>
              \A y \in array.data.off..(array.data.off + f - 1) :
                \E s \in pool.live : s.at.chunk = array.data.chunk /\ s.at.off <= y
        BY DEF BytesIn
      <4> HIDE DEF f
      <4>3. array.data.off \in array.data.off..(array.data.off + f - 1)
        BY <1>2, <4>1
      <4> QED BY <1>1, <1>4, <2>1, <4>2, <4>3
    <3>4. Hdr <= r.at.off /\ r.at.off \in Nat
      <4>1. r \in RegionRec /\ Inside(pool, r)
        BY <1>1 DEF PoolOK, Regions
      <4>2. r.at.off \in 0..MaxAlloc
        BY <4>1 DEF RegionRec, Addr
      <4> QED BY <3>3, <4>1, <4>2, ConstantsAreNat DEF Inside
    <3> QED BY <1>2, <1>3, <2>1, <3>2, <3>3, <3>4
  <2>2. CASE ~AtLast(pool)
    BY <1>3, <2>2
  <2> QED BY <2>1, <2>2
<1>6. ASSUME NEW r \in v, r.at.chunk = 1 PROVE r.at.off + r.size <= last
  <2>1. CASE AtLast(pool)
    BY <1>1, <1>2, <1>4, <1>6, <2>1, BeforeElements
  <2>2. CASE ~AtLast(pool)
    BY <1>1, <1>6, <2>2 DEF PoolOK, Regions, Inside
  <2> QED BY <2>1, <2>2
<1>7. g.at = array.at /\ g.size = ArraySize /\ g.owner = "array"
  BY RegionHas
<1>8. array.at.chunk = 1 => g \in pool.live /\ Inside(pool, g)
  <2>1. array.at.chunk = 1 => array.at \notin {NULL, Embedded}
    BY NullIsAddr, EmbeddedIsAddr
  <2> QED BY <1>1, <2>1 DEF PoolOK, Regions
<1> HIDE DEF g, last
<1>9. all \in Nat /\ Hdr <= all /\ all <= pool.blocks[1]
  <2>1. CASE array.at.chunk = 1 /\ array.at.off + ArraySize = last
    <3>1. Hdr <= array.at.off
      BY <1>7, <1>8, <2>1 DEF Inside
    <3> QED BY <1>2, <1>3, <1>5, <2>1, <3>1, ConstantsAreNat
  <2>2. CASE ~(array.at.chunk = 1 /\ array.at.off + ArraySize = last)
    BY <1>5, <2>2
  <2> QED BY <2>1, <2>2
<1>10. ASSUME NEW r \in v, r.at.chunk = 1 PROVE r.at.off + r.size <= all
  <2>1. CASE array.at.chunk = 1 /\ array.at.off + ArraySize = last
    <3>1. r # g /\ Apart(r, g)
      BY <1>1, <1>7, <1>8, <2>1 DEF PoolOK, Regions
    <3>2. r.at.off \in Nat /\ r.size \in Nat /\ r.size > 0
      <4>1. r \in RegionRec
        BY <1>1 DEF PoolOK, Regions
      <4>2. r.at.off \in 0..MaxAlloc /\ r.size \in 1..MaxAlloc
        BY <4>1 DEF RegionRec, Addr
      <4> QED BY <4>2, ConstantsAreNat
    <3>3. r.at.off + r.size <= last
      BY <1>6, <1>10
    <3>4. \/ r.at.off + r.size <= array.at.off
          \/ array.at.off + ArraySize <= r.at.off
      BY <1>7, <1>10, <2>1, <3>1 DEF Apart
    <3> QED BY <1>2, <1>5, <2>1, <3>2, <3>3, <3>4, ConstantsAreNat
  <2>2. CASE ~(array.at.chunk = 1 /\ array.at.off + ArraySize = last)
    BY <1>6, <1>10, <2>2
  <2> QED BY <2>1, <2>2
<1> HIDE DEF all
<1>11. PoolOK(pool')
  BY <1>1, <1>9, <1>10, BlockShrinks
<1>12. ListParts(pool'.live, list')
  <2>1. pool'.live = v
    BY <1>1, PoolHas
  <2>2. \A a, n : Region(a, n, "list").owner # "array"
    BY RegionHas
  <2> QED BY <1>1, <2>1, <2>2 DEF Inv, ListParts
<1>13. ArrayParts(pool'.live, array')
  BY <1>1, GoneOK
<1>14. FreedOK'
  BY <1>1, FreedKept DEF Inv, Run
<1> QED BY <1>11, <1>12, <1>13, <1>14 DEF Inv

NodeRec == [data : Addr, ndata : 0..ListN]
NodesIn(v, nodes) ==
  \A i \in DOMAIN nodes : Region(nodes[i].data, ElSize * ListN, "list") \in v

LEMMA NodeHas ==
  ASSUME NEW d \in Addr, NEW n \in 0..ListN
  PROVE  Node(d, n) \in NodeRec /\ Node(d, n).data = d /\ Node(d, n).ndata = n
BY DEF Node, NodeRec

\* The last node takes one element more.
LEMMA ListElementOK ==
  ASSUME NEW v, NEW m, NEW nodes \in Seq(NodeRec), Len(nodes) > 0,
         nodes[Len(nodes)].ndata < ListN, NodesIn(v, nodes), list.at \in Addr,
         ListElement(nodes, m)
  PROVE  ListParts(v, list')
<1> DEFINE k == Len(nodes)
           e == Node(nodes[k].data, nodes[k].ndata + 1)
           t == [nodes EXCEPT ![k] = e]
<1>1. /\ Len(nodes) \in Nat /\ DOMAIN nodes = 1..Len(nodes) /\ k \in 1..Len(nodes)
      /\ nodes[k] \in NodeRec
  <2>1. Len(nodes) \in Nat /\ DOMAIN nodes = 1..Len(nodes)
    BY LenProperties
  <2>2. k \in 1..Len(nodes)
    BY <2>1
  <2> QED BY <2>1, <2>2, ElementOfSeq
<1>2. e \in NodeRec /\ e.data = nodes[k].data
  <2>1. nodes[k].data \in Addr /\ nodes[k].ndata \in 0..ListN
    BY <1>1 DEF NodeRec
  <2>2. nodes[k].ndata + 1 \in 0..ListN
    BY <2>1, ConstantsAreNat
  <2> QED BY <2>1, <2>2, NodeHas
<1>3. list' = [at |-> list.at, nodes |-> t]
  BY DEF ListElement
<1> HIDE DEF e
<1>4. /\ t \in Seq(NodeRec) /\ Len(t) = Len(nodes) /\ DOMAIN t = DOMAIN nodes
      /\ t[k] = e /\ \A i \in DOMAIN nodes : i # k => t[i] = nodes[i]
  BY <1>1, <1>2, ExceptSeq
<1> HIDE DEF t, k
<1>5. list'.at = list.at /\ list'.nodes = t
  BY <1>3
<1>6. \A i \in DOMAIN t : t[i].data = nodes[i].data
  BY <1>2, <1>4
<1>7. \A i \in DOMAIN t : Region(t[i].data, ElSize * ListN, "list") \in v
  BY <1>4, <1>6 DEF NodesIn
<1> QED BY <1>4, <1>5, <1>7 DEF ListParts, NodeRec

\* What a list is before and after.
LEMMA ListHas ==
  ASSUME NEW v, ListParts(v, list), list # NoList
  PROVE  /\ list.at \in Addr /\ list.nodes \in Seq(NodeRec) /\ Len(list.nodes) > 0
         /\ Len(list.nodes) \in Nat
         /\ NodesIn(v, list.nodes)
BY LenProperties DEF ListParts, NodesIn, NodeRec

LEMMA NoListOK == ASSUME NEW v PROVE ListParts(v, NoList)
<1>1. NoList.at = NULL /\ NoList.nodes = <<>>
  BY DEF NoList
<1>2. NoList.nodes \in Seq([data : Addr, ndata : 0..ListN]) /\ DOMAIN NoList.nodes = {}
  BY <1>1, EmptySeq
<1> QED BY <1>1, <1>2, NullIsAddr DEF ListParts

\* The list is all that changes besides the pool.
LEMMA OnlyList ==
  ASSUME Inv, Run, UNCHANGED <<array, pc>>, PoolOK(pool'), pool.live \subseteq pool'.live,
         ListParts(pool'.live, list')
  PROVE  Inv'
<1>1. FreedOK'
  BY FreedKept DEF Inv, Run
<1>2. ArrayParts(pool'.live, array')
  BY ArrayKept DEF Inv
<1> QED BY <1>1, <1>2 DEF Inv

LEMMA ListCreateStep == ASSUME Inv, ListCreate PROVE Inv'
<1>1. /\ ListSize \in Nat \ {0} /\ ElSize * ListN \in Nat \ {0} /\ "list" \in Owners
      /\ PoolOK(pool) /\ Run /\ UNCHANGED <<array, pc>>
  BY ConstantsAreNat, Product, OwnersAre DEF Inv, ListCreate
<1>2. PICK s \in Palloc(pool, ListSize, "list") :
        \/ s.at = NULL /\ pool' = s.pool /\ UNCHANGED list
        \/ /\ s.at # NULL
           /\ \E d \in Palloc(s.pool, ElSize * ListN, "list") :
                /\ pool' = d.pool
                /\ list' = IF d.at = NULL THEN NoList
                           ELSE [at |-> s.at, nodes |-> <<Node(d.at, 0)>>]
  BY DEF ListCreate
<1>3. CASE pool' = s.pool /\ UNCHANGED list
  <2>1. PoolOK(pool') /\ pool.live \subseteq pool'.live
    BY <1>1, <1>3, PallocRight DEF Outcome
  <2> QED BY <1>1, <1>3, <2>1, OnlyList, ListKept DEF Inv
<1>4. ASSUME s.at # NULL, NEW d \in Palloc(s.pool, ElSize * ListN, "list"), pool' = d.pool,
             list' = IF d.at = NULL THEN NoList
                     ELSE [at |-> s.at, nodes |-> <<Node(d.at, 0)>>]
      PROVE  Inv'
  <2>1. /\ PoolOK(pool') /\ pool.live \subseteq pool'.live /\ s.at \in Addr
        /\ d.at # NULL => /\ d.at \in Addr
                          /\ Region(d.at, ElSize * ListN, "list") \in pool'.live
    BY <1>1, <1>4, PallocTwice DEF Outcome
  <2>2. CASE d.at = NULL
    BY <1>1, <1>4, <2>1, <2>2, OnlyList, NoListOK
  <2>3. CASE d.at # NULL
    <3> DEFINE e == Node(d.at, 0)
    <3>1. e \in NodeRec /\ e.data = d.at
      <4>1. 0 \in 0..ListN
        BY ConstantsAreNat
      <4> QED BY <2>1, <2>3, <4>1, NodeHas
    <3>2. list' = [at |-> s.at, nodes |-> <<e>>]
      BY <1>4, <2>3
    <3> HIDE DEF e
    <3>3. list'.at = s.at /\ list'.nodes = <<e>>
      BY <3>2
    <3>4. /\ <<e>> \in Seq(NodeRec) /\ Len(<<e>>) = 1 /\ DOMAIN <<e>> = 1..1
          /\ <<e>>[1] = e
      BY <3>1
    <3>5. ListParts(pool'.live, list')
      <4>1. \A i \in DOMAIN <<e>> : <<e>>[i] = e
        BY <3>4
      <4> QED BY <2>1, <2>3, <3>1, <3>3, <3>4, <4>1 DEF ListParts, NodeRec
    <3> QED BY <1>1, <2>1, <3>5, OnlyList
  <2> QED BY <2>2, <2>3
<1> QED BY <1>2, <1>3, <1>4

LEMMA ListPushStep == ASSUME Inv, ListPush PROVE Inv'
<1>1. /\ ListNode \in Nat \ {0} /\ ListN * ElSize \in Nat \ {0}
      /\ ListN * ElSize = ElSize * ListN /\ "list" \in Owners
      /\ PoolOK(pool) /\ Run /\ UNCHANGED <<array, pc>> /\ list # NoList
      /\ ListParts(pool.live, list)
  BY ConstantsAreNat, Product, OwnersAre DEF Inv, ListPush
<1>2. /\ list.at \in Addr /\ list.nodes \in Seq(NodeRec) /\ Len(list.nodes) > 0
      /\ Len(list.nodes) \in Nat /\ NodesIn(pool.live, list.nodes)
  BY <1>1, ListHas
<1>3. CASE list.nodes[Len(list.nodes)].ndata < ListN
  <2>1. ListElement(list.nodes, mem) /\ pool' = pool
    BY <1>3 DEF ListPush
  <2>2. ListParts(pool'.live, list')
    BY <1>2, <1>3, <2>1, ListElementOK
  <2> QED BY <1>1, <2>1, <2>2, OnlyList
<1>4. CASE ~(list.nodes[Len(list.nodes)].ndata < ListN)
  <2>1. PICK s \in Palloc(pool, ListNode, "list") :
          \/ s.at = NULL /\ pool' = s.pool /\ UNCHANGED list
          \/ \E d \in Palloc(s.pool, ListN * ElSize, "list") :
               /\ pool' = d.pool
               /\ \/ d.at = NULL /\ UNCHANGED list
                  \/ /\ d.at # NULL
                     /\ \E m : ListElement(Append(list.nodes, Node(d.at, 0)), m)
    BY <1>4 DEF ListPush
  <2>2. CASE pool' = s.pool /\ UNCHANGED list
    <3>1. PoolOK(pool') /\ pool.live \subseteq pool'.live
      BY <1>1, <2>2, PallocRight DEF Outcome
    <3> QED BY <1>1, <2>2, <3>1, OnlyList, ListKept
  <2>3. ASSUME NEW d \in Palloc(s.pool, ListN * ElSize, "list"), pool' = d.pool
        PROVE  /\ PoolOK(pool') /\ pool.live \subseteq pool'.live
               /\ d.at # NULL => /\ d.at \in Addr
                                 /\ Region(d.at, ListN * ElSize, "list") \in pool'.live
    BY <1>1, <2>3, PallocTwice DEF Outcome
  <2>4. ASSUME NEW d \in Palloc(s.pool, ListN * ElSize, "list"), pool' = d.pool,
               UNCHANGED list
        PROVE  Inv'
    BY <1>1, <2>3, <2>4, OnlyList, ListKept
  <2>5. ASSUME NEW d \in Palloc(s.pool, ListN * ElSize, "list"), pool' = d.pool,
               d.at # NULL, NEW m, ListElement(Append(list.nodes, Node(d.at, 0)), m)
        PROVE  Inv'
    <3> DEFINE e == Node(d.at, 0)
               t == Append(list.nodes, e)
               k == Len(list.nodes) + 1
    <3>1. e \in NodeRec /\ e.data = d.at /\ e.ndata = 0
      <4>1. 0 \in 0..ListN /\ d.at \in Addr
        BY <2>3, <2>5, ConstantsAreNat
      <4> QED BY <4>1, NodeHas
    <3>2. ListElement(t, m)
      BY <2>5
    <3> HIDE DEF e
    <3>3. /\ t \in Seq(NodeRec) /\ Len(t) = k /\ t[k] = e
          /\ \A i \in 1..Len(list.nodes) : t[i] = list.nodes[i]
      BY <1>2, <3>1, AppendProperties
    <3>4. DOMAIN t = 1..k /\ DOMAIN list.nodes = 1..Len(list.nodes)
      BY <1>2, <3>3, LenProperties
    <3> HIDE DEF t
    <3>5. \A i \in DOMAIN t : i \in DOMAIN list.nodes \/ i = k
      BY <1>2, <3>4
    <3>6. NodesIn(pool'.live, t)
      <4>1. \A i \in DOMAIN list.nodes :
              Region(list.nodes[i].data, ElSize * ListN, "list") \in pool'.live
        BY <1>2, <2>3, <2>5 DEF NodesIn
      <4>2. Region(e.data, ElSize * ListN, "list") \in pool'.live
        BY <1>1, <2>3, <2>5, <3>1
      <4> QED BY <3>3, <3>4, <3>5, <4>1, <4>2 DEF NodesIn
    <3>7. Len(t) > 0 /\ t[Len(t)].ndata < ListN
      BY <1>2, <3>1, <3>3, ConstantsAreNat
    <3>8. ListParts(pool'.live, list')
      BY <1>2, <3>2, <3>3, <3>6, <3>7, ListElementOK
    <3> QED BY <1>1, <2>3, <2>5, <3>8, OnlyList
  <2> QED BY <2>1, <2>2, <2>4, <2>5
<1> QED BY <1>3, <1>4

-----------------------------------------------------------------------------
(***************************************************************************)
(* The end of the pool.                                                    *)
(***************************************************************************)
LEMMA DestroyStep == ASSUME Inv, Destroy PROVE Inv'
<1>1. /\ pool' = Pool(pool.blocks, pool.large, {}) /\ array' = Gone /\ list' = NoList
      /\ pc = "run" /\ pc' = "large" /\ freed' = freed
  BY DEF Destroy, Forget, Run
<1>2. pool'.blocks = pool.blocks /\ pool'.large = pool.large /\ pool'.live = {}
  BY <1>1, PoolHas
<1>3. PoolOK(pool')
  BY <1>2 DEF Inv, PoolOK, Shape, Regions
<1>4. ArrayParts(pool'.live, array') /\ ListParts(pool'.live, list')
  BY <1>1, GoneOK, NoListOK
<1>5. FreedOK'
  <2>1. Len(freed) = 0 /\ freed \in Seq(Chunks \ {0})
    BY <1>1 DEF Inv, FreedOK
  <2>2. InOrder'
    BY <1>1, <2>1 DEF InOrder
  <2>3. 0 <= Len(pool.large)
    BY Lens DEF Inv, PoolOK
  <2> QED BY <1>1, <1>2, <2>1, <2>2, <2>3 DEF FreedOK
<1> QED BY <1>3, <1>4, <1>5 DEF Inv

\* The chunk that is freed as the n-th, when there are l large pieces.
Nth(n, l) == IF n <= l THEN -n ELSE n - l

\* One chunk more is freed.
LEMMA FreeOne ==
  ASSUME Inv, NEW c \in Chunks \ {0}, Free(c), c = Nth(Len(freed) + 1, Len(pool.large))
  PROVE  freed' \in Seq(Chunks \ {0}) /\ Len(freed') = Len(freed) + 1 /\ InOrder'
<1> DEFINE t == Append(freed, c)
           n == Len(freed)
<1>1. freed \in Seq(Chunks \ {0}) /\ n \in Nat
  BY LenProperties DEF Inv, FreedOK
<1>2. \A i \in 1..n : freed[i] = Nth(i, Len(pool.large))
  BY DEF Inv, FreedOK, InOrder, Nth
<1>3. freed' = t /\ pool' = pool
  BY DEF Free
<1>4. /\ t \in Seq(Chunks \ {0}) /\ Len(t) = n + 1
      /\ t[n + 1] = c /\ \A i \in 1..n : t[i] = freed[i]
  BY <1>1, AppendProperties
<1> HIDE DEF t
<1>5. c = Nth(n + 1, Len(pool.large))
  OBVIOUS
<1> HIDE DEF n
<1>6. \A i \in 1..(n + 1) : i \in 1..n \/ i = n + 1
  BY <1>1
<1>7. \A i \in 1..(n + 1) : t[i] = Nth(i, Len(pool.large))
  BY <1>2, <1>4, <1>5, <1>6
<1>8. InOrder'
  BY <1>3, <1>4, <1>7 DEF InOrder, Nth
<1> QED BY <1>3, <1>4, <1>8 DEF n

LEMMA FreeStep == ASSUME Inv, FreeLarge \/ FreeBlock PROVE Inv'
<1> DEFINE L == Len(pool.large)
           B == Len(pool.blocks)
           F == Len(freed)
<1>1. UNCHANGED <<pool, array, list>>
  BY DEF FreeLarge, FreeBlock, Free
<1>2. PoolOK(pool') /\ ArrayParts(pool'.live, array') /\ ListParts(pool'.live, list')
  BY <1>1 DEF Inv
<1>3. /\ B \in Nat /\ L \in Nat /\ B > 0 /\ F \in Nat /\ MaxChunks \in Nat
      /\ B <= MaxChunks /\ L <= MaxChunks
  <2>1. F \in Nat
    BY LenProperties DEF Inv, FreedOK
  <2>2. L \in 0..MaxChunks /\ B \in Nat /\ B > 0 /\ B <= MaxChunks
    BY Lens DEF Inv, PoolOK
  <2> HIDE DEF L, B, F
  <2> QED BY <2>1, <2>2, ConstantsAreNat
<1>4. L' = L /\ B' = B
  BY <1>1
<1>5. \/ pc = "large" /\ F + 1 <= L /\ Free(-(F + 1)) /\ UNCHANGED pc
      \/ pc = "large" /\ F + 1 > L /\ pc' = "blocks" /\ UNCHANGED <<pool, freed>>
      \/ /\ pc = "blocks" /\ Free(F - L + 1)
         /\ pc' = IF F - L + 1 = B THEN "destroyed" ELSE "blocks"
  BY DEF FreeLarge, FreeBlock
<1>6. /\ pc = "large" => F <= L
      /\ pc = "blocks" => L <= F /\ F < L + B
      /\ freed \in Seq(Chunks \ {0}) /\ InOrder
  BY DEF Inv, FreedOK
<1>7. ASSUME NEW c \in Chunks \ {0}, Free(c), c = Nth(F + 1, L)
      PROVE  freed' \in Seq(Chunks \ {0}) /\ F' = F + 1 /\ InOrder'
  BY <1>7, FreeOne
<1>8. /\ freed' \in Seq(Chunks \ {0}) /\ InOrder'
      /\ pc' \in {"large", "blocks", "destroyed"}
      /\ pc' = "large" => F' <= L'
      /\ pc' = "blocks" => L' <= F' /\ F' < L' + B'
      /\ pc' = "destroyed" => F' = L' + B'
  <2>1. CASE pc = "large" /\ F + 1 <= L /\ Free(-(F + 1)) /\ UNCHANGED pc
    <3> HIDE DEF L, B, F
    <3>1. -(F + 1) \in Chunks \ {0} /\ -(F + 1) = Nth(F + 1, L)
      BY <1>3, <2>1 DEF Chunks, Nth
    <3>2. freed' \in Seq(Chunks \ {0}) /\ F' = F + 1 /\ InOrder'
      BY <1>7, <2>1, <3>1
    <3> QED BY <1>4, <2>1, <3>2
  <2>2. CASE pc = "large" /\ F + 1 > L /\ pc' = "blocks" /\ UNCHANGED <<pool, freed>>
    <3>1. F' = F /\ freed' = freed
      BY <2>2
    <3>2. InOrder'
      BY <1>6, <2>2 DEF InOrder
    <3> HIDE DEF L, B, F
    <3> QED BY <1>3, <1>4, <1>6, <2>2, <3>1, <3>2
  <2>3. CASE /\ pc = "blocks" /\ Free(F - L + 1)
             /\ pc' = IF F - L + 1 = B THEN "destroyed" ELSE "blocks"
    <3> HIDE DEF L, B, F
    <3>1. F - L + 1 \in 1..B /\ F - L + 1 \in Chunks \ {0} /\ F - L + 1 = Nth(F + 1, L)
      BY <1>3, <1>6, <2>3 DEF Chunks, Nth
    <3>2. freed' \in Seq(Chunks \ {0}) /\ F' = F + 1 /\ InOrder'
      BY <1>7, <2>3, <3>1
    <3>3. CASE F - L + 1 = B
      BY <1>3, <1>4, <2>3, <3>2, <3>3
    <3>4. CASE F - L + 1 # B
      BY <1>3, <1>4, <1>6, <2>3, <3>1, <3>2, <3>4
    <3> QED BY <3>3, <3>4
  <2> QED BY <1>5, <2>1, <2>2, <2>3
<1>9. FreedOK'
  BY <1>8 DEF FreedOK
<1> QED BY <1>2, <1>9 DEF Inv

-----------------------------------------------------------------------------
LEMMA InvInit == Init => Inv
<1> SUFFICES ASSUME Init PROVE Inv
  OBVIOUS
<1>1. pool.blocks = <<Hdr>> /\ pool.large = <<>> /\ pool.live = {}
  BY PoolHas DEF Init
<1>2. <<Hdr>> \in Seq(Hdr..BlockSize) /\ Len(<<Hdr>>) = 1
  <2>1. Hdr \in Hdr..BlockSize
    BY ConstantsAreNat
  <2> QED BY <2>1
<1>3. <<>> \in Seq(Large0) /\ Len(<<>>) = 0
  BY EmptySeq
<1>4. 1 > 0 /\ 1 + 0 <= MaxChunks
  BY ConstantsAreNat
<1>5. Shape(pool)
  BY <1>1, <1>2, <1>3, <1>4 DEF Shape
<1>6. PoolOK(pool)
  BY <1>1, <1>5 DEF PoolOK, Regions
<1>7. FreedOK
  <2>1. freed = <<>> /\ pc = "run"
    BY DEF Init
  <2> QED BY <2>1 DEF FreedOK, InOrder
<1>8. ArrayParts(pool.live, array) /\ ListParts(pool.live, list)
  BY GoneOK, NoListOK DEF Init
<1> QED BY <1>6, <1>7, <1>8 DEF Inv

LEMMA InvStep == Inv /\ [Next]_vars => Inv'
<1> SUFFICES ASSUME Inv, [Next]_vars PROVE Inv'
  OBVIOUS
<1>1. ASSUME NEW n \in Sizes, Allocate(n) \/ CreateTempBuf(n) PROVE Inv'
  BY <1>1, AllocateStep, CreateTempBufStep
<1>2. CASE ArrayCreate \/ ArrayInit
  BY <1>2, ArrayCreateStep, ArrayInitStep
<1>3. CASE ArrayPush
  BY <1>3, ArrayPushStep
<1>4. CASE ArrayPushNull
  BY <1>4, ArrayPushNullStep
<1>5. CASE ArrayDestroy
  BY <1>5, ArrayDestroyStep
<1>6. CASE ListCreate
  BY <1>6, ListCreateStep
<1>7. CASE ListPush
  BY <1>7, ListPushStep
<1>8. CASE Destroy
  BY <1>8, DestroyStep
<1>9. CASE FreeLarge \/ FreeBlock
  BY <1>9, FreeStep
<1>10. CASE UNCHANGED vars
  <2>1. UNCHANGED <<pool, array, list, pc, freed>>
    BY <1>10 DEF vars
  <2> QED BY <2>1 DEF Inv, FreedOK, InOrder
<1> QED BY <1>1, <1>2, <1>3, <1>4, <1>5, <1>6, <1>7, <1>8, <1>9, <1>10 DEF Next, Over

LEMMA Invariant == Spec => []Inv
BY InvInit, InvStep, PTL DEF Spec

\* Types: no free offset leaves its block, no chunk too many is taken, and the
\* array has room for what is in it.
THEOREM TypeCorrect == Spec => []TypeOK
<1>1. Inv => TypeOK
  <2> SUFFICES ASSUME Inv PROVE TypeOK
    OBVIOUS
  <2>1. /\ pool.blocks \in Seq(Hdr..BlockSize) /\ Len(pool.blocks) > 0
        /\ pool.large \in Seq([node : Addr, size : 0..MaxAlloc])
        /\ Len(pool.blocks) + Len(pool.large) <= MaxChunks
        /\ \A r \in pool.live : r \in [at : Addr, size : 1..MaxAlloc, owner : Owners]
    BY DEF Inv, PoolOK, Shape, Regions, RegionRec, Large0
  <2> QED BY <2>1 DEF Inv, FreedOK, ArrayParts, ListParts, TypeOK
<1> QED BY <1>1, Invariant, PTL

\* Whatever is allocated, grown, moved and given back, in any order and with
\* any failures of malloc, no two users of a pool share memory.
THEOREM MemoryIsOwn == Spec => []OwnMemory
<1>1. Inv => OwnMemory
  <2> SUFFICES ASSUME Inv PROVE OwnMemory
    OBVIOUS
  <2>1. /\ \A r \in pool.live : Inside(pool, r)
        /\ \A r, s \in pool.live : r # s => Apart(r, s)
    BY DEF Inv, PoolOK, Regions
  <2>2. array.data # NULL => ElementsIn(pool.live, array.data, array.nblock)
    BY DEF Inv, ArrayParts
  <2>3. \A i \in DOMAIN list.nodes :
          \E r \in pool.live : r.owner = "list" /\ r.at = list.nodes[i].data
                                /\ r.size = ElSize * ListN
    BY RegionHas DEF Inv, ListParts
  <2> QED BY <2>1, <2>2, <2>3 DEF OwnMemory, ElementsIn
<1> QED BY <1>1, Invariant, PTL

\* However many blocks and large pieces a pool has, destroying it frees each
\* once, and no node is read that lies in a freed block.
THEOREM ChunksAreFreedOnce == Spec => []FreedOnce
<1>1. Inv => FreedOnce
  <2> SUFFICES ASSUME Inv PROVE FreedOnce
    OBVIOUS
  <2> DEFINE L == Len(pool.large)
             B == Len(pool.blocks)
             F == Len(freed)
  <2>1. /\ B \in Nat /\ L \in Nat /\ F \in Nat
        /\ DOMAIN pool.blocks = 1..B /\ DOMAIN pool.large = 1..L /\ DOMAIN freed = 1..F
        /\ \A i \in DOMAIN pool.large : pool.large[i].node.chunk > 0
    BY Lens, LenProperties DEF Inv, PoolOK, Shape, FreedOK
  <2>2. \A i \in 1..F : freed[i] = IF i <= L THEN -i ELSE i - L
    BY DEF Inv, FreedOK, InOrder
  <2>6. /\ pc = "large" => F <= L
        /\ pc = "destroyed" => F = L + B
    BY DEF Inv, FreedOK
  <2> HIDE DEF L, B, F
  <2>3. \A i, k \in DOMAIN freed : i # k => freed[i] # freed[k]
    BY <2>1, <2>2
  <2>4. ASSUME pc = "large", NEW i \in DOMAIN pool.large, NEW k \in DOMAIN freed
        PROVE  freed[k] # pool.large[i].node.chunk
    <3>1. freed[k] = -k /\ k \in Nat \ {0}
      BY <2>1, <2>2, <2>4, <2>6
    <3>2. ~(-k > 0)
      BY <3>1
    <3> QED BY <2>1, <3>1, <3>2
  <2>5. ASSUME pc = "destroyed"
        PROVE  {freed[i] : i \in DOMAIN freed}
                 = DOMAIN pool.blocks \cup {-i : i \in DOMAIN pool.large}
    <3>1. F = L + B
      BY <2>5, <2>6
    <3>2. ASSUME NEW i \in DOMAIN freed
          PROVE  freed[i] \in DOMAIN pool.blocks \cup {-k : k \in DOMAIN pool.large}
      <4>1. CASE i <= L
        <5>1. i \in DOMAIN pool.large /\ freed[i] = -i
          BY <2>1, <2>2, <4>1
        <5> QED BY <5>1
      <4>2. CASE i > L
        <5>1. freed[i] = i - L /\ i - L \in 1..B
          BY <2>1, <2>2, <3>1, <4>2
        <5> QED BY <2>1, <5>1
      <4> QED BY <2>1, <4>1, <4>2
    <3>3. ASSUME NEW i \in DOMAIN pool.large PROVE i \in DOMAIN freed /\ freed[i] = -i
      BY <2>1, <2>2, <3>1
    <3>4. ASSUME NEW i \in DOMAIN pool.blocks
          PROVE  i + L \in DOMAIN freed /\ freed[i + L] = i
      BY <2>1, <2>2, <3>1
    <3> QED BY <3>2, <3>3, <3>4
  <2> QED BY <2>3, <2>4, <2>5 DEF FreedOnce
<1> QED BY <1>1, Invariant, PTL

-----------------------------------------------------------------------------
(***************************************************************************)
(* What the memory holds.  A write to memory that is given out for the     *)
(* first time changes nothing that the array or the list holds; a write to *)
(* the memory of one of them changes nothing of the other.                 *)
(***************************************************************************)
Cells == Chunks \X (0..MaxAlloc)

ArrayHolds(m, a) ==
  /\ a.data = NULL => a.ndata = 0
  /\ \A k \in 0..(a.ndata - 1), b \in 0..(ElSize - 1) :
       m[<<a.data.chunk, a.data.off + ElSize * k + b>>] = k + 1

\* The nodes hold n elements each, numbered through all of them.
NodesHold(m, nodes) ==
  \A i \in DOMAIN nodes : \A n \in 0..(nodes[i].ndata - 1) :
    m[<<nodes[i].data.chunk, nodes[i].data.off + ElSize * n>>] = ListN * (i - 1) + n + 1

ListHolds(m, l) ==
  /\ NodesHold(m, l.nodes)
  /\ \A i \in 1..(Len(l.nodes) - 1) : l.nodes[i].ndata = ListN
  /\ \A i, j \in DOMAIN l.nodes : i # j => l.nodes[i].data # l.nodes[j].data

HoldsInv == DOMAIN mem = Cells /\ ArrayHolds(mem, array) /\ ListHolds(mem, list)

\* A byte that somebody has, and that a change of the memory leaves alone.
HasCell(v, who, c) == \E r \in v : r.owner = who /\ In(c, r.at, r.size)
Keeps(v, who, m, w) == \A c \in Cells : HasCell(v, who, c) => w[c] = m[c]
OnlyAt(m, w, a, n) ==
  DOMAIN w = Cells /\ \A c \in Cells : ~In(c, a, n) => w[c] = m[c]

LEMMA CellIs ==
  ASSUME NEW x, NEW y
  PROVE  /\ <<x, y>>[1] = x /\ <<x, y>>[2] = y
         /\ <<x, y>> \in Cells <=> x \in Chunks /\ y \in 0..MaxAlloc
BY DEF Cells

LEMMA CellParts ==
  ASSUME NEW c \in Cells
  PROVE  c[1] \in Int /\ c[2] \in Nat /\ c = <<c[1], c[2]>>
BY ConstantsAreNat DEF Cells, Chunks

LEMMA RegionNumbers ==
  ASSUME NEW r \in RegionRec
  PROVE  /\ r.at \in Addr /\ r.at.chunk \in Int /\ r.at.chunk \in Chunks
         /\ r.at.off \in Nat /\ r.size \in Nat \ {0}
BY ConstantsAreNat DEF RegionRec, Addr, Chunks

\* The bytes of a region are memory.
LEMMA RegionInMemory ==
  ASSUME NEW p, PoolOK(p), NEW r \in p.live, NEW o \in Int,
         r.at.off <= o, o < r.at.off + r.size
  PROVE  <<r.at.chunk, o>> \in Cells /\ In(<<r.at.chunk, o>>, r.at, r.size)
<1>1. r \in RegionRec /\ Inside(p, r) /\ Shape(p)
  BY DEF PoolOK, Regions
<1>2. r.at.chunk \in Chunks /\ r.at.off \in Nat /\ r.size \in Nat
  BY <1>1, RegionNumbers
<1>3. r.at.off + r.size <= MaxAlloc
  <2>1. CASE r.at.chunk > 0
    <3>1. r.at.chunk \in DOMAIN p.blocks /\ r.at.off + r.size <= p.blocks[r.at.chunk]
      BY <1>1, <2>1 DEF Inside
    <3>2. p.blocks[r.at.chunk] \in Int /\ p.blocks[r.at.chunk] <= BlockSize
      BY <1>1, <3>1, Lens
    <3> QED BY <1>2, <3>1, <3>2, ConstantsAreNat
  <2>2. CASE ~(r.at.chunk > 0)
    <3>1. -r.at.chunk \in DOMAIN p.large /\ r.at.off + r.size <= p.large[-r.at.chunk].size
      BY <1>1, <2>2 DEF Inside
    <3>2. p.large[-r.at.chunk].size \in 0..MaxAlloc
      BY <1>1, <3>1, Lens DEF Large0
    <3> QED BY <1>2, <3>1, <3>2, ConstantsAreNat
  <2> QED BY <2>1, <2>2
<1>4. o \in 0..MaxAlloc
  BY <1>2, <1>3, ConstantsAreNat
<1> QED BY <1>2, <1>4, CellIs DEF In

\* Nobody has a byte that somebody else has.
LEMMA OneOwner ==
  ASSUME NEW p, PoolOK(p), NEW c \in Cells, NEW who, HasCell(p.live, who, c),
         NEW other, HasCell(p.live, other, c)
  PROVE  who = other
<1>1. PICK r \in p.live : r.owner = who /\ In(c, r.at, r.size)
  BY DEF HasCell
<1>2. PICK s \in p.live : s.owner = other /\ In(c, s.at, s.size)
  BY DEF HasCell
<1> SUFFICES ASSUME r # s PROVE FALSE
  BY <1>1, <1>2
<1>3. Apart(r, s) /\ r \in RegionRec /\ s \in RegionRec
  BY DEF PoolOK, Regions
<1>4. /\ r.at.off \in Nat /\ r.size \in Nat /\ s.at.off \in Nat /\ s.size \in Nat
      /\ c[1] \in Int /\ c[2] \in Nat
  BY <1>3, RegionNumbers, CellParts
<1> QED BY <1>1, <1>2, <1>3, <1>4 DEF Apart, In

\* A write to new memory.
LEMMA FreshKeeps ==
  ASSUME NEW p, PoolOK(p), NEW a \in Addr, NEW n \in Nat, NEW by,
         \A s \in p.live : Apart(Region(a, n, by), s),
         NEW m, NEW w, OnlyAt(m, w, a, n), NEW who
  PROVE  Keeps(p.live, who, m, w)
<1> SUFFICES ASSUME NEW c \in Cells, NEW r \in p.live, In(c, r.at, r.size), In(c, a, n)
             PROVE  FALSE
  BY DEF Keeps, HasCell, OnlyAt
<1>1. Apart(Region(a, n, by), r) /\ r \in RegionRec
  BY DEF PoolOK, Regions
<1>2. /\ r.at.off \in Nat /\ r.size \in Nat /\ a.off \in Nat /\ n \in Nat
      /\ c[1] \in Int /\ c[2] \in Nat
  BY <1>1, RegionNumbers, CellParts DEF Addr
<1>3. \/ a.chunk # r.at.chunk
      \/ a.off + n <= r.at.off \/ r.at.off + r.size <= a.off
  BY <1>1, RegionHas DEF Apart
<1> QED BY <1>2, <1>3 DEF In

LEMMA OutcomeKeeps ==
  ASSUME NEW p, PoolOK(p), NEW r, NEW n \in Nat, NEW by, Outcome(p, r, n, by), r.at # NULL,
         NEW m, NEW w, OnlyAt(m, w, r.at, n), NEW who
  PROVE  Keeps(p.live, who, m, w)
BY FreshKeeps DEF Outcome

LEMMA KeepsBoth ==
  ASSUME NEW v, NEW u, v \subseteq u, NEW who, NEW m, NEW w, NEW x,
         Keeps(v, who, m, w), Keeps(u, who, w, x)
  PROVE  Keeps(v, who, m, x)
BY DEF Keeps, HasCell

LEMMA KeepsSame ==
  ASSUME NEW v, NEW who, NEW m
  PROVE  Keeps(v, who, m, m)
BY DEF Keeps

LEMMA WriteIs ==
  ASSUME NEW m, DOMAIN m = Cells, NEW a, NEW n, NEW x
  PROVE  /\ OnlyAt(m, Write(m, a, n, x), a, n)
         /\ \A c \in Cells : In(c, a, n) => Write(m, a, n, x)[c] = x
BY DEF Write, OnlyAt

LEMMA CopyIs ==
  ASSUME NEW m, DOMAIN m = Cells, NEW to, NEW from, NEW n
  PROVE  /\ OnlyAt(m, Copy(m, to, from, n), to, n)
         /\ \A c \in Cells : In(c, to, n) =>
              Copy(m, to, from, n)[c] = m[<<from.chunk, from.off + c[2] - to.off>>]
BY DEF Copy, OnlyAt

-----------------------------------------------------------------------------
(***************************************************************************)
(* Where the elements are.                                                 *)
(***************************************************************************)
\* A byte of the element k of n.
LEMMA ElementByte ==
  ASSUME NEW n \in Nat, NEW k \in 0..(n - 1), NEW b \in 0..(ElSize - 1)
  PROVE  ElSize * k + b \in Nat /\ ElSize * k + b < ElSize * n /\ ElSize * n \in Nat
<1> DEFINE h == ElSize * k
           m == ElSize * n
<1>1. h \in Nat /\ m \in Nat /\ h + ElSize <= m /\ ElSize \in Nat \ {0}
  BY ConstantsAreNat, Multiples, Monotone
<1> HIDE DEF h, m
<1>2. h + b \in Nat /\ h + b < m
  BY <1>1
<1> QED BY <1>1, <1>2 DEF h, m

LEMMA ArrayByte ==
  ASSUME NEW p, PoolOK(p), NEW d \in Addr, NEW n \in Nat, BytesIn(p.live, d, n),
         NEW o \in Nat, o < ElSize * n
  PROVE  /\ <<d.chunk, d.off + o>> \in Cells
         /\ HasCell(p.live, "array", <<d.chunk, d.off + o>>)
<1> DEFINE m == ElSize * n
           x == d.off + o
<1>1. m \in Nat /\ d.off \in Nat /\ o < m
  BY ConstantsAreNat, Monotone DEF Addr
<1> HIDE DEF m
<1>2. x \in d.off..(d.off + m - 1) /\ x \in Int
  BY <1>1
<1>3. PICK r \in p.live : /\ r.owner = "array" /\ r.at.chunk = d.chunk
                          /\ r.at.off <= x /\ x < r.at.off + r.size
  BY <1>2 DEF BytesIn, m
<1> HIDE DEF x
<1>4. <<d.chunk, x>> \in Cells /\ In(<<d.chunk, x>>, r.at, r.size)
  BY <1>2, <1>3, RegionInMemory
<1> QED BY <1>3, <1>4 DEF HasCell, x

LEMMA ArrayElement ==
  ASSUME NEW p, PoolOK(p), NEW d \in Addr, NEW n \in Nat, BytesIn(p.live, d, n),
         NEW k \in 0..(n - 1), NEW b \in 0..(ElSize - 1)
  PROVE  /\ <<d.chunk, d.off + ElSize * k + b>> \in Cells
         /\ HasCell(p.live, "array", <<d.chunk, d.off + ElSize * k + b>>)
<1> DEFINE o == ElSize * k + b
           h == ElSize * k
<1>1. o \in Nat /\ o < ElSize * n
  BY ElementByte
<1>2. /\ <<d.chunk, d.off + o>> \in Cells
      /\ HasCell(p.live, "array", <<d.chunk, d.off + o>>)
  <2> HIDE DEF o
  <2> QED BY <1>1, ArrayByte
<1>3. d.off + o = d.off + ElSize * k + b
  <2>1. h \in Nat /\ d.off \in Nat /\ b \in Int
    BY ConstantsAreNat, Multiples DEF Addr
  <2> HIDE DEF h
  <2>2. d.off + (h + b) = d.off + h + b
    BY <2>1
  <2> QED BY <2>2 DEF h
<1> QED BY <1>2, <1>3

LEMMA NodeCell ==
  ASSUME NEW p, PoolOK(p), NEW d \in Addr, Region(d, ElSize * ListN, "list") \in p.live,
         NEW n \in 0..(ListN - 1)
  PROVE  LET c == <<d.chunk, d.off + ElSize * n>>
         IN /\ c \in Cells /\ In(c, d, ElSize * ListN) /\ HasCell(p.live, "list", c)
<1> DEFINE g == Region(d, ElSize * ListN, "list")
           h == ElSize * n
           m == ElSize * ListN
           x == d.off + h
<1>1. g.at = d /\ g.size = m /\ g.owner = "list" /\ g \in p.live
  BY RegionHas
<1> HIDE DEF g
<1>2. h \in Nat /\ h + ElSize <= m /\ m \in Nat /\ ElSize \in Nat \ {0} /\ d.off \in Nat
  BY ConstantsAreNat, Multiples, Monotone DEF Addr
<1> HIDE DEF h, m
<1>3. x \in Int /\ g.at.off <= x /\ x < g.at.off + g.size
  BY <1>1, <1>2
<1> HIDE DEF x
<1>4. <<d.chunk, x>> \in Cells /\ In(<<d.chunk, x>>, g.at, g.size)
  BY <1>1, <1>3, RegionInMemory
<1> QED BY <1>1, <1>4 DEF HasCell, x, h, m

\* What is held stays when its bytes do.
LEMMA ArrayStays ==
  ASSUME NEW p, PoolOK(p), NEW a, ArrayParts(p.live, a), NEW m, NEW w, ArrayHolds(m, a),
         Keeps(p.live, "array", m, w)
  PROVE  ArrayHolds(w, a)
<1>1. /\ a.data = NULL => a.ndata = 0
      /\ a.ndata \in Nat /\ a.nblock \in Nat /\ a.ndata <= a.nblock /\ a.data \in Addr
      /\ a.data # NULL => BytesIn(p.live, a.data, a.nblock)
  BY DEF ArrayHolds, ArrayParts
<1>2. ASSUME NEW k \in 0..(a.ndata - 1), NEW b \in 0..(ElSize - 1)
      PROVE  w[<<a.data.chunk, a.data.off + ElSize * k + b>>] = k + 1
  <2> DEFINE c == <<a.data.chunk, a.data.off + ElSize * k + b>>
  <2>1. k \in 0..(a.nblock - 1) /\ a.data # NULL
    BY <1>1
  <2>2. c \in Cells /\ HasCell(p.live, "array", c)
    BY <1>1, <2>1, ArrayElement
  <2>3. m[c] = k + 1
    BY DEF ArrayHolds
  <2> HIDE DEF c
  <2>4. w[c] = k + 1
    BY <2>2, <2>3 DEF Keeps
  <2> QED BY <2>4 DEF c
<1> QED BY <1>1, <1>2 DEF ArrayHolds

LEMMA NodesStay ==
  ASSUME NEW p, PoolOK(p), NEW nodes \in Seq(NodeRec), NodesIn(p.live, nodes), NEW m, NEW w,
         NodesHold(m, nodes), Keeps(p.live, "list", m, w)
  PROVE  NodesHold(w, nodes)
<1> SUFFICES ASSUME NEW i \in DOMAIN nodes, NEW n \in 0..(nodes[i].ndata - 1)
             PROVE  w[<<nodes[i].data.chunk, nodes[i].data.off + ElSize * n>>]
                      = ListN * (i - 1) + n + 1
  BY DEF NodesHold
<1> DEFINE d == nodes[i].data
           c == <<d.chunk, d.off + ElSize * n>>
<1>1. nodes[i] \in NodeRec
  BY LenProperties, ElementOfSeq
<1>2. d \in Addr /\ n \in 0..(ListN - 1) /\ Region(d, ElSize * ListN, "list") \in p.live
  BY <1>1, ConstantsAreNat DEF NodesIn, NodeRec
<1>3. m[c] = ListN * (i - 1) + n + 1
  BY DEF NodesHold
<1> HIDE DEF d
<1>4. c \in Cells /\ HasCell(p.live, "list", c)
  BY <1>2, NodeCell
<1> HIDE DEF c
<1>5. w[c] = ListN * (i - 1) + n + 1
  BY <1>3, <1>4 DEF Keeps
<1> QED BY <1>5 DEF c, d

LEMMA ListStays ==
  ASSUME NEW p, PoolOK(p), NEW l, ListParts(p.live, l), NEW m, NEW w, ListHolds(m, l),
         Keeps(p.live, "list", m, w)
  PROVE  ListHolds(w, l)
BY NodesStay DEF ListHolds, ListParts, NodesIn, NodeRec

-----------------------------------------------------------------------------
(***************************************************************************)
(* The steps and what the memory holds.                                    *)
(***************************************************************************)
\* Neither the array nor the list changes, and no byte of theirs does.
LEMMA BothStay ==
  ASSUME Inv, HoldsInv, UNCHANGED <<array, list>>, DOMAIN mem' = Cells,
         \A who \in {"array", "list"} : Keeps(pool.live, who, mem, mem')
  PROVE  HoldsInv'
<1>1. /\ PoolOK(pool) /\ ArrayParts(pool.live, array) /\ ListParts(pool.live, list)
      /\ ArrayHolds(mem, array) /\ ListHolds(mem, list)
  BY DEF Inv, HoldsInv
<1>2. ArrayHolds(mem', array) /\ ListHolds(mem', list)
  BY <1>1, ArrayStays, ListStays
<1> QED BY <1>2 DEF HoldsInv

LEMMA MemoryStays ==
  ASSUME HoldsInv, UNCHANGED <<array, list, mem>>
  PROVE  HoldsInv'
BY DEF HoldsInv

\* What an outcome gives is written to.
LEMMA WriteFresh ==
  ASSUME NEW p, PoolOK(p), NEW m, DOMAIN m = Cells, NEW n \in Nat \ {0}, NEW by \in Owners,
         NEW r \in Palloc(p, n, by), NEW x, NEW who
  PROVE  LET w == IF r.at = NULL THEN m ELSE Write(m, r.at, n, x)
         IN DOMAIN w = Cells /\ Keeps(p.live, who, m, w)
<1>1. Outcome(p, r, n, by) /\ n \in Nat
  BY PallocRight
<1>2. CASE r.at = NULL
  BY <1>2, KeepsSame
<1>3. CASE r.at # NULL
  <2> DEFINE w == Write(m, r.at, n, x)
  <2>1. OnlyAt(m, w, r.at, n)
    BY WriteIs
  <2> HIDE DEF w
  <2>2. DOMAIN w = Cells /\ Keeps(p.live, who, m, w)
    BY <1>1, <1>3, <2>1, OutcomeKeeps DEF OnlyAt
  <2> QED BY <1>3, <2>2 DEF w
<1> QED BY <1>2, <1>3

LEMMA AllocateHolds ==
  ASSUME NEW n \in Sizes, Inv, HoldsInv, Allocate(n)
  PROVE  HoldsInv'
<1>1. n \in Nat \ {0} /\ "other" \in Owners /\ PoolOK(pool) /\ DOMAIN mem = Cells
  BY ConstantsAreNat, OwnersAre DEF Inv, HoldsInv
<1>2. PICK r \in Palloc(pool, n, "other") :
        mem' = IF r.at = NULL THEN mem ELSE Write(mem, r.at, n, 0)
  BY DEF Allocate
<1>3. \A who : DOMAIN mem' = Cells /\ Keeps(pool.live, who, mem, mem')
  BY <1>1, <1>2, WriteFresh
<1> QED BY <1>3, BothStay DEF Allocate

LEMMA CreateTempBufHolds ==
  ASSUME NEW n \in Sizes, Inv, HoldsInv, CreateTempBuf(n)
  PROVE  HoldsInv'
<1>1. /\ n \in Nat \ {0} /\ BufSize \in Nat \ {0} /\ "other" \in Owners
      /\ PoolOK(pool) /\ DOMAIN mem = Cells
  BY ConstantsAreNat, OwnersAre DEF Inv, HoldsInv
<1>2. PICK b \in Palloc(pool, BufSize, "other") :
        \/ UNCHANGED mem
        \/ /\ b.at # NULL
           /\ \E s \in Palloc(b.pool, n, "other") :
                LET m == Write(mem, b.at, BufSize, 0)
                IN mem' = IF s.at = NULL THEN m ELSE Write(m, s.at, n, 0)
  BY DEF CreateTempBuf
<1>3. CASE UNCHANGED mem
  BY <1>3, MemoryStays DEF CreateTempBuf
<1>4. CASE b.at # NULL /\ ~UNCHANGED mem
  <2> DEFINE m == Write(mem, b.at, BufSize, 0)
  <2>1. PICK s \in Palloc(b.pool, n, "other") :
          mem' = IF s.at = NULL THEN m ELSE Write(m, s.at, n, 0)
    BY <1>2, <1>4
  <2>2. \A who : DOMAIN m = Cells /\ Keeps(pool.live, who, mem, m)
    BY <1>1, <1>4, WriteFresh
  <2>3. PoolOK(b.pool) /\ pool.live \subseteq b.pool.live
    BY <1>1, PallocRight DEF Outcome
  <2> HIDE DEF m
  <2>4. \A who : DOMAIN mem' = Cells /\ Keeps(b.pool.live, who, m, mem')
    BY <1>1, <2>1, <2>2, <2>3, WriteFresh
  <2>5. \A who : Keeps(pool.live, who, mem, mem')
    BY <2>2, <2>3, <2>4, KeepsBoth
  <2> QED BY <2>4, <2>5, BothStay DEF CreateTempBuf
<1> QED BY <1>2, <1>3, <1>4

LEMMA ArrayCreateHolds == ASSUME Inv, HoldsInv, ArrayCreate PROVE HoldsInv'
<1>1. /\ ArraySize \in Nat \ {0} /\ "array" \in Owners /\ PoolOK(pool) /\ DOMAIN mem = Cells
  BY ConstantsAreNat, OwnersAre DEF Inv, HoldsInv
<1>2. PICK s \in Palloc(pool, ArraySize, "array") :
        \/ Null
        \/ /\ s.at # NULL /\ mem' = Write(mem, s.at, ArraySize, 0) /\ UNCHANGED list
           /\ \E d : array' = Array(s.at, d, ArrayN, 0)
  BY DEF ArrayCreate
<1>3. CASE Null
  BY <1>3, MemoryStays DEF Null
<1>4. CASE /\ s.at # NULL /\ mem' = Write(mem, s.at, ArraySize, 0) /\ UNCHANGED list
           /\ \E d : array' = Array(s.at, d, ArrayN, 0)
  <2>1. DOMAIN mem' = Cells /\ Keeps(pool.live, "list", mem, mem')
    BY <1>1, <1>4, WriteFresh
  <2>2. ListHolds(mem', list')
    BY <1>1, <1>4, <2>1, ListStays DEF Inv, HoldsInv
  <2>3. array'.ndata = 0
    BY <1>4, ArrayHas
  <2>4. ArrayHolds(mem', array')
    BY <2>3 DEF ArrayHolds
  <2> QED BY <2>1, <2>2, <2>4 DEF HoldsInv
<1> QED BY <1>2, <1>3, <1>4

\* No memory changes, and there is no element yet.
LEMMA ArrayInitHolds == ASSUME HoldsInv, ArrayInit PROVE HoldsInv'
<1>1. UNCHANGED <<list, mem>> /\ array'.ndata = 0
  BY ArrayHas DEF ArrayInit, Unset
<1> QED BY <1>1 DEF HoldsInv, ArrayHolds

\* Element n is written behind the n that are there.
LEMMA ElementSet ==
  ASSUME NEW p, PoolOK(p), NEW d \in Addr, NEW n \in Nat, BytesIn(p.live, d, n + 1),
         NEW m, DOMAIN m = Cells,
         \A k \in 0..(n - 1), b \in 0..(ElSize - 1) :
           m[<<d.chunk, d.off + ElSize * k + b>>] = k + 1,
         NEW w, w = Write(m, Plus(d, ElSize * n), ElSize, n + 1)
  PROVE  \A k \in 0..n, b \in 0..(ElSize - 1) :
           w[<<d.chunk, d.off + ElSize * k + b>>] = k + 1
<1> DEFINE a == Plus(d, ElSize * n)
           l == ElSize * n
<1>1. a.chunk = d.chunk /\ a.off = d.off + l
  BY DEF Plus, At
<1>2. /\ OnlyAt(m, w, a, ElSize)
      /\ \A c \in Cells : In(c, a, ElSize) => w[c] = n + 1
  BY WriteIs
<1>3. d.off \in Nat /\ l \in Nat /\ ElSize \in Nat \ {0}
  BY ConstantsAreNat, Monotone DEF Addr
<1> TAKE k \in 0..n, b \in 0..(ElSize - 1)
<1> DEFINE c == <<d.chunk, d.off + ElSize * k + b>>
           h == ElSize * k
<1>4. c \in Cells
  <2>1. n + 1 \in Nat /\ k \in 0..(n + 1 - 1)
    OBVIOUS
  <2> QED BY <2>1, ArrayElement
<1>5. c[1] = d.chunk /\ c[2] = d.off + h + b /\ h \in Nat /\ b \in Int /\ 0 <= b /\ b < ElSize
  BY <1>3, Monotone
<1>6. CASE k = n
  <2>1. h = l
    BY <1>6
  <2> HIDE DEF h, l, a, c
  <2>2. In(c, a, ElSize)
    BY <1>1, <1>3, <1>5, <2>1 DEF In
  <2>3. w[c] = k + 1
    BY <1>2, <1>4, <1>6, <2>2
  <2> QED BY <2>3 DEF c, h, l
<1>7. CASE k # n
  <2>1. k \in 0..(n - 1)
    BY <1>7
  <2>2. h + b < l
    BY <2>1, ElementByte
  <2>3. m[c] = k + 1
    BY <2>1
  <2> HIDE DEF h, l, a, c
  <2>4. ~In(c, a, ElSize)
    BY <1>1, <1>3, <1>5, <2>2 DEF In
  <2>5. w[c] = k + 1
    BY <1>2, <1>4, <2>3, <2>4 DEF OnlyAt
  <2> QED BY <2>5 DEF c, h, l
<1> QED BY <1>6, <1>7

\* The array after a push to d, where its elements are already.
LEMMA PushHolds ==
  ASSUME Inv, NEW p, PoolOK(p), NEW d \in Addr, d # NULL, NEW n \in Nat, array.ndata < n,
         BytesIn(p.live, d, n), NEW m, DOMAIN m = Cells,
         \A k \in 0..(array.ndata - 1), b \in 0..(ElSize - 1) :
           m[<<d.chunk, d.off + ElSize * k + b>>] = k + 1,
         Element(d, m), Pushed(d, n)
  PROVE  /\ ArrayHolds(mem', array') /\ DOMAIN mem' = Cells
         /\ OnlyAt(m, mem', Plus(d, ElSize * array.ndata), ElSize)
<1> DEFINE k0 == array.ndata
<1>1. k0 \in Nat
  BY DEF Inv, ArrayParts
<1>2. BytesIn(p.live, d, k0 + 1)
  <2> DEFINE l == ElSize * n
             h == ElSize * (k0 + 1)
  <2>1. k0 + 1 \in Nat /\ k0 + 1 <= n
    BY <1>1
  <2>2. h \in Nat /\ l \in Nat /\ h <= l /\ d.off \in Nat
    BY <2>1, ConstantsAreNat, Monotone DEF Addr
  <2> HIDE DEF h, l
  <2>3. \A x \in d.off..(d.off + h - 1) : x \in d.off..(d.off + l - 1)
    BY <2>2
  <2> QED BY <2>3 DEF BytesIn, h, l
<1>3. mem' = Write(m, Plus(d, ElSize * k0), ElSize, k0 + 1)
  BY DEF Element
<1>4. array'.data = d /\ array'.ndata = k0 + 1
  BY ArrayHas DEF Pushed
<1>5. \A k \in 0..k0, b \in 0..(ElSize - 1) :
        mem'[<<d.chunk, d.off + ElSize * k + b>>] = k + 1
  <2> HIDE DEF k0
  <2>1. \A k \in 0..(k0 - 1), b \in 0..(ElSize - 1) :
          m[<<d.chunk, d.off + ElSize * k + b>>] = k + 1
    BY DEF k0
  <2> QED BY <1>1, <1>2, <1>3, <2>1, ElementSet
<1>6. OnlyAt(m, mem', Plus(d, ElSize * k0), ElSize)
  BY <1>3, WriteIs
<1>7. 0..(k0 + 1 - 1) = 0..k0
  BY <1>1
<1>8. ArrayHolds(mem', array')
  <2> HIDE DEF k0
  <2>0. array'.data # NULL
    BY <1>4
  <2>3. array'.ndata = k0 + 1
    BY <1>4
  <2>1. 0..(array'.ndata - 1) = 0..k0
    BY ONLY <1>1, <2>3
  <2>2. \A k \in 0..(array'.ndata - 1), b \in 0..(ElSize - 1) :
          mem'[<<array'.data.chunk, array'.data.off + ElSize * k + b>>] = k + 1
    BY <1>4, <1>5, <2>1
  <2> QED BY <2>0, <2>1, <2>2 DEF ArrayHolds
<1> QED BY <1>6, <1>8 DEF OnlyAt

\* A write to memory of one owner keeps what others have.
LEMMA OwnKeeps ==
  ASSUME NEW p, PoolOK(p), NEW by, NEW who, by # who, NEW a, NEW n, NEW m, NEW w,
         OnlyAt(m, w, a, n), \A c \in Cells : In(c, a, n) => HasCell(p.live, by, c)
  PROVE  Keeps(p.live, who, m, w)
BY OneOwner DEF Keeps, OnlyAt

LEMMA ArrayPushHolds == ASSUME Inv, HoldsInv, ArrayPush PROVE HoldsInv'
<1>1. /\ array.data # NULL /\ UNCHANGED list /\ PoolOK(pool) /\ ListParts(pool.live, list)
      /\ array.nblock \in Nat \ {0} /\ array.ndata \in Nat /\ array.data \in Addr
      /\ BytesIn(pool.live, array.data, array.nblock)
      /\ DOMAIN mem = Cells /\ ListHolds(mem, list)
      /\ \A k \in 0..(array.ndata - 1), b \in 0..(ElSize - 1) :
           mem[<<array.data.chunk, array.data.off + ElSize * k + b>>] = k + 1
  BY DEF Inv, HoldsInv, ArrayParts, ArrayPush, ArrayHolds
<1> DEFINE d == array.data
           n == array.ndata
           a == Plus(d, ElSize * n)
<1>2. a.chunk = d.chunk /\ a.off = d.off + ElSize * n /\ d.off \in Nat
  BY <1>1 DEF Plus, At, Addr
<1>3. CASE n < array.nblock /\ Element(d, mem) /\ Pushed(d, array.nblock)
  <2>1. /\ ArrayHolds(mem', array') /\ DOMAIN mem' = Cells /\ OnlyAt(mem, mem', a, ElSize)
    BY <1>1, <1>3, PushHolds
  <2>2. ASSUME NEW c \in Cells, In(c, a, ElSize)
        PROVE  HasCell(pool.live, "array", c)
    <3> DEFINE l == ElSize * n
               t == ElSize * array.nblock
               o == c[2] - d.off
    <3>1. l \in Nat /\ t \in Nat /\ l + ElSize <= t /\ ElSize \in Nat
      <4>1. n \in 0..(array.nblock - 1)
        BY <1>1, <1>3
      <4>2. array.nblock \in Nat /\ ElSize \in Nat \ {0}
        BY <1>1, ConstantsAreNat
      <4>3. l \in Nat /\ l + ElSize <= t
        BY <4>1, <4>2, Multiples
      <4>4. t \in Nat
        BY <4>2, Monotone
      <4> QED BY <4>2, <4>3, <4>4
    <3>2. /\ c[1] = d.chunk /\ c[2] >= d.off + l /\ c[2] < d.off + l + ElSize
          /\ c[2] \in Nat /\ c = <<c[1], c[2]>>
      BY <1>2, <2>2, CellParts DEF In
    <3> HIDE DEF l, t, d
    <3>3. o \in Nat /\ o < t /\ d.off + o = c[2]
      BY <1>2, <3>1, <3>2
    <3> HIDE DEF o
    <3>4. HasCell(pool.live, "array", <<d.chunk, d.off + o>>)
      BY <1>1, <3>3, ArrayByte DEF d, t
    <3> QED BY <3>2, <3>3, <3>4
  <2>3. Keeps(pool.live, "list", mem, mem')
    BY <1>1, <2>1, <2>2, OwnKeeps
  <2>4. ListHolds(mem', list')
    BY <1>1, <2>3, ListStays
  <2> QED BY <2>1, <2>4 DEF HoldsInv
<1>4. CASE /\ n = array.nblock /\ InPlace
           /\ pool' = Gives([pool.blocks EXCEPT ![1] = @ + ElSize], pool.large, pool.live,
                            At(1, pool.blocks[1]), ElSize, "array").pool
           /\ Element(d, mem) /\ Pushed(d, array.nblock + 1)
  <2> DEFINE e == At(1, pool.blocks[1])
             g == Region(e, ElSize, "array")
  <2>1. 1 \in DOMAIN pool.blocks /\ ElSize <= BlockSize - pool.blocks[1]
    <3>1. /\ Len(pool.blocks) \in Nat /\ Len(pool.blocks) > 0
          /\ DOMAIN pool.blocks = 1..Len(pool.blocks)
          /\ \A k \in DOMAIN pool.blocks : pool.blocks[k] \in Int
      BY <1>1, Lens DEF PoolOK
    <3>2. 1 \in DOMAIN pool.blocks /\ pool.blocks[1] \in Int
      BY <3>1
    <3>3. BlockSize - pool.blocks[1] >= ElSize
      BY <1>4 DEF InPlace
    <3> QED BY <3>2, <3>3, ConstantsAreNat
  <2>2. pool' = Pool([pool.blocks EXCEPT ![1] = @ + ElSize], pool.large, pool.live \cup {g})
    BY <1>4, GivesIs
  <2>3. PoolOK(pool') /\ e \in Addr /\ \A s \in pool.live : Apart(g, s)
    BY <1>1, <2>1, <2>2, BlockGrows, ConstantsAreNat, OwnersAre
  <2>4. pool'.live = pool.live \cup {g}
    BY <2>2, PoolHas
  <2>5. e.chunk = d.chunk /\ e.off = d.off + ElSize * array.nblock /\ e = a
    BY <1>4 DEF InPlace, AtLast, At, Plus
  <2>6. BytesIn(pool'.live, d, array.nblock + 1)
    <3>1. ElementsIn(pool.live, d, array.nblock)
      BY <1>1 DEF Inv, ArrayParts
    <3> QED BY <1>1, <2>3, <2>4, <2>5, <3>1, OneMore
  <2>7. array.nblock + 1 \in Nat /\ n < array.nblock + 1
    BY <1>1, <1>4
  <2>8. /\ ArrayHolds(mem', array') /\ DOMAIN mem' = Cells /\ OnlyAt(mem, mem', a, ElSize)
    BY <1>1, <1>4, <2>3, <2>6, <2>7, PushHolds
  <2>9. Keeps(pool.live, "list", mem, mem')
    BY <1>1, <2>3, <2>5, <2>8, FreshKeeps, ConstantsAreNat
  <2>10. ListHolds(mem', list')
    BY <1>1, <2>9, ListStays
  <2> QED BY <2>8, <2>10 DEF HoldsInv
<1>5. CASE /\ n = array.nblock
           /\ \E r \in Palloc(pool, 2 * ElSize * array.nblock, "array") :
                \/ r.at = NULL /\ UNCHANGED <<array, mem>>
                \/ r.at # NULL /\ Element(r.at, Grown(r.at)) /\ Pushed(r.at, 2 * array.nblock)
  <2>1. PICK r \in Palloc(pool, 2 * ElSize * array.nblock, "array") :
          \/ UNCHANGED <<array, mem>>
          \/ r.at # NULL /\ Element(r.at, Grown(r.at)) /\ Pushed(r.at, 2 * array.nblock)
    BY <1>5
  <2>2. CASE UNCHANGED <<array, mem>>
    BY <1>1, <2>2, MemoryStays
  <2>3. CASE r.at # NULL /\ Element(r.at, Grown(r.at)) /\ Pushed(r.at, 2 * array.nblock)
    <3> DEFINE N == array.nblock
               size == 2 * ElSize * N
               t == ElSize * N
               m == Grown(r.at)
               by == "array"
    <3>1. /\ size \in Nat \ {0} /\ 2 * N \in Nat \ {0} /\ size = ElSize * (2 * N) /\ N < 2 * N
      BY <1>1, DoubleSize, ConstantsAreNat
    <3>2. t \in Nat /\ size = 2 * t /\ ElSize <= t
      <4>1. t \in Nat /\ ElSize * 1 <= t
        BY <1>1, ConstantsAreNat, Monotone
      <4>2. size = 2 * t
        BY <1>1, ConstantsAreNat
      <4> QED BY <4>1, <4>2, ConstantsAreNat
    <3>3. Outcome(pool, r, size, by)
      BY <1>1, <3>1, PallocRight, OwnersAre
    <3>4. BytesIn(r.pool.live, r.at, 2 * N)
      BY <2>3, <3>1, <3>3, OneRegion DEF Outcome
    <3>5. /\ OnlyAt(mem, m, r.at, t)
          /\ \A c \in Cells : In(c, r.at, t) =>
               m[c] = mem[<<d.chunk, d.off + c[2] - r.at.off>>]
      BY <1>1, CopyIs DEF Grown
    <3>6. r.at \in Addr /\ r.at.off \in Nat /\ PoolOK(r.pool)
      BY <2>3, <3>3 DEF Outcome, Addr
    <3> HIDE DEF size, m
    <3>7. ASSUME NEW k \in 0..(n - 1), NEW b \in 0..(ElSize - 1)
          PROVE  m[<<r.at.chunk, r.at.off + ElSize * k + b>>] = k + 1
      <4> DEFINE c == <<r.at.chunk, r.at.off + ElSize * k + b>>
                 h == ElSize * k
      <4>1. c \in Cells
        <5>1. k \in 0..(2 * N - 1) /\ 2 * N \in Nat
          BY <1>1, <1>5, <3>1
        <5> QED BY <3>4, <3>6, <5>1, ArrayElement
      <4>2. h \in Nat /\ h + b < t /\ b \in Nat
        <5>1. k \in 0..(N - 1) /\ N \in Nat
          BY <1>1, <1>5
        <5>2. h + b < t
          BY <5>1, ElementByte
        <5> QED BY <5>1, <5>2, ConstantsAreNat, Multiples
      <4>3. c[1] = r.at.chunk /\ c[2] = r.at.off + h + b
        OBVIOUS
      <4>4. mem[<<d.chunk, d.off + h + b>>] = k + 1
        BY <1>1
      <4> HIDE DEF c, h, t, d
      <4>5. In(c, r.at, t)
        BY <3>2, <3>6, <4>2, <4>3 DEF In
      <4>6. d.off + c[2] - r.at.off = d.off + h + b
        BY <1>2, <3>6, <4>2, <4>3
      <4>7. m[c] = k + 1
        BY <3>5, <4>1, <4>4, <4>5, <4>6
      <4> QED BY <4>7 DEF c, h
    <3>8. n < 2 * N
      BY <1>5, <3>1
    <3>9. /\ ArrayHolds(mem', array') /\ DOMAIN mem' = Cells
          /\ OnlyAt(m, mem', Plus(r.at, ElSize * n), ElSize)
      <4>1. DOMAIN m = Cells /\ 2 * N \in Nat /\ r.at # NULL
        BY <2>3, <3>1, <3>5 DEF OnlyAt
      <4>2. Element(r.at, m) /\ Pushed(r.at, 2 * N)
        BY <2>3 DEF m
      <4> HIDE DEF N
      <4> QED BY <3>4, <3>6, <3>7, <3>8, <4>1, <4>2, PushHolds
    <3>10. OnlyAt(mem, mem', r.at, size)
      <4>1. ASSUME NEW c \in Cells, ~In(c, r.at, size)
            PROVE  mem'[c] = mem[c]
        <5> DEFINE q == Plus(r.at, ElSize * n)
        <5>1. q.chunk = r.at.chunk /\ q.off = r.at.off + t
          BY <1>5 DEF Plus, At
        <5> HIDE DEF q, t
        <5>2. c[2] \in Nat /\ ElSize \in Nat
          BY CellParts, ConstantsAreNat
        <5>3. ~In(c, q, ElSize) /\ ~In(c, r.at, t)
          BY <3>2, <3>6, <4>1, <5>1, <5>2 DEF In
        <5> QED BY <3>5, <3>9, <5>3 DEF OnlyAt, q
      <4> QED BY <3>9, <4>1 DEF OnlyAt
    <3>11. Keeps(pool.live, "list", mem, mem')
      BY <1>1, <2>3, <3>1, <3>3, <3>10, OutcomeKeeps DEF size
    <3>12. ListHolds(mem', list')
      BY <1>1, <3>11, ListStays
    <3> QED BY <3>9, <3>12 DEF HoldsInv
  <2> QED BY <2>1, <2>2, <2>3
<1> QED BY <1>3, <1>4, <1>5 DEF ArrayPush

LEMMA ArrayDestroyHolds == ASSUME HoldsInv, ArrayDestroy PROVE HoldsInv'
<1>1. array' = Gone /\ UNCHANGED <<list, mem>>
  BY DEF ArrayDestroy
<1>2. Gone.ndata = 0
  BY ArrayHas DEF Gone
<1> QED BY <1>1, <1>2 DEF HoldsInv, ArrayHolds

\* A list without nodes, or with one that is empty, holds whatever there is.
LEMMA NewListHolds ==
  ASSUME NEW m, NEW l, \/ l = NoList
                       \/ \E a, d \in Addr : l = [at |-> a, nodes |-> <<Node(d, 0)>>]
  PROVE  ListHolds(m, l)
<1>1. CASE l = NoList
  <2>1. l.nodes = <<>>
    BY <1>1 DEF NoList
  <2>2. DOMAIN l.nodes = {} /\ Len(l.nodes) = 0
    BY <2>1
  <2> QED BY <2>2 DEF ListHolds, NodesHold
<1>2. CASE \E a, d \in Addr : l = [at |-> a, nodes |-> <<Node(d, 0)>>]
  <2>1. PICK d \in Addr : l.nodes = <<Node(d, 0)>>
    BY <1>2
  <2>2. 0 \in 0..ListN
    BY ConstantsAreNat
  <2>3. Node(d, 0).ndata = 0
    BY <2>2, NodeHas
  <2>4. DOMAIN l.nodes = {1} /\ Len(l.nodes) = 1 /\ l.nodes[1].ndata = 0
    BY <2>1, <2>3
  <2> QED BY <2>4 DEF ListHolds, NodesHold
<1> QED BY <1>1, <1>2

LEMMA ListCreateHolds == ASSUME Inv, HoldsInv, ListCreate PROVE HoldsInv'
<1>1. /\ ListSize \in Nat \ {0} /\ "list" \in Owners /\ PoolOK(pool) /\ DOMAIN mem = Cells
      /\ UNCHANGED array
  BY ConstantsAreNat, OwnersAre DEF Inv, HoldsInv, ListCreate
<1>2. PICK s \in Palloc(pool, ListSize, "list") :
        \/ UNCHANGED <<list, mem>>
        \/ /\ s.at # NULL /\ mem' = Write(mem, s.at, ListSize, 0)
           /\ \E d \in Palloc(s.pool, ElSize * ListN, "list") :
                list' = IF d.at = NULL THEN NoList
                        ELSE [at |-> s.at, nodes |-> <<Node(d.at, 0)>>]
  BY DEF ListCreate
<1>3. CASE UNCHANGED <<list, mem>>
  BY <1>1, <1>3, MemoryStays
<1>4. ASSUME s.at # NULL, mem' = Write(mem, s.at, ListSize, 0),
             NEW d \in Palloc(s.pool, ElSize * ListN, "list"),
             list' = IF d.at = NULL THEN NoList
                     ELSE [at |-> s.at, nodes |-> <<Node(d.at, 0)>>]
      PROVE  HoldsInv'
  <2>1. DOMAIN mem' = Cells /\ Keeps(pool.live, "array", mem, mem')
    BY <1>1, <1>4, WriteFresh
  <2>2. ArrayHolds(mem', array')
    BY <1>1, <2>1, ArrayStays DEF Inv, HoldsInv
  <2>3. ElSize * ListN \in Nat \ {0}
    BY ConstantsAreNat, Product
  <2>4. s.at \in Addr /\ (d.at # NULL => d.at \in Addr)
    BY <1>1, <1>4, <2>3, PallocTwice DEF Outcome
  <2>5. ListHolds(mem', list')
    BY <1>4, <2>4, NewListHolds
  <2> QED BY <2>1, <2>2, <2>5 DEF HoldsInv
<1> QED BY <1>2, <1>3, <1>4

\* The element that ListElement writes is the next one of the last node.
LEMMA ListElementHolds ==
  ASSUME NEW p, PoolOK(p), NEW nodes \in Seq(NodeRec), Len(nodes) > 0,
         nodes[Len(nodes)].ndata < ListN, NodesIn(p.live, nodes),
         NEW m, DOMAIN m = Cells, NodesHold(m, nodes),
         \A i \in 1..(Len(nodes) - 1) : nodes[i].ndata = ListN,
         \A i, j \in DOMAIN nodes : i # j => nodes[i].data # nodes[j].data,
         ListElement(nodes, m)
  PROVE  /\ ListHolds(mem', list') /\ DOMAIN mem' = Cells
         /\ OnlyAt(m, mem', nodes[Len(nodes)].data, ElSize * ListN)
<1> DEFINE k == Len(nodes)
           d == nodes[k].data
           n == nodes[k].ndata
           e == Node(d, n + 1)
           t == [nodes EXCEPT ![k] = e]
           a == Plus(d, ElSize * n)
           g == Region(d, ElSize * ListN, "list")
           size == ElSize * ListN
           x == ListN * (k - 1) + n + 1
<1>1. /\ k \in Nat /\ DOMAIN nodes = 1..k /\ k \in 1..k
      /\ \A i \in 1..k : nodes[i] \in NodeRec
  <2>1. Len(nodes) \in Nat /\ DOMAIN nodes = 1..Len(nodes)
    BY LenProperties
  <2>2. k \in 1..k
    BY <2>1
  <2> QED BY <2>1, <2>2, ElementOfSeq
<1>2. /\ d \in Addr /\ n \in 0..(ListN - 1) /\ n \in Nat /\ n + 1 \in 0..ListN
      /\ d.off \in Nat /\ g \in p.live
  <2>1. d \in Addr /\ n \in 0..ListN /\ n < ListN
    BY <1>1 DEF NodeRec
  <2> QED BY <1>1, <2>1, ConstantsAreNat DEF NodesIn, Addr
<1>3. e \in NodeRec /\ e.data = d /\ e.ndata = n + 1
  BY <1>2, NodeHas
<1>4. mem' = Write(m, a, ElSize, x) /\ list'.nodes = t
  BY DEF ListElement
<1> HIDE DEF e
<1>5. /\ Len(t) = k /\ DOMAIN t = 1..k /\ t[k] = e
      /\ \A i \in 1..k : i # k => t[i] = nodes[i]
  <2>1. t \in Seq(NodeRec)
    BY <1>1, <1>3, ExceptSeq
  <2> QED BY <1>1, <1>3, ExceptSeq
<1>6. \A i \in 1..k : t[i].data = nodes[i].data
  BY <1>3, <1>5
<1>7. /\ OnlyAt(m, mem', a, ElSize)
      /\ \A c \in Cells : In(c, a, ElSize) => mem'[c] = x
  BY <1>4, WriteIs
<1>8. a.chunk = d.chunk /\ a.off = d.off + ElSize * n
  BY DEF Plus, At
<1>9. g.at = d /\ g.size = size /\ g.owner = "list"
  BY RegionHas
<1>10. /\ ElSize * n \in Nat /\ ElSize * n + ElSize <= size /\ size \in Nat
       /\ ElSize \in Nat \ {0}
  <2> HIDE DEF n, d, e, t, a, g, x, k
  <2>1. ListN \in Nat /\ ElSize \in Nat \ {0} /\ n < ListN /\ n <= ListN
    BY <1>2, ConstantsAreNat
  <2>2. ElSize * n + ElSize <= ElSize * ListN
    BY <1>2, <2>1, Multiples
  <2>3. ElSize * n \in Nat /\ ElSize * ListN \in Nat
    BY <1>2, <2>1, Monotone
  <2> QED BY <2>1, <2>2, <2>3
<1>11. ASSUME NEW c \in Cells, In(c, a, ElSize) PROVE In(c, d, size)
  <2> DEFINE h == ElSize * n
  <2>1. h \in Nat /\ h + ElSize <= size /\ a.off = d.off + h
    BY <1>8, <1>10
  <2>2. c[2] \in Nat
    BY CellParts
  <2>3. c[1] = a.chunk /\ c[2] >= a.off /\ c[2] < a.off + ElSize
    BY <1>11 DEF In
  <2>4. size \in Nat /\ ElSize \in Nat /\ d.off \in Nat
    BY <1>2, <1>10
  <2> HIDE DEF h, size, a, d
  <2>5. c[1] = d.chunk
    BY <1>8, <2>3
  <2>6. c[2] >= d.off /\ c[2] < d.off + size
    BY ONLY <2>1, <2>2, <2>3, <2>4
  <2> QED BY <2>5, <2>6 DEF In
<1>12. OnlyAt(m, mem', d, size)
  BY <1>7, <1>11 DEF OnlyAt
<1>13. ASSUME NEW i \in 1..k, i # k, NEW j \in 0..(nodes[i].ndata - 1)
       PROVE  mem'[<<nodes[i].data.chunk, nodes[i].data.off + ElSize * j>>]
                = ListN * (i - 1) + j + 1
  <2> DEFINE f == nodes[i].data
             c == <<f.chunk, f.off + ElSize * j>>
             s == Region(f, ElSize * ListN, "list")
  <2>1. /\ f \in Addr /\ f # d /\ s \in p.live /\ j \in 0..(ListN - 1)
        /\ m[c] = ListN * (i - 1) + j + 1
    <3>1. nodes[i] \in NodeRec /\ i \in DOMAIN nodes /\ k \in DOMAIN nodes
      BY <1>1
    <3>2. f \in Addr /\ f # d /\ s \in p.live /\ m[c] = ListN * (i - 1) + j + 1
      BY <1>13, <3>1 DEF NodesIn, NodesHold, NodeRec
    <3>3. nodes[i].ndata \in 0..ListN
      BY <3>1 DEF NodeRec
    <3> QED BY <3>2, <3>3, ConstantsAreNat
  <2>2. s.at = f /\ s.size = size
    BY RegionHas
  <2> HIDE DEF f, s, d, g, size
  <2>3. c \in Cells /\ In(c, f, size)
    BY <2>1, NodeCell DEF s, size
  <2>4. s # g
    BY <1>9, <2>1, <2>2
  <2>5. Apart(s, g) /\ s \in RegionRec /\ g \in RegionRec
    BY <1>2, <2>1, <2>4 DEF PoolOK, Regions
  <2> HIDE DEF c
  <2>6. ~In(c, d, size)
    <3>1. /\ f.off \in Nat /\ d.off \in Nat /\ size \in Nat
          /\ c[1] \in Int /\ c[2] \in Nat
      BY <1>9, <2>2, <2>3, <2>5, RegionNumbers, CellParts
    <3>2. \/ f.chunk # d.chunk
          \/ f.off + size <= d.off \/ d.off + size <= f.off
      BY <1>9, <2>2, <2>5 DEF Apart
    <3> QED BY <2>3, <3>1, <3>2 DEF In
  <2>7. mem'[c] = m[c]
    BY <1>12, <2>3, <2>6 DEF OnlyAt, d, size
  <2> QED BY <2>1, <2>7 DEF c, f
<1>14. ASSUME NEW j \in 0..n
       PROVE  mem'[<<d.chunk, d.off + ElSize * j>>] = ListN * (k - 1) + j + 1
  <2> DEFINE c == <<d.chunk, d.off + ElSize * j>>
             h == ElSize * j
             l == ElSize * n
  <2>1. j \in 0..(ListN - 1)
    <3> HIDE DEF n
    <3> QED BY <1>2, ConstantsAreNat
  <2>2. c \in Cells
    BY <1>2, <2>1, NodeCell
  <2>3. c[1] = d.chunk /\ c[2] = d.off + h /\ h \in Nat /\ l \in Nat /\ a.off = d.off + l
    BY <1>2, <1>8, <1>10, <2>1, ConstantsAreNat, Monotone
  <2>4. CASE j = n
    <3>1. h = l
      BY <2>4
    <3> HIDE DEF h, l, c, a, d
    <3>2. In(c, a, ElSize)
      BY <1>2, <1>8, <1>10, <2>3, <3>1 DEF In
    <3>3. mem'[c] = x
      BY <1>7, <2>2, <3>2
    <3> QED BY <2>4, <3>3 DEF c, h, l
  <2>5. CASE j # n
    <3>1. j \in 0..(n - 1) /\ k \in DOMAIN nodes
      BY <1>1, <1>2, <2>5
    <3>2. m[c] = ListN * (k - 1) + j + 1
      BY <3>1 DEF NodesHold
    <3>3. h + ElSize <= l
      BY <1>2, <3>1, ConstantsAreNat, Multiples
    <3> HIDE DEF h, l, c, a, d
    <3>4. ~In(c, a, ElSize)
      BY <1>2, <1>8, <1>10, <2>3, <3>3 DEF In
    <3>5. mem'[c] = m[c]
      BY <1>7, <2>2, <3>4 DEF OnlyAt
    <3> QED BY <3>2, <3>5 DEF c, h, l
  <2> QED BY <2>4, <2>5
<1>15. NodesHold(mem', t)
  <2> SUFFICES ASSUME NEW i \in 1..k, NEW j \in 0..(t[i].ndata - 1)
               PROVE  mem'[<<t[i].data.chunk, t[i].data.off + ElSize * j>>]
                        = ListN * (i - 1) + j + 1
    BY <1>5 DEF NodesHold
  <2>1. CASE i = k
    <3>1. t[i].ndata = n + 1 /\ t[i].data = d
      BY <1>3, <1>5, <2>1
    <3>2. j \in 0..n
      BY <1>2, <3>1
    <3> QED BY <1>14, <2>1, <3>1, <3>2
  <2>2. CASE i # k
    BY <1>5, <1>13, <2>2
  <2> QED BY <2>1, <2>2
<1>16. \A i \in 1..(k - 1) : t[i].ndata = ListN
  <2> TAKE i \in 1..(k - 1)
  <2>1. i \in 1..k /\ i # k
    <3> HIDE DEF k
    <3> QED BY <1>1
  <2> QED BY <1>5, <2>1
<1>17. \A i, j \in DOMAIN t : i # j => t[i].data # t[j].data
  BY <1>1, <1>5, <1>6
<1>18. ListHolds(mem', list')
  <2> HIDE DEF t, k
  <2> QED BY <1>4, <1>5, <1>15, <1>16, <1>17 DEF ListHolds
<1> QED BY <1>7, <1>12, <1>18 DEF OnlyAt

LEMMA ListPushHolds == ASSUME Inv, HoldsInv, ListPush PROVE HoldsInv'
<1> DEFINE size == ElSize * ListN
<1>1. /\ ListNode \in Nat \ {0} /\ ListN * ElSize \in Nat \ {0} /\ ListN * ElSize = size
      /\ "list" \in Owners /\ PoolOK(pool) /\ UNCHANGED array /\ list # NoList
      /\ ArrayParts(pool.live, array) /\ ArrayHolds(mem, array) /\ DOMAIN mem = Cells
      /\ ListParts(pool.live, list) /\ ListHolds(mem, list)
  BY ConstantsAreNat, Product, OwnersAre DEF Inv, HoldsInv, ListPush
<1>2. /\ list.nodes \in Seq(NodeRec) /\ Len(list.nodes) > 0 /\ Len(list.nodes) \in Nat
      /\ NodesIn(pool.live, list.nodes) /\ DOMAIN list.nodes = 1..Len(list.nodes)
      /\ NodesHold(mem, list.nodes)
      /\ \A i \in 1..(Len(list.nodes) - 1) : list.nodes[i].ndata = ListN
      /\ \A i, j \in DOMAIN list.nodes : i # j => list.nodes[i].data # list.nodes[j].data
  BY <1>1, ListHas, LenProperties DEF ListHolds
<1>3. CASE list.nodes[Len(list.nodes)].ndata < ListN
  <2> DEFINE d == list.nodes[Len(list.nodes)].data
  <2>1. ListElement(list.nodes, mem)
    BY <1>3 DEF ListPush
  <2>2. /\ ListHolds(mem', list') /\ DOMAIN mem' = Cells
        /\ OnlyAt(mem, mem', d, size)
    BY <1>1, <1>2, <1>3, <2>1, ListElementHolds
  <2>3. \A c \in Cells : In(c, d, size) => HasCell(pool.live, "list", c)
    <3>1. Len(list.nodes) \in DOMAIN list.nodes
      BY <1>2
    <3>2. Region(d, size, "list") \in pool.live
      BY <1>2, <3>1 DEF NodesIn
    <3> QED BY <3>2, RegionHas DEF HasCell
  <2>4. Keeps(pool.live, "array", mem, mem')
    BY <1>1, <2>2, <2>3, OwnKeeps
  <2>5. ArrayHolds(mem', array')
    BY <1>1, <2>4, ArrayStays
  <2> QED BY <2>2, <2>5 DEF HoldsInv
<1>4. CASE ~(list.nodes[Len(list.nodes)].ndata < ListN)
  <2>1. PICK s \in Palloc(pool, ListNode, "list") :
          \/ UNCHANGED <<list, mem>>
          \/ /\ s.at # NULL
             /\ \E d \in Palloc(s.pool, ListN * ElSize, "list") :
                  LET m == Write(mem, s.at, ListNode, 0)
                  IN \/ mem' = m /\ UNCHANGED list
                     \/ /\ d.at # NULL
                        /\ ListElement(Append(list.nodes, Node(d.at, 0)), m)
    BY <1>4 DEF ListPush
  <2> DEFINE m == Write(mem, s.at, ListNode, 0)
  <2>2. CASE UNCHANGED <<list, mem>>
    BY <1>1, <2>2, MemoryStays
  <2>3. ASSUME s.at # NULL
        PROVE  /\ DOMAIN m = Cells /\ PoolOK(s.pool) /\ pool.live \subseteq s.pool.live
               /\ \A who : Keeps(pool.live, who, mem, m)
    <3>1. \A who : DOMAIN m = Cells /\ Keeps(pool.live, who, mem, m)
      BY <1>1, <2>3, WriteFresh
    <3>2. PoolOK(s.pool) /\ pool.live \subseteq s.pool.live
      BY <1>1, PallocRight DEF Outcome
    <3> QED BY <3>1, <3>2
  <2>4. CASE s.at # NULL /\ mem' = m /\ UNCHANGED list
    BY <1>1, <2>3, <2>4, BothStay
  <2>5. ASSUME s.at # NULL, NEW d \in Palloc(s.pool, ListN * ElSize, "list"), d.at # NULL,
               ListElement(Append(list.nodes, Node(d.at, 0)), m)
        PROVE  HoldsInv'
    <3> DEFINE e == Node(d.at, 0)
               t == Append(list.nodes, e)
               k == Len(list.nodes) + 1
               g == Region(d.at, size, "list")
    <3>1. /\ Outcome(s.pool, d, size, "list") /\ d.at \in Addr /\ g \in d.pool.live
          /\ \A r \in s.pool.live : Apart(g, r)
          /\ PoolOK(d.pool) /\ s.pool.live \subseteq d.pool.live
      <4>1. Outcome(s.pool, d, size, "list")
        <5> HIDE DEF size
        <5>1. size \in Nat \ {0} /\ d \in Palloc(s.pool, size, "list")
          BY <1>1
        <5> QED BY <1>1, <2>3, <2>5, <5>1, PallocRight
      <4> QED BY <2>5, <4>1 DEF Outcome
    <3>2. e \in NodeRec /\ e.data = d.at /\ e.ndata = 0
      <4>1. 0 \in 0..ListN
        BY ConstantsAreNat
      <4> QED BY <3>1, <4>1, NodeHas
    <3> HIDE DEF m
    <3>3. ListElement(t, m)
      BY <2>5
    <3> HIDE DEF e
    <3>4. /\ t \in Seq(NodeRec) /\ Len(t) = k /\ t[k] = e
          /\ \A i \in 1..Len(list.nodes) : t[i] = list.nodes[i]
      BY <1>2, <3>2, AppendProperties
    <3>5. DOMAIN t = 1..k /\ k - 1 = Len(list.nodes)
      BY <1>2, <3>4, LenProperties
    <3> HIDE DEF t
    <3>6. \A i \in 1..k : i \in 1..Len(list.nodes) \/ i = k
      BY <1>2
    <3>7. \A i \in 1..Len(list.nodes) :
            Region(list.nodes[i].data, size, "list") \in s.pool.live
      BY <1>2, <2>3, <2>5 DEF NodesIn
    <3>8. NodesIn(d.pool.live, t)
      BY <3>1, <3>2, <3>4, <3>5, <3>6, <3>7 DEF NodesIn
    <3>9. NodesHold(m, t)
      <4>1. Keeps(pool.live, "list", mem, m)
        BY <2>3, <2>5
      <4>2. NodesHold(m, list.nodes)
        BY <1>1, <1>2, <4>1, NodesStay
      <4> QED BY <1>2, <3>2, <3>4, <3>5, <3>6, <4>2 DEF NodesHold
    <3>10. \A i \in 1..(Len(t) - 1) : t[i].ndata = ListN
      <4>1. ASSUME NEW i \in 1..Len(list.nodes) PROVE list.nodes[i].ndata = ListN
        <5>1. CASE i = Len(list.nodes)
          <6>0. list.nodes[i] \in NodeRec
            BY <1>2, ElementOfSeq
          <6>1. list.nodes[i].ndata \in 0..ListN
            BY <6>0 DEF NodeRec
          <6> QED BY <1>4, <5>1, <6>1, ConstantsAreNat
        <5>2. CASE i # Len(list.nodes)
          <6>1. i \in 1..(Len(list.nodes) - 1)
            BY <1>2, <5>2
          <6> QED BY <1>2, <6>1
        <5> QED BY <5>1, <5>2
      <4> QED BY <3>4, <3>5, <4>1
    <3>11. \A i \in 1..Len(list.nodes) : list.nodes[i].data # d.at
      <4> SUFFICES ASSUME NEW i \in 1..Len(list.nodes), list.nodes[i].data = d.at
                   PROVE  FALSE
        OBVIOUS
      <4>1. Region(d.at, size, "list") \in s.pool.live
        BY <3>7
      <4>2. Apart(g, g) /\ g \in RegionRec
        BY <2>3, <2>5, <3>1, <4>1 DEF PoolOK, Regions
      <4>3. g.at.off \in Nat /\ g.size \in Nat \ {0}
        BY <4>2, RegionNumbers
      <4> HIDE DEF g
      <4> QED BY <4>2, <4>3 DEF Apart
    <3>12. \A i, j \in DOMAIN t : i # j => t[i].data # t[j].data
      BY <1>2, <3>2, <3>4, <3>5, <3>6, <3>11
    <3>13. Len(t) > 0 /\ t[Len(t)].ndata < ListN /\ t[Len(t)].data = d.at
      BY <1>2, <3>2, <3>4, ConstantsAreNat
    <3>14. /\ ListHolds(mem', list') /\ DOMAIN mem' = Cells
           /\ OnlyAt(m, mem', d.at, size)
      <4>1. DOMAIN m = Cells
        BY <2>3, <2>5
      <4> QED BY <3>1, <3>3, <3>4, <3>8, <3>9, <3>10, <3>12, <3>13, <4>1, ListElementHolds
    <3>15. Keeps(pool.live, "array", mem, mem')
      <4>1. Keeps(s.pool.live, "array", m, mem')
        <5>1. size \in Nat
          BY <1>1
        <5> HIDE DEF size
        <5> QED BY <2>3, <2>5, <3>1, <3>14, <5>1, OutcomeKeeps
      <4> QED BY <2>3, <2>5, <4>1, KeepsBoth
    <3>16. ArrayHolds(mem', array')
      BY <1>1, <3>15, ArrayStays
    <3> QED BY <3>14, <3>16 DEF HoldsInv
  <2> QED BY <2>1, <2>2, <2>4, <2>5
<1> QED BY <1>3, <1>4

LEMMA DestroyHolds == ASSUME HoldsInv, Destroy PROVE HoldsInv'
<1>1. array' = Gone /\ list' = NoList /\ DOMAIN mem' = Cells
  BY DEF Destroy, Forget, HoldsInv
<1>2. Gone.ndata = 0
  BY ArrayHas DEF Gone
<1> QED BY <1>1, <1>2, NewListHolds DEF HoldsInv, ArrayHolds

LEMMA HoldsInit == Init => HoldsInv
<1> SUFFICES ASSUME Init PROVE HoldsInv
  OBVIOUS
<1>1. NoArray.ndata = 0
  BY ArrayHas DEF NoArray
<1> QED BY <1>1, NewListHolds DEF Init, HoldsInv, ArrayHolds, Cells

LEMMA HoldsStep == Inv /\ HoldsInv /\ [Next]_vars => HoldsInv'
<1> SUFFICES ASSUME Inv, HoldsInv, [Next]_vars PROVE HoldsInv'
  OBVIOUS
<1>1. ASSUME NEW n \in Sizes, Allocate(n) \/ CreateTempBuf(n) PROVE HoldsInv'
  BY <1>1, AllocateHolds, CreateTempBufHolds
<1>2. CASE ArrayPushNull
  BY <1>2, MemoryStays DEF ArrayPushNull, Null
<1>3. CASE FreeLarge \/ FreeBlock
  <2>1. UNCHANGED <<array, list, mem>>
    BY <1>3 DEF FreeLarge, FreeBlock, Free
  <2> QED BY <2>1, MemoryStays
<1>4. CASE UNCHANGED vars
  BY <1>4, MemoryStays DEF vars
<1> QED BY <1>1, <1>2, <1>3, <1>4, ArrayCreateHolds, ArrayInitHolds, ArrayPushHolds,
           ArrayDestroyHolds, ListCreateHolds, ListPushHolds, DestroyHolds DEF Next, Over

\* The array and the list give back what was pushed to them, in its order,
\* whatever sizes elements and nodes have, wherever the array has moved and
\* whatever others have written, or failed to get, in between.
THEOREM PushedIsRead == Spec => []ReadBack
<1>1. Inv /\ HoldsInv => ReadBack
  BY DEF HoldsInv, ArrayHolds, ListHolds, NodesHold, ReadBack
<1>2. Spec => []HoldsInv
  BY HoldsInit, HoldsStep, Invariant, PTL DEF Spec
<1> QED BY <1>1, <1>2, Invariant, PTL
=============================================================================
