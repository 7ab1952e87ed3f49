----------------------------- MODULE HeapProofs -----------------------------
(***************************************************************************)
(* Proofs about the heap for every block size, table size, address and     *)
(* set of requests.                                                        *)
(***************************************************************************)
EXTENDS HeapLoops, TLAPS, WellFoundedInduction

(***************************************************************************)
(* Multiplying by a positive number preserves order strictly.              *)
(***************************************************************************)
LEMMA MulMono == ASSUME NEW a \in Int, NEW b \in Int, NEW c \in Nat \ {0}, a < b
                 PROVE  a * c + c <= b * c
<1>1. (b - a) * c >= 1 * c
  OBVIOUS
<1> QED
  BY <1>1

(***************************************************************************)
(* Quotient and remainder are determined by the division equation.         *)
(***************************************************************************)
LEMMA DivUnique == ASSUME NEW q \in Int, NEW r \in Int, NEW c \in Nat \ {0},
                          0 <= r, r < c
                   PROVE  /\ (q * c + r) \div c = q
                          /\ (q * c + r) % c = r
<1> DEFINE x == q * c + r
           d == x \div c
           m == x % c
<1>1. x \in Int /\ d \in Int /\ m \in Int /\ 0 <= m /\ m < c /\ x = d * c + m
  OBVIOUS
<1>2. ~ (d < q)
  BY <1>1, MulMono
<1>3. ~ (q < d)
  BY <1>1, MulMono
<1> QED
  BY <1>1, <1>2, <1>3

(***************************************************************************)
(* heap_address_to_block undoes heap_block_to_address.                     *)
(***************************************************************************)
LEMMA RoundTrip == \A b \in Block :
                      heap_address_to_block(heap_block_to_address(b)) = b
<1> SUFFICES ASSUME NEW b \in Block
             PROVE  heap_address_to_block(heap_block_to_address(b)) = b
  OBVIOUS
<1>1. b \in Nat /\ BlockSize \in Nat \ {0} /\ HeapStart \in Nat
  BY HeapAssumption DEF Block
<1>2. b * BlockSize \in Nat
  BY <1>1
<1>3. (b * BlockSize + 0) \div BlockSize = b
  BY <1>1, DivUnique
<1> QED
  BY <1>1, <1>2, <1>3 DEF heap_address_to_block, heap_block_to_address, CDiv

(***************************************************************************)
(* The block number that kfree(NULL) computes lies below the table.        *)
(***************************************************************************)
LEMMA NullIndex == /\ heap_address_to_block(NULL) \in Int
                   /\ heap_address_to_block(NULL) < 0
<1> DEFINE q == HeapStart \div BlockSize
<1>1. HeapStart \in Nat \ {0} /\ BlockSize \in Nat \ {0}
  BY HeapAssumption
<1>2. q \in Int /\ HeapStart = q * BlockSize + (HeapStart % BlockSize)
  BY <1>1
<1>3. HeapStart = q * BlockSize
  BY <1>1, <1>2, HeapAssumption
<1>4. q > 0
  BY <1>1, <1>2, <1>3
<1>5. 0 - HeapStart < 0 /\ -(0 - HeapStart) = HeapStart
  BY <1>1
<1> QED
  BY <1>1, <1>2, <1>4, <1>5 DEF heap_address_to_block, CDiv, NULL

(***************************************************************************)
(* heap_size_ceiling and the division after it yield a number of blocks.   *)
(***************************************************************************)
LEMMA CountType == \A size \in Requests \cup {0} : total_blocks(size) \in Nat
<1> SUFFICES ASSUME NEW size \in Requests \cup {0}
             PROVE  total_blocks(size) \in Nat
  OBVIOUS
<1>1. size \in Nat /\ BlockSize \in Nat \ {0} /\ Word \in Nat \ {0}
  BY HeapAssumption
<1>2. size % BlockSize \in Int
  BY <1>1
<1>3. \A x \in Int : x % Word \in Int /\ x % Word >= 0
  BY <1>1
<1>4. heap_size_ceiling(size) \in Int /\ heap_size_ceiling(size) >= 0
  BY <1>1, <1>2, <1>3 DEF heap_size_ceiling
<1>5. \A x \in Nat : x \div BlockSize \in Nat
  BY <1>1
<1> QED
  BY <1>4, <1>5 DEF total_blocks

-----------------------------------------------------------------------------
(***************************************************************************)
(* The inductive invariant.  LiveMarked alone carries the argument: two    *)
(* live allocations cannot share a block because the first block of the    *)
(* later one is marked IS_FIRST by one of them and not by the other, and   *)
(* that needs every live allocation to have a first block.                 *)
(***************************************************************************)
NonEmpty == \A b \in Live : total_blocks(req[b]) > 0

IInv == TypeOK /\ NonEmpty /\ LiveMarked /\ WritesInTable

(***************************************************************************)
(* Marks tell allocations apart: live regions are disjoint.                *)
(***************************************************************************)
LEMMA MarksDisjoint == IInv => LiveDisjoint
<1> SUFFICES ASSUME IInv,
                    NEW a \in Live, NEW b \in Live, a # b,
                    NEW i \in Region(a) \cap Region(b)
             PROVE  FALSE
  BY DEF LiveDisjoint
<1>1. /\ a \in Block /\ b \in Block /\ Block \subseteq Int
      /\ total_blocks(req[a]) \in Nat \ {0}
      /\ total_blocks(req[b]) \in Nat \ {0}
  BY CountType DEF IInv, TypeOK, NonEmpty, Live, Block
<1>2. ASSUME NEW x \in Live, NEW y \in Live, x < y, i \in Region(x), i \in Region(y),
             x \in Int, y \in Int,
             total_blocks(req[x]) \in Nat \ {0}, total_blocks(req[y]) \in Nat \ {0}
      PROVE  FALSE
  <2>1. y \in Region(x) /\ y \in Region(y)
    BY <1>2 DEF Region
  <2>2. /\ entries[y] = Mark(x, total_blocks(req[x]), y)
        /\ entries[y] = Mark(y, total_blocks(req[y]), y)
    BY <1>2, <2>1 DEF IInv, LiveMarked
  <2>3. "IS_FIRST" \in Mark(y, total_blocks(req[y]), y)
    BY DEF Mark
  <2>4. "IS_FIRST" \notin Mark(x, total_blocks(req[x]), y)
    BY <1>2 DEF Mark
  <2> QED
    BY <2>2, <2>3, <2>4
<1>3. a < b \/ b < a
  BY <1>1
<1> QED
  BY <1>1, <1>2, <1>3

(***************************************************************************)
(* The first block of a live allocation belongs to it and is taken.        *)
(***************************************************************************)
LEMMA FirstBlock == ASSUME IInv, NEW b \in Live
                    PROVE  b \in Region(b) /\ b \in Taken
<1>1. b \in Block /\ b \in Int /\ total_blocks(req[b]) \in Nat \ {0}
  BY CountType DEF IInv, TypeOK, NonEmpty, Live, Block
<1>2. b \in Region(b)
  BY <1>1 DEF Region
<1>3. entries[b] = Mark(b, total_blocks(req[b]), b)
  BY <1>2 DEF IInv, LiveMarked
<1> QED
  BY <1>1, <1>2, <1>3 DEF Taken, is_block_taken, Mark

(***************************************************************************)
(* All blocks of a live allocation are taken.                              *)
(***************************************************************************)
LEMMA RegionTaken == ASSUME IInv, NEW b \in Live
                     PROVE  Region(b) \subseteq Taken
BY DEF IInv, LiveMarked, Taken, is_block_taken, Mark

(***************************************************************************)
(* What a successful kmalloc does, in terms of sets: it picks a run of     *)
(* free blocks, none of them live, and the other allocations keep their    *)
(* regions.                                                                *)
(***************************************************************************)
Took(b, size) ==
    /\ size \in Requests
    /\ b \in Block
    /\ total_blocks(size) \in Nat \ {0}
    /\ b .. b + total_blocks(size) - 1 \subseteq Block \ Taken
    /\ entries' = Stored([i \in b .. b + total_blocks(size) - 1
                             |-> Mark(b, total_blocks(size), i)])
    /\ stray' = stray
    /\ req' = [req EXCEPT ![b] = size]
    /\ ret' = heap_block_to_address(b)

\* What a kmalloc that fails does.
Refused == ret' = NULL /\ UNCHANGED <<entries, req, stray>>

\* What a kfree does: the first block of the region is given back.
Gave(b) ==
    /\ b \in Live
    /\ entries' = Stored([i \in {b} |-> HEAP_BLOCK_ENTRY_FREE])
    /\ req' = [req EXCEPT ![b] = 0]
    /\ UNCHANGED <<stray, ret>>

\* What kfree(NULL) does: nothing to the table.
Strayed == /\ stray' = stray \cup {heap_address_to_block(NULL)}
           /\ UNCHANGED <<entries, req, ret>>

(***************************************************************************)
(* Every step of the heap is one of these four.                            *)
(***************************************************************************)
LEMMA Steps == ASSUME IInv, Next
               PROVE  \/ \E size \in Requests, b \in Block : Took(b, size)
                      \/ Refused
                      \/ \E b \in Block : Gave(b)
                      \/ Strayed
<1>1. ASSUME NEW size \in Requests, kmalloc(size)
      PROVE  Refused \/ \E b \in Block : Took(b, size)
  <2> DEFINE n == total_blocks(size)
  <2>1. CASE Fits(n) = {} /\ ret' = NULL /\ UNCHANGED <<entries, req, stray>>
    BY <2>1 DEF Refused
  <2>2. CASE \E b \in Block : /\ heap_get_start_block(b, n)
                              /\ heap_mark_blocks_taken(b, n)
                              /\ req' = [req EXCEPT ![b] = size]
                              /\ ret' = heap_block_to_address(b)
    <3>1. PICK b \in Block : /\ heap_get_start_block(b, n)
                             /\ heap_mark_blocks_taken(b, n)
                             /\ req' = [req EXCEPT ![b] = size]
                             /\ ret' = heap_block_to_address(b)
      BY <2>2
    <3>2. n \in Nat
      BY CountType
    <3>3. /\ n > 0
          /\ b + n <= TotalBlocks
          /\ \A i \in b .. b + n - 1 : ~ is_block_taken(entries[i])
      BY <3>1 DEF heap_get_start_block, Fits
    <3>4. b .. b + n - 1 \subseteq Block \ Taken
      BY <3>2, <3>3, HeapAssumption DEF Block, Taken
    <3>5. /\ entries' = Stored([i \in b .. b + n - 1 |-> Mark(b, n, i)])
          /\ stray' = stray \cup ((b .. b + n - 1) \ Block)
      BY <3>1 DEF heap_mark_blocks_taken, Write
    <3>6. stray' = stray
      BY <3>4, <3>5
    <3>7. n \in Nat \ {0}
      BY <3>2, <3>3
    <3>8. Took(b, size)
      BY <3>1, <3>4, <3>5, <3>6, <3>7 DEF Took
    <3> QED
      BY <3>8
  <2> QED
    BY <1>1, <2>1, <2>2 DEF kmalloc
<1>2. ASSUME NEW b \in Block, kfree(b)
      PROVE  Gave(b)
  <2>1. heap_mark_blocks_free(b)
    BY <1>2, RoundTrip DEF kfree
  <2>2. stray' = stray
    BY <2>1 DEF heap_mark_blocks_free, Write
  <2> QED
    BY <1>2, <2>1, <2>2 DEF Gave, kfree, Live, heap_mark_blocks_free, Write
<1>3. ASSUME kfree_null
      PROVE  Strayed
  <2> DEFINE z == heap_address_to_block(NULL)
  <2>1. z \notin Block
    BY NullIndex DEF Block
  <2>2. entries' = Stored([i \in {z} |-> HEAP_BLOCK_ENTRY_FREE])
        /\ stray' = stray \cup ({z} \ Block)
    BY <1>3 DEF kfree_null, heap_mark_blocks_free, Write
  <2>3. entries' = entries
    BY <2>1, <2>2 DEF Stored, IInv, TypeOK
  <2> QED
    BY <1>3, <2>1, <2>2, <2>3 DEF Strayed, kfree_null
<1> QED
  BY <1>1, <1>2, <1>3 DEF Next

-----------------------------------------------------------------------------
(***************************************************************************)
(* The other allocations after a successful kmalloc: block b becomes live  *)
(* with its new region, everybody else keeps region and marks.             *)
(***************************************************************************)
LEMMA TookLive ==
    ASSUME IInv, NEW size \in Requests, NEW b \in Block, Took(b, size)
    PROVE  /\ b \notin Live
           /\ size # 0
           /\ Live' = Live \cup {b}
           /\ Region(b)' = b .. b + total_blocks(size) - 1
           /\ \A a \in Live : Region(a)' = Region(a) /\ req'[a] = req[a]
           /\ Taken' = Taken \cup Region(b)'
<1> DEFINE n == total_blocks(size)
           R == b .. b + n - 1
<1>1. /\ b \in Int /\ n \in Nat \ {0} /\ R \subseteq Block \ Taken
      /\ entries' = Stored([i \in R |-> Mark(b, n, i)])
      /\ req' = [req EXCEPT ![b] = size]
  BY DEF Took, Block
<1>2. b \in R
  BY <1>1
<1>3. b \notin Live
  BY <1>1, <1>2, FirstBlock
<1>4. size # 0
  <2>1. total_blocks(0) = 0
    <3>1. 0 % BlockSize = 0 /\ 0 \div BlockSize = 0
      BY HeapAssumption
    <3> QED
      BY <3>1 DEF total_blocks, heap_size_ceiling
  <2> QED
    BY <1>1, <2>1
<1>5. req'[b] = size /\ \A a \in Block \ {b} : req'[a] = req[a]
  BY <1>1 DEF IInv, TypeOK
<1>6. Live' = Live \cup {b}
  BY <1>3, <1>4, <1>5 DEF Live
<1>7. Region(b)' = R
  BY <1>5 DEF Region
<1>8. \A a \in Live : Region(a)' = Region(a) /\ req'[a] = req[a]
  BY <1>3, <1>5 DEF Region, Live
<1>9. \A i \in Block : entries'[i] = IF i \in R THEN Mark(b, n, i) ELSE entries[i]
  BY <1>1 DEF Stored
<1>10. \A i \in Block : is_block_taken(entries'[i])
                          <=> is_block_taken(entries[i]) \/ i \in R
  BY <1>9 DEF is_block_taken, Mark
<1>11. Taken' = Taken \cup R
  BY <1>1, <1>10 DEF Taken
<1> QED
  BY <1>3, <1>4, <1>6, <1>7, <1>8, <1>11

(***************************************************************************)
(* The other allocations after a kfree: block b is no longer live, and     *)
(* only its first block is free again.                                     *)
(***************************************************************************)
LEMMA GaveLive ==
    ASSUME IInv, NEW b \in Block, Gave(b)
    PROVE  /\ Live' = Live \ {b}
           /\ \A a \in Live \ {b} : Region(a)' = Region(a) /\ req'[a] = req[a]
           /\ Taken' = Taken \ {b}
<1>1. /\ entries' = Stored([i \in {b} |-> HEAP_BLOCK_ENTRY_FREE])
      /\ req' = [req EXCEPT ![b] = 0]
  BY DEF Gave
<1>2. req'[b] = 0 /\ \A a \in Block \ {b} : req'[a] = req[a]
  BY <1>1 DEF IInv, TypeOK
<1>3. Live' = Live \ {b}
  BY <1>2 DEF Live
<1>4. \A a \in Live \ {b} : Region(a)' = Region(a) /\ req'[a] = req[a]
  BY <1>2 DEF Region, Live
<1>5. \A i \in Block : entries'[i] = IF i = b THEN {} ELSE entries[i]
  BY <1>1 DEF Stored, HEAP_BLOCK_ENTRY_FREE
<1>6. Taken' = Taken \ {b}
  BY <1>5 DEF Taken, is_block_taken
<1> QED
  BY <1>3, <1>4, <1>6

-----------------------------------------------------------------------------
(***************************************************************************)
(* The invariant holds of the heap that heap_create leaves behind.         *)
(***************************************************************************)
LEMMA InitIInv == Init => IInv
BY DEF Init, IInv, TypeOK, NonEmpty, LiveMarked, WritesInTable, Live,
       HEAP_BLOCK_ENTRY_FREE, NULL

(***************************************************************************)
(* kmalloc, kfree and kfree(NULL) preserve it.                             *)
(***************************************************************************)
LEMMA NextIInv == IInv /\ [Next]_vars => IInv'
<1> SUFFICES ASSUME IInv, [Next]_vars
             PROVE  IInv'
  OBVIOUS
<1> USE DEF IInv
<1>1. ASSUME NEW size \in Requests, NEW b \in Block, Took(b, size)
      PROVE  IInv'
  <2> DEFINE n == total_blocks(size)
             R == b .. b + n - 1
  <2>1. /\ n \in Nat \ {0} /\ R \subseteq Block \ Taken
        /\ entries' = Stored([i \in R |-> Mark(b, n, i)])
        /\ stray' = stray
        /\ req' = [req EXCEPT ![b] = size]
        /\ ret' = heap_block_to_address(b)
    BY <1>1 DEF Took
  <2>2. /\ Live' = Live \cup {b} /\ b \notin Live
        /\ Region(b)' = R
        /\ \A a \in Live : Region(a)' = Region(a) /\ req'[a] = req[a]
    BY <1>1, TookLive
  <2>3. \A i \in Block : entries'[i] = IF i \in R THEN Mark(b, n, i) ELSE entries[i]
    BY <2>1 DEF Stored
  <2>4. req'[b] = size
    BY <2>1 DEF TypeOK
  <2>5. TypeOK'
    <3>1. \A i \in Int : Mark(b, n, i) \in SUBSET Flag
      BY DEF Mark, Flag
    <3>2. entries' \in [Block -> SUBSET Flag]
      BY <2>1, <3>1 DEF Stored, TypeOK, Block
    <3>3. ret' = HeapStart + b * BlockSize
      BY <2>1 DEF heap_block_to_address
    <3> QED
      BY <2>1, <3>2, <3>3 DEF TypeOK
  <2>6. NonEmpty'
    BY <2>1, <2>2, <2>4 DEF NonEmpty
  <2>7. LiveMarked'
    <3>1. ASSUME NEW a \in Live, NEW i \in Region(a)
          PROVE  i \in Block /\ entries'[i] = Mark(a, total_blocks(req'[a]), i)
      <4>1. i \in Taken /\ i \in Block
        BY RegionTaken, <3>1 DEF Taken
      <4>2. entries'[i] = entries[i]
        BY <2>1, <2>3, <4>1
      <4> QED
        BY <2>2, <3>1, <4>1, <4>2 DEF LiveMarked
    <3>2. \A i \in R : i \in Block /\ entries'[i] = Mark(b, total_blocks(req'[b]), i)
      BY <2>1, <2>3, <2>4
    <3> QED
      BY <2>2, <3>1, <3>2 DEF LiveMarked
  <2>8. WritesInTable'
    BY <2>1 DEF WritesInTable
  <2> QED
    BY <2>5, <2>6, <2>7, <2>8
<1>2. ASSUME NEW b \in Block, Gave(b)
      PROVE  IInv'
  <2>1. /\ entries' = Stored([i \in {b} |-> HEAP_BLOCK_ENTRY_FREE])
        /\ req' = [req EXCEPT ![b] = 0]
        /\ stray' = stray /\ ret' = ret /\ b \in Live
    BY <1>2 DEF Gave
  <2>2. /\ Live' = Live \ {b}
        /\ \A a \in Live \ {b} : Region(a)' = Region(a) /\ req'[a] = req[a]
    BY <1>2, GaveLive
  <2>3. \A i \in Block : entries'[i] = IF i = b THEN {} ELSE entries[i]
    BY <2>1 DEF Stored, HEAP_BLOCK_ENTRY_FREE
  <2>4. TypeOK'
    <3>1. entries' \in [Block -> SUBSET Flag]
      BY <2>1 DEF Stored, TypeOK, HEAP_BLOCK_ENTRY_FREE
    <3> QED
      BY <2>1, <3>1 DEF TypeOK
  <2>5. NonEmpty'
    BY <2>2 DEF NonEmpty
  <2>6. LiveMarked'
    <3>1. ASSUME NEW a \in Live \ {b}, NEW i \in Region(a)
          PROVE  i \in Block /\ entries'[i] = Mark(a, total_blocks(req'[a]), i)
      <4>1. b \in Region(b)
        BY <2>1, FirstBlock
      <4>2. i # b
        BY <2>1, <3>1, <4>1, MarksDisjoint DEF LiveDisjoint
      <4> QED
        BY <2>2, <2>3, <3>1, <4>2 DEF LiveMarked
    <3> QED
      BY <2>2, <3>1 DEF LiveMarked
  <2>7. WritesInTable'
    BY <2>1 DEF WritesInTable
  <2> QED
    BY <2>4, <2>5, <2>6, <2>7
<1>3. ASSUME Strayed
      PROVE  IInv'
  <2>1. /\ stray' = stray \cup {heap_address_to_block(NULL)}
        /\ entries' = entries /\ req' = req /\ ret' = ret
    BY <1>3 DEF Strayed
  <2>2. TypeOK' /\ WritesInTable'
    BY <2>1, NullIndex DEF TypeOK, WritesInTable
  <2>3. NonEmpty' /\ LiveMarked'
    BY <2>1 DEF NonEmpty, LiveMarked, Live, Region
  <2> QED
    BY <2>2, <2>3
<1>4. ASSUME UNCHANGED <<entries, req, stray>>, ret' = NULL \/ ret' = ret
      PROVE  IInv'
  <2>1. TypeOK' /\ WritesInTable'
    BY <1>4 DEF TypeOK, WritesInTable
  <2>2. NonEmpty' /\ LiveMarked'
    BY <1>4 DEF NonEmpty, LiveMarked, Live, Region
  <2> QED
    BY <2>1, <2>2
<1>5. CASE Next
  BY <1>1, <1>2, <1>3, <1>4, <1>5, Steps DEF Refused
<1>6. CASE UNCHANGED vars
  BY <1>4, <1>6 DEF vars
<1> QED
  BY <1>5, <1>6

(***************************************************************************)
(* The invariant holds of every state the heap can reach.                  *)
(***************************************************************************)
THEOREM HeapInvariant == Spec => []IInv
BY InitIInv, NextIInv, PTL DEF Spec

(***************************************************************************)
(* Type correctness of the block table, for every size of heap.            *)
(***************************************************************************)
THEOREM HeapTypeOK == Spec => []TypeOK
<1>1. IInv => TypeOK
  BY DEF IInv
<1> QED
  BY <1>1, HeapInvariant, PTL

(***************************************************************************)
(* No sequence of kmalloc and kfree calls hands out a block twice.         *)
(***************************************************************************)
THEOREM HeapLiveDisjoint == Spec => []LiveDisjoint
BY MarksDisjoint, HeapInvariant, PTL

(***************************************************************************)
(* The blocks of a live allocation keep the flags that kmalloc gave them.  *)
(***************************************************************************)
THEOREM HeapLiveMarked == Spec => []LiveMarked
<1>1. IInv => LiveMarked
  BY DEF IInv
<1> QED
  BY <1>1, HeapInvariant, PTL

(***************************************************************************)
(* Nothing but kfree(NULL) writes outside the block table.                 *)
(***************************************************************************)
THEOREM HeapWritesInTable == Spec => []WritesInTable
<1>1. IInv => WritesInTable
  BY DEF IInv
<1> QED
  BY <1>1, HeapInvariant, PTL

(***************************************************************************)
(* Blocks that a kfree left behind stay lost.                              *)
(***************************************************************************)
THEOREM HeapNeverRecovered == Spec => NeverRecovered
<1>1. ASSUME IInv, [Next]_vars
      PROVE  Orphans \subseteq Orphans'
  <2>1. ASSUME NEW size \in Requests, NEW b \in Block, Took(b, size)
        PROVE  Orphans \subseteq Orphans'
    <3>1. /\ Live' = Live \cup {b}
          /\ Region(b)' = b .. b + total_blocks(size) - 1
          /\ \A a \in Live : Region(a)' = Region(a)
          /\ Taken' = Taken \cup Region(b)'
      BY <1>1, <2>1, TookLive
    <3>2. Region(b)' \cap Taken = {}
      BY <2>1, <3>1 DEF Took
    <3> QED
      BY <3>1, <3>2 DEF Orphans
  <2>2. ASSUME NEW b \in Block, Gave(b)
        PROVE  Orphans \subseteq Orphans'
    <3>1. /\ Live' = Live \ {b}
          /\ \A a \in Live \ {b} : Region(a)' = Region(a)
          /\ Taken' = Taken \ {b}
      BY <1>1, <2>2, GaveLive
    <3>2. b \in Live /\ b \in Region(b)
      BY <1>1, <2>2, FirstBlock DEF Gave
    <3> QED
      BY <3>1, <3>2 DEF Orphans
  <2>3. ASSUME UNCHANGED <<entries, req>>
        PROVE  Orphans \subseteq Orphans'
    BY <2>3 DEF Orphans, Taken, Live, Region
  <2>4. CASE Next
    BY <1>1, <2>1, <2>2, <2>3, <2>4, Steps DEF Refused, Strayed
  <2>5. CASE UNCHANGED vars
    BY <2>3, <2>5 DEF vars
  <2> QED
    BY <1>1, <2>4, <2>5
<1> QED
  BY <1>1, HeapInvariant, PTL DEF Spec, NeverRecovered

-----------------------------------------------------------------------------
(***************************************************************************)
(* A kmalloc that succeeds takes available blocks from the pool.           *)
(***************************************************************************)
LEMMA PoolAlloc ==
    ASSUME IInv, NEW size \in Requests, NEW b \in Block, Took(b, size)
    PROVE  Pool!Alloc
<1> DEFINE R == b .. b + total_blocks(size) - 1
           avail == Block \ Taken
           held  == {Region(a) : a \in Live}
<1>1. /\ Live' = Live \cup {b}
      /\ Region(b)' = R
      /\ \A a \in Live : Region(a)' = Region(a)
      /\ Taken' = Taken \cup R
  BY TookLive
<1>2. R \in SUBSET avail
  BY DEF Took
<1>3. R # {}
  BY DEF Took, Block
<1>4. avail' = avail \ R
  BY <1>1
<1>5. held' = held \cup {R}
  BY <1>1
<1> QED
  BY <1>2, <1>3, <1>4, <1>5 DEF Pool!Alloc

(***************************************************************************)
(* A kfree of a live allocation releases its region, of which only the     *)
(* first block comes back to the pool.                                     *)
(***************************************************************************)
LEMMA PoolRelease ==
    ASSUME IInv, NEW b \in Block, Gave(b)
    PROVE  /\ Pool!Release(Region(b), {b})
           /\ Region(b) \in {Region(a) : a \in Live}
           /\ {b} \in SUBSET Region(b)
<1> DEFINE avail == Block \ Taken
           held  == {Region(a) : a \in Live}
<1>1. /\ Live' = Live \ {b}
      /\ \A a \in Live \ {b} : Region(a)' = Region(a)
      /\ Taken' = Taken \ {b}
  BY GaveLive
<1>2. b \in Live /\ b \in Region(b)
  BY FirstBlock DEF Gave
<1>3. \A a \in Live \ {b} : Region(a) # Region(b)
  BY <1>2, MarksDisjoint DEF LiveDisjoint
<1>4. held' = held \ {Region(b)}
  BY <1>1, <1>2, <1>3
<1>5. avail' = avail \cup {b}
  BY <1>1
<1> QED
  BY <1>2, <1>4, <1>5 DEF Pool!Release

(***************************************************************************)
(* The pool depends on nothing but the block table and the requests.       *)
(***************************************************************************)
LEMMA PoolStays == ASSUME UNCHANGED <<entries, req>>
                   PROVE  UNCHANGED Pool!vars
  BY DEF Pool!vars, Taken, Live, Region

(***************************************************************************)
(* The table heap_create clears is the pool with every block available.    *)
(***************************************************************************)
LEMMA PoolInit == Init => Pool!Init
  BY DEF Init, Pool!Init, Taken, Live, is_block_taken, HEAP_BLOCK_ENTRY_FREE

(***************************************************************************)
(* The block table implements the pool of BlockAllocator: every kmalloc    *)
(* takes available blocks, every kfree gives back blocks of its own region *)
(* only, and nothing else changes the pool.                                *)
(***************************************************************************)
THEOREM HeapImplementsPool == Spec => ImplementsPool
<1>1. ASSUME IInv, [Next]_vars
      PROVE  [Pool!Alloc \/ Pool!Free]_Pool!vars
  <2>1. ASSUME NEW b \in Block, Gave(b)
        PROVE  Pool!Free
    BY <1>1, <2>1, PoolRelease DEF Pool!Free
  <2>2. CASE Next
    BY <1>1, <2>1, <2>2, PoolAlloc, PoolStays, Steps DEF Refused, Strayed
  <2>3. CASE UNCHANGED vars
    BY <2>3, PoolStays DEF vars
  <2> QED
    BY <1>1, <2>2, <2>3
<1> QED
  BY <1>1, PoolInit, HeapInvariant, PTL DEF Spec, ImplementsPool, Pool!Spec

-----------------------------------------------------------------------------
(***************************************************************************)
(* A request that yields any blocks yields enough of them; the one that    *)
(* heap_size_ceiling wraps around yields none.                             *)
(***************************************************************************)
LEMMA Covers == \A size \in Requests :
                   total_blocks(size) > 0 => total_blocks(size) * BlockSize >= size
<1> SUFFICES ASSUME NEW size \in Requests, total_blocks(size) > 0
             PROVE  total_blocks(size) * BlockSize >= size
  OBVIOUS
<1> DEFINE q == size \div BlockSize
           r == size % BlockSize
           w == Word \div BlockSize
           c == size - r + BlockSize
<1>1. /\ size \in Nat /\ size < Word
      /\ BlockSize \in Nat \ {0} /\ Word \in Nat \ {0}
  BY HeapAssumption
<1>2. /\ q \in Int /\ r \in Int /\ 0 <= r /\ r < BlockSize
      /\ size = q * BlockSize + r
  BY <1>1
<1>3. w \in Int /\ Word = w * BlockSize
  <2>1. w \in Int /\ Word = w * BlockSize + (Word % BlockSize)
    BY <1>1
  <2> QED
    BY <1>1, <2>1, HeapAssumption
<1>4. CASE r = 0
  BY <1>1, <1>2, <1>4 DEF total_blocks, heap_size_ceiling
<1>5. CASE r # 0
  <2>1. heap_size_ceiling(size) = c % Word
    BY <1>5 DEF heap_size_ceiling
  <2>2. c = (q + 1) * BlockSize + 0 /\ c \in Nat /\ c >= size
    BY <1>1, <1>2
  <2>3. q < w
    <3>1. ~ (w < q)
      BY <1>1, <1>2, <1>3, MulMono
    <3>2. w # q
      BY <1>1, <1>2, <1>3
    <3> QED
      BY <1>2, <1>3, <3>1, <3>2
  <2>4. c <= Word
    BY <1>1, <1>2, <1>3, <2>2, <2>3, MulMono
  <2>5. CASE c = Word
    <3>1. Word % Word = 0 /\ 0 \div BlockSize = 0
      BY <1>1
    <3>2. total_blocks(size) = 0
      BY <2>1, <2>5, <3>1 DEF total_blocks
    <3> QED
      BY <3>2
  <2>6. CASE c < Word
    <3>1. c % Word = c
      BY <1>1, <2>2, <2>6
    <3>2. c \div BlockSize = q + 1
      <4>1. ((q + 1) * BlockSize + 0) \div BlockSize = q + 1
        BY <1>1, <1>2, DivUnique
      <4> QED
        BY <2>2, <4>1
    <3>3. total_blocks(size) = q + 1
      BY <2>1, <3>1, <3>2 DEF total_blocks
    <3> QED
      BY <2>2, <3>3, <1>2, <1>1
  <2> QED
    BY <1>1, <2>2, <2>4, <2>5, <2>6
<1> QED
  BY <1>4, <1>5

(***************************************************************************)
(* What kmalloc returns is as large as what was asked for, for all sizes   *)
(* up to the largest 32-bit number.                                        *)
(***************************************************************************)
THEOREM HeapLiveCovers == Spec => []LiveCovers
<1>1. IInv => LiveCovers
  <2> SUFFICES ASSUME IInv, NEW b \in Live
               PROVE  total_blocks(req[b]) * BlockSize >= req[b]
    BY DEF LiveCovers
  <2>1. req[b] \in Requests /\ total_blocks(req[b]) > 0
    BY DEF IInv, TypeOK, NonEmpty, Live
  <2> QED
    BY <2>1, Covers
<1> QED
  BY <1>1, HeapInvariant, PTL

-----------------------------------------------------------------------------
(***************************************************************************)
(* A request of at most one block, but not empty, takes exactly one.       *)
(***************************************************************************)
LEMMA OneBlock == ASSUME NEW size \in 1 .. BlockSize
                  PROVE  total_blocks(size) = 1
<1>1. /\ size \in Nat /\ BlockSize \in Nat \ {0} /\ Word \in Nat
      /\ BlockSize < Word
  <2>1. TotalBlocks * BlockSize >= BlockSize
    BY HeapAssumption
  <2> QED
    BY <2>1, HeapAssumption
<1>2. (1 * BlockSize + 0) \div BlockSize = 1 /\ (1 * BlockSize + 0) % BlockSize = 0
  BY <1>1, DivUnique
<1>3. BlockSize \div BlockSize = 1 /\ BlockSize % BlockSize = 0
  BY <1>1, <1>2
<1>4. CASE size = BlockSize
  BY <1>3, <1>4 DEF total_blocks, heap_size_ceiling
<1>5. CASE size < BlockSize
  <2>1. size % BlockSize = size /\ size # 0
    BY <1>1, <1>5
  <2>2. BlockSize % Word = BlockSize
    BY <1>1
  <2>3. size - size + BlockSize = BlockSize
    BY <1>1
  <2> QED
    BY <1>3, <2>1, <2>2, <2>3 DEF total_blocks, heap_size_ceiling
<1> QED
  BY <1>1, <1>4, <1>5

(***************************************************************************)
(* If no request is larger than a block, every live region is one block.   *)
(***************************************************************************)
LEMMA OneBlockRegion ==
    ASSUME Requests \subseteq 0 .. BlockSize, IInv, NEW b \in Live
    PROVE  Region(b) = {b}
<1>1. req[b] \in 1 .. BlockSize
  <2>1. b \in Block /\ req[b] # 0
    BY DEF Live
  <2>2. req[b] \in Requests \cup {0}
    BY <2>1 DEF IInv, TypeOK
  <2>3. BlockSize \in Nat \ {0}
    BY HeapAssumption
  <2>4. 0 \in 0 .. BlockSize
    BY <2>3
  <2>5. req[b] \in 0 .. BlockSize
    BY <2>2, <2>4
  <2> QED
    BY <2>1, <2>3, <2>5
<1>2. total_blocks(req[b]) = 1
  BY <1>1, OneBlock
<1> QED
  BY <1>2 DEF Region, Live, Block

(***************************************************************************)
(* As long as no request is larger than a block, kfree loses nothing:      *)
(* every block that is marked taken has a holder.                          *)
(***************************************************************************)
THEOREM HeapNoOrphans == ASSUME Requests \subseteq 0 .. BlockSize
                         PROVE  Spec => []NoOrphans
<1>1. Init => NoOrphans
  BY DEF Init, NoOrphans, Orphans, Taken, is_block_taken, HEAP_BLOCK_ENTRY_FREE
<1>2. ASSUME IInv, NoOrphans, [Next]_vars
      PROVE  NoOrphans'
  <2>1. ASSUME NEW size \in Requests, NEW b \in Block, Took(b, size)
        PROVE  NoOrphans'
    <3>1. /\ Live' = Live \cup {b}
          /\ \A a \in Live : Region(a)' = Region(a)
          /\ Taken' = Taken \cup Region(b)'
      BY <1>2, <2>1, TookLive
    <3> QED
      BY <1>2, <3>1 DEF NoOrphans, Orphans
  <2>2. ASSUME NEW b \in Block, Gave(b)
        PROVE  NoOrphans'
    <3>1. /\ Live' = Live \ {b}
          /\ \A a \in Live \ {b} : Region(a)' = Region(a)
          /\ Taken' = Taken \ {b}
      BY <1>2, <2>2, GaveLive
    <3>2. b \in Live
      BY <2>2 DEF Gave, Live
    <3>3. Region(b) = {b}
      BY <1>2, <3>2, OneBlockRegion
    <3> QED
      BY <1>2, <3>1, <3>2, <3>3 DEF NoOrphans, Orphans
  <2>3. ASSUME UNCHANGED <<entries, req>>
        PROVE  NoOrphans'
    BY <1>2, <2>3 DEF NoOrphans, Orphans, Taken, Live, Region
  <2>4. CASE Next
    BY <1>2, <2>1, <2>2, <2>3, <2>4, Steps DEF Refused, Strayed
  <2>5. CASE UNCHANGED vars
    BY <2>3, <2>5 DEF vars
  <2> QED
    BY <1>2, <2>4, <2>5
<1> QED
  BY <1>1, <1>2, HeapInvariant, PTL DEF Spec

(***************************************************************************)
(* With such requests kfree gives back all that kmalloc took: the heap     *)
(* implements the pool that loses nothing.                                 *)
(***************************************************************************)
THEOREM HeapImplementsExactPool == ASSUME Requests \subseteq 0 .. BlockSize
                                   PROVE  Spec => ImplementsExactPool
<1>1. ASSUME IInv, [Next]_vars
      PROVE  [Pool!Alloc \/ Pool!FreeAll]_Pool!vars
  <2>1. ASSUME NEW b \in Block, Gave(b)
        PROVE  Pool!FreeAll
    <3>1. b \in Live
      BY <2>1 DEF Gave, Live
    <3>2. Region(b) = {b}
      BY <1>1, <3>1, OneBlockRegion
    <3> QED
      BY <1>1, <2>1, <3>2, PoolRelease DEF Pool!FreeAll
  <2>2. CASE Next
    BY <1>1, <2>1, <2>2, PoolAlloc, PoolStays, Steps DEF Refused, Strayed
  <2>3. CASE UNCHANGED vars
    BY <2>3, PoolStays DEF vars
  <2> QED
    BY <1>1, <2>2, <2>3
<1> QED
  BY <1>1, PoolInit, HeapInvariant, PTL DEF Spec, ImplementsExactPool, Pool!ExactSpec

-----------------------------------------------------------------------------
(***************************************************************************)
(* The loops, by induction over their iterations.                          *)
(***************************************************************************)
(***************************************************************************)
(* Every set of numbers that is not empty has a least element.             *)
(***************************************************************************)
LEMMA Least == ASSUME NEW S, S \subseteq Nat, S # {}
               PROVE  \E n \in S : \A m \in S : n <= m
<1> DEFINE R == {ss \in Nat \X Nat : ss[1] < ss[2]}
<1>1. IsWellFoundedOn(R, Nat)
  BY NatLessThanWellFounded DEF OpToRel
<1>2. PICK n \in S : \A m \in S : ~ (<<m, n>> \in R)
  <2> HIDE DEF R
  <2> QED
    BY <1>1, WFMin
<1>3. ASSUME NEW m \in S, m < n PROVE FALSE
  <2>1. <<m, n>> \in Nat \X Nat /\ <<m, n>>[1] < <<m, n>>[2]
    BY <1>3
  <2>2. <<m, n>> \in R
    BY <2>1
  <2> HIDE DEF R
  <2> QED
    BY <1>2, <2>2
<1>4. \A m \in S : n \in Nat /\ m \in Nat
  OBVIOUS
<1> QED
  BY <1>3, <1>4

(***************************************************************************)
(* A set of numbers with 0 and, with each n, n + 1, has all numbers.       *)
(***************************************************************************)
LEMMA SetInduction == ASSUME NEW S, S \subseteq Nat, 0 \in S, \A n \in S : n + 1 \in S
                      PROVE  S = Nat
<1>1. SUFFICES ASSUME Nat \ S # {} PROVE FALSE
  OBVIOUS
<1>2. PICK n \in Nat \ S : \A m \in Nat \ S : n <= m
  BY <1>1, Least
<1>3. n # 0 /\ n - 1 \in Nat /\ ~ (n <= n - 1)
  BY <1>2
<1>4. n - 1 \in S
  BY <1>2, <1>3
<1> QED
  BY <1>2, <1>4


-----------------------------------------------------------------------------
\* The variables of the scan for n blocks after k iterations.
ScanState(n, s, k) ==
    /\ s[0] = NoRun
    /\ \A j \in 1 .. k : s[j] = Scan(s[j - 1], j - 1, n)

(***************************************************************************)
(* Whatever the number of iterations, the scan has values for them.        *)
(***************************************************************************)
LEMMA ScanExists ==
    ASSUME NEW n, NEW k \in Nat
    PROVE  \E s : s = [j \in 0 .. k |-> IF j = 0 THEN NoRun ELSE Scan(s[j - 1], j - 1, n)]
<1> DEFINE Runs(m, s) == s = [j \in 0 .. m |-> IF j = 0 THEN NoRun ELSE Scan(s[j - 1], j - 1, n)]
           S == {m \in Nat : \E s : Runs(m, s)}
<1>1. 0 \in S
  <2>1. Runs(0, [j \in 0 .. 0 |-> NoRun])
    OBVIOUS
  <2> QED
    BY <2>1
<1>2. ASSUME NEW m \in S PROVE m + 1 \in S
  <2>1. PICK s : Runs(m, s)
    OBVIOUS
  <2> DEFINE t == [j \in 0 .. m + 1 |-> IF j = 0 THEN NoRun ELSE Scan(s[j - 1], j - 1, n)]
  <2>2. \A j \in 0 .. m : t[j] = s[j]
    BY <2>1
  <2>3. m \in Nat /\ \A j \in 0 .. m + 1 : j # 0 => j - 1 \in 0 .. m
    OBVIOUS
  <2>4. Runs(m + 1, t)
    BY <2>2, <2>3
  <2> HIDE DEF Runs, t
  <2>5. m + 1 \in Nat
    BY <2>3
  <2> QED
    BY <2>4, <2>5
<1>3. S = Nat
  <2> HIDE DEF S
  <2>1. S \subseteq Nat
    BY DEF S
  <2> QED
    BY <1>1, <1>2, <2>1, SetInduction
<1> QED
  BY <1>3

(***************************************************************************)
(* What heap_get_start_block returns, after all its iterations.            *)
(***************************************************************************)
LEMMA Scanned ==
    ASSUME NEW n
    PROVE  \E s : /\ ScanState(n, s, TotalBlocks)
                  /\ scan_start_block(n) = IF s[TotalBlocks].found
                                             THEN s[TotalBlocks].block_start_index ELSE -ENOMEM
<1> DEFINE s == CHOOSE s : s = [k \in 0 .. TotalBlocks |->
                                   IF k = 0 THEN NoRun ELSE Scan(s[k - 1], k - 1, n)]
<1>1. TotalBlocks \in Nat
  BY HeapAssumption
<1>2. s = [k \in 0 .. TotalBlocks |-> IF k = 0 THEN NoRun ELSE Scan(s[k - 1], k - 1, n)]
  BY <1>1, ScanExists
<1>3. scan_start_block(n) = IF s[TotalBlocks].found
                              THEN s[TotalBlocks].block_start_index ELSE -ENOMEM
  BY DEF scan_start_block
<1> HIDE DEF s
<1>4. ScanState(n, s, TotalBlocks)
  BY <1>1, <1>2 DEF ScanState
<1> QED
  BY <1>3, <1>4

\* What the variables of the scan say of the blocks before block k: the run
\* of free blocks that ends there, and that no run has been missed.
Scanning(n, s, k) ==
    /\ s = [block_count |-> s.block_count, block_start_index |-> s.block_start_index,
            found |-> FALSE]
    /\ s.block_count \in 0 .. k
    /\ s.block_start_index = IF s.block_count = 0 THEN -1 ELSE k - s.block_count
    /\ \A i \in k - s.block_count .. k - 1 : ~ is_block_taken(entries[i])
    /\ s.block_count < k => is_block_taken(entries[k - s.block_count - 1])
    /\ n > 0 => s.block_count < n
    /\ \A b \in Fits(n) : b + n > k

Found(n, s) == /\ s.found = TRUE
               /\ s.block_start_index \in Block
               /\ heap_get_start_block(s.block_start_index, n)

(***************************************************************************)
(* One iteration.                                                          *)
(***************************************************************************)
LEMMA ScanTurn ==
    ASSUME NEW n \in Nat, NEW s, NEW k \in Block, Scanning(n, s, k)
    PROVE  Scanning(n, Scan(s, k, n), k + 1) \/ Found(n, Scan(s, k, n))
<1> DEFINE c == s.block_count
           f == s.block_start_index
           t == Scan(s, k, n)
<1>1. /\ s.found = FALSE /\ c \in 0 .. k
      /\ f = IF c = 0 THEN -1 ELSE k - c
      /\ \A i \in k - c .. k - 1 : ~ is_block_taken(entries[i])
      /\ c < k => is_block_taken(entries[k - c - 1])
      /\ n > 0 => c < n
      /\ \A b \in Fits(n) : b + n > k
  BY DEF Scanning
<1>2. k \in Nat /\ k < TotalBlocks /\ TotalBlocks \in Nat
  BY HeapAssumption DEF Block
<1>3. ASSUME NEW b \in Fits(n)
      PROVE  /\ n > 0 /\ b \in Nat /\ b + n <= TotalBlocks
             /\ \A i \in b .. b + n - 1 : ~ is_block_taken(entries[i])
  BY DEF Fits, Block
<1> HIDE DEF c, f, t
<1>4. CASE is_block_taken(entries[k])
  <2>1. t = NoRun
    BY <1>1, <1>4 DEF Scan, t
  <2>2. ASSUME NEW b \in Fits(n) PROVE b + n > k + 1
    <3>1. b + n # k + 1
      BY <1>2, <1>3, <1>4
    <3> QED
      BY <1>1, <1>2, <1>3, <3>1
  <2>3. Scanning(n, NoRun, k + 1)
    BY <1>2, <1>4, <2>2 DEF Scanning, NoRun
  <2> QED
    BY <2>1, <2>3 DEF t
<1>5. CASE ~ is_block_taken(entries[k])
  <2> DEFINE g == IF f = -1 THEN k ELSE f
  <2>1. t = [block_count |-> c + 1, block_start_index |-> g, found |-> c + 1 = n]
    BY <1>1, <1>5 DEF Scan, t, c, f
  <2>2. g = k - c
    BY <1>1, <1>2
  <2>3. \A i \in k - c .. k : ~ is_block_taken(entries[i])
    BY <1>1, <1>2, <1>5
  <2> HIDE DEF g
  <2>4. CASE c + 1 = n
    <3>1. g + n = k + 1 /\ g \in Block /\ n > 0
      BY <1>1, <1>2, <2>2, <2>4 DEF Block
    <3>2. \A i \in g .. g + n - 1 : ~ is_block_taken(entries[i])
      BY <1>1, <1>2, <2>2, <2>3, <3>1
    <3>3. g \in Fits(n)
      BY <1>2, <3>1, <3>2 DEF Fits
    <3>4. \A b \in Fits(n) : g <= b
      BY <1>1, <1>2, <1>3, <2>2, <3>1
    <3>5. t.found = TRUE /\ t.block_start_index = g
      BY <2>1, <2>4
    <3> QED
      BY <3>1, <3>3, <3>4, <3>5 DEF Found, heap_get_start_block, t
  <2>5. CASE c + 1 # n
    <3>1. n > 0 => c + 1 < n
      BY <1>1, <1>2, <2>5
    <3>2. ASSUME NEW b \in Fits(n) PROVE b + n > k + 1
      <4>1. ASSUME b + n = k + 1 PROVE FALSE
        <5>1. c < k /\ k - c - 1 \in b .. b + n - 1
          BY <1>1, <1>2, <1>3, <3>1, <4>1
        <5> QED
          BY <1>1, <1>3, <5>1
      <4> QED
        BY <1>1, <1>2, <1>3, <4>1
    <3>3. t = [block_count |-> c + 1, block_start_index |-> g, found |-> FALSE]
      BY <2>1, <2>5
    <3>4. /\ t.block_count = c + 1 /\ t.block_start_index = g
          /\ t = [block_count |-> t.block_count, block_start_index |-> t.block_start_index,
                  found |-> FALSE]
      BY <3>3
    <3>5. /\ c + 1 \in 0 .. k + 1 /\ (k + 1) - (c + 1) = k - c /\ (k + 1) - 1 = k
          /\ (k + 1) - (c + 1) - 1 = k - c - 1 /\ (c + 1 < k + 1 => c < k) /\ c + 1 # 0
      BY <1>1, <1>2
    <3> QED
      BY <1>1, <2>2, <2>3, <3>1, <3>2, <3>4, <3>5 DEF Scanning, t
  <2> QED
    BY <2>4, <2>5
<1> QED
  BY <1>4, <1>5

(***************************************************************************)
(* heap_get_start_block answers with the first run that is long enough, if *)
(* there is one.                                                           *)
(***************************************************************************)
LEMMA ScanRight ==
    ASSUME NEW n \in Nat
    PROVE  IF Fits(n) = {} THEN scan_start_block(n) = -ENOMEM
           ELSE scan_start_block(n) \in Block /\ heap_get_start_block(scan_start_block(n), n)
<1>1. PICK s : /\ ScanState(n, s, TotalBlocks)
               /\ scan_start_block(n) = IF s[TotalBlocks].found
                                          THEN s[TotalBlocks].block_start_index ELSE -ENOMEM
  BY Scanned
<1>2. TotalBlocks \in Nat
  BY HeapAssumption
<1>3. /\ s[0] = NoRun
      /\ \A j \in 1 .. TotalBlocks : s[j] = Scan(s[j - 1], j - 1, n)
  BY <1>1 DEF ScanState
<1> DEFINE S == {k \in Nat : k <= TotalBlocks => Scanning(n, s[k], k) \/ Found(n, s[k])}
<1>4. 0 \in S
  <2>1. \A b \in Fits(n) : b + n > 0
    BY DEF Fits, Block
  <2>2. Scanning(n, NoRun, 0)
    BY <2>1 DEF Scanning, NoRun
  <2> QED
    BY <1>3, <2>2
<1>5. ASSUME NEW k \in S PROVE k + 1 \in S
  <2>1. SUFFICES ASSUME k + 1 <= TotalBlocks
                 PROVE  Scanning(n, s[k + 1], k + 1) \/ Found(n, s[k + 1])
    OBVIOUS
  <2>2. k \in Block /\ (Scanning(n, s[k], k) \/ Found(n, s[k]))
    BY <1>2, <2>1 DEF Block
  <2>3. s[k + 1] = Scan(s[k], k, n)
    <3>1. k + 1 \in 1 .. TotalBlocks /\ (k + 1) - 1 = k
      BY <1>2, <2>1
    <3> QED
      BY <1>3, <3>1
  <2>4. CASE Scanning(n, s[k], k)
    BY <2>2, <2>3, <2>4, ScanTurn
  <2>5. CASE Found(n, s[k])
    <3>1. s[k + 1] = s[k]
      BY <2>3, <2>5 DEF Found, Scan
    <3> QED
      BY <2>5, <3>1
  <2> QED
    BY <2>2, <2>4, <2>5
<1>6. S = Nat
  <2> HIDE DEF S
  <2>1. S \subseteq Nat
    BY DEF S
  <2> QED
    BY <1>4, <1>5, <2>1, SetInduction
<1>7. CASE Found(n, s[TotalBlocks])
  <2>1. scan_start_block(n) \in Fits(n)
    BY <1>1, <1>7 DEF Found, heap_get_start_block
  <2> QED
    BY <1>1, <1>7, <2>1 DEF Found
<1>8. CASE Scanning(n, s[TotalBlocks], TotalBlocks)
  <2>1. Fits(n) = {}
    <3>1. \A b \in Fits(n) : b \in Int /\ b + n <= TotalBlocks /\ b + n > TotalBlocks
      BY <1>8 DEF Scanning, Fits, Block
    <3> QED
      BY <1>2, <3>1
  <2>2. s[TotalBlocks].found = FALSE
    BY <1>8 DEF Scanning
  <2> QED
    BY <1>1, <2>1, <2>2
<1> QED
  BY <1>2, <1>6, <1>7, <1>8

-----------------------------------------------------------------------------
\* The variables of the marking of n blocks from b, after up to k iterations.
MarkingRun(b, n, first, k, s) ==
    s = [j \in 0 .. k |-> IF j = 0 THEN first ELSE MarkTaken(s[j - 1], b + j - 1, b + n - 1)]

(***************************************************************************)
(* heap_mark_blocks_taken has values for every number of its iterations.   *)
(***************************************************************************)
LEMMA MarkingExists ==
    ASSUME NEW b, NEW n, NEW first, NEW k \in Nat
    PROVE  \E s : MarkingRun(b, n, first, k, s)
<1> DEFINE Runs(m, s) == MarkingRun(b, n, first, m, s)
           S == {m \in Nat : \E s : Runs(m, s)}
<1>1. 0 \in S
  <2>1. Runs(0, [j \in 0 .. 0 |-> first])
    BY DEF MarkingRun
  <2> QED
    BY <2>1
<1>2. ASSUME NEW m \in S PROVE m + 1 \in S
  <2>1. PICK s : Runs(m, s)
    OBVIOUS
  <2> DEFINE t == [j \in 0 .. m + 1 |-> IF j = 0 THEN first
                                        ELSE MarkTaken(s[j - 1], b + j - 1, b + n - 1)]
  <2>2. \A j \in 0 .. m : t[j] = s[j]
    BY <2>1 DEF MarkingRun
  <2>3. m \in Nat /\ \A j \in 0 .. m + 1 : j # 0 => j - 1 \in 0 .. m
    OBVIOUS
  <2>4. Runs(m + 1, t)
    BY <2>2, <2>3 DEF MarkingRun
  <2> HIDE DEF Runs, t
  <2>5. m + 1 \in Nat
    BY <2>3
  <2> QED
    BY <2>4, <2>5
<1>3. S = Nat
  <2> HIDE DEF S
  <2>1. S \subseteq Nat
    BY DEF S
  <2> QED
    BY <1>1, <1>2, <2>1, SetInduction
<1> QED
  BY <1>3

(***************************************************************************)
(* After k iterations the first k blocks have their marks, and the mark of *)
(* the next one is ready.                                                  *)
(***************************************************************************)
LEMMA MarkingRight ==
    ASSUME entries \in [Block -> SUBSET Flag], NEW b \in Block, NEW n \in 1 .. TotalBlocks - b
    PROVE  mark_taken_loop(b, n) = Stored([i \in b .. b + n - 1 |-> Mark(b, n, i)])
<1> DEFINE first == [table |-> entries, entry |-> {"IS_FIRST"} \cup More(n > 1)]
           s == CHOOSE s : s = [k \in 0 .. n |-> IF k = 0 THEN first
                                        ELSE MarkTaken(s[k - 1], b + k - 1, b + n - 1)]
           Done(k) == Stored([i \in b .. b + k - 1 |-> Mark(b, n, i)])
           S == {k \in Nat : k <= n => /\ s[k] = [table |-> Done(k), entry |-> s[k].entry]
                                       /\ k < n => s[k].entry = Mark(b, n, b + k)}
<1>1. TotalBlocks \in Nat /\ b \in Nat /\ n \in Nat /\ b + n <= TotalBlocks /\ 1 <= n
  BY HeapAssumption DEF Block
<1>2. s = [k \in 0 .. n |-> IF k = 0 THEN first ELSE MarkTaken(s[k - 1], b + k - 1, b + n - 1)]
  <2> HIDE DEF first
  <2>1. \E z : MarkingRun(b, n, first, n, z)
    BY <1>1, MarkingExists
  <2> QED
    BY <2>1 DEF MarkingRun
<1>3. mark_taken_loop(b, n) = s[n].table
  BY DEF mark_taken_loop
<1> HIDE DEF s, S
<1>4. s[0] = first /\ \A k \in 0 .. n - 1 : s[k + 1] = MarkTaken(s[k], b + k, b + n - 1)
  <2> HIDE DEF first
  <2>1. \A k \in 0 .. n - 1 : k + 1 \in 0 .. n /\ k + 1 # 0 /\ (k + 1) - 1 = k /\ b + (k + 1) - 1 = b + k
    BY <1>1
  <2> QED
    BY <1>1, <1>2, <2>1
<1>5. 0 \in S
  <2>1. b .. b + 0 - 1 = {}
    BY <1>1
  <2>2. Done(0) = entries
    BY <2>1 DEF Stored
  <2>3. first.entry = Mark(b, n, b + 0)
    BY <1>1 DEF Mark, More
  <2> QED
    BY <1>4, <2>2, <2>3 DEF S
<1>6. ASSUME NEW k \in S PROVE k + 1 \in S
  <2>1. k \in Nat
    BY DEF S
  <2>2. SUFFICES ASSUME k + 1 <= n
                 PROVE  /\ s[k + 1] = [table |-> Done(k + 1), entry |-> s[k + 1].entry]
                        /\ k + 1 < n => s[k + 1].entry = Mark(b, n, b + (k + 1))
    BY <2>1 DEF S
  <2>3. s[k].table = Done(k) /\ s[k].entry = Mark(b, n, b + k)
    BY <1>1, <2>1, <2>2 DEF S
  <2>4. s[k + 1] = [table |-> [Done(k) EXCEPT ![b + k] = Mark(b, n, b + k)],
                    entry |-> More(b + k # (b + n - 1) - 1)]
    <3>1. k \in 0 .. n - 1
      BY <1>1, <2>1, <2>2
    <3> HIDE DEF Done
    <3> QED
      BY <1>4, <2>3, <3>1 DEF MarkTaken
  <2>5. [Done(k) EXCEPT ![b + k] = Mark(b, n, b + k)] = Done(k + 1)
    <3>1. b .. b + (k + 1) - 1 = (b .. b + k - 1) \cup {b + k} /\ b + k \notin b .. b + k - 1
      BY <1>1, <2>1
    <3> QED
      BY <1>1, <2>1, <3>1 DEF Stored
  <2>6. ASSUME k + 1 < n
        PROVE  More(b + k # (b + n - 1) - 1) = Mark(b, n, b + (k + 1))
    <3>1. b + (k + 1) # b /\ (b + (k + 1) = b + n - 1 <=> b + k = (b + n - 1) - 1)
      BY <1>1, <2>1
    <3> QED
      BY <3>1 DEF More, Mark
  <2> HIDE DEF Done
  <2> QED
    BY <2>4, <2>5, <2>6
<1>7. S = Nat
  <2>1. S \subseteq Nat
    BY DEF S
  <2> QED
    BY <1>5, <1>6, <2>1, SetInduction
<1>8. s[n].table = Done(n)
  <2>1. n \in S /\ n <= n
    BY <1>1, <1>7
  <2> HIDE DEF Done
  <2> QED
    BY <2>1 DEF S
<1> QED
  BY <1>3, <1>8

-----------------------------------------------------------------------------
\* The variables of the freeing from b, after up to k iterations.
FreeingRun(b, first, k, s) ==
    s = [j \in 0 .. k |-> IF j = 0 THEN first ELSE MarkFree(s[j - 1], b + j - 1)]

(***************************************************************************)
(* heap_mark_blocks_free has values for every number of its iterations.    *)
(***************************************************************************)
LEMMA FreeingExists ==
    ASSUME NEW b, NEW first, NEW k \in Nat
    PROVE  \E s : FreeingRun(b, first, k, s)
<1> DEFINE Runs(m, s) == FreeingRun(b, first, m, s)
           S == {m \in Nat : \E s : Runs(m, s)}
<1>1. 0 \in S
  <2>1. Runs(0, [j \in 0 .. 0 |-> first])
    BY DEF FreeingRun
  <2> QED
    BY <2>1
<1>2. ASSUME NEW m \in S PROVE m + 1 \in S
  <2>1. PICK s : Runs(m, s)
    OBVIOUS
  <2> DEFINE t == [j \in 0 .. m + 1 |-> IF j = 0 THEN first ELSE MarkFree(s[j - 1], b + j - 1)]
  <2>2. \A j \in 0 .. m : t[j] = s[j]
    BY <2>1 DEF FreeingRun
  <2>3. m \in Nat /\ \A j \in 0 .. m + 1 : j # 0 => j - 1 \in 0 .. m
    OBVIOUS
  <2>4. Runs(m + 1, t)
    BY <2>2, <2>3 DEF FreeingRun
  <2> HIDE DEF Runs, t
  <2>5. m + 1 \in Nat
    BY <2>3
  <2> QED
    BY <2>4, <2>5
<1>3. S = Nat
  <2> HIDE DEF S
  <2>1. S \subseteq Nat
    BY DEF S
  <2> QED
    BY <1>1, <1>2, <2>1, SetInduction
<1> QED
  BY <1>3

(***************************************************************************)
(* The loop is left after its first iteration.                             *)
(***************************************************************************)
LEMMA FreeingRight ==
    ASSUME entries \in [Block -> SUBSET Flag], NEW b \in Block
    PROVE  mark_free_loop(b) = Stored([i \in {b} |-> HEAP_BLOCK_ENTRY_FREE])
<1> DEFINE first == [table |-> entries, break |-> FALSE]
           n == TotalBlocks - b
           s == CHOOSE s : s = [k \in 0 .. n |-> IF k = 0 THEN first
                                                 ELSE MarkFree(s[k - 1], b + k - 1)]
           freed == Stored([i \in {b} |-> HEAP_BLOCK_ENTRY_FREE])
           S == {k \in Nat : k < n => s[k + 1].table = freed /\ s[k + 1].break = TRUE}
<1>1. TotalBlocks \in Nat /\ b \in Nat /\ n \in Nat /\ 1 <= n
  BY HeapAssumption DEF Block
<1>2. s = [k \in 0 .. n |-> IF k = 0 THEN first ELSE MarkFree(s[k - 1], b + k - 1)]
  <2> HIDE DEF first, n
  <2>1. \E z : FreeingRun(b, first, n, z)
    BY <1>1, FreeingExists
  <2> QED
    BY <2>1 DEF FreeingRun
<1>3. mark_free_loop(b) = s[n].table
  BY DEF mark_free_loop
<1> HIDE DEF s, S, n
<1>4. s[0] = first /\ \A k \in 0 .. n - 1 : s[k + 1] = MarkFree(s[k], b + k)
  <2> HIDE DEF first
  <2>1. \A k \in 0 .. n - 1 : k + 1 \in 0 .. n /\ k + 1 # 0 /\ (k + 1) - 1 = k /\ b + (k + 1) - 1 = b + k
    BY <1>1
  <2> QED
    BY <1>1, <1>2, <2>1
<1>5. 0 \in S
  <2>1. s[0 + 1] = MarkFree(first, b + 0)
    BY <1>1, <1>4
  <2>2. first.break = FALSE /\ first.table = entries /\ b + 0 = b
    BY <1>1
  <2>3. /\ MarkFree(first, b).table = [entries EXCEPT ![b] = {}]
        /\ MarkFree(first, b).break = ("HAS_NEXT" \notin [entries EXCEPT ![b] = {}][b])
    BY <2>2 DEF MarkFree, HEAP_BLOCK_ENTRY_FREE
  <2>4. [entries EXCEPT ![b] = {}][b] = {}
    OBVIOUS
  <2>5. [entries EXCEPT ![b] = {}] = freed
    BY DEF Stored, HEAP_BLOCK_ENTRY_FREE
  <2> QED
    BY <2>1, <2>2, <2>3, <2>4, <2>5 DEF S
<1>6. ASSUME NEW k \in S PROVE k + 1 \in S
  <2>1. k \in Nat /\ k + 1 \in Nat
    BY DEF S
  <2>2. SUFFICES ASSUME k + 1 < n
                 PROVE  s[(k + 1) + 1].table = freed /\ s[(k + 1) + 1].break = TRUE
    BY <2>1 DEF S
  <2>3. s[k + 1].table = freed /\ s[k + 1].break = TRUE
    BY <1>1, <2>1, <2>2 DEF S
  <2>4. s[(k + 1) + 1] = MarkFree(s[k + 1], b + (k + 1))
    BY <1>1, <1>4, <2>1, <2>2
  <2>5. s[(k + 1) + 1] = s[k + 1]
    BY <2>3, <2>4 DEF MarkFree
  <2> QED
    BY <2>3, <2>5
<1>7. S = Nat
  <2>1. S \subseteq Nat
    BY DEF S
  <2> QED
    BY <1>5, <1>6, <2>1, SetInduction
<1>8. s[n].table = freed
  <2>1. n - 1 \in S /\ n - 1 < n /\ (n - 1) + 1 = n
    BY <1>1, <1>7
  <2> QED
    BY <2>1 DEF S
<1> QED
  BY <1>3, <1>8

-----------------------------------------------------------------------------
(***************************************************************************)
(* heap_get_start_block, heap_mark_blocks_taken and heap_mark_blocks_free, *)
(* iteration by iteration, compute what the model says of them, for a      *)
(* table of every size and on every state the heap can reach.              *)
(***************************************************************************)
THEOREM HeapLoopsAgree == Spec => []LoopsAgree
<1>1. ASSUME TypeOK PROVE LoopsAgree
  <2>1. \A n \in 0 .. TotalBlocks + 1 : n \in Nat
    OBVIOUS
  <2>2. entries \in [Block -> SUBSET Flag]
    BY <1>1 DEF TypeOK
  <2> QED
    BY <2>1, <2>2, ScanRight, MarkingRight, FreeingRight DEF LoopsAgree
<1>2. TypeOK => LoopsAgree
  BY <1>1
<1> QED
  BY <1>2, HeapTypeOK, PTL

=============================================================================
