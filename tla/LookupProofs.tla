---------------------------- MODULE LookupProofs ----------------------------
(***************************************************************************)
(* Proofs about fat16_open and fat16_close, for any volumes, paths, and    *)
(* heap: every open descriptor owns its blocks, and is for what its path   *)
(* names; and what can go wrong where.  A lookup only adds to the heap it  *)
(* is given: what was in use before stays in use with its contents, and    *)
(* the item it returns lies in blocks that were free.                      *)
(***************************************************************************)
EXTENDS Lookup, FiniteSetTheorems, SequenceTheorems, WellFoundedInduction, TLAPS

-----------------------------------------------------------------------------
(***************************************************************************)
(* Every set of numbers that is not empty has a least element.             *)
(***************************************************************************)
LEMMA Least == ASSUME NEW S, S \subseteq Nat, S # {}
               PROVE  \E n \in S : \A m \in S : n <= m
<1> DEFINE R == {ss \in Nat \X Nat : ss[1] < ss[2]}
<1>1. IsWellFoundedOn(R, Nat)
  BY NatLessThanWellFounded DEF OpToRel
<1>2. PICK n \in S : \A m \in S : ~ (<<m, n>> \in R)
  <2> HIDE DEF R
  <2> QED
    BY <1>1, WFMin
<1>3. ASSUME NEW m \in S, m < n PROVE FALSE
  <2>1. <<m, n>> \in Nat \X Nat /\ <<m, n>>[1] < <<m, n>>[2]
    BY <1>3
  <2>2. <<m, n>> \in R
    BY <2>1
  <2> HIDE DEF R
  <2> QED
    BY <1>2, <2>2
<1>4. \A m \in S : n \in Nat /\ m \in Nat
  OBVIOUS
<1> QED
  BY <1>3, <1>4

(***************************************************************************)
(* A set of numbers with 0 and, with each n, n + 1, has all numbers.       *)
(***************************************************************************)
LEMMA SetInduction == ASSUME NEW S, S \subseteq Nat, 0 \in S, \A n \in S : n + 1 \in S
                      PROVE  S = Nat
<1>1. SUFFICES ASSUME Nat \ S # {} PROVE FALSE
  OBVIOUS
<1>2. PICK n \in Nat \ S : \A m \in Nat \ S : n <= m
  BY <1>1, Least
<1>3. n # 0 /\ n - 1 \in Nat /\ ~ (n <= n - 1)
  BY <1>2
<1>4. n - 1 \in S
  BY <1>2, <1>3
<1> QED
  BY <1>2, <1>4

-----------------------------------------------------------------------------
(***************************************************************************)
(* A heap: blocks in use, and in every block something whose pointers lead *)
(* to blocks or are NULL.                                                  *)
(***************************************************************************)
Content(x) == /\ x.is = "items"      => x.of \in Dirs
              /\ x.is = "dir"        => x.item \in Blocks \cup {0}
              /\ x.is = "fat_item"   => x.ptr \in Blocks \cup {0}
              /\ x.is = "descriptor" => x.item \in Blocks

IsHeap(h) == /\ DOMAIN h = {"used", "mem", "fate", "failed"}
             /\ h.used \subseteq Blocks /\ DOMAIN h.mem = Blocks
             /\ h.fate \in {"fine", "wild", "hung"} /\ h.failed \in BOOLEAN
             /\ \A b \in Blocks : Content(h.mem[b])

LEMMA ZeroIsNoBlock == 0 \notin Blocks /\ Blocks \subseteq Nat
BY LookupAssumption

(***************************************************************************)
(* kzalloc gives out a free block, empty, or fails and changes nothing.    *)
(***************************************************************************)
LEMMA AllocRight ==
    ASSUME NEW h, IsHeap(h)
    PROVE  LET r == kzalloc(h) IN
           /\ IsHeap(r.heap) /\ r.heap.fate = h.fate /\ r.heap.failed = h.failed
           /\ \/ r.ptr = 0 /\ r.heap = h /\ Blocks \subseteq h.used
              \/ /\ r.ptr \in Blocks \ h.used /\ r.heap.used = h.used \cup {r.ptr}
                 /\ r.heap.mem[r.ptr] = Blank
                 /\ \A b \in Blocks \ {r.ptr} : r.heap.mem[b] = h.mem[b]
<1>1. CASE Blocks \subseteq h.used
  BY <1>1 DEF kzalloc, Ret
<1>2. CASE ~ (Blocks \subseteq h.used)
  <2> DEFINE free == Blocks \ h.used
             b == CHOOSE b \in free : \A c \in free : b <= c
             g == [h EXCEPT !.used = @ \cup {b}, !.mem[b] = Blank]
  <2>1. free # {} /\ free \subseteq Nat
    BY <1>2, ZeroIsNoBlock
  <2>2. b \in free
    <3> HIDE DEF free
    <3> QED
      BY <2>1, Least
  <2>3. kzalloc(h).heap = g /\ kzalloc(h).ptr = b
    BY <1>2 DEF kzalloc, Ret
  <2> HIDE DEF b
  <2>4. /\ DOMAIN g = {"used", "mem", "fate", "failed"} /\ g.used = h.used \cup {b}
        /\ g.mem = [h.mem EXCEPT ![b] = Blank] /\ g.fate = h.fate /\ g.failed = h.failed
    BY DEF IsHeap
  <2> HIDE DEF g
  <2>5. DOMAIN g.mem = Blocks /\ g.mem[b] = Blank /\ \A c \in Blocks \ {b} : g.mem[c] = h.mem[c]
    BY <2>2, <2>4 DEF IsHeap
  <2>6. Content(Blank)
    BY DEF Content, Blank
  <2>7. \A c \in Blocks : Content(g.mem[c])
    BY <2>5, <2>6 DEF IsHeap
  <2>8. IsHeap(g)
    BY <2>2, <2>4, <2>5, <2>7 DEF IsHeap
  <2> QED
    BY <2>2, <2>3, <2>4, <2>5, <2>8
<1> QED
  BY <1>1, <1>2

(***************************************************************************)
(* Writing to a block changes nothing but its contents, freeing one        *)
(* nothing but that it is in use.                                          *)
(***************************************************************************)
LEMMA PutRight ==
    ASSUME NEW h, IsHeap(h), NEW b, NEW x, Content(x)
    PROVE  LET g == Put(h, b, x) IN
           /\ IsHeap(g) /\ g.fate = h.fate /\ g.failed = h.failed /\ g.used = h.used
           /\ \A c \in Blocks : g.mem[c] = IF c = b THEN x ELSE h.mem[c]
<1> DEFINE g == Put(h, b, x)
<1>1. /\ DOMAIN g = {"used", "mem", "fate", "failed"} /\ g.used = h.used
      /\ g.mem = [h.mem EXCEPT ![b] = x] /\ g.fate = h.fate /\ g.failed = h.failed
  BY DEF Put, IsHeap
<1> HIDE DEF g
<1>2. DOMAIN g.mem = Blocks /\ \A c \in Blocks : g.mem[c] = IF c = b THEN x ELSE h.mem[c]
  BY <1>1 DEF IsHeap
<1>3. \A c \in Blocks : Content(g.mem[c])
  BY <1>2 DEF IsHeap
<1>4. IsHeap(g)
  BY <1>1, <1>2, <1>3 DEF IsHeap
<1> QED
  BY <1>1, <1>2, <1>4 DEF g

LEMMA FreeRight ==
    ASSUME NEW h, IsHeap(h), NEW b
    PROVE  LET g == kfree(h, b) IN
           /\ IsHeap(g) /\ g.fate = h.fate /\ g.failed = h.failed /\ g.used = h.used \ {b}
           /\ g.mem = h.mem
<1>1. /\ DOMAIN kfree(h, b) = {"used", "mem", "fate", "failed"}
      /\ kfree(h, b).used = h.used \ {b} /\ kfree(h, b).mem = h.mem
      /\ kfree(h, b).fate = h.fate /\ kfree(h, b).failed = h.failed
  BY DEF kfree, IsHeap
<1> QED
  BY <1>1 DEF IsHeap

LEMMA WildRight ==
    ASSUME NEW h, IsHeap(h)
    PROVE  /\ IsHeap(Wild(h)) /\ Wild(h).fate = "wild" /\ Wild(h).failed = h.failed
           /\ Wild(h).used = h.used /\ Wild(h).mem = h.mem
<1>1. /\ DOMAIN Wild(h) = {"used", "mem", "fate", "failed"}
      /\ Wild(h).used = h.used /\ Wild(h).mem = h.mem
      /\ Wild(h).fate = "wild" /\ Wild(h).failed = h.failed
  BY DEF Wild, IsHeap
<1> QED
  BY <1>1 DEF IsHeap

(***************************************************************************)
(* A failure and a loop without end are marked in the heap.                *)
(***************************************************************************)
Failed(h) == [h EXCEPT !.failed = TRUE]
Hung(h) == [h EXCEPT !.fate = "hung"]

LEMMA MarkRight ==
    ASSUME NEW h, IsHeap(h)
    PROVE  /\ IsHeap(Failed(h)) /\ Failed(h).failed = TRUE /\ Failed(h).fate = h.fate
           /\ IsHeap(Hung(h)) /\ Hung(h).failed = h.failed /\ Hung(h).fate = "hung"
<1>1. /\ DOMAIN Failed(h) = {"used", "mem", "fate", "failed"} /\ Failed(h).used = h.used
      /\ Failed(h).mem = h.mem /\ Failed(h).fate = h.fate /\ Failed(h).failed = TRUE
  BY DEF Failed, IsHeap
<1>2. /\ DOMAIN Hung(h) = {"used", "mem", "fate", "failed"} /\ Hung(h).used = h.used
      /\ Hung(h).mem = h.mem /\ Hung(h).fate = "hung" /\ Hung(h).failed = h.failed
  BY DEF Hung, IsHeap
<1> QED
  BY <1>1, <1>2 DEF IsHeap

-----------------------------------------------------------------------------
(***************************************************************************)
(* A heap that has seen no failure is sound.  A heap is extended when what *)
(* was in use still is, with its contents.                                 *)
(***************************************************************************)
Sound(h) == h.fate = "fine" /\ ~ h.failed

Extends(h, g) == h.used \subseteq g.used /\ \A b \in h.used : g.mem[b] = h.mem[b]

(***************************************************************************)
(* What the code knows to be where: a directory of the disk in block p; an *)
(* item in block f for entry i of directory d, a file (which has no copy   *)
(* of the entry when memory was short) or a directory; and the blocks of   *)
(* an item.                                                                *)
(***************************************************************************)
DirFor(g, p, d) ==
    /\ p \in g.used /\ g.mem[p].is = "dir" /\ g.mem[p].of = d
    /\ g.mem[p].total = total_items(d) /\ total_items(d) # -1
    /\ g.mem[p].item \in g.used \ {p}
    /\ g.mem[g.mem[p].item].is = "items" /\ g.mem[g.mem[p].item].of = d

FileFor(g, f, d, i) ==
    /\ g.mem[f].type = "FILE" /\ tree[d].items[i].kind # "directory"
    /\ \/ g.mem[f].ptr = 0
       \/ /\ g.mem[f].ptr \in g.used \ {f} /\ g.mem[g.mem[f].ptr].is = "entry"
          /\ g.mem[g.mem[f].ptr].of = d /\ g.mem[g.mem[f].ptr].index = i

FolderFor(g, f, d, i) ==
    /\ g.mem[f].type = "DIRECTORY" /\ tree[d].items[i].kind = "directory"
    /\ g.mem[f].ptr # f /\ DirFor(g, g.mem[f].ptr, tree[d].items[i].dir)
    /\ g.mem[g.mem[f].ptr].item # f

ItemFor(g, f, d, i) ==
    /\ d \in Dirs /\ i \in DOMAIN tree[d].items
    /\ f \in g.used /\ g.mem[f].is = "fat_item"
    /\ FileFor(g, f, d, i) \/ FolderFor(g, f, d, i)

ItemBlocks(g, f) ==
    {f} \cup ({g.mem[f].ptr} \ {0})
      \cup IF g.mem[f].type = "DIRECTORY" THEN {g.mem[g.mem[f].ptr].item} ELSE {}

LEMMA ItemBlocksUsed ==
    ASSUME NEW g, IsHeap(g), NEW f, NEW d, NEW i, ItemFor(g, f, d, i)
    PROVE  ItemBlocks(g, f) \subseteq g.used
<1>1. CASE FileFor(g, f, d, i)
  BY <1>1 DEF ItemFor, FileFor, ItemBlocks
<1>2. CASE FolderFor(g, f, d, i)
  BY <1>2 DEF ItemFor, FolderFor, DirFor, ItemBlocks
<1> QED
  BY <1>1, <1>2 DEF ItemFor

(***************************************************************************)
(* An item stays one while its blocks are in use and nothing writes to     *)
(* them.                                                                   *)
(***************************************************************************)
LEMMA ItemKept ==
    ASSUME NEW h, IsHeap(h), NEW g, IsHeap(g), NEW f, NEW d, NEW i, ItemFor(h, f, d, i),
           ItemBlocks(h, f) \subseteq g.used, \A b \in ItemBlocks(h, f) : g.mem[b] = h.mem[b]
    PROVE  ItemFor(g, f, d, i) /\ ItemBlocks(g, f) = ItemBlocks(h, f)
<1> DEFINE p == h.mem[f].ptr
<1>1. f \in ItemBlocks(h, f) /\ g.mem[f] = h.mem[f] /\ f \in g.used
  BY DEF ItemBlocks
<1>2. CASE FileFor(h, f, d, i)
  <2>1. h.mem[f].type # "DIRECTORY" /\ ItemBlocks(g, f) = ItemBlocks(h, f)
    BY <1>1, <1>2 DEF FileFor, ItemBlocks
  <2>2. CASE p = 0
    <3>1. FileFor(g, f, d, i)
      BY <1>1, <1>2, <2>2 DEF FileFor
    <3> QED
      BY <1>1, <2>1, <3>1 DEF ItemFor
  <2>3. CASE p # 0
    <3>1. p \in ItemBlocks(h, f)
      BY <2>3 DEF ItemBlocks
    <3>2. p \in g.used /\ g.mem[p] = h.mem[p] /\ p # f
      BY <1>2, <2>3, <3>1 DEF FileFor
    <3>3. FileFor(g, f, d, i)
      BY <1>1, <1>2, <2>3, <3>2 DEF FileFor
    <3> QED
      BY <1>1, <2>1, <3>3 DEF ItemFor
  <2> QED
    BY <2>2, <2>3
<1>3. CASE FolderFor(h, f, d, i)
  <2> DEFINE q == h.mem[p].item
  <2>1. p # 0 /\ h.mem[f].type = "DIRECTORY"
    BY <1>3, ZeroIsNoBlock DEF FolderFor, DirFor, IsHeap
  <2>2. p \in ItemBlocks(h, f) /\ q \in ItemBlocks(h, f)
    BY <2>1 DEF ItemBlocks
  <2>3. /\ p \in g.used /\ g.mem[p] = h.mem[p]
        /\ q \in g.used /\ g.mem[q] = h.mem[q]
    BY <2>2
  <2>4. DirFor(g, p, tree[d].items[i].dir)
    BY <1>3, <2>3 DEF FolderFor, DirFor
  <2>5. FolderFor(g, f, d, i)
    BY <1>1, <1>3, <2>3, <2>4 DEF FolderFor
  <2>6. ItemBlocks(g, f) = ItemBlocks(h, f)
    BY <1>1, <2>3 DEF ItemBlocks
  <2> QED
    BY <1>1, <2>5, <2>6 DEF ItemFor
<1> QED
  BY <1>2, <1>3 DEF ItemFor

-----------------------------------------------------------------------------
(***************************************************************************)
(* Whatever is in the heap, freeing a directory or an item takes blocks    *)
(* out of use and does no more than that.                                  *)
(***************************************************************************)
Freed(h, g) == /\ IsHeap(g) /\ g.mem = h.mem /\ g.used \subseteq h.used
               /\ g.failed = h.failed /\ g.fate \in {h.fate, "wild"}

LEMMA KfreeFreed == ASSUME NEW h, IsHeap(h), NEW b
                    PROVE  Freed(h, kfree(h, b))
BY FreeRight DEF Freed

LEMMA FreedTwice == ASSUME NEW h, NEW g, NEW k, Freed(h, g), Freed(g, k)
                    PROVE  Freed(h, k)
BY DEF Freed

LEMMA FreeDirectoryFreed ==
    ASSUME NEW h, IsHeap(h), NEW d
    PROVE  Freed(h, fat16_free_directory(h, d))
<1>1. Freed(h, h) /\ Freed(h, Wild(h)) /\ Freed(h, kfree(h, d))
  BY WildRight, KfreeFreed DEF Freed
<1>2. Freed(h, kfree(kfree(h, h.mem[d].item), d))
  <2>1. Freed(h, kfree(h, h.mem[d].item))
    BY KfreeFreed
  <2>2. IsHeap(kfree(h, h.mem[d].item))
    BY <2>1 DEF Freed
  <2> QED
    BY <2>1, <2>2, KfreeFreed, FreedTwice
<1> QED
  BY <1>1, <1>2 DEF fat16_free_directory

LEMMA FreeItemFreed ==
    ASSUME NEW h, IsHeap(h), NEW f
    PROVE  Freed(h, fat16_fat_item_free(h, f))
<1>1. Freed(h, Wild(h))
  BY WildRight DEF Freed
<1>2. Freed(h, kfree(fat16_free_directory(h, h.mem[f].ptr), f))
  <2>1. Freed(h, fat16_free_directory(h, h.mem[f].ptr))
    BY FreeDirectoryFreed
  <2>2. IsHeap(fat16_free_directory(h, h.mem[f].ptr))
    BY <2>1 DEF Freed
  <2> QED
    BY <2>1, <2>2, KfreeFreed, FreedTwice
<1>3. Freed(h, kfree(kfree(h, h.mem[f].ptr), f))
  <2>1. Freed(h, kfree(h, h.mem[f].ptr))
    BY KfreeFreed
  <2>2. IsHeap(kfree(h, h.mem[f].ptr))
    BY <2>1 DEF Freed
  <2> QED
    BY <2>1, <2>2, KfreeFreed, FreedTwice
<1> QED
  BY <1>1, <1>2, <1>3 DEF fat16_fat_item_free

(***************************************************************************)
(* Freeing an item that is one frees its blocks and no other.              *)
(***************************************************************************)
LEMMA FreeItemExact ==
    ASSUME NEW h, IsHeap(h), NEW f, NEW d, NEW i, ItemFor(h, f, d, i)
    PROVE  LET g == fat16_fat_item_free(h, f) IN
           g.used = h.used \ ItemBlocks(h, f) /\ g.fate = h.fate
<1> DEFINE p == h.mem[f].ptr
           q == h.mem[p].item
<1>1. h.mem[f].is = "fat_item" /\ 0 \notin h.used
  BY ZeroIsNoBlock DEF ItemFor, IsHeap
<1>2. CASE FileFor(h, f, d, i)
  <2>1. fat16_fat_item_free(h, f) = kfree(kfree(h, p), f)
    BY <1>1, <1>2 DEF FileFor, fat16_fat_item_free
  <2>2. IsHeap(kfree(h, p)) /\ kfree(h, p).used = h.used \ {p} /\ kfree(h, p).fate = h.fate
    BY FreeRight
  <2>3. kfree(kfree(h, p), f).used = (h.used \ {p}) \ {f} /\ kfree(kfree(h, p), f).fate = h.fate
    BY <2>2, FreeRight
  <2>4. ItemBlocks(h, f) = {f} \cup ({p} \ {0})
    BY <1>2 DEF FileFor, ItemBlocks
  <2> QED
    BY <1>1, <2>1, <2>3, <2>4
<1>3. CASE FolderFor(h, f, d, i)
  <2>1. p \in h.used /\ p # 0 /\ h.mem[p].is = "dir" /\ h.mem[f].type = "DIRECTORY"
    BY <1>1, <1>3 DEF FolderFor, DirFor
  <2>2. fat16_fat_item_free(h, f) = kfree(kfree(kfree(h, q), p), f)
    BY <1>1, <2>1 DEF fat16_fat_item_free, fat16_free_directory
  <2>3. IsHeap(kfree(h, q)) /\ kfree(h, q).used = h.used \ {q} /\ kfree(h, q).fate = h.fate
    BY FreeRight
  <2> DEFINE g == kfree(kfree(h, q), p)
  <2>4. IsHeap(g) /\ g.used = (h.used \ {q}) \ {p} /\ g.fate = h.fate
    BY <2>3, FreeRight
  <2>5. kfree(g, f).used = ((h.used \ {q}) \ {p}) \ {f} /\ kfree(g, f).fate = h.fate
    <3> HIDE DEF g
    <3> QED
      BY <2>4, FreeRight
  <2>6. ItemBlocks(h, f) = {f, p, q}
    BY <2>1 DEF ItemBlocks
  <2> QED
    BY <2>2, <2>5, <2>6
<1> QED
  BY <1>2, <1>3 DEF ItemFor

-----------------------------------------------------------------------------
(***************************************************************************)
(* What a lookup does to a heap it does not fail in: it extends it.        *)
(***************************************************************************)
Added(h, g) == IsHeap(g) /\ (h.failed => g.failed) /\ (Sound(g) => Sound(h) /\ Extends(h, g))

LEMMA AddedTwice == ASSUME NEW h, NEW g, NEW k, Added(h, g), Added(g, k)
                    PROVE  Added(h, k)
BY DEF Added, Extends

TreeOK == DOMAIN tree = Dirs /\ \A d \in Dirs : Directory(tree[d])

LEMMA AllocAdded == ASSUME NEW h, IsHeap(h)
                    PROVE  Added(h, kzalloc(h).heap) /\ kzalloc(h).ptr \in Blocks \cup {0}
<1> DEFINE r == kzalloc(h)
<1>1. /\ IsHeap(r.heap) /\ r.heap.fate = h.fate /\ r.heap.failed = h.failed
      /\ \/ r.ptr = 0 /\ r.heap = h
         \/ /\ r.ptr \in Blocks \ h.used /\ r.heap.used = h.used \cup {r.ptr}
            /\ \A b \in Blocks \ {r.ptr} : r.heap.mem[b] = h.mem[b]
  BY AllocRight
<1> HIDE DEF r
<1>2. \A b \in h.used : b \in Blocks
  BY DEF IsHeap
<1>3. Added(h, r.heap) /\ r.ptr \in Blocks \cup {0}
  BY <1>1, <1>2 DEF Added, Extends, Sound
<1> QED
  BY <1>3 DEF r

(***************************************************************************)
(* Writing to a block that was not in use.                                 *)
(***************************************************************************)
LEMMA PutAdded ==
    ASSUME NEW h, IsHeap(h), NEW g, Added(h, g), NEW b, b \notin h.used, NEW x, Content(x)
    PROVE  Added(h, Put(g, b, x))
<1> DEFINE k == Put(g, b, x)
<1>1. /\ IsHeap(k) /\ k.fate = g.fate /\ k.failed = g.failed /\ k.used = g.used
      /\ \A c \in Blocks : k.mem[c] = IF c = b THEN x ELSE g.mem[c]
  BY PutRight DEF Added
<1> HIDE DEF k
<1>2. \A c \in h.used : c \in Blocks /\ c # b
  BY DEF IsHeap
<1>3. Added(h, k)
  BY <1>1, <1>2 DEF Added, Extends, Sound
<1> QED
  BY <1>3 DEF k

LEMMA MarkAdded == ASSUME NEW h, NEW k, IsHeap(k), h.failed => k.failed
                   PROVE  /\ Added(h, Failed(k)) /\ ~ Sound(Failed(k))
                          /\ Added(h, Hung(k)) /\ ~ Sound(Hung(k))
<1>1. /\ IsHeap(Failed(k)) /\ Failed(k).failed = TRUE
      /\ IsHeap(Hung(k)) /\ Hung(k).fate = "hung" /\ Hung(k).failed = k.failed
  BY MarkRight
<1>2. ~ Sound(Failed(k)) /\ ~ Sound(Hung(k))
  BY <1>1 DEF Sound
<1> QED
  BY <1>1, <1>2 DEF Added

(***************************************************************************)
(* How an operation can go wrong in which no directory fails to load: by   *)
(* counting a directory without end.                                       *)
(***************************************************************************)
Endless == \E d \in Dirs : tree[d].behind = -1

Quiet(h, g) == ~ g.failed => ~ h.failed /\ (g.fate = h.fate \/ (g.fate = "hung" /\ Endless))

LEMMA QuietTwice == ASSUME NEW h, NEW g, NEW k, Quiet(h, g), Quiet(g, k)
                    PROVE  Quiet(h, k)
BY DEF Quiet

LEMMA QuietSame == ASSUME NEW h, NEW g, g.fate = h.fate, g.failed = h.failed
                   PROVE  Quiet(h, g)
BY DEF Quiet

(***************************************************************************)
(* The count of a directory's entries: there is none where the directory   *)
(* has no end, and without deleted entries it reaches the last entry.      *)
(***************************************************************************)
LEMMA TotalIs ==
    ASSUME TreeOK, NEW d \in Dirs
    PROVE  /\ total_items(d) \in {-1} \cup Nat /\ (total_items(d) = -1 <=> tree[d].behind = -1)
           /\ ~ Gaps(d) /\ total_items(d) # -1 => Len(tree[d].items) <= total_items(d)
<1> DEFINE items == tree[d].items
           n == Len(items)
           S == {i \in DOMAIN items : ~ Deleted(items[i])}
           b == tree[d].behind
<1>1. n \in Nat /\ DOMAIN items = 1 .. n /\ b \in {-1} \cup Nat
  BY DEF TreeOK, Directory
<1>2. IsFiniteSet(1 .. n) /\ Cardinality(1 .. n) = n
  <2> HIDE DEF n
  <2>1. IsFiniteSet(1 .. n) /\ Cardinality(1 .. n) = IF 1 <= n THEN n - 1 + 1 ELSE 0
    BY <1>1, FS_Interval
  <2> QED
    BY <1>1, <2>1
<1>3. S \subseteq 1 .. n
  BY <1>1
<1>4. Gaps(d) \/ S = 1 .. n
  BY <1>1 DEF Gaps
<1> HIDE DEF S, n
<1>5. Cardinality(S) \in Nat
  BY <1>2, <1>3, FS_Subset, FS_CardinalityType
<1>6. total_items(d) = IF b = -1 THEN -1 ELSE Cardinality(S) + b
  BY DEF total_items, S
<1> HIDE DEF b
<1>7. CASE b = -1
  BY <1>6, <1>7 DEF b
<1>8. CASE b # -1
  <2>1. b \in Nat /\ total_items(d) = Cardinality(S) + b
    BY <1>1, <1>6, <1>8
  <2>2. total_items(d) \in Nat /\ total_items(d) # -1
    BY <1>5, <2>1
  <2>3. ~ Gaps(d) => n <= total_items(d)
    BY <1>1, <1>2, <1>4, <1>5, <2>1
  <2> QED
    BY <1>8, <2>2, <2>3 DEF b, n
<1> QED
  BY <1>7, <1>8

(***************************************************************************)
(* fat16_load_fat_directory leaves the directory in two new blocks, or     *)
(* marks its failure.                                                      *)
(***************************************************************************)
Loaded(h, d, r) ==
    /\ Added(h, r.heap) /\ Quiet(h, r.heap) /\ r.ptr \in Blocks \cup {0}
    /\ Sound(r.heap) => /\ DirFor(r.heap, r.ptr, d)
                        /\ r.ptr \notin h.used /\ r.heap.mem[r.ptr].item \notin h.used
                        /\ r.heap.used \subseteq h.used \cup {r.ptr, r.heap.mem[r.ptr].item}

LEMMA LoadRight ==
    ASSUME TreeOK, NEW h, IsHeap(h), NEW d \in Dirs
    PROVE  Loaded(h, d, fat16_load_fat_directory(h, d))
<1> DEFINE dir   == kzalloc(h)
           total == total_items(d)
           items == IF total = 0 THEN Ret(dir.heap, 0) ELSE kzalloc(dir.heap)
           x     == [is |-> "dir", of |-> d, total |-> total, item |-> items.ptr]
           y     == [is |-> "items", of |-> d]
           made  == Put(items.heap, dir.ptr, x)
           read  == Put(made, items.ptr, y)
           r     == fat16_load_fat_directory(h, d)
<1>1. r = IF dir.ptr = 0 THEN Ret(Failed(dir.heap), 0)
          ELSE IF total = -1 THEN Ret(Hung(dir.heap), 0)
          ELSE IF items.ptr = 0
            THEN Ret(Failed(fat16_free_directory(made, dir.ptr)), dir.ptr)
          ELSE IF total > tree[d].readable
            THEN Ret(Failed(fat16_free_directory(read, dir.ptr)), dir.ptr)
          ELSE Ret(read, dir.ptr)
  BY DEF fat16_load_fat_directory, Failed, Hung
<1> HIDE DEF r
<1>2. /\ IsHeap(dir.heap) /\ dir.heap.fate = h.fate /\ dir.heap.failed = h.failed
      /\ \/ dir.ptr = 0 /\ dir.heap = h
         \/ /\ dir.ptr \in Blocks \ h.used /\ dir.heap.used = h.used \cup {dir.ptr}
            /\ \A b \in Blocks \ {dir.ptr} : dir.heap.mem[b] = h.mem[b]
  BY AllocRight
<1>3. Added(h, dir.heap) /\ dir.ptr \in Blocks \cup {0}
  BY AllocAdded
<1> HIDE DEF dir
<1>4. /\ IsHeap(items.heap) /\ Added(dir.heap, items.heap)
      /\ items.heap.fate = h.fate /\ items.heap.failed = h.failed
      /\ \/ items.ptr = 0
         \/ items.ptr \in Blocks \ dir.heap.used /\ items.heap.used = dir.heap.used \cup {items.ptr}
  <2>1. CASE total = 0
    BY <1>2, <2>1 DEF Ret, Added, Extends, Sound
  <2>2. CASE total # 0
    <3>1. items = kzalloc(dir.heap)
      BY <2>2
    <3> HIDE DEF items
    <3> QED
      BY <1>2, <3>1, AllocRight, AllocAdded
  <2> QED
    BY <2>1, <2>2
<1> HIDE DEF items
<1>5. total = -1 => Endless
  BY TotalIs DEF Endless
<1> HIDE DEF total
<1>6. ASSUME dir.ptr = 0
      PROVE  Loaded(h, d, r)
  <2>1. r.heap = Failed(dir.heap) /\ r.ptr = 0
    BY <1>1, <1>6 DEF Ret
  <2>2. Quiet(h, Failed(dir.heap))
    BY <1>2, MarkRight DEF Quiet
  <2> QED
    BY <1>2, <2>1, <2>2, MarkAdded DEF Loaded
<1>7. ASSUME dir.ptr # 0, total = -1
      PROVE  Loaded(h, d, r)
  <2>1. r.heap = Hung(dir.heap) /\ r.ptr = 0
    BY <1>1, <1>7 DEF Ret
  <2>2. Quiet(h, Hung(dir.heap))
    BY <1>2, <1>7, <1>5, MarkRight DEF Quiet
  <2> QED
    BY <1>2, <2>1, <2>2, MarkAdded DEF Loaded
<1>8. ASSUME dir.ptr # 0, total # -1
      PROVE  Loaded(h, d, r)
  <2>1. Content(x) /\ Content(y)
    BY <1>4 DEF Content
  <2>2. dir.ptr \in Blocks \ h.used /\ Added(h, items.heap)
    BY <1>2, <1>3, <1>4, <1>8, AddedTwice
  <2>3. /\ Added(h, made) /\ IsHeap(made) /\ made.used = items.heap.used /\ made.mem[dir.ptr] = x
        /\ made.fate = h.fate /\ made.failed = h.failed
    <3> HIDE DEF x
    <3> QED
      BY <1>4, <2>1, <2>2, PutAdded, PutRight
  <2> HIDE DEF made, x
  <2>4. CASE items.ptr = 0
    <3> HIDE DEF y, read
    <3> DEFINE k == fat16_free_directory(made, dir.ptr)
    <3>1. r.heap = Failed(k) /\ r.ptr = dir.ptr /\ IsHeap(k) /\ k.failed = h.failed
      BY <1>1, <1>8, <2>3, <2>4, FreeDirectoryFreed DEF Ret, Freed
    <3> HIDE DEF k
    <3>2. Quiet(h, Failed(k))
      BY <3>1, MarkRight DEF Quiet
    <3> QED
      BY <2>2, <3>1, <3>2, MarkAdded DEF Loaded
  <2>5. CASE items.ptr # 0
    <3>1. items.ptr \in Blocks \ h.used /\ items.ptr # dir.ptr /\ items.ptr \in made.used /\ dir.ptr \in made.used
      <4> HIDE DEF y, read
      <4> QED
        BY <1>2, <1>4, <1>8, <2>2, <2>3, <2>5
    <3>2. /\ Added(h, read) /\ IsHeap(read) /\ read.used = made.used
          /\ read.mem[items.ptr] = y /\ read.mem[dir.ptr] = x
          /\ read.fate = h.fate /\ read.failed = h.failed
      <4> HIDE DEF y
      <4> QED
        BY <2>1, <2>2, <2>3, <3>1, PutAdded, PutRight
    <3> HIDE DEF read
    <3>3. CASE total > tree[d].readable
      <4> DEFINE k == fat16_free_directory(read, dir.ptr)
      <4>1. r.heap = Failed(k) /\ r.ptr = dir.ptr /\ IsHeap(k) /\ k.failed = h.failed
        BY <1>1, <1>8, <2>5, <3>2, <3>3, FreeDirectoryFreed DEF Ret, Freed
      <4> HIDE DEF k
      <4>2. Quiet(h, Failed(k))
        BY <4>1, MarkRight DEF Quiet
      <4> QED
        BY <2>2, <4>1, <4>2, MarkAdded DEF Loaded
    <3>4. CASE ~ (total > tree[d].readable)
      <4>1. r.heap = read /\ r.ptr = dir.ptr
        BY <1>1, <1>8, <2>5, <3>4 DEF Ret
      <4>2. DirFor(read, dir.ptr, d) /\ read.mem[dir.ptr].item = items.ptr
        BY <1>8, <3>1, <3>2 DEF DirFor, x, total
      <4>3. read.used \subseteq h.used \cup {dir.ptr, items.ptr}
        BY <1>2, <1>4, <1>8, <2>3, <2>5, <3>2
      <4>4. Quiet(h, read)
        BY <3>2, QuietSame
      <4> QED
        BY <2>2, <3>1, <3>2, <4>1, <4>2, <4>3, <4>4 DEF Loaded
    <3> QED
      BY <3>3, <3>4
  <2> QED
    BY <2>4, <2>5
<1> QED
  BY <1>6, <1>7, <1>8 DEF r

(***************************************************************************)
(* The copy of an entry is in a new block.                                 *)
(***************************************************************************)
LEMMA CloneRight ==
    ASSUME NEW h, IsHeap(h), NEW d, NEW i
    PROVE  LET r == fat16_clone_directory_item(h, d, i) IN
           /\ Added(h, r.heap) /\ Quiet(h, r.heap) /\ r.ptr \in Blocks \cup {0}
           /\ r.heap.used \subseteq h.used \cup ({r.ptr} \ {0})
           /\ r.ptr # 0 => /\ r.ptr \in r.heap.used \ h.used /\ r.heap.mem[r.ptr].is = "entry"
                           /\ r.heap.mem[r.ptr].of = d /\ r.heap.mem[r.ptr].index = i
<1> DEFINE copy == kzalloc(h)
           x    == [is |-> "entry", of |-> d, index |-> i]
           r    == fat16_clone_directory_item(h, d, i)
<1>1. r = IF copy.ptr = 0 THEN copy ELSE Ret(Put(copy.heap, copy.ptr, x), copy.ptr)
  BY DEF fat16_clone_directory_item
<1> HIDE DEF r
<1>2. /\ IsHeap(copy.heap) /\ Added(h, copy.heap) /\ copy.ptr \in Blocks \cup {0}
      /\ copy.ptr # 0 => copy.ptr \in Blocks \ h.used /\ copy.ptr \in copy.heap.used
      /\ copy.heap.used \subseteq h.used \cup ({copy.ptr} \ {0}) /\ Quiet(h, copy.heap)
      /\ copy.heap.fate = h.fate /\ copy.heap.failed = h.failed
  <2>1. /\ copy.ptr # 0 => copy.ptr \in Blocks \ h.used /\ copy.heap.used = h.used \cup {copy.ptr}
        /\ copy.ptr = 0 => copy.heap = h
        /\ copy.heap.fate = h.fate /\ copy.heap.failed = h.failed
    BY ZeroIsNoBlock, AllocRight
  <2>2. IsHeap(copy.heap) /\ Added(h, copy.heap) /\ copy.ptr \in Blocks \cup {0}
    BY AllocAdded, AllocRight
  <2> HIDE DEF copy
  <2>3. copy.heap.used \subseteq h.used \cup ({copy.ptr} \ {0})
    BY <2>1
  <2> QED
    BY <2>1, <2>2, <2>3, QuietSame
<1> HIDE DEF copy
<1>3. CASE copy.ptr = 0
  <2>1. r = copy
    BY <1>1, <1>3
  <2> QED
    BY <1>2, <1>3, <2>1 DEF r
<1>4. ASSUME copy.ptr # 0
      PROVE  /\ Added(h, r.heap) /\ Quiet(h, r.heap) /\ r.ptr \in Blocks
             /\ r.heap.used \subseteq h.used \cup ({r.ptr} \ {0})
             /\ r.ptr \in r.heap.used \ h.used /\ r.heap.mem[r.ptr].is = "entry"
             /\ r.heap.mem[r.ptr].of = d /\ r.heap.mem[r.ptr].index = i
  <2> DEFINE k == Put(copy.heap, copy.ptr, x)
  <2>1. Content(x) /\ x.is = "entry" /\ x.of = d /\ x.index = i
    BY DEF Content
  <2>2. r.heap = k /\ r.ptr = copy.ptr
    BY <1>1, <1>4 DEF Ret
  <2> HIDE DEF x
  <2>3. /\ Added(h, k) /\ k.used = copy.heap.used /\ k.mem[copy.ptr] = x
        /\ k.fate = h.fate /\ k.failed = h.failed
    BY <1>2, <1>4, <2>1, PutAdded, PutRight
  <2> HIDE DEF k
  <2> QED
    BY <1>2, <1>4, <2>1, <2>2, <2>3, QuietSame
<1> QED
  BY <1>3, <1>4 DEF r

(***************************************************************************)
(* A new item for an entry of a directory lies in blocks that were free.   *)
(***************************************************************************)
LEMMA NewItemRight ==
    ASSUME TreeOK, NEW h, IsHeap(h), NEW d \in Dirs, NEW i \in DOMAIN tree[d].items
    PROVE  LET r == fat16_new_fat_item_for_directory_item(h, d, i) IN
           /\ Added(h, r.heap) /\ r.ptr \in Blocks \cup {0}
           /\ Quiet(h, r.heap) /\ (h.fate = "fine" /\ ~ (Blocks \subseteq h.used) => r.ptr # 0)
           /\ r.ptr # 0 => r.heap.mem[r.ptr].is = "fat_item"
           /\ Sound(r.heap) /\ r.ptr # 0 =>
                 /\ ItemFor(r.heap, r.ptr, d, i) /\ ItemBlocks(r.heap, r.ptr) \cap h.used = {}
                 /\ r.heap.used \subseteq h.used \cup ItemBlocks(r.heap, r.ptr)
<1> DEFINE e == tree[d].items[i]
           f == kzalloc(h)
           x == IF e.kind = "directory" THEN fat16_load_fat_directory(f.heap, e.dir)
                ELSE fat16_clone_directory_item(f.heap, d, i)
           z == [is |-> "fat_item", ptr |-> x.ptr,
                 type |-> IF e.kind = "directory" THEN "DIRECTORY" ELSE "FILE"]
           r == fat16_new_fat_item_for_directory_item(h, d, i)
<1>1. r = IF h.fate # "fine" \/ f.ptr = 0 THEN Ret(f.heap, 0) ELSE Ret(Put(x.heap, f.ptr, z), f.ptr)
  BY DEF fat16_new_fat_item_for_directory_item
<1>2. e.kind = "directory" => e.dir \in Dirs
  <2>1. Directory(tree[d])
    BY DEF TreeOK
  <2>2. e.dir \in Dirs \cup {None} /\ (e.kind = "directory" => e.dir # None)
    BY <2>1 DEF Directory, Holds
  <2> QED
    BY <2>2
<1>3. /\ IsHeap(f.heap) /\ Added(h, f.heap) /\ f.ptr \in Blocks \cup {0}
      /\ f.ptr # 0 => f.ptr \in Blocks \ h.used /\ f.ptr \in f.heap.used
      /\ h.used \subseteq f.heap.used /\ f.heap.used \subseteq h.used \cup {f.ptr}
      /\ Quiet(h, f.heap) /\ (f.ptr = 0 => Blocks \subseteq h.used)
  <2>1. /\ \/ f.ptr = 0 /\ f.heap = h /\ Blocks \subseteq h.used
           \/ f.ptr \in Blocks \ h.used /\ f.heap.used = h.used \cup {f.ptr}
        /\ f.heap.fate = h.fate /\ f.heap.failed = h.failed
    BY AllocRight
  <2>2. IsHeap(f.heap) /\ Added(h, f.heap) /\ f.ptr \in Blocks \cup {0}
    BY AllocAdded, AllocRight
  <2> HIDE DEF f
  <2> QED
    BY <2>1, <2>2, ZeroIsNoBlock, QuietSame
<1> HIDE DEF r, f
<1>4. CASE h.fate # "fine" \/ f.ptr = 0
  <2>1. r.heap = f.heap /\ r.ptr = 0
    BY <1>1, <1>4 DEF Ret
  <2> QED
    BY <1>3, <1>4, <2>1 DEF r
<1>5. ASSUME h.fate = "fine", f.ptr # 0
      PROVE  /\ Added(h, r.heap) /\ r.ptr \in Blocks
             /\ Quiet(h, r.heap) /\ r.heap.mem[r.ptr].is = "fat_item"
             /\ Sound(r.heap) =>
                   /\ ItemFor(r.heap, r.ptr, d, i) /\ ItemBlocks(r.heap, r.ptr) \cap h.used = {}
                   /\ r.heap.used \subseteq h.used \cup ItemBlocks(r.heap, r.ptr)
  <2>1. r.heap = Put(x.heap, f.ptr, z) /\ r.ptr = f.ptr
    BY <1>1, <1>5 DEF Ret
  <2>2. /\ Added(f.heap, x.heap) /\ Quiet(f.heap, x.heap) /\ x.ptr \in Blocks \cup {0}
        /\ e.kind = "directory" /\ Sound(x.heap) =>
              /\ DirFor(x.heap, x.ptr, e.dir)
              /\ x.heap.used \subseteq f.heap.used \cup {x.ptr, x.heap.mem[x.ptr].item}
              /\ x.ptr \notin f.heap.used /\ x.heap.mem[x.ptr].item \notin f.heap.used
        /\ e.kind # "directory" => x.heap.used \subseteq f.heap.used \cup ({x.ptr} \ {0})
        /\ e.kind # "directory" /\ x.ptr # 0 =>
              /\ x.ptr \in x.heap.used \ f.heap.used /\ x.heap.mem[x.ptr].is = "entry"
              /\ x.heap.mem[x.ptr].of = d /\ x.heap.mem[x.ptr].index = i
    <3>1. CASE e.kind = "directory"
      <4>1. x = fat16_load_fat_directory(f.heap, e.dir)
        BY <3>1
      <4> HIDE DEF x, e
      <4> QED
        BY <1>2, <1>3, <3>1, <4>1, LoadRight DEF Loaded
    <3>2. CASE e.kind # "directory"
      <4>1. x = fat16_clone_directory_item(f.heap, d, i)
        BY <3>2
      <4> HIDE DEF x, e
      <4> QED
        BY <1>3, <3>2, <4>1, CloneRight
    <3> QED
      BY <3>1, <3>2
  <2> HIDE DEF x
  <2>3. /\ Content(z) /\ z.is = "fat_item" /\ z.ptr = x.ptr
        /\ e.kind = "directory" => z.type = "DIRECTORY"
        /\ e.kind # "directory" => z.type = "FILE"
    BY <2>2 DEF Content
  <2> DEFINE k == Put(x.heap, f.ptr, z)
  <2> HIDE DEF z
  <2>4. Added(h, x.heap) /\ IsHeap(x.heap)
    BY <1>3, <2>2, AddedTwice DEF Added
  <2>5. /\ IsHeap(k) /\ k.fate = x.heap.fate /\ k.failed = x.heap.failed /\ k.used = x.heap.used
        /\ \A b \in Blocks : k.mem[b] = IF b = f.ptr THEN z ELSE x.heap.mem[b]
        /\ Added(h, k)
    BY <1>3, <1>5, <2>3, <2>4, PutAdded, PutRight
  <2> HIDE DEF k
  <2>6. ASSUME Sound(k)
        PROVE  /\ ItemFor(k, f.ptr, d, i) /\ ItemBlocks(k, f.ptr) \cap h.used = {}
               /\ k.used \subseteq h.used \cup ItemBlocks(k, f.ptr)
    <3>1. Sound(x.heap) /\ f.ptr \in x.heap.used /\ f.heap.used \subseteq x.heap.used
      BY <1>3, <1>5, <2>2, <2>5, <2>6 DEF Sound, Added, Extends
    <3>2. k.mem[f.ptr] = z /\ f.ptr \in k.used /\ f.ptr \in Blocks
      BY <1>3, <1>5, <2>5, <3>1
    <3>3. CASE e.kind = "directory"
      <4> DEFINE q == x.heap.mem[x.ptr].item
      <4>1. /\ DirFor(x.heap, x.ptr, e.dir) /\ x.ptr \notin f.heap.used /\ q \notin f.heap.used
            /\ x.ptr \in x.heap.used /\ q \in x.heap.used
        BY <2>2, <3>1, <3>3 DEF DirFor
      <4>2. /\ x.ptr \in Blocks /\ q \in Blocks /\ x.ptr # f.ptr /\ q # f.ptr
            /\ k.mem[x.ptr] = x.heap.mem[x.ptr] /\ k.mem[q] = x.heap.mem[q]
        BY <1>3, <1>5, <2>4, <2>5, <4>1 DEF IsHeap
      <4>3. DirFor(k, x.ptr, e.dir)
        BY <2>5, <4>1, <4>2 DEF DirFor
      <4>4. FolderFor(k, f.ptr, d, i)
        BY <2>3, <3>2, <3>3, <4>2, <4>3 DEF FolderFor
      <4>5. ItemBlocks(k, f.ptr) = {f.ptr, x.ptr, q}
        <5>1. /\ k.mem[f.ptr].ptr = x.ptr /\ k.mem[x.ptr].item = q /\ x.ptr # 0
              /\ k.mem[f.ptr].type = "DIRECTORY"
          BY <2>3, <3>2, <3>3, <4>2, ZeroIsNoBlock
        <5> HIDE DEF q
        <5> QED
          BY <5>1 DEF ItemBlocks
      <4>6. k.used \subseteq h.used \cup {f.ptr, x.ptr, q}
        BY <1>3, <2>2, <2>5, <3>1, <3>3
      <4> QED
        BY <1>3, <1>5, <2>3, <3>2, <4>1, <4>4, <4>5, <4>6 DEF ItemFor
    <3>4. CASE e.kind # "directory"
      <4>1. FileFor(k, f.ptr, d, i)
        BY <1>3, <1>5, <2>2, <2>3, <2>5, <3>1, <3>2, <3>4 DEF FileFor
      <4>2. ItemBlocks(k, f.ptr) = {f.ptr} \cup ({x.ptr} \ {0})
        BY <2>3, <3>2, <3>4 DEF ItemBlocks
      <4>3. k.used \subseteq h.used \cup ItemBlocks(k, f.ptr)
        BY <1>3, <2>2, <2>5, <3>4, <4>2
      <4> QED
        BY <1>3, <1>5, <2>2, <2>3, <3>2, <3>4, <4>1, <4>2, <4>3 DEF ItemFor
    <3> QED
      BY <3>3, <3>4
  <2>7. r.heap = k
    BY <2>1 DEF k
  <2>8. Quiet(h, k)
    BY <1>3, <2>2, <2>5, QuietSame, QuietTwice
  <2> QED
    BY <1>3, <1>5, <2>1, <2>3, <2>5, <2>6, <2>7, <2>8
<1> QED
  BY <1>4, <1>5, ZeroIsNoBlock DEF r

-----------------------------------------------------------------------------
(***************************************************************************)
(* One step of the search, and the search over the first n entries.        *)
(***************************************************************************)
SearchStep(d, total, name, r, i) ==
    IF i \in Matches(d, total, name) THEN fat16_new_fat_item_for_directory_item(r.heap, d, i) ELSE r

SearchRun(h, d, total, name, n, s) ==
    s = [i \in 0 .. n |-> IF i = 0 THEN Ret(h, 0) ELSE SearchStep(d, total, name, s[i - 1], i)]

LEMMA SearchExists == ASSUME NEW h, NEW d, NEW total, NEW name, NEW n \in Nat
                      PROVE  \E s : SearchRun(h, d, total, name, n, s)
<1> DEFINE S == {k \in Nat : \E s : SearchRun(h, d, total, name, k, s)}
<1>1. 0 \in S
  <2>1. SearchRun(h, d, total, name, 0, [i \in 0 .. 0 |-> Ret(h, 0)])
    BY DEF SearchRun
  <2> QED
    BY <2>1
<1>2. ASSUME NEW k \in S PROVE k + 1 \in S
  <2>0. k \in Nat
    OBVIOUS
  <2>1. PICK s : SearchRun(h, d, total, name, k, s)
    OBVIOUS
  <2> DEFINE t == [i \in 0 .. k + 1 |->
                     IF i = 0 THEN Ret(h, 0) ELSE SearchStep(d, total, name, s[i - 1], i)]
  <2>2. \A i \in 0 .. k : i \in 0 .. k + 1 /\ t[i] = s[i]
    <3>1. \A i \in 0 .. k : i \in 0 .. k + 1
      BY <2>0
    <3>2. \A i \in 0 .. k : s[i] = IF i = 0 THEN Ret(h, 0) ELSE SearchStep(d, total, name, s[i - 1], i)
      <4> HIDE DEF t, S
      <4> QED
        BY <2>1, Zenon DEF SearchRun
    <3> QED
      BY <3>1, <3>2
  <2>3. k + 1 \in Nat /\ \A i \in 0 .. k + 1 : i # 0 => i - 1 \in 0 .. k
    BY <2>0
  <2>4. SearchRun(h, d, total, name, k + 1, t)
    BY <2>2, <2>3 DEF SearchRun
  <2> HIDE DEF t
  <2> QED
    BY <2>3, <2>4
<1>3. S = Nat
  <2> HIDE DEF S
  <2>1. S \subseteq Nat
    BY DEF S
  <2> QED
    BY <1>1, <1>2, <2>1, SetInduction
<1> QED
  BY <1>3

(***************************************************************************)
(* What the search over the first entries has found: nothing, or an item   *)
(* for a match in blocks that were free when it began.                     *)
(***************************************************************************)
Found(h, d, total, name, r) ==
    /\ Added(h, r.heap) /\ Quiet(h, r.heap) /\ r.ptr \in Blocks \cup {0}
    /\ r.ptr # 0 => r.heap.mem[r.ptr].is = "fat_item"
    /\ Sound(r.heap) /\ r.ptr # 0 =>
          \E i \in Matches(d, total, name) :
              ItemFor(r.heap, r.ptr, d, i) /\ ItemBlocks(r.heap, r.ptr) \cap h.used = {}

LEMMA SearchStepRight ==
    ASSUME TreeOK, NEW h, IsHeap(h), NEW d \in Dirs, NEW total, NEW name, NEW r, NEW i,
           Found(h, d, total, name, r)
    PROVE  Found(h, d, total, name, SearchStep(d, total, name, r, i))
<1>1. CASE i \notin Matches(d, total, name)
  BY <1>1 DEF SearchStep
<1>2. CASE i \in Matches(d, total, name)
  <2> DEFINE g == r.heap
             n == fat16_new_fat_item_for_directory_item(g, d, i)
  <2>1. SearchStep(d, total, name, r, i) = n
    BY <1>2 DEF SearchStep
  <2>2. i \in DOMAIN tree[d].items
    <3>1. DOMAIN tree[d].items = 1 .. Len(tree[d].items) /\ Len(tree[d].items) \in Nat
      BY DEF TreeOK, Directory
    <3>2. i \in 1 .. total /\ i <= Len(tree[d].items)
      BY <1>2 DEF Matches
    <3>3. i \in Int /\ 1 <= i
      BY <3>2
    <3> QED
      BY <3>1, <3>2, <3>3
  <2>3. IsHeap(g) /\ Added(h, g) /\ Quiet(h, g)
    BY DEF Found, Added
  <2>4. /\ Added(g, n.heap) /\ Quiet(g, n.heap) /\ n.ptr \in Blocks \cup {0}
        /\ n.ptr # 0 => n.heap.mem[n.ptr].is = "fat_item"
        /\ Sound(n.heap) /\ n.ptr # 0 =>
              ItemFor(n.heap, n.ptr, d, i) /\ ItemBlocks(n.heap, n.ptr) \cap g.used = {}
    <3> HIDE DEF g
    <3> QED
      BY <2>2, <2>3, NewItemRight
  <2> HIDE DEF n, g
  <2>5. Added(h, n.heap) /\ Quiet(h, n.heap)
    BY <2>3, <2>4, AddedTwice, QuietTwice
  <2>6. Sound(n.heap) => h.used \subseteq g.used
    BY <2>3, <2>4 DEF Added, Extends
  <2>7. Sound(n.heap) /\ n.ptr # 0 =>
          ItemFor(n.heap, n.ptr, d, i) /\ ItemBlocks(n.heap, n.ptr) \cap h.used = {}
    BY <2>4, <2>6
  <2>8. Found(h, d, total, name, n)
    BY <1>2, <2>4, <2>5, <2>7, Zenon DEF Found
  <2> QED
    BY <2>1, <2>8
<1> QED
  BY <1>1, <1>2

LEMMA SearchSteps ==
    ASSUME TreeOK, NEW h, NEW d \in Dirs, NEW total, NEW name
    PROVE  \E s : /\ Search(h, d, total, name) = s[Len(tree[d].items)] /\ s[0] = Ret(h, 0)
                  /\ \A i \in 1 .. Len(tree[d].items) : s[i] = SearchStep(d, total, name, s[i - 1], i)
<1> DEFINE n == Len(tree[d].items)
           s == CHOOSE s : SearchRun(h, d, total, name, n, s)
<1>1. n \in Nat
  BY DEF TreeOK, Directory
<1>2. Search(h, d, total, name) = s[n]
  BY Zenon DEF Search, SearchRun, SearchStep
<1>3. SearchRun(h, d, total, name, n, s)
  <2> HIDE DEF n
  <2> QED
    BY <1>1, SearchExists
<1> HIDE DEF n, s
<1>4. \A i \in 0 .. n : s[i] = IF i = 0 THEN Ret(h, 0) ELSE SearchStep(d, total, name, s[i - 1], i)
  BY <1>3, Zenon DEF SearchRun
<1>5. 0 \in 0 .. n /\ \A i \in 1 .. n : i \in 0 .. n /\ i # 0
  BY <1>1
<1>6. s[0] = Ret(h, 0) /\ \A i \in 1 .. n : s[i] = SearchStep(d, total, name, s[i - 1], i)
  BY <1>4, <1>5
<1> QED
  BY <1>2, <1>6 DEF n

LEMMA SearchRight ==
    ASSUME TreeOK, NEW h, IsHeap(h), NEW d \in Dirs, NEW total, NEW name
    PROVE  Found(h, d, total, name, Search(h, d, total, name))
<1> DEFINE n == Len(tree[d].items)
<1>1. n \in Nat
  BY DEF TreeOK, Directory
<1>0. TreeOK /\ d \in Dirs
  OBVIOUS
<1>2. PICK s : /\ Search(h, d, total, name) = s[n] /\ s[0] = Ret(h, 0)
               /\ \A j \in 1 .. n : s[j] = SearchStep(d, total, name, s[j - 1], j)
  <2>1. \E s : /\ Search(h, d, total, name) = s[Len(tree[d].items)] /\ s[0] = Ret(h, 0)
               /\ \A j \in 1 .. Len(tree[d].items) : s[j] = SearchStep(d, total, name, s[j - 1], j)
    BY ONLY <1>0, SearchSteps
  <2> QED
    BY <2>1
<1> HIDE DEF n
<1> DEFINE S == {k \in Nat : k <= n => Found(h, d, total, name, s[k])}
<1>5. 0 \in S
  <2>1. s[0] = Ret(h, 0)
    BY <1>2
  <2>2. s[0].heap = h /\ s[0].ptr = 0
    BY <2>1 DEF Ret
  <2>3. Added(h, h) /\ Quiet(h, h)
    BY QuietSame DEF Added, Extends
  <2>4. Found(h, d, total, name, s[0])
    BY <2>2, <2>3 DEF Found
  <2> QED
    BY <2>4
<1>6. ASSUME NEW k \in S PROVE k + 1 \in S
  <2>0. k \in Nat
    OBVIOUS
  <2>1. CASE k + 1 <= n
    <3>1. k + 1 \in 1 .. n /\ (k + 1) - 1 = k /\ k <= n
      BY <1>1, <2>0, <2>1
    <3>2. s[k + 1] = SearchStep(d, total, name, s[k], k + 1)
      BY <1>2, <3>1
    <3>3. Found(h, d, total, name, s[k])
      BY <3>1
    <3>4. Found(h, d, total, name, s[k + 1])
      BY <3>2, <3>3, SearchStepRight
    <3> QED
      BY <2>0, <3>4
  <2>2. CASE ~ (k + 1 <= n)
    BY <2>0, <2>2
  <2> QED
    BY <2>1, <2>2
<1>7. S = Nat
  <2> HIDE DEF S
  <2>1. S \subseteq Nat
    BY DEF S
  <2> QED
    BY <1>5, <1>6, <2>1, SetInduction
<1>8. Found(h, d, total, name, s[n])
  BY <1>1, <1>7
<1> QED
  BY <1>2, <1>8

(***************************************************************************)
(* A search that meets one match returns the item made for it, and one     *)
(* without a match leaves the heap alone.                                  *)
(***************************************************************************)
LEMMA SearchOne ==
    ASSUME TreeOK, NEW h, NEW d \in Dirs, NEW total, NEW name, NEW i,
           Matches(d, total, name) \subseteq {i}
    PROVE  Search(h, d, total, name) =
              IF i \in Matches(d, total, name) THEN fat16_new_fat_item_for_directory_item(h, d, i)
              ELSE Ret(h, 0)
<1> DEFINE n == Len(tree[d].items)
           M == Matches(d, total, name)
           new == fat16_new_fat_item_for_directory_item(h, d, i)
<1>1. n \in Nat
  BY DEF TreeOK, Directory
<1>2. PICK s : /\ Search(h, d, total, name) = s[n] /\ s[0] = Ret(h, 0)
               /\ \A j \in 1 .. n : s[j] = SearchStep(d, total, name, s[j - 1], j)
  BY SearchSteps
<1>3. i \in M => i \in 1 .. n
  <2> SUFFICES ASSUME i \in M PROVE i \in 1 .. n
    OBVIOUS
  <2>1. i \in 1 .. total /\ i <= n
    BY DEF Matches
  <2>2. i \in Int /\ 1 <= i
    BY <2>1
  <2> QED
    BY <1>1, <2>1, <2>2
<1>4. Ret(h, 0).heap = h
  BY DEF Ret
<1>5. \A j \in 1 .. n : s[j] = IF j \in M THEN fat16_new_fat_item_for_directory_item(s[j - 1].heap, d, j)
                               ELSE s[j - 1]
  BY <1>2 DEF SearchStep
<1> HIDE DEF n, M, new
<1> DEFINE S == {k \in Nat : k <= n => s[k] = IF i \in M /\ i <= k THEN new ELSE Ret(h, 0)}
<1>6. 0 \in S
  <2>1. ~ (i \in M /\ i <= 0)
    BY <1>1, <1>3
  <2> QED
    BY <1>2, <2>1
<1>7. ASSUME NEW k \in S PROVE k + 1 \in S
  <2>0. k \in Nat
    OBVIOUS
  <2>1. ASSUME k + 1 <= n
        PROVE  s[k + 1] = IF i \in M /\ i <= k + 1 THEN new ELSE Ret(h, 0)
    <3>1. k + 1 \in 1 .. n /\ (k + 1) - 1 = k /\ k <= n
      BY <1>1, <2>0, <2>1
    <3>2. s[k] = IF i \in M /\ i <= k THEN new ELSE Ret(h, 0)
      BY <3>1
    <3>3. s[k + 1] = IF k + 1 \in M THEN fat16_new_fat_item_for_directory_item(s[k].heap, d, k + 1) ELSE s[k]
      BY <1>5, <3>1
    <3> HIDE DEF S
    <3>4. CASE k + 1 \in M
      <4>1. k + 1 = i /\ ~ (i <= k)
        BY <2>0, <3>4 DEF M
      <4>2. s[k].heap = h
        BY <1>4, <3>2, <4>1
      <4>3. s[k + 1] = new /\ i \in M /\ i <= k + 1
        BY <2>0, <3>3, <3>4, <4>1, <4>2 DEF new
      <4> QED
        BY <4>3
    <3>5. CASE k + 1 \notin M
      <4>1. i \in M => i \in Int /\ i # k + 1
        BY <1>3, <3>5
      <4>2. (i \in M /\ i <= k) <=> (i \in M /\ i <= k + 1)
        BY <2>0, <4>1
      <4> QED
        BY <3>2, <3>3, <3>5, <4>2
    <3> QED
      BY <3>4, <3>5
  <2> QED
    BY <2>0, <2>1
<1>8. S = Nat
  <2> HIDE DEF S
  <2>1. S \subseteq Nat
    BY DEF S
  <2> QED
    BY <1>6, <1>7, <2>1, SetInduction
<1>9. s[n] = IF i \in M /\ i <= n THEN new ELSE Ret(h, 0)
  BY <1>1, <1>8
<1>10. i \in M => i <= n
  BY <1>1, <1>3
<1> QED
  BY <1>2, <1>9, <1>10 DEF M, new

-----------------------------------------------------------------------------
(***************************************************************************)
(* What a search in a directory in memory returns is typed, whatever the   *)
(* directory's block contains; and is what Search finds on the disk when   *)
(* the directory is there.                                                 *)
(***************************************************************************)
Typed(h, r) == /\ Added(h, r.heap) /\ r.ptr \in Blocks \cup {0}
               /\ r.ptr # 0 => r.heap.mem[r.ptr].is = "fat_item"

LEMMA NothingTyped == ASSUME NEW h, IsHeap(h)
                      PROVE  Typed(h, Ret(h, 0)) /\ Typed(h, Ret(Wild(h), 0))
<1>1. Added(h, h)
  BY DEF Added, Extends
<1>2. Added(h, Wild(h))
  BY WildRight DEF Added, Sound
<1> QED
  BY <1>1, <1>2 DEF Typed, Ret

LEMMA FindTyped ==
    ASSUME TreeOK, NEW h, IsHeap(h), NEW p \in Blocks \cup {0}, NEW name
    PROVE  Typed(h, fat16_find_item_in_directory(h, p, name))
<1> DEFINE x == h.mem[p]
           r == fat16_find_item_in_directory(h, p, name)
<1>1. Typed(h, Ret(h, 0)) /\ Typed(h, Ret(Wild(h), 0))
  BY NothingTyped
<1>2. ASSUME p # 0, x.is = "dir", x.item # 0, h.mem[x.item].is = "items"
      PROVE  Typed(h, Search(h, h.mem[x.item].of, x.total, name))
  <2>1. x.item \in Blocks
    BY <1>2 DEF IsHeap, Content
  <2>2. h.mem[x.item].of \in Dirs
    BY <1>2, <2>1 DEF IsHeap, Content
  <2>3. Found(h, h.mem[x.item].of, x.total, name, Search(h, h.mem[x.item].of, x.total, name))
    <3> HIDE DEF x
    <3> QED
      BY <2>2, SearchRight
  <2> QED
    BY <2>3 DEF Found, Typed
<1>3. \/ r = Ret(h, 0) \/ r = Ret(Wild(h), 0)
      \/ /\ p # 0 /\ x.is = "dir" /\ x.item # 0 /\ h.mem[x.item].is = "items"
         /\ r = Search(h, h.mem[x.item].of, x.total, name)
  BY Zenon DEF fat16_find_item_in_directory
<1> QED
  BY <1>1, <1>2, <1>3

LEMMA FindRight ==
    ASSUME NEW h, IsHeap(h), NEW p, NEW d, DirFor(h, p, d), NEW name
    PROVE  fat16_find_item_in_directory(h, p, name) = Search(h, d, total_items(d), name)
<1>1. /\ p # 0 /\ p \in h.used /\ h.mem[p].is = "dir" /\ h.mem[p].item # 0
      /\ h.mem[h.mem[p].item].is = "items" /\ h.mem[h.mem[p].item].of = d /\ h.mem[p].total = total_items(d)
  BY ZeroIsNoBlock DEF DirFor, IsHeap
<1>2. fat16_find_item_in_directory(h, p, name)
        = Search(h, h.mem[h.mem[p].item].of, h.mem[p].total, name)
  BY <1>1 DEF fat16_find_item_in_directory
<1> QED
  BY <1>1, <1>2

(***************************************************************************)
(* Descending into a directory frees its item and leaves one for a match   *)
(* in it, apart from all that was in use when the lookup began.            *)
(***************************************************************************)
LEMMA DescendRight ==
    ASSUME TreeOK, NEW b, NEW r, IsHeap(r.heap), Added(b, r.heap), r.ptr \in Blocks,
           r.heap.mem[r.ptr].is = "fat_item", r.heap.mem[r.ptr].type = "DIRECTORY", NEW name,
           NEW d, NEW i,
           Sound(r.heap) => ItemFor(r.heap, r.ptr, d, i) /\ ItemBlocks(r.heap, r.ptr) \cap b.used = {}
    PROVE  LET n == Descend(r, name)
               e == tree[d].items[i].dir IN
           /\ Typed(b, n)
           /\ Sound(n.heap) /\ n.ptr # 0 =>
                 /\ tree[d].items[i].kind = "directory" /\ Sound(r.heap)
                 /\ \E j \in Matches(e, total_items(e), name) :
                        ItemFor(n.heap, n.ptr, e, j) /\ ItemBlocks(n.heap, n.ptr) \cap b.used = {}
<1> DEFINE h == r.heap
           f == r.ptr
           p == h.mem[f].ptr
           e == tree[d].items[i].dir
           tmp == fat16_find_item_in_directory(h, p, name)
           g == fat16_fat_item_free(tmp.heap, f)
           n == Descend(r, name)
<1>1. n = IF tmp.heap.fate # "fine" THEN tmp ELSE Ret(g, tmp.ptr)
  BY DEF Descend, Replace
<1>2. p \in Blocks \cup {0}
  BY DEF IsHeap, Content
<1>3. Typed(h, tmp) /\ IsHeap(tmp.heap)
  <2> HIDE DEF h, p
  <2>1. Typed(h, tmp)
    BY <1>2, FindTyped DEF h
  <2> QED
    BY <2>1 DEF Typed, Added
<1>4. Sound(h) => /\ tree[d].items[i].kind = "directory" /\ DirFor(h, p, e) /\ e \in Dirs
  <2>1. ASSUME Sound(h) PROVE FolderFor(h, f, d, i) /\ d \in Dirs /\ i \in DOMAIN tree[d].items
    BY <2>1 DEF ItemFor, FileFor
  <2>2. ASSUME Sound(h) PROVE e \in Dirs
    <3>1. Directory(tree[d]) /\ i \in DOMAIN tree[d].items /\ tree[d].items[i].kind = "directory"
      BY <2>1, <2>2 DEF TreeOK, FolderFor
    <3> QED
      BY <3>1 DEF Directory, Holds
  <2> QED
    BY <2>1, <2>2 DEF FolderFor
<1>5. Sound(h) => Found(h, e, total_items(e), name, tmp)
  <2> SUFFICES ASSUME Sound(h) PROVE Found(h, e, total_items(e), name, tmp)
    OBVIOUS
  <2>1. tmp = Search(h, e, total_items(e), name)
    <3> HIDE DEF p, e, h
    <3> QED
      BY <1>4, FindRight DEF h
  <2> HIDE DEF e, tmp
  <2> QED
    BY <1>4, <2>1, SearchRight
<1>6. Freed(tmp.heap, g)
  BY <1>3, FreeItemFreed
<1>7. Sound(h) => ItemFor(h, f, d, i) /\ ItemBlocks(h, f) \cap b.used = {}
  OBVIOUS
<1>8. Added(b, h) /\ IsHeap(h)
  OBVIOUS
<1> HIDE DEF h, f, p, tmp, e, n
<1>9. CASE tmp.heap.fate # "fine"
  <2>1. n = tmp /\ ~ Sound(tmp.heap)
    BY <1>1, <1>9 DEF Sound
  <2>2. Typed(b, tmp)
    BY <1>3, <1>8, AddedTwice DEF Typed
  <2> QED
    BY <2>1, <2>2 DEF n
<1>10. ASSUME tmp.heap.fate = "fine"
       PROVE  /\ Typed(b, n)
              /\ Sound(n.heap) /\ n.ptr # 0 =>
                    /\ tree[d].items[i].kind = "directory" /\ Sound(h)
                    /\ \E j \in Matches(e, total_items(e), name) :
                           ItemFor(n.heap, n.ptr, e, j) /\ ItemBlocks(n.heap, n.ptr) \cap b.used = {}
  <2>1. n.heap = g /\ n.ptr = tmp.ptr
    BY <1>1, <1>10 DEF Ret
  <2>2. IsHeap(g) /\ g.mem = tmp.heap.mem /\ (Sound(g) => Sound(tmp.heap))
    BY <1>6, <1>10 DEF Freed, Sound
  <2>3. ASSUME Sound(g)
        PROVE  /\ Sound(tmp.heap) /\ Sound(h) /\ Extends(h, tmp.heap) /\ Sound(b) /\ Extends(b, h)
               /\ ItemBlocks(h, f) \subseteq h.used /\ g.used = tmp.heap.used \ ItemBlocks(h, f)
    <3>1. Sound(tmp.heap) /\ Sound(h) /\ Extends(h, tmp.heap) /\ Sound(b) /\ Extends(b, h)
      BY <1>3, <1>8, <2>2, <2>3 DEF Typed, Added
    <3>2. ItemFor(h, f, d, i) /\ ItemBlocks(h, f) \subseteq h.used
      BY <1>7, <1>8, <3>1, ItemBlocksUsed
    <3>3. ItemFor(tmp.heap, f, d, i) /\ ItemBlocks(tmp.heap, f) = ItemBlocks(h, f)
      BY <1>3, <1>8, <3>1, <3>2, ItemKept DEF Extends
    <3>4. g.used = tmp.heap.used \ ItemBlocks(tmp.heap, f)
      BY <1>3, <3>3, FreeItemExact
    <3> QED
      BY <3>1, <3>2, <3>3, <3>4
  <2> HIDE DEF g
  <2>4. Added(b, g)
    <3>1. ASSUME Sound(g) PROVE Extends(b, g)
      BY <1>7, <2>2, <2>3, <3>1 DEF Extends
    <3>2. b.failed => g.failed
      BY <1>3, <1>6, <1>8 DEF Typed, Added, Freed
    <3> QED
      BY <2>2, <2>3, <3>1, <3>2 DEF Added
  <2>5. Typed(b, n)
    BY <1>3, <2>1, <2>2, <2>4 DEF Typed
  <2>6. ASSUME Sound(g), tmp.ptr # 0
        PROVE  \E j \in Matches(e, total_items(e), name) :
                   ItemFor(g, tmp.ptr, e, j) /\ ItemBlocks(g, tmp.ptr) \cap b.used = {}
    <3>1. Sound(tmp.heap) /\ Found(h, e, total_items(e), name, tmp)
      BY <1>5, <2>3, <2>6
    <3>2. PICK j \in Matches(e, total_items(e), name) :
              ItemFor(tmp.heap, tmp.ptr, e, j) /\ ItemBlocks(tmp.heap, tmp.ptr) \cap h.used = {}
      BY <2>6, <3>1, Zenon DEF Found
    <3>3. ItemBlocks(tmp.heap, tmp.ptr) \subseteq tmp.heap.used
      BY <1>3, <3>2, ItemBlocksUsed
    <3>4. ItemBlocks(tmp.heap, tmp.ptr) \subseteq g.used
      BY <2>3, <2>6, <3>2, <3>3
    <3>5. ItemFor(g, tmp.ptr, e, j) /\ ItemBlocks(g, tmp.ptr) = ItemBlocks(tmp.heap, tmp.ptr)
      BY <1>3, <2>2, <3>2, <3>4, ItemKept
    <3> QED
      BY <2>3, <2>6, <3>2, <3>5 DEF Extends
  <2> QED
    BY <1>4, <2>1, <2>3, <2>5, <2>6
<1> QED
  BY <1>9, <1>10 DEF n, e, h

-----------------------------------------------------------------------------
(***************************************************************************)
(* The names.  Up to where a field reaches without the spaces at its end.  *)
(***************************************************************************)
Reaches(field, n) == /\ n \in 0 .. Len(field)
                     /\ n = 0 \/ field[n] # Space
                     /\ \A k \in n + 1 .. Len(field) : field[k] = Space

LEMMA TrimRight ==
    ASSUME NEW field \in Seq(STRING)
    PROVE  \E n : Reaches(field, n) /\ Trimmed(field) = SubSeq(field, 1, n)
<1> DEFINE S == {n \in 0 .. Len(field) : \A k \in n + 1 .. Len(field) : field[k] = Space}
           len == CHOOSE n \in 0 .. Len(field) : /\ n = 0 \/ field[n] # Space
                                                 /\ \A k \in n + 1 .. Len(field) : field[k] = Space
<1>1. Len(field) \in Nat /\ Len(field) \in S /\ S \subseteq Nat
  OBVIOUS
<1>2. PICK n \in S : \A m \in S : n <= m
  <2> HIDE DEF S
  <2> QED
    BY <1>1, Least
<1>3. n = 0 \/ field[n] # Space
  <2> SUFFICES ASSUME n # 0, field[n] = Space PROVE FALSE
    OBVIOUS
  <2>1. n - 1 \in 0 .. Len(field) /\ ~ (n <= n - 1)
    BY <1>2
  <2>2. \A k \in (n - 1) + 1 .. Len(field) : field[k] = Space
    BY <1>2
  <2> QED
    BY <1>2, <2>1, <2>2
<1>4. Reaches(field, n)
  BY <1>2, <1>3 DEF Reaches
<1>5. Reaches(field, len)
  <2>1. \E m \in 0 .. Len(field) : /\ m = 0 \/ field[m] # Space
                                   /\ \A k \in m + 1 .. Len(field) : field[k] = Space
    BY <1>4 DEF Reaches
  <2> QED
    BY <2>1, Zenon DEF Reaches
<1>6. Trimmed(field) = SubSeq(field, 1, len)
  BY DEF Trimmed
<1> HIDE DEF len
<1> QED
  BY <1>5, <1>6

(***************************************************************************)
(* What is copied from a byte on, when it is known where it ends.          *)
(***************************************************************************)
LEMMA PaddedRight ==
    ASSUME NEW e, NEW bytes, bytes = Bytes(e), NEW from \in Nat, NEW n \in Nat, from + n <= Len(bytes),
           Len(bytes) \in Nat,
           Ends(bytes[from + n]), \A j \in from .. from + n - 1 : ~ Ends(bytes[j])
    PROVE  remove_padded_spaces(e, from) = SubSeq(bytes, from, from + n - 1)
<1> DEFINE stop == CHOOSE k \in from .. Len(bytes) :
                      Ends(bytes[k]) /\ \A j \in from .. k - 1 : ~ Ends(bytes[j])
<1>1. remove_padded_spaces(e, from) = SubSeq(bytes, from, stop - 1)
  BY DEF remove_padded_spaces
<1>2. from + n \in from .. Len(bytes)
  OBVIOUS
<1>3. stop \in from .. Len(bytes) /\ Ends(bytes[stop]) /\ \A j \in from .. stop - 1 : ~ Ends(bytes[j])
  BY <1>2
<1> HIDE DEF stop
<1>4. stop = from + n
  BY <1>2, <1>3
<1> QED
  BY <1>1, <1>4

LEMMA Single == ASSUME NEW S, NEW x \in S
                PROVE  <<x>> \in Seq(S) /\ Len(<<x>>) = 1 /\ <<x>>[1] = x
OBVIOUS

LEMMA JoinRight ==
    ASSUME NEW S, NEW s \in Seq(S), NEW t \in Seq(S)
    PROVE  /\ s \o t \in Seq(S) /\ Len(s \o t) = Len(s) + Len(t)
           /\ Len(s) \in Nat /\ Len(t) \in Nat
           /\ \A k \in 1 .. Len(s) : (s \o t)[k] = s[k]
           /\ \A k \in 1 .. Len(t) : (s \o t)[Len(s) + k] = t[k]
<1>1. /\ s \o t \in Seq(S) /\ Len(s \o t) = Len(s) + Len(t)
      /\ Len(s) \in Nat /\ Len(t) \in Nat
  BY ConcatProperties, LenProperties
<1>2. \A i \in 1 .. Len(s) + Len(t) : (s \o t)[i] = IF i <= Len(s) THEN s[i] ELSE t[i - Len(s)]
  BY ConcatProperties, Zenon
<1> DEFINE st == s \o t
           ls == Len(s)
           lt == Len(t)
<1> HIDE DEF st, ls, lt
<1>3. /\ ls \in Nat /\ lt \in Nat
      /\ \A i \in 1 .. ls + lt : st[i] = IF i <= ls THEN s[i] ELSE t[i - ls]
  BY <1>1, <1>2 DEF st, ls, lt
<1>4. \A k \in 1 .. ls : k \in 1 .. ls + lt /\ k <= ls
  BY <1>3
<1>5. \A k \in 1 .. lt : ls + k \in 1 .. ls + lt /\ ~ (ls + k <= ls) /\ (ls + k) - ls = k
  BY <1>3
<1>6. \A k \in 1 .. ls : st[k] = s[k]
  BY <1>3, <1>4
<1>7. \A k \in 1 .. lt : st[ls + k] = t[k]
  BY <1>3, <1>5
<1> QED
  BY <1>1, <1>6, <1>7 DEF st, ls, lt

LEMMA JoinStrings ==
    ASSUME NEW s \in Seq(STRING), NEW t \in Seq(STRING)
    PROVE  /\ s \o t \in Seq(STRING) /\ Len(s \o t) = Len(s) + Len(t)
           /\ Len(s) \in Nat /\ Len(t) \in Nat
           /\ \A k \in 1 .. Len(s) : (s \o t)[k] = s[k]
           /\ \A k \in 1 .. Len(t) : (s \o t)[Len(s) + k] = t[k]
BY JoinRight

LEMMA CutRight ==
    ASSUME NEW s \in Seq(STRING), NEW m \in Nat, NEW n \in Nat, m + n <= Len(s)
    PROVE  /\ SubSeq(s, m + 1, m + n) \in Seq(STRING) /\ Len(SubSeq(s, m + 1, m + n)) = n
           /\ \A k \in 1 .. n : SubSeq(s, m + 1, m + n)[k] = s[m + k]
<1>1. Len(s) \in Nat
  BY LenProperties
<1>2. \A i \in m + 1 .. m + n : i \in 1 .. Len(s)
  BY <1>1
<1>3. \A i \in m + 1 .. m + n : s[i] \in STRING
  BY <1>2, ElementOfSeq
<1>4. /\ SubSeq(s, m + 1, m + n) \in Seq(STRING)
      /\ Len(SubSeq(s, m + 1, m + n)) = IF m + 1 <= m + n THEN (m + n) - (m + 1) + 1 ELSE 0
      /\ \A i \in 1 .. (m + n) - (m + 1) + 1 : SubSeq(s, m + 1, m + n)[i] = s[(m + 1) + i - 1]
  BY <1>3, SubSeqProperties
<1>5. (m + n) - (m + 1) + 1 = n /\ \A k \in 1 .. n : (m + 1) + k - 1 = m + k
  OBVIOUS
<1> DEFINE u == SubSeq(s, m + 1, m + n)
<1> HIDE DEF u
<1>6. /\ u \in Seq(STRING) /\ Len(u) = IF m + 1 <= m + n THEN n ELSE 0
      /\ \A k \in 1 .. n : u[k] = s[(m + 1) + k - 1]
  BY <1>4, <1>5 DEF u
<1>7. Len(u) = n /\ \A k \in 1 .. n : u[k] = s[m + k]
  BY <1>5, <1>6
<1> QED
  BY <1>6, <1>7 DEF u

LEMMA BytesRight ==
    ASSUME NEW e, IsEntry(e)
    PROVE  /\ Bytes(e) \in Seq(STRING) /\ Len(Bytes(e)) = NameLen + ExtLen + Len(e.behind) + 1
           /\ Len(e.behind) \in Nat
           /\ \A k \in 1 .. NameLen : Bytes(e)[k] = e.filename[k]
           /\ \A k \in 1 .. ExtLen : Bytes(e)[NameLen + k] = e.ext[k]
           /\ e.behind = <<>> => Bytes(e)[NameLen + ExtLen + 1] = NUL
           /\ e.behind # <<>> => Bytes(e)[NameLen + ExtLen + 1] = e.behind[1]
<1> DEFINE a == e.filename
           b == e.ext
           c == e.behind
<1>1. /\ a \in Seq(STRING) /\ b \in Seq(STRING) /\ c \in Seq(STRING) /\ NUL \in STRING
      /\ Len(a) = NameLen /\ Len(b) = ExtLen /\ NameLen \in Nat /\ ExtLen \in Nat
  BY NamesAssumption DEF IsEntry
<1>2. Bytes(e) = ((a \o b) \o c) \o <<NUL>>
  BY DEF Bytes
<1> HIDE DEF a, b, c
<1> DEFINE ab == a \o b
<1>3. /\ ab \in Seq(STRING) /\ Len(ab) = NameLen + ExtLen
      /\ \A k \in 1 .. NameLen : ab[k] = a[k]
      /\ \A k \in 1 .. ExtLen : ab[NameLen + k] = b[k]
  BY <1>1, JoinStrings
<1> HIDE DEF ab
<1> DEFINE abc == ab \o c
<1>4. /\ abc \in Seq(STRING) /\ Len(abc) = NameLen + ExtLen + Len(c) /\ Len(c) \in Nat
      /\ \A k \in 1 .. NameLen + ExtLen : abc[k] = ab[k]
      /\ c # <<>> => Len(c) >= 1 /\ abc[NameLen + ExtLen + 1] = c[1]
      /\ c = <<>> => Len(c) = 0
  <2>1. /\ abc \in Seq(STRING) /\ Len(abc) = Len(ab) + Len(c) /\ Len(c) \in Nat
        /\ \A k \in 1 .. Len(ab) : abc[k] = ab[k]
        /\ \A k \in 1 .. Len(c) : abc[Len(ab) + k] = c[k]
    BY <1>1, <1>3, JoinStrings
  <2>2. c = <<>> => Len(c) = 0
    OBVIOUS
  <2>3. c # <<>> => Len(c) \in Nat \ {0}
    BY <1>1, EmptySeq
  <2> HIDE DEF abc
  <2>4. c # <<>> => 1 \in 1 .. Len(c)
    BY <2>3
  <2> QED
    BY <1>1, <1>3, <2>1, <2>2, <2>3, <2>4
<1> HIDE DEF abc
<1> DEFINE all == abc \o <<NUL>>
<1>5. /\ all \in Seq(STRING) /\ Len(all) = Len(abc) + 1
      /\ \A k \in 1 .. Len(abc) : all[k] = abc[k]
      /\ all[Len(abc) + 1] = NUL
  <2>1. <<NUL>> \in Seq(STRING) /\ Len(<<NUL>>) = 1 /\ <<NUL>>[1] = NUL
    BY <1>1, Single
  <2> DEFINE z == <<NUL>>
  <2> HIDE DEF z
  <2>2. z \in Seq(STRING) /\ Len(z) = 1 /\ z[1] = NUL
    BY <2>1 DEF z
  <2>3. /\ abc \o z \in Seq(STRING) /\ Len(abc \o z) = Len(abc) + 1
        /\ \A k \in 1 .. Len(abc) : (abc \o z)[k] = abc[k]
        /\ (abc \o z)[Len(abc) + 1] = z[1]
    BY <1>4, <2>2, JoinStrings
  <2> QED
    BY <2>2, <2>3 DEF z
<1> HIDE DEF all
<1>6. /\ \A k \in 1 .. NameLen : all[k] = a[k]
      /\ \A k \in 1 .. ExtLen : all[NameLen + k] = b[k]
  <2>1. \A k \in 1 .. NameLen + ExtLen : k \in 1 .. Len(abc) /\ all[k] = ab[k]
    BY <1>1, <1>4, <1>5
  <2>2. \A k \in 1 .. NameLen : k \in 1 .. NameLen + ExtLen
    BY <1>1
  <2>3. \A k \in 1 .. ExtLen : NameLen + k \in 1 .. NameLen + ExtLen
    BY <1>1
  <2> QED
    BY <1>3, <2>1, <2>2, <2>3
<1>7. /\ c = <<>> => all[NameLen + ExtLen + 1] = NUL
      /\ c # <<>> => all[NameLen + ExtLen + 1] = c[1]
  <2>1. c = <<>> => Len(abc) = NameLen + ExtLen
    BY <1>1, <1>4
  <2>2. c # <<>> => NameLen + ExtLen + 1 \in 1 .. Len(abc)
    BY <1>1, <1>4
  <2> QED
    BY <1>4, <1>5, <2>1, <2>2
<1>8. Bytes(e) = all
  BY <1>2 DEF all, abc, ab
<1> QED
  BY <1>4, <1>5, <1>6, <1>7, <1>8 DEF a, b, c

(***************************************************************************)
(* For an entry that does not mislead, the search makes the name that the  *)
(* entry has.                                                              *)
(***************************************************************************)
LEMMA NamesRight ==
    ASSUME NEW e, IsEntry(e), Plain(e)
    PROVE  /\ combine_filename_and_ext(e) = ShortName(e) /\ ShortName(e) \in Seq(STRING \cup {Dot})
           /\ Len(ShortName(e)) >= 1 /\ ShortName(e)[1] = e.filename[1]
<1> DEFINE a == e.filename
           b == e.ext
           bytes == Bytes(e)
<1>1. /\ a \in Seq(STRING) /\ b \in Seq(STRING) /\ e.behind \in Seq(STRING)
      /\ Len(a) = NameLen /\ Len(b) = ExtLen /\ NameLen \in Nat \ {0} /\ ExtLen \in Nat \ {0}
      /\ a[1] # Space /\ Space # NUL
      /\ \A k \in 1 .. NameLen : a[k] # NUL
      /\ \A k \in 1 .. ExtLen : b[k] # NUL
  BY NamesAssumption DEF IsEntry
<1>2. /\ bytes \in Seq(STRING) /\ Len(bytes) = NameLen + ExtLen + Len(e.behind) + 1
      /\ Len(e.behind) \in Nat
      /\ \A k \in 1 .. NameLen : bytes[k] = a[k]
      /\ \A k \in 1 .. ExtLen : bytes[NameLen + k] = b[k]
      /\ e.behind = <<>> => bytes[NameLen + ExtLen + 1] = NUL
      /\ e.behind # <<>> => bytes[NameLen + ExtLen + 1] = e.behind[1]
  BY BytesRight
<1>3. PICK n : Reaches(a, n) /\ Trimmed(a) = SubSeq(a, 1, n)
  BY <1>1, TrimRight
<1>4. PICK m : Reaches(b, m) /\ Trimmed(b) = SubSeq(b, 1, m)
  BY <1>1, TrimRight
<1> DEFINE ta == SubSeq(a, 1, n)
           tb == SubSeq(b, 1, m)
<1>5. /\ n \in 1 .. NameLen /\ m \in 0 .. ExtLen
      /\ \A k \in n + 1 .. NameLen : a[k] = Space
      /\ \A k \in m + 1 .. ExtLen : b[k] = Space
  BY <1>1, <1>3, <1>4 DEF Reaches
<1>6. /\ ta \in Seq(STRING) /\ Len(ta) = n /\ \A k \in 1 .. n : ta[k] = a[k]
      /\ tb \in Seq(STRING) /\ Len(tb) = m /\ \A k \in 1 .. m : tb[k] = b[k]
      /\ (tb = <<>>) <=> (m = 0)
  <2>1. n = 0 + n /\ m = 0 + m /\ 0 + 1 = 1 /\ n \in Nat /\ m \in Nat /\ n <= Len(a) /\ m <= Len(b)
        /\ \A k \in Nat : 0 + k = k
    BY <1>1, <1>5
  <2> HIDE DEF a, b
  <2>2. ta \in Seq(STRING) /\ Len(ta) = n /\ \A k \in 1 .. n : ta[k] = a[k]
    <3>1. /\ SubSeq(a, 0 + 1, 0 + n) \in Seq(STRING) /\ Len(SubSeq(a, 0 + 1, 0 + n)) = n
          /\ \A k \in 1 .. n : SubSeq(a, 0 + 1, 0 + n)[k] = a[0 + k]
      BY <1>1, <2>1, CutRight
    <3> QED
      BY <2>1, <3>1
  <2>3. tb \in Seq(STRING) /\ Len(tb) = m /\ \A k \in 1 .. m : tb[k] = b[k]
    <3>1. /\ SubSeq(b, 0 + 1, 0 + m) \in Seq(STRING) /\ Len(SubSeq(b, 0 + 1, 0 + m)) = m
          /\ \A k \in 1 .. m : SubSeq(b, 0 + 1, 0 + m)[k] = b[0 + k]
      BY <1>1, <2>1, CutRight
    <3> QED
      BY <2>1, <3>1
  <2> HIDE DEF ta, tb
  <2>4. (tb = <<>>) <=> (m = 0)
    BY <2>3, EmptySeq
  <2> QED
    BY <2>2, <2>3, <2>4
<1>7. /\ \A k \in 1 .. n : a[k] # Space
      /\ \A k \in 1 .. m : b[k] # Space
  <2>1. ~ Contains(Trimmed(a), Space) /\ ~ Contains(Trimmed(b), Space)
    BY DEF Plain, InnerSpace
  <2>2. ~ Contains(ta, Space) /\ ~ Contains(tb, Space)
    BY <1>3, <1>4, <2>1
  <2> HIDE DEF ta, tb
  <2> QED
    BY <1>6, <2>2 DEF Contains
<1>8. n = NameLen => m = 0
  <2>1. n = NameLen => Full(a)
    BY <1>1, <1>7 DEF Full
  <2>2. Full(a) => Trimmed(b) = <<>>
    BY DEF Plain, RunsOn
  <2> QED
    BY <1>4, <1>6, <2>1, <2>2
<1>9. m = ExtLen => e.behind = <<>> \/ e.behind[1] = Space
  <2>1. m = ExtLen => Full(b)
    BY <1>1, <1>7 DEF Full
  <2> QED
    BY <2>1 DEF Plain, RunsOn
<1> HIDE DEF a, b, bytes, ta, tb
<1> DEFINE lb == Len(bytes)
           lc == Len(e.behind)
<1>10. bytes \in Seq(STRING) /\ lb = NameLen + ExtLen + lc + 1 /\ lc \in Nat
  BY <1>2
<1> HIDE DEF lb, lc
<1>11. /\ 1 + n <= lb /\ lb \in Nat /\ NameLen + 1 + m <= lb /\ NameLen + m <= lb /\ n <= lb
       /\ n \in Nat /\ m \in Nat /\ NameLen + 1 \in Nat
  BY <1>10, <1>1, <1>5
<1>12. remove_padded_spaces(e, 1) = ta
  <2>1. 1 + n <= Len(bytes) /\ 1 \in Nat /\ n \in Nat /\ Len(bytes) \in Nat
    BY <1>11 DEF lb
  <2>2. Ends(bytes[1 + n])
    <3>1. CASE n < NameLen
      <4>1. 1 + n \in 1 .. NameLen /\ 1 + n \in n + 1 .. NameLen
        BY <1>1, <1>5, <3>1
      <4> QED
        BY <1>2, <1>5, <4>1 DEF Ends
    <3>2. CASE n = NameLen
      <4>1. 1 \in 1 .. ExtLen /\ 1 \in m + 1 .. ExtLen /\ NameLen + 1 = 1 + n
        BY <1>1, <1>5, <1>8, <3>2
      <4>2. bytes[NameLen + 1] = b[1] /\ b[1] = Space
        BY <1>2, <1>5, <4>1
      <4> QED
        BY <4>1, <4>2 DEF Ends
    <3> QED
      BY <1>1, <1>5, <3>1, <3>2
  <2>3. \A j \in 1 .. 1 + n - 1 : ~ Ends(bytes[j])
    <3>1. ASSUME NEW j \in 1 .. 1 + n - 1 PROVE ~ Ends(bytes[j])
      <4>1. j \in 1 .. n /\ j \in 1 .. NameLen
        BY <1>1, <1>5
      <4>2. bytes[j] = a[j] /\ a[j] # Space /\ a[j] # NUL
        BY <1>1, <1>2, <1>7, <4>1
      <4> QED
        BY <4>2 DEF Ends
    <3> QED
      BY <3>1
  <2>4. remove_padded_spaces(e, 1) = SubSeq(bytes, 1, 1 + n - 1)
    BY <2>1, <2>2, <2>3, PaddedRight DEF bytes
  <2>5. 0 + n <= Len(bytes) /\ 0 \in Nat /\ 0 + 1 = 1 /\ 0 + n = 1 + n - 1
    BY <2>1
  <2> DEFINE s == SubSeq(bytes, 0 + 1, 0 + n)
  <2>6. s \in Seq(STRING) /\ Len(s) = n /\ \A k \in 1 .. n : s[k] = bytes[0 + k]
    BY <1>2, <2>1, <2>5, CutRight
  <2>7. s = SubSeq(bytes, 1, 1 + n - 1)
    BY <2>5
  <2> HIDE DEF s
  <2>8. \A k \in 1 .. n : s[k] = ta[k]
    <3>1. \A k \in 1 .. n : k \in 1 .. NameLen /\ 0 + k = k
      BY <1>1, <1>5
    <3> QED
      BY <1>2, <1>6, <2>6, <3>1
  <2>9. s = ta
    BY <1>6, <2>6, <2>8, SeqEqual
  <2> QED
    BY <2>4, <2>7, <2>9
<1>13. m # 0 => remove_padded_spaces(e, NameLen + 1) = tb
  <2> DEFINE from == NameLen + 1
  <2>1. /\ from + m <= Len(bytes) /\ from \in Nat /\ m \in Nat /\ Len(bytes) \in Nat
        /\ NameLen + m <= Len(bytes) /\ from + m - 1 = NameLen + m
    BY <1>1, <1>11 DEF lb
  <2>2. Ends(bytes[from + m])
    <3>1. CASE m < ExtLen
      <4>1. m + 1 \in 1 .. ExtLen /\ m + 1 \in m + 1 .. ExtLen /\ NameLen + (m + 1) = from + m
        BY <1>1, <1>5, <3>1
      <4>2. bytes[NameLen + (m + 1)] = b[m + 1] /\ b[m + 1] = Space
        BY <1>2, <1>5, <4>1
      <4> QED
        BY <4>1, <4>2 DEF Ends
    <3>2. CASE m = ExtLen
      <4>1. NameLen + ExtLen + 1 = from + m
        BY <1>1, <3>2
      <4>2. bytes[NameLen + ExtLen + 1] \in {NUL, Space}
        BY <1>2, <1>9, <3>2
      <4> QED
        BY <4>1, <4>2 DEF Ends
    <3> QED
      BY <1>1, <1>5, <3>1, <3>2
  <2>3. \A j \in from .. from + m - 1 : ~ Ends(bytes[j])
    <3>1. ASSUME NEW j \in from .. from + m - 1 PROVE ~ Ends(bytes[j])
      <4>1. j - NameLen \in 1 .. m /\ j - NameLen \in 1 .. ExtLen /\ j = NameLen + (j - NameLen)
        BY <1>1, <1>5
      <4>2. bytes[j] = b[j - NameLen]
        BY <1>2, <4>1
      <4>3. b[j - NameLen] # Space /\ b[j - NameLen] # NUL
        BY <1>1, <1>7, <4>1
      <4> QED
        BY <4>2, <4>3 DEF Ends
    <3> QED
      BY <3>1
  <2>4. remove_padded_spaces(e, from) = SubSeq(bytes, from, from + m - 1)
    <3> HIDE DEF from
    <3> QED
      BY <2>1, <2>2, <2>3, PaddedRight DEF bytes
  <2> DEFINE s == SubSeq(bytes, NameLen + 1, NameLen + m)
  <2>5. s \in Seq(STRING) /\ Len(s) = m /\ \A k \in 1 .. m : s[k] = bytes[NameLen + k]
    BY <1>10, <1>1, <2>1, CutRight
  <2>6. s = SubSeq(bytes, from, from + m - 1)
    BY <2>1
  <2> HIDE DEF s, from
  <2>7. \A k \in 1 .. m : s[k] = tb[k]
    <3>1. \A k \in 1 .. m : k \in 1 .. ExtLen
      BY <1>1, <1>5
    <3> QED
      BY <1>2, <1>6, <2>5, <3>1
  <2>8. s = tb
    BY <1>6, <2>5, <2>7, SeqEqual
  <2> QED
    BY <2>4, <2>6, <2>8 DEF from
<1>14. Ends(b[1]) <=> m = 0
  <2>1. CASE m = 0
    <3>1. 1 \in m + 1 .. ExtLen
      BY <1>1, <2>1
    <3> QED
      BY <1>5, <2>1, <3>1 DEF Ends
  <2>2. CASE m # 0
    <3>1. 1 \in 1 .. m /\ 1 \in 1 .. ExtLen
      BY <1>1, <1>5, <2>2
    <3> QED
      BY <1>1, <1>7, <2>2, <3>1 DEF Ends
  <2> QED
    BY <2>1, <2>2
<1> DEFINE rest == IF m = 0 THEN <<>> ELSE <<Dot>> \o tb
<1>15. combine_filename_and_ext(e) = ta \o rest
  BY <1>12, <1>13, <1>14, Zenon DEF combine_filename_and_ext, b
<1>16. ShortName(e) = ta \o rest
  BY <1>3, <1>4, <1>6, Zenon DEF ShortName, a, b, ta, tb
<1> DEFINE C == STRING \cup {Dot}
<1>17. rest \in Seq(C) /\ ta \in Seq(C)
  <2>1. Dot \in C /\ STRING \subseteq C
    OBVIOUS
  <2> HIDE DEF C
  <2>2. ta \in Seq(C) /\ tb \in Seq(C) /\ <<Dot>> \in Seq(C) /\ <<>> \in Seq(C)
    BY <1>6, <2>1, SeqMonotonic, Single, EmptySeq
  <2>3. <<Dot>> \o tb \in Seq(C)
    BY <2>2, JoinRight
  <2> QED
    BY <2>2, <2>3
<1> HIDE DEF rest
<1>18. /\ ta \o rest \in Seq(C) /\ Len(ta \o rest) = Len(ta) + Len(rest) /\ Len(rest) \in Nat
       /\ \A k \in 1 .. Len(ta) : (ta \o rest)[k] = ta[k]
  <2> HIDE DEF C
  <2> QED
    BY <1>17, JoinRight
<1> DEFINE all == ta \o rest
<1> HIDE DEF all
<1>19. all \in Seq(C) /\ Len(all) >= 1 /\ all[1] = a[1]
  <2>1. 1 \in 1 .. n /\ n \in Nat /\ n >= 1
    BY <1>1, <1>5
  <2>2. all[1] = ta[1] /\ ta[1] = a[1]
    BY <1>6, <1>18, <2>1 DEF all
  <2> QED
    BY <1>6, <1>18, <2>1, <2>2 DEF all
<1> QED
  BY <1>15, <1>16, <1>19 DEF all, a

-----------------------------------------------------------------------------
(***************************************************************************)
(* Where no entry misleads, what the search takes for a match is an entry  *)
(* of that name, and there is only one.                                    *)
(***************************************************************************)
LEMMA TreeIsOK == ASSUME tree \in Trees
                  PROVE  TreeOK /\ \A d \in Dirs : Distinct(tree[d])
BY LookupAssumption DEF TreeOK

LEMMA InEntries == \A t \in Trees, c \in Dirs : \A k \in DOMAIN t[c].items : t[c].items[k] \in Entries
<1> TAKE t \in Trees, c \in Dirs
<1> TAKE k \in DOMAIN t[c].items
<1> DEFINE X == {t[c].items[i] : i \in DOMAIN t[c].items}
<1>1. t[c].items[k] \in X
  OBVIOUS
<1>2. X \in {{u[d].items[i] : i \in DOMAIN u[d].items} : u \in Trees, d \in Dirs}
  OBVIOUS
<1> HIDE DEF X
<1> QED
  BY <1>1, <1>2 DEF Entries

LEMMA EntryIs ==
    ASSUME tree \in Trees, NEW d \in Dirs, NEW i \in DOMAIN tree[d].items
    PROVE  /\ Holds(tree[d].items[i]) /\ tree[d].items[i] \in Entries
           /\ tmp_filename[tree[d].items[i]] = combine_filename_and_ext(tree[d].items[i])
           /\ Own[tree[d].items[i]] = LowerCase(ShortName(tree[d].items[i]))
<1> DEFINE e == tree[d].items[i]
<1>1. Holds(e)
  BY TreeIsOK DEF TreeOK, Directory
<1>2. e \in Entries
  BY InEntries
<1> HIDE DEF e
<1>3. tmp_filename[e] = combine_filename_and_ext(e)
  BY <1>2 DEF tmp_filename
<1>4. Own[e] = LowerCase(ShortName(e))
  BY <1>2 DEF Own
<1> QED
  BY <1>1, <1>2, <1>3, <1>4 DEF e

LEMMA PartIs ==
    ASSUME NEW path \in Paths, NEW k \in 1 .. Len(path)
    PROVE  path[k] \in Seq(STRING) /\ Len(path[k]) \in Nat \ {0} /\ path[k][1] # Unused
<1>1. path \in Seq(Seq(STRING))
  BY LookupAssumption
<1>2. DOMAIN path = 1 .. Len(path)
  BY <1>1, LenProperties
<1>3. path[k] \in Seq(STRING)
  BY <1>1, ElementOfSeq
<1>4. path[k] # <<>> /\ path[k][1] # Unused
  BY <1>2, LookupAssumption
<1> QED
  BY <1>3, <1>4, EmptySeq

LEMMA SameNameLower ==
    ASSUME NEW S, NEW s \in Seq(S), NEW t \in Seq(S), SameName(s, t)
    PROVE  LowerCase(s) = LowerCase(t)
<1>1. DOMAIN s = 1 .. Len(s) /\ DOMAIN t = 1 .. Len(t) /\ Len(s) = Len(t)
  BY LenProperties DEF SameName
<1>2. \A k \in DOMAIN s : s[k] = t[k] \/ tolower(s[k]) = tolower(t[k])
  BY Zenon DEF SameName
<1>3. \A k \in DOMAIN s : tolower(s[k]) = tolower(t[k])
  BY <1>2
<1>4. LowerCase(s) = [k \in DOMAIN s |-> tolower(s[k])]
  BY Zenon DEF LowerCase, tolower
<1>5. LowerCase(t) = [k \in DOMAIN t |-> tolower(t[k])]
  BY Zenon DEF LowerCase, tolower
<1> QED
  BY <1>1, <1>3, <1>4, <1>5

LEMMA MatchRight ==
    ASSUME tree \in Trees, NEW d \in Dirs, ~ Misleads(d), NEW total, NEW path \in Paths,
           NEW k \in 1 .. Len(path), NEW i \in Matches(d, total, path[k])
    PROVE  i \in Named(d, path[k])
<1> DEFINE name == path[k]
           e == tree[d].items[i]
<1>1. i \in DOMAIN tree[d].items
  <2>1. DOMAIN tree[d].items = 1 .. Len(tree[d].items) /\ Len(tree[d].items) \in Nat
    BY TreeIsOK DEF TreeOK, Directory
  <2>2. i \in 1 .. total /\ i <= Len(tree[d].items)
    BY DEF Matches
  <2>3. i \in Int /\ 1 <= i
    BY <2>2
  <2> QED
    BY <2>1, <2>2, <2>3
<1>2. /\ IsEntry(e) /\ Own[e] = LowerCase(ShortName(e))
      /\ tmp_filename[e] = combine_filename_and_ext(e)
  BY <1>1, EntryIs DEF Holds
<1>3. e.kind # "label" /\ Plain(e)
  BY <1>1 DEF Misleads
<1>4. SameName(tmp_filename[e], name)
  BY DEF Matches
<1>5. name \in Seq(STRING) /\ Len(name) \in Nat \ {0} /\ name[1] # Unused
  BY PartIs
<1> HIDE DEF name, e
<1> DEFINE own == ShortName(e)
<1>6. /\ SameName(own, name) /\ own \in Seq(STRING \cup {Dot}) /\ Len(own) >= 1
      /\ own[1] = e.filename[1]
  BY <1>2, <1>3, <1>4, NamesRight
<1>7. name \in Seq(STRING \cup {Dot})
  BY <1>5, SeqMonotonic
<1> HIDE DEF own
<1>8. LowerCase(own) = LowerCase(name)
  BY <1>6, <1>7, SameNameLower
<1>9. own[1] # Unused
  <2>1. 1 \in DOMAIN own
    <3>1. DOMAIN own = 1 .. Len(own) /\ Len(own) \in Nat
      BY <1>6, LenProperties
    <3> QED
      BY <1>6, <3>1
  <2>2. own[1] = name[1] \/ tolower(own[1]) = tolower(name[1])
    BY <1>6, <2>1, Zenon DEF SameName
  <2> QED
    BY <1>5, <2>2, LookupAssumption DEF tolower
<1>10. ~ Deleted(e)
  BY <1>6, <1>9 DEF Deleted
<1> QED
  BY <1>1, <1>2, <1>3, <1>8, <1>10 DEF Named, name, e, own

LEMMA NamedUnique ==
    ASSUME tree \in Trees, NEW d \in Dirs, NEW name, NEW i \in Named(d, name), NEW j \in Named(d, name)
    PROVE  i = j
<1> DEFINE items == tree[d].items
<1>1. /\ i \in DOMAIN items /\ items[i].kind # "label" /\ ~ Deleted(items[i])
      /\ Own[items[i]] = LowerCase(name)
      /\ j \in DOMAIN items /\ items[j].kind # "label" /\ ~ Deleted(items[j])
      /\ Own[items[j]] = LowerCase(name)
  BY DEF Named
<1>2. LowerCase(ShortName(items[i])) = LowerCase(ShortName(items[j]))
  BY <1>1, EntryIs
<1>3. Distinct(tree[d])
  BY TreeIsOK
<1> QED
  BY <1>1, <1>2, <1>3, Zenon DEF Distinct

-----------------------------------------------------------------------------
(***************************************************************************)
(* The directories of a path.                                              *)
(***************************************************************************)
Below(d, name) ==
    IF d = None \/ Named(d, name) = {} THEN None
    ELSE tree[d].items[CHOOSE i \in Named(d, name) : TRUE].dir

DirRun(path, n, s) ==
    s = [k \in 1 .. n |-> IF k = 1 THEN Root ELSE Below(s[k - 1], path[k - 1])]

LEMMA DirExists == ASSUME NEW path, NEW n \in Nat
                   PROVE  \E s : DirRun(path, n, s)
<1> DEFINE S == {k \in Nat : \E s : DirRun(path, k, s)}
<1>1. 0 \in S
  <2>1. DirRun(path, 0, [k \in 1 .. 0 |-> Root])
    BY DEF DirRun
  <2> QED
    BY <2>1
<1>2. ASSUME NEW k \in S PROVE k + 1 \in S
  <2>0. k \in Nat
    OBVIOUS
  <2>1. PICK s : DirRun(path, k, s)
    OBVIOUS
  <2> DEFINE t == [i \in 1 .. k + 1 |-> IF i = 1 THEN Root ELSE Below(s[i - 1], path[i - 1])]
  <2>2. \A i \in 1 .. k : i \in 1 .. k + 1 /\ t[i] = s[i]
    <3>1. \A i \in 1 .. k : i \in 1 .. k + 1
      BY <2>0
    <3>2. \A i \in 1 .. k : s[i] = IF i = 1 THEN Root ELSE Below(s[i - 1], path[i - 1])
      <4> HIDE DEF t, S
      <4> QED
        BY <2>1, Zenon DEF DirRun
    <3> QED
      BY <3>1, <3>2
  <2>3. k + 1 \in Nat /\ \A i \in 1 .. k + 1 : i # 1 => i - 1 \in 1 .. k
    BY <2>0
  <2>4. DirRun(path, k + 1, t)
    BY <2>2, <2>3 DEF DirRun
  <2> HIDE DEF t
  <2> QED
    BY <2>3, <2>4
<1>3. S = Nat
  <2> HIDE DEF S
  <2>1. S \subseteq Nat
    BY DEF S
  <2> QED
    BY <1>1, <1>2, <2>1, SetInduction
<1> QED
  BY <1>3

LEMMA DirOfRight ==
    ASSUME NEW path \in Paths
    PROVE  /\ Len(path) \in Nat \ {0} /\ DirOf(path)[1] = Root
           /\ \A k \in 1 .. Len(path) : k + 1 <= Len(path) =>
                  DirOf(path)[k + 1] = Below(DirOf(path)[k], path[k])
<1> DEFINE n == Len(path)
           s == CHOOSE s : DirRun(path, n, s)
<1>1. n \in Nat \ {0}
  BY LookupAssumption, EmptySeq
<1>2. DirOf(path) = s
  BY Zenon DEF DirOf, DirRun, Below
<1>3. DirRun(path, n, s)
  <2> HIDE DEF n
  <2> QED
    BY <1>1, DirExists
<1> HIDE DEF n, s
<1>4. \A k \in 1 .. n : s[k] = IF k = 1 THEN Root ELSE Below(s[k - 1], path[k - 1])
  BY <1>3, Zenon DEF DirRun
<1>5. \A k \in 1 .. n : k + 1 <= n => k + 1 \in 1 .. n /\ k + 1 # 1 /\ (k + 1) - 1 = k
  BY <1>1
<1>6. s[1] = Root
  <2>1. 1 \in 1 .. n
    BY <1>1
  <2> QED
    BY <1>4, <2>1
<1>7. \A k \in 1 .. n : k + 1 <= n => s[k + 1] = Below(s[k], path[k])
  BY <1>4, <1>5
<1> QED
  BY <1>1, <1>2, <1>6, <1>7 DEF n

(***************************************************************************)
(* Entry i of directory d is what the first k components name, unless a    *)
(* directory on the way misleads.                                          *)
(***************************************************************************)
Right(path, k, d, i) ==
    (\A s \in Searched(path) : ~ Misleads(s)) =>
        DirOf(path)[k] = d /\ i \in Named(d, path[k])

LEMMA RootRight ==
    ASSUME tree \in Trees, NEW path \in Paths, NEW total, NEW i \in Matches(Root, total, path[1])
    PROVE  Right(path, 1, Root, i)
<1> SUFFICES ASSUME \A s \in Searched(path) : ~ Misleads(s)
             PROVE  DirOf(path)[1] = Root /\ i \in Named(Root, path[1])
  BY DEF Right
<1>1. 1 \in 1 .. Len(path) /\ DirOf(path)[1] = Root
  BY DirOfRight
<1>2. Root \in Dirs /\ Root # None
  BY LookupAssumption
<1>3. Root \in Searched(path)
  BY <1>1, <1>2 DEF Searched
<1> QED
  BY <1>1, <1>2, <1>3, MatchRight

LEMMA BelowRight ==
    ASSUME tree \in Trees, NEW path \in Paths, NEW k \in 1 .. Len(path), k + 1 <= Len(path),
           NEW d \in Dirs, NEW i \in DOMAIN tree[d].items, tree[d].items[i].kind = "directory",
           Right(path, k, d, i), NEW total,
           NEW j \in Matches(tree[d].items[i].dir, total, path[k + 1])
    PROVE  Right(path, k + 1, tree[d].items[i].dir, j)
<1> DEFINE e == tree[d].items[i].dir
<1> SUFFICES ASSUME \A s \in Searched(path) : ~ Misleads(s)
             PROVE  DirOf(path)[k + 1] = e /\ j \in Named(e, path[k + 1])
  BY DEF Right
<1>1. DirOf(path)[k] = d /\ i \in Named(d, path[k])
  BY DEF Right
<1>2. d # None
  BY LookupAssumption
<1>3. (CHOOSE c \in Named(d, path[k]) : TRUE) = i
  <2>1. (CHOOSE c \in Named(d, path[k]) : TRUE) \in Named(d, path[k])
    BY <1>1, Zenon
  <2> DEFINE c0 == CHOOSE c \in Named(d, path[k]) : TRUE
  <2> HIDE DEF c0
  <2>2. c0 \in Named(d, path[k])
    BY <2>1 DEF c0
  <2>3. c0 = i
    BY <1>1, <2>2, NamedUnique
  <2> QED
    BY <2>3 DEF c0
<1>4. DirOf(path)[k + 1] = Below(d, path[k])
  BY <1>1, DirOfRight
<1>5. Below(d, path[k]) = e
  BY <1>1, <1>2, <1>3, Zenon DEF Below
<1>6. e \in Dirs /\ e # None
  <2>1. Holds(tree[d].items[i])
    BY EntryIs
  <2> QED
    BY <2>1 DEF Holds
<1> HIDE DEF e
<1>7. k + 1 \in 1 .. Len(path) /\ DirOf(path)[k + 1] = e
  BY <1>4, <1>5, DirOfRight
<1>8. e \in Searched(path)
  BY <1>6, <1>7 DEF Searched
<1>9. j \in Matches(e, total, path[k + 1])
  BY DEF e
<1>10. j \in Named(e, path[k + 1])
  BY <1>6, <1>7, <1>8, <1>9, MatchRight
<1> QED
  BY <1>7, <1>10

-----------------------------------------------------------------------------
(***************************************************************************)
(* How far the walk along a path has come after k components: to nothing,  *)
(* or to an item for what they name, in blocks apart from all that was in  *)
(* use when the walk began.                                                *)
(***************************************************************************)
ItemAt(h, b, path, k, f) ==
    \E d \in Dirs : \E i \in DOMAIN tree[d].items :
        /\ ItemFor(h, f, d, i) /\ ItemBlocks(h, f) \cap b.used = {}
        /\ Right(path, k, d, i)

Walked(b, path, k, r) ==
    /\ DOMAIN r = {"heap", "ptr", "stop"} /\ r.stop \in BOOLEAN
    /\ Typed(b, r) /\ (r.stop => r.ptr = 0)
    /\ Sound(r.heap) /\ r.ptr # 0 => ItemAt(r.heap, b, path, k, r.ptr)

LEMMA FirstPartRight ==
    ASSUME tree \in Trees, NEW b, IsHeap(b), NEW path \in Paths
    PROVE  Walked(b, path, 1, FirstPart(b, path[1]))
<1> DEFINE root == Search(b, Root, total_items(Root), path[1])
           r    == FirstPart(b, path[1])
<1>1. Found(b, Root, total_items(Root), path[1], root) /\ Root \in Dirs
  <2>1. Root \in Dirs /\ TreeOK
    BY LookupAssumption, TreeIsOK
  <2> QED
    BY <2>1, SearchRight
<1>2. DOMAIN r = {"heap", "ptr", "stop"} /\ r.heap = root.heap /\ r.ptr = root.ptr /\ r.stop = (root.ptr = 0)
  BY DEF FirstPart, At
<1> HIDE DEF root, r
<1>3. ASSUME Sound(root.heap), root.ptr # 0 PROVE ItemAt(root.heap, b, path, 1, root.ptr)
  <2>1. PICK i \in Matches(Root, total_items(Root), path[1]) :
            ItemFor(root.heap, root.ptr, Root, i) /\ ItemBlocks(root.heap, root.ptr) \cap b.used = {}
    BY <1>1, <1>3, Zenon DEF Found
  <2>2. Right(path, 1, Root, i)
    BY RootRight
  <2>3. i \in DOMAIN tree[Root].items
    BY <2>1 DEF ItemFor
  <2> QED
    BY <1>1, <2>1, <2>2, <2>3 DEF ItemAt
<1>4. Typed(b, r)
  BY <1>1, <1>2 DEF Found, Typed
<1>5. Walked(b, path, 1, r)
  BY <1>2, <1>3, <1>4 DEF Walked
<1> QED
  BY <1>5 DEF r

LEMMA NextPartRight ==
    ASSUME tree \in Trees, NEW b, NEW path \in Paths, NEW k \in 1 .. Len(path), k + 1 <= Len(path),
           NEW r, Walked(b, path, k, r), NEW low \in BOOLEAN
    PROVE  Walked(b, path, k + 1, NextPart(r, path[k + 1], low))
<1> DEFINE name == path[k + 1]
           n    == NextPart(r, name, low)
<1> HIDE DEF name
<1>1. Typed(b, r) /\ IsHeap(r.heap) /\ DOMAIN r = {"heap", "ptr", "stop"} /\ r.stop \in BOOLEAN
  BY DEF Walked, Typed, Added
<1>2. CASE r.heap.fate # "fine" \/ r.stop
  <2>1. n = r
    BY <1>2 DEF NextPart
  <2>2. Sound(r.heap) => r.ptr = 0
    BY <1>2 DEF Walked, Sound
  <2>3. Walked(b, path, k + 1, r)
    BY <2>2 DEF Walked
  <2> QED
    BY <2>1, <2>3 DEF name
<1>3. ASSUME r.heap.fate = "fine", ~ r.stop, r.ptr = 0
      PROVE  Walked(b, path, k + 1, n)
  <2> DEFINE g == IF low THEN Wild(r.heap) ELSE r.heap
  <2>1. n = [r EXCEPT !.heap = g, !.stop = TRUE]
    BY <1>3 DEF NextPart
  <2>2. Added(b, g)
    <3>1. Added(r.heap, Wild(r.heap)) /\ Added(b, r.heap)
      BY <1>1, WildRight DEF Added, Sound, Typed
    <3> QED
      BY <3>1, AddedTwice
  <2> HIDE DEF g, n
  <2>3. DOMAIN n = {"heap", "ptr", "stop"} /\ n.heap = g /\ n.ptr = 0 /\ n.stop = TRUE
    BY <1>1, <1>3, <2>1
  <2> QED
    BY <2>2, <2>3 DEF Walked, Typed
<1>4. ASSUME r.heap.fate = "fine", ~ r.stop, r.ptr # 0, r.heap.mem[r.ptr].type # "DIRECTORY"
      PROVE  Walked(b, path, k + 1, n)
  <2>1. n = [r EXCEPT !.ptr = 0, !.stop = TRUE]
    BY <1>4 DEF NextPart
  <2> HIDE DEF n
  <2>2. DOMAIN n = {"heap", "ptr", "stop"} /\ n.heap = r.heap /\ n.ptr = 0 /\ n.stop = TRUE
    BY <1>1, <2>1
  <2> QED
    BY <1>1, <2>2 DEF Walked, Typed
<1>5. ASSUME r.heap.fate = "fine", ~ r.stop, r.ptr # 0, r.heap.mem[r.ptr].type = "DIRECTORY"
      PROVE  Walked(b, path, k + 1, n)
  <2> DEFINE m == Descend(r, name)
  <2>1. n = At(m, FALSE)
    BY <1>5 DEF NextPart
  <2>2. r.ptr \in Blocks /\ r.heap.mem[r.ptr].is = "fat_item" /\ Added(b, r.heap)
    BY <1>1, <1>5 DEF Typed
  <2>3. \E d, i : Sound(r.heap) =>
            /\ d \in Dirs /\ i \in DOMAIN tree[d].items /\ Right(path, k, d, i)
            /\ ItemFor(r.heap, r.ptr, d, i) /\ ItemBlocks(r.heap, r.ptr) \cap b.used = {}
    <3>1. CASE Sound(r.heap)
      BY <1>5, <3>1, Zenon DEF Walked, ItemAt
    <3>2. CASE ~ Sound(r.heap)
      BY <3>2
    <3> QED
      BY <3>1, <3>2
  <2>4. PICK d : \E i : Sound(r.heap) =>
            /\ d \in Dirs /\ i \in DOMAIN tree[d].items /\ Right(path, k, d, i)
            /\ ItemFor(r.heap, r.ptr, d, i) /\ ItemBlocks(r.heap, r.ptr) \cap b.used = {}
    BY <2>3
  <2>5. PICK i : Sound(r.heap) =>
            /\ d \in Dirs /\ i \in DOMAIN tree[d].items /\ Right(path, k, d, i)
            /\ ItemFor(r.heap, r.ptr, d, i) /\ ItemBlocks(r.heap, r.ptr) \cap b.used = {}
    BY <2>4
  <2> DEFINE e == tree[d].items[i].dir
  <2>6. /\ Typed(b, m)
        /\ Sound(m.heap) /\ m.ptr # 0 =>
              /\ tree[d].items[i].kind = "directory" /\ Sound(r.heap)
              /\ \E j \in Matches(e, total_items(e), name) :
                     ItemFor(m.heap, m.ptr, e, j) /\ ItemBlocks(m.heap, m.ptr) \cap b.used = {}
    <3>1. TreeOK
      BY TreeIsOK
    <3> QED
      BY <1>1, <1>5, <2>2, <2>5, <3>1, DescendRight
  <2> HIDE DEF m, n
  <2>7. ASSUME Sound(m.heap), m.ptr # 0 PROVE ItemAt(m.heap, b, path, k + 1, m.ptr)
    <3>1. /\ d \in Dirs /\ i \in DOMAIN tree[d].items /\ Right(path, k, d, i)
          /\ tree[d].items[i].kind = "directory"
      BY <2>5, <2>6, <2>7
    <3>2. PICK j \in Matches(e, total_items(e), name) :
              ItemFor(m.heap, m.ptr, e, j) /\ ItemBlocks(m.heap, m.ptr) \cap b.used = {}
      BY <2>6, <2>7
    <3>3. Right(path, k + 1, e, j)
      BY <3>1, BelowRight DEF name
    <3>4. e \in Dirs /\ j \in DOMAIN tree[e].items
      BY <3>2 DEF ItemFor
    <3> HIDE DEF e
    <3> QED
      BY <3>2, <3>3, <3>4 DEF ItemAt
  <2>8. DOMAIN n = {"heap", "ptr", "stop"} /\ n.heap = m.heap /\ n.ptr = m.ptr /\ n.stop = FALSE
    BY <2>1 DEF At
  <2> QED
    BY <2>6, <2>7, <2>8 DEF Walked, Typed
<1> QED
  BY <1>1, <1>2, <1>3, <1>4, <1>5 DEF name

(***************************************************************************)
(* The walk, component after component.                                    *)
(***************************************************************************)
WalkRun(h, path, low, n, s) ==
    s = [k \in 1 .. n |-> IF k = 1 THEN FirstPart(h, path[k]) ELSE NextPart(s[k - 1], path[k], low)]

LEMMA WalkExists == ASSUME NEW h, NEW path, NEW low, NEW n \in Nat
                    PROVE  \E s : WalkRun(h, path, low, n, s)
<1> DEFINE S == {k \in Nat : \E s : WalkRun(h, path, low, k, s)}
<1>1. 0 \in S
  <2>1. WalkRun(h, path, low, 0, [k \in 1 .. 0 |-> 0])
    BY DEF WalkRun
  <2> QED
    BY <2>1
<1>2. ASSUME NEW k \in S PROVE k + 1 \in S
  <2>0. k \in Nat
    OBVIOUS
  <2>1. PICK s : WalkRun(h, path, low, k, s)
    OBVIOUS
  <2> DEFINE t == [i \in 1 .. k + 1 |->
                     IF i = 1 THEN FirstPart(h, path[i]) ELSE NextPart(s[i - 1], path[i], low)]
  <2>2. \A i \in 1 .. k : i \in 1 .. k + 1 /\ t[i] = s[i]
    <3>1. \A i \in 1 .. k : i \in 1 .. k + 1
      BY <2>0
    <3>2. \A i \in 1 .. k : s[i] = IF i = 1 THEN FirstPart(h, path[i])
                                   ELSE NextPart(s[i - 1], path[i], low)
      <4> HIDE DEF t, S
      <4> QED
        BY <2>1, Zenon DEF WalkRun
    <3> QED
      BY <3>1, <3>2
  <2>3. k + 1 \in Nat /\ \A i \in 1 .. k + 1 : i # 1 => i - 1 \in 1 .. k
    BY <2>0
  <2>4. WalkRun(h, path, low, k + 1, t)
    BY <2>2, <2>3 DEF WalkRun
  <2> HIDE DEF t
  <2> QED
    BY <2>3, <2>4
<1>3. S = Nat
  <2> HIDE DEF S
  <2>1. S \subseteq Nat
    BY DEF S
  <2> QED
    BY <1>1, <1>2, <2>1, SetInduction
<1> QED
  BY <1>3

Walks(b, path, low, s) ==
    /\ fat16_get_directory_entry(b, path, low) = s[Len(path)] /\ s[1] = FirstPart(b, path[1])
    /\ \A k \in 1 .. Len(path) : k + 1 <= Len(path) => s[k + 1] = NextPart(s[k], path[k + 1], low)

LEMMA WalkSteps == ASSUME NEW b, NEW path \in Paths, NEW low
                   PROVE  \E s : Walks(b, path, low, s)
<1> DEFINE n == Len(path)
           s == CHOOSE s : WalkRun(b, path, low, n, s)
<1>1. n \in Nat \ {0}
  BY LookupAssumption, EmptySeq
<1>2. fat16_get_directory_entry(b, path, low) = s[n]
  BY Zenon DEF fat16_get_directory_entry, WalkRun
<1>3. WalkRun(b, path, low, n, s)
  <2> HIDE DEF n
  <2> QED
    BY <1>1, WalkExists
<1> HIDE DEF s
<1>4. \A k \in 1 .. n : s[k] = IF k = 1 THEN FirstPart(b, path[k]) ELSE NextPart(s[k - 1], path[k], low)
  BY <1>3, Zenon DEF WalkRun
<1>5. 1 \in 1 .. n /\ \A k \in 1 .. n : k + 1 <= n => k + 1 \in 1 .. n /\ k + 1 # 1 /\ (k + 1) - 1 = k
  BY <1>1
<1>6. /\ s[1] = FirstPart(b, path[1])
      /\ \A k \in 1 .. n : k + 1 <= n => s[k + 1] = NextPart(s[k], path[k + 1], low)
  BY <1>4, <1>5
<1>7. Walks(b, path, low, s)
  BY <1>2, <1>6 DEF Walks, n
<1> QED
  BY <1>7

LEMMA WalkRight ==
    ASSUME tree \in Trees, NEW b, IsHeap(b), NEW path \in Paths, NEW low \in BOOLEAN
    PROVE  Walked(b, path, Len(path), fat16_get_directory_entry(b, path, low))
<1> DEFINE n == Len(path)
<1>1. n \in Nat \ {0}
  BY LookupAssumption, EmptySeq
<1>2. PICK s : Walks(b, path, low, s)
  BY WalkSteps
<1> DEFINE S == {k \in Nat : k + 1 <= n => Walked(b, path, k + 1, s[k + 1])}
<1>5. 0 \in S
  <2>1. Walked(b, path, 1, s[1])
    BY <1>2, FirstPartRight DEF Walks
  <2> QED
    BY <2>1
<1>6. ASSUME NEW k \in S PROVE k + 1 \in S
  <2>0. k \in Nat /\ k + 1 \in Nat
    OBVIOUS
  <2>1. ASSUME (k + 1) + 1 <= n PROVE Walked(b, path, (k + 1) + 1, s[(k + 1) + 1])
    <3>1. k + 1 \in 1 .. n /\ k + 1 <= n
      BY <1>1, <2>0, <2>1
    <3>2. s[(k + 1) + 1] = NextPart(s[k + 1], path[(k + 1) + 1], low)
      BY <1>2, <2>1, <3>1 DEF Walks
    <3>3. Walked(b, path, k + 1, s[k + 1])
      BY <3>1
    <3> HIDE DEF S
    <3> QED
      BY <2>1, <3>1, <3>2, <3>3, NextPartRight
  <2> QED
    BY <2>0, <2>1
<1>7. S = Nat
  <2> HIDE DEF S
  <2>1. S \subseteq Nat
    BY DEF S
  <2> QED
    BY <1>5, <1>6, <2>1, SetInduction
<1>8. n - 1 \in Nat /\ (n - 1) + 1 = n
  BY <1>1
<1>9. Walked(b, path, n, s[n])
  <2>1. n - 1 \in S
    BY <1>7, <1>8
  <2>2. (n - 1) + 1 <= n => Walked(b, path, (n - 1) + 1, s[(n - 1) + 1])
    BY <2>1
  <2> QED
    BY <1>1, <1>8, <2>2
<1> QED
  BY <1>2, <1>9 DEF Walks

-----------------------------------------------------------------------------
(***************************************************************************)
(* An open descriptor: its block, the blocks of its item, and the item     *)
(* itself, for what the descriptor's path names.                           *)
(***************************************************************************)
BlocksOf(g, d) == {d.at} \cup ItemBlocks(g, g.mem[d.at].item)

Descriptor(g, d) ==
    /\ d.at \in g.used /\ g.mem[d.at].is = "descriptor"
    /\ d.at \notin ItemBlocks(g, g.mem[d.at].item)
    /\ \E e \in Dirs : \E i \in DOMAIN tree[e].items :
          ItemFor(g, g.mem[d.at].item, e, i) /\ Right(d.path, Len(d.path), e, i)

(***************************************************************************)
(* As long as nothing has failed every descriptor is one, and no two of    *)
(* them and nobody else have a block in common.                            *)
(***************************************************************************)
Apart(g, o, ot) ==
    Sound(g) =>
        /\ \A d \in o : Descriptor(g, d) /\ BlocksOf(g, d) \cap ot = {}
        /\ \A d, e \in o : d # e => BlocksOf(g, d) \cap BlocksOf(g, e) = {}
        /\ ot \subseteq g.used

(***************************************************************************)
(* The inductive invariant.                                                *)
(***************************************************************************)
LookupInv ==
    /\ tree \in Trees /\ IsHeap(heap)
    /\ open \subseteq [at : Blocks, path : Paths]
    /\ others \subseteq Blocks /\ IsFiniteSet(others) /\ Cardinality(others) <= MaxOthers
    /\ last.result \in {"none", "ERDONLY", "ENOMEM", "EIO", "descriptor"}
    /\ Apart(heap, open, others)

LEMMA DirOfKept == ASSUME tree' = tree, NEW path
                   PROVE  DirOf(path)' = DirOf(path) /\ Searched(path)' = Searched(path)
<1>1. DirOf(path)' = DirOf(path)
  BY SMT DEF DirOf, Named, Own, Entries
<1> QED
  BY <1>1, Zenon DEF Searched

LEMMA ItemForKept == ASSUME tree' = tree, NEW d, NEW e, NEW i
                     PROVE  ItemFor(heap', heap'.mem[d.at].item, e, i) => ItemFor(heap, heap.mem[d.at].item, e, i)'
BY Zenon DEF ItemFor, FileFor, FolderFor, DirFor, total_items

LEMMA RightKept == ASSUME tree' = tree, NEW path, NEW k, NEW d, NEW i
                   PROVE  Right(path, k, d, i) => Right(path, k, d, i)'
<1>1. DirOf(path)' = DirOf(path) /\ Searched(path)' = Searched(path)
  BY DirOfKept
<1>2. Named(d, path[k])' = Named(d, path[k])
  BY SMT DEF Named, Own, Entries
<1>3. ASSUME NEW s PROVE Misleads(s)' <=> Misleads(s)
  BY DEF Misleads
<1> QED
  BY <1>1, <1>2, <1>3 DEF Right

LEMMA ApartKept == ASSUME tree' = tree, Apart(heap', open', others') PROVE Apart(heap, open, others)'
<1>1. ASSUME NEW d, Descriptor(heap', d) PROVE Descriptor(heap, d)'
  <2>1. PICK e \in Dirs : \E i \in DOMAIN tree[e].items :
            ItemFor(heap', heap'.mem[d.at].item, e, i) /\ Right(d.path, Len(d.path), e, i)
    BY <1>1 DEF Descriptor
  <2>2. PICK i \in DOMAIN tree[e].items :
            ItemFor(heap', heap'.mem[d.at].item, e, i) /\ Right(d.path, Len(d.path), e, i)
    BY <2>1
  <2>3. ItemFor(heap, heap.mem[d.at].item, e, i)'
    BY <2>2, ItemForKept
  <2>4. Right(d.path, Len(d.path), e, i)'
    BY <2>2, RightKept
  <2>5. i \in DOMAIN tree'[e].items
    OBVIOUS
  <2> QED
    BY <1>1, <2>3, <2>4, <2>5 DEF Descriptor
<1> QED
  BY <1>1 DEF Apart, Sound, BlocksOf

-----------------------------------------------------------------------------
(***************************************************************************)
(* A descriptor's blocks are in use; and a step that leaves the blocks of  *)
(* descriptors alone leaves them apart.                                    *)
(***************************************************************************)
LEMMA DescriptorBlocks ==
    ASSUME NEW g, IsHeap(g), NEW d, Descriptor(g, d)
    PROVE  BlocksOf(g, d) \subseteq g.used
<1>1. PICK e \in Dirs : \E i \in DOMAIN tree[e].items : ItemFor(g, g.mem[d.at].item, e, i)
  BY DEF Descriptor
<1>2. PICK i \in DOMAIN tree[e].items : ItemFor(g, g.mem[d.at].item, e, i)
  BY <1>1
<1>3. ItemBlocks(g, g.mem[d.at].item) \subseteq g.used
  BY <1>2, ItemBlocksUsed
<1> QED
  BY <1>3 DEF BlocksOf, Descriptor

LEMMA DescriptorKept ==
    ASSUME NEW h, IsHeap(h), NEW g, IsHeap(g), NEW d, Descriptor(h, d),
           BlocksOf(h, d) \subseteq g.used, \A b \in BlocksOf(h, d) : g.mem[b] = h.mem[b]
    PROVE  Descriptor(g, d) /\ BlocksOf(g, d) = BlocksOf(h, d)
<1> DEFINE f == h.mem[d.at].item
<1>1. d.at \in g.used /\ g.mem[d.at] = h.mem[d.at]
  BY DEF BlocksOf
<1>2. PICK e \in Dirs : \E i \in DOMAIN tree[e].items :
          ItemFor(h, f, e, i) /\ Right(d.path, Len(d.path), e, i)
  BY DEF Descriptor
<1>3. PICK i \in DOMAIN tree[e].items : ItemFor(h, f, e, i) /\ Right(d.path, Len(d.path), e, i)
  BY <1>2
<1>4. ItemBlocks(h, f) \subseteq BlocksOf(h, d)
  BY DEF BlocksOf
<1>5. ItemFor(g, f, e, i) /\ ItemBlocks(g, f) = ItemBlocks(h, f)
  BY <1>3, <1>4, ItemKept
<1>6. g.mem[d.at].item = f
  BY <1>1
<1>7. BlocksOf(g, d) = BlocksOf(h, d)
  BY <1>5, <1>6 DEF BlocksOf
<1> HIDE DEF f
<1>8. Descriptor(g, d)
  BY <1>1, <1>3, <1>5, <1>6 DEF Descriptor, f
<1> QED
  BY <1>7, <1>8

LEMMA Carried ==
    ASSUME NEW h, IsHeap(h), NEW g, IsHeap(g), NEW o, NEW ot, Apart(h, o, ot),
           NEW o2 \in SUBSET o, NEW ot2 \in SUBSET ot,
           Sound(g) => /\ Sound(h) /\ ot2 \subseteq g.used
                       /\ \A d \in o2 : /\ BlocksOf(h, d) \subseteq g.used
                                        /\ \A b \in BlocksOf(h, d) : g.mem[b] = h.mem[b]
    PROVE  /\ Apart(g, o2, ot2)
           /\ Sound(g) => \A d \in o2 : BlocksOf(g, d) = BlocksOf(h, d)
<1> SUFFICES ASSUME Sound(g)
             PROVE  /\ \A d \in o2 : Descriptor(g, d) /\ BlocksOf(g, d) \cap ot2 = {}
                    /\ \A d, e \in o2 : d # e => BlocksOf(g, d) \cap BlocksOf(g, e) = {}
                    /\ \A d \in o2 : BlocksOf(g, d) = BlocksOf(h, d)
                    /\ ot2 \subseteq g.used
  BY DEF Apart
<1>1. /\ \A d \in o2 : Descriptor(h, d) /\ BlocksOf(h, d) \cap ot2 = {}
      /\ \A d, e \in o2 : d # e => BlocksOf(h, d) \cap BlocksOf(h, e) = {}
  BY DEF Apart
<1>2. \A d \in o2 : Descriptor(g, d) /\ BlocksOf(g, d) = BlocksOf(h, d)
  BY <1>1, DescriptorKept
<1> QED
  BY <1>1, <1>2

(***************************************************************************)
(* A lookup leaves them apart, for it only extends the heap.               *)
(***************************************************************************)
LEMMA Grown ==
    ASSUME NEW h, IsHeap(h), NEW g, Added(h, g), NEW o, NEW ot, Apart(h, o, ot)
    PROVE  /\ Apart(g, o, ot)
           /\ Sound(g) => \A d \in o : BlocksOf(g, d) = BlocksOf(h, d) /\ BlocksOf(g, d) \subseteq h.used
<1>1. IsHeap(g) /\ (Sound(g) => Sound(h) /\ Extends(h, g))
  BY DEF Added
<1>2. Sound(g) => \A d \in o : BlocksOf(h, d) \subseteq h.used
  BY <1>1, DescriptorBlocks DEF Apart
<1>3. Sound(g) => ot \subseteq h.used
  BY <1>1 DEF Apart
<1>4. Sound(g) => /\ Sound(h) /\ ot \subseteq g.used
                  /\ \A d \in o : /\ BlocksOf(h, d) \subseteq g.used
                                  /\ \A b \in BlocksOf(h, d) : g.mem[b] = h.mem[b]
  BY <1>1, <1>2, <1>3 DEF Extends
<1>5. /\ Apart(g, o, ot)
      /\ Sound(g) => \A d \in o : BlocksOf(g, d) = BlocksOf(h, d)
  BY <1>1, <1>4, Carried
<1> QED
  BY <1>2, <1>5

(***************************************************************************)
(* A new descriptor, when the lookup has found its item.                   *)
(***************************************************************************)
LEMMA Opening ==
    ASSUME NEW h, IsHeap(h), NEW o, NEW ot, Apart(h, o, ot), NEW path \in Paths,
           NEW at \in Blocks \ h.used, NEW b, Added(h, b), at \in b.used,
           NEW r, Walked(b, path, Len(path), r), r.ptr # 0
    PROVE  LET g == Put(r.heap, at, [is |-> "descriptor", item |-> r.ptr]) IN
           IsHeap(g) /\ Apart(g, o \cup {[at |-> at, path |-> path]}, ot)
<1> DEFINE x   == [is |-> "descriptor", item |-> r.ptr]
           g   == Put(r.heap, at, x)
           new == [at |-> at, path |-> path]
<1>1. /\ IsHeap(r.heap) /\ Added(b, r.heap) /\ Added(h, r.heap) /\ r.ptr \in Blocks
      /\ Sound(r.heap) => ItemAt(r.heap, b, path, Len(path), r.ptr)
  <2>1. IsHeap(r.heap) /\ Added(b, r.heap) /\ r.ptr \in Blocks
    BY DEF Walked, Typed, Added
  <2> QED
    BY <2>1, AddedTwice DEF Walked
<1>2. Content(x) /\ x.is = "descriptor" /\ x.item = r.ptr
  BY <1>1 DEF Content
<1>3. new.at = at /\ new.path = path
  OBVIOUS
<1> HIDE DEF x, new
<1>4. /\ IsHeap(g) /\ g.fate = r.heap.fate /\ g.failed = r.heap.failed /\ g.used = r.heap.used
      /\ \A c \in Blocks : g.mem[c] = IF c = at THEN x ELSE r.heap.mem[c]
  BY <1>1, <1>2, PutRight
<1>5. Added(h, g)
  BY <1>1, <1>2, PutAdded
<1> HIDE DEF g
<1>6. /\ Apart(g, o, ot)
      /\ Sound(g) => \A d \in o : BlocksOf(g, d) \subseteq h.used
  BY <1>5, Grown
<1>7. ASSUME Sound(g)
      PROVE  Descriptor(g, new) /\ BlocksOf(g, new) \cap h.used = {} /\ ot \subseteq h.used
  <2>1. Sound(r.heap) /\ Sound(h) /\ Extends(h, b) /\ Extends(b, r.heap)
    BY <1>1, <1>4, <1>7 DEF Sound, Added
  <2>2. PICK e \in Dirs : \E i \in DOMAIN tree[e].items :
            /\ ItemFor(r.heap, r.ptr, e, i) /\ ItemBlocks(r.heap, r.ptr) \cap b.used = {}
            /\ Right(path, Len(path), e, i)
    BY <1>1, <2>1 DEF ItemAt
  <2>3. PICK i \in DOMAIN tree[e].items :
            /\ ItemFor(r.heap, r.ptr, e, i) /\ ItemBlocks(r.heap, r.ptr) \cap b.used = {}
            /\ Right(path, Len(path), e, i)
    BY <2>2
  <2>4. ItemBlocks(r.heap, r.ptr) \subseteq r.heap.used /\ r.heap.used \subseteq Blocks
    BY <1>1, <2>3, ItemBlocksUsed DEF IsHeap
  <2>5. \A c \in ItemBlocks(r.heap, r.ptr) : g.mem[c] = r.heap.mem[c]
    BY <1>4, <2>3, <2>4
  <2>6. ItemFor(g, r.ptr, e, i) /\ ItemBlocks(g, r.ptr) = ItemBlocks(r.heap, r.ptr)
    BY <1>1, <1>4, <2>3, <2>4, <2>5, ItemKept
  <2>7. at \in g.used /\ g.mem[at] = x /\ at \notin ItemBlocks(g, r.ptr)
    BY <1>4, <2>1, <2>3, <2>6 DEF Extends
  <2>8. Descriptor(g, new)
    BY <1>2, <1>3, <2>3, <2>6, <2>7 DEF Descriptor
  <2>9. BlocksOf(g, new) = {at} \cup ItemBlocks(r.heap, r.ptr)
    BY <1>2, <1>3, <2>6, <2>7 DEF BlocksOf
  <2>10. BlocksOf(g, new) \cap h.used = {}
    BY <2>1, <2>3, <2>9 DEF Extends
  <2>11. ot \subseteq h.used
    BY <2>1 DEF Apart
  <2> QED
    BY <2>8, <2>10, <2>11
<1>8. Apart(g, o \cup {new}, ot)
  <2> SUFFICES ASSUME Sound(g)
               PROVE  /\ \A d \in o \cup {new} : Descriptor(g, d) /\ BlocksOf(g, d) \cap ot = {}
                      /\ \A d, e \in o \cup {new} : d # e => BlocksOf(g, d) \cap BlocksOf(g, e) = {}
                      /\ ot \subseteq g.used
    BY DEF Apart
  <2>1. /\ \A d \in o : Descriptor(g, d) /\ BlocksOf(g, d) \cap ot = {}
        /\ \A d, e \in o : d # e => BlocksOf(g, d) \cap BlocksOf(g, e) = {}
        /\ ot \subseteq g.used /\ \A d \in o : BlocksOf(g, d) \subseteq h.used
    BY <1>6 DEF Apart
  <2>2. Descriptor(g, new) /\ BlocksOf(g, new) \cap h.used = {} /\ ot \subseteq h.used
    BY <1>7
  <2>3. BlocksOf(g, new) \cap ot = {} /\ \A d \in o : BlocksOf(g, d) \cap BlocksOf(g, new) = {}
    BY <2>1, <2>2
  <2> QED
    BY <2>1, <2>2, <2>3
<1> QED
  BY <1>4, <1>8 DEF g, x, new

(***************************************************************************)
(* Closing frees the descriptor's own blocks and no other.                 *)
(***************************************************************************)
LEMMA Closing ==
    ASSUME NEW h, IsHeap(h), h.fate = "fine", NEW o, NEW ot, Apart(h, o, ot), NEW d \in o
    PROVE  LET g == IF h.mem[d.at].is # "descriptor" THEN Wild(h)
                    ELSE kfree(fat16_fat_item_free(h, h.mem[d.at].item), d.at) IN
           IsHeap(g) /\ Apart(g, o \ {d}, ot)
<1> DEFINE f == h.mem[d.at].item
           k == fat16_fat_item_free(h, f)
           g == IF h.mem[d.at].is # "descriptor" THEN Wild(h) ELSE kfree(k, d.at)
<1>1. CASE h.mem[d.at].is # "descriptor"
  <2>1. g = Wild(h) /\ IsHeap(Wild(h)) /\ ~ Sound(Wild(h))
    BY <1>1, WildRight DEF Sound
  <2> HIDE DEF g
  <2>2. IsHeap(g) /\ Apart(g, o \ {d}, ot)
    BY <2>1 DEF Apart
  <2> QED
    BY <2>2 DEF g
<1>2. CASE h.mem[d.at].is = "descriptor"
  <2>1. g = kfree(k, d.at)
    BY <1>2
  <2>2. Freed(h, k) /\ IsHeap(k)
    BY FreeItemFreed DEF Freed
  <2> HIDE DEF k
  <2>3. /\ IsHeap(g) /\ g.fate = k.fate /\ g.failed = k.failed /\ g.used = k.used \ {d.at}
        /\ g.mem = k.mem /\ k.mem = h.mem
    BY <2>1, <2>2, FreeRight DEF Freed
  <2> HIDE DEF g
  <2>4. Sound(g) => Sound(h)
    BY <2>2, <2>3 DEF Sound, Freed
  <2>5. ASSUME Sound(h) PROVE g.used = h.used \ BlocksOf(h, d)
    <3>1. Descriptor(h, d)
      BY <2>5 DEF Apart
    <3>2. PICK e \in Dirs : \E i \in DOMAIN tree[e].items : ItemFor(h, f, e, i)
      BY <3>1 DEF Descriptor
    <3>3. PICK i \in DOMAIN tree[e].items : ItemFor(h, f, e, i)
      BY <3>2
    <3>4. k.used = h.used \ ItemBlocks(h, f)
      <4> HIDE DEF f
      <4> QED
        BY <3>3, FreeItemExact DEF k
    <3> QED
      BY <2>3, <3>4 DEF BlocksOf
  <2>6. ASSUME Sound(g)
        PROVE  /\ ot \subseteq g.used
               /\ \A e \in o \ {d} : BlocksOf(h, e) \subseteq g.used
    <3>1. Sound(h) /\ g.used = h.used \ BlocksOf(h, d)
      BY <2>4, <2>5, <2>6
    <3>2. /\ \A e \in o : BlocksOf(h, e) \subseteq h.used /\ BlocksOf(h, e) \cap ot = {}
          /\ \A e \in o : e # d => BlocksOf(h, e) \cap BlocksOf(h, d) = {}
          /\ ot \subseteq h.used
      BY <3>1, DescriptorBlocks DEF Apart
    <3> QED
      BY <3>1, <3>2
  <2>7. Sound(g) => \A e \in o \ {d} : \A b \in BlocksOf(h, e) : g.mem[b] = h.mem[b]
    BY <2>3
  <2>8. Apart(g, o \ {d}, ot)
    <3>1. o \ {d} \in SUBSET o /\ ot \in SUBSET ot
      OBVIOUS
    <3> HIDE DEF f
    <3> QED
      BY <2>3, <2>4, <2>6, <2>7, <3>1, Carried
  <2> QED
    BY <2>3, <2>8 DEF g, k
<1> QED
  BY <1>1, <1>2

-----------------------------------------------------------------------------
(***************************************************************************)
(* The steps.  Each leaves a heap and descriptors and others apart in it.  *)
(***************************************************************************)
After == /\ IsHeap(heap') /\ Apart(heap', open', others')
         /\ open' \subseteq [at : Blocks, path : Paths]
         /\ others' \subseteq Blocks /\ IsFiniteSet(others') /\ Cardinality(others') <= MaxOthers
         /\ last'.result \in {"none", "ERDONLY", "ENOMEM", "EIO", "descriptor"}
         /\ tree' = tree

LEMMA OpenStep ==
    ASSUME LookupInv, NEW path \in Paths, NEW mode, NEW low \in BOOLEAN, fat16_open(path, mode, low)
    PROVE  After
<1>1. /\ tree \in Trees /\ IsHeap(heap) /\ open \subseteq [at : Blocks, path : Paths]
      /\ Apart(heap, open, others) /\ tree' = tree /\ others' = others
      /\ others \subseteq Blocks /\ IsFiniteSet(others) /\ Cardinality(others) <= MaxOthers
  BY DEF LookupInv, fat16_open
<1>2. CASE last' = [NoOpen EXCEPT !.result = "ERDONLY"] /\ UNCHANGED <<heap, open>>
  <2>1. last'.result = "ERDONLY"
    BY <1>2 DEF NoOpen
  <2> QED
    BY <1>1, <1>2, <2>1 DEF After
<1> DEFINE descriptor == kzalloc(heap)
           at    == descriptor.ptr
           b     == descriptor.heap
           found == fat16_get_directory_entry(b, path, low)
<1>3. CASE Opened(path, at, found)
  <2>1. Added(heap, b) /\ IsHeap(b) /\ (at # 0 => at \in Blocks \ heap.used /\ at \in b.used)
    <3>1. at # 0 => at \in Blocks \ heap.used /\ b.used = heap.used \cup {at}
      BY <1>1, AllocRight
    <3>2. Added(heap, b) /\ IsHeap(b)
      BY <1>1, AllocAdded, AllocRight
    <3> HIDE DEF descriptor
    <3> QED
      BY <3>1, <3>2
  <2>2. Walked(b, path, Len(path), found)
    <3> HIDE DEF descriptor
    <3> QED
      BY <1>1, <2>1, WalkRight
  <2> HIDE DEF found, at, b
  <2>3. Typed(b, found) /\ Added(heap, found.heap) /\ IsHeap(found.heap) /\ Apart(found.heap, open, others)
    <3>1. Typed(b, found) /\ Added(heap, found.heap)
      BY <2>1, <2>2, AddedTwice DEF Walked, Typed
    <3> QED
      BY <1>1, <3>1, Grown DEF Added
  <2>4. CASE last' = [path |-> path, result |-> "ENOMEM"] /\ UNCHANGED <<heap, open>>
    BY <1>1, <2>4 DEF After
  <2>5. CASE /\ heap' = found.heap /\ UNCHANGED open
             /\ \/ last' = [path |-> path, result |-> "none"]
                \/ last' = [path |-> path, result |-> "EIO"]
    BY <1>1, <2>3, <2>5 DEF After
  <2>6. CASE /\ at # 0 /\ found.ptr # 0
             /\ heap' = Put(found.heap, at, [is |-> "descriptor", item |-> found.ptr])
             /\ open' = open \cup {[at |-> at, path |-> path]}
             /\ last' = [path |-> path, result |-> "descriptor"]
    <3>1. IsHeap(heap') /\ Apart(heap', open', others)
      BY <1>1, <2>1, <2>2, <2>6, Opening
    <3>2. [at |-> at, path |-> path] \in [at : Blocks, path : Paths]
      BY <2>1, <2>6
    <3> QED
      BY <1>1, <2>6, <3>1, <3>2 DEF After
  <2> QED
    BY <1>3, <2>4, <2>5, <2>6 DEF Opened
<1>4. \/ last' = [NoOpen EXCEPT !.result = "ERDONLY"] /\ UNCHANGED <<heap, open>>
      \/ Opened(path, at, found)
  BY DEF fat16_open
<1> QED
  BY <1>2, <1>3, <1>4

LEMMA CloseStep == ASSUME LookupInv, NEW d \in open, fat16_close(d)
                   PROVE  After
<1>1. /\ IsHeap(heap) /\ open \subseteq [at : Blocks, path : Paths]
      /\ Apart(heap, open, others) /\ tree' = tree /\ others' = others
      /\ others \subseteq Blocks /\ IsFiniteSet(others) /\ Cardinality(others) <= MaxOthers
      /\ heap.fate = "fine" /\ open' = open \ {d} /\ last' = NoOpen
  BY DEF LookupInv, fat16_close
<1>2. heap' = IF heap.mem[d.at].is # "descriptor" THEN Wild(heap)
              ELSE kfree(fat16_fat_item_free(heap, heap.mem[d.at].item), d.at)
  BY DEF fat16_close
<1>3. IsHeap(heap') /\ Apart(heap', open', others')
  BY <1>1, <1>2, Closing
<1> QED
  BY <1>1, <1>3 DEF After, NoOpen

LEMMA TakeOtherStep == ASSUME LookupInv, TakeOther
                       PROVE  After
<1> DEFINE b == kzalloc(heap)
           x == [is |-> "other"]
<1>1. /\ IsHeap(heap) /\ open \subseteq [at : Blocks, path : Paths]
      /\ Apart(heap, open, others) /\ tree' = tree /\ open' = open
      /\ others \subseteq Blocks /\ IsFiniteSet(others) /\ Cardinality(others) < MaxOthers
      /\ last' = NoOpen
  BY DEF LookupInv, TakeOther
<1>2. /\ b.ptr # 0 /\ heap' = Put(b.heap, b.ptr, x) /\ others' = others \cup {b.ptr}
  BY DEF TakeOther
<1>3. Content(x)
  BY DEF Content
<1>4. /\ b.ptr \in Blocks \ heap.used /\ b.heap.used = heap.used \cup {b.ptr}
      /\ Added(heap, b.heap) /\ IsHeap(b.heap)
  BY <1>1, <1>2, AllocRight, AllocAdded
<1> HIDE DEF b, x
<1>5. Added(heap, heap') /\ heap'.used = b.heap.used
  BY <1>1, <1>2, <1>3, <1>4, PutAdded, PutRight
<1>6. /\ IsHeap(heap') /\ Apart(heap', open, others)
      /\ Sound(heap') => \A d \in open : BlocksOf(heap', d) \subseteq heap.used
  BY <1>1, <1>5, Grown DEF Added
<1>7. Apart(heap', open, others \cup {b.ptr})
  BY <1>4, <1>5, <1>6 DEF Apart
<1>8. IsFiniteSet(others') /\ Cardinality(others') <= MaxOthers
  <2>1. IsFiniteSet(others') /\ Cardinality(others') \in {Cardinality(others), Cardinality(others) + 1}
    BY <1>1, <1>2, FS_AddElement
  <2>2. Cardinality(others) \in Nat
    BY <1>1, FS_CardinalityType
  <2> QED
    BY <1>1, <2>1, <2>2, LookupAssumption
<1> QED
  BY <1>1, <1>2, <1>4, <1>6, <1>7, <1>8 DEF After, NoOpen

LEMMA FreeOtherStep == ASSUME LookupInv, FreeOther
                       PROVE  After
<1>1. /\ IsHeap(heap) /\ open \subseteq [at : Blocks, path : Paths]
      /\ Apart(heap, open, others) /\ tree' = tree /\ open' = open
      /\ others \subseteq Blocks /\ IsFiniteSet(others) /\ Cardinality(others) <= MaxOthers
      /\ last' = NoOpen
  BY DEF LookupInv, FreeOther
<1>2. PICK b \in others : heap' = kfree(heap, b) /\ others' = others \ {b}
  BY DEF FreeOther
<1>3. /\ IsHeap(heap') /\ heap'.fate = heap.fate /\ heap'.failed = heap.failed
      /\ heap'.used = heap.used \ {b} /\ heap'.mem = heap.mem
  BY <1>1, <1>2, FreeRight
<1>4. Sound(heap') => Sound(heap)
  BY <1>3 DEF Sound
<1>5. ASSUME Sound(heap')
      PROVE  /\ Sound(heap) /\ others' \subseteq heap'.used
             /\ \A d \in open : /\ BlocksOf(heap, d) \subseteq heap'.used
                               /\ \A c \in BlocksOf(heap, d) : heap'.mem[c] = heap.mem[c]
  <2>1. /\ \A d \in open : BlocksOf(heap, d) \subseteq heap.used /\ BlocksOf(heap, d) \cap others = {}
        /\ others \subseteq heap.used
    BY <1>1, <1>4, <1>5, DescriptorBlocks DEF Apart
  <2> QED
    BY <1>2, <1>3, <1>4, <1>5, <2>1
<1>6. Apart(heap', open', others')
  <2>1. open' \in SUBSET open /\ others' \in SUBSET others
    BY <1>1, <1>2
  <2> QED
    BY <1>1, <1>3, <1>5, <2>1, Carried
<1>7. IsFiniteSet(others') /\ Cardinality(others') <= MaxOthers
  <2>1. IsFiniteSet(others') /\ Cardinality(others') = Cardinality(others) - 1 /\ Cardinality(others) \in Nat
    BY <1>1, <1>2, FS_RemoveElement, FS_CardinalityType
  <2> QED
    BY <1>1, <2>1, LookupAssumption
<1> QED
  BY <1>1, <1>2, <1>3, <1>6, <1>7 DEF After, NoOpen

-----------------------------------------------------------------------------
(***************************************************************************)
(* The invariant holds in every state, for any volumes, paths and blocks.  *)
(***************************************************************************)
LEMMA LookupInvInit == Init => LookupInv
<1> SUFFICES ASSUME Init PROVE LookupInv
  OBVIOUS
<1>1. IsHeap(heap)
  BY DEF Init, IsHeap, Content, Blank
<1>2. IsFiniteSet(others) /\ Cardinality(others) <= MaxOthers
  <2>1. Cardinality({}) = 0 /\ IsFiniteSet({})
    BY FS_EmptySet
  <2> QED
    BY <2>1, LookupAssumption DEF Init
<1> QED
  BY <1>1, <1>2 DEF Init, LookupInv, Apart, NoOpen

LEMMA LookupInvStep == LookupInv /\ [Next]_vars => LookupInv'
<1> SUFFICES ASSUME LookupInv, [Next]_vars PROVE LookupInv'
  OBVIOUS
<1>1. ASSUME After PROVE LookupInv'
  <2>1. (tree \in Trees)'
    BY <1>1 DEF After, LookupInv
  <2>2. Apart(heap, open, others)'
    BY <1>1, ApartKept DEF After
  <2>3. IsHeap(heap)'
    BY <1>1 DEF After, IsHeap, Content
  <2> QED
    BY <1>1, <2>1, <2>2, <2>3 DEF After, LookupInv
<1>2. CASE Open
  <2>1. PICK path \in Paths : \E mode \in {"READ", "WRITE"} :
            \E low \in IF Len(path) > 2 THEN BOOLEAN ELSE {FALSE} : fat16_open(path, mode, low)
    BY <1>2 DEF Open
  <2>2. PICK mode \in {"READ", "WRITE"} :
            \E low \in IF Len(path) > 2 THEN BOOLEAN ELSE {FALSE} : fat16_open(path, mode, low)
    BY <2>1
  <2>3. PICK low \in BOOLEAN : fat16_open(path, mode, low)
    BY <2>2
  <2> QED
    BY <1>1, <2>3, OpenStep
<1>3. CASE Close
  BY <1>1, <1>3, CloseStep DEF Close
<1>4. CASE TakeOther
  BY <1>1, <1>4, TakeOtherStep
<1>5. CASE FreeOther
  BY <1>1, <1>5, FreeOtherStep
<1>6. CASE UNCHANGED vars
  <2>1. After
    BY <1>6 DEF After, vars, LookupInv
  <2> QED
    BY <1>1, <2>1
<1> QED
  BY <1>2, <1>3, <1>4, <1>5, <1>6 DEF Next

THEOREM LookupInvariant == Spec => []LookupInv
BY LookupInvInit, LookupInvStep, PTL DEF Spec

(***************************************************************************)
(* Type correctness.                                                       *)
(***************************************************************************)
THEOREM LookupTypeOK == Spec => []TypeOK
<1>1. LookupInv => TypeOK
  <2> SUFFICES ASSUME LookupInv PROVE TypeOK
    OBVIOUS
  <2>1. TreeOK
    BY TreeIsOK DEF LookupInv
  <2> QED
    BY <2>1 DEF LookupInv, TypeOK, TreeOK, IsHeap
<1> QED
  BY LookupInvariant, <1>1, PTL

(***************************************************************************)
(* What fat16_close frees is the descriptor's own (OwnedApart), for the    *)
(* blocks that are reached from a descriptor are blocks of its item.       *)
(***************************************************************************)
LEMMA ReachIs == ASSUME NEW d, IsHeap(heap), Descriptor(heap, d)
                 PROVE  Reach(d) = BlocksOf(heap, d)
<1> DEFINE f == heap.mem[d.at].item
           p == heap.mem[f].ptr
<1>1. PICK e \in Dirs : \E i \in DOMAIN tree[e].items : ItemFor(heap, f, e, i)
  BY DEF Descriptor
<1>2. PICK i \in DOMAIN tree[e].items : ItemFor(heap, f, e, i)
  BY <1>1
<1>3. Reach(d) = {d.at, f} \cup ({p} \ {0})
                   \cup (IF p # 0 /\ heap.mem[p].is = "dir" THEN {heap.mem[p].item} \ {0} ELSE {})
  BY DEF Reach, Item
<1>4. CASE FileFor(heap, f, e, i)
  <2>1. ~ (p # 0 /\ heap.mem[p].is = "dir") /\ heap.mem[f].type # "DIRECTORY"
    BY <1>4 DEF FileFor
  <2>2. BlocksOf(heap, d) = {d.at, f} \cup ({p} \ {0})
    BY <2>1 DEF BlocksOf, ItemBlocks
  <2> HIDE DEF p
  <2> QED
    BY <1>3, <2>1, <2>2
<1>5. CASE FolderFor(heap, f, e, i)
  <2>1. /\ heap.mem[f].type = "DIRECTORY" /\ heap.mem[p].is = "dir"
        /\ p # 0 /\ heap.mem[p].item # 0
    BY <1>5, ZeroIsNoBlock DEF FolderFor, DirFor, IsHeap
  <2>2. BlocksOf(heap, d) = {d.at, f} \cup ({p} \ {0}) \cup {heap.mem[p].item}
    BY <2>1 DEF BlocksOf, ItemBlocks
  <2> QED
    BY <1>3, <2>1, <2>2
<1> QED
  BY <1>2, <1>4, <1>5 DEF ItemFor

THEOREM LookupOwnedApart == Spec => []OwnedApart
<1>1. LookupInv => OwnedApart
  <2> SUFFICES ASSUME LookupInv, Sound(heap)
               PROVE  \A d \in open :
                          /\ Reach(d) \subseteq heap.used /\ Reach(d) \cap others = {}
                          /\ \A e \in open : e # d => Reach(d) \cap Reach(e) = {}
    BY DEF OwnedApart, Sound
  <2>1. IsHeap(heap) /\ Apart(heap, open, others)
    BY DEF LookupInv
  <2>2. /\ \A d \in open : Descriptor(heap, d) /\ BlocksOf(heap, d) \cap others = {}
        /\ \A d, e \in open : d # e => BlocksOf(heap, d) \cap BlocksOf(heap, e) = {}
    BY <2>1 DEF Apart
  <2>3. \A d \in open : Reach(d) \subseteq BlocksOf(heap, d) /\ BlocksOf(heap, d) \subseteq heap.used
    BY <2>1, <2>2, ReachIs, DescriptorBlocks
  <2> QED
    BY <2>2, <2>3
<1> QED
  BY LookupInvariant, <1>1, PTL

(***************************************************************************)
(* What fat16_open returns is what the path names (OpenRight).             *)
(***************************************************************************)
THEOREM LookupOpenRight == Spec => []OpenRight
<1>1. LookupInv => OpenRight
  <2> SUFFICES ASSUME LookupInv, Sound(heap), NEW d \in open,
                      \A s \in Searched(d.path) : ~ Misleads(s), heap.mem[Item(d)].ptr # 0
               PROVE  /\ Exists(d.path)
                      /\ LET e == EntryOf(d.path)
                             x == heap.mem[heap.mem[Item(d)].ptr] IN
                         IF tree[e[1]].items[e[2]].kind = "directory"
                           THEN x.is = "dir" /\ x.of = tree[e[1]].items[e[2]].dir
                           ELSE x.is = "entry" /\ <<x.of, x.index>> = e
    BY DEF OpenRight, Sound
  <2> DEFINE f == Item(d)
             x == heap.mem[heap.mem[f].ptr]
             path == d.path
             n == Len(path)
  <2>1. Descriptor(heap, d) /\ tree \in Trees
    BY DEF LookupInv, Apart
  <2>2. PICK e \in Dirs : \E i \in DOMAIN tree[e].items : ItemFor(heap, f, e, i) /\ Right(path, n, e, i)
    BY <2>1 DEF Descriptor, Item
  <2>3. PICK i \in DOMAIN tree[e].items : ItemFor(heap, f, e, i) /\ Right(path, n, e, i)
    BY <2>2
  <2>4. DirOf(path)[n] = e /\ i \in Named(e, path[n])
    BY <2>3 DEF Right
  <2>5. e # None /\ Last(path) = path[n]
    BY LookupAssumption DEF Last
  <2>6. Exists(path)
    BY <2>4, <2>5 DEF Exists
  <2>7. EntryOf(path) = <<e, i>>
    <3> DEFINE c0 == CHOOSE c \in Named(e, path[n]) : TRUE
    <3>1. c0 \in Named(e, path[n])
      BY <2>4, Zenon
    <3>2. EntryOf(path) = <<e, c0>>
      BY <2>4, <2>5 DEF EntryOf
    <3> HIDE DEF c0
    <3>3. c0 = i
      BY <2>1, <2>4, <3>1, NamedUnique
    <3> QED
      BY <3>2, <3>3
  <2>8. IF tree[e].items[i].kind = "directory"
          THEN x.is = "dir" /\ x.of = tree[e].items[i].dir
          ELSE x.is = "entry" /\ x.of = e /\ x.index = i
    BY <2>3 DEF ItemFor, FileFor, FolderFor, DirFor
  <2> HIDE DEF x, f, path
  <2> QED
    BY <2>6, <2>7, <2>8 DEF x, f, path
<1> QED
  BY LookupInvariant, <1>1, PTL

-----------------------------------------------------------------------------
(***************************************************************************)
(* When nothing is in the way: an entry that a name stands for is a match, *)
(* if no entry misleads, none is deleted, and the directory has an end.    *)
(***************************************************************************)
LEMMA LowerSameName ==
    ASSUME NEW S, NEW s \in Seq(S), NEW t \in Seq(S), LowerCase(s) = LowerCase(t)
    PROVE  SameName(s, t)
<1>1. /\ DOMAIN s = 1 .. Len(s) /\ DOMAIN t = 1 .. Len(t) /\ Len(s) \in Nat /\ Len(t) \in Nat
  BY LenProperties
<1>2. LowerCase(s) = [k \in DOMAIN s |-> tolower(s[k])]
  BY Zenon DEF LowerCase, tolower
<1>3. LowerCase(t) = [k \in DOMAIN t |-> tolower(t[k])]
  BY Zenon DEF LowerCase, tolower
<1>4. DOMAIN s = DOMAIN t /\ \A k \in DOMAIN s : tolower(s[k]) = tolower(t[k])
  BY <1>2, <1>3
<1>5. Len(s) = Len(t)
  <2> DEFINE m == Len(s)
             n == Len(t)
  <2>1. m \in Nat /\ n \in Nat /\ 1 .. m = 1 .. n
    BY <1>1, <1>4
  <2> HIDE DEF m, n
  <2>2. ~ (m < n) /\ ~ (n < m)
    <3>1. m < n => n \in 1 .. n /\ n \notin 1 .. m
      BY <2>1
    <3>2. n < m => m \in 1 .. m /\ m \notin 1 .. n
      BY <2>1
    <3> QED
      BY <2>1, <3>1, <3>2
  <2> QED
    BY <2>1, <2>2 DEF m, n
<1> QED
  BY <1>4, <1>5 DEF SameName

LEMMA MatchBack ==
    ASSUME tree \in Trees, NEW d \in Dirs, ~ Misleads(d), ~ Gaps(d), total_items(d) # -1,
           NEW path \in Paths, NEW k \in 1 .. Len(path), NEW i \in Named(d, path[k])
    PROVE  i \in Matches(d, total_items(d), path[k])
<1> DEFINE name == path[k]
           e == tree[d].items[i]
           own == ShortName(e)
<1>1. i \in DOMAIN tree[d].items /\ Own[e] = LowerCase(name)
  BY DEF Named
<1>2. /\ IsEntry(e) /\ Own[e] = LowerCase(own)
      /\ tmp_filename[e] = combine_filename_and_ext(e)
  BY <1>1, EntryIs DEF Holds
<1>3. Plain(e)
  BY <1>1 DEF Misleads
<1>4. name \in Seq(STRING)
  BY PartIs
<1> HIDE DEF name, e
<1>5. tmp_filename[e] = own /\ own \in Seq(STRING \cup {Dot})
  BY <1>2, <1>3, NamesRight
<1>6. name \in Seq(STRING \cup {Dot})
  BY <1>4, SeqMonotonic
<1> HIDE DEF own
<1>7. LowerCase(own) = LowerCase(name)
  BY <1>1, <1>2 DEF e
<1>8. SameName(tmp_filename[e], name)
  BY <1>5, <1>6, <1>7, LowerSameName
<1>9. /\ DOMAIN tree[d].items = 1 .. Len(tree[d].items) /\ Len(tree[d].items) \in Nat
      /\ TreeOK
  BY TreeIsOK DEF TreeOK, Directory
<1>10. total_items(d) \in Nat /\ Len(tree[d].items) <= total_items(d)
  BY <1>9, TotalIs
<1>11. i \in 1 .. total_items(d) /\ i <= Len(tree[d].items)
  BY <1>1, <1>9, <1>10
<1> QED
  BY <1>8, <1>11 DEF Matches, name, e

(***************************************************************************)
(* The search for a component, in a directory where no entry misleads,     *)
(* takes the blocks of what it returns, and nothing else.  It returns      *)
(* something if there is a block left.                                     *)
(***************************************************************************)
LEMMA SearchNamed ==
    ASSUME tree \in Trees, NEW h, IsHeap(h), NEW d \in Dirs, ~ Misleads(d),
           NEW path \in Paths, NEW k \in 1 .. Len(path)
    PROVE  LET r == Search(h, d, total_items(d), path[k]) IN
           /\ Sound(r.heap) /\ r.ptr # 0 => r.heap.used \subseteq h.used \cup ItemBlocks(r.heap, r.ptr)
           /\ (/\ h.fate = "fine" /\ ~ (Blocks \subseteq h.used) /\ ~ Gaps(d)
               /\ total_items(d) # -1 /\ Named(d, path[k]) # {}) => r.ptr # 0
<1> DEFINE M == Matches(d, total_items(d), path[k])
           r == Search(h, d, total_items(d), path[k])
<1>1. M \subseteq Named(d, path[k])
  BY MatchRight
<1>2. TreeOK
  BY TreeIsOK
<1>3. CASE M = {}
  <2>1. r = Ret(h, 0)
    BY <1>2, <1>3, SearchOne
  <2>2. r.ptr = 0
    BY <2>1 DEF Ret
  <2>3. ~ Gaps(d) /\ total_items(d) # -1 => Named(d, path[k]) = {}
    BY <1>3, MatchBack
  <2> HIDE DEF r, M
  <2> QED
    BY <2>2, <2>3 DEF r
<1>4. ASSUME NEW i \in M
      PROVE  /\ Sound(r.heap) /\ r.ptr # 0 => r.heap.used \subseteq h.used \cup ItemBlocks(r.heap, r.ptr)
             /\ h.fate = "fine" /\ ~ (Blocks \subseteq h.used) => r.ptr # 0
  <2>1. M \subseteq {i}
    BY <1>1, NamedUnique
  <2>2. i \in DOMAIN tree[d].items
    BY <1>1 DEF Named
  <2>3. r = fat16_new_fat_item_for_directory_item(h, d, i)
    BY <1>2, <2>1, SearchOne
  <2> HIDE DEF r, M
  <2> QED
    BY <1>2, <2>2, <2>3, NewItemRight
<1> HIDE DEF r, M
<1> QED
  BY <1>3, <1>4 DEF r

(***************************************************************************)
(* The way to what exists: every directory on it is there and has an entry *)
(* of the name.                                                            *)
(***************************************************************************)
LEMMA ExistsDown ==
    ASSUME NEW path \in Paths, Exists(path), NEW k \in 1 .. Len(path)
    PROVE  DirOf(path)[k] # None /\ Named(DirOf(path)[k], path[k]) # {}
<1> DEFINE n == Len(path)
           P(j) == DirOf(path)[j] # None /\ Named(DirOf(path)[j], path[j]) # {}
           S == {j \in Nat : j < n => P(n - j)}
<1>1. n \in Nat \ {0}
  BY DirOfRight
<1>2. 0 \in S
  <2>1. n - 0 = n /\ Last(path) = path[n]
    BY <1>1 DEF Last
  <2> QED
    BY <2>1 DEF Exists
<1>3. ASSUME NEW j \in S PROVE j + 1 \in S
  <2>0. j \in Nat
    OBVIOUS
  <2>1. ASSUME j + 1 < n PROVE P(n - (j + 1))
    <3> DEFINE m == n - (j + 1)
    <3>1. m \in 1 .. n /\ m + 1 = n - j /\ m + 1 <= n /\ j < n
      BY <1>1, <2>0, <2>1
    <3>2. P(m + 1)
      BY <3>1
    <3> HIDE DEF m, S, n
    <3>3. DirOf(path)[m + 1] = Below(DirOf(path)[m], path[m])
      BY <3>1, DirOfRight DEF n
    <3>4. Below(DirOf(path)[m], path[m]) # None
      BY <3>2, <3>3
    <3>5. P(m)
      BY <3>4 DEF Below
    <3> QED
      BY <3>5 DEF m
  <2> HIDE DEF P
  <2> QED
    BY <2>0, <2>1
<1>4. S = Nat
  <2> HIDE DEF S
  <2>1. S \subseteq Nat
    BY DEF S
  <2> QED
    BY <1>2, <1>3, <2>1, SetInduction
<1>5. n - k \in Nat /\ n - k < n /\ n - (n - k) = k
  BY <1>1
<1> HIDE DEF P
<1>6. n - k \in S
  BY <1>4, <1>5
<1>7. P(n - (n - k))
  BY <1>5, <1>6
<1>8. P(k)
  BY <1>5, <1>7
<1> QED
  BY <1>8 DEF P

-----------------------------------------------------------------------------
(***************************************************************************)
(* Descending stays quiet, and gives back the blocks of the item that was  *)
(* searched; the directory that is searched has an end, as it was loaded.  *)
(***************************************************************************)
LEMMA DescendNamed ==
    ASSUME tree \in Trees, NEW r, IsHeap(r.heap), Sound(r.heap), NEW d, NEW i,
           ItemFor(r.heap, r.ptr, d, i), r.heap.mem[r.ptr].type = "DIRECTORY",
           NEW path \in Paths, NEW k \in 1 .. Len(path), NEW U,
           ~ Misleads(tree[d].items[i].dir) => r.heap.used \subseteq U \cup ItemBlocks(r.heap, r.ptr)
    PROVE  LET n == Descend(r, path[k])
               e == tree[d].items[i].dir IN
           /\ Quiet(r.heap, n.heap)
           /\ ~ Misleads(e) /\ Sound(n.heap) /\ n.ptr # 0
                 => n.heap.used \subseteq U \cup ItemBlocks(n.heap, n.ptr)
           /\ ~ Misleads(e) /\ ~ Gaps(e) /\ Named(e, path[k]) # {} /\ ~ (Blocks \subseteq r.heap.used)
                 => n.ptr # 0
<1> DEFINE h == r.heap
           f == r.ptr
           p == h.mem[f].ptr
           e == tree[d].items[i].dir
           name == path[k]
           tmp == fat16_find_item_in_directory(h, p, name)
           g == fat16_fat_item_free(tmp.heap, f)
           n == Descend(r, name)
<1>1. n = IF tmp.heap.fate # "fine" THEN tmp ELSE Ret(g, tmp.ptr)
  BY DEF Descend, Replace
<1>2. FolderFor(h, f, d, i) /\ d \in Dirs /\ i \in DOMAIN tree[d].items
  BY DEF ItemFor, FileFor
<1>3. e \in Dirs
  <2>1. Holds(tree[d].items[i]) /\ tree[d].items[i].kind = "directory"
    BY <1>2, EntryIs DEF FolderFor
  <2> QED
    BY <2>1 DEF Holds
<1>4. DirFor(h, p, e) /\ total_items(e) # -1
  BY <1>2 DEF FolderFor, DirFor
<1>5. tmp = Search(h, e, total_items(e), name)
  <2> HIDE DEF p, e, h
  <2> QED
    BY <1>4, FindRight DEF h
<1>6. /\ IsHeap(h) /\ ItemFor(h, f, d, i) /\ Sound(h) /\ name = path[k] /\ TreeOK
      /\ ~ Misleads(e) => h.used \subseteq U \cup ItemBlocks(h, f)
  BY TreeIsOK
<1> HIDE DEF h, f, p, tmp, e, n
<1>7. Found(h, e, total_items(e), name, tmp)
  BY <1>3, <1>5, <1>6, SearchRight
<1>8. ~ Misleads(e) =>
        /\ Sound(tmp.heap) /\ tmp.ptr # 0
              => tmp.heap.used \subseteq h.used \cup ItemBlocks(tmp.heap, tmp.ptr)
        /\ ~ (Blocks \subseteq h.used) /\ ~ Gaps(e) /\ Named(e, path[k]) # {} => tmp.ptr # 0
  BY <1>3, <1>4, <1>5, <1>6, SearchNamed DEF Sound
<1>9. /\ IsHeap(tmp.heap) /\ Freed(tmp.heap, g) /\ Quiet(h, tmp.heap)
      /\ Sound(tmp.heap) => Extends(h, tmp.heap)
  <2>1. IsHeap(tmp.heap) /\ Quiet(h, tmp.heap) /\ (Sound(tmp.heap) => Extends(h, tmp.heap))
    BY <1>7 DEF Found, Added
  <2> QED
    BY <2>1, FreeItemFreed
<1>10. Sound(tmp.heap) => g.used = tmp.heap.used \ ItemBlocks(h, f) /\ g.fate = tmp.heap.fate
  <2> SUFFICES ASSUME Sound(tmp.heap)
               PROVE  g.used = tmp.heap.used \ ItemBlocks(h, f) /\ g.fate = tmp.heap.fate
    OBVIOUS
  <2>1. ItemBlocks(h, f) \subseteq h.used
    BY <1>6, ItemBlocksUsed
  <2>2. ItemFor(tmp.heap, f, d, i) /\ ItemBlocks(tmp.heap, f) = ItemBlocks(h, f)
    BY <1>6, <1>9, <2>1, ItemKept DEF Extends
  <2> QED
    BY <1>9, <2>2, FreeItemExact
<1> HIDE DEF g
<1>11. /\ n.ptr = tmp.ptr /\ n.heap.failed = tmp.heap.failed
       /\ ~ tmp.heap.failed => n.heap.fate = tmp.heap.fate
       /\ tmp.heap.fate = "fine" => n.heap = g
  BY <1>1, <1>9, <1>10 DEF Ret, Freed, Sound
<1>12. Quiet(h, n.heap)
  BY <1>9, <1>11 DEF Quiet
<1>13. ASSUME ~ Misleads(e), Sound(n.heap), n.ptr # 0
       PROVE  n.heap.used \subseteq U \cup ItemBlocks(n.heap, n.ptr)
  <2>1. Sound(tmp.heap) /\ n.heap = g /\ g.mem = tmp.heap.mem
    BY <1>9, <1>11, <1>13 DEF Sound, Freed
  <2>2. ItemBlocks(g, tmp.ptr) = ItemBlocks(tmp.heap, tmp.ptr)
    BY <2>1 DEF ItemBlocks
  <2>3. /\ tmp.heap.used \subseteq h.used \cup ItemBlocks(tmp.heap, tmp.ptr)
        /\ g.used = tmp.heap.used \ ItemBlocks(h, f) /\ h.used \subseteq U \cup ItemBlocks(h, f)
    BY <1>6, <1>8, <1>10, <1>11, <1>13, <2>1
  <2> QED
    BY <1>11, <2>1, <2>2, <2>3
<1> QED
  BY <1>8, <1>11, <1>12, <1>13 DEF n, h, e

-----------------------------------------------------------------------------
(***************************************************************************)
(* How the walk along a path can have gone wrong after k components, if it *)
(* began in a heap b with which all was well and every directory on the    *)
(* way could be loaded.                                                    *)
(***************************************************************************)
Whole(path) == Exists(path) /\ ~ Obstructed(path)

\* More than an item's blocks are free.
Ample(b) == ~ \E x, y, z : Blocks \ b.used \subseteq {x, y, z}

Steady(b, path, k, r) ==
    /\ k = 1 /\ r.ptr = 0 => r.stop
    /\ ~ r.heap.failed =>
          /\ r.heap.fate = "hung" => Endless
          /\ r.heap.fate = "wild" => k > 2 /\ ~ (Ample(b) /\ Whole(path))
          /\ r.heap.fate = "fine" /\ Ample(b) /\ Whole(path) => r.ptr # 0
          /\ (r.heap.fate = "fine" /\ r.ptr # 0 /\ ~ \E s \in Searched(path) : Misleads(s))
                => r.heap.used \subseteq b.used \cup ItemBlocks(r.heap, r.ptr)

LEMMA FirstPartSteady ==
    ASSUME tree \in Trees, NEW b, IsHeap(b), Sound(b), NEW path \in Paths
    PROVE  Steady(b, path, 1, FirstPart(b, path[1]))
<1> DEFINE root == Search(b, Root, total_items(Root), path[1])
           r    == FirstPart(b, path[1])
<1>1. /\ Root \in Dirs /\ Root # None /\ TreeOK /\ tree[Root].behind # -1
      /\ 1 \in 1 .. Len(path) /\ DirOf(path)[1] = Root
  BY LookupAssumption, TreeIsOK, DirOfRight
<1>2. Found(b, Root, total_items(Root), path[1], root)
  BY <1>1, SearchRight
<1>3. Root \in Searched(path) /\ total_items(Root) # -1
  BY <1>1, TotalIs DEF Searched
<1>4. r.heap = root.heap /\ r.ptr = root.ptr /\ r.stop = (root.ptr = 0)
  BY DEF FirstPart, At
<1>5. ~ Misleads(Root) =>
        /\ Sound(root.heap) /\ root.ptr # 0
              => root.heap.used \subseteq b.used \cup ItemBlocks(root.heap, root.ptr)
        /\ ~ (Blocks \subseteq b.used) /\ ~ Gaps(Root) /\ Named(Root, path[1]) # {} => root.ptr # 0
  BY <1>1, <1>3, SearchNamed DEF Sound
<1> HIDE DEF root, r
<1>6. ~ root.heap.failed => root.heap.fate = "fine" \/ (root.heap.fate = "hung" /\ Endless)
  BY <1>2 DEF Found, Quiet, Sound
<1>7. Ample(b) => ~ (Blocks \subseteq b.used)
  BY DEF Ample
<1>8. Whole(path) => ~ Misleads(Root) /\ ~ Gaps(Root) /\ Named(Root, path[1]) # {}
  BY <1>1, <1>3, ExistsDown DEF Whole, Obstructed
<1>9. Steady(b, path, 1, r)
  BY <1>3, <1>4, <1>5, <1>6, <1>7, <1>8 DEF Steady, Sound
<1> QED
  BY <1>9 DEF r

LEMMA DescendLatched ==
    ASSUME TreeOK, NEW r, IsHeap(r.heap), r.ptr \in Blocks, r.heap.mem[r.ptr].is = "fat_item",
           r.heap.failed, NEW name
    PROVE  Descend(r, name).heap.failed
<1> DEFINE h == r.heap
           p == h.mem[r.ptr].ptr
           tmp == fat16_find_item_in_directory(h, p, name)
           g == fat16_fat_item_free(tmp.heap, r.ptr)
           n == Descend(r, name)
<1>1. n = IF tmp.heap.fate # "fine" THEN tmp ELSE Ret(g, tmp.ptr)
  BY DEF Descend, Replace
<1>2. p \in Blocks \cup {0}
  BY DEF IsHeap, Content
<1>3. h.failed /\ IsHeap(h)
  OBVIOUS
<1> HIDE DEF h, p, n
<1>4. tmp.heap.failed /\ IsHeap(tmp.heap)
  BY <1>2, <1>3, FindTyped DEF Typed, Added
<1> HIDE DEF tmp
<1>5. g.failed = tmp.heap.failed
  BY <1>4, FreeItemFreed DEF Freed
<1> HIDE DEF g
<1>6. n.heap.failed
  BY <1>1, <1>4, <1>5 DEF Ret
<1> QED
  BY <1>6 DEF n

LEMMA NextPartSteady ==
    ASSUME tree \in Trees, NEW b, NEW path \in Paths, NEW k \in 1 .. Len(path), k + 1 <= Len(path),
           NEW r, Walked(b, path, k, r), Steady(b, path, k, r), NEW low \in BOOLEAN
    PROVE  Steady(b, path, k + 1, NextPart(r, path[k + 1], low))
<1> DEFINE name == path[k + 1]
           n    == NextPart(r, name, low)
<1>1. /\ IsHeap(r.heap) /\ DOMAIN r = {"heap", "ptr", "stop"} /\ r.stop \in BOOLEAN
      /\ r.ptr \in Blocks \cup {0} /\ (r.ptr # 0 => r.heap.mem[r.ptr].is = "fat_item")
      /\ (r.stop => r.ptr = 0) /\ (Sound(r.heap) /\ r.ptr # 0 => ItemAt(r.heap, b, path, k, r.ptr))
  BY DEF Walked, Typed, Added
<1>2. k \in Nat \ {0} /\ k + 1 # 1 /\ k + 1 \in 1 .. Len(path) /\ (k > 2 => k + 1 > 2)
  BY DirOfRight
<1> HIDE DEF name
<1>3. CASE r.heap.fate # "fine" \/ r.stop
  <2>1. n = r
    BY <1>3 DEF NextPart
  <2>2. Steady(b, path, k + 1, r)
    BY <1>1, <1>2, <1>3 DEF Steady
  <2> QED
    BY <2>1, <2>2 DEF name
<1>4. ASSUME r.heap.fate = "fine", ~ r.stop, r.ptr = 0
      PROVE  Steady(b, path, k + 1, n)
  <2> DEFINE g == IF low THEN Wild(r.heap) ELSE r.heap
  <2>1. n = [r EXCEPT !.heap = g, !.stop = TRUE]
    BY <1>4 DEF NextPart
  <2>2. g.failed = r.heap.failed /\ g.fate \in {"fine", "wild"}
    BY <1>1, <1>4, WildRight
  <2> HIDE DEF g, n
  <2>3. n.heap = g /\ n.ptr = 0 /\ n.stop = TRUE
    BY <1>1, <1>4, <2>1
  <2>4. k # 1 /\ (~ r.heap.failed => ~ (Ample(b) /\ Whole(path)))
    BY <1>4 DEF Steady
  <2>5. k + 1 > 2
    BY <1>2, <2>4
  <2> QED
    BY <2>2, <2>3, <2>4, <2>5 DEF Steady
<1>5. ASSUME r.heap.fate = "fine", ~ r.stop, r.ptr # 0,
             NEW d \in Dirs, NEW i \in DOMAIN tree[d].items,
             ~ r.heap.failed => ItemFor(r.heap, r.ptr, d, i) /\ Right(path, k, d, i)
      PROVE  Steady(b, path, k + 1, n)
  <2> DEFINE e == tree[d].items[i].dir
  <2>0. ASSUME ~ \E s \in Searched(path) : Misleads(s), ~ r.heap.failed
        PROVE  /\ DirOf(path)[k + 1] = e
               /\ tree[d].items[i].kind = "directory" <=> e # None
               /\ e # None => e \in Searched(path)
    <3>1. DirOf(path)[k] = d /\ i \in Named(d, path[k])
      BY <1>5, <2>0 DEF Right
    <3>2. d # None
      BY LookupAssumption
    <3> DEFINE c0 == CHOOSE c \in Named(d, path[k]) : TRUE
    <3>3. c0 \in Named(d, path[k])
      BY <3>1, Zenon
    <3>4. Below(d, path[k]) = tree[d].items[c0].dir
      BY <3>1, <3>2, Zenon DEF Below
    <3> HIDE DEF c0
    <3>5. c0 = i
      BY <3>1, <3>3, NamedUnique
    <3>6. DirOf(path)[k + 1] = Below(d, path[k])
      BY <3>1, DirOfRight
    <3>7. DirOf(path)[k + 1] = e
      BY <3>4, <3>5, <3>6
    <3>8. Holds(tree[d].items[i])
      BY EntryIs
    <3>9. e # None => e \in Searched(path)
      <4> HIDE DEF e
      <4> QED
        BY <1>2, <3>7 DEF Searched
    <3> QED
      BY <3>7, <3>8, <3>9 DEF Holds
  <2>1. ASSUME Whole(path), ~ r.heap.failed
        PROVE  /\ e # None /\ tree[d].items[i].kind = "directory"
               /\ ~ Misleads(e) /\ ~ Gaps(e) /\ Named(e, path[k + 1]) # {}
    <3>1. /\ DirOf(path)[k + 1] = e /\ (tree[d].items[i].kind = "directory" <=> e # None)
          /\ e # None => e \in Searched(path)
      BY <2>0, <2>1 DEF Whole, Obstructed
    <3> HIDE DEF e
    <3>2. e # None /\ Named(e, path[k + 1]) # {}
      BY <1>2, <2>1, <3>1, ExistsDown DEF Whole
    <3> QED
      BY <2>1, <3>1, <3>2 DEF Whole, Obstructed
  <2>2. CASE r.heap.mem[r.ptr].type # "DIRECTORY"
    <3>1. n = [r EXCEPT !.ptr = 0, !.stop = TRUE]
      BY <1>5, <2>2 DEF NextPart
    <3> HIDE DEF n
    <3>2. n.heap = r.heap /\ n.ptr = 0 /\ n.stop = TRUE
      BY <1>1, <3>1
    <3>3. ~ r.heap.failed => tree[d].items[i].kind # "directory"
      BY <1>5, <2>2 DEF ItemFor, FileFor, FolderFor
    <3>4. ~ r.heap.failed => ~ Whole(path)
      BY <2>1, <3>3
    <3> QED
      BY <1>2, <1>5, <3>2, <3>4 DEF Steady
  <2>3. CASE r.heap.mem[r.ptr].type = "DIRECTORY"
    <3> DEFINE m == Descend(r, name)
    <3>1. n.heap = m.heap /\ n.ptr = m.ptr
      BY <1>5, <2>3 DEF NextPart, At
    <3>2. r.heap.failed => m.heap.failed
      <4>1. TreeOK /\ r.ptr \in Blocks /\ r.heap.mem[r.ptr].is = "fat_item"
        BY <1>1, <1>5, TreeIsOK
      <4> HIDE DEF m
      <4> QED
        BY <1>1, <4>1, DescendLatched DEF m
    <3>3. ASSUME ~ r.heap.failed
          PROVE  /\ Quiet(r.heap, m.heap)
                 /\ ~ Misleads(e) /\ ~ (\E s \in Searched(path) : Misleads(s)) /\ Sound(m.heap) /\ m.ptr # 0
                       => m.heap.used \subseteq b.used \cup ItemBlocks(m.heap, m.ptr)
                 /\ ~ Misleads(e) /\ ~ Gaps(e) /\ Named(e, name) # {} /\ ~ (Blocks \subseteq r.heap.used)
                       => m.ptr # 0
      <4> DEFINE U == IF \E s \in Searched(path) : Misleads(s) THEN r.heap.used ELSE b.used
      <4>1. r.heap.used \subseteq U \cup ItemBlocks(r.heap, r.ptr)
        BY <1>5, <3>3 DEF Steady
      <4>2. Sound(r.heap) /\ ItemFor(r.heap, r.ptr, d, i)
        BY <1>5, <3>3 DEF Sound
      <4>3. ~ (\E s \in Searched(path) : Misleads(s)) => U = b.used
        OBVIOUS
      <4> HIDE DEF U, m, e
      <4>4. tree \in Trees /\ IsHeap(r.heap) /\ path \in Paths /\ k + 1 \in 1 .. Len(path)
        BY <1>1, <1>2
      <4>5. /\ Quiet(r.heap, m.heap)
            /\ ~ Misleads(e) /\ Sound(m.heap) /\ m.ptr # 0
                  => m.heap.used \subseteq U \cup ItemBlocks(m.heap, m.ptr)
            /\ ~ Misleads(e) /\ ~ Gaps(e) /\ Named(e, name) # {} /\ ~ (Blocks \subseteq r.heap.used)
                  => m.ptr # 0
        BY ONLY <2>3, <4>1, <4>2, <4>4, DescendNamed DEF m, e, name
      <4> QED
        BY <4>3, <4>5
    <3> HIDE DEF m, n, e
    <3>4. ASSUME ~ m.heap.failed
          PROVE  /\ ~ r.heap.failed
                 /\ m.heap.fate = "fine" \/ (m.heap.fate = "hung" /\ Endless)
      BY <1>5, <3>2, <3>3, <3>4 DEF Quiet
    <3>5. ASSUME ~ m.heap.failed, Ample(b), Whole(path) PROVE m.ptr # 0
      <4>1. ~ r.heap.failed
        BY <3>4, <3>5
      <4>2. ~ Misleads(e) /\ ~ Gaps(e) /\ Named(e, name) # {}
        BY <2>1, <3>5, <4>1 DEF name, e
      <4>3. r.heap.used \subseteq b.used \cup ItemBlocks(r.heap, r.ptr)
        BY <1>5, <3>5, <4>1 DEF Steady, Whole, Obstructed
      <4>4. ItemBlocks(r.heap, r.ptr)
               \subseteq {r.ptr, r.heap.mem[r.ptr].ptr, r.heap.mem[r.heap.mem[r.ptr].ptr].item}
        BY DEF ItemBlocks
      <4>5. ~ (Blocks \subseteq r.heap.used)
        BY <3>5, <4>3, <4>4 DEF Ample
      <4> QED
        BY <3>3, <4>1, <4>2, <4>5
    <3>6. ASSUME ~ m.heap.failed, m.heap.fate = "fine", m.ptr # 0, ~ \E s \in Searched(path) : Misleads(s)
          PROVE  m.heap.used \subseteq b.used \cup ItemBlocks(m.heap, m.ptr)
      <4>1. ~ r.heap.failed /\ Sound(m.heap)
        BY <3>4, <3>6 DEF Sound
      <4>2. tree[d].items[i].kind = "directory"
        BY <1>5, <2>3, <4>1 DEF ItemFor, FileFor, FolderFor
      <4>3. ~ Misleads(e)
        BY <2>0, <3>6, <4>1, <4>2 DEF e
      <4> QED
        BY <3>3, <3>6, <4>1, <4>3
    <3>7. Steady(b, path, k + 1, m)
      BY <1>2, <3>4, <3>5, <3>6 DEF Steady
    <3> QED
      BY <1>2, <3>1, <3>7 DEF Steady
  <2> QED
    BY <2>2, <2>3
<1>6. ASSUME r.heap.fate = "fine", ~ r.stop, r.ptr # 0
      PROVE  Steady(b, path, k + 1, n)
  <2> HIDE DEF n
  <2>1. CASE r.heap.failed
    <3>1. CASE r.heap.mem[r.ptr].type # "DIRECTORY"
      <4>1. n = [r EXCEPT !.ptr = 0, !.stop = TRUE]
        BY <1>6, <3>1 DEF NextPart, n
      <4>2. n.heap = r.heap
        BY <1>1, <4>1
      <4> QED
        BY <1>2, <2>1, <4>2 DEF Steady
    <3>2. CASE r.heap.mem[r.ptr].type = "DIRECTORY"
      <4>1. n.heap = Descend(r, name).heap
        BY <1>6, <3>2 DEF NextPart, At, n
      <4>2. TreeOK /\ r.ptr \in Blocks /\ r.heap.mem[r.ptr].is = "fat_item"
        BY <1>1, <1>6, TreeIsOK
      <4>3. n.heap.failed
        BY <1>1, <2>1, <4>1, <4>2, DescendLatched
      <4> QED
        BY <1>2, <4>3 DEF Steady
    <3> QED
      BY <3>1, <3>2
  <2>2. CASE ~ r.heap.failed
    <3>1. ItemAt(r.heap, b, path, k, r.ptr)
      BY <1>1, <1>6, <2>2 DEF Sound
    <3> QED
      BY <1>5, <1>6, <3>1 DEF ItemAt
  <2> QED
    BY <2>1, <2>2
<1> QED
  BY <1>1, <1>3, <1>4, <1>6 DEF name

LEMMA WalkSteady ==
    ASSUME tree \in Trees, NEW b, IsHeap(b), Sound(b), NEW path \in Paths, NEW low \in BOOLEAN
    PROVE  Steady(b, path, Len(path), fat16_get_directory_entry(b, path, low))
<1> DEFINE n == Len(path)
<1>1. n \in Nat \ {0}
  BY DirOfRight
<1>2. PICK s : Walks(b, path, low, s)
  BY WalkSteps
<1> DEFINE P(k) == Walked(b, path, k, s[k]) /\ Steady(b, path, k, s[k])
           S == {k \in Nat : k + 1 <= n => P(k + 1)}
<1>3. P(1)
  BY <1>2, FirstPartRight, FirstPartSteady DEF Walks
<1>4. ASSUME NEW k \in 1 .. n, k + 1 <= n, P(k) PROVE P(k + 1)
  <2>1. s[k + 1] = NextPart(s[k], path[k + 1], low)
    BY <1>2, <1>4 DEF Walks
  <2> QED
    BY <1>4, <2>1, NextPartRight, NextPartSteady
<1> HIDE DEF P
<1>5. 0 \in S
  BY <1>3
<1>6. ASSUME NEW k \in S PROVE k + 1 \in S
  <2>0. k \in Nat /\ k + 1 \in Nat
    OBVIOUS
  <2>1. ASSUME (k + 1) + 1 <= n PROVE P((k + 1) + 1)
    <3>1. k + 1 \in 1 .. n /\ k + 1 <= n
      BY <1>1, <2>0, <2>1
    <3>2. P(k + 1)
      BY <3>1
    <3> HIDE DEF S, n
    <3> QED
      BY <1>4, <2>1, <3>1, <3>2
  <2> QED
    BY <2>0, <2>1
<1>7. S = Nat
  <2> HIDE DEF S
  <2>1. S \subseteq Nat
    BY DEF S
  <2> QED
    BY <1>5, <1>6, <2>1, SetInduction
<1>8. n - 1 \in Nat /\ (n - 1) + 1 = n
  BY <1>1
<1>9. P(n)
  <2>1. n - 1 \in S
    BY <1>7, <1>8
  <2>2. (n - 1) + 1 <= n => P((n - 1) + 1)
    BY <2>1
  <2> QED
    BY <1>1, <1>8, <2>2
<1> QED
  BY <1>2, <1>9 DEF P, Walks

(***************************************************************************)
(* Seven free blocks are enough to begin with.                             *)
(***************************************************************************)
LEMMA RoomIsAmple ==
    ASSUME Room, NEW b, NEW at, b.used \subseteq heap.used \cup {at}
    PROVE  Ample(b)
<1> SUFFICES ASSUME NEW x, NEW y, NEW z, Blocks \ b.used \subseteq {x, y, z} PROVE FALSE
  BY DEF Ample
<1>1. Blocks \ heap.used \subseteq {at, x, y, z}
  OBVIOUS
<1>2. IsFiniteSet({at, x, y, z}) /\ Cardinality({at, x, y, z}) <= 4
  <2>1. /\ IsFiniteSet({}) /\ Cardinality({}) = 0
        /\ IsFiniteSet({z}) /\ Cardinality({z}) = 1
    BY FS_EmptySet, FS_Singleton
  <2>2. IsFiniteSet({z} \cup {y}) /\ Cardinality({z} \cup {y}) \in {1, 2}
    BY <2>1, FS_AddElement
  <2>3. IsFiniteSet({z} \cup {y} \cup {x}) /\ Cardinality({z} \cup {y} \cup {x}) \in {1, 2, 3}
    BY <2>2, FS_AddElement
  <2>4. /\ IsFiniteSet({z} \cup {y} \cup {x} \cup {at})
        /\ Cardinality({z} \cup {y} \cup {x} \cup {at}) \in {1, 2, 3, 4}
    BY <2>3, FS_AddElement
  <2>5. {z} \cup {y} \cup {x} \cup {at} = {at, x, y, z}
    OBVIOUS
  <2> QED
    BY <2>4, <2>5
<1>3. Cardinality(Blocks \ heap.used) <= Cardinality({at, x, y, z})
  BY <1>1, <1>2, FS_Subset
<1>4. /\ Cardinality(Blocks \ heap.used) \in Nat /\ Cardinality({at, x, y, z}) \in Nat
  BY <1>1, <1>2, FS_Subset, FS_CardinalityType
<1> QED
  BY <1>2, <1>3, <1>4 DEF Room

-----------------------------------------------------------------------------
(***************************************************************************)
(* Blocks are lost that are in use and belong neither to an open           *)
(* descriptor nor to the rest of the kernel.                               *)
(***************************************************************************)
Unreached(h, o, ot) == h.used \ (ot \cup UNION {BlocksOf(h, d) : d \in o})

LEMMA LostIs == LookupInv /\ Sound(heap) => Lost = Unreached(heap, open, others)
<1> SUFFICES ASSUME LookupInv, Sound(heap) PROVE Lost = Unreached(heap, open, others)
  OBVIOUS
<1>1. \A d \in open : Reach(d) = BlocksOf(heap, d)
  BY ReachIs DEF LookupInv, Apart
<1>2. {Reach(d) : d \in open} = {BlocksOf(heap, d) : d \in open}
  BY <1>1
<1> QED
  BY <1>2, Zenon DEF Lost, Unreached

LEMMA LostLater == LookupInv' /\ Sound(heap)' => Lost' = Unreached(heap', open', others')
<1>1. LookupInv' /\ Sound(heap)' => (Lost = Unreached(heap, open, others))'
  BY LostIs, PTL
<1> QED
  BY <1>1 DEF Unreached, BlocksOf, ItemBlocks

(***************************************************************************)
(* What each step can do wrong.                                            *)
(***************************************************************************)
Only ==
    /\ ~ heap.failed
    /\ (Room /\ last' # last /\ last'.result = "EIO" /\ Exists(last'.path)) => Obstructed(last'.path)
    /\ (Room /\ heap'.fate = "wild")
          => Len(last'.path) > 2 /\ (~ Exists(last'.path) \/ Obstructed(last'.path))
    /\ heap'.fate = "hung" => \E d \in Dirs : tree[d].behind = -1
    /\ heap'.fate = "fine" =>
          \/ Unreached(heap', open', others') \subseteq Unreached(heap, open, others)
          \/ last'.result = "EIO" \/ \E s \in Searched(last'.path) : Misleads(s)

LEMMA OpenOnly ==
    ASSUME LookupInv, NEW path \in Paths, NEW mode, NEW low \in BOOLEAN, fat16_open(path, mode, low),
           heap.fate = "fine", ~ heap'.failed
    PROVE  Only
<1>1. /\ tree \in Trees /\ IsHeap(heap) /\ open \subseteq [at : Blocks, path : Paths]
      /\ Apart(heap, open, others) /\ others' = others
  BY DEF LookupInv, fat16_open
<1>2. CASE last' = [NoOpen EXCEPT !.result = "ERDONLY"] /\ UNCHANGED <<heap, open>>
  <2>1. last'.result = "ERDONLY"
    BY <1>2 DEF NoOpen
  <2> QED
    BY <1>1, <1>2, <2>1 DEF Only
<1> DEFINE descriptor == kzalloc(heap)
           at    == descriptor.ptr
           b     == descriptor.heap
           found == fat16_get_directory_entry(b, path, low)
<1>3. CASE Opened(path, at, found)
  <2>1. /\ Added(heap, b) /\ IsHeap(b) /\ b.fate = heap.fate /\ b.failed = heap.failed
        /\ at # 0 => at \in Blocks \ heap.used /\ at \in b.used
        /\ b.used \subseteq heap.used \cup {at}
    <3>1. /\ \/ at = 0 /\ b = heap
             \/ at \in Blocks \ heap.used /\ b.used = heap.used \cup {at}
          /\ b.fate = heap.fate /\ b.failed = heap.failed
      BY <1>1, AllocRight
    <3>2. Added(heap, b) /\ IsHeap(b)
      BY <1>1, AllocAdded, AllocRight
    <3> HIDE DEF descriptor
    <3> QED
      BY <3>1, <3>2
  <2>2. Walked(b, path, Len(path), found)
    <3> HIDE DEF descriptor
    <3> QED
      BY <1>1, <2>1, WalkRight
  <2>3. ~ heap.failed => Steady(b, path, Len(path), found)
    <3> SUFFICES ASSUME ~ heap.failed PROVE Steady(b, path, Len(path), found)
      OBVIOUS
    <3>1. Sound(b)
      BY <2>1 DEF Sound
    <3> HIDE DEF descriptor
    <3> QED
      BY <1>1, <2>1, <3>1, WalkSteady
  <2> HIDE DEF found, at, b
  <2>4. /\ Added(b, found.heap) /\ Added(heap, found.heap) /\ IsHeap(found.heap)
        /\ found.ptr \in Blocks \cup {0}
    BY <2>1, <2>2, AddedTwice DEF Walked, Typed, Added
  <2>5. Room => Ample(b)
    BY <2>1, RoomIsAmple
  <2>6. CASE last' = [path |-> path, result |-> "ENOMEM"] /\ UNCHANGED <<heap, open>>
    BY <1>1, <2>6 DEF Only
  <2>7. CASE /\ heap' = found.heap /\ UNCHANGED open /\ found.heap.fate # "fine"
             /\ last' = [path |-> path, result |-> "none"]
    <3>1. ~ found.heap.failed /\ ~ heap.failed /\ last'.path = path /\ last'.result = "none"
      BY <2>4, <2>7 DEF Added
    <3>2. Room /\ found.heap.fate = "wild" => Len(path) > 2 /\ ~ Whole(path)
      BY <2>3, <2>5, <3>1 DEF Steady
    <3>3. found.heap.fate = "hung" => Endless
      BY <2>3, <3>1 DEF Steady
    <3> QED
      BY <2>7, <3>1, <3>2, <3>3 DEF Only, Whole, Endless
  <2>8. CASE /\ heap' = found.heap /\ UNCHANGED open /\ found.heap.fate = "fine" /\ found.ptr = 0
             /\ last' = [path |-> path, result |-> "EIO"]
    <3>1. ~ found.heap.failed /\ ~ heap.failed /\ last'.path = path /\ last'.result = "EIO"
      BY <2>4, <2>8 DEF Added
    <3>2. Room => ~ Whole(path)
      BY <2>3, <2>5, <2>8, <3>1 DEF Steady
    <3> QED
      BY <2>8, <3>1, <3>2 DEF Only, Whole
  <2>9. CASE /\ at # 0 /\ found.heap.fate = "fine" /\ found.ptr # 0
             /\ heap' = Put(found.heap, at, [is |-> "descriptor", item |-> found.ptr])
             /\ open' = open \cup {[at |-> at, path |-> path]}
             /\ last' = [path |-> path, result |-> "descriptor"]
    <3> DEFINE x   == [is |-> "descriptor", item |-> found.ptr]
               new == [at |-> at, path |-> path]
    <3>1. last'.path = path /\ last'.result = "descriptor"
      BY <2>9
    <3>2. Content(x) /\ x.is = "descriptor" /\ x.item = found.ptr /\ new.at = at /\ new.path = path
      BY <2>4, <2>9 DEF Content
    <3>3. heap' = Put(found.heap, at, x) /\ open' = open \cup {new}
      BY <2>9
    <3> HIDE DEF x, new
    <3>4. /\ heap'.fate = "fine" /\ heap'.failed = found.heap.failed /\ heap'.used = found.heap.used
          /\ \A c \in Blocks : heap'.mem[c] = IF c = at THEN x ELSE found.heap.mem[c]
      BY <2>4, <2>9, <3>2, <3>3, PutRight
    <3>5. Added(heap, heap') /\ Sound(heap') /\ Sound(found.heap) /\ Sound(heap)
      <4>1. Added(heap, heap')
        BY <1>1, <2>1, <2>4, <2>9, <3>2, <3>3, PutAdded
      <4>2. Sound(heap')
        BY <3>4 DEF Sound
      <4>3. ~ found.heap.failed
        BY <2>4, <3>4
      <4>4. Sound(found.heap)
        BY <2>9, <4>3 DEF Sound
      <4> QED
        BY <4>1, <4>2, <4>4 DEF Added
    <3>6. \A d \in open : BlocksOf(heap', d) = BlocksOf(heap, d)
      BY <1>1, <3>5, Grown
    <3>7. (\A s \in Searched(path) : ~ Misleads(s)) => heap'.used \subseteq heap.used \cup BlocksOf(heap', new)
      <4> SUFFICES ASSUME \A s \in Searched(path) : ~ Misleads(s)
                   PROVE  heap'.used \subseteq heap.used \cup BlocksOf(heap', new)
        OBVIOUS
      <4>1. found.heap.used \subseteq b.used \cup ItemBlocks(found.heap, found.ptr)
        BY <2>3, <2>9, <3>5 DEF Steady, Sound
      <4>2. ItemAt(found.heap, b, path, Len(path), found.ptr)
        BY <2>2, <2>9, <3>5 DEF Walked
      <4>3. PICK e \in Dirs : \E i \in DOMAIN tree[e].items :
                ItemFor(found.heap, found.ptr, e, i) /\ ItemBlocks(found.heap, found.ptr) \cap b.used = {}
        BY <4>2 DEF ItemAt
      <4>4. PICK i \in DOMAIN tree[e].items :
                ItemFor(found.heap, found.ptr, e, i) /\ ItemBlocks(found.heap, found.ptr) \cap b.used = {}
        BY <4>3
      <4>5. ItemBlocks(found.heap, found.ptr) \subseteq found.heap.used /\ found.heap.used \subseteq Blocks
        BY <2>4, <4>4, ItemBlocksUsed DEF IsHeap
      <4>6. \A c \in ItemBlocks(found.heap, found.ptr) : heap'.mem[c] = found.heap.mem[c]
        BY <2>1, <2>9, <3>4, <4>4, <4>5
      <4>7. IsHeap(heap')
        BY <3>5 DEF Added
      <4>8. ItemBlocks(heap', found.ptr) = ItemBlocks(found.heap, found.ptr)
        BY <2>4, <3>4, <4>4, <4>5, <4>6, <4>7, ItemKept
      <4>9. heap'.mem[at] = x
        BY <2>1, <2>9, <3>4
      <4>10. BlocksOf(heap', new) = {at} \cup ItemBlocks(found.heap, found.ptr)
        BY <3>2, <4>8, <4>9 DEF BlocksOf
      <4> QED
        BY <2>1, <3>4, <4>1, <4>10
    <3>8. (\A s \in Searched(path) : ~ Misleads(s)) =>
             Unreached(heap', open', others') \subseteq Unreached(heap, open, others)
      <4> SUFFICES ASSUME \A s \in Searched(path) : ~ Misleads(s), NEW c \in Unreached(heap', open', others')
                   PROVE  c \in Unreached(heap, open, others)
        OBVIOUS
      <4>1. /\ c \in heap'.used /\ c \notin others
            /\ \A d \in open \cup {new} : c \notin BlocksOf(heap', d)
        BY <1>1, <3>3 DEF Unreached
      <4>2. c \in heap.used /\ \A d \in open : c \notin BlocksOf(heap, d)
        BY <3>6, <3>7, <4>1
      <4> QED
        BY <4>1, <4>2 DEF Unreached
    <3> QED
      BY <3>1, <3>4, <3>5, <3>8 DEF Only, Sound
  <2> QED
    BY <1>3, <2>6, <2>7, <2>8, <2>9 DEF Opened
<1>4. \/ last' = [NoOpen EXCEPT !.result = "ERDONLY"] /\ UNCHANGED <<heap, open>>
      \/ Opened(path, at, found)
  BY DEF fat16_open
<1> QED
  BY <1>2, <1>3, <1>4

(***************************************************************************)
(* fat16_close frees the blocks of its descriptor, which is one, and so    *)
(* leaves none behind that were reached from it.                           *)
(***************************************************************************)
LEMMA CloseOnly ==
    ASSUME LookupInv, NEW d \in open, fat16_close(d), heap.fate = "fine", ~ heap'.failed
    PROVE  Only
<1> DEFINE f == heap.mem[d.at].item
           k == fat16_fat_item_free(heap, f)
<1>1. /\ IsHeap(heap) /\ Apart(heap, open, others) /\ others' = others /\ open' = open \ {d}
      /\ last'.result = "none"
      /\ heap' = IF heap.mem[d.at].is # "descriptor" THEN Wild(heap) ELSE kfree(k, d.at)
  BY DEF LookupInv, fat16_close, NoOpen
<1>2. Freed(heap, k) /\ IsHeap(k)
  BY <1>1, FreeItemFreed DEF Freed
<1>3. ~ heap.failed
  <2>1. Wild(heap).failed = heap.failed
    BY <1>1, WildRight
  <2>2. kfree(k, d.at).failed = heap.failed
    <3> HIDE DEF k
    <3> QED
      BY <1>2, FreeRight DEF Freed
  <2> QED
    BY <1>1, <2>1, <2>2
<1>4. Sound(heap)
  BY <1>3 DEF Sound
<1>5. Descriptor(heap, d)
  BY <1>1, <1>4 DEF Apart
<1>6. PICK e \in Dirs : \E i \in DOMAIN tree[e].items : ItemFor(heap, f, e, i)
  BY <1>5 DEF Descriptor
<1>7. PICK i \in DOMAIN tree[e].items : ItemFor(heap, f, e, i)
  BY <1>6
<1>8. k.used = heap.used \ ItemBlocks(heap, f) /\ k.fate = "fine"
  <2> HIDE DEF f
  <2> QED
    BY <1>1, <1>7, FreeItemExact DEF k
<1>9. heap' = kfree(k, d.at)
  BY <1>1, <1>5 DEF Descriptor
<1> HIDE DEF k
<1>10. /\ heap'.used = heap.used \ BlocksOf(heap, d) /\ heap'.fate = "fine" /\ heap'.mem = heap.mem
  BY <1>2, <1>8, <1>9, FreeRight DEF Freed, BlocksOf
<1>11. \A e2 \in open' : BlocksOf(heap', e2) = BlocksOf(heap, e2)
  BY <1>10 DEF BlocksOf, ItemBlocks
<1>12. Unreached(heap', open', others') \subseteq Unreached(heap, open, others)
  <2> SUFFICES ASSUME NEW c \in Unreached(heap', open', others')
               PROVE  c \in Unreached(heap, open, others)
    OBVIOUS
  <2>1. c \in heap.used /\ c \notin others /\ c \notin BlocksOf(heap, d)
    BY <1>1, <1>10 DEF Unreached
  <2>2. \A e2 \in open \ {d} : c \notin BlocksOf(heap, e2)
    BY <1>1, <1>11 DEF Unreached
  <2> QED
    BY <2>1, <2>2 DEF Unreached
<1> QED
  BY <1>1, <1>3, <1>10, <1>12 DEF Only

(***************************************************************************)
(* The rest of the kernel takes blocks that are free and frees its own.    *)
(***************************************************************************)
LEMMA TakeOtherOnly ==
    ASSUME LookupInv, TakeOther, ~ heap'.failed
    PROVE  Only
<1> DEFINE b == kzalloc(heap)
           x == [is |-> "other"]
<1>1. /\ IsHeap(heap) /\ Apart(heap, open, others) /\ open' = open /\ last'.result = "none"
      /\ heap.fate = "fine"
  BY DEF LookupInv, TakeOther, NoOpen
<1>2. b.ptr # 0 /\ heap' = Put(b.heap, b.ptr, x) /\ others' = others \cup {b.ptr}
  BY DEF TakeOther
<1>3. Content(x)
  BY DEF Content
<1>4. /\ b.ptr \in Blocks \ heap.used /\ b.heap.used = heap.used \cup {b.ptr}
      /\ b.heap.fate = "fine" /\ b.heap.failed = heap.failed
      /\ Added(heap, b.heap) /\ IsHeap(b.heap)
  BY <1>1, <1>2, AllocRight, AllocAdded
<1> HIDE DEF b, x
<1>5. /\ Added(heap, heap') /\ heap'.used = heap.used \cup {b.ptr}
      /\ heap'.fate = "fine" /\ heap'.failed = heap.failed
  BY <1>1, <1>2, <1>3, <1>4, PutAdded, PutRight
<1>6. \A d \in open : BlocksOf(heap', d) = BlocksOf(heap, d)
  <2>1. Sound(heap')
    BY <1>5 DEF Sound
  <2> QED
    BY <1>1, <1>5, <2>1, Grown
<1>7. Unreached(heap', open', others') \subseteq Unreached(heap, open, others)
  BY <1>1, <1>2, <1>5, <1>6 DEF Unreached
<1> QED
  BY <1>1, <1>5, <1>7 DEF Only

LEMMA FreeOtherOnly ==
    ASSUME LookupInv, FreeOther, ~ heap'.failed
    PROVE  Only
<1>1. IsHeap(heap) /\ open' = open /\ last'.result = "none" /\ heap.fate = "fine"
  BY DEF LookupInv, FreeOther, NoOpen
<1>2. PICK b \in others : heap' = kfree(heap, b) /\ others' = others \ {b}
  BY DEF FreeOther
<1>3. /\ heap'.fate = heap.fate /\ heap'.failed = heap.failed
      /\ heap'.used = heap.used \ {b} /\ heap'.mem = heap.mem
  BY <1>1, <1>2, FreeRight
<1>4. \A d \in open : BlocksOf(heap', d) = BlocksOf(heap, d)
  BY <1>3 DEF BlocksOf, ItemBlocks
<1>5. Unreached(heap', open', others') \subseteq Unreached(heap, open, others)
  BY <1>1, <1>2, <1>3, <1>4 DEF Unreached
<1> QED
  BY <1>1, <1>3, <1>5 DEF Only

(***************************************************************************)
(* While every directory can be loaded and memory is ample, a file is      *)
(* missed, a pointer to nowhere followed, a loop entered and memory lost   *)
(* only where GoesWrongOnly says, for any volumes, paths and blocks.       *)
(***************************************************************************)
THEOREM LookupGoesWrongOnly == Spec => GoesWrongOnly
<1> DEFINE Act ==
        (heap.fate = "fine" /\ ~ heap'.failed) =>
          /\ (Room /\ last' # last /\ last'.result = "EIO" /\ Exists(last'.path))
                => Obstructed(last'.path)
          /\ (Room /\ heap'.fate = "wild")
                => Len(last'.path) > 2 /\ (~ Exists(last'.path) \/ Obstructed(last'.path))
          /\ heap'.fate = "hung" => \E d \in Dirs : tree[d].behind = -1
          /\ (heap'.fate = "fine" /\ ~ (Lost' \subseteq Lost))
                => last'.result = "EIO" \/ \E s \in Searched(last'.path) : Misleads(s)
<1>1. LookupInv /\ LookupInv' /\ [Next]_vars => [Act]_vars
  <2> SUFFICES ASSUME LookupInv, LookupInv', Next, heap.fate = "fine", ~ heap'.failed
               PROVE  Act
    OBVIOUS
  <2>1. Only
    <3>1. CASE Open
      <4>1. PICK path \in Paths : \E mode \in {"READ", "WRITE"} :
                \E low \in IF Len(path) > 2 THEN BOOLEAN ELSE {FALSE} : fat16_open(path, mode, low)
        BY <3>1 DEF Open
      <4>2. PICK mode \in {"READ", "WRITE"} :
                \E low \in IF Len(path) > 2 THEN BOOLEAN ELSE {FALSE} : fat16_open(path, mode, low)
        BY <4>1
      <4>3. PICK low \in BOOLEAN : fat16_open(path, mode, low)
        BY <4>2
      <4> QED
        BY <4>3, OpenOnly
    <3>2. CASE Close
      BY <3>2, CloseOnly DEF Close
    <3> QED
      BY <3>1, <3>2, TakeOtherOnly, FreeOtherOnly DEF Next
  <2>2. Lost = Unreached(heap, open, others)
    <3>1. Sound(heap)
      BY <2>1 DEF Sound, Only
    <3> QED
      BY <3>1, LostIs
  <2>3. heap'.fate = "fine" => Lost' = Unreached(heap', open', others')
    <3>1. heap'.fate = "fine" => Sound(heap)'
      BY DEF Sound
    <3> QED
      BY <3>1, LostLater
  <2> QED
    BY <2>1, <2>2, <2>3 DEF Only
<1> QED
  BY LookupInvariant, <1>1, PTL DEF Spec, GoesWrongOnly

=============================================================================
