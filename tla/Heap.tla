-------------------------------- MODULE Heap --------------------------------
(***************************************************************************)
(* The kernel heap (src/src/memory/heap): a table with one entry per block *)
(* of the heap area.  An entry is a byte of three flags in the code and    *)
(* the set of the flags that are raised here, so that `entry |= FLAG' is a *)
(* union and `entry & FLAG' is membership.                                 *)
(*                                                                         *)
(* Only `entries' is state of the program; `req' records which pointers    *)
(* the callers hold and what they asked for, and `stray' which indexes the *)
(* code has written outside the table.                                     *)
(*                                                                         *)
(* Here and in the other modules a definition named ..._slip is a version  *)
(* of the one after it with a plausible mistake, used to show that the     *)
(* properties can tell; the specification itself uses none of them.        *)
(***************************************************************************)
EXTENDS Integers

CONSTANTS BlockSize,    \* RASOS_HEAP_BLOCK_SIZE
          TotalBlocks,  \* table->total
          HeapStart,    \* heap->start_address
          Word,         \* 2^32: size_t and uint32_t count modulo Word
          Requests      \* the sizes kmalloc is called with

Block == 0 .. TotalBlocks - 1

\* What heap_create checks of its arguments, and that the heap area lies
\* inside the address space and not at address 0.
ASSUME HeapAssumption ==
    /\ BlockSize \in Nat \ {0}
    /\ TotalBlocks \in Nat \ {0}
    /\ HeapStart \in Nat \ {0}
    /\ HeapStart % BlockSize = 0
    /\ Word \in Nat \ {0}
    /\ Word % BlockSize = 0
    /\ HeapStart + TotalBlocks * BlockSize <= Word
    /\ Requests \subseteq 0 .. Word - 1

NULL == 0

Flag  == {"TAKEN", "IS_FIRST", "HAS_NEXT"}
HEAP_BLOCK_ENTRY_FREE == {}

VARIABLES entries,  \* heap->table->entries
          req,      \* req[b]: size asked for by the holder of block b's
                    \* address, 0 when nobody holds it
          stray,    \* indexes outside the table that the code wrote to
          ret       \* the pointer the last kmalloc returned

vars == <<entries, req, stray, ret>>

-----------------------------------------------------------------------------
is_block_taken(entry) == "TAKEN" \in entry

\* C's integer division truncates towards zero.
CDiv(a, b) == IF a >= 0 THEN a \div b ELSE -((-a) \div b)

heap_address_to_block(address) == CDiv(address - HeapStart, BlockSize)

\* Slip: the header of the heap counted as a block.
block_to_address_slip(block) == HeapStart + (block + 1) * BlockSize

heap_block_to_address(block) == HeapStart + block * BlockSize

\* Slip: rounding down instead of up.
size_floor_slip(size) == size - (size % BlockSize)

heap_size_ceiling(size) ==
    IF size % BlockSize = 0
      THEN size
      ELSE (size - (size % BlockSize) + BlockSize) % Word

\* heap_malloc: how many blocks a request takes.
total_blocks(size) == heap_size_ceiling(size) \div BlockSize

\* Slip: a run that is one block too short is accepted.
fits_slip(n) == {b \in Block : /\ n > 0
                               /\ b + n <= TotalBlocks
                               /\ \A i \in b .. b + n - 2 : ~ is_block_taken(entries[i])}

\* The blocks from which a run of n free blocks starts.  The scan counts
\* free blocks up from 1 and compares for equality, so n = 0 never matches.
Fits(n) == {b \in Block : /\ n > 0
                          /\ b + n <= TotalBlocks
                          /\ \A i \in b .. b + n - 1 : ~ is_block_taken(entries[i])}

\* The first run that is long enough is the one the scan answers with.
heap_get_start_block(b, n) == b \in Fits(n) /\ \A c \in Fits(n) : b <= c

\* The entry of block i in an allocation of n blocks that starts at block b.
Mark(b, n, i) == {"TAKEN"} \cup (IF i = b THEN {"IS_FIRST"} ELSE {})
                           \cup (IF i = b + n - 1 THEN {} ELSE {"HAS_NEXT"})

\* The table after a loop that stores new[i] in entries[i] for all i in the
\* domain of new.
Stored(new) == [i \in Block |-> IF i \in DOMAIN new THEN new[i] ELSE entries[i]]

Write(new) == /\ entries' = Stored(new)
              /\ stray' = stray \cup (DOMAIN new \ Block)

\* Slip: the end of the allocation is taken to be inclusive.
mark_taken_slip(b, n) == Write([i \in b .. b + n |-> Mark(b, n, i)])

heap_mark_blocks_taken(b, n) == Write([i \in b .. b + n - 1 |-> Mark(b, n, i)])

\* The loop clears an entry before it looks for HAS_NEXT in that entry, so
\* it always stops after the first block.
heap_mark_blocks_free(b) == Write([i \in {b} |-> HEAP_BLOCK_ENTRY_FREE])

-----------------------------------------------------------------------------
\* kheap_init and heap_create: all entries free.
Init == /\ entries = [b \in Block |-> HEAP_BLOCK_ENTRY_FREE]
        /\ req = [b \in Block |-> 0]
        /\ stray = {}
        /\ ret = NULL

\* kmalloc, and kzalloc, which clears the memory it got from kmalloc.
kmalloc(size) ==
    LET n == total_blocks(size) IN
    \/ \E b \in Block :
          /\ heap_get_start_block(b, n)
          /\ heap_mark_blocks_taken(b, n)
          /\ req' = [req EXCEPT ![b] = size]
          /\ ret' = heap_block_to_address(b)
    \/ /\ Fits(n) = {}
       /\ ret' = NULL
       /\ UNCHANGED <<entries, req, stray>>

\* kfree of a pointer that a caller holds.
kfree(b) ==
    /\ req[b] # 0
    /\ heap_mark_blocks_free(heap_address_to_block(heap_block_to_address(b)))
    /\ req' = [req EXCEPT ![b] = 0]
    /\ UNCHANGED ret

\* kfree(NULL): paging_free_4gb and fat16_fat_item_free pass on a pointer
\* that a failed allocation left 0.
kfree_null ==
    /\ heap_mark_blocks_free(heap_address_to_block(NULL))
    /\ UNCHANGED <<req, ret>>

Next == \/ \E size \in Requests : kmalloc(size)
        \/ \E b \in Block : kfree(b)
        \/ kfree_null

Spec == Init /\ [][Next]_vars

-----------------------------------------------------------------------------
\* The blocks held by the caller whose allocation starts at block b.
Region(b) == b .. b + total_blocks(req[b]) - 1

Live == {b \in Block : req[b] # 0}

Taken == {b \in Block : is_block_taken(entries[b])}

\* Blocks that are marked taken although no caller holds them.
Orphans == Taken \ UNION {Region(b) : b \in Live}

(***************************************************************************)
(* Type correctness: every entry is a byte made of the three flags of      *)
(* heap.h, and kmalloc answers NULL or the address of a block.             *)
(***************************************************************************)
TypeOK ==
    /\ entries \in [Block -> SUBSET Flag]
    /\ req \in [Block -> Requests \cup {0}]
    /\ stray \in SUBSET Int
    /\ ret \in {NULL} \cup {HeapStart + b * BlockSize : b \in Block}

(***************************************************************************)
(* heap_get_start_block never answers with a run that reaches into memory  *)
(* somebody still holds: the regions of two live allocations are disjoint  *)
(* after any sequence of kmalloc and kfree calls.                          *)
(***************************************************************************)
LiveDisjoint ==
    \A a, b \in Live : a # b => Region(a) \cap Region(b) = {}

(***************************************************************************)
(* No kfree and no later kmalloc disturbs the flags heap_mark_blocks_taken *)
(* wrote for an allocation that is still live, so its blocks stay taken    *)
(* until its own kfree.                                                    *)
(***************************************************************************)
LiveMarked ==
    \A b \in Live : \A i \in Region(b) :
        i \in Block /\ entries[i] = Mark(b, total_blocks(req[b]), i)

(***************************************************************************)
(* A successful kmalloc returns at least the number of bytes asked for,    *)
(* also for sizes near 2^32, where heap_size_ceiling wraps around.         *)
(***************************************************************************)
LiveCovers ==
    \A b \in Live : total_blocks(req[b]) * BlockSize >= req[b]

(***************************************************************************)
(* heap_mark_blocks_taken and heap_mark_blocks_free write inside the       *)
(* table; the only index outside it that is ever written is the one that   *)
(* kfree(NULL) computes.                                                   *)
(***************************************************************************)
WritesInTable == stray \subseteq {heap_address_to_block(NULL)}

(***************************************************************************)
(* A block that is taken without a holder is never recovered: no later     *)
(* kmalloc or kfree makes it usable again.  (heap_mark_blocks_free leaves  *)
(* such blocks behind, one less than the allocation has.)                  *)
(***************************************************************************)
NeverRecovered == [][Orphans \subseteq Orphans']_vars

(***************************************************************************)
(* The heap loses no block: what is marked taken is held by somebody.      *)
(* True as long as no request is larger than a block, which is what every  *)
(* kfree call of the kernel but the one for large directories frees.       *)
(***************************************************************************)
NoOrphans == Orphans = {}

-----------------------------------------------------------------------------
\* The refinement mapping: available blocks are the ones not marked taken.
Pool == INSTANCE BlockAllocator
            WITH avail <- Block \ Taken,
                 held  <- {Region(b) : b \in Live}

(***************************************************************************)
(* The block table implements the pool of BlockAllocator: kmalloc hands    *)
(* out available blocks only and kfree frees blocks of its own region      *)
(* only.                                                                   *)
(***************************************************************************)
ImplementsPool == Pool!Spec

(***************************************************************************)
(* For requests of at most one block kfree gives back everything kmalloc   *)
(* took: the heap implements the pool without losses.                      *)
(***************************************************************************)
ImplementsExactPool == Pool!ExactSpec

=============================================================================
