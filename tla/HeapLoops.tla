----------------------------- MODULE HeapLoops ------------------------------
(***************************************************************************)
(* The three loops of heap.c, iteration by iteration, and that they        *)
(* compute what Heap.tla says in closed form.  A loop is the function of   *)
(* the values of its variables after so many iterations, and a loop that   *)
(* has been left keeps them.                                               *)
(***************************************************************************)
EXTENDS Heap

ENOMEM == 3

\* Slip: a taken block does not restart the count.
scan_slip(s, i, n) ==
    IF s.found \/ is_block_taken(entries[i]) THEN s
    ELSE [block_count |-> s.block_count + 1,
          block_start_index |-> IF s.block_start_index = -1 THEN i ELSE s.block_start_index,
          found |-> s.block_count + 1 = n]

NoRun == [block_count |-> 0, block_start_index |-> -1, found |-> FALSE]

\* Iteration i of heap_get_start_block.
Scan(s, i, n) ==
    IF s.found THEN s
    ELSE IF is_block_taken(entries[i]) THEN NoRun
    ELSE [block_count |-> s.block_count + 1,
          block_start_index |-> IF s.block_start_index = -1 THEN i ELSE s.block_start_index,
          found |-> s.block_count + 1 = n]

scan_start_block(n) ==
    LET s[k \in 0 .. TotalBlocks] == IF k = 0 THEN NoRun ELSE Scan(s[k - 1], k - 1, n)
    IN  IF s[TotalBlocks].found THEN s[TotalBlocks].block_start_index ELSE -ENOMEM

More(yes) == {"TAKEN"} \cup (IF yes THEN {"HAS_NEXT"} ELSE {})

\* Iteration i of heap_mark_blocks_taken: the entry for the next block is
\* prepared while the current one is stored.
MarkTaken(s, i, end_block) ==
    [table |-> [s.table EXCEPT ![i] = s.entry], entry |-> More(i # end_block - 1)]

mark_taken_loop(start_block, n) ==
    LET s[k \in 0 .. n] ==
            IF k = 0 THEN [table |-> entries, entry |-> {"IS_FIRST"} \cup More(n > 1)]
            ELSE MarkTaken(s[k - 1], start_block + k - 1, start_block + n - 1)
    IN  s[n].table

\* Iteration i of heap_mark_blocks_free: the last one when the entry just
\* stored has no HAS_NEXT.
MarkFree(s, i) ==
    IF s.break THEN s
    ELSE LET t == [s.table EXCEPT ![i] = HEAP_BLOCK_ENTRY_FREE]
         IN  [table |-> t, break |-> "HAS_NEXT" \notin t[i]]

mark_free_loop(starting_block) ==
    LET s[k \in 0 .. TotalBlocks - starting_block] ==
            IF k = 0 THEN [table |-> entries, break |-> FALSE]
            ELSE MarkFree(s[k - 1], starting_block + k - 1)
    IN  s[TotalBlocks - starting_block].table

(***************************************************************************)
(* The loops of heap_get_start_block, heap_mark_blocks_taken and           *)
(* heap_mark_blocks_free do what Heap.tla models them as, for every block  *)
(* count and start and on every reachable table: the scan finds the lowest *)
(* run that is long enough (also when a taken block interrupts a shorter   *)
(* one), the marking sets HAS_NEXT on all blocks but the last, and the     *)
(* freeing stops after one block.                                          *)
(***************************************************************************)
LoopsAgree ==
    /\ \A n \in 0 .. TotalBlocks + 1 :
          LET s == scan_start_block(n)
          IN  IF Fits(n) = {} THEN s = -ENOMEM
                              ELSE s \in Block /\ heap_get_start_block(s, n)
    /\ \A b \in Block : \A n \in 1 .. TotalBlocks - b :
          mark_taken_loop(b, n) = Stored([i \in b .. b + n - 1 |-> Mark(b, n, i)])
    /\ \A b \in Block :
          mark_free_loop(b) = Stored([i \in {b} |-> HEAP_BLOCK_ENTRY_FREE])

=============================================================================
