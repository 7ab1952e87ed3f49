--------------------------- MODULE BlockAllocator ---------------------------
(***************************************************************************)
(* What the kernel expects of its heap, with no block table in sight: a    *)
(* pool of blocks from which disjoint regions are taken and to which they  *)
(* are given back.  Heap.tla is shown to implement Spec for all requests   *)
(* and ExactSpec for requests of at most one block.                        *)
(***************************************************************************)
CONSTANT Block          \* the blocks of the pool

VARIABLES avail,        \* blocks the allocator may hand out
          held          \* the regions (sets of blocks) the callers hold

vars == <<avail, held>>

Init == /\ avail = Block
        /\ held  = {}

\* A caller obtains a non-empty region made of available blocks only.
Alloc == \E R \in SUBSET avail :
            /\ R # {}
            /\ avail' = avail \ R
            /\ held'  = held \cup {R}

\* A caller gives region R up; the blocks of back become available again.
Release(R, back) == /\ held'  = held \ {R}
                    /\ avail' = avail \cup back

\* A release may lose blocks of the region, but frees no other block.
Free == \E R \in held : \E back \in SUBSET R : Release(R, back)

\* A release that gives the whole region back.
FreeAll == \E R \in held : Release(R, R)

Spec == Init /\ [][Alloc \/ Free]_vars

ExactSpec == Init /\ [][Alloc \/ FreeAll]_vars

=============================================================================
