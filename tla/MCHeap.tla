------------------------------- MODULE MCHeap -------------------------------
(***************************************************************************)
(* A heap of five blocks of two bytes in an address space of 16 bytes.     *)
(***************************************************************************)
EXTENDS HeapLoops

\* Every value of size_t: no block, all sizes that fit, sizes larger than
\* the heap, and the one that heap_size_ceiling wraps around to 0.
EverySize == 0 .. Word - 1

=============================================================================
