------------------------------ MODULE MCPaging ------------------------------
(***************************************************************************)
(* An address space of 26 pages of two bytes in two tables, of which the   *)
(* upper 17 are the heap: the kernel's directory takes 4 of its frames, as *)
(* does that of a task.  The stack has page 1, programs start at page 2.   *)
(***************************************************************************)
EXTENDS Paging

Segment(vaddr, offset, filesz, writable) ==
    [p_vaddr |-> vaddr, p_offset |-> offset, p_filesz |-> filesz, writable |-> writable]

\* Text and data that share a page of the file, and a header with no bytes; a
\* header that is not to be loaded and covers part of another; one that is
\* not congruent; one that is not in the file and goes around the end of the
\* address space; and one that is refused.
Elfs == {[size |-> 2, headers |-> <<Segment(4, 0, 3, FALSE), Segment(7, 3, 1, TRUE), Segment(0, 0, 0, TRUE)>>],
         [size |-> 2, headers |-> <<Segment(5, 1, 2, FALSE), Segment(5, 1, 1, FALSE), Segment(9, 3, 1, TRUE)>>],
         [size |-> 1, headers |-> <<Segment(5, 0, 2, TRUE)>>],
         [size |-> 1, headers |-> <<Segment(4, 0, 2, FALSE), Segment(50, 2, 4, TRUE)>>],
         [size |-> 2, headers |-> <<Segment(4, 0, 3, TRUE), Segment(8, 2, 49, FALSE)>>]}

Upper == 8 .. 24

=============================================================================
