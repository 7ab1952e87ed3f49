------------------------------ MODULE MCStream ------------------------------
(***************************************************************************)
(* Sectors of 4 bytes on a disk of 6 sectors whose last two lie beyond the *)
(* largest int; reads of up to three sectors, of no byte, and of a length  *)
(* that is negative as an int.                                             *)
(***************************************************************************)
EXTENDS Stream

Lengths == -1 .. 12

=============================================================================
