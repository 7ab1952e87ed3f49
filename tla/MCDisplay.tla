----------------------------- MODULE MCDisplay ------------------------------
(***************************************************************************)
(* A screen of three by four characters with counters of four bits.        *)
(***************************************************************************)
EXTENDS Display

=============================================================================
