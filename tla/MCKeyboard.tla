----------------------------- MODULE MCKeyboard -----------------------------
(***************************************************************************)
(* A ring buffer of three slots and a handful of key presses.  There is no *)
(* symmetry set: the run checks liveness.                                  *)
(***************************************************************************)
EXTENDS Keyboard

CONSTANTS k1, k2, k3, e1

=============================================================================
