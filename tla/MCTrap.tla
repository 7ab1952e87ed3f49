------------------------------- MODULE MCTrap -------------------------------
(***************************************************************************)
(* Two values for the registers the kernel has to keep apart; the          *)
(* character of a key is told from the other answers by its tag.           *)
(***************************************************************************)
EXTENDS Trap

Two == {0, 1}
One == {0}

=============================================================================
