----------------------------- MODULE ByteSource -----------------------------
(***************************************************************************)
(* What a disk stream promises: a position, and reads that answer with the *)
(* bytes from that position on and move it behind them.  A byte is told by *)
(* its address on the disk.                                                *)
(***************************************************************************)
EXTENDS Integers

CONSTANTS Totals        \* how many bytes a read may ask for

VARIABLES at,           \* the position
          want,         \* how many bytes the read under way asks for
          got,          \* what the last read returned
          busy          \* a read is under way

vars == <<at, want, got, busy>>

Init == at = 0 /\ want = 0 /\ got = <<>> /\ busy = FALSE

Seek == ~ busy /\ at' \in Int /\ UNCHANGED <<want, got, busy>>

Request == ~ busy /\ busy' = TRUE /\ want' \in Totals /\ got' = <<>> /\ UNCHANGED at

\* Nothing is promised for a position that is not one of the disk.
Respond == /\ busy /\ busy' = FALSE
           /\ at >= 0 => /\ got' = [i \in 1 .. want |-> at + i - 1]
                         /\ at' = at + want
           /\ UNCHANGED want

Next == Seek \/ Request \/ Respond

Spec == Init /\ [][Next]_vars

=============================================================================
