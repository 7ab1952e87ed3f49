----------------------------- MODULE MCProcess ------------------------------
(***************************************************************************)
(* One file of each kind, two slots, and a descriptor table that two       *)
(* failed loads of a flat binary fill.                                     *)
(***************************************************************************)
EXTENDS Process

AllKinds == [f \in Kind |-> f]

TaskAddresses == 1 .. 3

=============================================================================
