---------------------------- MODULE KeyDelivery -----------------------------
(***************************************************************************)
(* What a program that keeps asking for keys may count on: a key press is  *)
(* stored at most once and returned at most once, a stored key press can   *)
(* only be displaced by a newer one, and it does not stay in the kernel    *)
(* for ever.                                                               *)
(***************************************************************************)
CONSTANT Key            \* the key presses (events, not characters)

VARIABLE status         \* status[k]: how far key press k has come

Init == status = [k \in Key |-> "new"]

\* Key press k is stored; the place it takes may cost another one.
Store(k, victims) ==
    /\ status[k] = "new"
    /\ \A v \in victims : status[v] = "stored"
    /\ status' = [j \in Key |-> IF j = k THEN "stored"
                                ELSE IF j \in victims THEN "lost"
                                ELSE status[j]]

\* Key press k is returned to the program.
Return(k) == status[k] = "stored" /\ status' = [status EXCEPT ![k] = "returned"]

Next == \E k \in Key : \/ Return(k)
                       \/ Store(k, {})
                       \/ \E v \in Key : Store(k, {v})

Spec == Init /\ [][Next]_status /\ \A k \in Key : WF_status(Return(k))

=============================================================================
