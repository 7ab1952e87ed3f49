------------------------------ MODULE UserView ------------------------------
(***************************************************************************)
(* The machine a user program sees: its own instructions and system calls  *)
(* that change nothing but eax.  Interrupts do not exist here.             *)
(***************************************************************************)
CONSTANTS Eax, Rest, Esp,       \* values of eax, esp and the other registers
          Results(_, _)         \* Results(command, esp): what a system call
                                \* may answer

VARIABLES mode,     \* "user", or "call" during a system call
          regs      \* the registers, as the program sees them

vars == <<mode, regs>>

Registers == [eax : Eax, rest : Rest, esp : Esp]

Run == mode = "user" /\ regs' \in Registers /\ mode' = "user"

Call == mode = "user" /\ mode' = "call" /\ regs' = regs

Return == /\ mode = "call" /\ mode' = "user"
          /\ \E r \in Results(regs.eax, regs.esp) : regs' = [regs EXCEPT !.eax = r]

Start == mode = "boot" /\ mode' = "user" /\ regs' \in Registers

Init == mode = "boot" /\ regs \in Registers

Spec == Init /\ [][Start \/ Run \/ Call \/ Return]_vars /\ WF_vars(Return)

=============================================================================
