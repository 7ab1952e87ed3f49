-------------------------------- MODULE Trap --------------------------------
(***************************************************************************)
(* The only ways into the kernel once the first task runs, hardware        *)
(* interrupts and system calls, and the way back: the wrappers of idt.asm, *)
(* interrupt_handler and isr80h_handler of idt.c, the saving of the user's *)
(* registers and the switching of page directories and segment registers   *)
(* of task.c, and the system calls of isr80h.                              *)
(*                                                                         *)
(* One processor, one task (kernel_main starts one).  `regs' is what the   *)
(* processor holds; only what the kernel may confuse is told apart: eax    *)
(* (command and result of a system call), esp and all the others.          *)
(***************************************************************************)
EXTENDS Integers, FiniteSets

CONSTANTS Rest,         \* values of the registers the kernel only keeps
          Esp,          \* values of the user's stack pointer
          Char          \* what keyboard_pop returns, 0 among them

ASSUME TrapAssumption ==
    /\ Rest \subseteq Nat /\ 0 \in Rest     \* task_init clears the registers
    /\ Esp \subseteq Nat /\ 0 \in Esp       \* 0 for the bottom of the stack
    /\ 0 \in Char

Timer == 0              \* IRQ lines: the timer has no callback,
Keyboard == 1           \* the keyboard has one,
Disk == 14              \* and the disk is on the slave controller
IRQ == {Timer, Keyboard, Disk}
Slave(i) == i >= 8
HasCallback(i) == i = Keyboard

\* Commands 0 to 3 of isr80h.h and one that is not registered.
SumCmd == <<"command", 0>>
PrintCmd == <<"command", 1>>
GetkeyCmd == <<"command", 2>>
PutcharCmd == <<"command", 3>>
Unregistered == <<"command", 4>>
Command == {SumCmd, PrintCmd, GetkeyCmd, PutcharCmd, Unregistered}

Zero == <<"zero">>
Answer(ch) == <<"char", ch>>
Item(esp, index) == <<"item", esp, index>>  \* a word of the user's stack
Sum(v1, v2) == <<"sum", v1, v2>>

\* What a system call is to answer, given the user's eax and esp.
Results(command, esp) ==
    CASE command = SumCmd    -> {Sum(Item(esp, 0), Item(esp, 1))}
      [] command = GetkeyCmd -> {Answer(ch) : ch \in Char}
      [] OTHER               -> {Zero}

Eax == Command \cup {Zero} \cup {Answer(ch) : ch \in Char}
               \cup {Sum(Item(e, 0), Item(e, 1)) : e \in Esp}

Registers == [eax : Eax, rest : Rest, esp : Esp]

\* What the registers hold while C code runs.
Clobbered == [eax |-> <<"kernel">>, rest |-> -1, esp |-> -1]

\* No registers are on the interrupt stack.
NoFrame == Clobbered

VARIABLES pc,       \* where the processor is
          IF_flag,  \* interrupts are enabled
          ds,       \* segment registers: "kernel" (0x10) or "user" (0x23)
          cr3,      \* page directory: "kernel" or "task"
          regs,     \* the registers
          frame,    \* struct interrupt_frame, on the interrupt stack
          saved,    \* task->registers
          tmp_res,  \* tmp_res of idt.asm
          items,    \* stack items a system call has read, in order of index
          pte,      \* the task's page table entry of the copied string
          heap,     \* the heap memory a system call holds
          buf,      \* the buffer of isr80h_command1_print
          irr, isr, \* requested and in-service interrupts
          ticked    \* a timer tick came since the program last ran

machine == <<pc, IF_flag, ds, cr3, regs, frame>>
locals  == <<items, pte, heap, buf>>
pic     == <<irr, isr, ticked>>
vars == <<machine, saved, tmp_res, locals, pic>>

NoItems == [i \in {0, 1} |-> <<"nothing">>]

\* task_init has prepared the registers of the task; kernel_main never
\* enables interrupts.
Init == /\ pc = "kernel_main" /\ IF_flag = FALSE /\ ds = "kernel" /\ cr3 = "kernel"
        /\ regs = Clobbered
        /\ saved = [eax |-> Zero, rest |-> 0, esp |-> 0]
        /\ frame = NoFrame /\ tmp_res = Zero
        /\ items = NoItems /\ pte = "own" /\ heap = {} /\ buf = "undefined"
        /\ irr = {} /\ isr = {} /\ ticked = FALSE

-----------------------------------------------------------------------------
(***************************************************************************)
(* The interrupt controllers.  Lower lines come first, and the slave's     *)
(* lines 8 to 15 share line 2 of the master.  The end-of-interrupt command *)
(* of interrupt_handler goes to the master only: the slave keeps its       *)
(* in-service bit and lets nothing pass that is not more urgent.           *)
(***************************************************************************)
Level(i) == IF Slave(i) THEN 2 ELSE i

Deliverable(i) ==
    /\ i \in irr
    /\ \A j \in isr : IF Slave(j) THEN Slave(i) => i < j
                                  ELSE Level(i) < j
    /\ \A j \in irr \ {i} : Level(i) <= Level(j)

Interrupted == IF_flag /\ \E i \in IRQ : Deliverable(i)

\* A device requests an interrupt, at any time.  The timer does not tick
\* twice before the program has run (a tick takes 55 ms).
Request(i) == /\ i \notin irr
              /\ i = Timer => ~ ticked
              /\ irr' = irr \cup {i}
              /\ ticked' = (ticked \/ i = Timer)
              /\ UNCHANGED <<machine, saved, tmp_res, locals, isr>>

-----------------------------------------------------------------------------
\* task_run_first_ever_task: task_switch, and task_return, which pushes a
\* frame with the interrupt flag set and leaves the kernel with iretd.
\* restore_general_purpose_registers ends with `pop ebp', so that ebp is not
\* the one of task->registers.
task_run_first_ever_task ==
    /\ pc = "kernel_main"
    /\ pc' = "user" /\ IF_flag' = TRUE /\ ds' = "user" /\ cr3' = "task"
    /\ \E ebp \in Rest : regs' = [saved EXCEPT !.rest = ebp]
    /\ UNCHANGED <<frame, saved, tmp_res, locals, pic>>

\* Instructions of the program.  A request is served between two of them.
Run == /\ pc = "user" /\ ~ Interrupted
       /\ regs' \in Registers
       /\ ticked' = FALSE
       /\ UNCHANGED <<pc, IF_flag, ds, cr3, frame, saved, tmp_res, locals, irr, isr>>

\* An interrupt gate clears IF and switches to the interrupt stack, and the
\* wrapper pushes the registers.
Enter(handler) == /\ pc' = handler /\ IF_flag' = FALSE
                  /\ frame' = regs
                  /\ regs' = Clobbered
                  /\ UNCHANGED <<ds, cr3>>

Interrupt(i) == /\ IF_flag /\ Deliverable(i)
                /\ irr' = irr \ {i}
                /\ isr' = isr \cup {i}
                /\ Enter(IF HasCallback(i) THEN "callback" ELSE "leave_interrupt")
                /\ UNCHANGED <<saved, tmp_res, locals, ticked>>

int80 == /\ pc = "user" /\ ~ Interrupted
         /\ regs.eax \in Command
         /\ Enter("isr80h_handler")
         /\ ticked' = FALSE
         /\ UNCHANGED <<saved, tmp_res, locals, irr, isr>>

-----------------------------------------------------------------------------
KernelPage == ds' = "kernel" /\ cr3' = "kernel"
TaskPage   == ds' = "user" /\ cr3' = "task"

\* Slip: the live registers instead of the frame.
save_slip == saved' = regs

\* task_current_save_state.
SaveState == saved' = frame

\* interrupt_handler up to the return of the keyboard's callback, which
\* has called task_page unless the byte was a key release.
callback == /\ pc = "callback"
            /\ pc' = "leave_interrupt"
            /\ SaveState
            /\ KernelPage \/ TaskPage
            /\ UNCHANGED <<IF_flag, regs, frame, tmp_res, locals, pic>>

\* Slips: task_page is left to the callback; both controllers get the command;
\* only interrupts with a callback are ended.
leave_page_slip ==
    /\ pc = "leave_interrupt" /\ pc' = "popad"
    /\ isr' = {i \in isr : Slave(i)}
    /\ UNCHANGED <<IF_flag, ds, cr3, regs, frame, saved, tmp_res, locals, irr, ticked>>
leave_both_slip ==
    /\ pc = "leave_interrupt" /\ pc' = "popad"
    /\ TaskPage
    /\ isr' = {}
    /\ UNCHANGED <<IF_flag, regs, frame, saved, tmp_res, locals, irr, ticked>>
leave_callback_slip ==
    /\ pc = "leave_interrupt" /\ pc' = "popad"
    /\ TaskPage
    /\ isr' = {i \in isr : Slave(i) \/ ~ HasCallback(i)}
    /\ UNCHANGED <<IF_flag, regs, frame, saved, tmp_res, locals, irr, ticked>>

\* task_page and the end-of-interrupt command, which clears the most urgent
\* in-service bit of the master.
leave_interrupt ==
    /\ pc = "leave_interrupt"
    /\ pc' = "popad"
    /\ TaskPage
    /\ isr' = {i \in isr : Slave(i)}
    /\ UNCHANGED <<IF_flag, regs, frame, saved, tmp_res, locals, irr, ticked>>

\* The end of the interrupt wrapper; iret restores IF.
popad == /\ pc = "popad"
         /\ pc' = "user" /\ IF_flag' = TRUE
         /\ regs' = frame /\ frame' = NoFrame
         /\ UNCHANGED <<ds, cr3, saved, tmp_res, locals, pic>>

-----------------------------------------------------------------------------
\* Slip: the registers saved by an earlier trap are used.
handler_slip ==
    /\ pc = "isr80h_handler"
    /\ KernelPage
    /\ pc' = CASE frame.eax = SumCmd                     -> "item1"
               [] frame.eax \in {PrintCmd, PutcharCmd} -> "item0"
               [] frame.eax = GetkeyCmd                 -> "getkey"
               [] OTHER                                 -> "result0"
    /\ UNCHANGED <<IF_flag, regs, frame, saved, tmp_res, locals, pic>>

\* isr80h_handler: kernel_page, task_current_save_state, and the look-up of
\* isr80h_handle_command.
isr80h_handler ==
    /\ pc = "isr80h_handler"
    /\ KernelPage
    /\ SaveState
    /\ pc' = CASE frame.eax = SumCmd                     -> "item1"
               [] frame.eax \in {PrintCmd, PutcharCmd} -> "item0"
               [] frame.eax = GetkeyCmd                 -> "getkey"
               [] OTHER                                 -> "result0"
    /\ UNCHANGED <<IF_flag, regs, frame, tmp_res, locals, pic>>

\* task_get_stack_item, through the page directory of the task and back.
ReadItem(index) ==
    /\ items' = [items EXCEPT ![index] = Item(saved.esp, index)]
    /\ KernelPage
    /\ UNCHANGED <<IF_flag, regs, frame, saved, tmp_res, pte, heap, buf, pic>>

item1 == pc = "item1" /\ ReadItem(1) /\ pc' = "item0"

item0 == /\ pc = "item0" /\ ReadItem(0)
         /\ pc' = CASE frame.eax = SumCmd   -> "sum"
                    [] frame.eax = PrintCmd -> "copy"
                    [] OTHER                -> "result0"     \* putchar

\* copy_string_from_task: memory for the copy, mapped into the task's page
\* table; the string is copied with the task's page directory in place.
\* Without memory the function gives up and the caller does not notice.
copy == /\ pc = "copy"
        /\ \/ /\ heap' = {"string_cpy"}
              /\ pte' = "string_cpy"
              /\ cr3' = "task"
              /\ pc' = "restore"
           \/ /\ pc' = "print"
              /\ UNCHANGED <<heap, pte, cr3>>
        /\ UNCHANGED <<IF_flag, ds, regs, frame, saved, tmp_res, items, buf, pic>>

\* The rest of it: back to the kernel's pages, the page table entry put
\* back, the string copied to the caller's buffer, the memory freed.
restore == /\ pc = "restore"
           /\ KernelPage
           /\ pte' = "own"
           /\ buf' = "string"
           /\ heap' = {}
           /\ pc' = "print"
           /\ UNCHANGED <<IF_flag, regs, frame, saved, tmp_res, items, pic>>

\* terminal_print of the buffer, whatever is in it.
print == /\ pc = "print"
         /\ pc' = "result0"
         /\ UNCHANGED <<IF_flag, ds, cr3, regs, frame, saved, tmp_res, locals, pic>>

\* isr80h_handler's task_page, and the wrapper's `mov [tmp_res], eax'; the
\* locals of the system call are gone.
Finish(result) == /\ TaskPage
                  /\ tmp_res' = result
                  /\ pc' = "popad80"
                  /\ items' = NoItems /\ buf' = "undefined"
                  /\ UNCHANGED <<IF_flag, regs, frame, saved, pte, heap, pic>>

sum     == pc = "sum" /\ Finish(Sum(items[0], items[1]))
getkey  == pc = "getkey" /\ \E ch \in Char : Finish(Answer(ch))
result0 == pc = "result0" /\ Finish(Zero)

\* The end of isr80h_wrapper.
popad80 == /\ pc = "popad80"
           /\ pc' = "user" /\ IF_flag' = TRUE
           /\ regs' = [frame EXCEPT !.eax = tmp_res] /\ frame' = NoFrame
           /\ UNCHANGED <<ds, cr3, saved, tmp_res, locals, pic>>

-----------------------------------------------------------------------------
KernelStep == \/ callback \/ leave_interrupt \/ popad
              \/ isr80h_handler \/ item1 \/ item0 \/ copy \/ restore \/ print
              \/ sum \/ getkey \/ result0 \/ popad80
              \/ task_run_first_ever_task

Next == \/ \E i \in IRQ : Request(i) \/ Interrupt(i)
        \/ Run \/ int80
        \/ KernelStep

(***************************************************************************)
(* Fairness: the processor goes on with the kernel's code, and serves a    *)
(* request it may serve.  Nothing is assumed of devices and program.       *)
(***************************************************************************)
Spec == /\ Init /\ [][Next]_vars
        /\ WF_vars(KernelStep)
        /\ WF_vars(\E i \in IRQ : Interrupt(i))

-----------------------------------------------------------------------------
(***************************************************************************)
(* Type correctness of the machine state and of the kernel's variables.    *)
(***************************************************************************)
TypeOK ==
    /\ pc \in {"kernel_main", "user", "callback", "leave_interrupt", "popad",
               "isr80h_handler", "item1", "item0", "copy", "restore", "print",
               "sum", "getkey", "result0", "popad80"}
    /\ IF_flag \in BOOLEAN
    /\ ds \in {"kernel", "user"} /\ cr3 \in {"kernel", "task"}
    /\ regs \in Registers \cup {Clobbered}
    /\ frame \in Registers \cup {NoFrame} /\ saved \in Registers
    /\ tmp_res \in Eax
    /\ pte \in {"own", "string_cpy"} /\ heap \subseteq {"string_cpy"}
    /\ buf \in {"undefined", "string"}
    /\ irr \subseteq IRQ /\ isr \subseteq IRQ

(***************************************************************************)
(* Whatever way the kernel was entered and left by (early returns of the   *)
(* callback, a failed copy, an unknown command), the program runs with its *)
(* own page directory and segments, with interrupts enabled and no line of *)
(* the master blocked, with its page table as it was, and with no kernel   *)
(* memory left allocated for it.  The kernel is never interrupted (there   *)
(* is one frame, one tmp_res and one set of saved registers), and its      *)
(* system calls run on its own pages and segments, also after they have    *)
(* looked at the user's stack or string.                                   *)
(***************************************************************************)
OwnContext ==
    /\ pc = "user" => /\ IF_flag /\ ds = "user" /\ cr3 = "task"
                      /\ pte = "own" /\ heap = {}
                      /\ \A i \in isr : Slave(i)
    /\ pc # "user" => ~ IF_flag
    /\ pc \in {"item1", "item0", "copy", "print", "sum", "getkey", "result0"}
          => ds = "kernel" /\ cr3 = "kernel"
    /\ Cardinality({i \in isr : ~ Slave(i)}) <= 1

(***************************************************************************)
(* interrupt_handler ends an interrupt of the slave controller at the      *)
(* master only: after the first interrupt of the disk its line stays in    *)
(* service, and no later request of the disk is ever served.               *)
(***************************************************************************)
DiskServedOnce ==
    [][(Disk \in isr) => Disk \in isr' /\ (Disk \in irr => Disk \in irr')]_vars

(***************************************************************************)
(* Every key stroke and every tick is served in the end, also while the    *)
(* program does nothing but system calls and the disk's line is stuck.     *)
(***************************************************************************)
MasterServed == \A i \in {Timer, Keyboard} : (i \in irr) ~> (i \notin irr)

View == INSTANCE UserView
    WITH mode <- CASE pc = "kernel_main" -> "boot"
                   [] pc \in {"isr80h_handler", "item1", "item0", "copy", "restore",
                              "print", "sum", "getkey", "result0", "popad80"} -> "call"
                   [] OTHER -> "user",
         regs <- CASE pc = "user"        -> regs
                   [] pc = "kernel_main" -> saved
                   [] OTHER              -> frame

(***************************************************************************)
(* The program cannot see the kernel: interrupts change none of its        *)
(* registers, a system call changes eax only, to the answer for the        *)
(* arguments on the stack of this call and not of an earlier one, and it   *)
(* returns.                                                                *)
(***************************************************************************)
ImplementsUserView == View!Spec

=============================================================================
