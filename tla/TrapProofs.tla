----------------------------- MODULE TrapProofs -----------------------------
(***************************************************************************)
(* Theorems about the ways into the kernel and back, for any values of the *)
(* registers and any characters.                                           *)
(***************************************************************************)
EXTENDS Trap, FiniteSetTheorems, TLAPS

\* The stages of a system call, from the handler's first step to its last.
InCall == {"item1", "item0", "copy", "restore", "print", "sum", "getkey", "result0"}

\* The master's lines in service.
Masters == {i \in isr : ~ Slave(i)}

(***************************************************************************)
(* The inductive invariant.  TypeOK alone does not know that a frame is on *)
(* the stack whenever the kernel is to return to the program, nor what a   *)
(* system call has read so far.                                            *)
(***************************************************************************)
User == pc = "user" =>
          IF_flag /\ ds = "user" /\ cr3 = "task" /\ regs \in Registers

Kernel == pc # "user" => ~ IF_flag

Framed == pc \notin {"user", "kernel_main"} => frame \in Registers

Lines == /\ pc \notin {"callback", "leave_interrupt"} => Masters = {}
         /\ \E i \in IRQ : Masters \subseteq {i}

Borrowed == pc # "restore" => pte = "own" /\ heap = {}

Pages == /\ pc \in InCall \ {"restore"} => ds = "kernel" /\ cr3 = "kernel"
         /\ pc \in {"popad", "popad80"} => ds = "user" /\ cr3 = "task"

\* Which system call it is, and what it has read of its own arguments.
Calls == /\ pc \in InCall => saved = frame
         /\ pc \in {"item1", "sum"} => frame.eax = SumCmd
         /\ pc = "getkey" => frame.eax = GetkeyCmd
         /\ pc = "item0" => frame.eax # GetkeyCmd
         /\ pc \in {"copy", "restore", "print", "result0"} => frame.eax \notin {SumCmd, GetkeyCmd}
         /\ items \in [{0, 1} -> {Item(e, n) : e \in Esp, n \in {0, 1}} \cup {<<"nothing">>}]
         /\ pc \in {"item0", "sum"} /\ frame.eax = SumCmd => items[1] = Item(frame.esp, 1)
         /\ pc = "sum" => items[0] = Item(frame.esp, 0)
         /\ pc = "popad80" => tmp_res \in Results(frame.eax, frame.esp)

TrapInv == TypeOK /\ User /\ Kernel /\ Framed /\ Lines /\ Borrowed /\ Pages /\ Calls

-----------------------------------------------------------------------------
(***************************************************************************)
(* The commands of isr80h.h differ.                                        *)
(***************************************************************************)
LEMMA Commands == /\ SumCmd # PrintCmd /\ SumCmd # PutcharCmd /\ SumCmd # GetkeyCmd
                  /\ GetkeyCmd # PrintCmd /\ GetkeyCmd # PutcharCmd
BY DEF SumCmd, PrintCmd, PutcharCmd, GetkeyCmd

(***************************************************************************)
(* Where isr80h_handle_command leads.                                      *)
(***************************************************************************)
LEMMA Dispatch ==
    ASSUME isr80h_handler
    PROVE  \/ frame.eax = SumCmd /\ pc' = "item1"
           \/ frame.eax \in {PrintCmd, PutcharCmd} /\ pc' = "item0"
           \/ frame.eax = GetkeyCmd /\ pc' = "getkey"
           \/ frame.eax \notin {SumCmd, PrintCmd, PutcharCmd, GetkeyCmd} /\ pc' = "result0"
<1>1. CASE frame.eax = SumCmd
  BY <1>1, Commands DEF isr80h_handler
<1>2. CASE frame.eax \in {PrintCmd, PutcharCmd}
  BY <1>2, Commands DEF isr80h_handler
<1>3. CASE frame.eax = GetkeyCmd
  BY <1>3, Commands DEF isr80h_handler
<1>4. CASE frame.eax \notin {SumCmd, PrintCmd, PutcharCmd, GetkeyCmd}
  BY <1>4, Commands DEF isr80h_handler
<1> QED
  BY <1>1, <1>2, <1>3, <1>4

(***************************************************************************)
(* Where the first stack item leads.                                       *)
(***************************************************************************)
LEMMA AfterItem0 ==
    ASSUME item0
    PROVE  \/ frame.eax = SumCmd /\ pc' = "sum"
           \/ frame.eax = PrintCmd /\ pc' = "copy"
           \/ frame.eax \notin {SumCmd, PrintCmd} /\ pc' = "result0"
<1>1. CASE frame.eax = SumCmd
  BY <1>1, Commands DEF item0
<1>2. CASE frame.eax = PrintCmd
  BY <1>2, Commands DEF item0
<1>3. CASE frame.eax \notin {SumCmd, PrintCmd}
  BY <1>3, Commands DEF item0
<1> QED
  BY <1>1, <1>2, <1>3

(***************************************************************************)
(* The answer a system call owes, by command.                              *)
(***************************************************************************)
LEMMA Owed ==
    ASSUME NEW c, NEW e
    PROVE  /\ Results(SumCmd, e) = {Sum(Item(e, 0), Item(e, 1))}
           /\ Results(GetkeyCmd, e) = {Answer(ch) : ch \in Char}
           /\ c \notin {SumCmd, GetkeyCmd} => Results(c, e) = {Zero}
<1>1. Results(SumCmd, e) = {Sum(Item(e, 0), Item(e, 1))}
  BY Commands DEF Results
<1>2. Results(GetkeyCmd, e) = {Answer(ch) : ch \in Char}
  BY Commands DEF Results
<1>3. ASSUME c \notin {SumCmd, GetkeyCmd} PROVE Results(c, e) = {Zero}
  BY <1>3 DEF Results
<1> QED
  BY <1>1, <1>2, <1>3

(***************************************************************************)
(* kernel_main starts from a state of the invariant.                       *)
(***************************************************************************)
LEMMA InitInv == Init => TrapInv
<1> SUFFICES ASSUME Init PROVE TrapInv
  OBVIOUS
<1> USE DEF Init
<1>1. saved \in Registers /\ tmp_res \in Eax
  BY TrapAssumption DEF Registers, Eax
<1>2. TypeOK
  BY <1>1 DEF TypeOK
<1>3. items \in [{0, 1} -> {Item(e, n) : e \in Esp, n \in {0, 1}} \cup {<<"nothing">>}]
  BY DEF NoItems
<1>4. Masters = {}
  BY DEF Masters
<1>5. User /\ Kernel /\ Framed /\ Lines /\ Borrowed /\ Pages /\ Calls
  BY <1>3, <1>4 DEF User, Kernel, Framed, Lines, Borrowed, Pages, Calls, InCall, IRQ
<1> QED
  BY <1>2, <1>5 DEF TrapInv

-----------------------------------------------------------------------------
(***************************************************************************)
(* What a device's request leaves alone.                                   *)
(***************************************************************************)
LEMMA RequestInv == ASSUME TrapInv, NEW i \in IRQ, Request(i) PROVE TrapInv'
<1> USE DEF TrapInv, Request, machine, locals
<1>1. TypeOK'
  BY DEF TypeOK
<1>2. User' /\ Kernel' /\ Framed' /\ Borrowed' /\ Pages'
  BY DEF User, Kernel, Framed, Borrowed, Pages
<1>3. Lines' /\ Calls'
  BY DEF Lines, Masters, Calls
<1> QED
  BY <1>1, <1>2, <1>3

(***************************************************************************)
(* The first task enters its program.                                      *)
(***************************************************************************)
LEMMA FirstTaskInv == ASSUME TrapInv, task_run_first_ever_task PROVE TrapInv'
<1> USE DEF TrapInv
<1> USE DEF task_run_first_ever_task, locals, pic
<1>1. regs' \in Registers
  BY DEF TypeOK, Registers
<1>2. TypeOK'
  BY <1>1 DEF TypeOK
<1>3. User' /\ Kernel' /\ Framed' /\ Borrowed' /\ Pages'
  BY <1>1 DEF User, Kernel, Framed, Borrowed, Pages, InCall
<1>4. Lines' /\ Calls'
  BY DEF Lines, Masters, Calls, InCall
<1> QED
  BY <1>2, <1>3, <1>4

(***************************************************************************)
(* Instructions of the program.                                            *)
(***************************************************************************)
LEMMA RunInv == ASSUME TrapInv, Run PROVE TrapInv'
<1> USE DEF TrapInv
<1> USE DEF Run, locals
<1>1. TypeOK'
  BY DEF TypeOK
<1>2. User' /\ Kernel' /\ Framed' /\ Borrowed' /\ Pages'
  BY DEF User, Kernel, Framed, Borrowed, Pages
<1>3. Lines' /\ Calls'
  BY DEF Lines, Masters, Calls, InCall
<1> QED
  BY <1>1, <1>2, <1>3

(***************************************************************************)
(* An interrupt is served only when the program runs, so that its line is  *)
(* the only one of the master in service.                                  *)
(***************************************************************************)
LEMMA InterruptInv == ASSUME TrapInv, NEW i \in IRQ, Interrupt(i) PROVE TrapInv'
<1> USE DEF TrapInv, Interrupt, Enter, locals
<1>1. pc = "user" /\ regs \in Registers
  BY DEF User, Kernel
<1>2. pc' \in {"callback", "leave_interrupt"}
  OBVIOUS
<1>3. TypeOK'
  BY <1>1, <1>2 DEF TypeOK
<1>4. User' /\ Kernel' /\ Framed' /\ Borrowed' /\ Pages'
  BY <1>1, <1>2 DEF User, Kernel, Framed, Borrowed, Pages, InCall
<1>5. Masters = {}
  BY <1>1 DEF Lines
<1>6. Masters' \subseteq {i}
  BY <1>5 DEF Masters
<1>7. Lines' /\ Calls'
  BY <1>1, <1>2, <1>6 DEF Lines, Calls, InCall
<1> QED
  BY <1>3, <1>4, <1>7

(***************************************************************************)
(* The program makes a system call.                                        *)
(***************************************************************************)
LEMMA Int80Inv == ASSUME TrapInv, int80 PROVE TrapInv'
<1> USE DEF TrapInv
<1> USE DEF int80, Enter, locals
<1>1. pc = "user" /\ regs \in Registers
  BY DEF User
<1>2. TypeOK'
  BY <1>1 DEF TypeOK
<1>3. User' /\ Kernel' /\ Framed' /\ Borrowed' /\ Pages'
  BY <1>1 DEF User, Kernel, Framed, Borrowed, Pages, InCall
<1>4. Lines' /\ Calls'
  BY <1>1 DEF Lines, Masters, Calls, InCall
<1> QED
  BY <1>2, <1>3, <1>4

(***************************************************************************)
(* The callback of the keyboard returns.                                   *)
(***************************************************************************)
LEMMA CallbackInv == ASSUME TrapInv, callback PROVE TrapInv'
<1> USE DEF TrapInv
<1> USE DEF callback, SaveState, KernelPage, TaskPage, locals, pic
<1>1. frame \in Registers
  BY DEF Framed
<1>2. TypeOK'
  BY <1>1 DEF TypeOK
<1>3. User' /\ Kernel' /\ Framed' /\ Borrowed' /\ Pages'
  BY <1>1 DEF User, Kernel, Framed, Borrowed, Pages, InCall
<1>4. Lines' /\ Calls'
  BY DEF Lines, Masters, Calls, InCall
<1> QED
  BY <1>2, <1>3, <1>4

(***************************************************************************)
(* The end-of-interrupt command clears the master's line.                  *)
(***************************************************************************)
LEMMA LeaveInv == ASSUME TrapInv, leave_interrupt PROVE TrapInv'
<1> USE DEF TrapInv
<1> USE DEF leave_interrupt, TaskPage, locals
<1>1. TypeOK'
  BY DEF TypeOK
<1>2. User' /\ Kernel' /\ Framed' /\ Borrowed' /\ Pages'
  BY DEF User, Kernel, Framed, Borrowed, Pages, InCall
<1>3. Masters' = {}
  BY DEF Masters
<1>4. Lines' /\ Calls'
  BY <1>3 DEF Lines, Calls, InCall
<1> QED
  BY <1>1, <1>2, <1>4

(***************************************************************************)
(* iret from an interrupt.                                                 *)
(***************************************************************************)
LEMMA PopadInv == ASSUME TrapInv, popad PROVE TrapInv'
<1> USE DEF TrapInv
<1> USE DEF popad, locals, pic
<1>1. frame \in Registers
  BY DEF Framed
<1>2. TypeOK'
  BY <1>1 DEF TypeOK
<1>3. User' /\ Kernel' /\ Framed' /\ Borrowed' /\ Pages'
  BY <1>1 DEF User, Kernel, Framed, Borrowed, Pages, InCall
<1>4. Lines' /\ Calls'
  BY DEF Lines, Masters, Calls, InCall
<1> QED
  BY <1>2, <1>3, <1>4

(***************************************************************************)
(* isr80h_handler up to the chosen system call.                            *)
(***************************************************************************)
LEMMA HandlerInv == ASSUME TrapInv, isr80h_handler PROVE TrapInv'
<1> USE DEF TrapInv
<1>1. frame \in Registers
  BY DEF isr80h_handler, Framed
<1>2. /\ pc = "isr80h_handler" /\ ds' = "kernel" /\ cr3' = "kernel" /\ saved' = frame
      /\ UNCHANGED <<IF_flag, regs, frame, tmp_res, locals, pic>>
  BY DEF isr80h_handler, KernelPage, SaveState
<1>3. pc' \in {"item1", "item0", "getkey", "result0"}
  BY Dispatch
<1>4. TypeOK'
  BY <1>1, <1>2, <1>3 DEF TypeOK, locals, pic
<1>5. User' /\ Kernel' /\ Framed' /\ Borrowed' /\ Pages'
  BY <1>1, <1>2, <1>3 DEF User, Kernel, Framed, Borrowed, Pages, locals
<1>6. Lines'
  BY <1>2, <1>3 DEF Lines, Masters, pic
<1>7. Calls'
  BY <1>2, Dispatch, Commands DEF Calls, InCall, locals
<1> QED
  BY <1>4, <1>5, <1>6, <1>7

(***************************************************************************)
(* A word is read from the user's stack, whose pointer was saved.          *)
(***************************************************************************)
LEMMA ReadInv == ASSUME TrapInv, NEW n \in {0, 1}, ReadItem(n), pc \in {"item1", "item0"}
                 PROVE  /\ items' = [items EXCEPT ![n] = Item(frame.esp, n)]
                        /\ items' \in [{0, 1} -> {Item(e, k) : e \in Esp, k \in {0, 1}} \cup {<<"nothing">>}]
                        /\ ds' = "kernel" /\ cr3' = "kernel"
                        /\ frame \in Registers
                        /\ UNCHANGED <<IF_flag, regs, frame, saved, tmp_res, pte, heap, buf, pic>>
<1> USE DEF TrapInv
<1>1. frame \in Registers /\ saved = frame /\ frame.esp \in Esp
  BY DEF Framed, Calls, InCall, Registers
<1>2. items' = [items EXCEPT ![n] = Item(frame.esp, n)]
  BY <1>1 DEF ReadItem
<1>3. items' \in [{0, 1} -> {Item(e, k) : e \in Esp, k \in {0, 1}} \cup {<<"nothing">>}]
  BY <1>1, <1>2 DEF Calls
<1> QED
  BY <1>1, <1>2, <1>3 DEF ReadItem, KernelPage

(***************************************************************************)
(* The second argument of sum is read.                                     *)
(***************************************************************************)
LEMMA Item1Inv == ASSUME TrapInv, item1 PROVE TrapInv'
<1> USE DEF TrapInv
<1>1. /\ pc = "item1" /\ pc' = "item0"
      /\ frame.eax = SumCmd
  BY DEF item1, Calls
<1>2. /\ items' = [items EXCEPT ![1] = Item(frame.esp, 1)]
      /\ items' \in [{0, 1} -> {Item(e, k) : e \in Esp, k \in {0, 1}} \cup {<<"nothing">>}]
      /\ ds' = "kernel" /\ cr3' = "kernel"
      /\ frame \in Registers
      /\ UNCHANGED <<IF_flag, regs, frame, saved, tmp_res, pte, heap, buf, pic>>
  BY <1>1, ReadInv DEF item1
<1>3. TypeOK'
  BY <1>1, <1>2 DEF TypeOK, pic
<1>4. User' /\ Kernel' /\ Framed' /\ Borrowed' /\ Pages' /\ Lines'
  BY <1>1, <1>2 DEF User, Kernel, Framed, Borrowed, Pages, Lines, Masters, InCall, pic
<1>5. items'[1] = Item(frame.esp, 1)
  BY <1>2 DEF Calls
<1>6. Calls'
  BY <1>1, <1>2, <1>5, Commands DEF Calls, InCall
<1> QED
  BY <1>3, <1>4, <1>6

(***************************************************************************)
(* The first argument is read.                                             *)
(***************************************************************************)
LEMMA Item0Inv == ASSUME TrapInv, item0 PROVE TrapInv'
<1> USE DEF TrapInv
<1>1. pc = "item0" /\ pc' \in {"sum", "copy", "result0"}
  BY AfterItem0 DEF item0
<1>2. /\ items' = [items EXCEPT ![0] = Item(frame.esp, 0)]
      /\ items' \in [{0, 1} -> {Item(e, k) : e \in Esp, k \in {0, 1}} \cup {<<"nothing">>}]
      /\ ds' = "kernel" /\ cr3' = "kernel"
      /\ frame \in Registers
      /\ UNCHANGED <<IF_flag, regs, frame, saved, tmp_res, pte, heap, buf, pic>>
  BY <1>1, ReadInv DEF item0
<1>3. TypeOK'
  BY <1>1, <1>2 DEF TypeOK, pic
<1>4. User' /\ Kernel' /\ Framed' /\ Borrowed' /\ Pages' /\ Lines'
  BY <1>1, <1>2 DEF User, Kernel, Framed, Borrowed, Pages, Lines, Masters, InCall, pic
<1>5. items'[0] = Item(frame.esp, 0) /\ items'[1] = items[1]
  BY <1>2 DEF Calls
<1>6. Calls'
  BY <1>1, <1>2, <1>5, AfterItem0, Commands DEF Calls, InCall
<1> QED
  BY <1>3, <1>4, <1>6

(***************************************************************************)
(* copy_string_from_task takes memory and the task's pages, or gives up.   *)
(***************************************************************************)
LEMMA CopyInv == ASSUME TrapInv, copy PROVE TrapInv'
<1> USE DEF TrapInv
<1> USE DEF copy, pic
<1>1. TypeOK'
  BY DEF TypeOK
<1>2. User' /\ Kernel' /\ Framed' /\ Borrowed' /\ Pages'
  BY DEF User, Kernel, Framed, Borrowed, Pages, InCall
<1>3. Lines' /\ Calls'
  BY DEF Lines, Masters, Calls, InCall
<1> QED
  BY <1>1, <1>2, <1>3

(***************************************************************************)
(* copy_string_from_task puts everything back.                             *)
(***************************************************************************)
LEMMA RestoreInv == ASSUME TrapInv, restore PROVE TrapInv'
<1> USE DEF TrapInv
<1> USE DEF restore, KernelPage, pic
<1>1. TypeOK'
  BY DEF TypeOK
<1>2. User' /\ Kernel' /\ Framed' /\ Borrowed' /\ Pages'
  BY DEF User, Kernel, Framed, Borrowed, Pages, InCall
<1>3. Lines' /\ Calls'
  BY DEF Lines, Masters, Calls, InCall
<1> QED
  BY <1>1, <1>2, <1>3

(***************************************************************************)
(* The text is printed.                                                    *)
(***************************************************************************)
LEMMA PrintInv == ASSUME TrapInv, print PROVE TrapInv'
<1> USE DEF TrapInv
<1> USE DEF print, locals, pic
<1>1. TypeOK'
  BY DEF TypeOK
<1>2. User' /\ Kernel' /\ Framed' /\ Borrowed' /\ Pages'
  BY DEF User, Kernel, Framed, Borrowed, Pages, InCall
<1>3. Lines' /\ Calls'
  BY DEF Lines, Masters, Calls, InCall
<1> QED
  BY <1>1, <1>2, <1>3

(***************************************************************************)
(* isr80h_handler returns the result that the system call owes.            *)
(***************************************************************************)
LEMMA FinishInv ==
    ASSUME TrapInv, NEW r \in Eax, Finish(r), pc \in {"sum", "getkey", "result0"},
           r \in Results(frame.eax, frame.esp)
    PROVE  TrapInv'
<1> USE DEF TrapInv
<1>1. /\ pc' = "popad80" /\ ds' = "user" /\ cr3' = "task" /\ tmp_res' = r
      /\ items' = NoItems /\ buf' = "undefined"
      /\ UNCHANGED <<IF_flag, regs, frame, saved, pte, heap, pic>>
  BY DEF Finish, TaskPage
<1>2. TypeOK'
  BY <1>1 DEF TypeOK, pic
<1>3. User' /\ Kernel' /\ Framed' /\ Borrowed' /\ Pages' /\ Lines'
  BY <1>1 DEF User, Kernel, Framed, Borrowed, Pages, Lines, Masters, InCall, pic
<1>4. NoItems \in [{0, 1} -> {Item(e, k) : e \in Esp, k \in {0, 1}} \cup {<<"nothing">>}]
  BY DEF NoItems
<1>5. Calls'
  BY <1>1, <1>4 DEF Calls, InCall
<1> QED
  BY <1>2, <1>3, <1>5

(***************************************************************************)
(* The system call sum answers.                                            *)
(***************************************************************************)
LEMMA SumInv == ASSUME TrapInv, sum PROVE TrapInv'
<1> USE DEF TrapInv
<1>1. /\ pc = "sum" /\ frame.eax = SumCmd /\ frame.esp \in Esp
      /\ items[0] = Item(frame.esp, 0) /\ items[1] = Item(frame.esp, 1)
  BY DEF sum, Calls, Framed, Registers
<1>2. Sum(items[0], items[1]) \in Results(frame.eax, frame.esp)
  BY <1>1, Owed
<1>3. Sum(items[0], items[1]) \in Eax
  BY <1>1 DEF Eax
<1> QED
  BY <1>1, <1>2, <1>3, FinishInv DEF sum

(***************************************************************************)
(* The system call getkey answers.                                         *)
(***************************************************************************)
LEMMA GetkeyInv == ASSUME TrapInv, getkey PROVE TrapInv'
<1> USE DEF TrapInv
<1>1. pc = "getkey" /\ frame.eax = GetkeyCmd
  BY DEF getkey, Calls
<1>2. PICK ch \in Char : Finish(Answer(ch))
  BY DEF getkey
<1>3. Answer(ch) \in Results(frame.eax, frame.esp) /\ Answer(ch) \in Eax
  BY <1>1, Owed DEF Eax
<1> QED
  BY <1>1, <1>2, <1>3, FinishInv

(***************************************************************************)
(* The other system calls answer 0.                                        *)
(***************************************************************************)
LEMMA Result0Inv == ASSUME TrapInv, result0 PROVE TrapInv'
<1> USE DEF TrapInv
<1>1. pc = "result0" /\ frame.eax \notin {SumCmd, GetkeyCmd}
  BY DEF result0, Calls
<1>2. Zero \in Results(frame.eax, frame.esp) /\ Zero \in Eax
  BY <1>1, Owed DEF Eax
<1> QED
  BY <1>1, <1>2, FinishInv DEF result0

(***************************************************************************)
(* iret from a system call.                                                *)
(***************************************************************************)
LEMMA Popad80Inv == ASSUME TrapInv, popad80 PROVE TrapInv'
<1> USE DEF TrapInv
<1> USE DEF popad80, locals, pic
<1>1. frame \in Registers /\ tmp_res \in Eax
  BY DEF Framed, TypeOK
<1>2. regs' \in Registers
  BY <1>1 DEF Registers
<1>3. TypeOK'
  BY <1>2 DEF TypeOK
<1>4. User' /\ Kernel' /\ Framed' /\ Borrowed' /\ Pages'
  BY <1>2 DEF User, Kernel, Framed, Borrowed, Pages, InCall
<1>5. Lines' /\ Calls'
  BY DEF Lines, Masters, Calls, InCall
<1> QED
  BY <1>3, <1>4, <1>5

-----------------------------------------------------------------------------
(***************************************************************************)
(* Every step of the machine keeps the invariant.                          *)
(***************************************************************************)
THEOREM TrapInvariant == Spec => []TrapInv
<1>1. TrapInv /\ UNCHANGED vars => TrapInv'
  BY DEF vars, machine, locals, pic, TrapInv, TypeOK, User, Kernel, Framed, Lines, Masters,
         Borrowed, Pages, Calls
<1>2. ASSUME TrapInv, KernelStep PROVE TrapInv'
  BY <1>2, CallbackInv, LeaveInv, PopadInv, HandlerInv, Item1Inv, Item0Inv, CopyInv, RestoreInv,
     PrintInv, SumInv, GetkeyInv, Result0Inv, Popad80Inv, FirstTaskInv DEF KernelStep
<1>3. TrapInv /\ [Next]_vars => TrapInv'
  BY <1>1, <1>2, RequestInv, InterruptInv, RunInv, Int80Inv DEF Next
<1> QED
  BY <1>3, InitInv, PTL DEF Spec

(***************************************************************************)
(* The registers and the kernel's variables always hold what they should,  *)
(* whatever values the program puts into its registers.                    *)
(***************************************************************************)
THEOREM TrapTypeOK == Spec => []TypeOK
<1>1. TrapInv => TypeOK
  BY DEF TrapInv
<1> QED
  BY <1>1, TrapInvariant, PTL

(***************************************************************************)
(* Whatever way the kernel was entered and left by, the program runs with  *)
(* its own pages, segments and page table, and the kernel is never         *)
(* interrupted and works on its own pages.                                 *)
(***************************************************************************)
THEOREM TrapOwnContext == Spec => []OwnContext
<1>1. ASSUME TrapInv PROVE Cardinality(Masters) <= 1
  <2>1. PICK i \in IRQ : Masters \subseteq {i}
    BY <1>1 DEF TrapInv, Lines
  <2>2. CASE Masters = {}
    BY <2>2, FS_EmptySet
  <2>3. CASE Masters = {i}
    BY <2>3, FS_Singleton
  <2> QED
    BY <2>1, <2>2, <2>3
<1>2. ASSUME TrapInv, pc = "user" PROVE \A i \in isr : Slave(i)
  BY <1>2 DEF TrapInv, Lines, Masters
<1>3. TrapInv => OwnContext
  BY <1>1, <1>2 DEF TrapInv, OwnContext, User, Kernel, Borrowed, Pages, InCall, Masters
<1> QED
  BY <1>3, TrapInvariant, PTL

(***************************************************************************)
(* After its first interrupt, no request of the disk is ever served: the   *)
(* end-of-interrupt command never reaches the slave controller.            *)
(***************************************************************************)
THEOREM TrapDiskServedOnce == Spec => DiskServedOnce
<1> DEFINE Stuck == Disk \in isr => Disk \in isr' /\ (Disk \in irr => Disk \in irr')
<1>1. ASSUME NEW i \in IRQ, Interrupt(i), Disk \in isr PROVE i # Disk
  BY <1>1 DEF Interrupt, Deliverable, Slave, Disk, IRQ, Timer, Keyboard
<1>2. ASSUME KernelStep PROVE Stuck
  <2>1. CASE leave_interrupt
    BY <2>1 DEF leave_interrupt, Slave, Disk
  <2>2. CASE UNCHANGED <<irr, isr>>
    BY <2>2
  <2> QED
    BY <1>2, <2>1, <2>2 DEF KernelStep, pic, callback, popad, isr80h_handler, item1, item0, ReadItem,
       copy, restore, print, sum, getkey, result0, Finish, popad80, task_run_first_ever_task
<1>3. Next => Stuck
  BY <1>1, <1>2 DEF Next, Request, Interrupt, Run, int80
<1> QED
  BY <1>3, PTL DEF Spec, DiskServedOnce

-----------------------------------------------------------------------------
\* What the program sees: `mode' and `regs' of UserView.
Mode == CASE pc = "kernel_main" -> "boot"
          [] pc \in {"isr80h_handler", "item1", "item0", "copy", "restore",
                     "print", "sum", "getkey", "result0", "popad80"} -> "call"
          [] OTHER -> "user"
Seen == CASE pc = "user"        -> regs
          [] pc = "kernel_main" -> saved
          [] OTHER              -> frame

(***************************************************************************)
(* The program sees its own registers while it runs, those of the frame    *)
(* while it does not, and no difference between running and being          *)
(* interrupted.                                                            *)
(***************************************************************************)
LEMMA Sight ==
    /\ pc = "kernel_main" => Mode = "boot" /\ Seen = saved
    /\ pc = "user" => Mode = "user" /\ Seen = regs
    /\ pc \in {"callback", "leave_interrupt", "popad"} => Mode = "user" /\ Seen = frame
    /\ pc \in InCall \cup {"isr80h_handler", "popad80"} => Mode = "call" /\ Seen = frame
<1>1. CASE pc = "kernel_main"
  BY <1>1 DEF Mode, Seen, InCall
<1>2. CASE pc = "user"
  BY <1>2 DEF Mode, Seen, InCall
<1>3. CASE pc \in {"callback", "leave_interrupt", "popad"}
  BY <1>3 DEF Mode, Seen, InCall
<1>4. CASE pc \in InCall \cup {"isr80h_handler", "popad80"}
  BY <1>4 DEF Mode, Seen, InCall
<1> QED
  BY <1>1, <1>2, <1>3, <1>4 DEF InCall

(***************************************************************************)
(* The same in the state after a step.                                     *)
(***************************************************************************)
LEMMA SightAfter ==
    /\ pc' = "user" => Mode' = "user" /\ Seen' = regs'
    /\ pc' \in {"callback", "leave_interrupt", "popad"} => Mode' = "user" /\ Seen' = frame'
    /\ pc' \in InCall \cup {"isr80h_handler", "popad80"} => Mode' = "call" /\ Seen' = frame'
<1>1. CASE pc' = "user"
  BY <1>1 DEF Mode, Seen, InCall
<1>2. CASE pc' \in {"callback", "leave_interrupt", "popad"}
  BY <1>2 DEF Mode, Seen, InCall
<1>3. CASE pc' \in InCall \cup {"isr80h_handler", "popad80"}
  BY <1>3 DEF Mode, Seen, InCall
<1> QED
  BY <1>1, <1>2, <1>3

(***************************************************************************)
(* What a step of the machine is for the program: nothing, an instruction, *)
(* or the way into or out of a system call.                                *)
(***************************************************************************)
LEMMA StepSeen ==
    ASSUME TrapInv, Next
    PROVE  \/ Mode' = Mode /\ Seen' = Seen
           \/ Mode = "boot" /\ Mode' = "user" /\ Seen' \in Registers
           \/ Mode = "user" /\ Mode' = "user" /\ Seen' \in Registers
           \/ Mode = "user" /\ Mode' = "call" /\ Seen' = Seen
           \/ /\ Mode = "call" /\ Mode' = "user"
              /\ \E r \in Results(Seen.eax, Seen.esp) : Seen' = [Seen EXCEPT !.eax = r]
<1>1. ASSUME NEW i \in IRQ, Request(i) PROVE Mode' = Mode /\ Seen' = Seen
  BY <1>1 DEF Request, machine, Mode, Seen
<1>2. ASSUME NEW i \in IRQ, Interrupt(i) PROVE Mode' = Mode /\ Seen' = Seen
  <2>1. /\ pc = "user" /\ frame' = regs
        /\ pc' \in {"callback", "leave_interrupt"}
    BY <1>2 DEF TrapInv, Kernel, Interrupt, Enter
  <2> QED
    BY <2>1, Sight, SightAfter
<1>3. CASE Run
  BY <1>3, Sight, SightAfter DEF Run
<1>4. CASE int80
  <2>1. pc = "user" /\ frame' = regs /\ pc' = "isr80h_handler"
    BY <1>4 DEF int80, Enter
  <2> QED
    BY <2>1, Sight, SightAfter
<1>5. CASE task_run_first_ever_task
  <2>1. pc = "kernel_main" /\ pc' = "user" /\ regs' \in Registers
    BY <1>5 DEF task_run_first_ever_task, TrapInv, TypeOK, Registers
  <2> QED
    BY <2>1, Sight, SightAfter
<1>6. CASE callback \/ leave_interrupt
  <2>1. /\ pc \in {"callback", "leave_interrupt", "popad"} /\ frame' = frame
        /\ pc' \in {"callback", "leave_interrupt", "popad"}
    BY <1>6 DEF callback, leave_interrupt
  <2> QED
    BY <2>1, Sight, SightAfter
<1>7. CASE popad
  BY <1>7, Sight, SightAfter DEF popad
<1>8. CASE isr80h_handler \/ item1 \/ item0 \/ copy \/ restore \/ print
  <2>1. pc \in InCall \cup {"isr80h_handler", "popad80"} /\ frame' = frame
    BY <1>8 DEF isr80h_handler, item1, item0, ReadItem, copy, restore, print, InCall
  <2>2. pc' \in InCall
    BY <1>8, Dispatch, AfterItem0 DEF item1, copy, restore, print, InCall
  <2> QED
    BY <2>1, <2>2, Sight, SightAfter
<1>9. CASE sum \/ getkey \/ result0
  <2>1. pc \in InCall /\ pc' = "popad80" /\ frame' = frame
    BY <1>9 DEF sum, getkey, result0, Finish, InCall
  <2> QED
    BY <2>1, Sight, SightAfter
<1>10. CASE popad80
  <2>1. /\ pc = "popad80" /\ pc' = "user" /\ regs' = [frame EXCEPT !.eax = tmp_res]
        /\ tmp_res \in Results(frame.eax, frame.esp)
    BY <1>10 DEF popad80, TrapInv, Calls
  <2> QED
    BY <2>1, Sight, SightAfter
<1> QED
  BY <1>1, <1>2, <1>3, <1>4, <1>5, <1>6, <1>7, <1>8, <1>9, <1>10 DEF Next, KernelStep

(***************************************************************************)
(* The program cannot see the kernel: the safety part of                   *)
(* ImplementsUserView, for any registers, stacks and characters.           *)
(***************************************************************************)
THEOREM TrapHidesKernel ==
    Spec => View!Init /\ [][View!Start \/ View!Run \/ View!Call \/ View!Return]_View!vars
<1>1. Init => View!Init
  <2>1. Init => saved \in Registers
    BY TrapAssumption DEF Init, Registers, Eax
  <2> QED
    BY <2>1, Sight DEF Init, View!Init, Mode, Seen, Registers, View!Registers
<1>2. ASSUME TrapInv, [Next]_vars
      PROVE  [View!Start \/ View!Run \/ View!Call \/ View!Return]_View!vars
  <2>1. CASE Next
    BY <1>2, <2>1, StepSeen DEF View!Start, View!Run, View!Call, View!Return, View!vars, Mode, Seen,
       Registers, View!Registers
  <2>2. CASE UNCHANGED vars
    BY <2>2 DEF vars, machine, View!vars
  <2> QED
    BY <1>2, <2>1, <2>2
<1> QED
  BY <1>1, <1>2, TrapInvariant, PTL DEF Spec

=============================================================================
