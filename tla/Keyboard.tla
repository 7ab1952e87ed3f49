------------------------------ MODULE Keyboard ------------------------------
(***************************************************************************)
(* The way of a key press from the keyboard controller through the         *)
(* interrupt handler of qwerty.c into the ring buffer of the process, and  *)
(* from there through the getkey system call to the program                *)
(* (src/src/keyboard).                                                     *)
(*                                                                         *)
(* A character is represented by the key press it comes from, so that the  *)
(* model can tell which press got where; the code never looks at the       *)
(* characters but to tell 0 from the others.  The handler and the system   *)
(* call both run with interrupts disabled and are one step each (module    *)
(* Trap shows that they do); the controller goes on while the handler      *)
(* runs.                                                                   *)
(*                                                                         *)
(* kernel_main loads one process, so the process that keyboard_push asks   *)
(* for (process_current) is the one keyboard_pop reads from (the process   *)
(* of task_current).                                                       *)
(***************************************************************************)
EXTENDS Integers, Sequences, SequencesExt

CONSTANTS Size,         \* RASOS_KEYBOARD_BUFFER_SIZE
          Key,          \* the key presses of a run
          Silent,       \* the presses of keys the scan code table maps to 0
                        \* or does not reach
          Edge,         \* the presses of keypad 0, whose scan code is equal
                        \* to the size of the table
          NoKey,        \* the character 0
          Release,      \* a byte of a key release, or the prefix 0xE0: bit 7
          MaxWire       \* bound: bytes waiting in the keyboard

ASSUME KeyboardAssumption ==
    /\ Size \in Nat \ {0}
    /\ Silent \subseteq Key /\ Edge \subseteq Key /\ Silent \cap Edge = {}
    /\ NoKey \notin Key /\ Release \notin Key /\ NoKey # Release
    /\ MaxWire \in Nat

Slot == 0 .. Size - 1

VARIABLES wire,     \* bytes in the keyboard, waiting for the controller
          out,      \* the controller's output register (port 0x60)
          full,     \* the register holds a byte that was not read yet
          irq,      \* the interrupt controller has a request for IRQ 1
          buffer, head, tail,   \* process->keyboard
          pressed,  \* history: the key presses, in order
          pushed,   \* history: the key presses that were stored, in order
          got,      \* history: the key presses getkey returned, in order
          starved,  \* history: keyboard_pop has advanced over an empty slot
          waits     \* history: waits[s], polls since slot s was filled

vars == <<wire, out, full, irq, buffer, head, tail, pressed, pushed, got, starved, waits>>

Stored == {buffer[s] : s \in Slot} \ {NoKey}
Got    == ToSet(got)
Lost   == ToSet(pushed) \ (Stored \cup Got)

Init == /\ wire = <<>> /\ out = Release /\ full = FALSE /\ irq = FALSE
        /\ buffer = [s \in Slot |-> NoKey] /\ head = 0 /\ tail = 0
        /\ pressed = <<>> /\ pushed = <<>> /\ got = <<>> /\ starved = FALSE
        /\ waits = [s \in Slot |-> 0]

-----------------------------------------------------------------------------
\* The user and the controller.

KeyPress(k) == /\ k \notin ToSet(pressed)
               /\ Len(wire) < MaxWire
               /\ wire' = Append(wire, k)
               /\ pressed' = Append(pressed, k)
               /\ UNCHANGED <<out, full, irq, buffer, head, tail, pushed, got, starved, waits>>

KeyRelease == /\ Len(wire) < MaxWire
              /\ wire' = Append(wire, Release)
              /\ UNCHANGED <<out, full, irq, buffer, head, tail, pressed, pushed, got, starved, waits>>

\* A byte moves into the output register and requests an interrupt.
Refill == /\ ~ full /\ wire # <<>>
          /\ out' = Head(wire) /\ wire' = Tail(wire)
          /\ full' = TRUE /\ irq' = TRUE
          /\ UNCHANGED <<buffer, head, tail, pressed, pushed, got, starved, waits>>

\* The second insb of the handler discards what it reads.  It finds the old
\* byte, or the next one if the controller has been quick enough; whether
\* the request that came with that one outlives the read is up to the
\* interrupt controller.
SecondRead == \/ /\ irq' = FALSE /\ full' = FALSE
                 /\ UNCHANGED <<wire, out>>
              \/ /\ wire # <<>>
                 /\ out' = Head(wire) /\ wire' = Tail(wire)
                 /\ full' = FALSE
                 /\ irq' \in BOOLEAN

-----------------------------------------------------------------------------
\* The character of a scan code.  The bounds check lets the code that is
\* equal to the size of the table pass: it reads the byte after the table.
qwerty_keyboard_scancode_to_char(scancode) ==
    IF scancode \in Edge THEN {scancode, NoKey}
    ELSE IF scancode \in Silent THEN {NoKey}
    ELSE {scancode}

\* Slip: the wrap-around comes one slot late.
advance_late_slip(i) == IF i + 1 > Size THEN 0 ELSE i + 1

Advance(i) == IF i + 1 >= Size THEN 0 ELSE i + 1

\* Slip: the tail moves against the head.
push_slip(c) ==
    /\ buffer' = [buffer EXCEPT ![tail] = c]
    /\ tail' = IF tail = 0 THEN Size - 1 ELSE tail - 1
    /\ pushed' = Append(pushed, c)
    /\ waits' = [waits EXCEPT ![tail] = 0]

keyboard_push(c) ==
    /\ buffer' = [buffer EXCEPT ![tail] = c]
    /\ tail' = Advance(tail)
    /\ pushed' = Append(pushed, c)
    /\ waits' = [waits EXCEPT ![tail] = 0]

\* Slip: the handler returns before it has read the register when the next
\* slot is in use.
full_buffer_slip ==
    /\ irq
    /\ IF buffer[tail] # NoKey
         THEN irq' = FALSE /\ UNCHANGED <<wire, out, full, buffer, tail, pushed, waits>>
         ELSE SecondRead /\ (IF out = Release THEN UNCHANGED <<buffer, tail, pushed, waits>>
                                              ELSE keyboard_push(out))
    /\ UNCHANGED <<head, pressed, got, starved>>

qwerty_keyboard_handle_interrupt ==
    /\ irq
    /\ SecondRead
    /\ \/ /\ out = Release
          /\ UNCHANGED <<buffer, tail, pushed, waits>>
       \/ /\ out # Release
          /\ \E c \in qwerty_keyboard_scancode_to_char(out) :
                IF c # NoKey THEN keyboard_push(c)
                             ELSE UNCHANGED <<buffer, tail, pushed, waits>>
    /\ UNCHANGED <<head, pressed, got, starved>>

\* Slips: the slot is not cleared; the head moves before the slot is read.
pop_keeps_slip ==
    /\ head' = Advance(head)
    /\ got' = IF buffer[head] = NoKey THEN got ELSE Append(got, buffer[head])
    /\ starved' = (starved \/ buffer[head] = NoKey)
    /\ waits' = [s \in Slot |-> IF buffer[s] = NoKey THEN 0 ELSE waits[s] + 1]
    /\ UNCHANGED <<wire, out, full, irq, buffer, tail, pressed, pushed>>
pop_next_slip ==
    LET h == Advance(head) IN
    /\ buffer' = [buffer EXCEPT ![h] = NoKey]
    /\ head' = h
    /\ got' = IF buffer[h] = NoKey THEN got ELSE Append(got, buffer[h])
    /\ starved' = (starved \/ buffer[h] = NoKey)
    /\ waits' = [s \in Slot |-> IF buffer'[s] = NoKey THEN 0 ELSE waits[s] + 1]
    /\ UNCHANGED <<wire, out, full, irq, tail, pressed, pushed>>

\* isr80h_command2_getkey: the head moves on whether there was a key or not.
keyboard_pop ==
    /\ buffer' = [buffer EXCEPT ![head] = NoKey]
    /\ head' = Advance(head)
    /\ got' = IF buffer[head] = NoKey THEN got ELSE Append(got, buffer[head])
    /\ starved' = (starved \/ buffer[head] = NoKey)
    /\ waits' = [s \in Slot |-> IF buffer'[s] = NoKey THEN 0 ELSE waits[s] + 1]
    /\ UNCHANGED <<wire, out, full, irq, tail, pressed, pushed>>

Next == \/ \E k \in Key : KeyPress(k)
        \/ KeyRelease
        \/ Refill
        \/ qwerty_keyboard_handle_interrupt
        \/ keyboard_pop

(***************************************************************************)
(* Fairness: the program of programs/blank calls getkey in an endless      *)
(* loop, the kernel serves an interrupt before it lets the program go on,  *)
(* and the controller hands over what it has.  The user need not press     *)
(* any key.                                                                *)
(***************************************************************************)
Fairness == /\ WF_vars(keyboard_pop)
            /\ WF_vars(qwerty_keyboard_handle_interrupt)
            /\ WF_vars(Refill)

Spec == Init /\ [][Next]_vars /\ Fairness

-----------------------------------------------------------------------------
(***************************************************************************)
(* Type correctness: the indices of keyboard_push and keyboard_pop stay    *)
(* inside the buffer.                                                      *)
(***************************************************************************)
TypeOK ==
    /\ wire \in Seq(Key \cup {Release}) /\ Len(wire) <= MaxWire
    /\ out \in Key \cup {Release}
    /\ full \in BOOLEAN /\ irq \in BOOLEAN /\ starved \in BOOLEAN
    /\ buffer \in [Slot -> Key \cup {NoKey}] /\ head \in Slot /\ tail \in Slot
    /\ pressed \in Seq(Key) /\ pushed \in Seq(Key) /\ got \in Seq(Key)
    /\ waits \in [Slot -> Nat]

\* The key presses that are stored were stored in the order in which they
\* were made, and each of them once.
PushedInOrder ==
    \E f \in [1 .. Len(pushed) -> 1 .. Len(pressed)] :
        /\ \A i, j \in 1 .. Len(pushed) : i < j => f[i] < f[j]
        /\ \A i \in 1 .. Len(pushed) : pushed[i] = pressed[f[i]]

(***************************************************************************)
(* Keys keep their order.  The handler stores them in the order in which   *)
(* they were pressed, also when it serves a byte late that the second insb *)
(* took; and keyboard_pop returns them in the order in which keyboard_push *)
(* stored them, as long as it was never called on an empty slot (it moves  *)
(* the head then, past the tail) and no key was overwritten.               *)
(***************************************************************************)
InOrder ==
    /\ PushedInOrder
    /\ ~ starved /\ Lost = {} =>
          /\ IsPrefix(got, pushed)
          /\ LET n == Len(pushed) - Len(got) IN
             \A i \in 1 .. n : buffer[(head + i - 1) % Size] = pushed[Len(got) + i]

(***************************************************************************)
(* A stored key is returned by one of the next Size calls of getkey,       *)
(* wherever the head is when the key is stored, unless Size newer keys     *)
(* come before: keyboard_push has no check for a full buffer, but what it  *)
(* overwrites is never one of the last Size - 1 keys stored.               *)
(***************************************************************************)
SoonReturned ==
    /\ \A s \in Slot : buffer[s] # NoKey =>
          waits[s] + ((s + Size - head) % Size) < Size
    /\ \A k \in Lost : \A i \in 1 .. Len(pushed) :
          pushed[i] = k => i <= Len(pushed) - Size

\* How far a key press has come, for the specification of KeyDelivery.
Status == [k \in Key |-> IF k \in Stored THEN "stored"
                         ELSE IF k \in Got THEN "returned"
                         ELSE IF k \in ToSet(pushed) THEN "lost"
                         ELSE "new"]

Delivery == INSTANCE KeyDelivery WITH status <- Status

(***************************************************************************)
(* Handler, buffer and system call together implement KeyDelivery: a key   *)
(* press is stored once, and then it is returned or displaced by a newer   *)
(* one, and one of the two happens for sure.                               *)
(***************************************************************************)
ImplementsDelivery == Delivery!Spec

(***************************************************************************)
(* A key press that leaves the keyboard is not left lying in the           *)
(* controller: the handler runs for it, or it is taken by the second insb. *)
(***************************************************************************)
ControllerServed == [](full => <> ~ full)

=============================================================================
