------------------------------ MODULE Display -------------------------------
(***************************************************************************)
(* The text display (src/src/display): the cursor, two 16-bit counters,    *)
(* and the places of video memory that the characters are written to.      *)
(* terminal_print is a sequence of the steps below; which character a      *)
(* place holds does not matter, only whether it lies on the screen.        *)
(***************************************************************************)
EXTENDS Integers

CONSTANTS Width, Height,    \* VGA_WIDTH, VGA_HEIGHT
          Word              \* 2^16: uint16_t counts modulo Word

ASSUME DisplayAssumption ==
    /\ Width \in Nat /\ Height \in Nat /\ Word \in Nat
    /\ 1 < Width /\ Width < Word /\ 0 < Height /\ Height < Word

VARIABLES row, col,     \* terminal_current_row, terminal_current_col
          offset,       \* where the last character went, from VIDEO_MEM_ADDR
          below,        \* history: the cursor has left the screen at the end
          joined,       \* history: a backspace was printed at a line's start
          typed         \* history: the cursor before the last character, if
                        \* that was the last thing that happened

terminal_vars == <<row, col, offset, below, joined, typed>>

Nowhere == -1
NoCursor == <<Nowhere, Nowhere>>
Cell == 0 .. Width * Height - 1

Inc(n) == (n + 1) % Word

\* Slip: an int instead of a uint16_t.
dec_slip(n) == n - 1

Dec(n) == (n + Word - 1) % Word

TerminalInit == /\ row = 0 /\ col = 0 /\ offset = Nowhere
                /\ below = FALSE /\ joined = FALSE /\ typed = NoCursor

\* terminal_putchar.
Offset(x, y) == y * Width + x

\* Slip: the line wrap comes one column late.
next_slip(y, x) == IF Inc(x) > Width THEN <<Inc(y), 0>> ELSE <<y, Inc(x)>>

\* The cursor after a character was written at <<y, x>>.
next_cursor(y, x) == IF Inc(x) >= Width THEN <<Inc(y), 0>> ELSE <<y, Inc(x)>>

Move(cursor) == /\ row' = cursor[1] /\ col' = cursor[2]
                /\ below' = (below \/ row' >= Height)

\* A character other than newline and backspace.
putchar == /\ offset' = Offset(col, row)
           /\ Move(next_cursor(row, col))
           /\ typed' = <<row, col>>
           /\ UNCHANGED joined

newline == /\ Move(<<Inc(row), 0>>)
           /\ typed' = NoCursor
           /\ UNCHANGED <<offset, joined>>

\* Where terminal_backspace writes the blank, and where it leaves the cursor:
\* one place before the one after the blank.
BlankAt == IF col = 0 THEN <<Dec(row), Width - 1>> ELSE <<row, Dec(col)>>

\* Slip: the cursor stays behind the blank.
end_behind_slip(blank) == next_cursor(blank[1], blank[2])

backspace_end(blank) == LET n == next_cursor(blank[1], blank[2]) IN <<n[1], Dec(n[2])>>

terminal_backspace ==
    \/ row = 0 /\ col = 0 /\ typed' = NoCursor /\ UNCHANGED <<row, col, offset, below, joined>>
    \/ /\ row # 0 \/ col # 0
       /\ offset' = Offset(BlankAt[2], BlankAt[1])
       /\ Move(backspace_end(BlankAt))
       /\ joined' = (joined \/ col = 0)
       /\ typed' = NoCursor

TerminalNext == putchar \/ newline \/ terminal_backspace

TerminalSpec == TerminalInit /\ [][TerminalNext]_terminal_vars

-----------------------------------------------------------------------------
(***************************************************************************)
(* Type correctness: the column is on the screen, or the wrapped-around    *)
(* value that terminal_backspace leaves behind at the start of a line.     *)
(***************************************************************************)
TerminalTypeOK == /\ row \in 0 .. Word - 1
                  /\ col \in 0 .. Width - 1 \cup {Word - 1}
                  /\ offset \in Int /\ below \in BOOLEAN /\ joined \in BOOLEAN

(***************************************************************************)
(* Characters are written to the screen's part of video memory, and the    *)
(* column stays below Width, unless the text has run off the last row      *)
(* (there is no scrolling) or a backspace was printed at the start of a    *)
(* line.                                                                   *)
(***************************************************************************)
OnScreen == ~ below /\ ~ joined => /\ offset \in Cell \cup {Nowhere}
                                   /\ col < Width

(***************************************************************************)
(* A backspace undoes the character before it: the blank goes where the    *)
(* character went and the cursor comes back there, except after the last   *)
(* character of a line (the cursor has moved to the next line by then).    *)
(* No backspace takes the cursor back to an earlier line: it goes up a     *)
(* line to write its blank, but terminal_putchar's line wrap takes it down *)
(* again (the counter's last line is followed by line 0).                  *)
(***************************************************************************)
BackspaceUndoes ==
    [][terminal_backspace =>
         /\ typed # NoCursor /\ typed[2] + 1 < Width
              => <<row', col'>> = typed /\ offset' = offset
         /\ row' >= row \/ row = Word - 1]_terminal_vars

=============================================================================
