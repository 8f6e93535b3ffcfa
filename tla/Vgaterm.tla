------------------------------ MODULE Vgaterm ------------------------------
(***************************************************************************)
(* The screen: kernel/vgaterm.c.  Characters come from printf, from the    *)
(* programs' writes (stdout_write) and from the echo of keys (kernel/      *)
(* tty.c), one vgaterm_putchar each.                                       *)
(*                                                                         *)
(* The video memory is a map from positions to characters and goes on      *)
(* behind the screen; scrolling reads and clears the row there.  Colours   *)
(* are left out.                                                           *)
(***************************************************************************)
EXTENDS Naturals, Sequences

CONSTANTS
    VGATERM_WIDTH, VGATERM_HEIGHT,
    Chars         \* bound: the characters written, newline and space apart

ASSUME VgatermAssumption ==
    VGATERM_WIDTH \in Nat \ {0} /\ VGATERM_HEIGHT \in Nat \ {0}

Columns == 0 .. VGATERM_WIDTH - 1
Rows    == 0 .. VGATERM_HEIGHT - 1
BLANK   == "blank"
ASSUME BlankAssumption == BLANK \notin Chars

VARIABLES
    vgaterm_buf,
    vgaterm_x, vgaterm_y,
    cursor,        \* where the hardware shows its cursor
    wrapped        \* history: a line has filled the last row since the screen
                   \* was cleared

vars == <<vgaterm_buf, vgaterm_x, vgaterm_y, cursor, wrapped>>

VGATERM_ADDR(x, y) == y * VGATERM_WIDTH + x

vgaterm_set_cursor(x, y) == VGATERM_ADDR(x, y)

RowOf(p) == p \div VGATERM_WIDTH

\* Mutant: the last row of the screen keeps its text.
scroll_keeps_last_row(b) ==
    [p \in DOMAIN b |-> IF RowOf(p) < VGATERM_HEIGHT - 1 THEN b[p + VGATERM_WIDTH]
                        ELSE IF RowOf(p) = VGATERM_HEIGHT THEN BLANK
                        ELSE b[p]]

\* The row behind the screen moves up into the last one and is cleared, not
\* the last row.
vgaterm_scroll(b) ==
    [p \in DOMAIN b |-> IF RowOf(p) < VGATERM_HEIGHT THEN b[p + VGATERM_WIDTH]
                        ELSE BLANK]

\* The hardware cursor stays where it was.
vgaterm_newline ==
    /\ IF vgaterm_y = VGATERM_HEIGHT - 1
       THEN vgaterm_buf' = vgaterm_scroll(vgaterm_buf) /\ UNCHANGED vgaterm_y
       ELSE vgaterm_y' = vgaterm_y + 1 /\ UNCHANGED vgaterm_buf
    /\ vgaterm_x' = 0
    /\ UNCHANGED <<cursor, wrapped>>

\* A character; at the end of the last row writing goes on in the first one,
\* without scrolling.
vgaterm_putchar(c) ==
    /\ vgaterm_buf' = [vgaterm_buf EXCEPT ![VGATERM_ADDR(vgaterm_x, vgaterm_y)] = c]
    /\ IF vgaterm_x + 1 = VGATERM_WIDTH
       THEN vgaterm_x' = 0 /\ vgaterm_y' = (vgaterm_y + 1) % VGATERM_HEIGHT
       ELSE vgaterm_x' = vgaterm_x + 1 /\ UNCHANGED vgaterm_y
    /\ cursor' = vgaterm_set_cursor(vgaterm_x', vgaterm_y')
    /\ wrapped' = (wrapped \/ (vgaterm_x + 1 = VGATERM_WIDTH /\ vgaterm_y + 1 = VGATERM_HEIGHT))

Cleared(b) == [p \in DOMAIN b |-> IF RowOf(p) < VGATERM_HEIGHT THEN BLANK ELSE b[p]]

vgaterm_clear ==
    /\ vgaterm_x' = 0 /\ vgaterm_y' = 0
    /\ vgaterm_buf' = Cleared(vgaterm_buf)
    /\ wrapped' = FALSE
    /\ UNCHANGED cursor

\* banner() clears the screen; the memory behind it is as the mode was set.
Init ==
    /\ vgaterm_x = 0 /\ vgaterm_y = 0
    /\ vgaterm_buf = [p \in 0 .. VGATERM_WIDTH * (VGATERM_HEIGHT + 1) - 1 |-> BLANK]
    /\ cursor = 0
    /\ wrapped = FALSE

Next == vgaterm_newline \/ vgaterm_clear \/ \E c \in Chars : vgaterm_putchar(c)

Spec == Init /\ [][Next]_vars

----------------------------------------------------------------------------
\* The characters of a row of buffer b, up to the first blank
Line(b, y) ==
    LET n == CHOOSE k \in 0 .. VGATERM_WIDTH :
                /\ \A x \in 0 .. k - 1 : b[VGATERM_ADDR(x, y)] # BLANK
                /\ k = VGATERM_WIDTH \/ b[VGATERM_ADDR(k, y)] = BLANK
    IN  [k \in 1 .. n |-> b[VGATERM_ADDR(k - 1, y)]]

\* The lines down to the one being written
Shown == [r \in 1 .. vgaterm_y + 1 |-> Line(vgaterm_buf, r - 1)]

Text == INSTANCE Screen
    WITH Width <- VGATERM_WIDTH, Height <- VGATERM_HEIGHT, text <- Shown

\* The screen shows the last VGATERM_HEIGHT lines of the text, the newest with
\* nothing of an older one in it, until a line fills the last row: there
\* vgaterm_putchar goes back to the top, where vgaterm_newline scrolls, and new
\* text is written over old.  From the next vgaterm_clear on it is right again.
ImplementsScreen == Text!Init /\ [][Text!Next \/ wrapped']_Shown
====
