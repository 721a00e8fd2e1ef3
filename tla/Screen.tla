-------------------------------- MODULE Screen --------------------------------
(***************************************************************************)
(* kernel/screen.c: the text buffer of the display, a cell per character,  *)
(* and the cursor.  Colours are left out.                                  *)
(***************************************************************************)
EXTENDS Integers, Sequences

CONSTANTS
    VGA_WIDTH,   \* 80
    VGA_HEIGHT,  \* 25
    TAB_WIDTH    \* 8

VARIABLE screen  \* [buffer, cursor_x, cursor_y]

ASSUME ScreenAssumption ==
    /\ VGA_WIDTH \in Nat \ {0} /\ VGA_HEIGHT \in Nat \ {0} /\ TAB_WIDTH \in Nat \ {0}
    /\ VGA_WIDTH % TAB_WIDTH = 0

BS == 8
TAB == 9
NL == 10
CR == 13
SP == 32

Cells == 0..(VGA_WIDTH * VGA_HEIGHT - 1)

Cleared == [buffer |-> [k \in Cells |-> SP], cursor_x |-> 0, cursor_y |-> 0]

screen_clear == screen' = Cleared

screen_scroll_off(b) ==   \* mutant: the last row stays
    [k \in Cells |-> IF k < (VGA_HEIGHT - 1) * VGA_WIDTH THEN b[k + VGA_WIDTH] ELSE b[k]]

\* Every row moves up and the last one becomes blank.
screen_scroll(b) ==
    [k \in Cells |-> IF k < (VGA_HEIGHT - 1) * VGA_WIDTH THEN b[k + VGA_WIDTH] ELSE SP]

\* The character itself, before the cursor is brought back on the screen.
Shown(s, c) ==
    CASE c = NL  -> [s EXCEPT !.cursor_x = 0, !.cursor_y = @ + 1]
      [] c = CR  -> [s EXCEPT !.cursor_x = 0]
      [] c = TAB -> [s EXCEPT !.cursor_x = ((@ + TAB_WIDTH) \div TAB_WIDTH) * TAB_WIDTH]
      [] c = BS  -> [s EXCEPT !.cursor_x = IF @ > 0 THEN @ - 1 ELSE @]
      [] OTHER   -> [s EXCEPT !.buffer[s.cursor_y * VGA_WIDTH + s.cursor_x] = c, !.cursor_x = @ + 1]

screen_putchar(c) ==
    LET shown == Shown(screen, c)
        wrapped == IF shown.cursor_x >= VGA_WIDTH
                   THEN [shown EXCEPT !.cursor_x = 0, !.cursor_y = @ + 1] ELSE shown
    IN  screen' = IF wrapped.cursor_y >= VGA_HEIGHT
                  THEN [wrapped EXCEPT !.buffer = screen_scroll(@), !.cursor_y = VGA_HEIGHT - 1]
                  ELSE wrapped
===============================================================================
