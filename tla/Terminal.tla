------------------------------- MODULE Terminal -------------------------------
(***************************************************************************)
(* What a display promises: a page of lines with a caret on it, and one    *)
(* effect for each character it is sent, in the order they are sent.  A    *)
(* character goes to the caret; a line that is full or ended moves the     *)
(* caret to the start of the next one, and below the last line the page    *)
(* loses its first line and gains a blank one.                             *)
(***************************************************************************)
EXTENDS Integers, Sequences

CONSTANTS
    Width, Height, Stop,
    Blank,             \* what an empty place shows
    BS, TAB, NL, CR,   \* the characters that move the caret
    Chars              \* all characters

VARIABLES
    sent,   \* the characters that are still to be shown
    lines,  \* the page, from the top
    row,    \* the caret's line, 1..Height
    col     \* and its column, 1..Width

termVars == <<sent, lines, row, col>>

BlankLine == [x \in 1..Width |-> Blank]
Page == [y \in 1..Height |-> BlankLine]

Init == sent = <<>> /\ lines = Page /\ row = 1 /\ col = 1

\* The caret goes to the next line of page.
NewLine(page) ==
    /\ col' = 1
    /\ IF row < Height THEN row' = row + 1 /\ lines' = page
                       ELSE row' = row /\ lines' = Append(Tail(page), BlankLine)

\* The caret goes to column x, which may lie behind the end of the line.
Advance(page, x) ==
    IF x > Width THEN NewLine(page) ELSE col' = x /\ lines' = page /\ UNCHANGED row

Type(c) == Advance([lines EXCEPT ![row][col] = c], col + 1)
EndLine == NewLine(lines)
Return == Advance(lines, 1)
Tabulate == Advance(lines, (CHOOSE x \in (col + 1)..(col + Stop) : x % Stop = 1 % Stop))
Back == IF col > 1 THEN Advance(lines, col - 1) ELSE UNCHANGED <<lines, row, col>>

\* What character c does.
Show(c) ==
    \/ c = NL /\ EndLine
    \/ c = CR /\ Return
    \/ c = TAB /\ Tabulate
    \/ c = BS /\ Back
    \/ c \notin {NL, CR, TAB, BS} /\ Type(c)

\* The first character sent is shown; more are sent, or the page is cleared, when
\* all have been.
Put == sent # <<>> /\ Show(Head(sent)) /\ sent' = Tail(sent)
Send == sent = <<>> /\ sent' \in Seq(Chars) /\ UNCHANGED <<lines, row, col>>
Clear == sent = <<>> /\ sent' = <<>> /\ lines' = Page /\ row' = 1 /\ col' = 1

Next == Put \/ Send \/ Clear

Spec == Init /\ [][Next]_termVars
===============================================================================
