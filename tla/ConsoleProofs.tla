----------------------------- MODULE ConsoleProofs -----------------------------
(***************************************************************************)
(* Proofs about the console and the screen for every size of the screen    *)
(* and of the command buffer, every keyboard and every text: the string    *)
(* the parser looks at is the line that was typed, and the cells and the   *)
(* cursor of screen.c behave as a terminal.                                *)
(***************************************************************************)
EXTENDS Console, WellFoundedInduction, TLAPS

\* A set of naturals that is not empty has a least element.
LEMMA LeastNat ==
    ASSUME NEW S, S \subseteq Nat, S # {}
    PROVE  \E x \in S : \A y \in S : x <= y
<1> DEFINE R == OpToRel(<, Nat)
<1>1. \A x, y \in Nat : <<y, x>> \in R <=> y < x
  BY DEF OpToRel
<1>2. IsWellFoundedOn(R, Nat)
  BY NatLessThanWellFounded, Zenon
<1> HIDE DEF R
<1>3. PICK x \in S : \A y \in S : ~(<<y, x>> \in R)
  BY <1>2, WFMin, Zenon
<1>4. ASSUME NEW y \in S PROVE ~(y < x)
  <2>1. x \in Nat /\ y \in Nat
    OBVIOUS
  <2> QED
    BY <1>1, <1>3, <2>1, Zenon
<1> QED
  BY <1>4

-----------------------------------------------------------------------------
\* A count of the characters of s from any index on: what strlen's loop leaves.
CountsFrom(s, f) == f = [i \in Nat |-> IF s[i] # NUL THEN f[i + 1] ELSE i]

\* There is one, whether or not a NUL follows.
LEMMA CountExists ==
    ASSUME NEW s
    PROVE  \E f : CountsFrom(s, f)
<1> DEFINE Ends(i) == {j \in Nat : j >= i /\ s[j] = NUL}
           Least(i) == CHOOSE x \in Ends(i) : \A y \in Ends(i) : x <= y
           f == [i \in Nat |-> IF Ends(i) = {} THEN 0 ELSE Least(i)]
<1>1. ASSUME NEW i \in Nat, Ends(i) # {}
      PROVE  Least(i) \in Ends(i) /\ \A y \in Ends(i) : Least(i) <= y
  <2>1. Ends(i) \subseteq Nat
    OBVIOUS
  <2>2. \E x \in Ends(i) : \A y \in Ends(i) : x <= y
    <3> HIDE DEF Ends
    <3> QED
      BY <1>1, <2>1, LeastNat
  <2> QED
    BY <2>2
<1> HIDE DEF Least
<1>2. ASSUME NEW i \in Nat PROVE f[i] = IF s[i] # NUL THEN f[i + 1] ELSE i
  <2>1. CASE s[i] = NUL
    <3>1. i \in Ends(i)
      BY <2>1
    <3>2. Least(i) \in Ends(i) /\ Least(i) <= i
      BY <3>1, <1>1
    <3>3. Least(i) = i
      BY <3>2
    <3>4. f[i] = Least(i)
      BY <3>1
    <3> QED
      BY <2>1, <3>3, <3>4
  <2>2. CASE s[i] # NUL
    <3>1. Ends(i) = Ends(i + 1)
      <4>1. ASSUME NEW j \in Nat PROVE j >= i /\ s[j] = NUL <=> j >= i + 1 /\ s[j] = NUL
        <5>1. j >= i /\ j # i => j >= i + 1
          OBVIOUS
        <5> QED
          BY <5>1, <2>2
      <4> QED
        BY <4>1
    <3>2. Least(i) = Least(i + 1)
      BY <3>1 DEF Least
    <3>3. i + 1 \in Nat
      OBVIOUS
    <3> HIDE DEF Ends
    <3>4. f[i] = f[i + 1]
      BY <3>1, <3>2, <3>3
    <3> QED
      BY <2>2, <3>4
  <2> QED
    BY <2>1, <2>2
<1> HIDE DEF f
<1>3. f = [i \in Nat |-> f[i]]
  BY DEF f
<1>4. CountsFrom(s, f)
  BY <1>2, <1>3 DEF CountsFrom
<1> QED
  BY <1>4

\* strlen: the index of the first NUL.
LEMMA StrlenIs ==
    ASSUME NEW s, NEW n \in Nat, s[n] = NUL, \A i \in 0..(n - 1) : s[i] # NUL
    PROVE  strlen(s) = n
<1> DEFINE c == CHOOSE f : CountsFrom(s, f)
<1>1. strlen(s) = c[0]
  BY DEF strlen, CountsFrom
<1>2. CountsFrom(s, c)
  BY CountExists
<1> HIDE DEF c
<1>3. \A i \in Nat : c[i] = IF s[i] # NUL THEN c[i + 1] ELSE i
  BY <1>2 DEF CountsFrom
<1> DEFINE T == {k \in Nat : k <= n /\ c[n - k] # n}
<1>4. T = {}
  <2> SUFFICES ASSUME T # {} PROVE FALSE
    OBVIOUS
  <2>1. PICK k \in T : \A j \in T : k <= j
    <3>1. T \subseteq Nat
      OBVIOUS
    <3> HIDE DEF T
    <3> QED
      BY <3>1, LeastNat
  <2>2. k \in Nat /\ k <= n /\ c[n - k] # n
    OBVIOUS
  <2>3. k # 0
    BY <1>3, <2>2
  <2>4. k - 1 \in Nat /\ k - 1 \notin T
    BY <2>1, <2>2, <2>3
  <2>5. c[n - (k - 1)] = n
    BY <2>2, <2>4
  <2>6. n - k \in Nat /\ n - k \in 0..(n - 1) /\ (n - k) + 1 = n - (k - 1)
    BY <2>2, <2>3
  <2>7. c[n - k] = c[(n - k) + 1]
    BY <1>3, <2>6
  <2> QED
    BY <2>2, <2>5, <2>6, <2>7
<1> HIDE DEF T
<1>5. n \notin T
  BY <1>4
<1>6. n <= n /\ n - n = 0
  OBVIOUS
<1>7. c[0] = n
  BY <1>5, <1>6 DEF T
<1> QED
  BY <1>1, <1>7

-----------------------------------------------------------------------------
\* The characters a read can give.
Typed == KeyChars \ {NUL}

\* The screen: the cursor is on it.
ScreenOK ==
    screen \in [buffer : [Cells -> Printed],
                cursor_x : 0..(VGA_WIDTH - 1), cursor_y : 0..(VGA_HEIGHT - 1)]

\* A read fills its own buffer; the console's reads end with one character.
Buffers == UNION {[0..n -> Typed \cup {NUL}] : n \in Nat}
ReadOK ==
    /\ rd \in [count : Nat, echo : BOOLEAN, i : Nat, buffer : Buffers]
    /\ rd.i <= rd.count
    /\ rd.count > 0 => DOMAIN rd.buffer = 0..(rd.count - 1)
    /\ pc = "got" => rd.count = 1 /\ (rd.i = 1 => rd.buffer[0] \in Typed)

\* The command buffer starts with the line; the parser finds a NUL behind it.
CommandOK ==
    /\ cmd \in [0..(CMD_SIZE - 1) -> Typed \cup {NUL}]
    /\ pos \in 0..(CMD_SIZE - 2)
    /\ line \in Seq(Typed) /\ Len(line) = pos
    /\ \A k \in 1..pos : cmd[k - 1] = line[k]
    /\ pc = "parse" => cmd[pos] = NUL

\* The inductive invariant.
ConsoleInv ==
    /\ key \in Keys /\ out \in Seq(Sent)
    /\ ScreenOK /\ ReadOK /\ CommandOK

\* What is typed is printed, and so are the console's own texts.
LEMMA SentSets ==
    /\ Typed \subseteq Sent /\ Printed \subseteq Sent /\ SP \in Printed
    /\ NL \in Sent /\ SP \in Sent /\ BS \in Sent /\ Outputs \subseteq Sent
    /\ PROMPT \in Seq(Sent) /\ MESSAGE \in Seq(Sent)
<1>1. Typed \subseteq Sent /\ Printed \subseteq Sent /\ SP \in Printed
      /\ NL \in Sent /\ SP \in Sent /\ BS \in Sent /\ Outputs \subseteq Sent
  BY DEF Typed, Sent, Printed
<1>2. PROMPT \in Seq(Sent)
  <2>1. PROMPT \in Seq(0..255)
    BY ConsoleAssumption
  <2>2. \A k \in 1..Len(PROMPT) : PROMPT[k] \in Sent
    BY <2>1 DEF Sent, Printed
  <2> QED
    BY <2>1, <2>2
<1>3. MESSAGE \in Seq(Sent)
  <2>1. MESSAGE \in Seq(0..255)
    BY ConsoleAssumption
  <2>2. \A k \in 1..Len(MESSAGE) : MESSAGE[k] \in Sent
    BY <2>1 DEF Sent, Printed
  <2> QED
    BY <2>1, <2>2
<1> QED
  BY <1>1, <1>2, <1>3

\* The command buffer holds the line: strlen finds its end.
LEMMA LineInBuffer ==
    ASSUME ConsoleInv, pc = "parse"
    PROVE  /\ strlen(cmd) = pos /\ pos \in Nat /\ Len(line) = pos
           /\ \A k \in 1..pos : cmd[k - 1] = line[k] /\ line[k] \in Typed
<1>1. /\ cmd[pos] = NUL /\ pos \in Nat /\ line \in Seq(Typed) /\ Len(line) = pos
      /\ \A k \in 1..pos : cmd[k - 1] = line[k]
  BY ConsoleAssumption DEF ConsoleInv, CommandOK
<1>2. \A k \in 1..pos : line[k] \in Typed
  BY <1>1
<1>3. ASSUME NEW i \in 0..(pos - 1) PROVE cmd[i] # NUL
  <2>1. i + 1 \in 1..pos /\ (i + 1) - 1 = i
    BY <1>1
  <2>2. cmd[i] = line[i + 1] /\ line[i + 1] \in Typed
    BY <1>1, <1>2, <2>1
  <2> QED
    BY <2>2 DEF Typed
<1>4. strlen(cmd) = pos
  BY <1>1, <1>3, StrlenIs
<1> QED
  BY <1>1, <1>2, <1>4

-----------------------------------------------------------------------------
(* One lemma for each part of the invariant: the steps that leave the other *)
(* parts' variables alone. *)

\* At start the screen is clear and nothing is typed.
LEMMA ConsoleInit == Init => ConsoleInv
<1> SUFFICES ASSUME Init PROVE ConsoleInv
  OBVIOUS
<1>1. key \in Keys /\ out \in Seq(Sent)
  BY DEF Init
<1>2. ScreenOK
  <2>1. 0 \in 0..(VGA_WIDTH - 1) /\ 0 \in 0..(VGA_HEIGHT - 1)
    BY ScreenAssumption
  <2> QED
    BY <2>1, SentSets DEF Init, ScreenOK, Cleared
<1>3. ReadOK
  <2>1. [k \in 0..0 |-> NUL] \in [0..0 -> Typed \cup {NUL}]
    OBVIOUS
  <2>2. [k \in 0..0 |-> NUL] \in Buffers
    BY <2>1 DEF Buffers
  <2> QED
    BY <2>2 DEF Init, ReadOK, NoRead
<1>4. CommandOK
  BY ConsoleAssumption DEF Init, CommandOK
<1> QED
  BY <1>1, <1>2, <1>3, <1>4 DEF ConsoleInv

\* A fresh read has an empty buffer.
LEMMA ReadFresh ==
    ASSUME NEW n \in Nat \ {0}, NEW e \in BOOLEAN
    PROVE  /\ Read(n, e) \in [count : Nat, echo : BOOLEAN, i : Nat, buffer : Buffers]
           /\ Read(n, e).i = 0 /\ Read(n, e).count = n
           /\ DOMAIN Read(n, e).buffer = 0..(n - 1)
<1> DEFINE z == [k \in 0..(n - 1) |-> NUL]
<1>1. n - 1 \in Nat /\ z \in [0..(n - 1) -> Typed \cup {NUL}]
  OBVIOUS
<1>2. z \in Buffers
  BY <1>1 DEF Buffers
<1> QED
  BY <1>2 DEF Read

\* A buffer with one byte changed is a buffer of the same length.
LEMMA BufferSet ==
    ASSUME NEW b \in Buffers, NEW j, NEW c \in Typed \cup {NUL}
    PROVE  /\ [b EXCEPT ![j] = c] \in Buffers
           /\ DOMAIN [b EXCEPT ![j] = c] = DOMAIN b
<1>1. PICK n \in Nat : b \in [0..n -> Typed \cup {NUL}]
  BY DEF Buffers
<1>2. [b EXCEPT ![j] = c] \in [0..n -> Typed \cup {NUL}]
  BY <1>1
<1> QED
  BY <1>1, <1>2 DEF Buffers

-----------------------------------------------------------------------------
(* The screen: cells, rows and columns. *)

\* The cell of a row and a column, counted from 0.
CellAt(y, x) == y * VGA_WIDTH + x

\* The sizes, as the arithmetic below needs them.
LEMMA ScreenSizes ==
    /\ VGA_WIDTH \in Nat /\ VGA_WIDTH >= 1 /\ VGA_HEIGHT \in Nat /\ VGA_HEIGHT >= 1
    /\ TAB_WIDTH \in Nat /\ TAB_WIDTH >= 1
  BY ScreenAssumption

\* Rows do not overlap.
LEMMA RowsApart ==
    ASSUME NEW a \in Nat, NEW b \in Nat, a < b
    PROVE  /\ a * VGA_WIDTH \in Nat /\ b * VGA_WIDTH \in Nat
           /\ a * VGA_WIDTH + VGA_WIDTH <= b * VGA_WIDTH
<1>1. VGA_WIDTH \in Nat
  BY ScreenSizes
<1> DEFINE d == b - a - 1
<1>2. d \in Nat /\ b = a + 1 + d
  OBVIOUS
<1> HIDE DEF d
<1>3. b * VGA_WIDTH = a * VGA_WIDTH + VGA_WIDTH + d * VGA_WIDTH
  BY <1>1, <1>2
<1>4. a * VGA_WIDTH \in Nat /\ d * VGA_WIDTH \in Nat
  BY <1>1, <1>2
<1> QED
  BY <1>1, <1>3, <1>4

\* Every row and column of the screen has a cell of its own.
LEMMA CellsApart ==
    ASSUME NEW a \in 0..(VGA_HEIGHT - 1), NEW b \in 0..(VGA_HEIGHT - 1),
           NEW x \in 0..(VGA_WIDTH - 1), NEW z \in 0..(VGA_WIDTH - 1)
    PROVE  /\ CellAt(a, x) \in Cells
           /\ CellAt(a, x) = CellAt(b, z) => a = b /\ x = z
<1>1. VGA_WIDTH \in Nat /\ VGA_HEIGHT \in Nat /\ a \in Nat /\ b \in Nat /\ x \in Nat /\ z \in Nat
  BY ScreenSizes
<1>2. CellAt(a, x) \in Cells
  <2>1. a < VGA_HEIGHT
    BY <1>1
  <2>2. a * VGA_WIDTH \in Nat /\ a * VGA_WIDTH + VGA_WIDTH <= VGA_HEIGHT * VGA_WIDTH
        /\ VGA_HEIGHT * VGA_WIDTH \in Nat
    BY <1>1, <2>1, RowsApart
  <2>3. VGA_HEIGHT * VGA_WIDTH = VGA_WIDTH * VGA_HEIGHT
    BY <1>1
  <2> DEFINE p == a * VGA_WIDTH
             q == VGA_WIDTH * VGA_HEIGHT
  <2>4. p \in Nat /\ q \in Nat /\ p + VGA_WIDTH <= q
    BY <2>2, <2>3
  <2> HIDE DEF p, q
  <2>5. p + x \in 0..(q - 1)
    BY <1>1, <2>4
  <2> QED
    BY <2>5 DEF p, q, CellAt, Cells
<1>3. ASSUME CellAt(a, x) = CellAt(b, z) PROVE a = b /\ x = z
  <2> DEFINE p == a * VGA_WIDTH
             q == b * VGA_WIDTH
  <2>1. p + x = q + z
    BY <1>3 DEF CellAt
  <2>2. p \in Nat /\ q \in Nat
    BY <1>1
  <2>3. a < b => p + VGA_WIDTH <= q
    BY <1>1, RowsApart
  <2>4. b < a => q + VGA_WIDTH <= p
    BY <1>1, RowsApart
  <2>5. a = b => p = q
    OBVIOUS
  <2> HIDE DEF p, q
  <2>6. a = b
    BY <1>1, <2>1, <2>2, <2>3, <2>4
  <2> QED
    BY <1>1, <2>1, <2>2, <2>5, <2>6
<1> QED
  BY <1>2, <1>3

\* The page a buffer shows, cell by cell.
LEMMA PageCells ==
    ASSUME NEW b
    PROVE  /\ DOMAIN PageOf(b) = 1..VGA_HEIGHT
           /\ \A y \in 1..VGA_HEIGHT :
                /\ PageOf(b)[y] = [x \in 1..VGA_WIDTH |-> b[CellAt(y - 1, x - 1)]]
                /\ DOMAIN PageOf(b)[y] = 1..VGA_WIDTH
                /\ \A x \in 1..VGA_WIDTH : PageOf(b)[y][x] = b[CellAt(y - 1, x - 1)]
<1>1. ASSUME NEW y \in 1..VGA_HEIGHT, NEW x \in 1..VGA_WIDTH
      PROVE  (y - 1) * VGA_WIDTH + x - 1 = CellAt(y - 1, x - 1)
  <2>1. y - 1 \in Nat /\ x \in Nat /\ VGA_WIDTH \in Nat /\ (y - 1) * VGA_WIDTH \in Nat
    BY ScreenSizes
  <2> DEFINE p == (y - 1) * VGA_WIDTH
  <2>2. p \in Nat
    BY <2>1
  <2> HIDE DEF p
  <2>3. p + x - 1 = p + (x - 1)
    BY <2>1, <2>2
  <2> QED
    BY <2>3 DEF p, CellAt
<1> QED
  BY <1>1 DEF PageOf

\* A character in a cell, and in a place of a page.
Written(b, y, x, c) == [b EXCEPT ![CellAt(y, x)] = c]
Changed(page, y, x, c) == [page EXCEPT ![y][x] = c]

\* Writing a cell writes the character at that row and column of the page.
LEMMA PageSet ==
    ASSUME NEW b \in [Cells -> Printed], NEW y \in 0..(VGA_HEIGHT - 1),
           NEW x \in 0..(VGA_WIDTH - 1), NEW c
    PROVE  PageOf(Written(b, y, x, c)) = Changed(PageOf(b), y + 1, x + 1, c)
<1> DEFINE d == [b EXCEPT ![CellAt(y, x)] = c]
           P == PageOf(b)
           Q == PageOf(d)
           r == [P[y + 1] EXCEPT ![x + 1] = c]
           R == [P EXCEPT ![y + 1] = r]
<1>1. /\ y + 1 \in 1..VGA_HEIGHT /\ x + 1 \in 1..VGA_WIDTH
      /\ y \in Nat /\ x \in Nat /\ VGA_HEIGHT \in Nat /\ VGA_WIDTH \in Nat
  BY ScreenSizes
<1>2. /\ DOMAIN P = 1..VGA_HEIGHT /\ DOMAIN Q = 1..VGA_HEIGHT
      /\ \A v \in 1..VGA_HEIGHT :
           /\ P[v] = [u \in 1..VGA_WIDTH |-> b[CellAt(v - 1, u - 1)]]
           /\ Q[v] = [u \in 1..VGA_WIDTH |-> d[CellAt(v - 1, u - 1)]]
  <2> HIDE DEF d
  <2>1. DOMAIN P = 1..VGA_HEIGHT /\ DOMAIN Q = 1..VGA_HEIGHT
    BY DEF PageOf
  <2>2. \A v \in 1..VGA_HEIGHT : P[v] = [u \in 1..VGA_WIDTH |-> b[CellAt(v - 1, u - 1)]]
    BY PageCells, Zenon
  <2>3. \A v \in 1..VGA_HEIGHT : Q[v] = [u \in 1..VGA_WIDTH |-> d[CellAt(v - 1, u - 1)]]
    BY PageCells, Zenon
  <2> QED
    BY <2>1, <2>2, <2>3
<1>3. ASSUME NEW v \in 1..VGA_HEIGHT, NEW u \in 1..VGA_WIDTH
      PROVE  d[CellAt(v - 1, u - 1)] = IF v = y + 1 /\ u = x + 1 THEN c ELSE b[CellAt(v - 1, u - 1)]
  <2>1. v - 1 \in 0..(VGA_HEIGHT - 1) /\ u - 1 \in 0..(VGA_WIDTH - 1)
    BY <1>1
  <2>2. /\ CellAt(v - 1, u - 1) \in Cells
        /\ CellAt(v - 1, u - 1) = CellAt(y, x) => v - 1 = y /\ u - 1 = x
    BY <2>1, CellsApart
  <2>3. (v - 1 = y /\ u - 1 = x) <=> (v = y + 1 /\ u = x + 1)
    BY <1>1
  <2> QED
    BY <2>2, <2>3
<1> HIDE DEF d
<1>4. P = [v \in 1..VGA_HEIGHT |-> P[v]] /\ Q = [v \in 1..VGA_HEIGHT |-> Q[v]]
  BY DEF PageOf
<1> HIDE DEF P, Q
<1>5. r = [u \in 1..VGA_WIDTH |-> IF u = x + 1 THEN c ELSE b[CellAt(y + 1 - 1, u - 1)]]
  <2> DEFINE z == y + 1
  <2>1. z \in 1..VGA_HEIGHT
    BY <1>1
  <2> HIDE DEF z
  <2>2. P[z] = [u \in 1..VGA_WIDTH |-> b[CellAt(z - 1, u - 1)]]
    BY <1>2, <2>1
  <2>3. [P[z] EXCEPT ![x + 1] = c] =
            [u \in 1..VGA_WIDTH |-> IF u = x + 1 THEN c ELSE b[CellAt(z - 1, u - 1)]]
    BY <2>2
  <2> QED
    BY <2>3 DEF z
<1>6. Q[y + 1] = r
  <2>1. Q[y + 1] = [u \in 1..VGA_WIDTH |-> d[CellAt(y + 1 - 1, u - 1)]]
    <3> DEFINE z == y + 1
    <3>1. z \in 1..VGA_HEIGHT
      BY <1>1
    <3> HIDE DEF z
    <3>2. Q[z] = [u \in 1..VGA_WIDTH |-> d[CellAt(z - 1, u - 1)]]
      BY <1>2, <3>1
    <3> QED
      BY <3>2 DEF z
  <2>2. \A u \in 1..VGA_WIDTH : d[CellAt(y + 1 - 1, u - 1)] = IF u = x + 1 THEN c ELSE b[CellAt(y + 1 - 1, u - 1)]
    BY <1>1, <1>3
  <2> HIDE DEF r
  <2> QED
    BY <1>5, <2>1, <2>2
<1>7. ASSUME NEW v \in 1..VGA_HEIGHT, v # y + 1 PROVE Q[v] = P[v]
  <2>1. \A u \in 1..VGA_WIDTH : d[CellAt(v - 1, u - 1)] = b[CellAt(v - 1, u - 1)]
    BY <1>3, <1>7
  <2>2. /\ P[v] = [u \in 1..VGA_WIDTH |-> b[CellAt(v - 1, u - 1)]]
        /\ Q[v] = [u \in 1..VGA_WIDTH |-> d[CellAt(v - 1, u - 1)]]
    BY <1>2
  <2> QED
    BY <2>1, <2>2
<1> HIDE DEF r
<1>8. R = [v \in 1..VGA_HEIGHT |-> IF v = y + 1 THEN r ELSE P[v]]
  BY <1>2, <1>4
<1>9. Q = R
  <2> HIDE DEF R
  <2> QED
    BY <1>4, <1>6, <1>7, <1>8
<1> QED
  BY <1>9 DEF P, Q, R, d, r, Written, Changed

\* screen_scroll drops the first line of the page and adds a blank one.
LEMMA PageScroll ==
    ASSUME NEW b \in [Cells -> Printed]
    PROVE  /\ PageOf(screen_scroll(b)) = Append(Tail(PageOf(b)), Term!BlankLine)
           /\ screen_scroll(b) \in [Cells -> Printed]
<1> DEFINE d == screen_scroll(b)
           P == PageOf(b)
           Q == PageOf(d)
           S == [1..VGA_WIDTH -> Printed]
           W == VGA_WIDTH
           H == VGA_HEIGHT
           blank == [x \in 1..W |-> SP]
           A == Append(Tail(P), blank)
<1>1. W \in Nat /\ H \in Nat /\ H >= 1 /\ W >= 1
  BY ScreenSizes
<1>2. /\ DOMAIN P = 1..H /\ DOMAIN Q = 1..H
      /\ \A v \in 1..H : /\ P[v] = [u \in 1..W |-> b[CellAt(v - 1, u - 1)]]
                         /\ Q[v] = [u \in 1..W |-> d[CellAt(v - 1, u - 1)]]
  <2> HIDE DEF d
  <2>1. DOMAIN P = 1..H /\ DOMAIN Q = 1..H
    BY DEF PageOf
  <2>2. \A v \in 1..H : P[v] = [u \in 1..W |-> b[CellAt(v - 1, u - 1)]]
    BY PageCells, Zenon
  <2>3. \A v \in 1..H : Q[v] = [u \in 1..W |-> d[CellAt(v - 1, u - 1)]]
    BY PageCells, Zenon
  <2> QED
    BY <2>1, <2>2, <2>3
<1>3. ASSUME NEW v \in 1..H, NEW u \in 1..W
      PROVE  /\ CellAt(v - 1, u - 1) \in Cells
             /\ v < H => d[CellAt(v - 1, u - 1)] = b[CellAt(v, u - 1)]
             /\ v = H => d[CellAt(v - 1, u - 1)] = SP
  <2>1. v - 1 \in 0..(H - 1) /\ u - 1 \in 0..(W - 1) /\ v - 1 \in Nat /\ H - 1 \in Nat /\ v \in Nat
    BY <1>1
  <2>2. CellAt(v - 1, u - 1) \in Cells
    BY <2>1, CellsApart
  <2> DEFINE p == (v - 1) * W
             q == (H - 1) * W
  <2>3. p \in Nat /\ q \in Nat
    BY <1>1, <2>1
  <2>4. CASE v < H
    <3>1. v - 1 < H - 1
      BY <1>1, <2>1, <2>4
    <3>2. p + W <= q
      BY <3>1, <2>1, RowsApart
    <3>3. v * W = p + W
      BY <1>1, <2>1
    <3> HIDE DEF p, q
    <3>4. p + (u - 1) < q /\ (p + (u - 1)) + W = (p + W) + (u - 1)
      BY <1>1, <2>1, <2>3, <3>2
    <3>5. CellAt(v - 1, u - 1) < (H - 1) * W /\ CellAt(v - 1, u - 1) + W = CellAt(v, u - 1)
      BY <3>3, <3>4 DEF CellAt, p, q
    <3> QED
      BY <1>1, <2>2, <2>4, <3>5 DEF screen_scroll
  <2>5. CASE v = H
    <3>1. p = q
      BY <2>5
    <3> HIDE DEF p, q
    <3>2. ~(p + (u - 1) < q)
      BY <1>1, <2>1, <2>3, <3>1
    <3>3. ~(CellAt(v - 1, u - 1) < (H - 1) * W)
      BY <3>2 DEF CellAt, p, q
    <3> QED
      BY <1>1, <2>2, <2>5, <3>3 DEF screen_scroll
  <2> QED
    BY <1>1, <2>2, <2>4, <2>5
<1>4. d \in [Cells -> Printed]
  <2>1. ASSUME NEW k \in Cells, k < (H - 1) * W PROVE k + W \in Cells
    <3> DEFINE q == (H - 1) * W
    <3>1. q \in Nat /\ W * H = q + W
      BY <1>1
    <3> HIDE DEF q
    <3>2. k < q
      BY <2>1 DEF q
    <3>3. k \in 0..(W * H - 1)
      BY DEF Cells
    <3>4. k + W \in 0..(W * H - 1)
      BY <1>1, <3>1, <3>2, <3>3
    <3> QED
      BY <3>4 DEF Cells
  <2>2. SP \in Printed
    BY SentSets
  <2> QED
    BY <2>1, <2>2 DEF screen_scroll
<1> HIDE DEF d
<1>5. P \in Seq(S) /\ Len(P) = H
  <2>1. ASSUME NEW v \in 1..H PROVE P[v] \in S
    <3>1. \A u \in 1..W : b[CellAt(v - 1, u - 1)] \in Printed
      BY <1>3
    <3> QED
      BY <1>2, <3>1
  <2>2. P = [v \in 1..H |-> P[v]]
    BY DEF PageOf
  <2> HIDE DEF P, S
  <2> QED
    BY <1>1, <2>1, <2>2
<1>6. Q = [v \in 1..H |-> Q[v]]
  BY DEF PageOf
<1>7. blank \in S
  BY SentSets
<1> HIDE DEF P, Q, S, blank
<1>8. Tail(P) \in Seq(S) /\ Len(Tail(P)) = H - 1 /\ \A v \in 1..(H - 1) : Tail(P)[v] = P[v + 1]
  BY <1>1, <1>5
<1>9. A \in Seq(S) /\ Len(A) = H /\ A[H] = blank /\ \A v \in 1..(H - 1) : A[v] = P[v + 1]
  BY <1>1, <1>7, <1>8
<1> HIDE DEF A
<1>10. ASSUME NEW v \in 1..H PROVE Q[v] = A[v]
  <2>1. CASE v < H
    <3>1. v + 1 \in 1..H /\ v \in 1..(H - 1) /\ (v + 1) - 1 = v
      BY <1>1, <2>1
    <3>2. Q[v] = [u \in 1..W |-> b[CellAt(v, u - 1)]]
      BY <1>2, <1>3, <2>1
    <3>3. P[v + 1] = [u \in 1..W |-> b[CellAt(v, u - 1)]]
      BY <1>2, <3>1
    <3> QED
      BY <1>9, <3>1, <3>2, <3>3
  <2>2. CASE v = H
    <3>1. Q[v] = [u \in 1..W |-> SP]
      BY <1>2, <1>3, <2>2
    <3> QED
      BY <1>9, <2>2, <3>1 DEF blank
  <2> QED
    BY <1>1, <2>1, <2>2
<1>11. A = [v \in 1..H |-> A[v]]
  BY <1>9
<1>12. Q = A
  BY <1>6, <1>10, <1>11
<1> QED
  BY <1>4, <1>12 DEF P, Q, A, blank, d, Term!BlankLine

-----------------------------------------------------------------------------
\* Quotient and remainder.
LEMMA DivMod ==
    ASSUME NEW n \in Int, NEW m \in Nat \ {0}
    PROVE  n \div m \in Int /\ n % m \in 0..(m - 1) /\ n % m = n - m * (n \div m)
<1>1. n \div m \in Int /\ n % m \in 0..(m - 1)
  OBVIOUS
<1>2. n % m = n - m * (n \div m)
  OBVIOUS
<1> QED
  BY <1>1, <1>2

\* Only the zeroth multiple of m is that small.
LEMMA SmallMultiple ==
    ASSUME NEW m \in Nat \ {0}, NEW d \in Int, m * d < m, m * d > 0 - m
    PROVE  d = 0
<1>1. d >= 1 => m * d >= m
  OBVIOUS
<1>2. d <= 0 - 1 => m * d <= 0 - m
  OBVIOUS
<1> QED
  BY <1>1, <1>2

\* The remainder is the one number below m that differs from n by a multiple of m.
LEMMA ModUnique ==
    ASSUME NEW n \in Int, NEW m \in Nat \ {0}, NEW k \in Int, NEW w \in 0..(m - 1), n = m * k + w
    PROVE  n % m = w
<1> DEFINE q == n \div m
           r == n % m
<1>1. q \in Int /\ r \in 0..(m - 1) /\ r = n - m * q
  BY DivMod
<1> HIDE DEF q, r
<1>2. m * (k - q) = r - w
  BY <1>1
<1> DEFINE d == k - q
<1>3. d \in Int /\ m * d < m /\ m * d > 0 - m
  BY <1>1, <1>2
<1> HIDE DEF d
<1>4. d = 0
  BY <1>3, SmallMultiple
<1>5. m * (k - q) = 0
  BY <1>4 DEF d
<1>6. r = w
  BY <1>1, <1>2, <1>5
<1> QED
  BY <1>6 DEF r

\* screen_putchar's tabulator goes to the next column that a stop is at.
LEMMA NextStop ==
    ASSUME NEW x \in Nat
    PROVE  LET t == ((x + TAB_WIDTH) \div TAB_WIDTH) * TAB_WIDTH IN
           /\ t \in Nat
           /\ t + 1 = CHOOSE z \in (x + 1 + 1)..(x + 1 + TAB_WIDTH) :
                         z % TAB_WIDTH = 1 % TAB_WIDTH
<1> DEFINE m == TAB_WIDTH
           q == (x + m) \div m
           r == (x + m) % m
           k == 1 \div m
           w == 1 % m
           t == q * m
           At(z) == z \in (x + 1 + 1)..(x + 1 + m) /\ z % m = w
<1>1. m \in Nat \ {0}
  BY ScreenSizes
<1>2. /\ q \in Int /\ r \in 0..(m - 1) /\ r = (x + m) - m * q
      /\ k \in Int /\ w \in 0..(m - 1) /\ w = 1 - m * k
  <2>1. x + m \in Int /\ 1 \in Int
    BY <1>1
  <2> QED
    BY <1>1, <2>1, DivMod
<1> HIDE DEF m, q, r, k, w
<1>3. t = m * q /\ t \in Int
  BY <1>1, <1>2
<1>4. t >= x + 1 /\ t <= x + m
  BY <1>1, <1>2, <1>3
<1>5. t + 1 = m * (q + k) + w /\ q + k \in Int /\ t + 1 \in Int
  BY <1>1, <1>2, <1>3
<1> HIDE DEF t
<1>6. At(t + 1)
  <2>1. (t + 1) % m = w
    BY <1>1, <1>2, <1>5, ModUnique
  <2> QED
    BY <1>1, <1>3, <1>4, <2>1
<1>7. ASSUME NEW z, At(z) PROVE z = t + 1
  <2> DEFINE j == z \div m
             d == j - (q + k)
  <2>1. z \in Int /\ z >= x + 2 /\ z <= x + 1 + m /\ z % m = w
    BY <1>1, <1>7
  <2>2. j \in Int /\ w = z - m * j
    BY <1>1, <2>1, DivMod
  <2> HIDE DEF j
  <2>3. m * (j - (q + k)) = z - (t + 1)
    BY <1>1, <1>2, <1>5, <2>1, <2>2
  <2>4. d \in Int /\ m * d < m /\ m * d > 0 - m
    BY <1>1, <1>2, <1>3, <1>4, <2>1, <2>2, <2>3
  <2> HIDE DEF d
  <2>5. d = 0
    BY <1>1, <2>4, SmallMultiple
  <2>6. m * (j - (q + k)) = 0
    BY <1>1, <2>5 DEF d
  <2> QED
    BY <1>3, <2>1, <2>3, <2>6
<1>8. t + 1 = CHOOSE z \in (x + 1 + 1)..(x + 1 + m) : z % m = w
  BY <1>6, <1>7
<1>9. t \in Nat
  BY <1>3, <1>4
<1> QED
  BY <1>8, <1>9 DEF t, q, m, w

-----------------------------------------------------------------------------
\* The end of screen_putchar: the cursor is brought back on the screen.
At(b, x, y) == [buffer |-> b, cursor_x |-> x, cursor_y |-> y]
Settled(s) ==
    LET wrapped == IF s.cursor_x >= VGA_WIDTH
                   THEN [s EXCEPT !.cursor_x = 0, !.cursor_y = @ + 1] ELSE s
    IN  IF wrapped.cursor_y >= VGA_HEIGHT
        THEN [wrapped EXCEPT !.buffer = screen_scroll(@), !.cursor_y = VGA_HEIGHT - 1]
        ELSE wrapped

\* The screen as its three fields.
LEMMA ScreenFields ==
    ASSUME ScreenOK
    PROVE  /\ screen.buffer \in [Cells -> Printed]
           /\ screen.cursor_x \in 0..(VGA_WIDTH - 1) /\ screen.cursor_y \in 0..(VGA_HEIGHT - 1)
           /\ screen.cursor_x \in Nat /\ screen.cursor_y \in Nat
           /\ screen = At(screen.buffer, screen.cursor_x, screen.cursor_y)
  BY ScreenSizes DEF ScreenOK, At

\* Its fields.
LEMMA AtFields ==
    ASSUME NEW b, NEW x, NEW y
    PROVE  At(b, x, y).buffer = b /\ At(b, x, y).cursor_x = x /\ At(b, x, y).cursor_y = y
  BY DEF At

\* What screen_putchar does with each character before it settles the cursor.
LEMMA ShownAt ==
    ASSUME NEW b, NEW x \in Nat, NEW y \in Nat, NEW c
    PROVE  /\ c = NL => Shown(At(b, x, y), c) = At(b, 0, y + 1)
           /\ c = CR => Shown(At(b, x, y), c) = At(b, 0, y)
           /\ c = TAB => Shown(At(b, x, y), c) = At(b, ((x + TAB_WIDTH) \div TAB_WIDTH) * TAB_WIDTH, y)
           /\ c = BS => Shown(At(b, x, y), c) = At(b, IF x > 0 THEN x - 1 ELSE x, y)
           /\ c \notin {NL, CR, TAB, BS} =>
                 Shown(At(b, x, y), c) = At(Written(b, y, x, c), x + 1, y)
<1> DEFINE s == At(b, x, y)
           t == ((s.cursor_x + TAB_WIDTH) \div TAB_WIDTH) * TAB_WIDTH
           l == IF s.cursor_x > 0 THEN s.cursor_x - 1 ELSE s.cursor_x
           k == s.cursor_y * VGA_WIDTH + s.cursor_x
<1>1. s.cursor_x = x /\ s.cursor_y = y
  BY AtFields
<1>2. /\ [s EXCEPT !.cursor_x = 0, !.cursor_y = s.cursor_y + 1] = At(b, 0, y + 1)
      /\ [s EXCEPT !.cursor_x = 0] = At(b, 0, y)
  <2>1. [s EXCEPT !.cursor_x = 0] = At(b, 0, y)
    BY DEF At
  <2>2. [At(b, 0, y) EXCEPT !.cursor_y = y + 1] = At(b, 0, y + 1)
    BY DEF At
  <2> HIDE DEF s
  <2> QED
    BY <1>1, <2>1, <2>2
<1>3. [s EXCEPT !.cursor_x = t] = At(b, t, y)
  <2> HIDE DEF t
  <2> QED
    BY DEF At
<1>4. [s EXCEPT !.cursor_x = l] = At(b, l, y)
  <2> HIDE DEF l
  <2> QED
    BY DEF At
<1>5. [s EXCEPT !.buffer[k] = c, !.cursor_x = s.cursor_x + 1] = At([b EXCEPT ![k] = c], x + 1, y)
  <2> DEFINE e == [b EXCEPT ![k] = c]
  <2> HIDE DEF k
  <2>1. [s EXCEPT !.buffer[k] = c] = At(e, x, y)
    BY DEF At
  <2> HIDE DEF e
  <2>2. [At(e, x, y) EXCEPT !.cursor_x = x + 1] = At(e, x + 1, y)
    BY DEF At
  <2> HIDE DEF s
  <2>3. [s EXCEPT !.buffer[k] = c, !.cursor_x = s.cursor_x + 1] =
            [[s EXCEPT !.buffer[k] = c] EXCEPT !.cursor_x = x + 1]
    BY <1>1
  <2> QED
    BY <2>1, <2>2, <2>3 DEF e
<1>6. k = CellAt(y, x)
  BY <1>1 DEF CellAt
<1>7. NL # CR /\ NL # TAB /\ NL # BS /\ CR # TAB /\ CR # BS /\ TAB # BS
  BY DEF NL, CR, TAB, BS
<1>8. Shown(s, c) =
        CASE c = NL  -> [s EXCEPT !.cursor_x = 0, !.cursor_y = s.cursor_y + 1]
          [] c = CR  -> [s EXCEPT !.cursor_x = 0]
          [] c = TAB -> [s EXCEPT !.cursor_x = t]
          [] c = BS  -> [s EXCEPT !.cursor_x = l]
          [] OTHER   -> [s EXCEPT !.buffer[k] = c, !.cursor_x = s.cursor_x + 1]
  BY DEF Shown
<1> DEFINE s1 == [s EXCEPT !.cursor_x = 0, !.cursor_y = s.cursor_y + 1]
           s2 == [s EXCEPT !.cursor_x = 0]
           s3 == [s EXCEPT !.cursor_x = t]
           s4 == [s EXCEPT !.cursor_x = l]
           s5 == [s EXCEPT !.buffer[k] = c, !.cursor_x = s.cursor_x + 1]
<1>9. /\ c = NL => Shown(s, c) = s1
      /\ c = CR => Shown(s, c) = s2
      /\ c = TAB => Shown(s, c) = s3
      /\ c = BS => Shown(s, c) = s4
      /\ c \notin {NL, CR, TAB, BS} => Shown(s, c) = s5
  <2> HIDE DEF s1, s2, s3, s4, s5
  <2> QED
    BY <1>7, <1>8 DEF s1, s2, s3, s4, s5
<1> QED
  BY <1>1, <1>2, <1>3, <1>4, <1>5, <1>6, <1>9 DEF Written

\* Bringing the cursor back: to the next line if need be, and then up again.
LEMMA SettledAt ==
    ASSUME NEW b, NEW x \in Nat, NEW y \in Nat
    PROVE  /\ x >= VGA_WIDTH => Settled(At(b, x, y)) = Settled(At(b, 0, y + 1))
           /\ x < VGA_WIDTH /\ y >= VGA_HEIGHT =>
                 Settled(At(b, x, y)) = At(screen_scroll(b), x, VGA_HEIGHT - 1)
           /\ x < VGA_WIDTH /\ y < VGA_HEIGHT => Settled(At(b, x, y)) = At(b, x, y)
<1>1. VGA_WIDTH \in Nat /\ VGA_WIDTH >= 1 /\ VGA_HEIGHT \in Nat
  BY ScreenSizes
<1> DEFINE Up(s) == IF s.cursor_y >= VGA_HEIGHT
                    THEN [s EXCEPT !.buffer = screen_scroll(s.buffer), !.cursor_y = VGA_HEIGHT - 1]
                    ELSE s
           Wrap(s) == IF s.cursor_x >= VGA_WIDTH
                      THEN [s EXCEPT !.cursor_x = 0, !.cursor_y = s.cursor_y + 1] ELSE s
<1>2. \A s : Settled(s) = Up(Wrap(s))
  BY DEF Settled
<1>3. ASSUME NEW u, NEW v PROVE Up(At(b, u, v)) = IF v >= VGA_HEIGHT
                          THEN At(screen_scroll(b), u, VGA_HEIGHT - 1) ELSE At(b, u, v)
  <2> DEFINE s == At(b, u, v)
             d == screen_scroll(s.buffer)
  <2>1. s.cursor_y = v /\ s.buffer = b
    BY AtFields
  <2>2. [s EXCEPT !.buffer = d, !.cursor_y = VGA_HEIGHT - 1] = At(d, u, VGA_HEIGHT - 1)
    <3> HIDE DEF d
    <3>1. [s EXCEPT !.buffer = d] = At(d, u, v)
      BY DEF At
    <3>2. [At(d, u, v) EXCEPT !.cursor_y = VGA_HEIGHT - 1] = At(d, u, VGA_HEIGHT - 1)
      BY DEF At
    <3> HIDE DEF s
    <3> QED
      BY <3>1, <3>2
  <2> QED
    BY <2>1, <2>2, Zenon
<1>4. ASSUME NEW u, NEW v PROVE Wrap(At(b, u, v)) = IF u >= VGA_WIDTH
                          THEN At(b, 0, v + 1) ELSE At(b, u, v)
  <2> DEFINE s == At(b, u, v)
             z == s.cursor_y + 1
  <2>1. s.cursor_x = u /\ s.cursor_y = v
    BY AtFields
  <2>2. [s EXCEPT !.cursor_x = 0, !.cursor_y = z] = At(b, 0, z)
    <3> HIDE DEF z
    <3>1. [s EXCEPT !.cursor_x = 0] = At(b, 0, v)
      BY DEF At
    <3>2. [At(b, 0, v) EXCEPT !.cursor_y = z] = At(b, 0, z)
      BY DEF At
    <3> HIDE DEF s
    <3> QED
      BY <3>1, <3>2
  <2> QED
    BY <2>1, <2>2, Zenon
<1> HIDE DEF Up, Wrap
<1>5. ~(0 >= VGA_WIDTH)
  BY <1>1
<1>6. Settled(At(b, 0, y + 1)) = Up(At(b, 0, y + 1))
  BY <1>2, <1>4, <1>5
<1>7. x >= VGA_WIDTH => Settled(At(b, x, y)) = Up(At(b, 0, y + 1))
  BY <1>2, <1>4
<1>8. x < VGA_WIDTH => Settled(At(b, x, y)) = Up(At(b, x, y))
  BY <1>1, <1>2, <1>4
<1> QED
  BY <1>1, <1>3, <1>6, <1>7, <1>8

\* A new value of the screen, and the page and the caret it shows.
LEMMA ScreenShows ==
    ASSUME NEW b \in [Cells -> Printed], NEW x \in 0..(VGA_WIDTH - 1),
           NEW y \in 0..(VGA_HEIGHT - 1), screen' = At(b, x, y)
    PROVE  ScreenOK' /\ PageShown' = PageOf(b) /\ Row' = y + 1 /\ Col' = x + 1
<1>1. screen'.buffer = b /\ screen'.cursor_x = x /\ screen'.cursor_y = y
  BY DEF At
<1>2. ScreenOK'
  BY DEF At, ScreenOK
<1>3. PageShown' = PageOf(b)
  BY <1>1 DEF PageShown, PageOf
<1> QED
  BY <1>1, <1>2, <1>3 DEF Row, Col

\* The cursor behind the end of a line, or sent to the next one: a new line.
LEMMA SettledBelow ==
    ASSUME NEW b \in [Cells -> Printed], NEW y \in 0..(VGA_HEIGHT - 1),
           y = screen.cursor_y, screen' = Settled(At(b, 0, y + 1))
    PROVE  ScreenOK' /\ Term!NewLine(PageOf(b))
<1>1. /\ VGA_WIDTH \in Nat /\ VGA_WIDTH >= 1 /\ VGA_HEIGHT \in Nat /\ VGA_HEIGHT >= 1
      /\ y \in Nat /\ 0 \in 0..(VGA_WIDTH - 1) /\ Row = y + 1 /\ ~(0 >= VGA_WIDTH)
  BY ScreenSizes DEF Row
<1>2. Settled(At(b, 0, y + 1)) = IF y + 1 >= VGA_HEIGHT
                                 THEN At(screen_scroll(b), 0, VGA_HEIGHT - 1) ELSE At(b, 0, y + 1)
  <2>1. 0 \in Nat /\ y + 1 \in Nat /\ 0 < VGA_WIDTH /\ (~(y + 1 >= VGA_HEIGHT) => y + 1 < VGA_HEIGHT)
    BY <1>1
  <2> QED
    BY <2>1, SettledAt
<1>3. CASE y + 1 >= VGA_HEIGHT
  <2>1. /\ screen_scroll(b) \in [Cells -> Printed]
        /\ PageOf(screen_scroll(b)) = Append(Tail(PageOf(b)), Term!BlankLine)
    BY PageScroll
  <2>2. screen' = At(screen_scroll(b), 0, VGA_HEIGHT - 1) /\ VGA_HEIGHT - 1 \in 0..(VGA_HEIGHT - 1)
    BY <1>1, <1>2, <1>3
  <2>3. /\ ScreenOK' /\ PageShown' = PageOf(screen_scroll(b))
        /\ Row' = (VGA_HEIGHT - 1) + 1 /\ Col' = 0 + 1
    BY <1>1, <2>1, <2>2, ScreenShows
  <2>4. Row' = Row /\ Col' = 1 /\ ~(Row < VGA_HEIGHT)
    BY <1>1, <1>3, <2>3
  <2> QED
    BY <2>1, <2>3, <2>4 DEF Term!NewLine
<1>4. CASE ~(y + 1 >= VGA_HEIGHT)
  <2>1. screen' = At(b, 0, y + 1) /\ y + 1 \in 0..(VGA_HEIGHT - 1)
    BY <1>1, <1>2, <1>4
  <2>2. ScreenOK' /\ PageShown' = PageOf(b) /\ Row' = (y + 1) + 1 /\ Col' = 0 + 1
    BY <1>1, <2>1, ScreenShows
  <2>3. Row' = Row + 1 /\ Col' = 1 /\ Row < VGA_HEIGHT
    BY <1>1, <1>4, <2>2
  <2> QED
    BY <2>2, <2>3 DEF Term!NewLine
<1> QED
  BY <1>3, <1>4

\* The cursor at any column of its line: the terminal's caret advances.
LEMMA SettledBeside ==
    ASSUME NEW b \in [Cells -> Printed], NEW x \in Nat, NEW y \in 0..(VGA_HEIGHT - 1),
           y = screen.cursor_y, screen' = Settled(At(b, x, y))
    PROVE  ScreenOK' /\ Term!Advance(PageOf(b), x + 1)
<1>1. VGA_WIDTH \in Nat /\ VGA_HEIGHT \in Nat /\ VGA_WIDTH >= 1 /\ y \in Nat /\ ~(y >= VGA_HEIGHT)
  BY ScreenSizes
<1>2. CASE x >= VGA_WIDTH
  <2>1. Settled(At(b, x, y)) = Settled(At(b, 0, y + 1))
    BY <1>1, <1>2, SettledAt
  <2>2. ScreenOK' /\ Term!NewLine(PageOf(b))
    BY <2>1, SettledBelow
  <2>3. x + 1 > VGA_WIDTH
    BY <1>1, <1>2
  <2> QED
    BY <2>2, <2>3 DEF Term!Advance
<1>3. CASE ~(x >= VGA_WIDTH)
  <2>1. screen' = At(b, x, y) /\ x \in 0..(VGA_WIDTH - 1)
    <3>1. x < VGA_WIDTH /\ y < VGA_HEIGHT
      BY <1>1, <1>3
    <3>2. Settled(At(b, x, y)) = At(b, x, y)
      BY <1>1, <3>1, SettledAt
    <3> QED
      BY <1>1, <3>1, <3>2
  <2>2. ScreenOK' /\ PageShown' = PageOf(b) /\ Row' = y + 1 /\ Col' = x + 1
    BY <2>1, ScreenShows
  <2>3. Row' = Row /\ ~(x + 1 > VGA_WIDTH)
    BY <1>1, <1>3, <2>2 DEF Row
  <2> QED
    BY <2>2, <2>3 DEF Term!Advance
<1> QED
  BY <1>2, <1>3

\* Every character does to the page what it does on a terminal.
LEMMA PutcharRefines ==
    ASSUME ScreenOK, NEW c \in Sent, screen_putchar(c)
    PROVE  ScreenOK' /\ Term!Show(c)
<1>0. PICK b \in [Cells -> Printed], x \in 0..(VGA_WIDTH - 1), y \in 0..(VGA_HEIGHT - 1) :
         screen = At(b, x, y)
  BY ScreenFields
<1>1. /\ b \in [Cells -> Printed] /\ x \in 0..(VGA_WIDTH - 1) /\ y \in 0..(VGA_HEIGHT - 1)
      /\ x \in Nat /\ y \in Nat /\ screen = At(b, x, y)
      /\ screen.buffer = b /\ screen.cursor_x = x /\ screen.cursor_y = y
  BY <1>0, AtFields, ScreenSizes
<1>2. screen' = Settled(Shown(screen, c))
  BY DEF screen_putchar, Settled
<1>3. PageShown = PageOf(b) /\ Col = x + 1 /\ Row = y + 1
  BY <1>1 DEF PageShown, Col, Row
<1> DEFINE next == ((x + TAB_WIDTH) \div TAB_WIDTH) * TAB_WIDTH
           left == IF x > 0 THEN x - 1 ELSE x
           new == Written(b, y, x, c)
<1>S. /\ c = NL => Shown(At(b, x, y), c) = At(b, 0, y + 1)
      /\ c = CR => Shown(At(b, x, y), c) = At(b, 0, y)
      /\ c = TAB => Shown(At(b, x, y), c) = At(b, next, y)
      /\ c = BS => Shown(At(b, x, y), c) = At(b, left, y)
      /\ c \notin {NL, CR, TAB, BS} => Shown(At(b, x, y), c) = At(new, x + 1, y)
  <2>1. x \in Nat /\ y \in Nat
    BY <1>1
  <2> QED
    BY <2>1, ShownAt
<1>P. PageOf(new) = Changed(PageOf(b), y + 1, x + 1, c)
  BY PageSet
<1> HIDE DEF next, left, new
<1>4. CASE c = NL
  <2>1. Shown(screen, c) = At(b, 0, y + 1)
    BY <1>1, <1>4, <1>S
  <2>2. ScreenOK' /\ Term!NewLine(PageOf(b))
    BY <1>1, <1>2, <2>1, SettledBelow
  <2> QED
    BY <1>3, <1>4, <2>2 DEF Term!Show, Term!EndLine
<1>5. CASE c = CR
  <2>1. Shown(screen, c) = At(b, 0, y)
    BY <1>1, <1>5, <1>S
  <2>2. ScreenOK' /\ Term!Advance(PageOf(b), 0 + 1)
    BY <1>1, <1>2, <2>1, SettledBeside
  <2> QED
    BY <1>3, <1>5, <2>2 DEF Term!Show, Term!Return
<1>6. CASE c = TAB
  <2>1. Shown(screen, c) = At(b, next, y)
    BY <1>1, <1>6, <1>S
  <2>2. next \in Nat
    BY <1>1, NextStop DEF next
  <2>3. next + 1 = CHOOSE z \in (x + 1 + 1)..(x + 1 + TAB_WIDTH) : z % TAB_WIDTH = 1 % TAB_WIDTH
    BY <1>1, NextStop DEF next
  <2>4. ScreenOK' /\ Term!Advance(PageOf(b), next + 1)
    BY <1>1, <1>2, <2>1, <2>2, SettledBeside
  <2>5. Term!Tabulate
    BY <1>3, <2>3, <2>4 DEF Term!Tabulate
  <2> QED
    BY <1>6, <2>4, <2>5 DEF Term!Show
<1>7. CASE c = BS
  <2>1. CASE x > 0
    <3>1. Shown(screen, c) = At(b, x - 1, y) /\ x - 1 \in Nat /\ (x - 1) + 1 = x /\ (x + 1) - 1 = x
      BY <1>1, <1>7, <2>1, <1>S DEF left
    <3>2. ScreenOK' /\ Term!Advance(PageOf(b), (x - 1) + 1)
      BY <1>1, <1>2, <3>1, SettledBeside
    <3>3. Term!Back
      BY <1>1, <1>3, <2>1, <3>1, <3>2 DEF Term!Back
    <3> QED
      BY <1>7, <3>2, <3>3 DEF Term!Show
  <2>2. CASE ~(x > 0)
    <3>1. Shown(screen, c) = At(b, x, y)
      BY <1>1, <1>7, <2>2, <1>S DEF left
    <3>2. Settled(At(b, x, y)) = At(b, x, y)
      <4>1. x < VGA_WIDTH /\ y < VGA_HEIGHT
        BY <1>1, ScreenSizes
      <4> QED
        BY <1>1, <4>1, SettledAt
    <3>3. screen' = screen
      BY <1>1, <1>2, <3>1, <3>2
    <3>4. ScreenOK' /\ UNCHANGED <<PageShown, Row, Col>>
      BY <3>3 DEF ScreenOK, PageShown, PageOf, Row, Col
    <3>5. ~(Col > 1)
      BY <1>1, <1>3, <2>2
    <3>6. Term!Back
      BY <3>4, <3>5 DEF Term!Back
    <3> QED
      BY <1>7, <3>4, <3>6 DEF Term!Show
  <2> QED
    BY <2>1, <2>2
<1>8. CASE c \notin {NL, CR, TAB, BS}
  <2>1. Shown(screen, c) = At(new, x + 1, y)
    BY <1>1, <1>8, <1>S
  <2>2. c \in Printed
    BY <1>8 DEF Sent
  <2>3. new \in [Cells -> Printed]
    BY <1>1, <2>2 DEF new, Written
  <2>5. x + 1 \in Nat
    BY <1>1
  <2>6. ScreenOK' /\ Term!Advance(PageOf(new), (x + 1) + 1)
    BY <1>1, <1>2, <2>1, <2>3, <2>5, SettledBeside
  <2>7. Term!Type(c)
    BY <1>3, <1>P, <2>6 DEF Term!Type, Changed
  <2> QED
    BY <1>8, <2>6, <2>7 DEF Term!Show
<1> QED
  BY <1>4, <1>5, <1>6, <1>7, <1>8

-----------------------------------------------------------------------------
(* The steps of the console. *)

\* A step of the terminal, or none.
TermStep == Term!Next \/ UNCHANGED Term!termVars

\* A step that shows nothing, and sends characters only when none are on their way.
Quiet == UNCHANGED <<PageShown, Row, Col>> /\ (out = <<>> \/ UNCHANGED out)

\* The parts of the invariant that a step leaves alone.
LEMMA ScreenSame ==
    ASSUME ScreenOK, UNCHANGED screen, out = <<>> \/ UNCHANGED out
    PROVE  ScreenOK' /\ Quiet
  BY DEF ScreenOK, Quiet, PageShown, PageOf, Row, Col

LEMMA ReadSame ==
    ASSUME ReadOK, UNCHANGED rd, pc' = "got" => pc = "got"
    PROVE  ReadOK'
  BY DEF ReadOK

LEMMA CommandSame ==
    ASSUME CommandOK, UNCHANGED <<cmd, pos, line>>, pc' = "parse" => pc = "parse"
    PROVE  CommandOK'
  BY DEF CommandOK

\* Only the keyboard.
LEMMA PressStep ==
    ASSUME ConsoleInv, NEW k \in Keys, Press(k)
    PROVE  ConsoleInv' /\ Quiet
<1>1. ScreenOK' /\ Quiet
  BY ScreenSame DEF ConsoleInv, Press
<1>2. ReadOK'
  BY ReadSame DEF ConsoleInv, Press
<1>3. CommandOK'
  BY CommandSame DEF ConsoleInv, Press
<1> QED
  BY <1>1, <1>2, <1>3 DEF ConsoleInv, Press

\* A poll takes the last character back; the console's read of one character
\* has none then.
LEMMA PollBackspaceStep ==
    ASSUME ConsoleInv, PollBackspace
    PROVE  ConsoleInv' /\ Quiet
<1>1. ScreenOK' /\ Quiet
  BY ScreenSame DEF ConsoleInv, PollBackspace
<1>2. CommandOK'
  BY CommandSame DEF ConsoleInv, PollBackspace
<1>3. ReadOK'
  <2>1. CASE rd.i > 0
    <3> DEFINE b == [rd.buffer EXCEPT ![rd.i - 1] = NUL]
    <3>1. /\ rd \in [count : Nat, echo : BOOLEAN, i : Nat, buffer : Buffers] /\ rd.i <= rd.count
          /\ rd.count > 0 => DOMAIN rd.buffer = 0..(rd.count - 1)
          /\ pc = "got" => rd.count = 1
      BY DEF ConsoleInv, ReadOK
    <3>2. rd.count \in Nat /\ rd.i \in Nat /\ rd.i - 1 \in Nat /\ rd.i < rd.count /\ rd.i - 1 <= rd.count
      BY <3>1, <2>1 DEF PollBackspace, Reading
    <3>3. b \in Buffers /\ DOMAIN b = DOMAIN rd.buffer
      <4>1. rd.buffer \in Buffers /\ NUL \in Typed \cup {NUL}
        BY <3>1
      <4> QED
        BY <4>1, BufferSet
    <3> HIDE DEF b
    <3>4. rd' = [[rd EXCEPT !.i = rd.i - 1] EXCEPT !.buffer = b]
      BY <2>1 DEF PollBackspace, b
    <3>5. /\ rd' \in [count : Nat, echo : BOOLEAN, i : Nat, buffer : Buffers]
          /\ rd'.i = rd.i - 1 /\ rd'.count = rd.count /\ rd'.buffer = b
      BY <3>1, <3>2, <3>3, <3>4
    <3>6. pc' = "got" => rd'.count = 1 /\ rd'.i # 1
      BY <3>1, <3>2, <3>5 DEF PollBackspace
    <3> QED
      BY <3>1, <3>2, <3>3, <3>5, <3>6 DEF ReadOK
  <2>2. CASE ~(rd.i > 0)
    BY <2>2, ReadSame DEF ConsoleInv, PollBackspace
  <2> QED
    BY <2>1, <2>2
<1> QED
  BY <1>1, <1>2, <1>3 DEF ConsoleInv, PollBackspace

\* A character on its way, or none.
LEMMA OneChar ==
    ASSUME NEW c \in Sent
    PROVE  <<c>> \in Seq(Sent) /\ <<>> \in Seq(Sent)
  OBVIOUS

\* What a key stands for is typed, unless it is nothing.
LEMMA KeyTyped ==
    ASSUME ConsoleInv, NEW c \in IF key < 128 THEN CharsOf(key) ELSE {NUL}, c # NUL
    PROVE  c \in Typed
<1>1. c \in CharsOf(key) /\ key \in Keys
  BY DEF ConsoleInv
<1>2. c \in KeyChars
  BY <1>1 DEF KeyChars
<1> QED
  BY <1>2 DEF Typed

\* A poll that finds a character stores it and, for the console, shows it.
LEMMA PollStep ==
    ASSUME ConsoleInv, Poll
    PROVE  ConsoleInv' /\ Quiet
<1>1. ScreenOK' /\ Quiet
  BY ScreenSame DEF ConsoleInv, Poll
<1>2. CommandOK'
  BY CommandSame DEF ConsoleInv, Poll
<1>3. PICK c \in IF key < 128 THEN CharsOf(key) ELSE {NUL} :
         IF c = NUL THEN UNCHANGED <<rd, out>>
         ELSE /\ rd' = [rd EXCEPT !.buffer[rd.i] = c, !.i = rd.i + 1]
              /\ out' = IF rd.echo THEN <<c>> ELSE <<>>
  BY Zenon DEF Poll
<1>4. ReadOK' /\ out' \in Seq(Sent)
  <2>1. CASE c = NUL
    <3>1. UNCHANGED <<rd, out>>
      BY <1>3, <2>1
    <3> QED
      BY <3>1, ReadSame DEF ConsoleInv, Poll
  <2>2. CASE c # NUL
    <3> DEFINE b == [rd.buffer EXCEPT ![rd.i] = c]
    <3>1. /\ rd \in [count : Nat, echo : BOOLEAN, i : Nat, buffer : Buffers] /\ rd.i <= rd.count
          /\ rd.count > 0 => DOMAIN rd.buffer = 0..(rd.count - 1)
          /\ pc = "got" => rd.count = 1
      BY DEF ConsoleInv, ReadOK
    <3>2. rd.count \in Nat /\ rd.i \in Nat /\ rd.i < rd.count /\ rd.i + 1 <= rd.count /\ rd.i + 1 \in Nat
      BY <3>1 DEF Poll, Reading
    <3>3. c \in Typed
      BY <2>2, KeyTyped
    <3>4. b \in Buffers /\ DOMAIN b = DOMAIN rd.buffer
      <4>1. rd.buffer \in Buffers /\ c \in Typed \cup {NUL}
        BY <3>1, <3>3
      <4> QED
        BY <4>1, BufferSet
    <3>5. rd.i = 0 => b[0] = c
      <4>1. 0 \in DOMAIN rd.buffer
        BY <3>1, <3>2
      <4> QED
        BY <4>1
    <3>6. rd' = [[rd EXCEPT !.buffer = b] EXCEPT !.i = rd.i + 1]
      BY <1>3, <2>2
    <3> HIDE DEF b
    <3>7. /\ rd' \in [count : Nat, echo : BOOLEAN, i : Nat, buffer : Buffers]
          /\ rd'.i = rd.i + 1 /\ rd'.count = rd.count /\ rd'.buffer = b
      BY <3>1, <3>2, <3>4, <3>6
    <3>8. pc' = "got" => rd'.count = 1 /\ (rd'.i = 1 => rd'.buffer[0] \in Typed)
      <4>1. pc' = pc
        BY DEF Poll
      <4> QED
        BY <3>1, <3>2, <3>3, <3>5, <3>7, <4>1
    <3>9. ReadOK'
      BY <3>1, <3>2, <3>4, <3>7, <3>8 DEF ReadOK
    <3>10. c \in Sent
      BY <3>3, SentSets
    <3>11. out' \in Seq(Sent)
      <4>1. out' = <<c>> \/ out' = <<>>
        BY <1>3, <2>2, Zenon
      <4> QED
        BY <3>10, <4>1, OneChar
    <3> QED
      BY <3>9, <3>11
  <2> QED
    BY <2>1, <2>2
<1>5. key' \in Keys
  BY DEF ConsoleInv, Poll
<1> QED
  BY <1>1, <1>2, <1>4, <1>5 DEF ConsoleInv

\* The next character goes to the screen.
LEMMA PutNextStep ==
    ASSUME ConsoleInv, PutNext
    PROVE  ConsoleInv' /\ Term!Put
<1>1. out \in Seq(Sent) /\ out # <<>> /\ ScreenOK /\ screen_putchar(Head(out)) /\ out' = Tail(out)
  BY DEF ConsoleInv, PutNext
<1>2. Head(out) \in Sent /\ Tail(out) \in Seq(Sent)
  BY <1>1
<1>3. ScreenOK' /\ Term!Show(Head(out))
  BY <1>1, <1>2, PutcharRefines
<1>4. ReadOK'
  BY ReadSame DEF ConsoleInv, PutNext
<1>5. CommandOK'
  BY CommandSame DEF ConsoleInv, PutNext
<1> QED
  BY <1>1, <1>2, <1>3, <1>4, <1>5 DEF ConsoleInv, PutNext, Term!Put

\* The console device, before the loop.
LEMMA ConsoleReadStep ==
    ASSUME ConsoleInv, NEW n \in Counts, console_read(n)
    PROVE  ConsoleInv' /\ Quiet
<1>1. ScreenOK' /\ Quiet
  BY ScreenSame DEF ConsoleInv, console_read
<1>2. CommandOK'
  BY CommandSame DEF ConsoleInv, console_read
<1>3. n \in Nat \ {0} /\ rd' = Read(n, FALSE) /\ pc' = "start"
  BY ConsoleAssumption DEF console_read
<1>4. /\ Read(n, FALSE) \in [count : Nat, echo : BOOLEAN, i : Nat, buffer : Buffers]
      /\ Read(n, FALSE).i = 0 /\ Read(n, FALSE).count = n
      /\ DOMAIN Read(n, FALSE).buffer = 0..(n - 1)
  BY <1>3, ReadFresh
<1>5. ReadOK'
  <2> DEFINE r == Read(n, FALSE)
  <2>1. /\ r \in [count : Nat, echo : BOOLEAN, i : Nat, buffer : Buffers]
        /\ r.i = 0 /\ r.count = n /\ DOMAIN r.buffer = 0..(n - 1) /\ rd' = r
    BY <1>3, <1>4
  <2> HIDE DEF r
  <2>2. /\ rd' \in [count : Nat, echo : BOOLEAN, i : Nat, buffer : Buffers]
        /\ rd'.i = 0 /\ rd'.count = n /\ DOMAIN rd'.buffer = 0..(n - 1)
    BY <2>1
  <2>3. /\ rd'.i <= rd'.count
        /\ rd'.count > 0 => DOMAIN rd'.buffer = 0..(rd'.count - 1)
        /\ pc' = "got" => rd'.count = 1 /\ (rd'.i = 1 => rd'.buffer[0] \in Typed)
    <3>1. pc' # "got" /\ n \in Nat
      BY <1>3
    <3> QED
      BY <2>2, <3>1
  <2> QED
    BY <2>2, <2>3 DEF ReadOK
<1> QED
  BY <1>1, <1>2, <1>5 DEF ConsoleInv, console_read

\* A step that only sends characters to the screen, at the same place or one
\* where neither a read nor the parser is involved.
LEMMA WriteStep ==
    ASSUME ConsoleInv, out' \in Seq(Sent), out = <<>> \/ UNCHANGED out,
           UNCHANGED <<screen, key, rd, cmd, pos, line>>,
           pc' = "got" => pc = "got", pc' = "parse" => pc = "parse"
    PROVE  ConsoleInv' /\ Quiet
<1>1. ScreenOK' /\ Quiet
  BY ScreenSame DEF ConsoleInv
<1>2. ReadOK'
  BY ReadSame DEF ConsoleInv
<1>3. CommandOK'
  BY CommandSame DEF ConsoleInv
<1> QED
  BY <1>1, <1>2, <1>3 DEF ConsoleInv

LEMMA ConsoleWriteStep ==
    ASSUME ConsoleInv, NEW c \in Outputs, console_write(c) \/ \E fd \in 0..2 : sys_write(fd, c)
    PROVE  ConsoleInv' /\ Quiet
<1>1. c \in Sent
  BY SentSets
<1>2. out' = <<c>> \/ out' = <<>>
  BY Zenon DEF console_write, sys_write
<1>3. out' \in Seq(Sent)
  BY <1>1, <1>2, OneChar
<1>4. UNCHANGED <<screen, key, rd, cmd, pos, line, pc>> /\ out = <<>>
  BY DEF console_write, sys_write
<1> QED
  BY <1>3, <1>4, WriteStep

\* The banner, and the loop begins.
LEMMA ConsoleProcessStep ==
    ASSUME ConsoleInv, console_process
    PROVE  ConsoleInv' /\ Quiet
<1>1. out' \in Seq(Sent)
  BY SentSets DEF console_process
<1> QED
  BY <1>1, WriteStep DEF console_process

\* A prompt, and an empty line.
LEMMA PromptStep ==
    ASSUME ConsoleInv, Prompt
    PROVE  ConsoleInv' /\ Quiet
<1>1. ScreenOK' /\ Quiet
  BY ScreenSame DEF ConsoleInv, Prompt
<1>2. ReadOK'
  BY ReadSame DEF ConsoleInv, Prompt
<1>3. out' \in Seq(Sent)
  BY SentSets DEF Prompt
<1>4. CommandOK'
  <2>1. cmd \in [0..(CMD_SIZE - 1) -> Typed \cup {NUL}]
    BY DEF ConsoleInv, CommandOK
  <2>2. cmd' \in [0..(CMD_SIZE - 1) -> Typed \cup {NUL}]
    BY <2>1 DEF Prompt, memset, NUL
  <2>3. pos' = 0 /\ line' = <<>> /\ pc' = "read" /\ 0 \in 0..(CMD_SIZE - 2)
    BY ConsoleAssumption DEF Prompt
  <2>4. line' \in Seq(Typed) /\ Len(line') = 0
    BY <2>3
  <2> QED
    BY <2>2, <2>3, <2>4 DEF CommandOK
<1> QED
  BY <1>1, <1>2, <1>3, <1>4 DEF ConsoleInv, Prompt

\* The console asks for one character.
LEMMA ReadCharStep ==
    ASSUME ConsoleInv, ReadChar
    PROVE  ConsoleInv' /\ Quiet
<1>1. ScreenOK' /\ Quiet
  BY ScreenSame DEF ConsoleInv, ReadChar
<1>2. CommandOK'
  BY CommandSame DEF ConsoleInv, ReadChar
<1>3. 1 \in Nat \ {0} /\ rd' = Read(1, TRUE)
  BY DEF ReadChar
<1>4. /\ Read(1, TRUE) \in [count : Nat, echo : BOOLEAN, i : Nat, buffer : Buffers]
      /\ Read(1, TRUE).i = 0 /\ Read(1, TRUE).count = 1
      /\ DOMAIN Read(1, TRUE).buffer = 0..(1 - 1)
  BY <1>3, ReadFresh
<1>5. ReadOK'
  <2> DEFINE r == Read(1, TRUE)
  <2>1. /\ r \in [count : Nat, echo : BOOLEAN, i : Nat, buffer : Buffers]
        /\ r.i = 0 /\ r.count = 1 /\ DOMAIN r.buffer = 0..(1 - 1) /\ rd' = r
    BY <1>3, <1>4
  <2> HIDE DEF r
  <2>2. /\ rd' \in [count : Nat, echo : BOOLEAN, i : Nat, buffer : Buffers]
        /\ rd'.i = 0 /\ rd'.count = 1 /\ DOMAIN rd'.buffer = 0..(1 - 1)
    BY <2>1
  <2>3. /\ rd'.i <= rd'.count
        /\ rd'.count > 0 => DOMAIN rd'.buffer = 0..(rd'.count - 1)
        /\ pc' = "got" => rd'.count = 1 /\ (rd'.i = 1 => rd'.buffer[0] \in Typed)
    BY <2>2
  <2> QED
    BY <2>2, <2>3 DEF ReadOK
<1> QED
  BY <1>1, <1>2, <1>5 DEF ConsoleInv, ReadChar

\* The character sys_read returned is one that was typed.
LEMMA GotTyped ==
    ASSUME ConsoleInv, NEW c, Got(c)
    PROVE  c \in Typed
<1>1. /\ rd.count = 1 /\ rd.i \in Nat /\ rd.i <= 1 /\ (rd.i = 1 => rd.buffer[0] \in Typed)
      /\ c = rd.buffer[0] /\ ~Reading
  BY DEF ConsoleInv, ReadOK, Got
<1>2. rd.i # 0
  BY <1>1 DEF Reading
<1> QED
  BY <1>1, <1>2

\* Enter: the string is ended behind the line.
LEMMA GotEnterStep ==
    ASSUME ConsoleInv, NEW c, GotEnter(c)
    PROVE  ConsoleInv' /\ Quiet
<1>1. ScreenOK' /\ Quiet
  BY ScreenSame DEF ConsoleInv, GotEnter, Got
<1>2. ReadOK'
  BY ReadSame DEF ConsoleInv, GotEnter
<1>3. out' \in Seq(Sent)
  BY SentSets DEF GotEnter
<1>4. CommandOK'
  <2>1. /\ cmd \in [0..(CMD_SIZE - 1) -> Typed \cup {NUL}] /\ pos \in 0..(CMD_SIZE - 2)
        /\ \A k \in 1..pos : cmd[k - 1] = line[k]
    BY DEF ConsoleInv, CommandOK
  <2>2. pos \in Nat /\ pos \in 0..(CMD_SIZE - 1)
    BY <2>1, ConsoleAssumption
  <2>3. cmd' = [cmd EXCEPT ![pos] = NUL]
    BY DEF GotEnter
  <2>4. cmd' \in [0..(CMD_SIZE - 1) -> Typed \cup {NUL}] /\ cmd'[pos] = NUL
    BY <2>1, <2>2, <2>3
  <2>5. ASSUME NEW k \in 1..pos PROVE cmd'[k - 1] = line[k]
    <3>1. k - 1 \in 0..(CMD_SIZE - 1) /\ k - 1 # pos
      BY <2>1, <2>2, ConsoleAssumption
    <3> QED
      BY <2>1, <2>3, <3>1
  <2> QED
    BY <2>4, <2>5 DEF ConsoleInv, CommandOK, GotEnter
<1> QED
  BY <1>1, <1>2, <1>3, <1>4 DEF ConsoleInv, GotEnter

\* A character that erases takes the last one off the buffer and off the line.
LEMMA GotEraseStep ==
    ASSUME ConsoleInv, NEW c, GotErase(c)
    PROVE  ConsoleInv' /\ Quiet
<1>1. ScreenOK' /\ Quiet
  BY ScreenSame DEF ConsoleInv, GotErase, Got
<1>2. ReadOK'
  BY ReadSame DEF ConsoleInv, GotErase
<1>3. /\ cmd \in [0..(CMD_SIZE - 1) -> Typed \cup {NUL}] /\ pos \in 0..(CMD_SIZE - 2) /\ pos \in Nat
      /\ line \in Seq(Typed) /\ Len(line) = pos /\ \A k \in 1..pos : cmd[k - 1] = line[k]
  BY ConsoleAssumption DEF ConsoleInv, CommandOK
<1>4. cmd' = cmd /\ pc' = "read" /\ key' = key /\ out \in Seq(Sent)
  BY DEF GotErase, ConsoleInv
<1>5. CASE pos > 0
  <2>1. pos' = pos - 1 /\ out' = <<BS, SP, BS>> /\ line' = SubSeq(line, 1, Len(line) - 1)
    BY <1>3, <1>5 DEF GotErase
  <2>2. pos - 1 \in 0..(CMD_SIZE - 2) /\ pos - 1 \in Nat /\ pos - 1 <= Len(line)
    BY <1>3, <1>5, ConsoleAssumption
  <2>3. line' \in Seq(Typed) /\ Len(line') = pos - 1 /\ \A k \in 1..(pos - 1) : line'[k] = line[k]
    BY <1>3, <2>1, <2>2
  <2>4. \A k \in 1..(pos - 1) : cmd[k - 1] = line'[k]
    BY <1>3, <2>3
  <2>5. CommandOK'
    BY <1>3, <1>4, <2>1, <2>2, <2>3, <2>4 DEF CommandOK
  <2>6. out' \in Seq(Sent)
    BY <2>1, SentSets
  <2> QED
    BY <1>1, <1>2, <1>4, <2>5, <2>6 DEF ConsoleInv
<1>6. CASE ~(pos > 0)
  <2>1. line = <<>>
    BY <1>3, <1>6
  <2>2. pos' = pos /\ out' = out /\ line' = line
    BY <1>6, <2>1 DEF GotErase
  <2>3. CommandOK'
    BY <1>4, <2>2, CommandSame DEF ConsoleInv
  <2> QED
    BY <1>1, <1>2, <1>4, <2>2, <2>3 DEF ConsoleInv
<1> QED
  BY <1>5, <1>6

\* Any other character goes behind the line, in the buffer as in the ghost.
LEMMA GotOtherStep ==
    ASSUME ConsoleInv, NEW c, GotOther(c)
    PROVE  ConsoleInv' /\ Quiet
<1>1. ScreenOK' /\ Quiet
  BY ScreenSame DEF ConsoleInv, GotOther, Got
<1>2. ReadOK'
  BY ReadSame DEF ConsoleInv, GotOther
<1>3. /\ cmd \in [0..(CMD_SIZE - 1) -> Typed \cup {NUL}] /\ pos \in 0..(CMD_SIZE - 2) /\ pos \in Nat
      /\ line \in Seq(Typed) /\ Len(line) = pos /\ \A k \in 1..pos : cmd[k - 1] = line[k]
      /\ CMD_SIZE \in Nat
  BY ConsoleAssumption DEF ConsoleInv, CommandOK
<1>4. pc' = "read" /\ key' = key /\ out \in Seq(Sent)
  BY DEF GotOther, ConsoleInv
<1>5. c \in Typed /\ c \in Sent
  BY GotTyped, SentSets DEF GotOther
<1>6. CASE pos < CMD_SIZE - 2
  <2>1. cmd' = [cmd EXCEPT ![pos] = c] /\ pos' = pos + 1 /\ out' = <<c>> /\ line' = Append(line, c)
    BY <1>3, <1>6 DEF GotOther
  <2>2. pos + 1 \in 0..(CMD_SIZE - 2) /\ pos \in 0..(CMD_SIZE - 1)
    BY <1>3, <1>6
  <2>3. cmd' \in [0..(CMD_SIZE - 1) -> Typed \cup {NUL}] /\ cmd'[pos] = c
    BY <1>3, <1>5, <2>1, <2>2
  <2>4. /\ line' \in Seq(Typed) /\ Len(line') = pos + 1 /\ line'[pos + 1] = c
        /\ \A k \in 1..pos : line'[k] = line[k]
    BY <1>3, <1>5, <2>1
  <2>5. ASSUME NEW k \in 1..(pos + 1) PROVE cmd'[k - 1] = line'[k]
    <3>1. CASE k = pos + 1
      <4>1. k - 1 = pos
        BY <1>3, <3>1
      <4> QED
        BY <2>3, <2>4, <3>1, <4>1
    <3>2. CASE k # pos + 1
      <4>1. k \in 1..pos /\ k - 1 # pos /\ k - 1 \in 0..(CMD_SIZE - 1)
        BY <1>3, <3>2
      <4>2. cmd'[k - 1] = cmd[k - 1]
        BY <1>3, <2>1, <4>1
      <4> QED
        BY <1>3, <2>4, <4>1, <4>2
    <3> QED
      BY <3>1, <3>2
  <2>6. CommandOK'
    BY <1>4, <2>1, <2>2, <2>3, <2>4, <2>5 DEF CommandOK
  <2>7. out' \in Seq(Sent)
    BY <1>5, <2>1, OneChar
  <2> QED
    BY <1>1, <1>2, <1>4, <2>6, <2>7 DEF ConsoleInv
<1>7. CASE ~(pos < CMD_SIZE - 2)
  <2>1. cmd' = cmd /\ pos' = pos /\ out' = out /\ line' = line
    BY <1>3, <1>7 DEF GotOther
  <2>2. CommandOK'
    BY <1>4, <2>1, CommandSame DEF ConsoleInv
  <2> QED
    BY <1>1, <1>2, <1>4, <2>1, <2>2 DEF ConsoleInv
<1> QED
  BY <1>6, <1>7

\* A cleared screen is a blank page.
LEMMA ClearedIsPage == PageOf(Cleared.buffer) = Term!Page
<1> DEFINE b == Cleared.buffer
<1>1. b = [k \in Cells |-> SP]
  BY DEF Cleared
<1> HIDE DEF b
<1>2. ASSUME NEW y \in 1..VGA_HEIGHT, NEW x \in 1..VGA_WIDTH PROVE b[CellAt(y - 1, x - 1)] = SP
  <2>1. y - 1 \in 0..(VGA_HEIGHT - 1) /\ x - 1 \in 0..(VGA_WIDTH - 1)
    BY ScreenSizes
  <2>2. CellAt(y - 1, x - 1) \in Cells
    BY <2>1, CellsApart
  <2> QED
    BY <1>1, <2>2
<1>3. ASSUME NEW y \in 1..VGA_HEIGHT PROVE PageOf(b)[y] = [x \in 1..VGA_WIDTH |-> SP]
  <2>1. PageOf(b)[y] = [x \in 1..VGA_WIDTH |-> b[CellAt(y - 1, x - 1)]]
    BY PageCells
  <2> QED
    BY <1>2, <2>1
<1>4. PageOf(b) = [y \in 1..VGA_HEIGHT |-> PageOf(b)[y]]
  BY DEF PageOf
<1>5. PageOf(b) = [y \in 1..VGA_HEIGHT |-> [x \in 1..VGA_WIDTH |-> SP]]
  BY <1>3, <1>4
<1> QED
  BY <1>5 DEF b, Term!Page, Term!BlankLine

\* The parser's answer: every character of it may be shown.
LEMMA ParseStep ==
    ASSUME ConsoleInv, Parse
    PROVE  ConsoleInv' /\ (Quiet \/ Term!Clear)
<1>1. pc = "parse" /\ pc' = "prompt" /\ UNCHANGED <<key, rd, cmd, pos, line>> /\ out = <<>>
  BY DEF Parse
<1>2. CASE screen_clear /\ UNCHANGED out
  <2>1. screen' = At(Cleared.buffer, 0, 0) /\ Cleared.buffer \in [Cells -> Printed]
    BY <1>2, SentSets DEF screen_clear, Cleared, At
  <2>2. 0 \in 0..(VGA_WIDTH - 1) /\ 0 \in 0..(VGA_HEIGHT - 1)
    BY ScreenSizes
  <2>3. ScreenOK' /\ PageShown' = PageOf(Cleared.buffer) /\ Row' = 0 + 1 /\ Col' = 0 + 1
    BY <2>1, <2>2, ScreenShows
  <2>4. Term!Clear
    BY <1>1, <1>2, <2>3, ClearedIsPage DEF Term!Clear
  <2>6. ReadOK'
    BY <1>1, ReadSame DEF ConsoleInv
  <2>7. CommandOK'
    BY <1>1, CommandSame DEF ConsoleInv
  <2> QED
    BY <1>1, <1>2, <2>3, <2>4, <2>6, <2>7 DEF ConsoleInv
<1>3. ASSUME out' \in Seq(Sent), UNCHANGED screen PROVE ConsoleInv' /\ Quiet
  BY <1>1, <1>3, WriteStep
<1>4. CASE out' \in {<<>>, MESSAGE} /\ UNCHANGED screen
  <2>1. out' \in Seq(Sent)
    <3>1. MESSAGE \in Seq(Sent) /\ <<>> \in Seq(Sent)
      BY SentSets, OneChar
    <3> QED
      BY <1>4, <3>1
  <2> QED
    BY <1>3, <1>4, <2>1
<1>5. CASE /\ out' = IF strlen(cmd) > 0 THEN MESSAGE \o [k \in 1..strlen(cmd) |-> cmd[k - 1]] \o <<NL>> ELSE <<>>
           /\ UNCHANGED screen
  <2>1. strlen(cmd) = pos /\ pos \in Nat /\ \A k \in 1..pos : cmd[k - 1] \in Typed
    BY <1>1, LineInBuffer
  <2> DEFINE m == [k \in 1..pos |-> cmd[k - 1]]
  <2>2. m \in Seq(Sent)
    BY <2>1, SentSets
  <2>3. out' = MESSAGE \o m \o <<NL>> \/ out' = <<>>
    BY <1>5, <2>1
  <2> HIDE DEF m
  <2>4. MESSAGE \in Seq(Sent) /\ <<NL>> \in Seq(Sent) /\ <<>> \in Seq(Sent)
    BY SentSets, OneChar
  <2>5. out' \in Seq(Sent)
    <3>1. ASSUME NEW p \in Seq(Sent), NEW q \in Seq(Sent), NEW e \in Seq(Sent)
          PROVE  p \o q \o e \in Seq(Sent)
      OBVIOUS
    <3>2. MESSAGE \o m \o <<NL>> \in Seq(Sent)
      BY <2>2, <2>4, <3>1
    <3> QED
      BY <2>3, <2>4, <3>2
  <2> QED
    BY <1>3, <1>5, <2>5
<1> QED
  BY <1>2, <1>4, <1>5, Zenon DEF Parse

\* Every step keeps the invariant and is one of the terminal's, or none.
LEMMA ConsoleStep ==
    ASSUME ConsoleInv, [Next]_consoleVars
    PROVE  ConsoleInv' /\ TermStep
<1>0. ASSUME ConsoleInv', Quiet PROVE TermStep
  <2>1. CASE out = <<>>
    <3>1. Term!Send
      BY <1>0, <2>1 DEF ConsoleInv, Quiet, Term!Send
    <3> QED
      BY <3>1 DEF TermStep, Term!Next
  <2>2. CASE UNCHANGED out
    BY <1>0, <2>2 DEF Quiet, TermStep, Term!termVars
  <2> QED
    BY <1>0, <2>1, <2>2 DEF Quiet
<1>1. CASE Step
  <2>1. CASE PollBackspace
    BY <2>1, <1>0, PollBackspaceStep
  <2>2. CASE Poll
    BY <2>2, <1>0, PollStep
  <2>3. CASE PutNext
    BY <2>3, PutNextStep DEF TermStep, Term!Next
  <2>4. CASE console_process
    BY <2>4, <1>0, ConsoleProcessStep
  <2>5. CASE Prompt
    BY <2>5, <1>0, PromptStep
  <2>6. CASE ReadChar
    BY <2>6, <1>0, ReadCharStep
  <2>7. CASE GotChar
    BY <2>7, <1>0, GotEnterStep, GotEraseStep, GotOtherStep DEF GotChar
  <2>8. CASE Parse
    BY <2>8, <1>0, ParseStep DEF TermStep, Term!Next
  <2> QED
    BY <1>1, <2>1, <2>2, <2>3, <2>4, <2>5, <2>6, <2>7, <2>8 DEF Step
<1>2. ASSUME NEW k \in Keys, Press(k) PROVE ConsoleInv' /\ TermStep
  BY <1>2, <1>0, PressStep
<1>3. ASSUME NEW n \in Counts, console_read(n) PROVE ConsoleInv' /\ TermStep
  BY <1>3, <1>0, ConsoleReadStep
<1>4. ASSUME NEW c \in Outputs, console_write(c) \/ \E fd \in 0..2 : sys_write(fd, c)
      PROVE  ConsoleInv' /\ TermStep
  BY <1>4, <1>0, ConsoleWriteStep
<1>5. CASE UNCHANGED consoleVars
  <2>1. UNCHANGED <<screen, key, out, pc, rd, cmd, pos, line>>
    BY <1>5 DEF consoleVars
  <2>2. out' \in Seq(Sent)
    BY <2>1 DEF ConsoleInv
  <2> QED
    BY <2>1, <2>2, <1>0, WriteStep
<1> QED
  BY <1>1, <1>2, <1>3, <1>4, <1>5, Zenon DEF Next

\* kernel/console.c and kernel/screen.c: the cursor stays on the screen and its
\* cells hold characters that were printed, a read keeps to its own buffer and ends
\* with a character that was typed, and the command buffer starts with the line.
THEOREM ConsoleInvariant == Spec => []ConsoleInv
<1>1. ConsoleInv /\ [Next]_consoleVars => ConsoleInv'
  BY ConsoleStep
<1> QED
  BY <1>1, ConsoleInit, PTL DEF Spec

\* console_process: the string the parser compares with the commands' names is the
\* line as typed and edited, for every size of the command buffer.
THEOREM ConsoleCommandIsLine == Spec => []CommandIsLine
<1>1. ConsoleInv => CommandIsLine
  BY LineInBuffer DEF CommandIsLine
<1> QED
  BY <1>1, ConsoleInvariant, PTL

\* screen_putchar and screen_clear: the buffer and the cursor are a terminal's page
\* and caret, and each character sent has its own effect in its turn, for every size
\* of the screen and every tabulator width that divides it.
THEOREM ConsoleImplementsTerminal == Spec => ImplementsTerminal
<1>1. Init => Term!Init
  <2> SUFFICES ASSUME Init PROVE Term!Init
    OBVIOUS
  <2>1. PageShown = PageOf(Cleared.buffer) /\ Row = 1 /\ Col = 1 /\ out = <<>>
    BY DEF Init, PageShown, Row, Col, Cleared
  <2> QED
    BY <2>1, ClearedIsPage DEF Term!Init
<1>2. ConsoleInv /\ [Next]_consoleVars => [Term!Next]_(Term!termVars)
  BY ConsoleStep DEF TermStep
<1> QED
  BY <1>1, <1>2, ConsoleInvariant, PTL DEF Spec, ImplementsTerminal, Term!Spec
================================================================================
