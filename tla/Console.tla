-------------------------------- MODULE Console --------------------------------
(***************************************************************************)
(* kernel/console.c on the screen and the keyboard: the loop kernel_main   *)
(* ends in, with sys_read (kernel/syscall.c), which polls the keyboard's   *)
(* data port and echoes, and the console device's console_read and         *)
(* console_write (kernel/device.c), used before the loop starts.           *)
(*                                                                         *)
(* The port shows the last code the keyboard sent: a key held down is seen *)
(* at every poll, one released between two polls is never seen.            *)
(***************************************************************************)
EXTENDS Screen, Strings

CONSTANTS
    CMD_SIZE,           \* 128, the size of cmd
    HELP, CLEAR, EXEC,  \* the commands' names
    PROMPT, MESSAGE,    \* the prompt, and any other text the console shows
    Keys,               \* codes the keyboard sends
    PastLiteral,        \* what the bytes behind a string literal may be
    Counts,             \* sizes of reads from the console device
    Outputs             \* characters written to the console device

VARIABLES
    key,    \* what the keyboard's port shows
    out,    \* characters on their way to the screen
    pc,     \* where the console is: "start", "prompt", "read", "got", "parse"
    rd,     \* the read in progress: [count, echo, i, buffer], or NoRead
    cmd,    \* the command line, an array
    pos,
    line    \* ghost: the line as typed, edited and cut to what fits

consoleVars == <<screen, key, out, pc, rd, cmd, pos, line>>

NoRead == [count |-> 0, echo |-> FALSE, i |-> 0, buffer |-> [k \in 0..0 |-> NUL]]
Read(n, echo) == [count |-> n, echo |-> echo, i |-> 0, buffer |-> [k \in 0..(n - 1) |-> NUL]]
DEL == 127

ASSUME ConsoleAssumption ==
    /\ CMD_SIZE \in Nat /\ CMD_SIZE > 2
    /\ Keys \subseteq 0..255
    /\ Counts \subseteq Nat \ {0}
    /\ PastLiteral \subseteq 0..255 /\ Outputs \subseteq 0..255
    /\ PROMPT \in Seq(0..255) /\ MESSAGE \in Seq(0..255)

Init ==
    /\ screen = Cleared
    /\ key \in Keys
    /\ out = <<>>
    /\ pc = "start"
    /\ rd = NoRead
    /\ cmd = [k \in 0..(CMD_SIZE - 1) |-> NUL]
    /\ pos = 0 /\ line = <<>>

-----------------------------------------------------------------------------
(* The keyboard. *)

Press(k) == key' = k /\ UNCHANGED <<screen, out, pc, rd, cmd, pos, line>>

\* The rows of letters and digits, from their first code.
Rows == << <<16, <<113, 119, 101, 114, 116, 121, 117, 105, 111, 112>> >>,
           <<30, <<97, 115, 100, 102, 103, 104, 106, 107, 108>> >>,
           <<44, <<122, 120, 99, 118, 98, 110, 109>> >>,
           <<2, <<49, 50, 51, 52, 53, 54, 55, 56, 57, 48>> >> >>

\* The characters a code may stand for.  Code 26 is one behind the first row and
\* finds the NUL that ends the literal, 27 what happens to lie behind it.
CharsOf(k) ==
    LET R == {r \in 1..4 : k - Rows[r][1] \in 0..(Len(Rows[r][2]) - 1)}
    IN  CASE k = 28 -> {NL}
          [] k = 57 -> {SP}
          [] k = 27 -> PastLiteral
          [] k \notin {28, 57, 27} /\ R # {} -> LET r == CHOOSE r \in R : TRUE IN {Rows[r][2][k - Rows[r][1] + 1]}
          [] OTHER -> {NUL}

-----------------------------------------------------------------------------
(* sys_read(0, ...) and console_read. *)

\* The loop goes on until the buffer is full or a newline came.
Reading == rd.i < rd.count /\ \A k \in 0..(rd.i - 1) : rd.buffer[k] # NL

\* A poll that finds the backspace key down takes the last character back.
PollBackspace ==
    /\ out = <<>> /\ Reading /\ key = 14
    /\ rd' = IF rd.i > 0 THEN [rd EXCEPT !.i = @ - 1, !.buffer[rd.i - 1] = NUL] ELSE rd
    /\ UNCHANGED <<screen, key, out, pc, cmd, pos, line>>

\* A poll that finds another key, or one released.
Poll ==
    /\ out = <<>> /\ Reading /\ key # 14
    /\ \E c \in IF key < 128 THEN CharsOf(key) ELSE {NUL} :
          IF c = NUL THEN UNCHANGED <<rd, out>>
          ELSE /\ rd' = [rd EXCEPT !.buffer[rd.i] = c, !.i = @ + 1]
               /\ out' = IF rd.echo THEN <<c>> ELSE <<>>
    /\ UNCHANGED <<screen, key, pc, cmd, pos, line>>

\* The next of the characters on their way.
PutNext ==
    /\ out # <<>>
    /\ screen_putchar(Head(out))
    /\ out' = Tail(out)
    /\ UNCHANGED <<key, pc, rd, cmd, pos, line>>

\* The console device, for its callers before the loop.
console_read(n) ==
    /\ out = <<>> /\ pc = "start" /\ ~Reading
    /\ rd' = Read(n, FALSE)
    /\ UNCHANGED <<screen, key, out, pc, cmd, pos, line>>

console_write(c) ==
    /\ out = <<>> /\ pc = "start" /\ ~Reading
    /\ out' = <<c>>
    /\ UNCHANGED <<screen, key, pc, rd, cmd, pos, line>>

\* And the system call, which knows descriptors 1 and 2.
sys_write(fd, c) ==
    /\ out = <<>> /\ pc = "start" /\ ~Reading
    /\ out' = IF fd \in {1, 2} THEN <<c>> ELSE <<>>
    /\ UNCHANGED <<screen, key, pc, rd, cmd, pos, line>>

-----------------------------------------------------------------------------
(* console_process. *)

console_process ==
    /\ out = <<>> /\ pc = "start" /\ ~Reading
    /\ out' = MESSAGE
    /\ pc' = "prompt"
    /\ UNCHANGED <<screen, key, rd, cmd, pos, line>>

Prompt ==
    /\ out = <<>> /\ pc = "prompt"
    /\ out' = PROMPT
    /\ pos' = 0
    /\ cmd' = memset(cmd, NUL, CMD_SIZE)
    /\ line' = <<>>
    /\ pc' = "read"
    /\ UNCHANGED <<screen, key, rd>>

ReadChar ==
    /\ out = <<>> /\ pc = "read"
    /\ rd' = Read(1, TRUE)
    /\ pc' = "got"
    /\ UNCHANGED <<screen, key, out, cmd, pos, line>>

\* What sys_read left in c when it returned.
Got(c) == out = <<>> /\ pc = "got" /\ ~Reading /\ c = rd.buffer[0]

GotEnter_open(c) ==   \* mutant: the string is not ended
    /\ Got(c) /\ c = NL
    /\ out' = <<NL>>
    /\ pc' = "parse"
    /\ UNCHANGED <<screen, key, rd, cmd, pos, line>>

GotEnter_cr(c) ==   \* mutant: the wrong character ends the line
    /\ Got(c) /\ c = CR
    /\ cmd' = [cmd EXCEPT ![pos] = NUL]
    /\ out' = <<NL>>
    /\ pc' = "parse"
    /\ UNCHANGED <<screen, key, rd, pos, line>>

GotEnter(c) ==
    /\ Got(c) /\ c = NL
    /\ cmd' = [cmd EXCEPT ![pos] = NUL]
    /\ out' = <<NL>>
    /\ pc' = "parse"
    /\ UNCHANGED <<screen, key, rd, pos, line>>

GotErase(c) ==
    /\ Got(c) /\ c \in {BS, DEL}
    /\ IF pos > 0
       THEN pos' = pos - 1 /\ out' = <<BS, SP, BS>>
       ELSE UNCHANGED <<pos, out>>
    /\ line' = IF line # <<>> THEN SubSeq(line, 1, Len(line) - 1) ELSE line
    /\ pc' = "read"
    /\ UNCHANGED <<screen, key, rd, cmd>>

\* Any other character is kept and echoed once more, if it fits.
GotOther(c) ==
    /\ Got(c) /\ c \notin {NL, BS, DEL}
    /\ IF pos < CMD_SIZE - 2
       THEN cmd' = [cmd EXCEPT ![pos] = c] /\ pos' = pos + 1 /\ out' = <<c>>
       ELSE UNCHANGED <<cmd, pos, out>>
    /\ line' = IF Len(line) < CMD_SIZE - 2 THEN Append(line, c) ELSE line
    /\ pc' = "read"
    /\ UNCHANGED <<screen, key, rd>>

\* The command is looked up and run; exec shows a text if it fails.
Parse ==
    /\ out = <<>> /\ pc = "parse"
    /\ \/ /\ strcmp(cmd, Literal(CLEAR)) = 0
          /\ screen_clear
          /\ UNCHANGED out
       \/ /\ strcmp(cmd, Literal(HELP)) = 0
          /\ out' = MESSAGE
          /\ UNCHANGED screen
       \/ /\ strcmp(cmd, Literal(EXEC)) = 0
          /\ out' \in {<<>>, MESSAGE}
          /\ UNCHANGED screen
       \/ /\ \A w \in {HELP, CLEAR, EXEC} : strcmp(cmd, Literal(w)) # 0
          /\ out' = IF strlen(cmd) > 0 THEN MESSAGE \o [k \in 1..strlen(cmd) |-> cmd[k - 1]] \o <<NL>> ELSE <<>>
          /\ UNCHANGED screen
    /\ pc' = "prompt"
    /\ UNCHANGED <<key, rd, cmd, pos, line>>

GotChar == \E c \in {rd.buffer[0]} : GotEnter(c) \/ GotErase(c) \/ GotOther(c)

Step == PollBackspace \/ Poll \/ PutNext \/ console_process \/ Prompt \/ ReadChar \/ GotChar \/ Parse

Next ==
    \/ Step
    \/ \E k \in Keys : Press(k)
    \/ \E n \in Counts : console_read(n)
    \/ \E c \in Outputs : console_write(c) \/ \E fd \in 0..2 : sys_write(fd, c)

\* The processor goes on.
Spec == Init /\ [][Next]_consoleVars /\ WF_consoleVars(Step)

-----------------------------------------------------------------------------
\* console_process: the string the parser compares with the commands' names is the
\* line typed since the prompt, with what was erased gone and what did not fit cut.
CommandIsLine ==
    pc = "parse" =>
        /\ strlen(cmd) = Len(line)
        /\ \A k \in 1..Len(line) : cmd[k - 1] = line[k]

\* console_process: while Enter is held down it keeps coming back to its prompt.
EnterAnswered == <>[](key = 28 /\ pc # "start") => []<>(pc = "prompt")

\* Every character a key may stand for, and every one the screen is asked to show.
KeyChars == UNION {CharsOf(k) : k \in Keys}
Printed ==
    KeyChars \cup Outputs \cup {SP, NL}
        \cup {PROMPT[k] : k \in DOMAIN PROMPT} \cup {MESSAGE[k] : k \in DOMAIN MESSAGE}
Sent == Printed \cup {BS}

\* screen_putchar and screen_clear make the buffer and the cursor behave as a
\* terminal: the cells are its lines, one after another, and every character sent
\* has the effect it should have, in its turn.
PageOf(b) == [y \in 1..VGA_HEIGHT |-> [x \in 1..VGA_WIDTH |-> b[(y - 1) * VGA_WIDTH + x - 1]]]
PageShown == PageOf(screen.buffer)
Row == screen.cursor_y + 1
Col == screen.cursor_x + 1
Term == INSTANCE Terminal WITH
    Width <- VGA_WIDTH, Height <- VGA_HEIGHT, Stop <- TAB_WIDTH, Blank <- SP,
    Chars <- Sent, sent <- out, lines <- PageShown, row <- Row, col <- Col

ImplementsTerminal == Term!Spec
================================================================================
