------------------------------ MODULE RunQueue ------------------------------
(***************************************************************************)
(* What a ready queue promises: processes wait in line at most once each,  *)
(* in the order they came, and as long as anyone waits the processor goes  *)
(* to whoever is first.  Who gets it when nobody waits is not the line's   *)
(* business: nothing is promised about that here.                          *)
(***************************************************************************)
EXTENDS Integers, Sequences

CONSTANT Procs

VARIABLES
    line,      \* the processes that wait, first come first
    running    \* the process that has the processor

Init == line = <<>> /\ running \in Procs

\* p, which is not waiting, goes to the end of the line.
Join(p) ==
    /\ \A i \in 1..Len(line) : line[i] # p
    /\ line' = Append(line, p)
    /\ UNCHANGED running

\* The processor goes to the first in line.
Serve ==
    /\ line # <<>>
    /\ running' = line[1]
    /\ line' = Tail(line)

\* Nobody waits, and somebody gets the processor.
NobodyWaits ==
    /\ line = <<>>
    /\ running' \in Procs
    /\ UNCHANGED line

Next == (\E p \in Procs : Join(p)) \/ Serve \/ NobodyWaits

Spec == Init /\ [][Next]_<<line, running>>
=============================================================================
