------------------------------ MODULE FramePool ------------------------------
(***************************************************************************)
(* What a physical frame allocator promises its callers, without a bitmap: *)
(* a pool of frame addresses that is filled once, answers a request for n  *)
(* frames with n frames in a row that nobody holds, refuses only when it   *)
(* must, and takes back what it gave out.                                  *)
(***************************************************************************)
EXTENDS Integers

CONSTANTS
    NULL,     \* the null frame address
    FRAME,    \* bytes in a frame
    Counts    \* how many frames a caller may ask for

VARIABLES
    avail,    \* frames that may be handed out
    out,      \* frames held by callers
    filled,   \* has the pool been filled?
    reply     \* the last call: how many frames were asked, the first one got

vars == <<avail, out, filled, reply>>

\* The reply of a call that hands out nothing.
Nothing(n) == [asked |-> n, got |-> NULL]

Init ==
    /\ avail = {}
    /\ out = {}
    /\ filled = FALSE
    /\ reply = Nothing(0)

\* Boot: the pool receives its frames, once.
Fill ==
    /\ ~filled
    /\ filled' = TRUE
    /\ NULL \notin avail'
    /\ reply' = Nothing(0)
    /\ UNCHANGED out

\* The n frames in a row from f on.
Run(f, n) == {f + k * FRAME : k \in 0..(n - 1)}

\* n frames in a row that nobody holds move from the pool to the caller.
Take(n) ==
    \E f \in avail :
        /\ n > 0 /\ Run(f, n) \subseteq avail
        /\ avail' = avail \ Run(f, n)
        /\ out' = out \cup Run(f, n)
        /\ reply' = [asked |-> n, got |-> f]
        /\ UNCHANGED filled

\* A request for n frames is refused only if no n in a row are left.
Refuse(n) ==
    /\ n = 0 \/ \A f \in avail : ~(Run(f, n) \subseteq avail)
    /\ reply' = Nothing(n)
    /\ UNCHANGED <<avail, out, filled>>

\* A caller gives back a frame it holds.
GiveBack ==
    \E f \in out :
        /\ avail' = avail \cup {f}
        /\ out' = out \ {f}
        /\ reply' = Nothing(0)
        /\ UNCHANGED filled

Next ==
    \/ Fill
    \/ \E n \in Counts : Take(n) \/ Refuse(n)
    \/ GiveBack

Spec == Init /\ [][Next]_vars
==============================================================================
