------------------------------ MODULE HeapSpec ------------------------------
(***************************************************************************)
(* What a heap promises, without blocks, lists or headers: a caller asks   *)
(* for a number of arena bytes and is granted an extent that touches no    *)
(* extent somebody else holds, or is refused, which is allowed only when   *)
(* no hole of that many bytes is left anywhere.  Kheap implements it.      *)
(***************************************************************************)
EXTENDS Integers

CONSTANTS ArenaStart, ArenaSize

VARIABLES
    extent,    \* the extents held: base address -> length
    asking     \* the bytes the pending request needs, 0 if there is none

vars == <<extent, asking>>

ArenaEnd == ArenaStart + ArenaSize

\* The n bytes from a on lie in the arena and belong to nobody.
Vacant(a, n) ==
    /\ ArenaStart <= a /\ a + n <= ArenaEnd
    /\ \A b \in DOMAIN extent : a + n <= b \/ b + extent[b] <= a

Init == extent = [b \in {} |-> 0] /\ asking = 0

Ask == asking = 0 /\ asking' > 0 /\ UNCHANGED extent

\* An extent is granted; a request that moves a block gives its old one back.
Grant ==
    /\ asking > 0
    /\ asking' = 0
    /\ \E a \in DOMAIN extent', old \in {{}} \cup {{b} : b \in DOMAIN extent} :
         LET n == extent'[a] IN
         /\ n >= asking
         /\ Vacant(a, n)
         /\ extent' = [b \in (DOMAIN extent \cup {a}) \ old |->
                         IF b = a THEN n ELSE extent[b]]

\* A request is refused only if there is no hole for it.
Refuse ==
    /\ asking > 0
    /\ asking' = 0
    /\ \A a \in ArenaStart..ArenaEnd : ~Vacant(a, asking)
    /\ UNCHANGED extent

GiveBack ==
    /\ asking = 0
    /\ \E b \in DOMAIN extent :
         extent' = [a \in DOMAIN extent \ {b} |-> extent[a]]
    /\ UNCHANGED asking

Next == Ask \/ Grant \/ Refuse \/ GiveBack

Spec == Init /\ [][Next]_vars
=============================================================================
