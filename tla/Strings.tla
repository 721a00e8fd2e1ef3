-------------------------------- MODULE Strings --------------------------------
(***************************************************************************)
(* The routines of kernel/string.c that the console uses.  An array of     *)
(* bytes is a function from its indices, starting at 0; a string ends at   *)
(* its first NUL.  The loops are recursive functions of their counters.    *)
(***************************************************************************)
EXTENDS Integers, Sequences

NUL == 0

\* The array that holds the string s of a literal.
Literal(s) == [i \in 0..Len(s) |-> IF i = Len(s) THEN NUL ELSE s[i + 1]]

strlen(s) ==
    LET from[i \in Nat] == IF s[i] # NUL THEN from[i + 1] ELSE i
    IN  from[0]

strcmp(s1, s2) ==
    LET from[i \in Nat] == IF s1[i] # NUL /\ s1[i] = s2[i] THEN from[i + 1] ELSE s1[i] - s2[i]
    IN  from[0]

memset(dest, val, len) == [i \in DOMAIN dest |-> IF i < len THEN val % 256 ELSE dest[i]]
================================================================================
