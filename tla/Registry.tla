------------------------------- MODULE Registry -------------------------------
(***************************************************************************)
(* What the device list promises: a name stands for one device at most,    *)
(* from its registration until it is unregistered.                         *)
(***************************************************************************)
CONSTANTS Names, Devices

VARIABLE entries     \* name -> the set of devices it stands for

Init == entries = [n \in Names |-> {}]

Register(n, d) ==
    /\ entries[n] = {}
    /\ entries' = [entries EXCEPT ![n] = {d}]

Unregister(n) ==
    /\ entries[n] # {}
    /\ entries' = [entries EXCEPT ![n] = {}]

Next == \E n \in Names : Unregister(n) \/ \E d \in Devices : Register(n, d)

Spec == Init /\ [][Next]_entries
===============================================================================
