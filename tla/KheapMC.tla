------------------------------- MODULE KheapMC -------------------------------
(* The real header size and alignment on an arena of a hundred-odd bytes.   *)
EXTENDS Kheap

MCSizes == {0, 1, 24}
MCNums == {2}

\* The proofs' condition on requests holds for these sizes.
ASSUME NoWrapAssumption == NoWrap
==============================================================================
