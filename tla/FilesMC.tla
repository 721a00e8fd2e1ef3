------------------------------- MODULE FilesMC -------------------------------
(* A heap that start-up all but fills, three descriptors, and one path too    *)
(* long for a mount entry, beside the path it is cut to.                      *)
EXTENDS Files, TLC

\* The blocks are interchangeable.
MCSymmetry == Permutations(Blocks)
MCOffsets == {-1, 0}
MCCut == "/" :> "/" @@ "/mnt" :> "/mnt" @@ "/mnt/long" :> "/mnt"
==============================================================================
