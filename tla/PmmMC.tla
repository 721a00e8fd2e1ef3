-------------------------------- MODULE PmmMC --------------------------------
(* A machine of a few pages: two low, two kernel pages, one bitmap page.    *)
EXTENDS Pmm

\* 6, 9 and 10 pages of 16 bytes: one, four and five frames to hand out.
MCMemKb == {6, 9, 10}
MCCounts == 0..3
==============================================================================
