--------------------------- MODULE MCCachedReads ---------------------------
(***************************************************************************)
(* Instances of CachedReads for TLC: an area whose cooldown is one unit,   *)
(* so that a read can see several refreshes go by.                         *)
(***************************************************************************)
EXTENDS CachedReads

EachArea(n) == [a \in Area |-> n]
One == EachArea(1)
Two == EachArea(2)
Clock0to1 == 0..1
Clock0to2 == 0..2
=============================================================================
