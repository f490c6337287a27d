----------------------------- MODULE MCSelector -----------------------------
(* Instances of Selector for TLC: short lists, and terminals on which one, *)
(* two, three and all entries are visible.                                 *)
EXTENDS Selector

MCLengths == 0..4
MCHeights == {0, 8, 9, 10, 20}
=============================================================================
