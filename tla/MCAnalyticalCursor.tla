------------------------- MODULE MCAnalyticalCursor -------------------------
(* Two tabs read a result of a few pages, with a page that has no rows or      *)
(* without.                                                                  *)
EXTENDS AnalyticalCursor, TLC
CONSTANTS c1, c2
Tabs == {c1, c2}
ThreePages == <<2, 1, 1>>
FourPages == <<2, 1, 0, 1>>
EmptyBetween == <<1, 0, 1>>
Careful == {}
Closing == {"close"}
Overtaking == {"resume"}
Symmetry == Permutations(Tabs)
=============================================================================
