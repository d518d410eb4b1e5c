--------------------------- MODULE MCUpdateMessage ---------------------------
(* UpdateMessage for TLC: a screen of a few tiles, with regions that are   *)
(* empty, one rectangle on and off the corner, or two rectangles.          *)
EXTENDS UpdateMessage

OneRectangle == {<<b>> : b \in {Box(0, 0, 1, 1), Box(0, 0, 8, 7), Box(2, 0, 6, 6),
                                Box(1, 1, 3, 5), Box(0, 3, 8, 2), Box(3, 2, 5, 4)}}
TwoRectangles == {<<Box(1, 0, 3, 2), Box(0, 2, 7, 5)>>}
SmallRegions == {<<>>} \cup OneRectangle \cup TwoRectangles

(* They are far from the header's limit.                                   *)
ASSUME SmallCounts == CountsFit
=============================================================================
