------------------------------ MODULE MCRegions -----------------------------
(* Regions for TLC.  Three columns make room for two boxes in a band with  *)
(* a gap between them, three rows for a band between two others.  Two      *)
(* requests make a cross, a corner, or boxes apart from each other.        *)
EXTENDS Regions

Corners == {Box(x, y, x + 1, y + 1) : x \in {0, Width - 1}, y \in {0, Height - 1}}
Rows == {Box(0, y, Width, y + 1) : y \in 0 .. Height - 1}
Columns == {Box(x, 0, x + 1, Height) : x \in 0 .. Width - 1}
MCRequestBoxes == Corners \cup Rows \cup Columns \cup {Box(0, 1, Width, 1)}
=============================================================================
