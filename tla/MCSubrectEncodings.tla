------------------------- MODULE MCSubrectEncodings -------------------------
(* SubrectEncodings for TLC: tiles of three by two pixels, with the        *)
(* smaller ones of the right and the lower edge.  The code compares        *)
(* colours for equality only.                                              *)
EXTENDS SubrectEncodings, TLC

EdgeSizes == {<<3, 2>>, <<1, 2>>, <<3, 1>>, <<1, 1>>}
AnyColours == Permutations(Colours)
=============================================================================
