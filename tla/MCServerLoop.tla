----------------------------- MODULE MCServerLoop -----------------------------
(* ServerLoop for TLC.  Between two of these displays the size changes, or *)
(* the depth, or both, or the depth can no longer be told.                 *)
EXTENDS ServerLoop, TLC

SizesAndDepths == {[size |-> 1, depth |-> 32], [size |-> 2, depth |-> 32],
                   [size |-> 2, depth |-> 16], [size |-> 1, depth |-> Unknown]}
TwoSizes == {[size |-> 1, depth |-> 32], [size |-> 2, depth |-> 32]}
=============================================================================
