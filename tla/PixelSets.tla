----------------------------- MODULE PixelSets ------------------------------
(***************************************************************************)
(* What the regions of a client record stand for: sets of pixels.  Damage  *)
(* and requests gather, a selection takes what is both damaged and         *)
(* requested and forgets the rest of the request.                          *)
(***************************************************************************)
CONSTANTS
  Screen,   \* the pixels there are
  Areas     \* the sets of pixels that can be damaged or asked for at once

VARIABLES
  damaged,   \* what the client's copy of the screen lacks
  wanted,    \* what the client has asked for
  chosen     \* what was chosen in the last step, if it chose

pixelVars == <<damaged, wanted, chosen>>

PixelInit == damaged = Screen /\ wanted = {} /\ chosen = {}

(* The pixels a are damaged, asked for, or both.                           *)
Gather(a) ==
  /\ damaged' \in {damaged, damaged \cup a}
  /\ wanted' \in {wanted, wanted \cup a}
  /\ chosen' = {}

Choose ==
  /\ chosen' = damaged \cap wanted
  /\ damaged' = damaged \ wanted
  /\ wanted' = {}

Replace == damaged' = Screen /\ chosen' = {} /\ UNCHANGED wanted

PixelNext ==
  \/ Choose
  \/ Replace
  \/ \E a \in Areas : Gather(a)

PixelSpec == PixelInit /\ [][PixelNext]_pixelVars
=============================================================================
