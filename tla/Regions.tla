------------------------------ MODULE Regions -------------------------------
(***************************************************************************)
(* The regions of a client record as the server keeps them                 *)
(* (OSXvnc-server/miregion.c), and what refreshCallback, the protocol and  *)
(* clientOutput do with them.                                              *)
(*                                                                         *)
(* A region is its extents and the y-x banded sequence of its boxes.  The  *)
(* code keeps no boxes (data = NULL) for a region that is one box; here    *)
(* that box is the only one of the sequence.  How the array of boxes grows *)
(* is left out.                                                            *)
(***************************************************************************)
EXTENDS Integers, Sequences, FiniteSets

CONSTANTS
  Width, Height,   \* the screen
  RequestBoxes,    \* bound: the boxes clients ask for
  MaxRequests      \* bound: requests that come in between two updates

ASSUME RegionsAssumption == {Width, Height, MaxRequests} \subseteq Nat \ {0}

VARIABLES
  modified,    \* cl->modifiedRegion
  requested,   \* cl->requestedRegion
  update,      \* updateRegion of clientOutput, until the next step
  requests     \* how many requests came since

bandVars == <<modified, requested, update, requests>>

Max2(a, b) == IF a > b THEN a ELSE b
Min2(a, b) == IF a < b THEN a ELSE b

-----------------------------------------------------------------------------
(*                          Boxes and regions                              *)

Box(x1, y1, x2, y2) == [x1 |-> x1, y1 |-> y1, x2 |-> x2, y2 |-> y2]

Overlap(b, c) == b.x1 < c.x2 /\ c.x1 < b.x2 /\ b.y1 < c.y2 /\ c.y1 < b.y2
Subsumes(b, c) == b.x1 <= c.x1 /\ b.x2 >= c.x2 /\ b.y1 <= c.y1 /\ b.y2 >= c.y2

Hull(b, c) == Box(Min2(b.x1, c.x1), Min2(b.y1, c.y1), Max2(b.x2, c.x2), Max2(b.y2, c.y2))
Common(b, c) == Box(Max2(b.x1, c.x1), Max2(b.y1, c.y1), Min2(b.x2, c.x2), Min2(b.y2, c.y2))

Region(extents, boxes) == [extents |-> extents, boxes |-> boxes]
RegionInit(b) == Region(b, <<b>>)
NullRegion == Region(Box(0, 0, 0, 0), <<>>)
Emptied(r) == Region([r.extents EXCEPT !.x2 = r.extents.x1, !.y2 = r.extents.y1], <<>>)

IsNil(r) == r.boxes = <<>>
IsBox(r) == Len(r.boxes) = 1

(* SAFE_REGION_INIT: a box without width or height is no box.              *)
SafeRegionInit(b) == IF b.x1 = b.x2 \/ b.y1 = b.y2 THEN NullRegion ELSE RegionInit(b)

(* miSetExtents: the top of the first box, the bottom of the last.         *)
SetExtents(old, boxes) ==
  IF boxes = <<>> THEN Emptied(old)
  ELSE LET xs1 == {boxes[i].x1 : i \in DOMAIN boxes}
           xs2 == {boxes[i].x2 : i \in DOMAIN boxes}
       IN Region(Box(CHOOSE x \in xs1 : \A z \in xs1 : x <= z, boxes[1].y1,
                     CHOOSE x \in xs2 : \A z \in xs2 : x >= z, boxes[Len(boxes)].y2),
                 boxes)

-----------------------------------------------------------------------------
(*               miRegionOp: two regions, band after band                  *)
(*                                                                         *)
(* The code's loops go along two arrays with a pointer into each, here the *)
(* indices i and j.  after[n] is what a loop has come to in n turns; one   *)
(* that has ended stays as it is, and none takes more turns than there are *)
(* boxes to pass.                                                          *)

(* The last box of the band that begins with r[i].                         *)
BandEnd(r, i) ==
  CHOOSE k \in i .. Len(r) :
    /\ \A l \in i .. k : r[l].y1 = r[i].y1
    /\ k < Len(r) => r[k + 1].y1 # r[i].y1

(* That band, between other top and bottom lines.                          *)
Clip(r, i, top, bottom) ==
  [k \in 1 .. BandEnd(r, i) - i + 1 |-> [r[i + k - 1] EXCEPT !.y1 = top, !.y2 = bottom]]

(* Coalesce if it looked at the rows only, or never coalesced.             *)
CoalesceWide(out, band) ==
  LET cur == Len(out.boxes)
      n == cur - out.prev
  IN IF n = Len(band) /\ n > 0 /\ out.boxes[out.prev + 1].y2 = band[1].y1
     THEN [out EXCEPT !.boxes = [i \in 1 .. cur |->
             IF i > out.prev THEN [@[i] EXCEPT !.y2 = band[1].y2] ELSE @[i]]]
     ELSE [boxes |-> out.boxes \o band, prev |-> cur]
CoalesceNever(out, band) == [boxes |-> out.boxes \o band, prev |-> Len(out.boxes)]

(* The new region's boxes so far, and how many precede its last band.  A   *)
(* band that joins onto the one before, with boxes at the same places,     *)
(* makes that one taller.                                                  *)
Coalesce(out, band) ==
  LET cur == Len(out.boxes)
      n == cur - out.prev
      Before(i) == out.boxes[out.prev + i]
  IN IF /\ n = Len(band) /\ n > 0
        /\ Before(1).y2 = band[1].y1
        /\ \A i \in 1 .. n : Before(i).x1 = band[i].x1 /\ Before(i).x2 = band[i].x2
     THEN [out EXCEPT !.boxes = [i \in 1 .. cur |->
             IF i > out.prev THEN [@[i] EXCEPT !.y2 = band[1].y2] ELSE @[i]]]
     ELSE [boxes |-> out.boxes \o band, prev |-> cur]

(* What the bands b1 and b2 have in common: miIntersectO.                  *)
IntersectTurn(b1, b2, s) ==
  IF s.i > Len(b1) \/ s.j > Len(b2) THEN s
  ELSE LET b == [b1[s.i] EXCEPT !.x1 = Max2(@, b2[s.j].x1), !.x2 = Min2(@, b2[s.j].x2)]
       IN [i |-> IF b1[s.i].x2 = b.x2 THEN s.i + 1 ELSE s.i,
           j |-> IF b2[s.j].x2 = b.x2 THEN s.j + 1 ELSE s.j,
           out |-> IF b.x1 < b.x2 THEN Append(s.out, b) ELSE s.out]
IntersectO(b1, b2) ==
  LET after[n \in Nat] == IF n = 0 THEN [i |-> 1, j |-> 1, out |-> <<>>]
                                   ELSE IntersectTurn(b1, b2, after[n - 1])
  IN after[Len(b1) + Len(b2)].out

(* The leftmost box of either band joins the box b under way or ends it:   *)
(* miUnionO with MERGERECT.                                                *)
UnionTurn(b1, b2, s) ==
  IF s.i > Len(b1) /\ s.j > Len(b2) THEN s
  ELSE LET first == s.j > Len(b2) \/ (s.i <= Len(b1) /\ b1[s.i].x1 < b2[s.j].x1)
           r == IF first THEN b1[s.i] ELSE b2[s.j]
           joins == r.x1 <= s.b.x2
       IN [i |-> IF first THEN s.i + 1 ELSE s.i,
           j |-> IF first THEN s.j ELSE s.j + 1,
           b |-> IF joins THEN [s.b EXCEPT !.x2 = Max2(@, r.x2)] ELSE r,
           out |-> IF joins THEN s.out ELSE Append(s.out, s.b)]
UnionO(b1, b2) ==
  LET start == IF b1[1].x1 < b2[1].x1 THEN [i |-> 2, j |-> 1, b |-> b1[1], out |-> <<>>]
                                      ELSE [i |-> 1, j |-> 2, b |-> b2[1], out |-> <<>>]
      after[n \in Nat] == IF n = 0 THEN start ELSE UnionTurn(b1, b2, after[n - 1])
      end == after[Len(b1) + Len(b2)]
  IN Append(end.out, end.b)

(* What of the band b1 is not in b2: miSubtractO.  x is the leftmost point *)
(* that is not decided yet.                                                *)
SubtractTurn(b1, b2, s) ==
  IF s.i > Len(b1) THEN s
  ELSE LET m == b1[s.i]
           b == b2[s.j]
           Upto(end) == Append(s.out, [m EXCEPT !.x1 = s.x, !.x2 = end])
           Past(out) == [s EXCEPT !.i = @ + 1, !.out = out,
                                  !.x = IF s.i < Len(b1) THEN b1[s.i + 1].x1 ELSE @]
           Beyond(out) == IF b.x2 >= m.x2 THEN Past(out)
                          ELSE [s EXCEPT !.j = @ + 1, !.out = out, !.x = b.x2]
       IN IF s.j > Len(b2) THEN Past(Upto(m.x2))
          ELSE CASE b.x2 <= s.x -> [s EXCEPT !.j = @ + 1]
                 [] b.x2 > s.x /\ b.x1 <= s.x -> Beyond(s.out)
                 [] b.x2 > s.x /\ b.x1 > s.x /\ b.x1 < m.x2 -> Beyond(Upto(b.x1))
                 [] b.x2 > s.x /\ b.x1 > s.x /\ b.x1 >= m.x2 ->
                      Past(IF m.x2 > s.x THEN Upto(m.x2) ELSE s.out)
SubtractO(b1, b2) ==
  LET after[n \in Nat] == IF n = 0 THEN [i |-> 1, j |-> 1, x |-> b1[1].x1, out |-> <<>>]
                                   ELSE SubtractTurn(b1, b2, after[n - 1])
  IN after[Len(b1) + Len(b2)].out

OverlapBand(op, b1, b2) ==
  CASE op = "intersect" -> IntersectO(b1, b2)
    [] op = "union" -> UnionO(b1, b2)
    [] op = "subtract" -> SubtractO(b1, b2)

(* appendNon1 and appendNon2: does a band of one region alone stay.        *)
Keeps1(op) == op \in {"union", "subtract"}
Keeps2(op) == op = "union"

(* One turn: the rows down to the nearer bottom of the two bands, those of *)
(* one band alone and those of both.                                       *)
SweepTurn(op, r1, r2, s) ==
  IF s.i > Len(r1) \/ s.j > Len(r2) THEN s
  ELSE LET b == r1[s.i]
           c == r2[s.j]
           ytop == Max2(b.y1, c.y1)
           bottom == Min2(b.y2, c.y2)
           Alone(r, i) ==
             LET top == Max2(r[i].y1, s.ybot)
                 bot == Min2(r[i].y2, ytop)
             IN IF top # bot THEN Coalesce(s.out, Clip(r, i, top, bot)) ELSE s.out
           above == CASE b.y1 < c.y1 /\ Keeps1(op) -> Alone(r1, s.i)
                      [] c.y1 < b.y1 /\ Keeps2(op) -> Alone(r2, s.j)
                      [] OTHER -> s.out
       IN [i |-> IF b.y2 = bottom THEN BandEnd(r1, s.i) + 1 ELSE s.i,
           j |-> IF c.y2 = bottom THEN BandEnd(r2, s.j) + 1 ELSE s.j,
           ybot |-> bottom,
           out |-> IF bottom > ytop
                   THEN Coalesce(above, OverlapBand(op, Clip(r1, s.i, ytop, bottom),
                                                        Clip(r2, s.j, ytop, bottom)))
                   ELSE above]

(* What is left of one region when the other has ended: its first band may *)
(* coalesce, the others are as they were.                                  *)
Leftover(r, i, s) ==
  Coalesce(s.out, Clip(r, i, Max2(r[i].y1, s.ybot), r[i].y2)).boxes
    \o SubSeq(r, BandEnd(r, i) + 1, Len(r))

Sweep(op, r1, r2) ==
  LET start == [i |-> 1, j |-> 1, ybot |-> Min2(r1[1].y1, r2[1].y1),
                out |-> [boxes |-> <<>>, prev |-> 0]]
      after[n \in Nat] == IF n = 0 THEN start ELSE SweepTurn(op, r1, r2, after[n - 1])
  IN after[Len(r1) + Len(r2)]

RegionOp(op, reg1, reg2) ==
  LET r1 == reg1.boxes
      r2 == reg2.boxes
      end == Sweep(op, r1, r2)
  IN CASE end.i <= Len(r1) /\ Keeps1(op) -> Leftover(r1, end.i, end)
       [] end.j <= Len(r2) /\ Keeps2(op) -> Leftover(r2, end.j, end)
       [] OTHER -> end.out.boxes

Intersect(dst, r1, r2) ==
  CASE IsNil(r1) \/ IsNil(r2) \/ ~Overlap(r1.extents, r2.extents) -> Emptied(dst)
    [] OTHER ->
       CASE IsBox(r1) /\ IsBox(r2) -> RegionInit(Common(r1.extents, r2.extents))
         [] IsBox(r2) /\ ~IsBox(r1) /\ Subsumes(r2.extents, r1.extents) -> r1
         [] IsBox(r1) /\ ~IsBox(r2) /\ Subsumes(r1.extents, r2.extents) -> r2
         [] OTHER -> SetExtents(dst, RegionOp("intersect", r1, r2))

Union(r1, r2) ==
  CASE IsNil(r1) -> r2
    [] IsNil(r2) /\ ~IsNil(r1) -> r1
    [] ~IsNil(r1) /\ ~IsNil(r2) ->
       CASE IsBox(r1) /\ Subsumes(r1.extents, r2.extents) -> r1
         [] IsBox(r2) /\ Subsumes(r2.extents, r1.extents) -> r2
         [] OTHER -> Region(Hull(r1.extents, r2.extents), RegionOp("union", r1, r2))

Subtract(r1, r2) ==
  IF IsNil(r1) \/ IsNil(r2) \/ ~Overlap(r1.extents, r2.extents) THEN r1
  ELSE SetExtents(r1, RegionOp("subtract", r1, r2))

-----------------------------------------------------------------------------
(*                    What the server does with them                       *)

WholeScreen == RegionInit(Box(0, 0, Width, Height))

BandInit ==
  /\ modified = WholeScreen
  /\ requested = NullRegion
  /\ update = NullRegion
  /\ requests = 0

(* refreshCallback, for one rectangle.                                     *)
Damage(b) ==
  /\ modified' = Union(modified, SafeRegionInit(b))
  /\ update' = NullRegion
  /\ UNCHANGED <<requested, requests>>

(* FramebufferUpdateRequest of a client whose scalingFactor is 1.          *)
UpdateRequest(b, incremental) ==
  /\ requests < MaxRequests
  /\ requested' = Union(requested, SafeRegionInit(b))
  /\ modified' = IF incremental THEN modified ELSE Union(modified, SafeRegionInit(b))
  /\ requests' = requests + 1
  /\ update' = NullRegion

(* clientOutput takes what it is going to send out of modifiedRegion.      *)
Select ==
  LET chosen == Intersect(NullRegion, modified, requested)
  IN /\ ~IsNil(requested)
     /\ update' = chosen
     /\ modified' = Subtract(modified, chosen)
     /\ requested' = NullRegion
     /\ requests' = 0

(* rfbCheckForScreenResolutionChange, for a client that follows it.        *)
ScreenChanged ==
  /\ modified' = WholeScreen
  /\ update' = NullRegion
  /\ UNCHANGED <<requested, requests>>

(* The boxes of the screen, and two that are empty in one direction.       *)
Boxes ==
  {b \in {Box(x1, y1, x2, y2) : x1, x2 \in 0 .. Width, y1, y2 \in 0 .. Height} :
     b.x1 < b.x2 /\ b.y1 < b.y2}
  \cup {Box(1, 0, 1, Height), Box(0, 1, Width, 1)}

BandNext ==
  \/ \E b \in Boxes : Damage(b)
  \/ \E b \in RequestBoxes \cap Boxes, incremental \in BOOLEAN : UpdateRequest(b, incremental)
  \/ Select
  \/ ScreenChanged

BandSpec == BandInit /\ [][BandNext]_bandVars

-----------------------------------------------------------------------------
(*                              Properties                                 *)

PixelsOf(r) ==
  UNION {(b.x1 .. b.x2 - 1) \X (b.y1 .. b.y2 - 1) : b \in {r.boxes[i] : i \in DOMAIN r.boxes}}

(* The boxes are in order and do not overlap or touch within a band; of    *)
(* two bands that meet, the boxes differ; the extents are tight.  It is    *)
(* what miregion.c's header promises and what EXTENTCHECK, SUBSUMES and    *)
(* REGION_NOTEMPTY rely on.                                                *)
Banded(boxes) ==
  /\ \A i \in DOMAIN boxes : boxes[i].x1 < boxes[i].x2 /\ boxes[i].y1 < boxes[i].y2
  /\ \A i \in 1 .. Len(boxes) - 1 :
       LET b == boxes[i]
           c == boxes[i + 1]
       IN \/ b.y1 = c.y1 /\ b.y2 = c.y2 /\ b.x2 < c.x1
          \/ b.y2 <= c.y1
BandAt(boxes, y) == {<<boxes[i].x1, boxes[i].x2>> : i \in {k \in DOMAIN boxes : boxes[k].y1 = y}}
Coalesced(boxes) ==
  \A i \in DOMAIN boxes :
    (\E j \in DOMAIN boxes : boxes[j].y1 = boxes[i].y2)
      => BandAt(boxes, boxes[i].y2) # BandAt(boxes, boxes[i].y1)
Tight(r) ==
  /\ \A i \in DOMAIN r.boxes : Subsumes(r.extents, r.boxes[i])
  /\ \A side \in {"x1", "y1", "x2", "y2"} :
       r.boxes # <<>> => \E i \in DOMAIN r.boxes : r.boxes[i][side] = r.extents[side]

(* The regions stay in the form all of miregion.c takes for granted.       *)
CanonicalForm ==
  \A r \in {modified, requested, update} : Banded(r.boxes) /\ Coalesced(r.boxes) /\ Tight(r)

(* No damage is lost or invented on the way through unions, intersections  *)
(* and subtractions of boxes: what the server keeps are the sets of pixels *)
(* it is meant to keep (and UpdatePipeline takes regions to be).           *)
Areas == {PixelsOf(SafeRegionInit(b)) : b \in Boxes}
Sets == INSTANCE PixelSets WITH Screen <- PixelsOf(WholeScreen),
                                damaged <- PixelsOf(modified),
                                wanted <- PixelsOf(requested),
                                chosen <- PixelsOf(update)
ImplementsSets == Sets!PixelSpec
=============================================================================
