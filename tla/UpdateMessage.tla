---------------------------- MODULE UpdateMessage ----------------------------
(***************************************************************************)
(* One FramebufferUpdate message (OSXvnc-server/rfbserver.c,               *)
(* rfbSendFramebufferUpdate; corre.c, zlib.c, tight.c, mousecursor.c).     *)
(*                                                                         *)
(* The header announces a number of rectangles before any is encoded.  The *)
(* encodings then cut the region's rectangles into the ones they send: the *)
(* number was computed by formulas, the cutting is done by loops and       *)
(* recursion, and the two have to agree or the client loses its place in   *)
(* the stream.  Tight looks for areas of one colour first, in a            *)
(* framebuffer that applications go on drawing into: what it finds may be  *)
(* anything, and the number is left open when the client knows LastRect.   *)
(*                                                                         *)
(* A rectangle is a record x, y, w, h; the calls that are still to be made *)
(* for it, with their arguments, are the frames of the stack.              *)
(***************************************************************************)
EXTENDS Integers, Sequences, FiniteSets

CONSTANTS
  Width, Height,    \* rfbScreen.width, rfbScreen.height
  Regions,          \* the regions that are sent, as sequences of rectangles
  Encodings,        \* the clients' preferred encodings: "CoRRE", "Zlib", "Tight",
                    \* "plain" for those that send a rectangle as it is
  Scales,           \* the clients' scaling factors
  CorreMax,         \* cl->correMaxWidth and cl->correMaxHeight
  ZlibMaxRect,      \* ZLIB_MAX_RECT_SIZE
  MaxRectSize, MaxRectWidth,  \* the client's row of tightConf
  MinSplit,         \* MIN_SPLIT_RECT_SIZE
  MinSolid,         \* MIN_SOLID_SUBRECT_SIZE
  Tile              \* MAX_SPLIT_TILE_SIZE

Boxes == [x : 0..Width - 1, y : 0..Height - 1, w : 1..Width, h : 1..Height]

Pixels(b) == (b.x .. b.x + b.w - 1) \X (b.y .. b.y + b.h - 1)

(* The rectangles of a region lie on the screen and do not overlap; every  *)
(* row of tightConf leaves the height of a tile to a rectangle.            *)
ASSUME MessageAssumption ==
  /\ Width \in Nat /\ Height \in Nat
  /\ \A r \in Regions :
       /\ r \in Seq(Boxes)
       /\ \A i \in DOMAIN r : Pixels(r[i]) \subseteq (0..Width - 1) \X (0..Height - 1)
       /\ \A i, j \in DOMAIN r : i # j => Pixels(r[i]) \cap Pixels(r[j]) = {}
  /\ Encodings \subseteq {"CoRRE", "Zlib", "Tight", "plain"}
  /\ Scales \subseteq Nat \ {0}
  /\ {CorreMax, ZlibMaxRect, MinSplit, MinSolid, Tile, MaxRectWidth} \subseteq Nat \ {0}
  /\ MaxRectSize \in Nat /\ MaxRectSize \div MaxRectWidth >= Tile

VARIABLES
  phase,     \* "idle", "cursor", "position", "rects", "closed"
  encoding,  \* cl->preferredEncoding
  lastRect,  \* cl->enableLastRectEncoding
  scale,     \* cl->scalingFactor
  cursor,    \* the shape that is due: "none", "fits", "overflows" the buffer, "big"
  position,  \* sendCursorPositionEncoding
  count,     \* nUpdateRegionRects
  header,    \* nRects as the client gets to see it
  flushed,   \* the header has left updateBuf
  region,    \* updateRegion
  todo,      \* its rectangles the loop has not come to
  stack,     \* the calls still to be made for the present one, the next one first
  sent,      \* how many rectangles were encoded, LastRect excluded
  covered    \* the pixels in those of the region

clientVars == <<encoding, lastRect, scale, region>>
vars == <<phase, encoding, lastRect, scale, cursor, position, count, header,
          flushed, region, todo, stack, sent, covered>>

-----------------------------------------------------------------------------
Least(a, b) == IF a <= b THEN a ELSE b
Greatest(a, b) == IF a >= b THEN a ELSE b
Total(s) ==
  LET sum[i \in 0..Len(s)] == IF i = 0 THEN 0 ELSE s[i] + sum[i - 1] IN sum[Len(s)]

Area(b) == b.w * b.h
Box(x, y, w, h) == [x |-> x, y |-> y, w |-> w, h |-> h]

(* The first n rows of a rectangle and the rest, its first n columns and   *)
(* the rest.                                                               *)
Upper(b, n) == Box(b.x, b.y, b.w, n)
Lower(b, n) == Box(b.x, b.y + n, b.w, b.h - n)
LeftPart(b, n) == Box(b.x, b.y, n, b.h)
RightPart(b, n) == Box(b.x + n, b.y, b.w - n, b.h)

(* How many pieces of at most n a length is cut into.                      *)
Pieces(length, n) == (length - 1) \div n + 1

(* rfbSendRectEncodingCoRRE splits what is wider or higher than this,      *)
CorreLimits(b) == [w |-> CorreMax, h |-> CorreMax]

(* rfbSendRectEncodingZlib goes by lines, maxLines at a time,              *)
ZlibMaxSize(w) == Greatest(w * 2, ZlibMaxRect)
ZlibLimits(b) == [w |-> b.w, h |-> ZlibMaxSize(b.w) \div b.w]

(* and SendRectSimple by subrectMaxWidth and subrectMaxHeight, if it has   *)
(* to cut at all.                                                          *)
MaxRows(w) == MaxRectSize \div Least(w, MaxRectWidth)
SimpleLimits(b) ==
  IF b.w > MaxRectWidth \/ Area(b) > MaxRectSize
  THEN [w |-> Least(b.w, MaxRectWidth), h |-> MaxRows(b.w)]
  ELSE [w |-> b.w, h |-> b.h]

(* A call that cuts b into pieces of at most limits, row by row.           *)
Cut(b, limits) == [call |-> "cut", box |-> b, limits |-> limits]
Simple(b) == Cut(b, SimpleLimits(b))

(* A call of rfbSendRectEncodingTight, and one that has searched b for     *)
(* areas of one colour up to the tile at dx, dy.                           *)
TightCall(b) == [call |-> "tight", box |-> b]
Search(b, dx, dy) == [call |-> "search", box |-> b, dx |-> dx, dy |-> dy]

(* rfbNumCodedRectsTight; 0 leaves the number open.                        *)
NumCodedRectsTight(last, b) ==
  IF last /\ Area(b) >= MinSplit THEN 0
  ELSE IF b.w > MaxRectWidth \/ Area(b) > MaxRectSize
  THEN Pieces(b.w, MaxRectWidth) * Pieces(b.h, MaxRows(b.w))
  ELSE 1

(* What a rectangle is counted for, by a client's preferred encoding kind  *)
(* and whether it knows LastRect.                                          *)
RectCount(kind, last, b) ==
  CASE kind = "CoRRE" -> Pieces(b.w, CorreMax) * Pieces(b.h, CorreMax)
    [] kind = "Zlib"  -> Pieces(b.h, ZlibMaxSize(b.w) \div b.w)
    [] kind = "Tight" -> NumCodedRectsTight(last, b)
    [] OTHER          -> 1

RectCounts(kind, last, r) == [i \in DOMAIN r |-> RectCount(kind, last, r[i])]

LastRectCount == 65535

-----------------------------------------------------------------------------
Init ==
  /\ phase = "idle"
  /\ encoding \in Encodings
  /\ lastRect \in BOOLEAN
  /\ scale \in Scales
  /\ cursor = "none" /\ position = FALSE
  /\ count = 0 /\ header = 0 /\ flushed = FALSE
  /\ region = <<>> /\ todo = <<>> /\ stack = <<>>
  /\ sent = 0 /\ covered = {}

CountedRects(r) ==
  LET counts == RectCounts(encoding, lastRect, r)
  IN IF encoding = "Tight" /\ \E i \in DOMAIN counts : counts[i] = 0
     THEN LastRectCount
     ELSE Total(counts)

One(condition) == IF condition THEN 1 ELSE 0

(* rfbSendFramebufferUpdate counts, decides about cursor and position and  *)
(* writes the header.  The region is empty when only the cursor is due.    *)
Begin(r, shape, moved) ==
  /\ phase = "idle"
  /\ region' = r
  /\ todo' = r
  /\ LET open == CountedRects(r) = LastRectCount IN
     /\ cursor' = IF open THEN "none" ELSE shape
     /\ position' = (moved /\ ~open)
     /\ count' = IF open THEN LastRectCount
                 ELSE CountedRects(r) + One(shape # "none") + One(moved)
  /\ header' = count' % 65536
  /\ flushed' = FALSE
  /\ stack' = <<>> /\ sent' = 0 /\ covered' = {}
  /\ phase' = "cursor"
  /\ UNCHANGED <<encoding, lastRect, scale>>

SendCursorPushesFirst ==
  /\ phase = "cursor"
  /\ count' = count - One(cursor = "big")
  /\ header' = header
  /\ sent' = sent + One(cursor \in {"fits", "overflows"})
  /\ flushed' = (flushed \/ cursor \in {"overflows", "big"})
  /\ phase' = "position"
  /\ UNCHANGED <<clientVars, cursor, position, todo, stack, covered>>

(* rfbSendRichCursorUpdate: a shape that is too big is not sent and taken  *)
(* back from the count, in updateBuf; one that does not fit behind what is *)
(* in the buffer pushes that out first.                                    *)
SendCursor ==
  /\ phase = "cursor"
  /\ count' = count - One(cursor = "big")
  /\ header' = IF cursor = "big" /\ ~flushed THEN count' % 65536 ELSE header
  /\ sent' = sent + One(cursor \in {"fits", "overflows"})
  /\ flushed' = (flushed \/ cursor = "overflows")
  /\ phase' = "position"
  /\ UNCHANGED <<clientVars, cursor, position, todo, stack, covered>>

(* rfbSendCursorPos always pushes out what is in the buffer.               *)
SendPosition ==
  /\ phase = "position"
  /\ sent' = sent + One(position)
  /\ flushed' = (flushed \/ position)
  /\ phase' = "rects"
  /\ UNCHANGED <<clientVars, cursor, position, count, header, todo, stack, covered>>

ScaledRoundedUp(r) ==
  LET up(n) == (n + scale - 1) \div scale
  IN Box(r.x \div scale, r.y \div scale, up(r.w), up(r.h))

(* CopyScalingRect: the rectangle of the scaled buffer that r is copied    *)
(* to.                                                                     *)
Scaled(r) ==
  LET up(n) == (n + scale - 1) \div scale
      x == Least(r.x \div scale, up(Width))
      y == Least(r.y \div scale, up(Height))
  IN Box(x, y, Least(up(r.w) + 1, up(Width) - x), Least(up(r.h) + 1, up(Height) - y))

ToSend(r) == IF scale = 1 THEN r ELSE Scaled(r)

(* What the loop calls for the next rectangle of the region.               *)
EncoderCall(b) ==
  CASE encoding = "CoRRE" -> Cut(b, CorreLimits(b))
    [] encoding = "Zlib"  -> Cut(b, ZlibLimits(b))
    [] encoding = "Tight" -> TightCall(b)
    [] OTHER              -> Cut(b, [w |-> b.w, h |-> b.h])

NextRect ==
  /\ phase = "rects"
  /\ stack = <<>>
  /\ todo # <<>>
  /\ stack' = <<EncoderCall(ToSend(Head(todo)))>>
  /\ todo' = Tail(todo)
  /\ UNCHANGED <<clientVars, phase, cursor, position, count, header, flushed,
                 sent, covered>>

(* The call on top of the stack is replaced by those it makes.             *)
Top == Head(stack)
Calls(call) == phase = "rects" /\ stack # <<>> /\ Top.call = call
Becomes(frames) ==
  /\ stack' = frames \o Tail(stack)
  /\ UNCHANGED <<clientVars, phase, cursor, position, count, header, flushed,
                 todo, sent, covered>>

(* A band of the limit's height is cut off, the rest follows.              *)
CutBand ==
  /\ Calls("cut")
  /\ LET b == Top.box
         l == Top.limits
     IN /\ b.h > l.h
        /\ Becomes(<<Cut(Upper(b, l.h), l), Cut(Lower(b, l.h), l)>>)

(* A piece of a band is encoded and takes its place in updateBuf.  Whether *)
(* it is pushed out does not matter any more: the count is not touched     *)
(* again.                                                                  *)
SendPiece ==
  /\ Calls("cut")
  /\ LET b == Top.box
         l == Top.limits
     IN /\ b.h <= l.h
        /\ stack' = IF b.w > l.w
                    THEN <<Cut(RightPart(b, l.w), l)>> \o Tail(stack)
                    ELSE Tail(stack)
        /\ covered' = covered \cup Pixels(LeftPart(b, Least(b.w, l.w)))
  /\ sent' = sent + 1
  /\ UNCHANGED <<clientVars, phase, cursor, position, count, header, flushed, todo>>

(* rfbSendRectEncodingTight is entered.                                    *)
TightEnter ==
  /\ Calls("tight")
  /\ LET b == Top.box IN
     IF ~lastRect \/ Area(b) < MinSplit
     THEN Becomes(<<Simple(b)>>)
     ELSE Becomes(<<Search(b, b.x, b.y)>>)

(* A row of tiles begins nMaxRows below the rectangle's top or further:    *)
(* the upper part is sent now.                                             *)
UpperTooLarge == Top.dx = Top.box.x /\ Top.dy - Top.box.y >= MaxRows(Top.box.w)

SearchUpper ==
  /\ Calls("search")
  /\ LET b == Top.box
         rows == MaxRows(b.w)
     IN /\ Top.dy < b.y + b.h
        /\ UpperTooLarge
        /\ Becomes(<<Simple(Upper(b, rows)), Search(Lower(b, rows), Top.dx, Top.dy)>>)

SearchNextSameRow ==
  /\ Calls("search")
  /\ LET b == Top.box IN
     /\ Top.dy < b.y + b.h
     /\ ~UpperTooLarge
     /\ IF Top.dx + Tile < b.x + b.w
        THEN Becomes(<<Search(b, Top.dx + Tile, Top.dy)>>)
        ELSE Becomes(<<Search(b, b.x, Top.dy)>>)

(* The tile is not of one colour, or the area found from it is too small.  *)
SearchNext ==
  /\ Calls("search")
  /\ LET b == Top.box IN
     /\ Top.dy < b.y + b.h
     /\ ~UpperTooLarge
     /\ IF Top.dx + Tile < b.x + b.w
        THEN Becomes(<<Search(b, Top.dx + Tile, Top.dy)>>)
        ELSE Becomes(<<Search(b, b.x, Top.dy + Tile)>>)

(* FindBestSolidArea's answers: whole tiles, as far as length goes.        *)
TiledLengths(length) == {n \in 1..length : n % Tile = 0 \/ n = length}

BestSizes(b, dx, dy) ==
  {s \in [w : TiledLengths(b.w - (dx - b.x)), h : TiledLengths(b.h - (dy - b.y))] :
     s.w * s.h = Area(b) \/ s.w * s.h >= MinSolid}

(* ExtendSolidArea's answers: inside b, and around the area found.         *)
Extensions(b, dx, dy, best) ==
  {Box(x, y, x2 - x, y2 - y) :
     x \in b.x..dx, x2 \in dx + best.w .. b.x + b.w,
     y \in b.y..dy, y2 \in dy + best.h .. b.y + b.h}

SolidAreas(b, dx, dy) ==
  UNION {Extensions(b, dx, dy, best) : best \in BestSizes(b, dx, dy)}

If(condition, frames) == IF condition THEN frames ELSE <<>>

AroundFullHeight(b, s) ==
     If(s.y # b.y, <<Simple(Upper(b, s.y - b.y))>>)
  \o If(s.x # b.x, <<TightCall(Box(b.x, s.y, s.x - b.x, s.h))>>)
  \o <<Cut(s, [w |-> s.w, h |-> s.h])>>
  \o If(s.x + s.w # b.x + b.w,
        <<TightCall(Box(s.x + s.w, s.y, b.w - (s.x - b.x) - s.w, b.h - (s.y - b.y)))>>)
  \o If(s.y + s.h # b.y + b.h,
        <<TightCall(Lower(b, s.y - b.y + s.h))>>)

AroundUnconditional(b, s) ==
  <<Simple(Upper(b, s.y - b.y)),
    TightCall(Box(b.x, s.y, s.x - b.x, s.h)),
    Cut(s, [w |-> s.w, h |-> s.h]),
    TightCall(Box(s.x + s.w, s.y, b.w - (s.x - b.x) - s.w, s.h)),
    TightCall(Lower(b, s.y - b.y + s.h))>>

(* What is above, left of, right of and below an area s of b.              *)
Around(b, s) ==
     If(s.y # b.y, <<Simple(Upper(b, s.y - b.y))>>)
  \o If(s.x # b.x, <<TightCall(Box(b.x, s.y, s.x - b.x, s.h))>>)
  \o <<Cut(s, [w |-> s.w, h |-> s.h])>>
  \o If(s.x + s.w # b.x + b.w,
        <<TightCall(Box(s.x + s.w, s.y, b.w - (s.x - b.x) - s.w, s.h))>>)
  \o If(s.y + s.h # b.y + b.h,
        <<TightCall(Lower(b, s.y - b.y + s.h))>>)

SearchFound ==
  /\ Calls("search")
  /\ Top.dy < Top.box.y + Top.box.h
  /\ ~UpperTooLarge
  /\ \E s \in SolidAreas(Top.box, Top.dx, Top.dy) : Becomes(Around(Top.box, s))

(* No suitable area was found.                                             *)
SearchEnds ==
  /\ Calls("search")
  /\ Top.dy >= Top.box.y + Top.box.h
  /\ Becomes(<<Simple(Top.box)>>)

(* The marker if the number was left open, and the last push.              *)
End ==
  /\ phase = "rects"
  /\ stack = <<>>
  /\ todo = <<>>
  /\ flushed' = TRUE
  /\ phase' = "idle"
  /\ UNCHANGED <<clientVars, cursor, position, count, header, todo, stack, sent,
                 covered>>

(* rfbSendUpdateBuf fails where it is called: the client is closed, and    *)
(* what was to follow is dropped.                                          *)
WriteFails ==
  /\ phase \in {"cursor", "position", "rects"}
  /\ phase' = "closed"
  /\ UNCHANGED <<clientVars, cursor, position, count, header, flushed, todo, stack,
                 sent, covered>>

(* The record serves another client.                                       *)
NewClient ==
  /\ phase = "closed"
  /\ phase' = "idle"
  /\ cursor' = "none" /\ position' = FALSE
  /\ count' = 0 /\ header' = 0 /\ flushed' = FALSE
  /\ region' = <<>> /\ todo' = <<>> /\ stack' = <<>>
  /\ sent' = 0 /\ covered' = {}
  /\ UNCHANGED <<encoding, lastRect, scale>>

Sends ==
  \/ SendCursor \/ SendPosition \/ NextRect \/ CutBand
  \/ SendPiece
  \/ TightEnter \/ SearchUpper \/ SearchNext
  \/ SearchFound
  \/ SearchEnds \/ End

Next ==
  \/ \E r \in Regions, shape \in {"none", "fits", "overflows", "big"}, moved \in BOOLEAN :
       Begin(r, shape, moved)
  \/ SendCursor
  \/ SendPosition
  \/ NextRect
  \/ CutBand
  \/ SendPiece
  \/ TightEnter
  \/ SearchUpper
  \/ SearchNext
  \/ SearchFound
  \/ SearchEnds
  \/ End
  \/ WriteFails
  \/ NewClient

Spec == Init /\ [][Next]_vars

(* A message is sent by one thread, clientOutput, which goes on.           *)
FairSpec == Spec /\ WF_vars(Sends)

-----------------------------------------------------------------------------
Frames ==
  [call : {"cut"}, box : Boxes, limits : [w : Nat \ {0}, h : Nat \ {0}]]
  \cup [call : {"tight"}, box : Boxes]
  \cup [call : {"search"}, box : Boxes, dx : Nat, dy : Nat]

(* Every variable has its type; in particular no call is made for a        *)
(* rectangle without width or height, whatever the tight search found.     *)
TypeOK ==
  /\ phase \in {"idle", "cursor", "position", "rects", "closed"}
  /\ encoding \in Encodings
  /\ lastRect \in BOOLEAN
  /\ scale \in Scales
  /\ cursor \in {"none", "fits", "overflows", "big"}
  /\ position \in BOOLEAN
  /\ {count, header, sent} \subseteq Nat
  /\ flushed \in BOOLEAN
  /\ region \in Regions \cup {<<>>}
  /\ todo \in Seq(Boxes)
  /\ stack \in Seq(Frames)
  /\ covered \subseteq (0..Width - 1) \X (0..Height - 1)

PixelsOf(boxes) == UNION {Pixels(boxes[i]) : i \in DOMAIN boxes}
StackBoxes == [i \in DOMAIN stack |-> stack[i].box]
TodoBoxes == [i \in DOMAIN todo |-> ToSend(todo[i])]
Disjoint(boxes) ==
  \A i, j \in DOMAIN boxes : i # j => Pixels(boxes[i]) \cap Pixels(boxes[j]) = {}

(* Every pixel of the region is sent once, in one rectangle: what was      *)
(* encoded and what the loops and the recursion have still before them     *)
(* divide the region between them, however the areas of one colour lie and *)
(* change while they are looked for.                                       *)
EveryPixelOnce ==
  scale = 1 =>
    LET left == StackBoxes \o TodoBoxes IN
    /\ Disjoint(left)
    /\ covered \cap PixelsOf(left) = {}
    /\ covered \cup PixelsOf(left) = PixelsOf(region)

(* A client that scales gets every pixel of its smaller picture that a     *)
(* pixel of the region goes into, and none outside that picture.           *)
ScaledRegionArrives ==
  LET picture == (0..(Width + scale - 1) \div scale - 1)
                 \X (0..(Height + scale - 1) \div scale - 1)
      all == covered \cup PixelsOf(StackBoxes \o TodoBoxes)
  IN /\ all \subseteq picture
     /\ \A p \in PixelsOf(region) : <<p[1] \div scale, p[2] \div scale>> \in all

(* The header has 16 bits for the number, and 65535 leaves it open: no     *)
(* region is cut into so many rectangles, with a cursor and a position.    *)
CountsFit ==
  \A r \in Regions, kind \in Encodings, last \in BOOLEAN :
    Total(RectCounts(kind, last, r)) + 2 < LastRectCount

CountIsTrue ==
  IF count = LastRectCount THEN lastRect /\ header = LastRectCount
                           ELSE header = sent

(* The header that reached the client announces the rectangles that follow *)
(* it, cursor and position included, or leaves their number to a LastRect  *)
(* that the client understands.  For a client that scales this holds only  *)
(* if its encoding never cuts a rectangle: what is counted is the          *)
(* rectangle before scaling.                                               *)
CountAgrees == phase = "idle" /\ (scale = 1 \/ encoding = "plain") => CountIsTrue

(* "followed by nRects rectangles" (rfbproto.h 395), for every client.     *)
CountAgreesScaled == phase = "idle" => CountIsTrue

(* The recursion ends: every message that is begun is finished or dropped  *)
(* with the connection.                                                    *)
MessageEnds == phase = "cursor" ~> phase \in {"idle", "closed"}
=============================================================================
