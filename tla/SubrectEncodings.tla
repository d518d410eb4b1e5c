-------------------------- MODULE SubrectEncodings --------------------------
(***************************************************************************)
(* The encodings that describe a picture as a background overwritten by    *)
(* rectangles of one colour (OSXvnc-server/hextile.c, rre.c, corre.c;      *)
(* zlibhex.c repeats hextile.c and compresses what comes out).             *)
(*                                                                         *)
(* Hextile sends a rectangle as a sequence of tiles and leaves a colour    *)
(* out when the client remembers it from an earlier tile: the encoder's bg *)
(* and fg have to keep step with a memory it does not see.  RRE and CoRRE  *)
(* send a rectangle at once, through buffers that are static variables of  *)
(* rre.c and corre.c, with the length of what is in them: every client's   *)
(* thread uses them, under no lock.                                        *)
(*                                                                         *)
(* A picture is a function from pixels <<x, y>> to colours.                *)
(***************************************************************************)
EXTENDS Integers, Sequences, FiniteSets, FiniteSetsExt

CONSTANTS
  Clients,
  TileSizes,      \* the <<w, h>> of tiles, of which those at the edge are smaller
  RRESizes,       \* the <<w, h>> of the rectangles sent in RRE
  Colours,
  PixelSizes,     \* bpp / 8 of the formats that the clients ask for
  RectangleSize   \* sz_rfbRectangle or sz_rfbCoRRERectangle

ASSUME EncodingsAssumption ==
  /\ TileSizes \cup RRESizes \subseteq (Nat \ {0}) \X (Nat \ {0})
  /\ PixelSizes \subseteq {1, 2, 4}
  /\ RectangleSize \in {4, 8}

VARIABLES
  at,          \* what the client's output thread does next: "tiles" of a rectangle,
               \* or "translate", "encode", "send" a rectangle in RRE
  bytes,       \* bpp / 8 of the client's format
  bg, fg, validBg, validFg,  \* sendHextiles' variables
  seenBg, seenFg,            \* the colours the client remembers
  before,      \* rreBeforeBuf, and whose thread wrote to it last
  after,       \* rreAfterBuf up to rreAfterBufLen
  nSubrects,   \* the count that subrectEncode returned
  source,      \* the rectangle that was read for RRE
  arrived,     \* the last picture that the client drew is what was read
  roomy        \* it took no more bytes than there is room for

hextileVars == <<bg, fg, validBg, validFg, seenBg, seenFg>>
rreVars == <<before, after, nSubrects, source>>
shownVars == <<arrived, roomy>>
vars == <<at, bytes, hextileVars, rreVars, shownVars>>

Pictures(size) == [(0..size[1] - 1) \X (0..size[2] - 1) -> Colours]
NoPicture == <<>>
NoColour == "none"
Nobody == "none"

-----------------------------------------------------------------------------
(* The pixels in the order of the loops over y and x.                      *)
WidthOf(t) == 1 + Max({p[1] : p \in DOMAIN t})
HeightOf(t) == 1 + Max({p[2] : p \in DOMAIN t})
SizeOf(t) == WidthOf(t) * HeightOf(t)
Scan(t) == [i \in 1..SizeOf(t) |-> <<(i - 1) % WidthOf(t), (i - 1) \div WidthOf(t)>>]

(* testColours: the colours found first and second are counted up to a     *)
(* third one.                                                              *)
TestColours(t) ==
  LET px(i) == t[Scan(t)[i]]
      all == 1..SizeOf(t)
      colour1 == px(1)
      second == {i \in all : px(i) # colour1}
      solid == second = {}
      colour2 == IF solid THEN NoColour ELSE px(Min(second))
      third == {i \in all : px(i) \notin {colour1, colour2}}
      counted == IF third = {} THEN all ELSE 1..Min(third)
      n(colour) == Cardinality({i \in counted : px(i) = colour})
      more1 == n(colour1) > n(colour2)
  IN [solid |-> solid, mono |-> third = {},
      bg |-> IF more1 THEN colour1 ELSE colour2,
      fg |-> IF more1 THEN colour2 ELSE colour1]

(* getBgColour: the most frequent colour, of several the one that got to   *)
(* the number first; where a pixel has more than a byte, the first pixel.  *)
GetBgColour(t, b) ==
  LET upTo(i) == Cardinality({j \in 1..i : t[Scan(t)[j]] = t[Scan(t)[i]]})
      most == Max({upTo(i) : i \in 1..SizeOf(t)})
  IN IF b > 1 THEN t[<<0, 0>>]
     ELSE t[Scan(t)[Min({i \in 1..SizeOf(t) : upTo(i) = most})]]

(* The biggest horizontal or vertical rectangle of one colour whose corner *)
(* is x, y: the row's run of the colour, as far down as it is no shorter,  *)
(* or the column's, as wide as its shortest row.                           *)
Corner(t, x, y) ==
  LET colour == t[<<x, y>>]
      run(j) == Max({i \in x..WidthOf(t) - 1 : \A k \in x..i : t[<<k, j>>] = colour})
      vy == Max({j \in y..HeightOf(t) - 1 : \A k \in y..j : t[<<x, k>>] = colour})
      vx == Min({run(j) : j \in y..vy})
      hx == run(y)
      hy == Max({j \in y..vy : \A k \in y..j : run(k) >= hx})
      horizontal == [x |-> x, y |-> y, w |-> hx - x + 1, h |-> hy - y + 1, colour |-> colour]
      vertical   == [x |-> x, y |-> y, w |-> vx - x + 1, h |-> vy - y + 1, colour |-> colour]
  IN IF horizontal.w * horizontal.h > vertical.w * vertical.h THEN horizontal ELSE vertical

Inside(p, r) == p[1] \in r.x .. r.x + r.w - 1 /\ p[2] \in r.y .. r.y + r.h - 1

Fill(t, r, colour) == [p \in DOMAIN t |-> IF Inside(p, r) THEN colour ELSE t[p]]

(* newLen > w * h * bpp / 8: raw data would be shorter.                    *)
TooLargeNever(newLen, t, b) == FALSE
TooLarge(newLen, t, b) == newLen > SizeOf(t) * b

(* subrectEncode: one pass over the pixels.  A rectangle that was found is  *)
(* marked as done with the background; the pass gives up when the          *)
(* rectangles would take more room than the pixels.                        *)
Visit(t, b, background, cost, s, p) ==
  LET r == Corner(s.data, p[1], p[2]) IN
  IF ~s.fits \/ s.data[p] = background THEN s
  ELSE IF TooLarge(s.len + cost, t, b) THEN [s EXCEPT !.fits = FALSE]
  ELSE [data |-> Fill(s.data, r, background), subs |-> Append(s.subs, r),
        len |-> s.len + cost, fits |-> TRUE]

SubrectEncode(t, b, background, start, cost) ==
  LET pass[i \in 0..SizeOf(t)] ==
        IF i = 0 THEN [data |-> t, subs |-> <<>>, len |-> start, fits |-> TRUE]
        ELSE Visit(t, b, background, cost, pass[i - 1], Scan(t)[i])
  IN pass[SizeOf(t)]

(* The client: the background, then the rectangles on it.                  *)
Draw(size, background, subs) ==
  LET drawn[i \in 0..Len(subs)] ==
        IF i = 0 THEN [p \in (0..size[1] - 1) \X (0..size[2] - 1) |-> background]
        ELSE Fill(drawn[i - 1], subs[i], subs[i].colour)
  IN drawn[Len(subs)]

Size(t) == <<WidthOf(t), HeightOf(t)>>

-----------------------------------------------------------------------------
Init ==
  /\ at \in [Clients -> {"tiles", "translate"}]
  /\ bytes \in [Clients -> PixelSizes]
  /\ bg = [c \in Clients |-> NoColour] /\ fg = [c \in Clients |-> NoColour]
  /\ validBg = [c \in Clients |-> FALSE] /\ validFg = [c \in Clients |-> FALSE]
  /\ seenBg = [c \in Clients |-> NoColour] /\ seenFg = [c \in Clients |-> NoColour]
  /\ before = [by |-> Nobody, data |-> NoPicture]
  /\ after = [bytes |-> 0, bg |-> NoColour, subs |-> <<>>]
  /\ nSubrects = [c \in Clients |-> 0]
  /\ source = [c \in Clients |-> NoPicture]
  /\ arrived = [c \in Clients |-> TRUE]
  /\ roomy = [c \in Clients |-> TRUE]

(* The client gets what t looks like, in n bytes where there is room for   *)
(* room, and draws seen.                                                   *)
Shows(c, t, seen, n, room) ==
  /\ arrived' = [arrived EXCEPT ![c] = seen = t]
  /\ roomy' = [roomy EXCEPT ![c] = n <= room]

RawSize(c, t) == SizeOf(t) * bytes[c]

(* sendHextiles sends what it has when the buffer could not take a byte,   *)
(* two colours and the pixels.                                             *)
TileRoom(c, t) == 1 + 2 * bytes[c] + RawSize(c, t)

(* The next rectangle, perhaps in another format.  sendHextiles starts     *)
(* with variables of its own, and the client remembers no colour from one  *)
(* rectangle to the next.                                                  *)
NewRectangle(c, b) ==
  /\ at[c] \in {"tiles", "translate"}
  /\ bytes' = [bytes EXCEPT ![c] = b]
  /\ bg' = [bg EXCEPT ![c] = NoColour]
  /\ fg' = [fg EXCEPT ![c] = NoColour]
  /\ validBg' = [validBg EXCEPT ![c] = FALSE]
  /\ validFg' = [validFg EXCEPT ![c] = FALSE]
  /\ seenBg' = [seenBg EXCEPT ![c] = NoColour]
  /\ seenFg' = [seenFg EXCEPT ![c] = NoColour]
  /\ UNCHANGED <<at, rreVars, shownVars>>

Tiles == UNION {Pictures(size) : size \in TileSizes}

(* What testColours says of each tile, and the rectangles that it is coded *)
(* as in each format.                                                      *)
Test == [t \in Tiles |-> TestColours(t)]

Code ==
  [b \in PixelSizes |-> [t \in Tiles |->
     SubrectEncode(t, b, Test[t].bg, 1, IF Test[t].mono THEN 2 ELSE b + 2)]]

SpecifiesBg(c, test) == ~validBg[c] \/ test.bg # bg[c]
SpecifiesFg(c, test) == ~test.solid /\ test.mono /\ (~validFg[c] \/ test.fg # fg[c])

ColourBytes(c, test) ==
  (IF SpecifiesBg(c, test) THEN bytes[c] ELSE 0)
  + (IF SpecifiesFg(c, test) THEN bytes[c] ELSE 0)

(* The client's side of a tile that is not raw: a colour that is not       *)
(* specified is that of the last tile, and rectangles without a colour of  *)
(* their own have the foreground's.                                        *)
ClientBg(c, test) == IF SpecifiesBg(c, test) THEN test.bg ELSE seenBg[c]
ClientFg(c, test) == IF SpecifiesFg(c, test) THEN test.fg ELSE seenFg[c]

ClientPicture(c, t, test, subs) ==
  Draw(Size(t), ClientBg(c, test),
       [i \in DOMAIN subs |->
          IF test.mono THEN [subs[i] EXCEPT !.colour = ClientFg(c, test)] ELSE subs[i]])

(* One turn of sendHextiles for a tile that shows t, coded as rectangles,  *)
(* of which a solid tile has none.  After coloured rectangles the client   *)
(* remembers no foreground.                                                *)
SendTile(c, t) ==
  LET test == Test[t]
      code == Code[bytes[c]][t]
      subs == IF test.solid THEN <<>> ELSE code.subs
  IN /\ at[c] = "tiles"
     /\ test.solid \/ code.fits
     /\ validBg' = [validBg EXCEPT ![c] = TRUE]
     /\ bg' = [bg EXCEPT ![c] = test.bg]
     /\ validFg' = [validFg EXCEPT ![c] = IF test.solid THEN @ ELSE test.mono]
     /\ fg' = [fg EXCEPT ![c] = IF ~test.solid /\ test.mono THEN test.fg ELSE @]
     /\ seenBg' = [seenBg EXCEPT ![c] = ClientBg(c, test)]
     /\ seenFg' = [seenFg EXCEPT ![c] =
                     IF test.solid \/ test.mono THEN ClientFg(c, test) ELSE NoColour]
     /\ Shows(c, t, ClientPicture(c, t, test, subs),
              1 + ColourBytes(c, test) + (IF test.solid THEN 0 ELSE code.len),
              TileRoom(c, t))
     /\ UNCHANGED <<at, bytes, rreVars>>

SendRawTileKeepsBg(c, t) ==
  LET test == Test[t] IN
  /\ at[c] = "tiles"
  /\ ~test.solid /\ ~Code[bytes[c]][t].fits
  /\ bg' = [bg EXCEPT ![c] = test.bg]
  /\ validBg' = [validBg EXCEPT ![c] = TRUE]
  /\ validFg' = [validFg EXCEPT ![c] = FALSE]
  /\ seenBg' = [seenBg EXCEPT ![c] = NoColour]
  /\ seenFg' = [seenFg EXCEPT ![c] = NoColour]
  /\ Shows(c, t, t, 1 + RawSize(c, t), TileRoom(c, t))
  /\ UNCHANGED <<at, bytes, fg, rreVars>>

(* The code of the tile is too large: the pixels are read again, whatever  *)
(* they show by now, and sent as they are.  The client's colours are       *)
(* undefined after a raw tile.                                             *)
SendRawTile(c, t) ==
  LET test == Test[t] IN
  /\ at[c] = "tiles"
  /\ ~test.solid /\ ~Code[bytes[c]][t].fits
  /\ bg' = [bg EXCEPT ![c] = test.bg]
  /\ fg' = [fg EXCEPT ![c] = IF test.mono THEN test.fg ELSE @]
  /\ validBg' = [validBg EXCEPT ![c] = FALSE]
  /\ validFg' = [validFg EXCEPT ![c] = FALSE]
  /\ seenBg' = [seenBg EXCEPT ![c] = NoColour]
  /\ seenFg' = [seenFg EXCEPT ![c] = NoColour]
  /\ Shows(c, t, t, 1 + RawSize(c, t), TileRoom(c, t))
  /\ UNCHANGED <<at, bytes, rreVars>>

-----------------------------------------------------------------------------
(* rfbSendRectEncodingRRE: the rectangle is translated into rreBeforeBuf,  *)
RRERectangles == UNION {Pictures(size) : size \in RRESizes}

RRETranslate(c, t) ==
  /\ at[c] = "translate"
  /\ source' = [source EXCEPT ![c] = t]
  /\ before' = [by |-> c, data |-> t]
  /\ at' = [at EXCEPT ![c] = "encode"]
  /\ UNCHANGED <<bytes, hextileVars, after, nSubrects, shownVars>>

(* encoded from there into rreAfterBuf, of which a pass that gives up has  *)
(* filled a part.  When another client's thread has written to             *)
(* rreBeforeBuf since, for a rectangle of another size and in another      *)
(* format, its bytes can be any picture;                                   *)
RREEncode(c) ==
  /\ at[c] = "encode"
  /\ \E t \in Pictures(Size(source[c])) :
       LET background == GetBgColour(t, bytes[c])
           code == SubrectEncode(t, bytes[c], background, bytes[c], bytes[c] + RectangleSize)
       IN /\ before.by = c => t = before.data
          /\ before' = [by |-> c, data |-> code.data]
          /\ after' = [bytes |-> bytes[c], bg |-> background, subs |-> code.subs]
          /\ nSubrects' = [nSubrects EXCEPT ![c] = IF code.fits THEN Len(code.subs) ELSE -1]
  /\ at' = [at EXCEPT ![c] = "send"]
  /\ UNCHANGED <<bytes, hextileVars, source, shownVars>>

(* rreAfterBufLen, as the encoder that ran last has left it.               *)
AfterBufLen == after.bytes + Len(after.subs) * (after.bytes + RectangleSize)

(* The client takes its own count of rectangles in its own format: it is   *)
(* out of step when the buffer holds another number, or another format.    *)
ClientRectangle(c) ==
  IF after.bytes = bytes[c] /\ Len(after.subs) = nSubrects[c]
  THEN Draw(Size(source[c]), after.bg, after.subs)
  ELSE NoPicture

(* and sent up to rreAfterBufLen after the count, unless it was too large: *)
(* then the framebuffer is sent as it is.                                  *)
RRESend(c) ==
  /\ at[c] = "send"
  /\ IF nSubrects[c] < 0
     THEN Shows(c, source[c], source[c], RawSize(c, source[c]), RawSize(c, source[c]))
     ELSE Shows(c, source[c], ClientRectangle(c), AfterBufLen, RawSize(c, source[c]))
  /\ source' = [source EXCEPT ![c] = NoPicture]
  /\ at' = [at EXCEPT ![c] = "translate"]
  /\ UNCHANGED <<bytes, hextileVars, before, after, nSubrects>>

Next ==
  \/ \E c \in Clients, b \in PixelSizes : NewRectangle(c, b)
  \/ \E c \in Clients, t \in Tiles : SendTile(c, t)
  \/ \E c \in Clients, t \in Tiles : SendRawTile(c, t)
  \/ \E c \in Clients, t \in RRERectangles : RRETranslate(c, t)
  \/ \E c \in Clients : RREEncode(c)
  \/ \E c \in Clients : RRESend(c)

Spec == Init /\ [][Next]_vars

-----------------------------------------------------------------------------
(* What the client draws is what was read from the framebuffer: after any  *)
(* sequence of solid, two-coloured, coloured and raw tiles no colour is    *)
(* left out that the client does not remember, and the rectangles found    *)
(* cover everything that is not background, each in its colour.            *)
PictureArrives == \A c \in Clients : arrived[c]

(* A tile never takes more than the room that sendHextiles makes for it    *)
(* before it begins: a byte, two colours and its pixels.  A rectangle in   *)
(* RRE takes no more than its pixels: "If the RRE encoded version is larger *)
(* than the raw data [...] raw encoding is used instead" (rre.c 35).      *)
RoomIsEnough == \A c \in Clients : roomy[c]

(* At most one client is sent RRE or CoRRE.                                *)
OneInRRE == \A c, d \in Clients : at[c] # "tiles" /\ at[d] # "tiles" => c = d

(* "rreBeforeBuf contains pixel data in the client's format" (rre.c 34):   *)
(* of this client, when several are sent to at once.                       *)
BufferIsOwn == \A c \in Clients : at[c] = "encode" => before.data = source[c]
=============================================================================
