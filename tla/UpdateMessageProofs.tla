------------------------- MODULE UpdateMessageProofs -------------------------
(***************************************************************************)
(* UpdateMessage keeps its promises for every screen, every region, every  *)
(* row of limits and every choice of the tight search: each pixel of the   *)
(* region is sent in one rectangle, the scaled picture is complete, and    *)
(* the header announces as many rectangles as follow it.                   *)
(*                                                                         *)
(* The stack is what makes this an induction: a call is replaced by calls  *)
(* that divide its rectangle between them (Core), and that send as many    *)
(* rectangles as were counted for it (CountInv).  Sums over sequences are  *)
(* recursive functions; what is needed of them follows by induction on a   *)
(* set of numbers, from the well-foundedness of < on Nat.                  *)
(***************************************************************************)
EXTENDS UpdateMessage, SequenceTheorems, WellFoundedInduction, TLAPS

-----------------------------------------------------------------------------
(* A frame's rectangle lies on the screen, and a search looks at a tile of *)
(* the rectangle's columns, in its rows or below them.                     *)
OnScreen == {b \in Boxes : b.x + b.w <= Width /\ b.y + b.h <= Height}

StackFrames ==
  {f \in Frames :
     /\ f.box \in OnScreen
     /\ f.call = "search" =>
          f.box.x <= f.dx /\ f.dx < f.box.x + f.box.w /\ f.box.y <= f.dy}

FrameInv == stack \in Seq(StackFrames) /\ todo \in Seq(OnScreen)

(* Nothing is on the stack before the loop over the rectangles, and        *)
(* nothing is left of the region between two messages.  A shape that may   *)
(* be taken back from the count was counted.                               *)
PhaseInv ==
  /\ phase \in {"idle", "cursor", "position"} => stack = <<>>
  /\ phase = "idle" => todo = <<>>
  /\ phase = "cursor" /\ cursor # "none" => count > 0

ToSendOf(r) == [i \in DOMAIN r |-> ToSend(r[i])]

(* What was encoded and what is left, of the rectangles as they are sent.  *)
Left == StackBoxes \o TodoBoxes

CoverInv == covered \cup PixelsOf(Left) = PixelsOf(ToSendOf(region))

OnceInv == scale = 1 => Disjoint(Left) /\ covered \cap PixelsOf(Left) = {}

(* The inductive invariant of what is sent.                                *)
Core == TypeOK /\ FrameInv /\ PhaseInv /\ CoverInv /\ OnceInv

-----------------------------------------------------------------------------
(* What is counted for the calls on the stack and for the rectangles the   *)
(* loop has not come to.                                                   *)

(* How many rectangles a call sends.                                       *)
FrameCount(f) ==
  IF f.call = "cut"
  THEN Pieces(f.box.w, f.limits.w) * Pieces(f.box.h, f.limits.h)
  ELSE RectCount("Tight", lastRect, f.box)

FrameCounts(s) == [i \in DOMAIN s |-> FrameCount(s[i])]

StackCount == Total(FrameCounts(stack))

TodoCount == Total(RectCounts(encoding, lastRect, todo))

(* What is counted and not yet sent besides the region's rectangles.       *)
Due ==
  CASE phase = "cursor"   -> One(cursor # "none") + One(position)
    [] phase = "position" -> One(position)
    [] OTHER              -> 0

(* A call that sends a number of rectangles known before it is made: a     *)
(* search is none.                                                         *)
Countable(f) == f.call # "search" /\ FrameCount(f) > 0

(* The number was left open, and                                           *)
Open == count = LastRectCount /\ header = LastRectCount /\ lastRect

(* it was not: what was sent and what is still to be sent add up to it.    *)
Counted ==
  /\ count < LastRectCount
  /\ header = count
  /\ phase = "cursor" => ~flushed
  /\ \A i \in DOMAIN stack : Countable(stack[i])
  /\ \A i \in DOMAIN todo : RectCount(encoding, lastRect, todo[i]) > 0
  /\ sent + Due + StackCount + TodoCount = count

(* The inductive invariant of the count.  For a client that scales the     *)
(* count is of other rectangles than those that are sent.                  *)
CountInv ==
  phase # "closed" /\ (scale = 1 \/ encoding = "plain") =>
    (Open /\ (phase = "cursor" => cursor = "none")) \/ Counted

-----------------------------------------------------------------------------
(* Division by positive numbers, and lengths that are cut into pieces.     *)

(* The quotient and the remainder.                                         *)
LEMMA Division ==
  ASSUME NEW n \in Nat, NEW s \in Nat \ {0}
  PROVE  /\ n \div s \in Nat
         /\ s * (n \div s) <= n
         /\ n < s * (n \div s) + s
  OBVIOUS

(* The quotient is the number whose multiple comes next below n.           *)
LEMMA QuotientBelow ==
  ASSUME NEW n \in Nat, NEW s \in Nat \ {0}, NEW q \in Nat, n < s * q + s
  PROVE  n \div s <= q
<1>1. s * (n \div s) < s * (q + 1)
  BY Division
<1>2. n \div s < q + 1
  BY <1>1, Division
<1> QED BY <1>2, Division

(* A number whose multiple is not above n is not above the quotient.       *)
LEMMA QuotientAbove ==
  ASSUME NEW n \in Nat, NEW s \in Nat \ {0}, NEW q \in Nat, s * q <= n
  PROVE  q <= n \div s
<1>1. s * q < s * (n \div s + 1)
  BY Division
<1>2. q < n \div s + 1
  BY <1>1, Division
<1> QED BY <1>2, Division

(* A larger number has no smaller quotient,                                *)
LEMMA QuotientMonotone ==
  ASSUME NEW m \in Nat, NEW n \in Nat, m <= n, NEW s \in Nat \ {0}
  PROVE  m \div s <= n \div s
  BY Division, QuotientAbove

(* nor has a smaller divisor.                                              *)
LEMMA SmallerDivisor ==
  ASSUME NEW n \in Nat, NEW s \in Nat \ {0}, NEW t \in 1..s
  PROVE  n \div s <= n \div t
<1>1. t * (n \div s) <= s * (n \div s)
  BY Division
<1> QED BY <1>1, Division, QuotientAbove

(* Pieces are counted as rfbNumCodedRectsTight and the macros of CoRRE and *)
(* Zlib do: at least one,                                                  *)
LEMMA PiecesType ==
  ASSUME NEW n \in Nat \ {0}, NEW k \in Nat \ {0}
  PROVE  Pieces(n, k) \in Nat \ {0}
<1>1. n - 1 \in Nat
  OBVIOUS
<1> QED BY <1>1, Division DEF Pieces

(* one when the limit is not exceeded,                                     *)
LEMMA PiecesOfShort ==
  ASSUME NEW n \in Nat \ {0}, NEW k \in Nat \ {0}, n <= k
  PROVE  Pieces(n, k) = 1
<1>1. (n - 1) \div k <= 0
  BY QuotientBelow, n - 1 \in Nat, n - 1 < k * 0 + k
<1>2. (n - 1) \div k \in Nat
  BY Division, n - 1 \in Nat
<1> QED BY <1>1, <1>2 DEF Pieces

(* and one more than for what is left when a piece of the limit's length   *)
(* is taken: the loops of the encoders.                                    *)
LEMMA PiecesOfLong ==
  ASSUME NEW n \in Nat \ {0}, NEW k \in Nat \ {0}, n > k
  PROVE  Pieces(n, k) = 1 + Pieces(n - k, k)
<1> DEFINE q == (n - k - 1) \div k
<1>1. n - k - 1 \in Nat /\ n - 1 \in Nat
  OBVIOUS
<1>2. q \in Nat /\ k * q <= n - k - 1 /\ n - k - 1 < k * q + k
  BY <1>1, Division
<1> HIDE DEF q
<1>3. k * (q + 1) <= n - 1 /\ n - 1 < k * (q + 1) + k
  BY <1>2
<1>4. (n - 1) \div k = q + 1
  BY <1>1, <1>2, <1>3, QuotientBelow, QuotientAbove, Division
<1> QED BY <1>2, <1>4 DEF Pieces, q

-----------------------------------------------------------------------------
(* Induction, and the sum of a sequence.                                   *)

(* Every nonempty set of numbers has a least one,                          *)
LEMMA LeastElement ==
  ASSUME NEW T, T \subseteq Nat, T # {}
  PROVE  \E x \in T : \A y \in T : x <= y
<1>1. PICK x \in T : \A y \in T : ~ (<<y, x>> \in OpToRel(<, Nat))
  BY WFMin, NatLessThanWellFounded
<1>2. \A y \in T : ~ (y < x)
  BY <1>1 DEF OpToRel
<1> QED BY <1>2

(* so a set with 0 and every successor has them all.                       *)
LEMMA Induction ==
  ASSUME NEW S, 0 \in S, \A n \in Nat : n \in S => n + 1 \in S
  PROVE  \A n \in Nat : n \in S
<1> SUFFICES ASSUME Nat \ S # {} PROVE FALSE
  OBVIOUS
<1>1. PICK x \in Nat \ S : \A y \in Nat \ S : x <= y
  BY LeastElement
<1>2. x - 1 \in Nat /\ x - 1 \in S
  BY <1>1
<1> QED BY <1>1, <1>2, (x - 1) + 1 = x

(* f adds up the first elements of s.                                      *)
Sums(f, s) ==
  /\ f \in [0..Len(s) -> Nat]
  /\ f[0] = 0
  /\ \A i \in 1..Len(s) : f[i] = s[i] + f[i - 1]

(* The recursive function that Total is defined by exists,                 *)
LEMMA TotalIsSum ==
  ASSUME NEW s \in Seq(Nat)
  PROVE  \E f : Sums(f, s) /\ Total(s) = f[Len(s)]
<1> DEFINE Step(g, i) == IF i = 0 THEN 0 ELSE s[i] + g[i - 1]
          UpTo(n) == {g \in [0..n -> Nat] : g = [i \in 0..n |-> Step(g, i)]}
          S == {n \in Nat : n <= Len(s) => UpTo(n) # {}}
          sum == CHOOSE g : g = [i \in 0..Len(s) |-> Step(g, i)]
<1> HIDE DEF UpTo
<1>1. 0 \in S
  <2>1. [i \in 0..0 |-> 0] \in UpTo(0)
    BY DEF UpTo
  <2> QED BY <2>1
<1>2. ASSUME NEW n \in Nat, n \in S, n + 1 <= Len(s) PROVE UpTo(n + 1) # {}
  <2>0. UpTo(n) # {}
    BY <1>2
  <2>1. PICK g \in UpTo(n) : TRUE
    BY <2>0
  <2> DEFINE h == [i \in 0..n + 1 |-> IF i = n + 1 THEN s[n + 1] + g[n] ELSE g[i]]
  <2>2. h \in [0..n + 1 -> Nat]
    BY <1>2, <2>1 DEF UpTo
  <2>3. ASSUME NEW i \in 0..n + 1 PROVE h[i] = Step(h, i)
    <3>1. CASE i = n + 1
      BY <3>1, <2>1 DEF UpTo
    <3>2. CASE i \in 0..n
      <4>1. g[i] = Step(g, i)
        BY <2>1, <3>2 DEF UpTo
      <4> QED BY <4>1, <3>2
    <3> QED BY <3>1, <3>2
  <2>4. h = [i \in 0..n + 1 |-> Step(h, i)]
    BY <2>3
  <2> QED BY <2>2, <2>4 DEF UpTo
<1>3. \A n \in Nat : n \in S
  <2> HIDE DEF S
  <2>1. \A n \in Nat : n \in S => n + 1 \in S
    <3> SUFFICES ASSUME NEW n \in Nat, n \in S, n + 1 <= Len(s) PROVE UpTo(n + 1) # {}
      BY DEF S
    <3> QED BY <1>2
  <2> QED BY <1>1, <2>1, Induction
<1>4. \E g \in [0..Len(s) -> Nat] : g = [i \in 0..Len(s) |-> Step(g, i)]
  <2>1. Len(s) \in Nat
    BY LenProperties
  <2>2. UpTo(Len(s)) # {}
    BY <2>1, <1>3
  <2> QED BY <2>2 DEF UpTo
<1>5. sum = [i \in 0..Len(s) |-> Step(sum, i)]
  BY <1>4
<1>6. Total(s) = sum[Len(s)]
  BY DEF Total
<1> HIDE DEF sum
<1>7. \A i \in 0..Len(s) : sum[i] = Step(sum, i)
  BY <1>5
<1>8. DOMAIN sum = 0..Len(s) 
  BY <1>5
<1>9. \A i \in 0..Len(s) : sum[i] \in Nat
  <2> DEFINE R == {n \in Nat : n <= Len(s) => sum[n] \in Nat}
  <2>1. 0 \in R
    BY <1>7
  <2>2. ASSUME NEW n \in Nat, n \in R PROVE n + 1 \in R
    BY <2>2, <1>7
  <2>3. \A n \in Nat : n \in R
    <3> HIDE DEF R
    <3> QED BY <2>1, <2>2, Induction
  <2> QED BY <2>3
<1>10. sum = [i \in 0..Len(s) |-> sum[i]]
  BY <1>5
<1>11. sum \in [0..Len(s) -> Nat]
  BY <1>9, <1>10
<1>12. Sums(sum, s)
  BY <1>7, <1>11 DEF Sums
<1> QED BY <1>6, <1>12

(* and there is only one.                                                  *)
LEMMA SumsUnique ==
  ASSUME NEW s \in Seq(Nat), NEW f, NEW g, Sums(f, s), Sums(g, s)
  PROVE  f[Len(s)] = g[Len(s)]
<1> DEFINE S == {n \in Nat : n <= Len(s) => f[n] = g[n]}
<1>1. 0 \in S
  BY DEF Sums
<1>2. ASSUME NEW n \in Nat, n \in S PROVE n + 1 \in S
  BY <1>2 DEF Sums
<1>3. \A n \in Nat : n \in S
  <2> HIDE DEF S
  <2> QED BY <1>1, <1>2, Induction
<1> QED BY <1>3

(* The sum of nothing,                                                     *)
LEMMA TotalOfEmpty == Total(<<>>) = 0
<1>1. PICK f : Sums(f, <<>>) /\ Total(<<>>) = f[Len(<<>>)]
  BY TotalIsSum, EmptySeq
<1> QED BY <1>1 DEF Sums

(* of any numbers,                                                         *)
LEMMA TotalType ==
  ASSUME NEW s \in Seq(Nat)
  PROVE  Total(s) \in Nat
<1>1. PICK f : Sums(f, s) /\ Total(s) = f[Len(s)]
  BY TotalIsSum
<1> QED BY <1>1 DEF Sums

(* of a first element and the rest,                                        *)
LEMMA TotalOfTail ==
  ASSUME NEW s \in Seq(Nat), s # <<>>
  PROVE  Total(s) = Head(s) + Total(Tail(s))
<1> DEFINE t == Tail(s)
<1>1. PICK f : Sums(f, s) /\ Total(s) = f[Len(s)]
  BY TotalIsSum
<1>2. /\ t \in Seq(Nat) /\ Len(t) = Len(s) - 1 /\ Len(t) \in Nat
      /\ \A i \in 1..Len(t) : t[i] = s[i + 1]
      /\ Head(s) = s[1] /\ s[1] \in Nat
  BY HeadTailProperties
<1>3. PICK g : Sums(g, t) /\ Total(t) = g[Len(t)]
  BY TotalIsSum, <1>2
<1> HIDE DEF t
<1> DEFINE h == [i \in 0..Len(s) |-> IF i = 0 THEN 0 ELSE s[1] + g[i - 1]]
<1>4. h \in [0..Len(s) -> Nat]
  BY <1>2, <1>3 DEF Sums
<1>5. ASSUME NEW i \in 1..Len(s) PROVE h[i] = s[i] + h[i - 1]
  <2>1. CASE i = 1
    BY <2>1, <1>2, <1>3 DEF Sums
  <2>2. CASE i # 1
    <3>1. i - 1 \in 1..Len(t) /\ t[i - 1] = s[i] /\ s[i] \in Nat
      BY <2>2, <1>2
    <3>2. g[i - 1] = t[i - 1] + g[(i - 1) - 1] /\ g[(i - 1) - 1] \in Nat
      <4>1. (i - 1) - 1 \in 0..Len(t)
        BY <3>1
      <4> QED BY <3>1, <4>1, <1>3 DEF Sums
    <3> QED BY <3>1, <3>2, <1>2, <2>2
  <2> QED BY <2>1, <2>2
<1>6. Sums(h, s)
  BY <1>4, <1>5 DEF Sums
<1>7. f[Len(s)] = h[Len(s)]
  BY <1>1, <1>6, SumsUnique
<1>8. h[Len(s)] = s[1] + g[Len(t)]
  BY <1>2, Len(s) # 0
<1> QED BY <1>1, <1>2, <1>3, <1>7, <1>8 DEF t

(* of the rest and a first element.                                        *)
LEMMA TotalOfPrepended ==
  ASSUME NEW n \in Nat, NEW s \in Seq(Nat)
  PROVE  Total(<<n>> \o s) = n + Total(s)
<1>1. /\ <<n>> \o s \in Seq(Nat) /\ <<n>> \o s # <<>>
      /\ Head(<<n>> \o s) = n /\ Tail(<<n>> \o s) = s
  OBVIOUS
<1> QED BY <1>1, TotalOfTail

-----------------------------------------------------------------------------
(* The pixels of sequences of rectangles.                                  *)

IntBox == [x : Int, y : Int, w : Int, h : Int]

(* A pixel is in a rectangle if its two coordinates are,                   *)
LEMMA InPixels ==
  ASSUME NEW b \in IntBox, NEW p
  PROVE  p \in Pixels(b) <=>
           /\ p \in Int \X Int
           /\ b.x <= p[1] /\ p[1] < b.x + b.w
           /\ b.y <= p[2] /\ p[2] < b.y + b.h
  BY DEF Pixels, IntBox

(* in a sequence of rectangles if it is in one of them.                    *)
LEMMA InPixelsOf ==
  ASSUME NEW s, NEW p
  PROVE  p \in PixelsOf(s) <=> \E i \in DOMAIN s : p \in Pixels(s[i])
  BY DEF PixelsOf

(* The pixels of two sequences, one behind the other,                      *)
LEMMA PixelsOfConcat ==
  ASSUME NEW S, NEW s \in Seq(S), NEW t \in Seq(S)
  PROVE  PixelsOf(s \o t) = PixelsOf(s) \cup PixelsOf(t)
<1>1. /\ s \o t \in Seq(S) /\ Len(s \o t) = Len(s) + Len(t)
      /\ \A i \in 1..Len(s) + Len(t) :
           (s \o t)[i] = IF i <= Len(s) THEN s[i] ELSE t[i - Len(s)]
  BY ConcatProperties
<1>2. /\ DOMAIN s = 1..Len(s) /\ DOMAIN t = 1..Len(t) /\ DOMAIN (s \o t) = 1..Len(s) + Len(t)
      /\ Len(s) \in Nat /\ Len(t) \in Nat
  BY <1>1, LenProperties
<1> DEFINE st == s \o t
<1>3. \A i \in DOMAIN s : i \in DOMAIN st /\ st[i] = s[i]
  BY <1>1, <1>2
<1>4. \A i \in DOMAIN t : i + Len(s) \in DOMAIN st /\ st[i + Len(s)] = t[i]
  BY <1>1, <1>2
<1>5. \A i \in DOMAIN st : \/ i \in DOMAIN s /\ st[i] = s[i]
                           \/ i - Len(s) \in DOMAIN t /\ st[i] = t[i - Len(s)]
  BY <1>1, <1>2
<1> HIDE DEF st
<1>6. \A p : p \in PixelsOf(st) <=> p \in PixelsOf(s) \/ p \in PixelsOf(t)
  BY <1>3, <1>4, <1>5, InPixelsOf
<1> QED BY <1>6 DEF st

(* overlap nowhere if neither do those of each nor of both.                *)
LEMMA DisjointConcat ==
  ASSUME NEW S, NEW s \in Seq(S), NEW t \in Seq(S)
  PROVE  Disjoint(s \o t) <=>
           Disjoint(s) /\ Disjoint(t) /\ PixelsOf(s) \cap PixelsOf(t) = {}
<1>1. /\ s \o t \in Seq(S) /\ Len(s \o t) = Len(s) + Len(t)
      /\ \A i \in 1..Len(s) + Len(t) :
           (s \o t)[i] = IF i <= Len(s) THEN s[i] ELSE t[i - Len(s)]
  BY ConcatProperties
<1>2. /\ DOMAIN s = 1..Len(s) /\ DOMAIN t = 1..Len(t) /\ DOMAIN (s \o t) = 1..Len(s) + Len(t)
      /\ Len(s) \in Nat /\ Len(t) \in Nat
  BY <1>1, LenProperties
<1> DEFINE st == s \o t
<1>3. \A i \in DOMAIN s : i \in DOMAIN st /\ st[i] = s[i]
  BY <1>1, <1>2
<1>4. \A i \in DOMAIN t : i + Len(s) \in DOMAIN st /\ st[i + Len(s)] = t[i]
  BY <1>1, <1>2
<1>5. \A i \in DOMAIN st : \/ i \in DOMAIN s /\ st[i] = s[i]
                           \/ i - Len(s) \in DOMAIN t /\ st[i] = t[i - Len(s)]
  BY <1>1, <1>2
<1>6. \A i \in DOMAIN s, j \in DOMAIN t : i # j + Len(s)
  BY <1>2
<1>7. \A i, j \in DOMAIN t : i # j => i + Len(s) # j + Len(s)
  BY <1>2
<1>8. \A i, j \in DOMAIN st : i # j => i - Len(s) # j - Len(s)
  BY <1>2
<1> HIDE DEF st
<1>9. Disjoint(st) => Disjoint(s)
  BY <1>3 DEF Disjoint
<1>10. Disjoint(st) => Disjoint(t)
  BY <1>4, <1>7 DEF Disjoint
<1>11. Disjoint(st) => PixelsOf(s) \cap PixelsOf(t) = {}
  <2> SUFFICES ASSUME Disjoint(st), NEW p, p \in PixelsOf(s), p \in PixelsOf(t) PROVE FALSE
    OBVIOUS
  <2>1. PICK i \in DOMAIN s, j \in DOMAIN t : p \in Pixels(s[i]) /\ p \in Pixels(t[j])
    BY InPixelsOf
  <2> QED BY <2>1, <1>3, <1>4, <1>6 DEF Disjoint
<1>12. ASSUME Disjoint(s), Disjoint(t), PixelsOf(s) \cap PixelsOf(t) = {} PROVE Disjoint(st)
  <2> SUFFICES ASSUME NEW i \in DOMAIN st, NEW j \in DOMAIN st, i # j
               PROVE  Pixels(st[i]) \cap Pixels(st[j]) = {}
    BY DEF Disjoint
  <2>1. \A k \in DOMAIN s, l \in DOMAIN t : Pixels(s[k]) \cap Pixels(t[l]) = {}
    BY <1>12, InPixelsOf
  <2> QED BY <2>1, <1>5, <1>8, <1>12 DEF Disjoint
<1> QED BY <1>9, <1>10, <1>11, <1>12 DEF st

(* The pixels of a single rectangle,                                       *)
LEMMA PixelsOfOne ==
  ASSUME NEW b
  PROVE  PixelsOf(<<b>>) = Pixels(b) /\ Disjoint(<<b>>)
  BY DEF PixelsOf, Disjoint

(* and of none.                                                            *)
LEMMA PixelsOfNone == PixelsOf(<<>>) = {} /\ Disjoint(<<>>)
  BY DEF PixelsOf, Disjoint

(* One rectangle before others.                                            *)
LEMMA OneBefore ==
  ASSUME NEW S, NEW b \in S, NEW t \in Seq(S)
  PROVE  /\ PixelsOf(<<b>> \o t) = Pixels(b) \cup PixelsOf(t)
         /\ Disjoint(<<b>> \o t) => Disjoint(t) /\ Pixels(b) \cap PixelsOf(t) = {}
<1> DEFINE one == <<b>>
<1>1. one \in Seq(S)
  OBVIOUS
<1>2. PixelsOf(one) = Pixels(b) /\ Disjoint(one)
  BY PixelsOfOne
<1> HIDE DEF one
<1>3. PixelsOf(one \o t) = Pixels(b) \cup PixelsOf(t)
  BY <1>1, <1>2, PixelsOfConcat
<1>4. Disjoint(one \o t) => Disjoint(t) /\ Pixels(b) \cap PixelsOf(t) = {}
  BY <1>1, <1>2, DisjointConcat
<1> QED BY <1>3, <1>4 DEF one

(* The rectangles of s divide b between them.                              *)
Divide(s, b) == Disjoint(s) /\ PixelsOf(s) = Pixels(b)

(* A rectangle gives way to others that divide it: the pixels stay the     *)
(* same and no two overlap.                                                *)
LEMMA DividedInPlace ==
  ASSUME NEW S, NEW s \in Seq(S), NEW t \in Seq(S), NEW b \in S,
         PixelsOf(s) = Pixels(b)
  PROVE  /\ PixelsOf(s \o t) = PixelsOf(<<b>> \o t)
         /\ Disjoint(s) /\ Disjoint(<<b>> \o t) => Disjoint(s \o t)
<1>1. PixelsOf(s \o t) = PixelsOf(s) \cup PixelsOf(t)
  BY PixelsOfConcat
<1>2. /\ PixelsOf(<<b>> \o t) = Pixels(b) \cup PixelsOf(t)
      /\ Disjoint(<<b>> \o t) => Disjoint(t) /\ Pixels(b) \cap PixelsOf(t) = {}
  BY OneBefore
<1>3. Disjoint(s \o t) <=> Disjoint(s) /\ Disjoint(t) /\ PixelsOf(s) \cap PixelsOf(t) = {}
  BY DisjointConcat
<1> QED BY <1>1, <1>2, <1>3

(* Two rectangles that share no pixel divide what they make up.            *)
LEMMA TwoDivide ==
  ASSUME NEW b, NEW c, NEW d,
         Pixels(c) \cup Pixels(d) = Pixels(b), Pixels(c) \cap Pixels(d) = {}
  PROVE  Divide(<<c, d>>, b)
<1>1. DOMAIN <<c, d>> = {1, 2} /\ <<c, d>>[1] = c /\ <<c, d>>[2] = d
  OBVIOUS
<1>2. PixelsOf(<<c, d>>) = Pixels(c) \cup Pixels(d)
  BY <1>1 DEF PixelsOf
<1>3. Disjoint(<<c, d>>)
  BY <1>1 DEF Disjoint
<1> QED BY <1>2, <1>3 DEF Divide

(* A sequence of two is one behind the other.                              *)
LEMMA Pair ==
  ASSUME NEW r, NEW p
  PROVE  <<r>> \o <<p>> = <<r, p>>
<1> DEFINE S == {r, p}
<1>1. r \in S /\ p \in S
  OBVIOUS
<1> HIDE DEF S
<1>2. <<r>> \in Seq(S) /\ <<p>> \in Seq(S) /\ <<r, p>> \in Seq(S)
  BY <1>1
<1>3. /\ Len(<<r>>) = 1 /\ Len(<<p>>) = 1 /\ Len(<<r, p>>) = 2
      /\ <<r>>[1] = r /\ <<p>>[1] = p /\ <<r, p>>[1] = r /\ <<r, p>>[2] = p
  OBVIOUS
<1>4. /\ <<r>> \o <<p>> \in Seq(S) /\ Len(<<r>> \o <<p>>) = 2
      /\ (<<r>> \o <<p>>)[1] = r /\ (<<r>> \o <<p>>)[2] = p
  BY <1>2, <1>3, ConcatProperties
<1>5. \A i \in 1..2 : (<<r>> \o <<p>>)[i] = <<r, p>>[i]
  <2>1. \A i \in 1..2 : i = 1 \/ i = 2
    OBVIOUS
  <2> QED BY <1>3, <1>4, <2>1
<1> QED BY <1>2, <1>3, <1>4, <1>5, SeqEqual

-----------------------------------------------------------------------------
(* The constants, and the types of rectangles and calls.                   *)

ConstantsType ==
  /\ Width \in Nat /\ Height \in Nat
  /\ CorreMax \in Nat \ {0} /\ ZlibMaxRect \in Nat \ {0} /\ MaxRectWidth \in Nat \ {0}
  /\ MinSplit \in Nat \ {0} /\ MinSolid \in Nat \ {0} /\ Tile \in Nat \ {0}
  /\ MaxRectSize \in Nat /\ MaxRectSize \div MaxRectWidth >= Tile
  /\ Scales \subseteq Nat \ {0}

(* The assumption about the constants, in the form the provers use.        *)
LEMMA Constants == ConstantsType
  BY MessageAssumption DEF ConstantsType

(* No client scales by zero.                                               *)
LEMMA ScaleType == ASSUME TypeOK PROVE scale \in Nat \ {0}
  BY Constants DEF TypeOK, ConstantsType

(* Coordinates are integers,                                               *)
LEMMA BoxIsInt == OnScreen \subseteq IntBox
  BY DEF OnScreen, Boxes, IntBox

(* and sizes positive.                                                     *)
LEMMA BoxSizes ==
  ASSUME NEW b \in OnScreen
  PROVE  /\ b \in Boxes /\ b.x \in Nat /\ b.y \in Nat /\ b.w \in Nat \ {0} /\ b.h \in Nat \ {0}
  BY Constants DEF OnScreen, Boxes, ConstantsType

(* A region's rectangles are on the screen.                                *)
LEMMA RegionType ==
  ASSUME NEW r \in Regions
  PROVE  r \in Seq(OnScreen) /\ Disjoint(r)
<1>1. /\ r \in Seq(Boxes)
      /\ \A i \in DOMAIN r : Pixels(r[i]) \subseteq (0..Width - 1) \X (0..Height - 1)
      /\ \A i, j \in DOMAIN r : i # j => Pixels(r[i]) \cap Pixels(r[j]) = {}
  BY MessageAssumption
<1>2. ASSUME NEW b \in Boxes, Pixels(b) \subseteq (0..Width - 1) \X (0..Height - 1)
      PROVE  b \in OnScreen
  <2>1. b.x \in Nat /\ b.y \in Nat /\ b.w \in Nat \ {0} /\ b.h \in Nat \ {0}
    BY Constants DEF Boxes, ConstantsType
  <2>2. <<b.x + b.w - 1, b.y + b.h - 1>> \in Pixels(b)
    BY <2>1 DEF Pixels
  <2>3. b.x + b.w - 1 \in 0..Width - 1 /\ b.y + b.h - 1 \in 0..Height - 1
    BY <1>2, <2>2
  <2> QED BY <2>1, <2>3, Constants DEF OnScreen, ConstantsType
<1>3. \A i \in 1..Len(r) : r[i] \in OnScreen
  BY <1>1, <1>2
<1> QED BY <1>1, <1>3 DEF Disjoint

Limits == [w : Nat \ {0}, h : Nat \ {0}]

(* SendRectSimple has at least a tile's rows to a rectangle,               *)
LEMMA RowsOfRects ==
  ASSUME NEW w \in Nat \ {0}
  PROVE  MaxRows(w) \in Nat /\ MaxRows(w) >= Tile
<1>1. Least(w, MaxRectWidth) \in 1..MaxRectWidth
  BY Constants DEF Least, ConstantsType
<1>2. MaxRectSize \div MaxRectWidth <= MaxRectSize \div Least(w, MaxRectWidth)
  BY <1>1, SmallerDivisor, Constants DEF ConstantsType
<1>3. MaxRectSize \div Least(w, MaxRectWidth) \in Nat
  BY <1>1, Division, Constants DEF ConstantsType
<1>4. MaxRectSize \div MaxRectWidth \in Nat
  BY Division, Constants DEF ConstantsType
<1> QED BY <1>2, <1>3, <1>4, Constants DEF MaxRows, ConstantsType

(* and Zlib at least one row: nothing is cut into pieces without height.   *)
LEMMA RowsOfZlib ==
  ASSUME NEW w \in Nat \ {0}
  PROVE  ZlibMaxSize(w) \div w \in Nat \ {0}
<1>1. ZlibMaxSize(w) \in Nat /\ w * 2 <= ZlibMaxSize(w)
  BY Constants DEF ZlibMaxSize, Greatest, ConstantsType
<1>2. 2 <= ZlibMaxSize(w) \div w
  BY <1>1, QuotientAbove
<1>3. ZlibMaxSize(w) \div w \in Nat
  BY <1>1, Division
<1> QED BY <1>2, <1>3

(* What the encoders cut by is never zero.                                 *)
LEMMA LimitsType ==
  ASSUME NEW b \in Boxes
  PROVE  /\ CorreLimits(b) \in Limits /\ ZlibLimits(b) \in Limits
         /\ SimpleLimits(b) \in Limits
         /\ [w |-> b.w, h |-> b.h] \in Limits
<1>1. b.w \in Nat \ {0} /\ b.h \in Nat \ {0}
  BY Constants DEF Boxes, ConstantsType
<1>2. MaxRows(b.w) \in Nat \ {0}
  BY <1>1, RowsOfRects, Constants DEF ConstantsType
<1>3. Least(b.w, MaxRectWidth) \in Nat \ {0}
  BY <1>1, Constants DEF Least, ConstantsType
<1>4. ZlibMaxSize(b.w) \div b.w \in Nat \ {0}
  BY <1>1, RowsOfZlib
<1>5. CorreLimits(b) \in Limits
  BY Constants DEF CorreLimits, Limits, ConstantsType
<1>6. ZlibLimits(b) \in Limits
  BY <1>1, <1>4 DEF ZlibLimits, Limits
<1>7. SimpleLimits(b) \in Limits
  BY <1>1, <1>2, <1>3 DEF SimpleLimits, Limits
<1> QED BY <1>1, <1>5, <1>6, <1>7 DEF Limits

(* The calls of the encoders are calls of the stack:                       *)
LEMMA CutType ==
  ASSUME NEW b \in OnScreen, NEW l \in Limits
  PROVE  Cut(b, l) \in StackFrames
  BY DEF Cut, StackFrames, Frames, OnScreen, Limits

(* to cut by the client's row of tightConf,                                *)
LEMMA SimpleType ==
  ASSUME NEW b \in OnScreen
  PROVE  Simple(b) \in StackFrames
  BY CutType, LimitsType DEF Simple, OnScreen

(* to encode with Tight,                                                   *)
LEMMA TightType ==
  ASSUME NEW b \in OnScreen
  PROVE  TightCall(b) \in StackFrames
  BY DEF TightCall, StackFrames, Frames, OnScreen

(* to search from a tile of the rectangle,                                 *)
LEMMA SearchType ==
  ASSUME NEW b \in OnScreen, NEW dx \in Nat, NEW dy \in Nat,
         b.x <= dx, dx < b.x + b.w, b.y <= dy
  PROVE  Search(b, dx, dy) \in StackFrames
  BY DEF Search, StackFrames, Frames, OnScreen

(* and the one the loop begins with.                                       *)
LEMMA EncoderCallType ==
  ASSUME NEW b \in OnScreen
  PROVE  EncoderCall(b) \in StackFrames /\ EncoderCall(b).box = b
<1>1. b \in Boxes
  BY BoxSizes
<1>2. /\ Cut(b, CorreLimits(b)) \in StackFrames /\ Cut(b, ZlibLimits(b)) \in StackFrames
      /\ Cut(b, [w |-> b.w, h |-> b.h]) \in StackFrames /\ TightCall(b) \in StackFrames
  BY <1>1, LimitsType, CutType, TightType
<1>3. \A l : Cut(b, l).box = b
  BY DEF Cut
<1>4. TightCall(b).box = b
  BY DEF TightCall
<1> QED BY <1>2, <1>3, <1>4 DEF EncoderCall

(* The three kinds of calls.                                               *)
LEMMA FrameKinds ==
  ASSUME NEW f \in StackFrames
  PROVE  /\ f.box \in OnScreen /\ f.call \in {"cut", "tight", "search"}
         /\ f.call = "cut" => f.limits \in Limits
         /\ f.call = "search" => /\ f.dx \in Nat /\ f.dy \in Nat /\ f.box.y <= f.dy
                                 /\ f.box.x <= f.dx /\ f.dx < f.box.x + f.box.w
  BY DEF StackFrames, Frames, Limits

(* The rectangles of a sequence of calls.                                  *)
BoxesOf(s) == [i \in DOMAIN s |-> s[i].box]

(* Each is on the screen,                                                  *)
LEMMA BoxesType ==
  ASSUME NEW S, NEW B, \A f \in S : f.box \in B, NEW s \in Seq(S)
  PROVE  /\ BoxesOf(s) \in Seq(B)
         /\ Len(BoxesOf(s)) = Len(s)
         /\ \A i \in 1..Len(s) : BoxesOf(s)[i] = s[i].box
  BY LenProperties DEF BoxesOf

(* and they stand behind one another as the calls do.                      *)
LEMMA BoxesConcat ==
  ASSUME NEW S, NEW B, \A f \in S : f.box \in B, NEW s \in Seq(S), NEW t \in Seq(S)
  PROVE  BoxesOf(s \o t) = BoxesOf(s) \o BoxesOf(t)
<1> DEFINE st == s \o t
           bs == BoxesOf(s)
           bt == BoxesOf(t)
<1>1. /\ st \in Seq(S) /\ Len(st) = Len(s) + Len(t)
      /\ \A i \in 1..Len(s) + Len(t) : st[i] = IF i <= Len(s) THEN s[i] ELSE t[i - Len(s)]
  BY ConcatProperties
<1>2. /\ bs \in Seq(B) /\ Len(bs) = Len(s) /\ \A i \in 1..Len(s) : bs[i] = s[i].box
      /\ bt \in Seq(B) /\ Len(bt) = Len(t) /\ \A i \in 1..Len(t) : bt[i] = t[i].box
      /\ Len(s) \in Nat /\ Len(t) \in Nat
  BY BoxesType, LenProperties
<1> HIDE DEF st, bs, bt
<1>3. /\ BoxesOf(st) \in Seq(B) /\ Len(BoxesOf(st)) = Len(st)
      /\ \A i \in 1..Len(st) : BoxesOf(st)[i] = st[i].box
  BY <1>1, BoxesType
<1>4. /\ bs \o bt \in Seq(B) /\ Len(bs \o bt) = Len(bs) + Len(bt)
      /\ \A i \in 1..Len(bs) + Len(bt) :
           (bs \o bt)[i] = IF i <= Len(bs) THEN bs[i] ELSE bt[i - Len(bs)]
  <2>1. bs \in Seq(B) /\ bt \in Seq(B)
    BY <1>2
  <2> QED BY ONLY <2>1, ConcatProperties
<1>5. ASSUME NEW i \in 1..Len(BoxesOf(st)) PROVE BoxesOf(st)[i] = (bs \o bt)[i]
  <2>1. CASE i <= Len(s)
    <3>1. i \in 1..Len(s) /\ i \in 1..Len(st) /\ i \in 1..Len(bs) + Len(bt) /\ i <= Len(bs)
      BY <2>1, <1>1, <1>2, <1>3
    <3> QED BY <3>1, <2>1, <1>1, <1>2, <1>3, <1>4
  <2>2. CASE i > Len(s)
    <3>1. /\ i - Len(s) \in 1..Len(t) /\ i \in 1..Len(st) /\ i \in 1..Len(bs) + Len(bt)
          /\ ~(i <= Len(bs)) /\ i - Len(bs) = i - Len(s) /\ i \in 1..Len(s) + Len(t)
      BY <2>2, <1>1, <1>2, <1>3
    <3>2. st[i] = t[i - Len(s)]
      BY <3>1, <2>2, <1>1
    <3>3. (bs \o bt)[i] = bt[i - Len(s)]
      BY <3>1, <1>4
    <3> QED BY <3>1, <3>2, <3>3, <1>2, <1>3
  <2> QED BY <2>1, <2>2, <1>1, <1>2, <1>3
<1>6. BoxesOf(st) = bs \o bt
  BY <1>1, <1>2, <1>3, <1>4, <1>5, SeqEqual
<1> QED BY <1>6 DEF st, bs, bt

-----------------------------------------------------------------------------
(* Server side scaling.                                                    *)

(* What n pixels are scaled to, rounded up.                                *)
Up(n) == (n + scale - 1) \div scale

(* It is at least one, enough, and above every scaled coordinate.          *)
LEMMA UpProperties ==
  ASSUME scale \in Nat \ {0}, NEW n \in Nat \ {0}
  PROVE  /\ Up(n) \in 1..n
         /\ n <= scale * Up(n)
         /\ \A m \in 0..n - 1 : m \div scale < Up(n)
<1> DEFINE q == (n - 1) \div scale
<1>1. n - 1 \in Nat /\ q \in Nat /\ scale * q <= n - 1 /\ n - 1 < scale * q + scale
  BY Division
<1> HIDE DEF q
<1>2. n + scale - 1 \in Nat /\ scale * (q + 1) <= n + scale - 1
      /\ n + scale - 1 < scale * (q + 1) + scale
  BY <1>1
<1>3. Up(n) = q + 1
  BY <1>1, <1>2, QuotientAbove, QuotientBelow, Division DEF Up
<1>4. q <= scale * q
  BY <1>1
<1>5. \A m \in 0..n - 1 : m \div scale \in Nat /\ m \div scale <= q
  BY QuotientMonotone, Division DEF q
<1> QED BY <1>1, <1>3, <1>4, <1>5

(* CopyScalingRect's lower bound for x and y is never reached.             *)
LEMMA ScaledBox ==
  ASSUME scale \in Nat \ {0}, NEW r \in OnScreen
  PROVE  /\ Scaled(r) = Box(r.x \div scale, r.y \div scale,
                            Least(Up(r.w) + 1, Up(Width) - r.x \div scale),
                            Least(Up(r.h) + 1, Up(Height) - r.y \div scale))
         /\ r.x \div scale \in Nat /\ r.y \div scale \in Nat
         /\ r.x \div scale < Up(Width) /\ r.y \div scale < Up(Height)
<1>1. /\ r.x \in 0..Width - 1 /\ Width \in Nat \ {0}
      /\ r.y \in 0..Height - 1 /\ Height \in Nat \ {0}
  BY Constants DEF OnScreen, Boxes, ConstantsType
<1>2. r.x \div scale \in Nat /\ r.y \div scale \in Nat
  BY <1>1, Division
<1>3. r.x \div scale < Up(Width) /\ r.y \div scale < Up(Height)
  BY <1>1, UpProperties
<1>4. Up(Width) \in Nat /\ Up(Height) \in Nat
  BY <1>1, UpProperties
<1>5. /\ Least(r.x \div scale, Up(Width)) = r.x \div scale
      /\ Least(r.y \div scale, Up(Height)) = r.y \div scale
  BY <1>2, <1>3, <1>4 DEF Least
<1> QED BY <1>2, <1>3, <1>5 DEF Scaled, Up

(* What is sent is on the screen, and in the scaled picture.               *)
LEMMA ToSendType ==
  ASSUME scale \in Nat \ {0}, NEW r \in OnScreen
  PROVE  /\ ToSend(r) \in OnScreen
         /\ ToSend(r).x + ToSend(r).w <= Up(Width)
         /\ ToSend(r).y + ToSend(r).h <= Up(Height)
<1>1. /\ Width \in Nat \ {0} /\ Height \in Nat \ {0} /\ r.w \in Nat \ {0} /\ r.h \in Nat \ {0}
      /\ r.x + r.w <= Width /\ r.y + r.h <= Height
  BY Constants DEF OnScreen, Boxes, ConstantsType
<1>2. /\ Up(Width) \in 1..Width /\ Up(Height) \in 1..Height
      /\ Up(r.w) \in Nat \ {0} /\ Up(r.h) \in Nat \ {0}
  BY <1>1, UpProperties
<1>3. CASE scale = 1
  <2>1. Up(Width) = Width /\ Up(Height) = Height
    BY <1>1, <1>2, <1>3, UpProperties
  <2> QED BY <1>1, <1>3, <2>1 DEF ToSend
<1>4. CASE scale # 1
  <2> DEFINE x == r.x \div scale
             y == r.y \div scale
             w == Least(Up(r.w) + 1, Up(Width) - x)
             h == Least(Up(r.h) + 1, Up(Height) - y)
  <2>1. ToSend(r) = Box(x, y, w, h) /\ x \in Nat /\ y \in Nat /\ x < Up(Width) /\ y < Up(Height)
    BY <1>4, ScaledBox DEF ToSend
  <2> HIDE DEF x, y
  <2>2. w \in Nat \ {0} /\ h \in Nat \ {0} /\ x + w <= Up(Width) /\ y + h <= Up(Height)
    BY <1>2, <2>1 DEF Least
  <2> HIDE DEF w, h
  <2> QED BY <1>1, <1>2, <2>1, <2>2 DEF Box, OnScreen, Boxes
<1> QED BY <1>3, <1>4

(* Every pixel of a rectangle goes into a pixel of the scaled one.         *)
LEMMA PixelsArrive ==
  ASSUME scale \in Nat \ {0}, NEW r \in OnScreen, NEW p \in Pixels(r)
  PROVE  <<p[1] \div scale, p[2] \div scale>> \in Pixels(ToSend(r))
<1>1. /\ Width \in Nat \ {0} /\ Height \in Nat \ {0} /\ r.w \in Nat \ {0} /\ r.h \in Nat \ {0}
      /\ r.x \in Nat /\ r.y \in Nat /\ r.x + r.w <= Width /\ r.y + r.h <= Height
  BY Constants DEF OnScreen, Boxes, ConstantsType
<1>2. p \in Int \X Int /\ r.x <= p[1] /\ p[1] < r.x + r.w /\ r.y <= p[2] /\ p[2] < r.y + r.h
  BY InPixels, BoxIsInt
<1>3. CASE scale = 1
  <2>1. p[1] \div scale = p[1] /\ p[2] \div scale = p[2] /\ p = <<p[1], p[2]>>
    BY <1>1, <1>2, <1>3
  <2> QED BY <1>3, <2>1 DEF ToSend
<1>4. CASE scale # 1
  <2>1. ASSUME NEW lo \in Nat, NEW n \in Nat \ {0}, NEW all \in Nat \ {0}, lo + n <= all,
               NEW q \in Nat, lo <= q, q < lo + n
        PROVE  /\ lo \div scale <= q \div scale
               /\ q \div scale < lo \div scale + Least(Up(n) + 1, Up(all) - lo \div scale)
    <3>1. lo \div scale \in Nat /\ q \div scale \in Nat /\ lo \div scale <= q \div scale
      BY <2>1, Division, QuotientMonotone
    <3>2. Up(n) \in Nat /\ n <= scale * Up(n) /\ Up(all) \in Nat
      BY <2>1, UpProperties
    <3>3. q \div scale < Up(all)
      <4>1. q \in 0..all - 1
        BY <2>1
      <4> QED BY <4>1, UpProperties
    <3>4. lo < scale * (lo \div scale) + scale
      BY Division
    <3>5. q < scale * (lo \div scale + Up(n)) + scale
      BY <2>1, <3>1, <3>2, <3>4
    <3>6. q \div scale <= lo \div scale + Up(n)
      BY <3>1, <3>2, <3>5, QuotientBelow
    <3> QED BY <3>1, <3>2, <3>3, <3>6 DEF Least
  <2>2. p[1] \in Nat /\ p[2] \in Nat
    BY <1>1, <1>2
  <2> DEFINE u == p[1] \div scale
             v == p[2] \div scale
             x == r.x \div scale
             y == r.y \div scale
             w == Least(Up(r.w) + 1, Up(Width) - x)
             h == Least(Up(r.h) + 1, Up(Height) - y)
  <2>3. x <= u /\ u < x + w
    BY <1>1, <1>2, <2>1, <2>2
  <2>4. y <= v /\ v < y + h
    BY <1>1, <1>2, <2>1, <2>2
  <2>5. u \in Nat /\ v \in Nat
    BY <2>2, Division
  <2>6. ToSend(r) = Box(x, y, w, h)
    BY <1>4, ScaledBox DEF ToSend
  <2>7. ToSend(r) \in IntBox
    BY ToSendType, BoxIsInt
  <2> HIDE DEF u, v, x, y, w, h
  <2>8. /\ <<u, v>> \in Int \X Int
        /\ Box(x, y, w, h).x <= <<u, v>>[1] /\ <<u, v>>[1] < Box(x, y, w, h).x + Box(x, y, w, h).w
        /\ Box(x, y, w, h).y <= <<u, v>>[2] /\ <<u, v>>[2] < Box(x, y, w, h).y + Box(x, y, w, h).h
    BY <2>3, <2>4, <2>5 DEF Box
  <2>9. <<u, v>> \in Pixels(Box(x, y, w, h))
    BY <2>6, <2>7, <2>8, InPixels
  <2> QED BY <2>6, <2>9 DEF u, v
<1> QED BY <1>3, <1>4

-----------------------------------------------------------------------------
(* Rectangles that are cut, and the area of one colour.                    *)

(* A rectangle cut in two, one below the other or side by side.            *)
LEMMA CutBelow ==
  ASSUME NEW b \in OnScreen, NEW n \in Nat \ {0}, n < b.h
  PROVE  /\ Upper(b, n) \in OnScreen /\ Lower(b, n) \in OnScreen
         /\ Divide(<<Upper(b, n), Lower(b, n)>>, b)
<1> DEFINE upper == Upper(b, n)
           lower == Lower(b, n)
<1>1. /\ b \in IntBox /\ b.x + b.w <= Width /\ b.y + b.h <= Height
      /\ b.x \in 0..Width - 1 /\ b.y \in Nat /\ b.w \in 1..Width /\ b.h \in Nat
      /\ Width \in Nat /\ Height \in Nat
  BY BoxIsInt, Constants DEF OnScreen, Boxes, ConstantsType
<1>2. /\ upper.x = b.x /\ upper.y = b.y /\ upper.w = b.w /\ upper.h = n
      /\ lower.x = b.x /\ lower.y = b.y + n /\ lower.w = b.w /\ lower.h = b.h - n
  BY DEF Upper, Lower, Box
<1>3. upper \in Boxes /\ lower \in Boxes
  BY <1>1 DEF Upper, Lower, Box, Boxes
<1> HIDE DEF upper, lower
<1>4. upper \in OnScreen /\ lower \in OnScreen
  BY <1>1, <1>2, <1>3 DEF OnScreen
<1>5. upper \in IntBox /\ lower \in IntBox
  BY <1>4, BoxIsInt
<1>6. \A p : p \in Pixels(b) <=> p \in Pixels(upper) \/ p \in Pixels(lower)
  BY <1>1, <1>2, <1>5, InPixels DEF IntBox
<1>7. \A p : ~(p \in Pixels(upper) /\ p \in Pixels(lower))
  BY <1>1, <1>2, <1>5, InPixels DEF IntBox
<1>8. Pixels(upper) \cup Pixels(lower) = Pixels(b) /\ Pixels(upper) \cap Pixels(lower) = {}
  BY <1>6, <1>7
<1> QED BY <1>4, <1>8, TwoDivide DEF upper, lower

(* The same side by side.                                                  *)
LEMMA CutBeside ==
  ASSUME NEW b \in OnScreen, NEW n \in Nat \ {0}, n < b.w
  PROVE  /\ LeftPart(b, n) \in OnScreen /\ RightPart(b, n) \in OnScreen
         /\ Divide(<<LeftPart(b, n), RightPart(b, n)>>, b)
<1> DEFINE left == LeftPart(b, n)
           right == RightPart(b, n)
<1>1. /\ b \in IntBox /\ b.x + b.w <= Width /\ b.y + b.h <= Height
      /\ b.x \in Nat /\ b.y \in 0..Height - 1 /\ b.w \in Nat /\ b.h \in 1..Height
      /\ Width \in Nat /\ Height \in Nat
  BY BoxIsInt, Constants DEF OnScreen, Boxes, ConstantsType
<1>2. /\ left.x = b.x /\ left.y = b.y /\ left.w = n /\ left.h = b.h
      /\ right.x = b.x + n /\ right.y = b.y /\ right.w = b.w - n /\ right.h = b.h
  BY DEF LeftPart, RightPart, Box
<1>3. left \in Boxes /\ right \in Boxes
  BY <1>1 DEF LeftPart, RightPart, Box, Boxes
<1> HIDE DEF left, right
<1>4. left \in OnScreen /\ right \in OnScreen
  BY <1>1, <1>2, <1>3 DEF OnScreen
<1>5. left \in IntBox /\ right \in IntBox
  BY <1>4, BoxIsInt
<1>6. \A p : p \in Pixels(b) <=> p \in Pixels(left) \/ p \in Pixels(right)
  BY <1>1, <1>2, <1>5, InPixels DEF IntBox
<1>7. \A p : ~(p \in Pixels(left) /\ p \in Pixels(right))
  BY <1>1, <1>2, <1>5, InPixels DEF IntBox
<1>8. Pixels(left) \cup Pixels(right) = Pixels(b) /\ Pixels(left) \cap Pixels(right) = {}
  BY <1>6, <1>7
<1> QED BY <1>4, <1>8, TwoDivide DEF left, right

(* One call for all of a rectangle,                                        *)
LEMMA OneCall ==
  ASSUME NEW f \in StackFrames
  PROVE  <<f>> \in Seq(StackFrames) /\ Divide(BoxesOf(<<f>>), f.box)
<1>1. BoxesOf(<<f>>) = <<f.box>>
  BY DEF BoxesOf
<1> QED BY <1>1, PixelsOfOne DEF Divide

(* or two for its parts.                                                   *)
LEMMA TwoCalls ==
  ASSUME NEW f \in StackFrames, NEW g \in StackFrames, NEW b, Divide(<<f.box, g.box>>, b)
  PROVE  <<f, g>> \in Seq(StackFrames) /\ Divide(BoxesOf(<<f, g>>), b)
<1>1. BoxesOf(<<f, g>>) = <<f.box, g.box>>
  BY DEF BoxesOf
<1> QED BY <1>1

(* An area of one colour lies in the rectangle that is searched.           *)
Inside(s, b) ==
  /\ b.x <= s.x /\ s.x + s.w <= b.x + b.w
  /\ b.y <= s.y /\ s.y + s.h <= b.y + b.h

(* What FindBestSolidArea and ExtendSolidArea find does.                   *)
LEMMA SolidInside ==
  ASSUME NEW b \in OnScreen, NEW dx \in Nat, NEW dy \in Nat, NEW s \in SolidAreas(b, dx, dy),
         b.x <= dx, dx < b.x + b.w, b.y <= dy, dy < b.y + b.h
  PROVE  s \in OnScreen /\ Inside(s, b)
<1>1. PICK best \in BestSizes(b, dx, dy) : s \in Extensions(b, dx, dy, best)
  BY DEF SolidAreas
<1>2. /\ b.x \in Nat /\ b.y \in Nat /\ b.w \in Nat /\ b.h \in Nat
      /\ b.x + b.w <= Width /\ b.y + b.h <= Height /\ Width \in Nat /\ Height \in Nat
  BY Constants DEF OnScreen, Boxes, ConstantsType
<1>3. best.w \in Nat \ {0} /\ best.h \in Nat \ {0}
  BY <1>1, <1>2 DEF BestSizes, TiledLengths
<1>4. PICK x \in b.x..dx, x2 \in dx + best.w .. b.x + b.w,
           y \in b.y..dy, y2 \in dy + best.h .. b.y + b.h : s = Box(x, y, x2 - x, y2 - y)
  BY <1>1 DEF Extensions
<1>5. s.x = x /\ s.y = y /\ s.w = x2 - x /\ s.h = y2 - y
  BY <1>4 DEF Box
<1>6. x \in 0..Width - 1 /\ y \in 0..Height - 1 /\ x2 - x \in 1..Width /\ y2 - y \in 1..Height
  BY <1>2, <1>3, <1>4
<1>7. s \in Boxes
  BY <1>4, <1>6 DEF Box, Boxes
<1> QED BY <1>2, <1>3, <1>4, <1>5, <1>7 DEF OnScreen, Inside

(* A part of which nothing is left is not sent.                            *)
LEMMA IfOne ==
  ASSUME NEW c \in BOOLEAN, NEW f,
         c => f \in StackFrames, ~c => Pixels(f.box) = {}
  PROVE  /\ If(c, <<f>>) \in Seq(StackFrames)
         /\ Disjoint(BoxesOf(If(c, <<f>>)))
         /\ PixelsOf(BoxesOf(If(c, <<f>>))) = Pixels(f.box)
<1>1. CASE c
  <2>1. If(c, <<f>>) = <<f>> /\ BoxesOf(<<f>>) = <<f.box>>
    BY <1>1 DEF If, BoxesOf
  <2>2. PixelsOf(<<f.box>>) = Pixels(f.box) /\ Disjoint(<<f.box>>)
    BY PixelsOfOne
  <2>3. <<f>> \in Seq(StackFrames)
    BY <1>1
  <2> QED BY <2>1, <2>2, <2>3
<1>2. CASE ~c
  <2>1. If(c, <<f>>) = <<>> /\ BoxesOf(<<>>) = <<>>
    BY <1>2 DEF If, BoxesOf
  <2>2. <<>> \in Seq(StackFrames)
    OBVIOUS
  <2> QED BY <1>2, <2>1, <2>2, PixelsOfNone
<1> QED BY <1>1, <1>2

(* Calls behind one another are for the pixels of both.                    *)
LEMMA FramesConcat ==
  ASSUME NEW s \in Seq(StackFrames), NEW t \in Seq(StackFrames),
         Disjoint(BoxesOf(s)), Disjoint(BoxesOf(t)),
         PixelsOf(BoxesOf(s)) \cap PixelsOf(BoxesOf(t)) = {}
  PROVE  /\ s \o t \in Seq(StackFrames)
         /\ Disjoint(BoxesOf(s \o t))
         /\ PixelsOf(BoxesOf(s \o t)) = PixelsOf(BoxesOf(s)) \cup PixelsOf(BoxesOf(t))
<1>1. \A f \in StackFrames : f.box \in OnScreen
  BY DEF StackFrames
<1>2. BoxesOf(s) \in Seq(OnScreen) /\ BoxesOf(t) \in Seq(OnScreen)
  BY <1>1, BoxesType
<1>3. BoxesOf(s \o t) = BoxesOf(s) \o BoxesOf(t)
  BY <1>1, BoxesConcat
<1>4. s \o t \in Seq(StackFrames)
  BY ConcatProperties
<1>5. PixelsOf(BoxesOf(s) \o BoxesOf(t)) = PixelsOf(BoxesOf(s)) \cup PixelsOf(BoxesOf(t))
  BY <1>2, PixelsOfConcat
<1>6. Disjoint(BoxesOf(s) \o BoxesOf(t)) <=>
        /\ Disjoint(BoxesOf(s)) /\ Disjoint(BoxesOf(t))
        /\ PixelsOf(BoxesOf(s)) \cap PixelsOf(BoxesOf(t)) = {}
  BY <1>2, DisjointConcat
<1> QED BY <1>3, <1>4, <1>5, <1>6

(* What is above, left of, right of and below an area, and the area, make  *)
(* up the rectangle.                                                       *)
LEMMA AroundDivides ==
  ASSUME NEW b \in OnScreen, NEW s \in OnScreen, Inside(s, b)
  PROVE  /\ Around(b, s) \in Seq(StackFrames)
         /\ Divide(BoxesOf(Around(b, s)), b)
<1> DEFINE above == Upper(b, s.y - b.y)
           left  == Box(b.x, s.y, s.x - b.x, s.h)
           right == Box(s.x + s.w, s.y, b.w - (s.x - b.x) - s.w, s.h)
           below == Lower(b, s.y - b.y + s.h)
           first == If(s.y # b.y, <<Simple(above)>>)
           second == If(s.x # b.x, <<TightCall(left)>>)
           third == <<Cut(s, [w |-> s.w, h |-> s.h])>>
           fourth == If(s.x + s.w # b.x + b.w, <<TightCall(right)>>)
           fifth == If(s.y + s.h # b.y + b.h, <<TightCall(below)>>)
           Px(q) == PixelsOf(BoxesOf(q))
<1>1. /\ b.x \in Nat /\ b.y \in Nat /\ b.w \in Nat \ {0} /\ b.h \in Nat \ {0}
      /\ s.x \in Nat /\ s.y \in Nat /\ s.w \in Nat \ {0} /\ s.h \in Nat \ {0}
      /\ b.x + b.w <= Width /\ b.y + b.h <= Height /\ Width \in Nat /\ Height \in Nat
      /\ b.x <= s.x /\ s.x + s.w <= b.x + b.w /\ b.y <= s.y /\ s.y + s.h <= b.y + b.h
  BY Constants DEF OnScreen, Boxes, Inside, ConstantsType
<1>2. /\ above.x = b.x /\ above.y = b.y /\ above.w = b.w /\ above.h = s.y - b.y
      /\ left.x = b.x /\ left.y = s.y /\ left.w = s.x - b.x /\ left.h = s.h
      /\ right.x = s.x + s.w /\ right.y = s.y /\ right.h = s.h
      /\ right.w = b.x + b.w - (s.x + s.w)
      /\ below.x = b.x /\ below.y = s.y + s.h /\ below.w = b.w
      /\ below.h = b.y + b.h - (s.y + s.h)
  BY <1>1 DEF Upper, Lower, Box
<1>3. b \in IntBox /\ s \in IntBox
  BY BoxIsInt
<1>4. above \in IntBox /\ left \in IntBox /\ right \in IntBox /\ below \in IntBox
  BY <1>1 DEF Upper, Lower, Box, IntBox
<1>5. s.y # b.y => above \in OnScreen
  BY <1>1, <1>2 DEF Upper, Box, OnScreen, Boxes
<1>6. s.x # b.x => left \in OnScreen
  BY <1>1, <1>2 DEF Box, OnScreen, Boxes
<1>7. s.x + s.w # b.x + b.w => right \in OnScreen
  BY <1>1, <1>2 DEF Box, OnScreen, Boxes
<1>8. s.y + s.h # b.y + b.h => below \in OnScreen
  BY <1>1, <1>2 DEF Lower, Box, OnScreen, Boxes
<1> HIDE DEF above, left, right, below
<1>9. first \in Seq(StackFrames) /\ Disjoint(BoxesOf(first)) /\ Px(first) = Pixels(above)
  <2>1. Simple(above).box = above
    BY DEF Simple, Cut
  <2>2. s.y # b.y => Simple(above) \in StackFrames
    BY <1>5, SimpleType
  <2>3. ~(s.y # b.y) => Pixels(above) = {}
    BY <1>1, <1>2, <1>4, InPixels
  <2> QED BY <2>1, <2>2, <2>3, IfOne
<1>10. second \in Seq(StackFrames) /\ Disjoint(BoxesOf(second)) /\ Px(second) = Pixels(left)
  <2>1. TightCall(left).box = left
    BY DEF TightCall
  <2>2. s.x # b.x => TightCall(left) \in StackFrames
    BY <1>6, TightType
  <2>3. ~(s.x # b.x) => Pixels(left) = {}
    BY <1>1, <1>2, <1>4, InPixels
  <2> QED BY <2>1, <2>2, <2>3, IfOne
<1>11. third \in Seq(StackFrames) /\ Disjoint(BoxesOf(third)) /\ Px(third) = Pixels(s)
  <2>1. [w |-> s.w, h |-> s.h] \in Limits
    BY <1>1 DEF Limits
  <2>2. Cut(s, [w |-> s.w, h |-> s.h]) \in StackFrames
    BY <2>1, CutType
  <2>3. BoxesOf(third) = <<s>>
    BY DEF BoxesOf, Cut
  <2> QED BY <2>2, <2>3, PixelsOfOne
<1>12. fourth \in Seq(StackFrames) /\ Disjoint(BoxesOf(fourth)) /\ Px(fourth) = Pixels(right)
  <2>1. TightCall(right).box = right
    BY DEF TightCall
  <2>2. s.x + s.w # b.x + b.w => TightCall(right) \in StackFrames
    BY <1>7, TightType
  <2>3. ~(s.x + s.w # b.x + b.w) => Pixels(right) = {}
    BY <1>1, <1>2, <1>4, InPixels
  <2> QED BY <2>1, <2>2, <2>3, IfOne
<1>13. fifth \in Seq(StackFrames) /\ Disjoint(BoxesOf(fifth)) /\ Px(fifth) = Pixels(below)
  <2>1. TightCall(below).box = below
    BY DEF TightCall
  <2>2. s.y + s.h # b.y + b.h => TightCall(below) \in StackFrames
    BY <1>8, TightType
  <2>3. ~(s.y + s.h # b.y + b.h) => Pixels(below) = {}
    BY <1>1, <1>2, <1>4, InPixels
  <2> QED BY <2>1, <2>2, <2>3, IfOne
<1>14. Around(b, s) = first \o second \o third \o fourth \o fifth
  BY DEF Around, above, left, right, below
<1> HIDE DEF first, second, third, fourth, fifth
<1>15. \A p : p \in Pixels(b) <=> \/ p \in Pixels(above) \/ p \in Pixels(left)
                                  \/ p \in Pixels(s) \/ p \in Pixels(right)
                                  \/ p \in Pixels(below)
  BY <1>1, <1>2, <1>3, <1>4, InPixels
<1>16. \A p : /\ ~(p \in Pixels(above) /\ p \in Pixels(left))
             /\ ~((p \in Pixels(above) \/ p \in Pixels(left)) /\ p \in Pixels(s))
             /\ ~((p \in Pixels(above) \/ p \in Pixels(left) \/ p \in Pixels(s))
                    /\ p \in Pixels(right))
             /\ ~((p \in Pixels(above) \/ p \in Pixels(left) \/ p \in Pixels(s)
                     \/ p \in Pixels(right)) /\ p \in Pixels(below))
  BY <1>1, <1>2, <1>3, <1>4, InPixels
<1> DEFINE two == first \o second
           three == two \o third
           four == three \o fourth
           five == four \o fifth
<1>17. two \in Seq(StackFrames) /\ Disjoint(BoxesOf(two))
       /\ Px(two) = Pixels(above) \cup Pixels(left)
  BY <1>9, <1>10, <1>16, FramesConcat
<1> HIDE DEF two
<1>18. three \in Seq(StackFrames) /\ Disjoint(BoxesOf(three))
       /\ Px(three) = Pixels(above) \cup Pixels(left) \cup Pixels(s)
  BY <1>11, <1>16, <1>17, FramesConcat
<1> HIDE DEF three
<1>19. four \in Seq(StackFrames) /\ Disjoint(BoxesOf(four))
       /\ Px(four) = Pixels(above) \cup Pixels(left) \cup Pixels(s) \cup Pixels(right)
  BY <1>12, <1>16, <1>18, FramesConcat
<1> HIDE DEF four
<1>20. five \in Seq(StackFrames) /\ Disjoint(BoxesOf(five))
       /\ Px(five) = Pixels(above) \cup Pixels(left) \cup Pixels(s) \cup Pixels(right)
                       \cup Pixels(below)
  BY <1>13, <1>16, <1>19, FramesConcat
<1>21. Around(b, s) = five
  BY <1>14 DEF two, three, four
<1> QED BY <1>15, <1>20, <1>21 DEF Divide

-----------------------------------------------------------------------------
(* What is left to be sent, when the call on top of the stack is replaced  *)
(* and when it is not.                                                     *)

(* What is to be sent depends on the client's scaling, which no message    *)
(* changes.                                                                *)
LEMMA Rigid ==
  ASSUME scale' = scale, region' = region
  PROVE  /\ ToSendOf(region)' = ToSendOf(region)
         /\ todo' = todo => TodoBoxes' = TodoBoxes
  BY DEF ToSendOf, TodoBoxes, ToSend, Scaled

(* What the loop has not come to is on the screen when it is sent.         *)
LEMMA TodoBoxesType ==
  ASSUME scale \in Nat \ {0}, NEW r \in Seq(OnScreen)
  PROVE  ToSendOf(r) \in Seq(OnScreen) /\ Len(ToSendOf(r)) = Len(r)
<1>1. \A i \in 1..Len(r) : ToSend(r[i]) \in OnScreen
  BY ToSendType, ElementOfSeq
<1>2. DOMAIN r = 1..Len(r) /\ Len(r) \in Nat
  BY LenProperties
<1> QED BY <1>1, <1>2 DEF ToSendOf

(* The stack is its top and the rest.                                      *)
LEMMA TopProperties ==
  ASSUME FrameInv, stack # <<>>
  PROVE  /\ Top \in StackFrames /\ Tail(stack) \in Seq(StackFrames)
         /\ stack = <<Top>> \o Tail(stack)
<1>1. Top \in StackFrames /\ Tail(stack) \in Seq(StackFrames)
  BY HeadTailProperties DEF FrameInv, Top
<1>2. stack = <<Top>> \o Tail(stack)
  BY DEF FrameInv, Top
<1> QED BY <1>1, <1>2

(* So are its rectangles.                                                  *)
LEMMA FrameBoxes ==
  ASSUME NEW s \in Seq(StackFrames), NEW t \in Seq(StackFrames)
  PROVE  /\ BoxesOf(s) \in Seq(OnScreen) /\ BoxesOf(t) \in Seq(OnScreen)
         /\ BoxesOf(s \o t) = BoxesOf(s) \o BoxesOf(t)
         /\ s \o t \in Seq(StackFrames)
<1>1. \A f \in StackFrames : f.box \in OnScreen
  BY DEF StackFrames
<1> QED BY <1>1, BoxesType, BoxesConcat, ConcatProperties

(* The call on top makes others instead, for the same pixels, or sends     *)
(* some of them.                                                           *)
LEMMA LeftAfter ==
  ASSUME FrameInv, scale \in Nat \ {0}, stack # <<>>,
         NEW frames \in Seq(StackFrames), NEW rest,
         rest = BoxesOf(Tail(stack)) \o TodoBoxes,
         stack' = frames \o Tail(stack), todo' = todo, scale' = scale, region' = region
  PROVE  /\ Left = <<Top.box>> \o rest
         /\ Left' = BoxesOf(frames) \o rest
         /\ rest \in Seq(OnScreen) /\ Top.box \in OnScreen
         /\ BoxesOf(frames) \in Seq(OnScreen)
         /\ FrameInv'
<1> DEFINE tail == Tail(stack)
<1>1. Top \in StackFrames /\ tail \in Seq(StackFrames) /\ stack = <<Top>> \o tail
  BY TopProperties
<1>2. TodoBoxes \in Seq(OnScreen)
  BY TodoBoxesType DEF FrameInv, TodoBoxes, ToSendOf
<1>3. <<Top>> \in Seq(StackFrames) /\ Top.box \in OnScreen /\ <<Top.box>> \in Seq(OnScreen)
  BY <1>1 DEF StackFrames
<1>4. BoxesOf(<<Top>>) = <<Top.box>>
  BY DEF BoxesOf
<1>5. StackBoxes = BoxesOf(stack) /\ StackBoxes' = BoxesOf(stack')
  BY DEF StackBoxes, BoxesOf
<1> HIDE DEF tail
<1>6. /\ BoxesOf(tail) \in Seq(OnScreen) /\ BoxesOf(frames) \in Seq(OnScreen)
      /\ BoxesOf(stack) = <<Top.box>> \o BoxesOf(tail)
      /\ BoxesOf(stack') = BoxesOf(frames) \o BoxesOf(tail)
      /\ stack' \in Seq(StackFrames)
  BY <1>1, <1>3, <1>4, FrameBoxes, ZenonT(60) DEF tail
<1>7. TodoBoxes' = TodoBoxes
  BY Rigid
<1>8. rest \in Seq(OnScreen)
  BY <1>2, <1>6, ConcatProperties DEF tail
<1>9. Left = <<Top.box>> \o rest
  BY <1>2, <1>3, <1>5, <1>6, ConcatAssociative DEF Left, tail
<1>10. Left' = BoxesOf(frames) \o rest
  <2>1. Left' = (BoxesOf(frames) \o BoxesOf(tail)) \o TodoBoxes
    BY <1>5, <1>6, <1>7 DEF Left
  <2>2. BoxesOf(tail) \in Seq(OnScreen) /\ BoxesOf(frames) \in Seq(OnScreen)
    BY <1>6
  <2>3. (BoxesOf(frames) \o BoxesOf(tail)) \o TodoBoxes = BoxesOf(frames) \o (BoxesOf(tail) \o TodoBoxes)
    BY <1>2, <2>2, ConcatAssociative
  <2> QED BY <2>1, <2>3 DEF tail
<1> QED BY <1>3, <1>6, <1>8, <1>9, <1>10 DEF FrameInv

(* The pixels that are left stay the same when calls divide the rectangle  *)
(* of the top,                                                             *)
LEMMA BecomesKeeps ==
  ASSUME FrameInv, CoverInv, OnceInv, scale \in Nat \ {0}, stack # <<>>,
         NEW frames \in Seq(StackFrames), Divide(BoxesOf(frames), Top.box),
         stack' = frames \o Tail(stack), todo' = todo, scale' = scale, region' = region,
         covered' = covered
  PROVE  FrameInv' /\ CoverInv' /\ OnceInv'
<1> DEFINE rest == BoxesOf(Tail(stack)) \o TodoBoxes
<1>1. /\ Left = <<Top.box>> \o rest /\ Left' = BoxesOf(frames) \o rest
      /\ rest \in Seq(OnScreen) /\ Top.box \in OnScreen
      /\ BoxesOf(frames) \in Seq(OnScreen) /\ FrameInv'
  BY LeftAfter
<1> HIDE DEF rest
<1>2. PixelsOf(Left') = PixelsOf(Left) /\ (Disjoint(Left) => Disjoint(Left'))
  BY <1>1, DividedInPlace DEF Divide
<1>3. ToSendOf(region)' = ToSendOf(region)
  BY Rigid
<1>4. PixelsOf(Left)' = PixelsOf(Left') /\ (Disjoint(Left)' <=> Disjoint(Left'))
  BY DEF PixelsOf, Disjoint
<1>5. PixelsOf(ToSendOf(region))' = PixelsOf(ToSendOf(region))
  BY <1>3 DEF PixelsOf
<1> QED BY <1>1, <1>2, <1>4, <1>5 DEF CoverInv, OnceInv

(* and lose the piece that is sent.                                        *)
LEMMA SendKeeps ==
  ASSUME FrameInv, CoverInv, OnceInv, scale \in Nat \ {0}, stack # <<>>,
         NEW frames \in Seq(StackFrames), NEW piece \in OnScreen,
         Divide(<<piece>> \o BoxesOf(frames), Top.box),
         stack' = frames \o Tail(stack), todo' = todo, scale' = scale, region' = region,
         covered' = covered \cup Pixels(piece)
  PROVE  FrameInv' /\ CoverInv' /\ OnceInv'
<1> DEFINE rest == BoxesOf(Tail(stack)) \o TodoBoxes
<1>1. /\ Left = <<Top.box>> \o rest /\ Left' = BoxesOf(frames) \o rest
      /\ rest \in Seq(OnScreen) /\ Top.box \in OnScreen
      /\ BoxesOf(frames) \in Seq(OnScreen) /\ FrameInv'
  BY LeftAfter
<1> HIDE DEF rest
<1> DEFINE all == <<piece>> \o BoxesOf(frames)
<1>2. /\ <<piece>> \in Seq(OnScreen) /\ all \in Seq(OnScreen) /\ Left' \in Seq(OnScreen)
      /\ all \o rest = <<piece>> \o Left'
  BY <1>1, ConcatProperties, ConcatAssociative
<1> HIDE DEF all
<1>3. PixelsOf(all \o rest) = PixelsOf(Left) /\ (Disjoint(Left) => Disjoint(all \o rest))
  BY <1>1, <1>2, DividedInPlace DEF Divide, all
<1>4. PixelsOf(<<piece>> \o Left') = Pixels(piece) \cup PixelsOf(Left')
  BY <1>2, OneBefore
<1>5. Disjoint(<<piece>> \o Left') => Disjoint(Left') /\ Pixels(piece) \cap PixelsOf(Left') = {}
  BY <1>2, OneBefore
<1>6. ToSendOf(region)' = ToSendOf(region)
  BY Rigid
<1>7. PixelsOf(Left)' = PixelsOf(Left') /\ (Disjoint(Left)' <=> Disjoint(Left'))
  BY DEF PixelsOf, Disjoint
<1>8. PixelsOf(ToSendOf(region))' = PixelsOf(ToSendOf(region))
  BY <1>6 DEF PixelsOf
<1>9. CoverInv'
  BY <1>2, <1>3, <1>4, <1>7, <1>8 DEF CoverInv
<1>10. OnceInv'
  BY <1>2, <1>3, <1>4, <1>5, <1>7 DEF OnceInv
<1> QED BY <1>1, <1>9, <1>10

(* A call that only makes others keeps all of Core.                        *)
LEMMA BecomesStep ==
  ASSUME Core, phase = "rects", stack # <<>>,
         NEW frames \in Seq(StackFrames), Divide(BoxesOf(frames), Top.box), Becomes(frames)
  PROVE  Core'
<1>1. /\ stack' = frames \o Tail(stack) /\ todo' = todo /\ covered' = covered
      /\ encoding' = encoding /\ lastRect' = lastRect /\ scale' = scale /\ region' = region
      /\ phase' = phase /\ cursor' = cursor /\ position' = position /\ count' = count
      /\ header' = header /\ flushed' = flushed /\ sent' = sent
  BY DEF Becomes, clientVars
<1>2. FrameInv' /\ CoverInv' /\ OnceInv'
  BY <1>1, BecomesKeeps, ScaleType DEF Core
<1>3. PhaseInv'
  BY <1>1 DEF PhaseInv
<1>4. stack' \in Seq(Frames)
  BY <1>2, SeqMonotonic DEF FrameInv, StackFrames
<1>5. TypeOK'
  BY <1>1, <1>4 DEF TypeOK, Core
<1> QED BY <1>2, <1>3, <1>5 DEF Core

(* What is not about the region's rectangles leaves them alone.            *)
LEMMA SameLeft ==
  ASSUME FrameInv, CoverInv, OnceInv, stack' = stack, todo' = todo, scale' = scale,
         region' = region, covered' = covered
  PROVE  FrameInv' /\ CoverInv' /\ OnceInv'
<1>1. ToSendOf(region)' = ToSendOf(region) /\ TodoBoxes' = TodoBoxes
  BY Rigid
<1>2. Left' = Left
  BY <1>1 DEF Left, StackBoxes
<1>3. /\ PixelsOf(Left)' = PixelsOf(Left) /\ (Disjoint(Left)' <=> Disjoint(Left))
      /\ PixelsOf(ToSendOf(region))' = PixelsOf(ToSendOf(region))
  BY <1>1, <1>2 DEF PixelsOf, Disjoint
<1> QED BY <1>3 DEF FrameInv, CoverInv, OnceInv

(* No message: nothing is covered and nothing left.                        *)
LEMMA NothingLeft ==
  ASSUME stack = <<>>, todo = <<>>, region = <<>>, covered = {}
  PROVE  FrameInv /\ CoverInv /\ OnceInv
<1>1. FrameInv
  BY DEF FrameInv
<1>2. StackBoxes = <<>> /\ TodoBoxes = <<>> /\ ToSendOf(region) = <<>>
  BY DEF StackBoxes, TodoBoxes, ToSendOf
<1>3. Left = <<>>
  BY <1>2, ConcatEmptySeq, EmptySeq DEF Left
<1> QED BY <1>1, <1>2, <1>3, PixelsOfNone DEF CoverInv, OnceInv

-----------------------------------------------------------------------------
(* What is counted for rectangles and calls.                               *)

(* A rectangle is counted for a number of rectangles, 0 when it is open,   *)
LEMMA RectCountType ==
  ASSUME NEW kind, NEW last, NEW b \in OnScreen
  PROVE  RectCount(kind, last, b) \in Nat
<1>1. b.w \in Nat \ {0} /\ b.h \in Nat \ {0}
  BY BoxSizes
<1>2. MaxRows(b.w) \in Nat \ {0} /\ ZlibMaxSize(b.w) \div b.w \in Nat \ {0}
      /\ CorreMax \in Nat \ {0} /\ MaxRectWidth \in Nat \ {0}
  BY <1>1, RowsOfRects, RowsOfZlib, Constants DEF ConstantsType
<1>3. /\ Pieces(b.w, CorreMax) \in Nat /\ Pieces(b.h, CorreMax) \in Nat
      /\ Pieces(b.h, ZlibMaxSize(b.w) \div b.w) \in Nat
      /\ Pieces(b.w, MaxRectWidth) \in Nat /\ Pieces(b.h, MaxRows(b.w)) \in Nat
  BY <1>1, <1>2, PiecesType
<1>4. NumCodedRectsTight(last, b) \in Nat
  BY <1>3 DEF NumCodedRectsTight
<1> QED BY <1>3, <1>4 DEF RectCount

(* and so is each of a region,                                             *)
LEMMA RectCountsType ==
  ASSUME NEW kind, NEW last, NEW r \in Seq(OnScreen)
  PROVE  /\ RectCounts(kind, last, r) \in Seq(Nat)
         /\ Len(RectCounts(kind, last, r)) = Len(r)
         /\ \A i \in 1..Len(r) : RectCounts(kind, last, r)[i] = RectCount(kind, last, r[i])
<1>1. \A i \in 1..Len(r) : RectCount(kind, last, r[i]) \in Nat
  BY RectCountType, ElementOfSeq
<1>2. DOMAIN r = 1..Len(r) /\ Len(r) \in Nat
  BY LenProperties
<1> QED BY <1>1, <1>2 DEF RectCounts

(* the first besides the rest.                                             *)
LEMMA RectCountsOfTail ==
  ASSUME NEW kind, NEW last, NEW s \in Seq(OnScreen), s # <<>>
  PROVE  Total(RectCounts(kind, last, s)) =
           RectCount(kind, last, Head(s)) + Total(RectCounts(kind, last, Tail(s)))
<1> DEFINE c == RectCounts(kind, last, s)
           d == RectCounts(kind, last, Tail(s))
<1>1. /\ Tail(s) \in Seq(OnScreen) /\ Len(Tail(s)) = Len(s) - 1 /\ Head(s) = s[1]
      /\ \A i \in 1..Len(s) - 1 : Tail(s)[i] = s[i + 1]
      /\ Len(s) \in Nat \ {0}
  BY HeadTailProperties, LenProperties
<1>2. /\ c \in Seq(Nat) /\ Len(c) = Len(s)
      /\ \A i \in 1..Len(s) : c[i] = RectCount(kind, last, s[i])
      /\ d \in Seq(Nat) /\ Len(d) = Len(s) - 1
      /\ \A i \in 1..Len(s) - 1 : d[i] = RectCount(kind, last, Tail(s)[i])
  <2>1. /\ c \in Seq(Nat) /\ Len(c) = Len(s)
        /\ \A i \in 1..Len(s) : c[i] = RectCount(kind, last, s[i])
    BY RectCountsType
  <2>2. /\ d \in Seq(Nat) /\ Len(d) = Len(Tail(s))
        /\ \A i \in 1..Len(Tail(s)) : d[i] = RectCount(kind, last, Tail(s)[i])
    BY <1>1, RectCountsType, ZenonT(60)
  <2> QED BY <1>1, <2>1, <2>2
<1> HIDE DEF c, d
<1>3. c # <<>>
  BY <1>1, <1>2
<1>4. /\ Tail(c) \in Seq(Nat) /\ Len(Tail(c)) = Len(c) - 1 /\ Head(c) = c[1]
      /\ \A i \in 1..Len(c) - 1 : Tail(c)[i] = c[i + 1]
  BY <1>2, <1>3, HeadTailProperties
<1>5. \A i \in 1..Len(d) : Tail(c)[i] = d[i]
  <2> SUFFICES ASSUME NEW i \in 1..Len(d) PROVE Tail(c)[i] = d[i]
    OBVIOUS
  <2>1. i \in 1..Len(s) - 1 /\ i + 1 \in 1..Len(s)
    BY <1>1, <1>2
  <2> QED BY <1>1, <1>2, <1>4, <2>1
<1>6. Tail(c) = d
  BY <1>2, <1>4, <1>5, SeqEqual
<1>7. Head(c) = RectCount(kind, last, Head(s))
  BY <1>1, <1>2, <1>4
<1>8. Total(c) = Head(c) + Total(Tail(c))
  BY <1>2, <1>3, TotalOfTail
<1> QED BY <1>6, <1>7, <1>8 DEF c, d

(* Only Tight leaves the number of a rectangle open, for a client that     *)
(* knows LastRect.                                                         *)
LEMMA OpenCount ==
  ASSUME NEW kind, NEW last \in BOOLEAN, NEW b \in OnScreen, ~(RectCount(kind, last, b) > 0)
  PROVE  kind = "Tight" /\ last
<1>1. b.w \in Nat \ {0} /\ b.h \in Nat \ {0}
  BY BoxSizes
<1>2. MaxRows(b.w) \in Nat \ {0} /\ ZlibMaxSize(b.w) \div b.w \in Nat \ {0}
      /\ CorreMax \in Nat \ {0} /\ MaxRectWidth \in Nat \ {0}
  BY <1>1, RowsOfRects, RowsOfZlib, Constants DEF ConstantsType
<1>3. /\ Pieces(b.w, CorreMax) \in Nat \ {0} /\ Pieces(b.h, CorreMax) \in Nat \ {0}
      /\ Pieces(b.h, ZlibMaxSize(b.w) \div b.w) \in Nat \ {0}
      /\ Pieces(b.w, MaxRectWidth) \in Nat \ {0} /\ Pieces(b.h, MaxRows(b.w)) \in Nat \ {0}
  BY <1>1, <1>2, PiecesType
<1>4. \A m, n \in Nat \ {0} : m * n > 0
  OBVIOUS
<1>5. ~last => NumCodedRectsTight(last, b) > 0
  BY <1>3, <1>4 DEF NumCodedRectsTight
<1>6. Pieces(b.w, CorreMax) * Pieces(b.h, CorreMax) > 0
  BY <1>3, <1>4
<1>7. Pieces(b.h, ZlibMaxSize(b.w) \div b.w) > 0
  BY <1>3
<1>8. CASE kind = "CoRRE"
  BY <1>6, <1>8 DEF RectCount
<1>9. CASE kind = "Zlib"
  BY <1>7, <1>9 DEF RectCount
<1>10. CASE kind = "Tight"
  BY <1>5, <1>10 DEF RectCount
<1>11. CASE kind \notin {"CoRRE", "Zlib", "Tight"}
  <2>1. RectCount(kind, last, b) = 1
    BY <1>11 DEF RectCount
  <2> QED BY <2>1
<1> QED BY <1>8, <1>9, <1>10, <1>11

(* A call that cuts sends at least one rectangle.                          *)
LEMMA FrameCountType ==
  ASSUME NEW f \in StackFrames
  PROVE  FrameCount(f) \in Nat /\ (f.call = "cut" => FrameCount(f) > 0)
<1>1. CASE f.call = "cut"
  <2>1. /\ f.box.w \in Nat \ {0} /\ f.box.h \in Nat \ {0}
        /\ f.limits.w \in Nat \ {0} /\ f.limits.h \in Nat \ {0}
    BY <1>1, FrameKinds, BoxSizes DEF Limits
  <2>2. Pieces(f.box.w, f.limits.w) \in Nat \ {0} /\ Pieces(f.box.h, f.limits.h) \in Nat \ {0}
    BY <2>1, PiecesType
  <2>3. \A m, n \in Nat \ {0} : m * n \in Nat \ {0}
    OBVIOUS
  <2>4. Pieces(f.box.w, f.limits.w) * Pieces(f.box.h, f.limits.h) \in Nat \ {0}
    BY <2>2, <2>3
  <2> QED BY <1>1, <2>4 DEF FrameCount
<1>2. CASE f.call # "cut"
  <2>1. RectCount("Tight", lastRect, f.box) \in Nat
    BY FrameKinds, RectCountType
  <2> QED BY <1>2, <2>1 DEF FrameCount
<1> QED BY <1>1, <1>2

(* So is each call of the stack,                                           *)
LEMMA FrameCountsType ==
  ASSUME NEW s \in Seq(StackFrames)
  PROVE  /\ FrameCounts(s) \in Seq(Nat)
         /\ Len(FrameCounts(s)) = Len(s)
         /\ \A i \in 1..Len(s) : FrameCounts(s)[i] = FrameCount(s[i])
<1>1. \A i \in 1..Len(s) : FrameCount(s[i]) \in Nat
  BY FrameCountType, ElementOfSeq
<1>2. DOMAIN s = 1..Len(s) /\ Len(s) \in Nat
  BY LenProperties
<1> QED BY <1>1, <1>2 DEF FrameCounts

(* the one on top besides those below,                                     *)
LEMMA FrameCountsOfTail ==
  ASSUME NEW s \in Seq(StackFrames), s # <<>>
  PROVE  Total(FrameCounts(s)) = FrameCount(Head(s)) + Total(FrameCounts(Tail(s)))
<1> DEFINE c == FrameCounts(s)
           d == FrameCounts(Tail(s))
<1>1. /\ Tail(s) \in Seq(StackFrames) /\ Len(Tail(s)) = Len(s) - 1 /\ Head(s) = s[1]
      /\ \A i \in 1..Len(s) - 1 : Tail(s)[i] = s[i + 1]
      /\ Len(s) \in Nat \ {0}
  BY HeadTailProperties, LenProperties
<1>2. /\ c \in Seq(Nat) /\ Len(c) = Len(s) /\ \A i \in 1..Len(s) : c[i] = FrameCount(s[i])
      /\ d \in Seq(Nat) /\ Len(d) = Len(s) - 1
      /\ \A i \in 1..Len(s) - 1 : d[i] = FrameCount(Tail(s)[i])
  BY <1>1, FrameCountsType
<1> HIDE DEF c, d
<1>3. c # <<>>
  BY <1>1, <1>2
<1>4. /\ Tail(c) \in Seq(Nat) /\ Len(Tail(c)) = Len(c) - 1 /\ Head(c) = c[1]
      /\ \A i \in 1..Len(c) - 1 : Tail(c)[i] = c[i + 1]
  BY <1>2, <1>3, HeadTailProperties
<1>5. \A i \in 1..Len(d) : Tail(c)[i] = d[i]
  <2> SUFFICES ASSUME NEW i \in 1..Len(d) PROVE Tail(c)[i] = d[i]
    OBVIOUS
  <2>1. i \in 1..Len(s) - 1 /\ i + 1 \in 1..Len(s)
    BY <1>1, <1>2
  <2> QED BY <1>1, <1>2, <1>4, <2>1
<1>6. Tail(c) = d
  BY <1>2, <1>4, <1>5, SeqEqual
<1>7. Head(c) = FrameCount(Head(s))
  BY <1>1, <1>2, <1>4
<1>8. Total(c) = Head(c) + Total(Tail(c))
  BY <1>2, <1>3, TotalOfTail
<1> QED BY <1>6, <1>7, <1>8 DEF c, d

(* and a call that is put on top.                                          *)
LEMMA FrameCountsOfPrepended ==
  ASSUME NEW f \in StackFrames, NEW s \in Seq(StackFrames)
  PROVE  Total(FrameCounts(<<f>> \o s)) = FrameCount(f) + Total(FrameCounts(s))
<1>1. /\ <<f>> \o s \in Seq(StackFrames) /\ <<f>> \o s # <<>>
      /\ Head(<<f>> \o s) = f /\ Tail(<<f>> \o s) = s
  OBVIOUS
<1> QED BY <1>1, FrameCountsOfTail

(* Both sums are numbers.                                                  *)
LEMMA CountsType ==
  ASSUME FrameInv
  PROVE  StackCount \in Nat /\ TodoCount \in Nat
<1>1. FrameCounts(stack) \in Seq(Nat) /\ RectCounts(encoding, lastRect, todo) \in Seq(Nat)
  BY FrameCountsType, RectCountsType DEF FrameInv
<1> QED BY <1>1, TotalType DEF StackCount, TodoCount

(* The counts are those of the client the message is for.                  *)
LEMMA CountsRigid ==
  ASSUME encoding' = encoding, lastRect' = lastRect
  PROVE  /\ StackCount' = Total(FrameCounts(stack'))
         /\ TodoCount' = Total(RectCounts(encoding, lastRect, todo'))
         /\ \A f : Countable(f)' <=> Countable(f)
<1>1. FrameCounts(stack)' = FrameCounts(stack')
  BY DEF FrameCounts, FrameCount
<1> QED BY <1>1 DEF StackCount, TodoCount, Total, Countable, FrameCount

(* A call that cuts sends its bands times the pieces of a band.            *)
LEMMA CutCount ==
  ASSUME NEW b, NEW l
  PROVE  /\ FrameCount(Cut(b, l)) = Pieces(b.w, l.w) * Pieces(b.h, l.h)
         /\ Cut(b, l).call = "cut"
  BY DEF FrameCount, Cut

(* rfbNumCodedRectsTight and SendRectSimple cut alike.                     *)
LEMMA SimpleCount ==
  ASSUME NEW b \in OnScreen, RectCount("Tight", lastRect, b) > 0
  PROVE  FrameCount(Simple(b)) = RectCount("Tight", lastRect, b)
<1>1. b.w \in Nat \ {0} /\ b.h \in Nat \ {0} /\ MaxRectWidth \in Nat \ {0}
  BY BoxSizes, Constants DEF ConstantsType
<1>2. RectCount("Tight", lastRect, b) = NumCodedRectsTight(lastRect, b)
  BY DEF RectCount
<1>3. NumCodedRectsTight(lastRect, b) =
        IF b.w > MaxRectWidth \/ Area(b) > MaxRectSize
        THEN Pieces(b.w, MaxRectWidth) * Pieces(b.h, MaxRows(b.w)) ELSE 1
  BY <1>2 DEF NumCodedRectsTight
<1>4. FrameCount(Simple(b)) = Pieces(b.w, SimpleLimits(b).w) * Pieces(b.h, SimpleLimits(b).h)
  BY CutCount DEF Simple
<1>5. CASE b.w > MaxRectWidth \/ Area(b) > MaxRectSize
  <2>1. SimpleLimits(b).w = Least(b.w, MaxRectWidth) /\ SimpleLimits(b).h = MaxRows(b.w)
    BY <1>5 DEF SimpleLimits
  <2>2. CASE b.w <= MaxRectWidth
    <3>1. Least(b.w, MaxRectWidth) = b.w
      BY <2>2 DEF Least
    <3>2. Pieces(b.w, b.w) = 1 /\ Pieces(b.w, MaxRectWidth) = 1
      BY <1>1, <2>2, PiecesOfShort
    <3> QED BY <1>2, <1>3, <1>4, <1>5, <2>1, <3>1, <3>2
  <2>3. CASE ~(b.w <= MaxRectWidth)
    <3>1. Least(b.w, MaxRectWidth) = MaxRectWidth
      BY <2>3 DEF Least
    <3> QED BY <1>2, <1>3, <1>4, <1>5, <2>1, <3>1
  <2> QED BY <2>2, <2>3
<1>6. CASE ~(b.w > MaxRectWidth \/ Area(b) > MaxRectSize)
  <2>1. SimpleLimits(b).w = b.w /\ SimpleLimits(b).h = b.h
    BY <1>6 DEF SimpleLimits
  <2>2. Pieces(b.w, b.w) = 1 /\ Pieces(b.h, b.h) = 1
    BY <1>1, PiecesOfShort
  <2> QED BY <1>2, <1>3, <1>4, <1>6, <2>1, <2>2
<1> QED BY <1>5, <1>6

(* Every encoding cuts a rectangle into as many as were counted for it.    *)
LEMMA EncoderCount ==
  ASSUME NEW b \in OnScreen, RectCount(encoding, lastRect, b) > 0
  PROVE  /\ FrameCount(EncoderCall(b)) = RectCount(encoding, lastRect, b)
         /\ Countable(EncoderCall(b))
<1>1. b.w \in Nat \ {0} /\ b.h \in Nat \ {0}
  BY BoxSizes
<1>2. Pieces(b.w, b.w) = 1 /\ Pieces(b.h, b.h) = 1
  BY <1>1, PiecesOfShort
<1>3. Pieces(b.h, ZlibMaxSize(b.w) \div b.w) \in Nat
  BY <1>1, RowsOfZlib, PiecesType
<1>4. FrameCount(EncoderCall(b)) = RectCount(encoding, lastRect, b)
  <2>1. CASE encoding = "CoRRE"
    <3>1. EncoderCall(b) = Cut(b, CorreLimits(b))
      BY <2>1 DEF EncoderCall
    <3> QED BY <2>1, <3>1, CutCount DEF CorreLimits, RectCount
  <2>2. CASE encoding = "Zlib"
    <3>1. EncoderCall(b) = Cut(b, ZlibLimits(b))
      BY <2>2 DEF EncoderCall
    <3>2. FrameCount(Cut(b, ZlibLimits(b)))
            = Pieces(b.w, b.w) * Pieces(b.h, ZlibMaxSize(b.w) \div b.w)
      BY CutCount DEF ZlibLimits
    <3>3. FrameCount(Cut(b, ZlibLimits(b))) = Pieces(b.h, ZlibMaxSize(b.w) \div b.w)
      BY <1>2, <1>3, <3>2
    <3> QED BY <2>2, <3>1, <3>3 DEF RectCount
  <2>3. CASE encoding = "Tight"
    <3>1. EncoderCall(b) = TightCall(b)
      BY <2>3 DEF EncoderCall
    <3> QED BY <2>3, <3>1 DEF TightCall, FrameCount
  <2>4. CASE encoding \notin {"CoRRE", "Zlib", "Tight"}
    <3>1. EncoderCall(b) = Cut(b, [w |-> b.w, h |-> b.h])
      BY <2>4 DEF EncoderCall
    <3>2. RectCount(encoding, lastRect, b) = 1
      BY <2>4 DEF RectCount
    <3> QED BY <1>2, <3>1, <3>2, CutCount
  <2> QED BY <2>1, <2>2, <2>3, <2>4
<1>5. EncoderCall(b).call # "search"
  BY DEF EncoderCall, Cut, TightCall
<1> QED BY <1>4, <1>5 DEF Countable

-----------------------------------------------------------------------------
(* Every step keeps Core.                                                  *)

(* Initially nothing is covered and nothing left.                          *)
LEMMA InitCore == ASSUME Init PROVE Core
<1>1. FrameInv /\ CoverInv /\ OnceInv
  BY NothingLeft DEF Init
<1>2. PhaseInv
  BY DEF Init, PhaseInv
<1>3. TypeOK
  <2>1. /\ phase \in {"idle", "cursor", "position", "rects", "closed"}
        /\ encoding \in Encodings /\ lastRect \in BOOLEAN /\ scale \in Scales
        /\ cursor \in {"none", "fits", "overflows", "big"} /\ position \in BOOLEAN
        /\ flushed \in BOOLEAN
    BY DEF Init
  <2>2. {count, header, sent} \subseteq Nat
    BY DEF Init
  <2>3. /\ region \in Regions \cup {<<>>} /\ todo \in Seq(Boxes) /\ stack \in Seq(Frames)
        /\ covered \subseteq (0..Width - 1) \X (0..Height - 1)
    BY DEF Init
  <2> QED BY <2>1, <2>2, <2>3 DEF TypeOK
<1> QED BY <1>1, <1>2, <1>3 DEF Core

(* A message begins with all of its region left.                           *)
LEMMA BeginStep ==
  ASSUME Core, NEW r \in Regions, NEW shape \in {"none", "fits", "overflows", "big"},
         NEW moved \in BOOLEAN, Begin(r, shape, moved)
  PROVE  Core'
<1> DEFINE open == CountedRects(r) = LastRectCount
<1>1. /\ phase' = "cursor" /\ region' = r /\ todo' = r
      /\ cursor' = IF open THEN "none" ELSE shape
      /\ position' = (moved /\ ~open)
      /\ count' = IF open THEN LastRectCount
                  ELSE CountedRects(r) + One(shape # "none") + One(moved)
      /\ header' = count' % 65536 /\ flushed' = FALSE
      /\ stack' = <<>> /\ sent' = 0 /\ covered' = {}
      /\ encoding' = encoding /\ lastRect' = lastRect /\ scale' = scale
  BY DEF Begin
<1>2. r \in Seq(OnScreen) /\ Disjoint(r)
  BY RegionType
<1>3. CountedRects(r) \in Nat
  BY <1>2, RectCountsType, TotalType DEF CountedRects, LastRectCount
<1> HIDE DEF open
<1>4. FrameInv'
  BY <1>1, <1>2 DEF FrameInv
<1>5. /\ StackBoxes' = <<>> /\ TodoBoxes' = ToSendOf(r) /\ ToSendOf(region)' = ToSendOf(r)
  BY <1>1 DEF StackBoxes, TodoBoxes, ToSendOf, ToSend, Scaled
<1>6. Left' = ToSendOf(r)
  <2>1. ToSendOf(r) \in Seq(OnScreen)
    BY <1>2, TodoBoxesType, ScaleType DEF Core
  <2> QED BY <1>5, <2>1, ConcatEmptySeq DEF Left
<1>7. CoverInv'
  <2>1. PixelsOf(Left)' = PixelsOf(ToSendOf(region))'
    BY <1>5, <1>6 DEF PixelsOf
  <2> QED BY <1>1, <2>1 DEF CoverInv
<1>8. OnceInv'
  <2>1. scale = 1 => ToSendOf(r) = r
    BY <1>2 DEF ToSendOf, ToSend
  <2>2. scale = 1 => Disjoint(Left)'
    BY <1>2, <1>6, <2>1 DEF Disjoint
  <2> QED BY <1>1, <2>2 DEF OnceInv
<1>9. count' \in Nat /\ (cursor' # "none" => count' > 0)
  BY <1>1, <1>3 DEF One, LastRectCount
<1>10. PhaseInv'
  BY <1>1, <1>9 DEF PhaseInv
<1>11. todo' \in Seq(Boxes) /\ stack' \in Seq(Frames)
  BY <1>1, <1>2, SeqMonotonic DEF OnScreen
<1>12. TypeOK'
  <2>1. /\ phase' \in {"idle", "cursor", "position", "rects", "closed"}
        /\ flushed' \in BOOLEAN
    <3>1. phase' = "cursor" /\ flushed' = FALSE
      BY <1>1
    <3> QED BY <3>1
  <2>5. encoding' \in Encodings /\ lastRect' \in BOOLEAN /\ scale' \in Scales
    <3>1. encoding \in Encodings /\ lastRect \in BOOLEAN /\ scale \in Scales
      BY DEF Core, TypeOK
    <3> QED BY <1>1, <3>1
  <2>2. cursor' \in {"none", "fits", "overflows", "big"} /\ position' \in BOOLEAN
    BY <1>1
  <2>3. {count', header', sent'} \subseteq Nat
    BY <1>1, <1>9
  <2>4. region' \in Regions \cup {<<>>} /\ covered' \subseteq (0..Width - 1) \X (0..Height - 1)
    BY <1>1
  <2> QED BY <1>11, <2>1, <2>2, <2>3, <2>4, <2>5 DEF TypeOK
<1> QED BY <1>4, <1>7, <1>8, <1>10, <1>12 DEF Core

(* The cursor's shape, and                                                 *)
LEMMA SendCursorStep == ASSUME Core, SendCursor PROVE Core'
<1>1. /\ phase = "cursor" /\ phase' = "position"
      /\ count' = count - One(cursor = "big")
      /\ header' = IF cursor = "big" /\ ~flushed THEN count' % 65536 ELSE header
      /\ sent' = sent + One(cursor \in {"fits", "overflows"})
      /\ flushed' = (flushed \/ cursor = "overflows")
      /\ encoding' = encoding /\ lastRect' = lastRect /\ scale' = scale /\ region' = region
      /\ cursor' = cursor /\ position' = position /\ todo' = todo /\ stack' = stack
      /\ covered' = covered
  BY DEF SendCursor, clientVars
<1>2. FrameInv' /\ CoverInv' /\ OnceInv'
  BY <1>1, SameLeft DEF Core
<1>3. PhaseInv'
  BY <1>1 DEF Core, PhaseInv
<1>4. count' \in Nat
  BY <1>1 DEF Core, PhaseInv, TypeOK, One
<1>5. sent' \in Nat /\ header' \in Nat /\ flushed' \in BOOLEAN
  BY <1>1, <1>4 DEF Core, TypeOK, One
<1>6. TypeOK'
  BY <1>1, <1>4, <1>5 DEF Core, TypeOK
<1> QED BY <1>2, <1>3, <1>6 DEF Core

(* its position are no part of the region.                                 *)
LEMMA SendPositionStep == ASSUME Core, SendPosition PROVE Core'
<1>1. /\ phase = "position" /\ phase' = "rects"
      /\ sent' = sent + One(position) /\ flushed' = (flushed \/ position)
      /\ encoding' = encoding /\ lastRect' = lastRect /\ scale' = scale /\ region' = region
      /\ cursor' = cursor /\ position' = position /\ count' = count /\ header' = header
      /\ todo' = todo /\ stack' = stack /\ covered' = covered
  BY DEF SendPosition, clientVars
<1>2. FrameInv' /\ CoverInv' /\ OnceInv'
  BY <1>1, SameLeft DEF Core
<1>3. PhaseInv'
  BY <1>1 DEF PhaseInv
<1>4. sent' \in Nat /\ flushed' \in BOOLEAN
  BY <1>1 DEF Core, TypeOK, One
<1>5. TypeOK'
  BY <1>1, <1>4 DEF Core, TypeOK
<1> QED BY <1>2, <1>3, <1>5 DEF Core

(* The next rectangle of the region goes from the loop to the stack.       *)
LEMMA NextRectStep == ASSUME Core, NextRect PROVE Core'
<1> DEFINE b == ToSend(Head(todo))
           f == EncoderCall(b)
           t == Tail(todo)
<1>1. /\ phase = "rects" /\ stack = <<>> /\ todo # <<>> /\ stack' = <<f>> /\ todo' = t
      /\ encoding' = encoding /\ lastRect' = lastRect /\ scale' = scale /\ region' = region
      /\ phase' = phase /\ cursor' = cursor /\ position' = position /\ count' = count
      /\ header' = header /\ flushed' = flushed /\ sent' = sent /\ covered' = covered
  BY DEF NextRect, clientVars
<1>2. todo \in Seq(OnScreen) /\ Head(todo) \in OnScreen /\ t \in Seq(OnScreen)
      /\ todo = <<Head(todo)>> \o t
  BY <1>1, HeadTailProperties DEF Core, FrameInv
<1>3. b \in OnScreen
  BY <1>2, ToSendType, ScaleType DEF Core
<1>4. f \in StackFrames /\ f.box = b
  BY <1>3, EncoderCallType
<1>5. FrameInv'
  BY <1>1, <1>2, <1>4 DEF FrameInv
<1>6. StackBoxes' = <<b>> /\ TodoBoxes' = ToSendOf(t) /\ StackBoxes = <<>>
      /\ TodoBoxes = ToSendOf(todo) /\ ToSendOf(region)' = ToSendOf(region)
  <2>1. StackBoxes' = <<b>> /\ StackBoxes = <<>>
    <3> HIDE DEF f
    <3> QED BY <1>1, <1>4 DEF StackBoxes
  <2>2. TodoBoxes' = ToSendOf(t) /\ TodoBoxes = ToSendOf(todo)
    BY <1>1 DEF TodoBoxes, ToSendOf, ToSend, Scaled
  <2> QED BY <1>1, <2>1, <2>2, Rigid
<1>7. ToSendOf(todo) = <<b>> \o ToSendOf(t)
  <2>1. /\ ToSendOf(todo) \in Seq(OnScreen) /\ Len(ToSendOf(todo)) = Len(todo)
        /\ ToSendOf(t) \in Seq(OnScreen) /\ Len(ToSendOf(t)) = Len(t)
        /\ <<b>> \in Seq(OnScreen)
    <3>1. scale \in Nat \ {0} /\ todo \in Seq(OnScreen) /\ t \in Seq(OnScreen)
      BY <1>2, ScaleType DEF Core
    <3>2. <<b>> \in Seq(OnScreen)
      BY <1>3
    <3> HIDE DEF t, b
    <3> QED BY <3>1, <3>2, TodoBoxesType
  <2>2. /\ Len(t) = Len(todo) - 1 /\ Len(t) \in Nat
        /\ \A i \in 1..Len(t) : t[i] = todo[i + 1]
        /\ Head(todo) = todo[1] /\ DOMAIN todo = 1..Len(todo) /\ DOMAIN t = 1..Len(t)
    BY <1>1, <1>2, HeadTailProperties, LenProperties
  <2> HIDE DEF t
  <2>3. /\ <<b>> \o ToSendOf(t) \in Seq(OnScreen) /\ Len(<<b>> \o ToSendOf(t)) = Len(t) + 1
        /\ (<<b>> \o ToSendOf(t))[1] = b
        /\ \A i \in 2..Len(t) + 1 : (<<b>> \o ToSendOf(t))[i] = ToSendOf(t)[i - 1]
    <3> HIDE DEF b
    <3>1. Len(<<b>>) = 1 /\ <<b>>[1] = b
      OBVIOUS
    <3> QED BY <2>1, <2>2, <3>1, ConcatProperties
  <2>4. ToSendOf(todo)[1] = b
    BY <2>2 DEF ToSendOf
  <2>5. ASSUME NEW i \in 2..Len(todo)
        PROVE  ToSendOf(todo)[i] = ToSendOf(t)[i - 1]
    <3>1. i \in DOMAIN todo /\ i - 1 \in DOMAIN t /\ t[i - 1] = todo[i]
      BY <2>2
    <3> QED BY <3>1 DEF ToSendOf
  <2>6. \A i \in 1..Len(ToSendOf(todo)) : ToSendOf(todo)[i] = (<<b>> \o ToSendOf(t))[i]
    <3>1. \A i \in 1..Len(todo) : i = 1 \/ i \in 2..Len(todo)
      BY <2>2
    <3> QED BY <2>1, <2>2, <2>3, <2>4, <2>5, <3>1
  <2> HIDE DEF b
  <2>7. Len(ToSendOf(todo)) = Len(<<b>> \o ToSendOf(t))
    BY <2>1, <2>2, <2>3
  <2> QED BY <2>1, <2>3, <2>6, <2>7, SeqEqual
<1>8. Left = ToSendOf(todo)
  <2>1. ToSendOf(todo) \in Seq(OnScreen)
    BY <1>2, TodoBoxesType, ScaleType DEF Core
  <2> QED BY <1>6, <2>1, ConcatEmptySeq DEF Left
<1>9. Left' = <<b>> \o ToSendOf(t)
  BY <1>6 DEF Left
<1>10. /\ PixelsOf(Left)' = PixelsOf(Left) /\ (Disjoint(Left)' <=> Disjoint(Left))
       /\ PixelsOf(ToSendOf(region))' = PixelsOf(ToSendOf(region))
  BY <1>6, <1>7, <1>8, <1>9 DEF PixelsOf, Disjoint
<1>11. CoverInv' /\ OnceInv'
  BY <1>1, <1>10 DEF Core, CoverInv, OnceInv
<1>12. PhaseInv'
  BY <1>1 DEF PhaseInv
<1>13. todo' \in Seq(Boxes) /\ stack' \in Seq(Frames)
  BY <1>5, SeqMonotonic DEF FrameInv, OnScreen, StackFrames
<1>14. TypeOK'
  BY <1>1, <1>13 DEF Core, TypeOK
<1> QED BY <1>5, <1>11, <1>12, <1>14 DEF Core

(* A band and what is below it divide the rectangle.                       *)
LEMMA CutBandStep == ASSUME Core, CutBand PROVE Core'
<1> DEFINE b == Top.box
           l == Top.limits
<1>1. /\ phase = "rects" /\ stack # <<>> /\ Top.call = "cut" /\ b.h > l.h
      /\ Becomes(<<Cut(Upper(b, l.h), l), Cut(Lower(b, l.h), l)>>)
  BY DEF CutBand, Calls
<1>2. Top \in StackFrames
  BY <1>1, TopProperties DEF Core
<1>3. b \in OnScreen /\ l \in Limits /\ l.h \in Nat \ {0}
  BY <1>1, <1>2, FrameKinds DEF Limits
<1>4. /\ Upper(b, l.h) \in OnScreen /\ Lower(b, l.h) \in OnScreen
      /\ Divide(<<Upper(b, l.h), Lower(b, l.h)>>, b)
  BY <1>1, <1>3, CutBelow, BoxSizes
<1>5. /\ Cut(Upper(b, l.h), l) \in StackFrames /\ Cut(Lower(b, l.h), l) \in StackFrames
      /\ Cut(Upper(b, l.h), l).box = Upper(b, l.h) /\ Cut(Lower(b, l.h), l).box = Lower(b, l.h)
  BY <1>3, <1>4, CutType DEF Cut
<1>6. /\ <<Cut(Upper(b, l.h), l), Cut(Lower(b, l.h), l)>> \in Seq(StackFrames)
      /\ Divide(BoxesOf(<<Cut(Upper(b, l.h), l), Cut(Lower(b, l.h), l)>>), b)
  BY <1>4, <1>5, TwoCalls
<1> QED BY <1>1, <1>6, BecomesStep

(* What is sent and what is beside it divide the band.                     *)
LEMMA SendPieceStep == ASSUME Core, SendPiece PROVE Core'
<1> DEFINE b == Top.box
           l == Top.limits
           w == Least(b.w, l.w)
           piece == LeftPart(b, w)
           frames == IF b.w > l.w THEN <<Cut(RightPart(b, l.w), l)>> ELSE <<>>
<1>1. /\ phase = "rects" /\ stack # <<>> /\ Top.call = "cut"
      /\ stack' = IF b.w > l.w THEN <<Cut(RightPart(b, l.w), l)>> \o Tail(stack)
                  ELSE Tail(stack)
      /\ covered' = covered \cup Pixels(piece)
      /\ sent' = sent + 1
  BY DEF SendPiece, Calls
<1>2. /\ encoding' = encoding /\ lastRect' = lastRect /\ scale' = scale /\ region' = region
      /\ phase' = phase /\ cursor' = cursor /\ position' = position /\ count' = count
      /\ header' = header /\ flushed' = flushed /\ todo' = todo
  BY DEF SendPiece, clientVars
<1>3. Top \in StackFrames /\ Tail(stack) \in Seq(StackFrames)
  BY <1>1, TopProperties DEF Core
<1>4. b \in OnScreen /\ l \in Limits /\ l.w \in Nat \ {0}
  BY <1>1, <1>3, FrameKinds DEF Limits
<1>5. b.x \in Nat /\ b.y \in Nat /\ b.w \in Nat \ {0} /\ b.h \in Nat \ {0} /\ b \in Boxes
  BY <1>4, BoxSizes
<1>6. /\ frames \in Seq(StackFrames) /\ piece \in OnScreen
      /\ Divide(<<piece>> \o BoxesOf(frames), b)
      /\ stack' = frames \o Tail(stack)
  <2>1. CASE b.w > l.w
    <3> DEFINE f == Cut(RightPart(b, l.w), l)
    <3>1. w = l.w /\ frames = <<f>>
      BY <1>4, <1>5, <2>1 DEF Least
    <3>2. /\ piece \in OnScreen /\ RightPart(b, l.w) \in OnScreen
          /\ Divide(<<piece, RightPart(b, l.w)>>, b)
      BY <1>4, <2>1, <3>1, CutBeside
    <3>3. f \in StackFrames /\ f.box = RightPart(b, l.w)
      BY <1>4, <3>2, CutType DEF Cut
    <3>4. BoxesOf(frames) = <<RightPart(b, l.w)>>
      BY <3>1, <3>3 DEF BoxesOf
    <3>5. <<piece>> \o <<RightPart(b, l.w)>> = <<piece, RightPart(b, l.w)>>
      BY Pair
    <3>6. <<f>> \in Seq(StackFrames)
      BY <3>3
    <3> QED BY <1>1, <2>1, <3>1, <3>2, <3>4, <3>5, <3>6
  <2>2. CASE ~(b.w > l.w)
    <3>1. w = b.w /\ frames = <<>>
      BY <1>4, <1>5, <2>2 DEF Least
    <3>2. piece = b
      BY <1>4, <3>1 DEF LeftPart, Box, OnScreen, Boxes
    <3>3. BoxesOf(frames) = <<>> /\ <<piece>> \o <<>> = <<piece>>
      BY <3>1 DEF BoxesOf
    <3>4. Divide(<<piece>>, b)
      BY <3>2, PixelsOfOne DEF Divide
    <3>5. <<>> \o Tail(stack) = Tail(stack) /\ frames \in Seq(StackFrames)
      BY <1>3, <3>1, ConcatEmptySeq
    <3> QED BY <1>1, <1>4, <2>2, <3>1, <3>2, <3>3, <3>4, <3>5
  <2> QED BY <2>1, <2>2
<1>7. FrameInv' /\ CoverInv' /\ OnceInv'
  <2> HIDE DEF frames, piece
  <2> QED BY <1>1, <1>2, <1>6, SendKeeps, ScaleType DEF Core
<1>8. PhaseInv'
  BY <1>1, <1>2 DEF PhaseInv
<1>9. stack' \in Seq(Frames)
  BY <1>7, SeqMonotonic DEF FrameInv, StackFrames
<1>10. covered' \subseteq (0..Width - 1) \X (0..Height - 1)
  <2>1. Pixels(piece) \subseteq (0..Width - 1) \X (0..Height - 1)
    <3> HIDE DEF piece
    <3>1. piece \in OnScreen
      BY <1>6
    <3> QED BY <3>1, Constants DEF Pixels, OnScreen, Boxes, ConstantsType
  <2> QED BY <1>1, <2>1 DEF TypeOK, Core
<1>11. sent' \in Nat
  BY <1>1 DEF TypeOK, Core
<1>12. TypeOK'
  BY <1>2, <1>9, <1>10, <1>11 DEF TypeOK, Core
<1> QED BY <1>7, <1>8, <1>12 DEF Core

(* Tight begins with all of its rectangle.                                 *)
LEMMA TightEnterStep == ASSUME Core, TightEnter PROVE Core'
<1> DEFINE b == Top.box
<1>1. /\ phase = "rects" /\ stack # <<>>
      /\ Becomes(<<Simple(b)>>) \/ Becomes(<<Search(b, b.x, b.y)>>)
  BY DEF TightEnter, Calls
<1>2. b \in OnScreen /\ b.x \in Nat /\ b.y \in Nat /\ b.w \in Nat \ {0}
  BY <1>1, TopProperties, FrameKinds, BoxSizes DEF Core
<1>3. Simple(b) \in StackFrames /\ Simple(b).box = b
  BY <1>2, SimpleType DEF Simple, Cut
<1>4. Search(b, b.x, b.y) \in StackFrames /\ Search(b, b.x, b.y).box = b
  <2>1. Search(b, b.x, b.y) \in StackFrames
    BY <1>2, SearchType, b.x <= b.x, b.y <= b.y, b.x < b.x + b.w
  <2> QED BY <2>1 DEF Search
<1>5. ASSUME NEW f \in StackFrames, f.box = b, Becomes(<<f>>) PROVE Core'
  BY <1>1, <1>5, OneCall, BecomesStep
<1> QED BY <1>1, <1>3, <1>4, <1>5

(* The rows above the search and the others divide the rectangle.          *)
LEMMA SearchUpperStep == ASSUME Core, SearchUpper PROVE Core'
<1> DEFINE b == Top.box
           rows == MaxRows(b.w)
<1>1. /\ phase = "rects" /\ stack # <<>> /\ Top.call = "search" /\ Top.dy < b.y + b.h
      /\ Top.dx = b.x /\ Top.dy - b.y >= rows
      /\ Becomes(<<Simple(Upper(b, rows)), Search(Lower(b, rows), Top.dx, Top.dy)>>)
  BY DEF SearchUpper, Calls, UpperTooLarge
<1>2. Top \in StackFrames
  BY <1>1, TopProperties DEF Core
<1>3. b \in OnScreen /\ Top.dx \in Nat /\ Top.dy \in Nat
  BY <1>1, <1>2, FrameKinds
<1>4. b.x \in Nat /\ b.y \in Nat /\ b.w \in Nat \ {0} /\ b.h \in Nat \ {0}
  BY <1>3, BoxSizes
<1>5. rows \in Nat \ {0}
  BY <1>4, RowsOfRects, Constants DEF ConstantsType
<1>6. rows < b.h
  BY <1>1, <1>3, <1>4, <1>5
<1>7. /\ Upper(b, rows) \in OnScreen /\ Lower(b, rows) \in OnScreen
      /\ Divide(<<Upper(b, rows), Lower(b, rows)>>, b)
  BY <1>3, <1>5, <1>6, CutBelow
<1>8. Simple(Upper(b, rows)) \in StackFrames /\ Simple(Upper(b, rows)).box = Upper(b, rows)
  BY <1>7, SimpleType DEF Simple, Cut
<1>9. /\ Lower(b, rows).x <= Top.dx /\ Top.dx < Lower(b, rows).x + Lower(b, rows).w
      /\ Lower(b, rows).y <= Top.dy
  BY <1>1, <1>3, <1>4, <1>5 DEF Lower, Box
<1>10. /\ Search(Lower(b, rows), Top.dx, Top.dy) \in StackFrames
       /\ Search(Lower(b, rows), Top.dx, Top.dy).box = Lower(b, rows)
  <2>1. Search(Lower(b, rows), Top.dx, Top.dy) \in StackFrames
    BY <1>3, <1>7, <1>9, SearchType
  <2> QED BY <2>1 DEF Search
<1>11. /\ <<Simple(Upper(b, rows)), Search(Lower(b, rows), Top.dx, Top.dy)>> \in Seq(StackFrames)
       /\ Divide(BoxesOf(<<Simple(Upper(b, rows)), Search(Lower(b, rows), Top.dx, Top.dy)>>), b)
  BY <1>7, <1>8, <1>10, TwoCalls
<1> QED BY <1>1, <1>11, BecomesStep

(* The search goes on in the same rectangle.                               *)
LEMMA SearchNextStep == ASSUME Core, SearchNext PROVE Core'
<1> DEFINE b == Top.box
<1>1. /\ phase = "rects" /\ stack # <<>> /\ Top.call = "search" /\ Top.dy < b.y + b.h
      /\ IF Top.dx + Tile < b.x + b.w
         THEN Becomes(<<Search(b, Top.dx + Tile, Top.dy)>>)
         ELSE Becomes(<<Search(b, b.x, Top.dy + Tile)>>)
  BY DEF SearchNext, Calls
<1>2. Top \in StackFrames
  BY <1>1, TopProperties DEF Core
<1>3. b \in OnScreen /\ Top.dx \in Nat /\ Top.dy \in Nat /\ b.y <= Top.dy
      /\ b.x <= Top.dx /\ Top.dx < b.x + b.w
  BY <1>1, <1>2, FrameKinds
<1>4. b.x \in Nat /\ b.y \in Nat /\ b.w \in Nat \ {0} /\ b.h \in Nat \ {0} /\ Tile \in Nat \ {0}
  BY <1>3, BoxSizes, Constants DEF ConstantsType
<1>5. ASSUME NEW dx \in Nat, NEW dy \in Nat, b.x <= dx, dx < b.x + b.w, b.y <= dy,
             Becomes(<<Search(b, dx, dy)>>)
      PROVE  Core'
  <2>1. Search(b, dx, dy) \in StackFrames /\ Search(b, dx, dy).box = b
    <3>1. Search(b, dx, dy) \in StackFrames
      BY <1>3, <1>5, SearchType
    <3> QED BY <3>1 DEF Search
  <2> QED BY <1>1, <1>5, <2>1, OneCall, BecomesStep
<1>6. CASE Top.dx + Tile < b.x + b.w
  BY <1>1, <1>3, <1>4, <1>5, <1>6, Top.dx + Tile \in Nat, b.x <= Top.dx + Tile
<1>7. CASE ~(Top.dx + Tile < b.x + b.w)
  BY <1>1, <1>3, <1>4, <1>5, <1>7, Top.dy + Tile \in Nat, b.y <= Top.dy + Tile,
     b.x <= b.x, b.x < b.x + b.w
<1> QED BY <1>6, <1>7

(* What was found and what is around it divide the rectangle.              *)
LEMMA SearchFoundStep == ASSUME Core, SearchFound PROVE Core'
<1> DEFINE b == Top.box
<1>1. /\ phase = "rects" /\ stack # <<>> /\ Top.call = "search" /\ Top.dy < b.y + b.h
      /\ \E s \in SolidAreas(b, Top.dx, Top.dy) : Becomes(Around(b, s))
  BY DEF SearchFound, Calls
<1>2. PICK s \in SolidAreas(b, Top.dx, Top.dy) : Becomes(Around(b, s))
  BY <1>1
<1>3. Top \in StackFrames
  BY <1>1, TopProperties DEF Core
<1>4. b \in OnScreen /\ Top.dx \in Nat /\ Top.dy \in Nat /\ b.y <= Top.dy
      /\ b.x <= Top.dx /\ Top.dx < b.x + b.w
  BY <1>1, <1>3, FrameKinds
<1>5. s \in OnScreen /\ Inside(s, b)
  BY <1>1, <1>4, SolidInside
<1>6. Around(b, s) \in Seq(StackFrames) /\ Divide(BoxesOf(Around(b, s)), b)
  BY <1>4, <1>5, AroundDivides
<1> QED BY <1>1, <1>2, <1>6, BecomesStep

(* All of it is sent when nothing was found.                               *)
LEMMA SearchEndsStep == ASSUME Core, SearchEnds PROVE Core'
<1> DEFINE b == Top.box
<1>1. phase = "rects" /\ stack # <<>> /\ Becomes(<<Simple(b)>>)
  BY DEF SearchEnds, Calls
<1>2. b \in OnScreen
  BY <1>1, TopProperties, FrameKinds DEF Core
<1>3. Simple(b) \in StackFrames /\ Simple(b).box = b
  BY <1>2, SimpleType DEF Simple, Cut
<1>4. <<Simple(b)>> \in Seq(StackFrames) /\ Divide(BoxesOf(<<Simple(b)>>), b)
  BY <1>3, OneCall
<1> QED BY <1>1, <1>4, BecomesStep

(* Nothing is left at the end.                                             *)
LEMMA EndStep == ASSUME Core, End PROVE Core'
<1>1. /\ phase = "rects" /\ phase' = "idle" /\ stack = <<>> /\ todo = <<>> /\ flushed' = TRUE
      /\ encoding' = encoding /\ lastRect' = lastRect /\ scale' = scale /\ region' = region
      /\ cursor' = cursor /\ position' = position /\ count' = count /\ header' = header
      /\ todo' = todo /\ stack' = stack /\ covered' = covered /\ sent' = sent
  BY DEF End, clientVars
<1>2. FrameInv' /\ CoverInv' /\ OnceInv'
  BY <1>1, SameLeft DEF Core
<1>3. PhaseInv'
  BY <1>1 DEF PhaseInv
<1>4. TypeOK'
  BY <1>1 DEF Core, TypeOK
<1> QED BY <1>2, <1>3, <1>4 DEF Core

(* A message that is dropped leaves the rest where it is.                  *)
LEMMA WriteFailsStep == ASSUME Core, WriteFails PROVE Core'
<1>1. /\ phase' = "closed"
      /\ encoding' = encoding /\ lastRect' = lastRect /\ scale' = scale /\ region' = region
      /\ cursor' = cursor /\ position' = position /\ count' = count /\ header' = header
      /\ todo' = todo /\ stack' = stack /\ covered' = covered /\ sent' = sent
      /\ flushed' = flushed
  BY DEF WriteFails, clientVars
<1>2. FrameInv' /\ CoverInv' /\ OnceInv'
  BY <1>1, SameLeft DEF Core
<1>3. PhaseInv'
  BY <1>1 DEF PhaseInv
<1>4. TypeOK'
  BY <1>1 DEF Core, TypeOK
<1> QED BY <1>2, <1>3, <1>4 DEF Core

(* Another client begins with nothing.                                     *)
LEMMA NewClientStep == ASSUME Core, NewClient PROVE Core'
<1>1. /\ phase' = "idle" /\ cursor' = "none" /\ position' = FALSE /\ count' = 0 /\ header' = 0
      /\ flushed' = FALSE /\ region' = <<>> /\ todo' = <<>> /\ stack' = <<>> /\ sent' = 0
      /\ covered' = {} /\ encoding' = encoding /\ lastRect' = lastRect /\ scale' = scale
  BY DEF NewClient
<1>2. FrameInv' /\ CoverInv' /\ OnceInv'
  <2>1. FrameInv'
    BY <1>1 DEF FrameInv
  <2>2. StackBoxes' = <<>> /\ TodoBoxes' = <<>> /\ ToSendOf(region)' = <<>>
    BY <1>1 DEF StackBoxes, TodoBoxes, ToSendOf
  <2>3. Left' = <<>>
    BY <2>2, ConcatEmptySeq, EmptySeq DEF Left
  <2>4. /\ PixelsOf(Left)' = {} /\ Disjoint(Left)' /\ PixelsOf(ToSendOf(region))' = {}
    BY <2>2, <2>3 DEF PixelsOf, Disjoint
  <2> QED BY <1>1, <2>1, <2>4 DEF CoverInv, OnceInv
<1>3. PhaseInv'
  BY <1>1 DEF PhaseInv
<1>4. TypeOK'
  <2>1. /\ phase' \in {"idle", "cursor", "position", "rects", "closed"}
        /\ encoding' \in Encodings /\ lastRect' \in BOOLEAN /\ scale' \in Scales
        /\ cursor' \in {"none", "fits", "overflows", "big"} /\ position' \in BOOLEAN
        /\ flushed' \in BOOLEAN
    BY <1>1 DEF Core, TypeOK
  <2>2. {count', header', sent'} \subseteq Nat
    BY <1>1
  <2>3. /\ region' \in Regions \cup {<<>>} /\ todo' \in Seq(Boxes) /\ stack' \in Seq(Frames)
        /\ covered' \subseteq (0..Width - 1) \X (0..Height - 1)
    BY <1>1
  <2> QED BY <2>1, <2>2, <2>3 DEF TypeOK
<1> QED BY <1>2, <1>3, <1>4 DEF Core

(* The four parts together are inductive.                                  *)
LEMMA CoreInvariant == Spec => []Core
<1>1. Init => Core
  BY InitCore
<1>2. Core /\ [Next]_vars => Core'
  <2> SUFFICES ASSUME Core, [Next]_vars PROVE Core'
    OBVIOUS
  <2>1. ASSUME NEW r \in Regions, NEW shape \in {"none", "fits", "overflows", "big"},
               NEW moved \in BOOLEAN, Begin(r, shape, moved)
        PROVE  Core'
    BY <2>1, BeginStep
  <2>2. CASE SendCursor
    BY <2>2, SendCursorStep
  <2>3. CASE SendPosition
    BY <2>3, SendPositionStep
  <2>4. CASE NextRect
    BY <2>4, NextRectStep
  <2>5. CASE CutBand
    BY <2>5, CutBandStep
  <2>6. CASE SendPiece
    BY <2>6, SendPieceStep
  <2>7. CASE TightEnter
    BY <2>7, TightEnterStep
  <2>8. CASE SearchUpper
    BY <2>8, SearchUpperStep
  <2>9. CASE SearchNext
    BY <2>9, SearchNextStep
  <2>10. CASE SearchFound
    BY <2>10, SearchFoundStep
  <2>11. CASE SearchEnds
    BY <2>11, SearchEndsStep
  <2>12. CASE End
    BY <2>12, EndStep
  <2>13. CASE WriteFails
    BY <2>13, WriteFailsStep
  <2>14. CASE NewClient
    BY <2>14, NewClientStep
  <2>15. CASE UNCHANGED vars
    <3>1. /\ phase' = phase /\ encoding' = encoding /\ lastRect' = lastRect /\ scale' = scale
          /\ cursor' = cursor /\ position' = position /\ count' = count /\ header' = header
          /\ flushed' = flushed /\ region' = region /\ todo' = todo /\ stack' = stack
          /\ sent' = sent /\ covered' = covered
      BY <2>15 DEF vars
    <3>2. FrameInv' /\ CoverInv' /\ OnceInv'
      BY <3>1, SameLeft DEF Core
    <3>3. PhaseInv' /\ TypeOK'
      BY <3>1 DEF Core, PhaseInv, TypeOK
    <3> QED BY <3>2, <3>3 DEF Core
  <2> QED BY <2>1, <2>2, <2>3, <2>4, <2>5, <2>6, <2>7, <2>8, <2>9, <2>10, <2>11, <2>12,
             <2>13, <2>14, <2>15 DEF Next
<1> QED BY <1>1, <1>2, PTL DEF Spec

(* Every variable has its type; no call is made for a rectangle without    *)
(* width or height, or off the screen.                                     *)
THEOREM TypeCorrect == Spec => []TypeOK
<1>1. Core => TypeOK
  BY DEF Core
<1> QED BY <1>1, CoreInvariant, PTL

(* rfbSendFramebufferUpdate sends every pixel of the region in exactly one *)
(* rectangle, for every region and every row of limits, and wherever the   *)
(* tight search finds its areas of one colour.                             *)
THEOREM EachPixelOnce == Spec => []EveryPixelOnce
<1>1. Core => EveryPixelOnce
  <2> SUFFICES ASSUME Core, scale = 1
               PROVE  /\ Disjoint(Left) /\ covered \cap PixelsOf(Left) = {}
                      /\ covered \cup PixelsOf(Left) = PixelsOf(region)
    BY DEF EveryPixelOnce, Left
  <2>1. ToSendOf(region) = region
    <3>1. \A r \in Regions : r \in Seq(Boxes)
      BY MessageAssumption
    <3>2. region \in Seq(Boxes)
      BY <3>1, EmptySeq DEF Core, TypeOK
    <3> QED BY <3>2 DEF ToSendOf, ToSend
  <2> QED BY <2>1 DEF Core, OnceInv, CoverInv
<1> QED BY <1>1, CoreInvariant, PTL

(* CopyScalingRect leaves no pixel of the scaled picture out that a pixel  *)
(* of the region goes into, and sends none outside of it.                  *)
THEOREM ScaledPictureArrives == Spec => []ScaledRegionArrives
<1>1. Core => ScaledRegionArrives
  <2> SUFFICES ASSUME Core PROVE ScaledRegionArrives
    OBVIOUS
  <2> DEFINE all == covered \cup PixelsOf(Left)
             picture == (0..Up(Width) - 1) \X (0..Up(Height) - 1)
  <2>1. region \in Seq(OnScreen)
    BY RegionType, EmptySeq DEF Core, TypeOK
  <2>2. scale \in Nat \ {0} /\ all = PixelsOf(ToSendOf(region))
    BY ScaleType DEF Core, CoverInv
  <2> HIDE DEF all
  <2>3. ASSUME NEW p \in all PROVE p \in picture
    <3>1. PICK i \in DOMAIN region : p \in Pixels(ToSend(region[i]))
      BY <2>2, InPixelsOf DEF ToSendOf
    <3>2. region[i] \in OnScreen
      BY <2>1
    <3>3. /\ ToSend(region[i]) \in OnScreen
          /\ ToSend(region[i]).x + ToSend(region[i]).w <= Up(Width)
          /\ ToSend(region[i]).y + ToSend(region[i]).h <= Up(Height)
      BY <2>2, <3>2, ToSendType
    <3>4. Width \in Nat \ {0} /\ Height \in Nat \ {0}
      BY <3>2, Constants DEF OnScreen, Boxes, ConstantsType
    <3>5. Up(Width) \in Nat /\ Up(Height) \in Nat
      BY <2>2, <3>4, UpProperties
    <3> DEFINE q == ToSend(region[i])
    <3>6. q.x \in Nat /\ q.y \in Nat /\ q \in IntBox
      BY <3>3, BoxSizes, BoxIsInt
    <3> HIDE DEF q
    <3>7. p \in Int \X Int /\ q.x <= p[1] /\ p[1] < q.x + q.w /\ q.y <= p[2] /\ p[2] < q.y + q.h
      BY <3>1, <3>6, InPixels DEF q
    <3>8. q.x + q.w <= Up(Width) /\ q.y + q.h <= Up(Height) /\ q.w \in Int /\ q.h \in Int
      BY <3>3, <3>6 DEF q, IntBox
    <3> QED BY <3>5, <3>6, <3>7, <3>8
  <2>4. ASSUME NEW p \in PixelsOf(region)
        PROVE  <<p[1] \div scale, p[2] \div scale>> \in all
    <3>1. PICK i \in DOMAIN region : p \in Pixels(region[i])
      BY InPixelsOf
    <3>2. region[i] \in OnScreen
      BY <2>1
    <3>3. <<p[1] \div scale, p[2] \div scale>> \in Pixels(ToSend(region[i]))
      BY <2>2, <3>1, <3>2, PixelsArrive
    <3> QED BY <2>2, <3>3, InPixelsOf DEF ToSendOf
  <2> QED BY <2>3, <2>4 DEF ScaledRegionArrives, all, Left, Up
<1> QED BY <1>1, CoreInvariant, PTL

-----------------------------------------------------------------------------
(* Every step keeps CountInv.                                              *)

(* A call is replaced by k rectangles sent and by calls for as many as it  *)
(* had before it less k.                                                   *)
LEMMA CallCounted ==
  ASSUME FrameInv, Counted, phase = "rects", stack # <<>>,
         NEW frames \in Seq(StackFrames), NEW k \in Nat,
         \A i \in DOMAIN frames : Countable(frames[i]),
         Total(FrameCounts(frames \o Tail(stack))) + k
           = FrameCount(Top) + Total(FrameCounts(Tail(stack))),
         stack' = frames \o Tail(stack), todo' = todo, encoding' = encoding,
         lastRect' = lastRect, phase' = phase, count' = count, header' = header,
         sent' = sent + k, sent \in Nat, count \in Nat
  PROVE  Counted'
<1> DEFINE t == Tail(stack)
<1>1. /\ t \in Seq(StackFrames) /\ Len(stack) \in Nat \ {0} /\ Len(t) = Len(stack) - 1
      /\ \A i \in 1..Len(t) : t[i] = stack[i + 1]
      /\ stack \in Seq(StackFrames) /\ Top \in StackFrames
  BY HeadTailProperties, LenProperties DEF FrameInv, Top
<1>2. /\ StackCount' = Total(FrameCounts(stack')) /\ TodoCount' = TodoCount
      /\ \A f : Countable(f)' <=> Countable(f)
  BY CountsRigid DEF TodoCount
<1>3. StackCount = FrameCount(Top) + Total(FrameCounts(t))
  BY <1>1, FrameCountsOfTail DEF StackCount, Top
<1> HIDE DEF t
<1>4. /\ frames \o t \in Seq(StackFrames) /\ Len(frames \o t) = Len(frames) + Len(t)
      /\ \A i \in 1..Len(frames) + Len(t) :
           (frames \o t)[i] = IF i <= Len(frames) THEN frames[i] ELSE t[i - Len(frames)]
      /\ Len(frames) \in Nat
  BY <1>1, ConcatProperties, LenProperties
<1>5. \A i \in DOMAIN stack : Countable(stack[i])
  BY DEF Counted
<1>6. ASSUME NEW i \in DOMAIN stack' PROVE Countable(stack'[i])
  <2>1. i \in 1..Len(frames) + Len(t) /\ stack'[i] = (frames \o t)[i]
    BY <1>4, LenProperties DEF t
  <2>2. CASE i <= Len(frames)
    <3>1. i \in DOMAIN frames /\ stack'[i] = frames[i]
      BY <1>4, <2>1, <2>2, LenProperties
    <3> QED BY <3>1
  <2>3. CASE ~(i <= Len(frames))
    <3>1. i - Len(frames) \in 1..Len(t) /\ stack'[i] = t[i - Len(frames)]
      BY <1>1, <1>4, <2>1, <2>3
    <3>2. (i - Len(frames)) + 1 \in DOMAIN stack
      BY <1>1, <3>1, LenProperties
    <3>3. stack'[i] = stack[(i - Len(frames)) + 1]
      BY <1>1, <3>1
    <3> QED BY <1>5, <3>2, <3>3
  <2> QED BY <2>2, <2>3
<1>7. \A i \in DOMAIN stack' : Countable(stack[i])'
  <2>1. \A i \in DOMAIN stack' : Countable(stack[i])' <=> Countable(stack'[i])
    BY DEF Countable, FrameCount
  <2> QED BY <1>6, <2>1
<1>8. Due' = 0 /\ Due = 0
  BY DEF Due
<1>9. StackCount' + k = StackCount
  BY <1>2, <1>3 DEF t
<1>10. sent + Due + StackCount + TodoCount = count
  BY DEF Counted
<1>11. StackCount' \in Nat /\ StackCount \in Nat /\ TodoCount \in Nat
  <2>1. FrameCounts(stack') \in Seq(Nat) /\ FrameCounts(stack) \in Seq(Nat)
    BY <1>1, <1>4, FrameCountsType DEF t
  <2>2. RectCounts(encoding, lastRect, todo) \in Seq(Nat)
    BY RectCountsType DEF FrameInv
  <2> QED BY <1>2, <2>1, <2>2, TotalType DEF StackCount, TodoCount
<1>12. sent' + Due' + StackCount' + TodoCount' = count'
  <2>1. PICK d \in Nat, c \in Nat, e \in Nat, o \in Nat :
          d = Due /\ c = StackCount /\ e = StackCount' /\ o = TodoCount
    BY <1>8, <1>11
  <2>2. sent + d + c + o = count /\ e + k = c
    BY <1>9, <1>10, <2>1
  <2>3. (sent + k) + d + e + o = count
    BY <2>2
  <2>4. Due' = d /\ TodoCount' = o
    BY <1>2, <1>8, <2>1
  <2> QED BY <2>1, <2>3, <2>4
<1>13. \A i \in DOMAIN todo' : RectCount(encoding', lastRect', todo'[i]) > 0
  BY DEF Counted
<1>14. count < LastRectCount /\ header = count
  BY DEF Counted
<1> QED BY <1>7, <1>12, <1>13, <1>14 DEF Counted

(* The calls replace one another in a message whose number is open, or     *)
(* they send what they were counted for.                                   *)
LEMMA CallCounts ==
  ASSUME Core, CountInv, phase = "rects", stack # <<>>,
         NEW frames \in Seq(StackFrames), NEW k \in Nat,
         Countable(Top) =>
           /\ \A i \in DOMAIN frames : Countable(frames[i])
           /\ Total(FrameCounts(frames \o Tail(stack))) + k
                = FrameCount(Top) + Total(FrameCounts(Tail(stack))),
         stack' = frames \o Tail(stack), todo' = todo, encoding' = encoding,
         lastRect' = lastRect, scale' = scale, phase' = phase, count' = count,
         header' = header, sent' = sent + k
  PROVE  CountInv'
<1>1. sent \in Nat /\ count \in Nat
  BY DEF Core, TypeOK
<1>2. FrameInv
  BY DEF Core
<1>3. CASE ~(scale = 1 \/ encoding = "plain")
  BY <1>3 DEF CountInv
<1>4. CASE Open
  BY <1>4 DEF CountInv, Open
<1>5. CASE Counted
  <2>1. Countable(Top)
    <3>1. stack \in Seq(StackFrames) /\ 1 \in DOMAIN stack /\ Top = stack[1]
      BY <1>2, HeadTailProperties, LenProperties DEF FrameInv, Top
    <3> QED BY <1>5, <3>1 DEF Counted
  <2>2. Counted'
    BY <1>1, <1>2, <1>5, <2>1, CallCounted
  <2> QED BY <2>2 DEF CountInv
<1> QED BY <1>3, <1>4, <1>5 DEF CountInv

(* One call in place of the top, for as many,                              *)
LEMMA OneCounts ==
  ASSUME Core, CountInv, phase = "rects", stack # <<>>,
         NEW f \in StackFrames, Becomes(<<f>>),
         Countable(Top) => Countable(f) /\ FrameCount(f) = FrameCount(Top)
  PROVE  CountInv'
<1>1. /\ stack' = <<f>> \o Tail(stack) /\ todo' = todo /\ encoding' = encoding
      /\ lastRect' = lastRect /\ scale' = scale /\ phase' = phase /\ count' = count
      /\ header' = header /\ sent' = sent
  BY DEF Becomes, clientVars
<1>2. Tail(stack) \in Seq(StackFrames) /\ <<f>> \in Seq(StackFrames) /\ sent \in Nat
  BY TopProperties DEF Core, TypeOK
<1> DEFINE t == Total(FrameCounts(Tail(stack)))
           u == Total(FrameCounts(<<f>> \o Tail(stack)))
<1>3. u = FrameCount(f) + t
  BY <1>2, FrameCountsOfPrepended
<1>4. FrameCount(f) \in Nat /\ t \in Nat
  BY <1>2, FrameCountType, FrameCountsType, TotalType
<1>5. u + 0 = u
  <2> HIDE DEF t, u
  <2>1. PICK m \in Nat, n \in Nat : m = FrameCount(f) /\ n = t
    BY <1>4
  <2>2. u = m + n
    BY <1>3, <2>1
  <2> QED BY <2>2
<1>6. Countable(Top) => u + 0 = FrameCount(Top) + t
  BY <1>3, <1>5
<1>7. Countable(Top) => \A i \in DOMAIN <<f>> : Countable(<<f>>[i])
  OBVIOUS
<1>8. sent' = sent + 0
  BY <1>1, <1>2
<1> HIDE DEF u, t
<1> QED BY <1>1, <1>2, <1>6, <1>7, <1>8, CallCounts DEF u, t

(* or two, for as many together.                                           *)
LEMMA TwoCount ==
  ASSUME Core, CountInv, phase = "rects", stack # <<>>,
         NEW f \in StackFrames, NEW g \in StackFrames, Becomes(<<f, g>>),
         Countable(Top) =>
           Countable(f) /\ Countable(g) /\ FrameCount(f) + FrameCount(g) = FrameCount(Top)
  PROVE  CountInv'
<1>1. /\ stack' = <<f, g>> \o Tail(stack) /\ todo' = todo /\ encoding' = encoding
      /\ lastRect' = lastRect /\ scale' = scale /\ phase' = phase /\ count' = count
      /\ header' = header /\ sent' = sent
  BY DEF Becomes, clientVars
<1>2. Tail(stack) \in Seq(StackFrames) /\ <<f, g>> \in Seq(StackFrames) /\ sent \in Nat
  BY TopProperties DEF Core, TypeOK
<1> DEFINE t == Total(FrameCounts(Tail(stack)))
           u == Total(FrameCounts(<<f, g>> \o Tail(stack)))
           v == Total(FrameCounts(<<g>> \o Tail(stack)))
<1>3. /\ <<f, g>> \o Tail(stack) = <<f>> \o (<<g>> \o Tail(stack))
      /\ <<g>> \o Tail(stack) \in Seq(StackFrames)
  <2>1. <<f>> \in Seq(StackFrames) /\ <<g>> \in Seq(StackFrames)
    OBVIOUS
  <2>2. <<f, g>> = <<f>> \o <<g>>
    BY Pair
  <2> QED BY <1>2, <2>1, <2>2, ConcatAssociative, ConcatProperties
<1>4. u = FrameCount(f) + v /\ v = FrameCount(g) + t
  BY <1>2, <1>3, FrameCountsOfPrepended
<1>5. FrameCount(f) \in Nat /\ FrameCount(g) \in Nat /\ t \in Nat
  BY <1>2, FrameCountType, FrameCountsType, TotalType
<1>6. u + 0 = (FrameCount(f) + FrameCount(g)) + t
  <2> HIDE DEF t, u, v
  <2>1. PICK l \in Nat, m \in Nat, n \in Nat : l = FrameCount(f) /\ m = FrameCount(g) /\ n = t
    BY <1>5
  <2>2. u = l + (m + n)
    BY <1>4, <2>1
  <2>3. u + 0 = (l + m) + n
    BY <2>2
  <2> QED BY <2>1, <2>3
<1>7. Countable(Top) => u + 0 = FrameCount(Top) + t
  BY <1>6
<1>8. Countable(Top) => \A i \in DOMAIN <<f, g>> : Countable(<<f, g>>[i])
  <2>1. \A i \in DOMAIN <<f, g>> : <<f, g>>[i] = f \/ <<f, g>>[i] = g
    OBVIOUS
  <2> QED BY <2>1
<1>9. sent' = sent + 0
  BY <1>1, <1>2
<1> HIDE DEF u, t, v
<1> QED BY <1>1, <1>2, <1>7, <1>8, <1>9, CallCounts DEF u, t

(* A search is only ever made in a message whose number is open.           *)
LEMMA SearchCounts ==
  ASSUME Core, CountInv, Calls("search"), NEW frames, Becomes(frames)
  PROVE  CountInv'
<1>1. /\ phase = "rects" /\ stack # <<>> /\ Top.call = "search" /\ encoding' = encoding
      /\ lastRect' = lastRect /\ scale' = scale /\ phase' = phase /\ count' = count
      /\ header' = header
  BY DEF Calls, Becomes, clientVars
<1>2. ~Counted
  <2>1. stack \in Seq(StackFrames) /\ 1 \in DOMAIN stack /\ Top = stack[1]
    BY <1>1, HeadTailProperties, LenProperties DEF Core, FrameInv, Top
  <2>2. ~Countable(Top)
    BY <1>1 DEF Countable
  <2> QED BY <2>1, <2>2 DEF Counted
<1> QED BY <1>1, <1>2 DEF CountInv, Open

(* Initially nothing is counted and nothing sent.                          *)
LEMMA InitCounts == ASSUME Init PROVE CountInv
<1>1. /\ phase = "idle" /\ count = 0 /\ header = 0 /\ todo = <<>> /\ stack = <<>> /\ sent = 0
  BY DEF Init
<1>2. Due = 0
  BY <1>1 DEF Due
<1>3. StackCount = 0 /\ TodoCount = 0
  <2>1. FrameCounts(stack) = <<>> /\ RectCounts(encoding, lastRect, todo) = <<>>
    BY <1>1 DEF FrameCounts, RectCounts
  <2> QED BY <2>1, TotalOfEmpty DEF StackCount, TodoCount
<1>4. Counted
  BY <1>1, <1>2, <1>3 DEF Counted, LastRectCount
<1> QED BY <1>4 DEF CountInv

(* The header leaves the number open only for a client that knows          *)
(* LastRect.                                                               *)
LEMMA BeginCounts ==
  ASSUME CountsFit, Core, NEW r \in Regions,
         NEW shape \in {"none", "fits", "overflows", "big"}, NEW moved \in BOOLEAN,
         Begin(r, shape, moved)
  PROVE  CountInv'
<1> DEFINE counts == RectCounts(encoding, lastRect, r)
           open == CountedRects(r) = LastRectCount
<1>1. /\ phase' = "cursor" /\ todo' = r /\ stack' = <<>> /\ sent' = 0
      /\ cursor' = IF open THEN "none" ELSE shape
      /\ position' = (moved /\ ~open)
      /\ count' = IF open THEN LastRectCount
                  ELSE CountedRects(r) + One(shape # "none") + One(moved)
      /\ header' = count' % 65536 /\ flushed' = FALSE
      /\ encoding' = encoding /\ lastRect' = lastRect /\ scale' = scale
  BY DEF Begin
<1>2. r \in Seq(OnScreen) /\ encoding \in Encodings /\ lastRect \in BOOLEAN
  BY RegionType DEF Core, TypeOK
<1>3. /\ counts \in Seq(Nat) /\ Len(counts) = Len(r) /\ DOMAIN counts = DOMAIN r
      /\ \A i \in DOMAIN r : counts[i] = RectCount(encoding, lastRect, r[i])
  BY <1>2, RectCountsType, LenProperties
<1>4. Total(counts) \in Nat /\ Total(counts) + 2 < LastRectCount
  BY <1>2, <1>3, TotalType DEF CountsFit
<1>5. CountedRects(r) = IF encoding = "Tight" /\ \E i \in DOMAIN counts : counts[i] = 0
                        THEN LastRectCount ELSE Total(counts)
  BY DEF CountedRects
<1>6. CASE open
  <2>1. PICK i \in DOMAIN counts : counts[i] = 0
    BY <1>4, <1>5, <1>6 DEF LastRectCount
  <2>2. RectCount(encoding, lastRect, r[i]) = 0 /\ r[i] \in OnScreen
    BY <1>2, <1>3, <2>1
  <2>3. lastRect
    BY <1>2, <2>2, OpenCount
  <2>4. count' = LastRectCount /\ header' = LastRectCount /\ cursor' = "none"
    BY <1>1, <1>6 DEF LastRectCount
  <2> QED BY <1>1, <2>3, <2>4 DEF CountInv, Open
<1>7. CASE ~open
  <2>1. CountedRects(r) = Total(counts)
    BY <1>5, <1>7
  <2>2. cursor' = shape /\ position' = moved
    BY <1>1, <1>7
  <2>3. count' = Total(counts) + One(shape # "none") + One(moved)
    BY <1>1, <1>7, <2>1
  <2> HIDE DEF open, counts
  <2>4. PICK t \in Nat, h \in 0..1, p \in 0..1 :
          t = Total(counts) /\ h = One(shape # "none") /\ p = One(moved)
    BY <1>4 DEF One
  <2>5. count' = t + h + p /\ t + 2 < 65535
    BY <1>4, <2>3, <2>4 DEF LastRectCount
  <2>6. count' \in Nat /\ count' < LastRectCount /\ header' = count'
    BY <1>1, <2>5 DEF LastRectCount
  <2>7. \A i \in DOMAIN r : RectCount(encoding, lastRect, r[i]) > 0
    <3> SUFFICES ASSUME NEW i \in DOMAIN r, ~(RectCount(encoding, lastRect, r[i]) > 0)
                 PROVE  FALSE
      OBVIOUS
    <3>1. r[i] \in OnScreen
      BY <1>2
    <3>2. encoding = "Tight"
      BY <1>2, <3>1, OpenCount
    <3>3. counts[i] = 0
      <4>1. RectCount(encoding, lastRect, r[i]) \in Nat
        BY <3>1, RectCountType
      <4> QED BY <1>3, <4>1
    <3>4. CountedRects(r) = LastRectCount
      BY <1>3, <1>5, <3>2, <3>3
    <3> QED BY <1>7, <3>4 DEF open
  <2>8. Due' = h + p
    <3>1. Due' = One(cursor' # "none") + One(position')
      BY <1>1 DEF Due
    <3> QED BY <2>2, <2>4, <3>1
  <2>9. StackCount' = 0 /\ TodoCount' = t
    <3>1. FrameCounts(<<>>) = <<>>
      BY DEF FrameCounts
    <3>2. /\ StackCount' = Total(FrameCounts(stack'))
          /\ TodoCount' = Total(RectCounts(encoding, lastRect, todo'))
      BY <1>1, CountsRigid
    <3> QED BY <1>1, <2>4, <3>1, <3>2, TotalOfEmpty DEF counts
  <2>10. sent' + Due' + StackCount' + TodoCount' = count'
    <3>1. 0 + (h + p) + 0 + t = count'
      BY <2>5
    <3> QED BY <1>1, <2>8, <2>9, <3>1
  <2>11. Counted'
    BY <1>1, <2>6, <2>7, <2>10 DEF Counted
  <2> QED BY <2>11 DEF CountInv
<1> QED BY <1>6, <1>7

(* A shape that is taken back is taken back from the header, which has not *)
(* left updateBuf yet.                                                     *)
LEMMA SendCursorCounts == ASSUME Core, CountInv, SendCursor PROVE CountInv'
<1>1. /\ phase = "cursor" /\ phase' = "position"
      /\ count' = count - One(cursor = "big")
      /\ header' = IF cursor = "big" /\ ~flushed THEN count' % 65536 ELSE header
      /\ sent' = sent + One(cursor \in {"fits", "overflows"})
      /\ encoding' = encoding /\ lastRect' = lastRect /\ scale' = scale
      /\ cursor' = cursor /\ position' = position /\ todo' = todo /\ stack' = stack
  BY DEF SendCursor, clientVars
<1>2. /\ count \in Nat /\ sent \in Nat /\ (cursor # "none" => count > 0)
      /\ cursor \in {"none", "fits", "overflows", "big"} /\ FrameInv
  BY <1>1 DEF Core, TypeOK, PhaseInv
<1>3. CASE ~(scale = 1 \/ encoding = "plain")
  BY <1>1, <1>3 DEF CountInv
<1>4. CASE Open /\ cursor = "none"
  <2>1. count' = count /\ header' = header
    BY <1>1, <1>2, <1>4 DEF One
  <2> QED BY <1>1, <1>4, <2>1 DEF CountInv, Open
<1>5. CASE Counted
  <2>1. /\ count < LastRectCount /\ header = count /\ ~flushed
        /\ \A i \in DOMAIN stack : Countable(stack[i])
        /\ \A i \in DOMAIN todo : RectCount(encoding, lastRect, todo[i]) > 0
        /\ sent + Due + StackCount + TodoCount = count
    BY <1>1, <1>5 DEF Counted
  <2>2. count' \in Nat /\ count' <= count /\ count' < LastRectCount /\ header' = count'
    BY <1>1, <1>2, <2>1 DEF One, LastRectCount
  <2>3. StackCount' = StackCount /\ TodoCount' = TodoCount
    BY <1>1, CountsRigid DEF StackCount, TodoCount
  <2>4. StackCount \in Nat /\ TodoCount \in Nat
    BY <1>2, CountsType
  <2>5. Due = One(cursor # "none") + One(position) /\ Due' = One(position)
    BY <1>1 DEF Due
  <2>6. sent' + Due' + StackCount' + TodoCount' = count'
    <3>1. PICK p \in Nat, c \in Nat, t \in Nat :
            p = One(position) /\ c = StackCount /\ t = TodoCount
      BY <2>4 DEF One
    <3>2. PICK h \in Nat : h = One(cursor # "none")
      BY DEF One
    <3>3. sent + (h + p) + c + t = count
      BY <2>1, <2>5, <3>1, <3>2
    <3>4. sent' + p + c + t = count'
      BY <1>1, <1>2, <3>2, <3>3 DEF One
    <3> QED BY <2>3, <2>5, <3>1, <3>4
  <2>7. \A i \in DOMAIN stack' : Countable(stack[i])'
    BY <1>1, <2>1 DEF Countable, FrameCount
  <2>8. Counted'
    BY <1>1, <2>1, <2>2, <2>6, <2>7 DEF Counted
  <2> QED BY <2>8 DEF CountInv
<1> QED BY <1>1, <1>3, <1>4, <1>5 DEF CountInv

(* The position was counted.                                               *)
LEMMA SendPositionCounts == ASSUME Core, CountInv, SendPosition PROVE CountInv'
<1>1. /\ phase = "position" /\ phase' = "rects" /\ sent' = sent + One(position)
      /\ encoding' = encoding /\ lastRect' = lastRect /\ scale' = scale
      /\ count' = count /\ header' = header /\ todo' = todo /\ stack' = stack
  BY DEF SendPosition, clientVars
<1>2. count \in Nat /\ sent \in Nat /\ FrameInv
  BY DEF Core, TypeOK
<1>3. CASE ~(scale = 1 \/ encoding = "plain")
  BY <1>1, <1>3 DEF CountInv
<1>4. CASE Open
  BY <1>1, <1>4 DEF CountInv, Open
<1>5. CASE Counted
  <2>1. /\ count < LastRectCount /\ header = count
        /\ \A i \in DOMAIN stack : Countable(stack[i])
        /\ \A i \in DOMAIN todo : RectCount(encoding, lastRect, todo[i]) > 0
        /\ sent + Due + StackCount + TodoCount = count
    BY <1>5 DEF Counted
  <2>2. StackCount' = StackCount /\ TodoCount' = TodoCount
    BY <1>1, CountsRigid DEF StackCount, TodoCount
  <2>3. StackCount \in Nat /\ TodoCount \in Nat
    BY <1>2, CountsType
  <2>4. Due = One(position) /\ Due' = 0
    BY <1>1 DEF Due
  <2>5. sent' + Due' + StackCount' + TodoCount' = count'
    <3>1. PICK p \in Nat, c \in Nat, t \in Nat :
            p = One(position) /\ c = StackCount /\ t = TodoCount
      BY <2>3 DEF One
    <3>2. sent + p + c + t = count
      BY <2>1, <2>4, <3>1
    <3>3. sent' + 0 + c + t = count'
      BY <1>1, <1>2, <3>1, <3>2
    <3> QED BY <2>2, <2>4, <3>1, <3>3
  <2>6. \A i \in DOMAIN stack' : Countable(stack[i])'
    BY <1>1, <2>1 DEF Countable, FrameCount
  <2>7. Counted'
    BY <1>1, <2>1, <2>5, <2>6 DEF Counted
  <2> QED BY <2>7 DEF CountInv
<1> QED BY <1>1, <1>3, <1>4, <1>5 DEF CountInv

(* The rectangle of the region was counted for what its encoder sends.     *)
LEMMA NextRectCounts == ASSUME Core, CountInv, NextRect PROVE CountInv'
<1> DEFINE r == Head(todo)
           b == ToSend(r)
           f == EncoderCall(b)
           t == Tail(todo)
<1>1. /\ phase = "rects" /\ stack = <<>> /\ todo # <<>> /\ stack' = <<f>> /\ todo' = t
      /\ encoding' = encoding /\ lastRect' = lastRect /\ scale' = scale
      /\ phase' = phase /\ count' = count /\ header' = header /\ sent' = sent
  BY DEF NextRect, clientVars
<1>2. /\ todo \in Seq(OnScreen) /\ r \in OnScreen /\ t \in Seq(OnScreen)
      /\ r = todo[1] /\ Len(todo) \in Nat \ {0} /\ Len(t) = Len(todo) - 1
      /\ \A i \in 1..Len(t) : t[i] = todo[i + 1]
  BY <1>1, HeadTailProperties, LenProperties DEF Core, FrameInv
<1>3. b \in OnScreen
  BY <1>2, ToSendType, ScaleType DEF Core
<1>4. sent \in Nat /\ count \in Nat
  BY DEF Core, TypeOK
<1>5. CASE ~(scale = 1 \/ encoding = "plain")
  BY <1>1, <1>5 DEF CountInv
<1>6. CASE Open
  BY <1>1, <1>6 DEF CountInv, Open
<1>7. CASE Counted /\ (scale = 1 \/ encoding = "plain")
  <2>1. /\ count < LastRectCount /\ header = count
        /\ \A i \in DOMAIN todo : RectCount(encoding, lastRect, todo[i]) > 0
        /\ sent + Due + StackCount + TodoCount = count
    BY <1>7 DEF Counted
  <2>2. RectCount(encoding, lastRect, b) = RectCount(encoding, lastRect, r)
    <3>1. CASE scale = 1
      BY <3>1 DEF ToSend
    <3>2. CASE encoding = "plain"
      BY <3>2 DEF RectCount
    <3> QED BY <1>7, <3>1, <3>2
  <2>3. RectCount(encoding, lastRect, r) > 0
    <3>1. 1 \in DOMAIN todo
      BY <1>2, LenProperties
    <3> QED BY <1>2, <2>1, <3>1
  <2> HIDE DEF r, b
  <2>4. FrameCount(f) = RectCount(encoding, lastRect, r) /\ Countable(f) /\ f \in StackFrames
    BY <1>3, <2>2, <2>3, EncoderCount, EncoderCallType
  <2> HIDE DEF f
  <2>5. StackCount = 0 /\ StackCount' = FrameCount(f)
    <3>1. FrameCounts(stack) = <<>>
      BY <1>1 DEF FrameCounts
    <3>2. FrameCounts(<<>>) = <<>>
      BY DEF FrameCounts
    <3>3. <<f>> \o <<>> = <<f>> /\ <<>> \in Seq(StackFrames)
      BY <2>4, ConcatEmptySeq
    <3>4. Total(FrameCounts(<<f>> \o <<>>)) = FrameCount(f) + Total(FrameCounts(<<>>))
      BY <2>4, <3>3, FrameCountsOfPrepended
    <3>5. FrameCount(f) + 0 = FrameCount(f)
      BY <2>4, FrameCountType
    <3>6. Total(FrameCounts(<<f>>)) = FrameCount(f)
      BY <3>2, <3>3, <3>4, <3>5, TotalOfEmpty
    <3> QED BY <1>1, <3>1, <3>6, TotalOfEmpty, CountsRigid DEF StackCount
  <2>6. TodoCount = RectCount(encoding, lastRect, r) + TodoCount'
    <3>1. TodoCount' = Total(RectCounts(encoding, lastRect, t))
      BY <1>1, CountsRigid
    <3> QED BY <1>1, <1>2, <3>1, RectCountsOfTail DEF TodoCount, r
  <2>7. Due = 0 /\ Due' = 0
    BY <1>1 DEF Due
  <2>8. sent' + Due' + StackCount' + TodoCount' = count'
    <3>1. PICK m \in Nat, n \in Nat : m = RectCount(encoding, lastRect, r) /\ n = TodoCount'
      <4>1. RectCount(encoding, lastRect, r) \in Nat
        BY <1>2, RectCountType DEF r
      <4>2. TodoCount' \in Nat
        BY <1>1, <1>2, CountsRigid, RectCountsType, TotalType
      <4> QED BY <4>1, <4>2
    <3>2. sent + 0 + 0 + (m + n) = count
      BY <2>1, <2>5, <2>6, <2>7, <3>1
    <3>3. sent + 0 + m + n = count
      BY <1>4, <3>2
    <3> QED BY <1>1, <2>4, <2>5, <2>7, <3>1, <3>3
  <2>9. \A i \in DOMAIN stack' : Countable(stack[i])'
    <3>1. \A i \in DOMAIN stack' : Countable(stack[i])' <=> Countable(stack'[i])
      BY <1>1 DEF Countable, FrameCount
    <3>2. \A i \in DOMAIN <<f>> : Countable(<<f>>[i])
      BY <2>4
    <3> QED BY <1>1, <3>1, <3>2
  <2>10. \A i \in DOMAIN todo' : RectCount(encoding', lastRect', todo'[i]) > 0
    <3> SUFFICES ASSUME NEW i \in DOMAIN t PROVE RectCount(encoding, lastRect, t[i]) > 0
      BY <1>1
    <3>1. i \in 1..Len(t) /\ i + 1 \in DOMAIN todo
      BY <1>2, LenProperties
    <3> QED BY <1>2, <2>1, <3>1
  <2>11. Counted'
    BY <1>1, <2>1, <2>8, <2>9, <2>10 DEF Counted
  <2> QED BY <2>11 DEF CountInv
<1> QED BY <1>1, <1>5, <1>6, <1>7 DEF CountInv

(* A band and what is below it send as many as the whole.                  *)
LEMMA CutBandCounts == ASSUME Core, CountInv, CutBand PROVE CountInv'
<1> DEFINE b == Top.box
           l == Top.limits
           f == Cut(Upper(b, l.h), l)
           g == Cut(Lower(b, l.h), l)
<1>1. /\ phase = "rects" /\ stack # <<>> /\ Top.call = "cut" /\ b.h > l.h
      /\ Becomes(<<f, g>>)
  BY DEF CutBand, Calls
<1>2. Top \in StackFrames
  BY <1>1, TopProperties DEF Core
<1>3. b \in OnScreen /\ l \in Limits /\ l.h \in Nat \ {0} /\ l.w \in Nat \ {0}
  BY <1>1, <1>2, FrameKinds DEF Limits
<1>4. b.w \in Nat \ {0} /\ b.h \in Nat \ {0}
  BY <1>3, BoxSizes
<1>5. f \in StackFrames /\ g \in StackFrames
  BY <1>1, <1>3, CutBelow, CutType
<1>6. /\ FrameCount(f) = Pieces(b.w, l.w) * Pieces(l.h, l.h)
      /\ FrameCount(g) = Pieces(b.w, l.w) * Pieces(b.h - l.h, l.h)
  BY CutCount DEF Upper, Lower, Box
<1>7. FrameCount(Top) = Pieces(b.w, l.w) * Pieces(b.h, l.h)
  BY <1>1 DEF FrameCount
<1>8. Pieces(l.h, l.h) = 1 /\ Pieces(b.h, l.h) = 1 + Pieces(b.h - l.h, l.h)
  BY <1>1, <1>3, <1>4, PiecesOfShort, PiecesOfLong
<1>9. FrameCount(f) + FrameCount(g) = FrameCount(Top)
  <2>1. PICK m \in Nat, n \in Nat : m = Pieces(b.w, l.w) /\ n = Pieces(b.h - l.h, l.h)
    <3>1. b.h - l.h \in Nat \ {0}
      BY <1>1, <1>3, <1>4
    <3> QED BY <1>3, <1>4, <3>1, PiecesType
  <2>2. m * 1 + m * n = m * (1 + n)
    OBVIOUS
  <2> QED BY <1>6, <1>7, <1>8, <2>1, <2>2
<1>10. Countable(f) /\ Countable(g)
  <2>1. f.call = "cut" /\ g.call = "cut"
    BY CutCount
  <2> HIDE DEF f, g
  <2> QED BY <1>5, <2>1, FrameCountType DEF Countable
<1> HIDE DEF f, g
<1> QED BY <1>1, <1>5, <1>9, <1>10, TwoCount

(* One is sent, and what is beside it sends one less than the band.        *)
LEMMA SendPieceCounts == ASSUME Core, CountInv, SendPiece PROVE CountInv'
<1> DEFINE b == Top.box
           l == Top.limits
           frames == IF b.w > l.w THEN <<Cut(RightPart(b, l.w), l)>> ELSE <<>>
           tail == Tail(stack)
<1>1. /\ phase = "rects" /\ stack # <<>> /\ Top.call = "cut" /\ b.h <= l.h
      /\ stack' = IF b.w > l.w THEN <<Cut(RightPart(b, l.w), l)>> \o tail ELSE tail
      /\ sent' = sent + 1
  BY DEF SendPiece, Calls
<1>2. /\ encoding' = encoding /\ lastRect' = lastRect /\ scale' = scale
      /\ phase' = phase /\ count' = count /\ header' = header /\ todo' = todo
  BY DEF SendPiece, clientVars
<1>3. Top \in StackFrames /\ tail \in Seq(StackFrames)
  BY <1>1, TopProperties DEF Core
<1>4. b \in OnScreen /\ l \in Limits /\ l.h \in Nat \ {0} /\ l.w \in Nat \ {0}
  BY <1>1, <1>3, FrameKinds DEF Limits
<1>5. b.w \in Nat \ {0} /\ b.h \in Nat \ {0}
  BY <1>4, BoxSizes
<1>6. PICK t \in Nat : t = Total(FrameCounts(tail))
  BY <1>3, FrameCountsType, TotalType
<1>7. FrameCount(Top) = Pieces(b.w, l.w) * Pieces(b.h, l.h) /\ Pieces(b.h, l.h) = 1
  BY <1>1, <1>4, <1>5, PiecesOfShort DEF FrameCount
<1>8. CASE b.w > l.w
  <2> DEFINE f == Cut(RightPart(b, l.w), l)
  <2>1. f \in StackFrames
    BY <1>4, <1>8, CutBeside, CutType
  <2>2. FrameCount(f) = Pieces(b.w - l.w, l.w) * Pieces(b.h, l.h) /\ f.call = "cut"
    BY CutCount DEF RightPart, Box
  <2>3. PICK n \in Nat : n = Pieces(b.w - l.w, l.w)
    <3>1. b.w - l.w \in Nat \ {0}
      BY <1>4, <1>5, <1>8
    <3> QED BY <1>4, <3>1, PiecesType
  <2>4. Pieces(b.w, l.w) = 1 + n
    BY <1>4, <1>5, <1>8, <2>3, PiecesOfLong
  <2>5. FrameCount(Top) = 1 + n /\ FrameCount(f) = n
    BY <1>7, <2>2, <2>3, <2>4
  <2>6. Countable(f)
    <3> HIDE DEF f
    <3> QED BY <2>1, <2>2, FrameCountType DEF Countable
  <2> HIDE DEF f
  <2>7. <<f>> \in Seq(StackFrames) /\ \A i \in DOMAIN <<f>> : Countable(<<f>>[i])
    BY <2>1, <2>6
  <2>8. Total(FrameCounts(<<f>> \o tail)) + 1 = FrameCount(Top) + Total(FrameCounts(tail))
    <3>1. Total(FrameCounts(<<f>> \o tail)) = n + t
      BY <1>3, <1>6, <2>1, <2>5, FrameCountsOfPrepended
    <3>2. (n + t) + 1 = (1 + n) + t
      OBVIOUS
    <3> QED BY <1>6, <2>5, <3>1, <3>2
  <2>9. stack' = <<f>> \o Tail(stack)
    BY <1>1, <1>8 DEF f
  <2> QED BY <1>1, <1>2, <2>7, <2>8, <2>9, CallCounts
<1>9. CASE ~(b.w > l.w)
  <2>1. Pieces(b.w, l.w) = 1
    BY <1>4, <1>5, <1>9, PiecesOfShort
  <2>2. FrameCount(Top) = 1
    BY <1>7, <2>1
  <2>3. <<>> \o tail = tail /\ <<>> \in Seq(StackFrames)
    BY <1>3, ConcatEmptySeq
  <2>4. Total(FrameCounts(<<>> \o tail)) + 1 = FrameCount(Top) + Total(FrameCounts(tail))
    <3>1. t + 1 = 1 + t
      OBVIOUS
    <3> QED BY <1>6, <2>2, <2>3, <3>1
  <2>5. stack' = <<>> \o Tail(stack)
    BY <1>1, <1>9, <2>3
  <2>6. \A i \in DOMAIN <<>> : Countable(<<>>[i])
    OBVIOUS
  <2> QED BY <1>1, <1>2, <2>3, <2>4, <2>5, <2>6, CallCounts
<1> QED BY <1>8, <1>9

(* Tight searches only in rectangles that were not counted.                *)
LEMMA TightEnterCounts == ASSUME Core, CountInv, TightEnter PROVE CountInv'
<1> DEFINE b == Top.box
<1>1. /\ phase = "rects" /\ stack # <<>> /\ Top.call = "tight"
      /\ IF ~lastRect \/ Area(b) < MinSplit THEN Becomes(<<Simple(b)>>)
                                           ELSE Becomes(<<Search(b, b.x, b.y)>>)
  BY DEF TightEnter, Calls
<1>2. b \in OnScreen /\ b.x \in Nat /\ b.y \in Nat /\ b.w \in Nat \ {0} /\ b.h \in Nat \ {0}
  BY <1>1, TopProperties, FrameKinds, BoxSizes DEF Core
<1>3. FrameCount(Top) = RectCount("Tight", lastRect, b)
  BY <1>1 DEF FrameCount
<1>4. CASE ~lastRect \/ Area(b) < MinSplit
  <2>1. Simple(b) \in StackFrames
    BY <1>2, SimpleType
  <2>2. Simple(b).call = "cut"
    BY CutCount DEF Simple
  <2>3. Countable(Top) => FrameCount(Simple(b)) = FrameCount(Top)
    BY <1>2, <1>3, SimpleCount DEF Countable
  <2>4. Countable(Simple(b))
    BY <2>1, <2>2, FrameCountType DEF Countable
  <2> QED BY <1>1, <1>4, <2>1, <2>3, <2>4, OneCounts
<1>5. CASE ~(~lastRect \/ Area(b) < MinSplit)
  <2>1. Search(b, b.x, b.y) \in StackFrames
    BY <1>2, SearchType, b.x <= b.x, b.y <= b.y, b.x < b.x + b.w
  <2>2. lastRect /\ Area(b) >= MinSplit
    <3>1. Area(b) \in Nat /\ MinSplit \in Nat
      BY <1>2, Constants DEF Area, ConstantsType
    <3> QED BY <1>5, <3>1
  <2>3. FrameCount(Top) = 0
    BY <1>3, <2>2 DEF RectCount, NumCodedRectsTight
  <2>4. ~Countable(Top)
    BY <2>3 DEF Countable
  <2> QED BY <1>1, <1>5, <2>1, <2>4, OneCounts
<1> QED BY <1>4, <1>5

(* Nothing is sent at the end.                                             *)
LEMMA EndCounts == ASSUME Core, CountInv, End PROVE CountInv'
<1>1. /\ phase = "rects" /\ phase' = "idle" /\ sent' = sent
      /\ encoding' = encoding /\ lastRect' = lastRect /\ scale' = scale
      /\ count' = count /\ header' = header /\ todo' = todo /\ stack' = stack
  BY DEF End, clientVars
<1>2. Due = 0 /\ Due' = 0
  BY <1>1 DEF Due
<1>3. StackCount' = StackCount /\ TodoCount' = TodoCount
  BY <1>1, CountsRigid DEF StackCount, TodoCount
<1>4. Counted => Counted'
  <2> SUFFICES ASSUME Counted PROVE Counted'
    OBVIOUS
  <2>1. /\ count < LastRectCount /\ header = count
        /\ \A i \in DOMAIN stack : Countable(stack[i])
        /\ \A i \in DOMAIN todo : RectCount(encoding, lastRect, todo[i]) > 0
        /\ sent + Due + StackCount + TodoCount = count
    BY DEF Counted
  <2>2. sent' + Due' + StackCount' + TodoCount' = count'
    BY <1>1, <1>2, <1>3, <2>1
  <2>3. \A i \in DOMAIN stack' : Countable(stack[i])'
    BY <1>1, <2>1 DEF Countable, FrameCount
  <2> QED BY <1>1, <2>1, <2>2, <2>3 DEF Counted
<1> QED BY <1>1, <1>4 DEF CountInv, Open

(* Another client begins at zero.                                          *)
LEMMA NewClientCounts == ASSUME NewClient PROVE CountInv'
<1>1. /\ phase' = "idle" /\ count' = 0 /\ header' = 0 /\ todo' = <<>> /\ stack' = <<>>
      /\ sent' = 0
  BY DEF NewClient
<1>2. Due' = 0
  BY <1>1 DEF Due
<1>3. StackCount' = 0 /\ TodoCount' = 0
  <2>1. FrameCounts(stack)' = <<>> /\ RectCounts(encoding, lastRect, todo)' = <<>>
    BY <1>1 DEF FrameCounts, RectCounts
  <2> QED BY <2>1, TotalOfEmpty DEF StackCount, TodoCount, Total
<1>4. Counted'
  BY <1>1, <1>2, <1>3 DEF Counted, LastRectCount
<1> QED BY <1>4 DEF CountInv

(* A stutter.                                                              *)
LEMMA SameCounts ==
  ASSUME CountInv, phase' = phase, encoding' = encoding, lastRect' = lastRect,
         scale' = scale, cursor' = cursor, position' = position, count' = count,
         header' = header, flushed' = flushed, todo' = todo, stack' = stack, sent' = sent
  PROVE  CountInv'
<1>1. StackCount' = StackCount /\ TodoCount' = TodoCount /\ Due' = Due
  BY CountsRigid DEF StackCount, TodoCount, Due
<1>2. Counted => Counted'
  <2> SUFFICES ASSUME Counted PROVE Counted'
    OBVIOUS
  <2>1. /\ count < LastRectCount /\ header = count /\ (phase = "cursor" => ~flushed)
        /\ \A i \in DOMAIN stack : Countable(stack[i])
        /\ \A i \in DOMAIN todo : RectCount(encoding, lastRect, todo[i]) > 0
        /\ sent + Due + StackCount + TodoCount = count
    BY DEF Counted
  <2>2. sent' + Due' + StackCount' + TodoCount' = count'
    BY <1>1, <2>1
  <2>3. \A i \in DOMAIN stack' : Countable(stack[i])'
    BY <2>1 DEF Countable, FrameCount
  <2> QED BY <2>1, <2>2, <2>3 DEF Counted
<1> QED BY <1>2 DEF CountInv, Open

(* Both invariants together, if no region is cut into more rectangles than *)
(* the header has a number for.                                            *)
LEMMA CountInvariant == ASSUME CountsFit PROVE Spec => [](Core /\ CountInv)
<1>1. Init => Core /\ CountInv
  BY InitCore, InitCounts
<1>2. Core /\ CountInv /\ [Next]_vars => CountInv'
  <2> SUFFICES ASSUME Core, CountInv, [Next]_vars PROVE CountInv'
    OBVIOUS
  <2>1. ASSUME NEW r \in Regions, NEW shape \in {"none", "fits", "overflows", "big"},
               NEW moved \in BOOLEAN, Begin(r, shape, moved)
        PROVE  CountInv'
    BY <2>1, BeginCounts
  <2>2. CASE SendCursor
    BY <2>2, SendCursorCounts
  <2>3. CASE SendPosition
    BY <2>3, SendPositionCounts
  <2>4. CASE NextRect
    BY <2>4, NextRectCounts
  <2>5. CASE CutBand
    BY <2>5, CutBandCounts
  <2>6. CASE SendPiece
    BY <2>6, SendPieceCounts
  <2>7. CASE TightEnter
    BY <2>7, TightEnterCounts
  <2>8. CASE SearchUpper
    BY <2>8, SearchCounts DEF SearchUpper
  <2>9. CASE SearchNext
    BY <2>9, SearchCounts DEF SearchNext
  <2>10. CASE SearchFound
    BY <2>10, SearchCounts DEF SearchFound
  <2>11. CASE SearchEnds
    BY <2>11, SearchCounts DEF SearchEnds
  <2>12. CASE End
    BY <2>12, EndCounts
  <2>13. CASE WriteFails
    BY <2>13 DEF WriteFails, CountInv
  <2>14. CASE NewClient
    BY <2>14, NewClientCounts
  <2>15. CASE UNCHANGED vars
    BY <2>15, SameCounts DEF vars
  <2> QED BY <2>1, <2>2, <2>3, <2>4, <2>5, <2>6, <2>7, <2>8, <2>9, <2>10, <2>11, <2>12,
             <2>13, <2>14, <2>15 DEF Next
<1> QED BY <1>1, <1>2, CoreInvariant, PTL DEF Spec

(* The header that reached the client announces as many rectangles as      *)
(* follow it, or leaves their number to LastRect for a client that knows   *)
(* it: the formulas of rfbSendFramebufferUpdate agree with the loops and   *)
(* the recursion of the encoders.                                          *)
THEOREM CountsAgree == ASSUME CountsFit PROVE Spec => []CountAgrees
<1>1. Core /\ CountInv => CountAgrees
  <2> SUFFICES ASSUME Core, CountInv, phase = "idle", scale = 1 \/ encoding = "plain"
               PROVE  CountIsTrue
    BY DEF CountAgrees
  <2>1. CASE Open
    BY <2>1 DEF Open, CountIsTrue
  <2>2. CASE Counted
    <3>1. /\ count < LastRectCount /\ header = count
          /\ sent + Due + StackCount + TodoCount = count
      BY <2>2 DEF Counted
    <3>2. stack = <<>> /\ todo = <<>> /\ sent \in Nat /\ count \in Nat
      BY DEF Core, PhaseInv, TypeOK
    <3>3. Due = 0
      BY DEF Due
    <3>4. FrameCounts(stack) = <<>> /\ RectCounts(encoding, lastRect, todo) = <<>>
      BY <3>2 DEF FrameCounts, RectCounts
    <3>5. StackCount = 0 /\ TodoCount = 0
      BY <3>4, TotalOfEmpty DEF StackCount, TodoCount
    <3>6. sent = count
      BY <3>1, <3>2, <3>3, <3>5
    <3>7. count # LastRectCount
      BY <3>1, <3>2 DEF LastRectCount
    <3> QED BY <3>1, <3>6, <3>7 DEF CountIsTrue
  <2> QED BY <2>1, <2>2 DEF CountInv
<1> QED BY <1>1, CountInvariant, PTL

=============================================================================
