-------------------------- MODULE RectanglesProofs --------------------------
(***************************************************************************)
(* What the server does with rectangles, for every size, number and        *)
(* sequence of them.                                                       *)
(*                                                                         *)
(* SubrectEncodings keeps its promises: what the client draws is what was  *)
(* read, and fits in the room that was made for it.  The first part is     *)
(* about its functions, the second about the colours that the encoder and  *)
(* the client remember from one tile to the next and the static buffers.   *)
(*                                                                         *)
(* Regions keeps its canonical form and stands for sets of pixels.  The    *)
(* third part is about the loops of miregion.c, from those over two bands  *)
(* to the one over two regions, the fourth about the regions of a client.  *)
(*                                                                         *)
(* Loops are recursive functions; what they compute follows by induction   *)
(* on a set of numbers, from the well-foundedness of < on Nat.             *)
(***************************************************************************)
EXTENDS SubrectEncodings, Regions, FiniteSetTheorems, SequenceTheorems,
        WellFoundedInduction, TLAPS

-----------------------------------------------------------------------------
(* A picture of a size, in whatever colours.                               *)
Grid(size) == (0..size[1] - 1) \X (0..size[2] - 1)
Sizes == (Nat \ {0}) \X (Nat \ {0})

IsPicture(t, size) == t = [p \in Grid(size) |-> t[p]]

-----------------------------------------------------------------------------
(* Division, as Scan needs it to number the pixels of a row of lines.      *)
(*                                                                         *)
(* The quotient and the remainder,                                         *)
LEMMA Division ==
  ASSUME NEW n \in Nat, NEW s \in Nat \ {0}
  PROVE  /\ n \div s \in Nat /\ n % s \in 0..s - 1
         /\ n = s * (n \div s) + (n % s)
<1>1. n \div s \in Nat /\ n % s \in 0..s - 1
  OBVIOUS
<1>2. n = s * (n \div s) + (n % s)
  OBVIOUS
<1> QED BY <1>1, <1>2

(* which are the only numbers that make up the dividend.                   *)
LEMMA DivisionUnique ==
  ASSUME NEW s \in Nat \ {0}, NEW q \in Nat, NEW r \in 0..s - 1
  PROVE  (q * s + r) \div s = q /\ (q * s + r) % s = r
<1> DEFINE n == q * s + r
<1>1. n \in Nat
  OBVIOUS
<1>2. PICK d \in Nat, m \in 0..s - 1 : d = n \div s /\ m = n % s /\ n = s * d + m
  BY <1>1, Division
<1> HIDE DEF n
<1>3. s * d + m = s * q + r
  BY <1>2 DEF n
<1>4. d = q
  <2>1. CASE d < q
    <3>1. s * (d + 1) <= s * q
      BY <2>1
    <3> QED BY <3>1, <1>3
  <2>2. CASE d > q
    <3>1. s * (q + 1) <= s * d
      BY <2>2
    <3> QED BY <3>1, <1>3
  <2> QED BY <2>1, <2>2
<1>5. m = r
  BY <1>3, <1>4
<1> QED BY <1>2, <1>4, <1>5 DEF n

(* Every nonempty set of numbers has a least one,                          *)
LEMMA LeastElement ==
  ASSUME NEW T, T \subseteq Nat, T # {}
  PROVE  \E x \in T : \A y \in T : x <= y
<1>1. PICK x \in T : \A y \in T : ~ (<<y, x>> \in OpToRel(<, Nat))
  BY WFMin, NatLessThanWellFounded
<1>2. \A y \in T : ~ (y < x)
  BY <1>1 DEF OpToRel
<1> QED BY <1>2

(* so a set with 0 and every successor has them all.                       *)
LEMMA Induction ==
  ASSUME NEW S, 0 \in S, \A n \in Nat : n \in S => n + 1 \in S
  PROVE  \A n \in Nat : n \in S
<1> SUFFICES ASSUME Nat \ S # {} PROVE FALSE
  OBVIOUS
<1>1. PICK x \in Nat \ S : \A y \in Nat \ S : x <= y
  BY LeastElement
<1>2. x - 1 \in Nat /\ x - 1 \in S
  BY <1>1
<1> QED BY <1>1, <1>2, (x - 1) + 1 = x

(* Min is the least number of a set,                                       *)
LEMMA MinProperties ==
  ASSUME NEW T, T \subseteq Nat, T # {}
  PROVE  Min(T) \in T /\ \A y \in T : Min(T) <= y
<1>1. \E x \in T : \A y \in T : x <= y
  BY LeastElement
<1> QED BY <1>1 DEF Min

(* and Max the greatest, if there is a bound.                              *)
LEMMA MaxProperties ==
  ASSUME NEW n \in Nat, NEW T, T \subseteq 0..n, T # {}
  PROVE  Max(T) \in T /\ \A y \in T : y <= Max(T)
<1> DEFINE R == {n - x : x \in T}
<1>1. R \subseteq Nat /\ R # {}
  <2>1. \A x \in T : n - x \in Nat
    OBVIOUS
  <2> QED BY <2>1
<1>2. PICK r \in R : \A y \in R : r <= y
  BY <1>1, LeastElement
<1>3. PICK x \in T : r = n - x
  BY <1>2
<1>4. \A y \in T : x >= y
  <2> TAKE y \in T
  <2>1. n - x <= n - y
    BY <1>2, <1>3
  <2> QED BY <2>1
<1>5. \E z \in T : \A y \in T : z >= y
  BY <1>4
<1>6. Max(T) \in T /\ \A y \in T : Max(T) >= y
  BY <1>5 DEF Max
<1> QED BY <1>6

-----------------------------------------------------------------------------
(* What WidthOf and HeightOf read off a picture is its size.               *)
LEMMA Measures ==
  ASSUME NEW size \in Sizes, NEW t, IsPicture(t, size)
  PROVE  /\ DOMAIN t = Grid(size)
         /\ WidthOf(t) = size[1] /\ HeightOf(t) = size[2]
         /\ SizeOf(t) = size[1] * size[2]
         /\ Size(t) = size
<1>1. DOMAIN t = Grid(size)
  BY DEF IsPicture
<1>2. PICK w \in Nat \ {0}, h \in Nat \ {0} : size = <<w, h>>
  BY DEF Sizes
<1>3. {p[1] : p \in DOMAIN t} = 0..w - 1
  <2>1. ASSUME NEW x \in 0..w - 1 PROVE \E p \in DOMAIN t : p[1] = x
    <3>1. <<x, 0>> \in DOMAIN t
      BY <1>1, <1>2 DEF Grid
    <3> QED BY <3>1
  <2>2. ASSUME NEW p \in DOMAIN t PROVE p[1] \in 0..w - 1
    BY <1>1, <1>2 DEF Grid
  <2> QED BY <2>1, <2>2
<1>4. {p[2] : p \in DOMAIN t} = 0..h - 1
  <2>1. ASSUME NEW y \in 0..h - 1 PROVE \E p \in DOMAIN t : p[2] = y
    <3>1. <<0, y>> \in DOMAIN t
      BY <1>1, <1>2 DEF Grid
    <3> QED BY <3>1
  <2>2. ASSUME NEW p \in DOMAIN t PROVE p[2] \in 0..h - 1
    BY <1>1, <1>2 DEF Grid
  <2> QED BY <2>1, <2>2
<1>5. Max(0..w - 1) = w - 1 /\ Max(0..h - 1) = h - 1
  <2>1. ASSUME NEW n \in Nat PROVE Max(0..n) = n
    BY MaxProperties
  <2> QED BY <2>1
<1>6. WidthOf(t) = w /\ HeightOf(t) = h
  <2> DEFINE X == {p[1] : p \in DOMAIN t}
             Y == {p[2] : p \in DOMAIN t}
  <2>1. WidthOf(t) = 1 + Max(X) /\ HeightOf(t) = 1 + Max(Y)
    BY DEF WidthOf, HeightOf
  <2>2. X = 0..w - 1 /\ Y = 0..h - 1
    BY <1>3, <1>4
  <2> HIDE DEF X, Y
  <2>3. Max(X) = w - 1 /\ Max(Y) = h - 1
    BY <2>2, <1>5
  <2> QED BY <2>1, <2>3
<1> QED BY <1>1, <1>2, <1>6 DEF SizeOf, Size

(* The loops over y and x visit pixels of the picture only,                *)
LEMMA ScanInside ==
  ASSUME NEW size \in Sizes, NEW t, IsPicture(t, size), NEW i \in 1..SizeOf(t)
  PROVE  Scan(t)[i] \in Grid(size)
<1>1. PICK w \in Nat \ {0}, h \in Nat \ {0} : size = <<w, h>>
  BY DEF Sizes
<1>2. WidthOf(t) = w /\ SizeOf(t) = w * h
  BY <1>1, Measures
<1>3. PICK d \in Nat, m \in 0..w - 1 : d = (i - 1) \div w /\ m = (i - 1) % w /\ i - 1 = w * d + m
  <2>1. i - 1 \in Nat
    BY <1>2
  <2> QED BY <2>1, Division
<1>4. d < h
  <2> SUFFICES ASSUME d >= h PROVE FALSE
    OBVIOUS
  <2>1. w * d >= w * h
    OBVIOUS
  <2> QED BY <2>1, <1>2, <1>3
<1>5. Scan(t)[i] = <<m, d>>
  BY <1>2, <1>3 DEF Scan
<1> QED BY <1>1, <1>4, <1>5 DEF Grid

(* and every one of them.                                                  *)
LEMMA ScanOnto ==
  ASSUME NEW size \in Sizes, NEW t, IsPicture(t, size), NEW p \in Grid(size)
  PROVE  \E i \in 1..SizeOf(t) : Scan(t)[i] = p
<1>1. PICK w \in Nat \ {0}, h \in Nat \ {0} : size = <<w, h>>
  BY DEF Sizes
<1>2. WidthOf(t) = w /\ SizeOf(t) = w * h
  BY <1>1, Measures
<1>3. PICK x \in 0..w - 1, y \in 0..h - 1 : p = <<x, y>>
  BY <1>1 DEF Grid
<1>4. y * w + x \in 0..w * h - 1
  <2>1. y * w <= (h - 1) * w
    OBVIOUS
  <2>2. (h - 1) * w = w * h - w
    OBVIOUS
  <2>3. y * w \in Nat
    OBVIOUS
  <2> QED BY <2>1, <2>2, <2>3
<1>5. (y * w + x) \div w = y /\ (y * w + x) % w = x
  BY DivisionUnique
<1>6. PICK n \in 0..w * h - 1 : n = y * w + x /\ n \div w = y /\ n % w = x
  BY <1>4, <1>5
<1>7. n + 1 \in 1..SizeOf(t) /\ (n + 1) - 1 = n
  BY <1>2
<1>8. Scan(t)[n + 1] = <<n % w, n \div w>>
  BY <1>2, <1>7 DEF Scan
<1> QED BY <1>3, <1>6, <1>7, <1>8

(* Rectangles of some colours.                                             *)
Rects(colours) == [x : Nat, y : Nat, w : Nat, h : Nat, colour : colours]

(* The rectangle that is found from a pixel contains it, and every pixel in *)
(* it has the first one's colour: both candidates stop where a row's run or *)
(* the column's ends.                                                      *)
LEMMA CornerFound ==
  ASSUME NEW size \in Sizes, NEW t, IsPicture(t, size), NEW p \in Grid(size)
  PROVE  LET r == Corner(t, p[1], p[2]) IN
         /\ r \in Rects({t[p]})
         /\ Inside(p, r)
         /\ \A q \in Grid(size) : Inside(q, r) => t[q] = t[p]
<1>1. PICK w \in Nat \ {0}, h \in Nat \ {0} : size = <<w, h>>
  BY DEF Sizes
<1>2. WidthOf(t) = w /\ HeightOf(t) = h
  BY <1>1, Measures
<1>3. PICK x \in 0..w - 1, y \in 0..h - 1 : p = <<x, y>>
  BY <1>1 DEF Grid
<1> DEFINE c == t[<<x, y>>]
           Row(j) == {i \in x..w - 1 : \A k \in x..i : t[<<k, j>>] = c}
           run(j) == Max(Row(j))
           Column == {j \in y..h - 1 : \A k \in y..j : t[<<x, k>>] = c}
           vy == Max(Column)
           vx == Min({run(j) : j \in y..vy})
           hx == run(y)
           Below == {j \in y..vy : \A k \in y..j : run(k) >= hx}
           hy == Max(Below)
           hor == [x |-> x, y |-> y, w |-> hx - x + 1, h |-> hy - y + 1, colour |-> c]
           ver == [x |-> x, y |-> y, w |-> vx - x + 1, h |-> vy - y + 1, colour |-> c]
<1>4. Corner(t, x, y) = IF hor.w * hor.h > ver.w * ver.h THEN hor ELSE ver
  BY <1>2 DEF Corner
<1> HIDE DEF Column, vy
<1>5. /\ vy \in y..h - 1
      /\ \A k \in y..vy : t[<<x, k>>] = c
  <2>1. y \in Column
    BY DEF Column
  <2>2. Column \subseteq 0..h - 1
    BY DEF Column
  <2>3. h - 1 \in Nat
    OBVIOUS
  <2>4. vy \in Column
    BY <2>1, <2>2, <2>3, MaxProperties DEF vy
  <2> QED BY <2>4 DEF Column
<1> HIDE DEF Row, run
<1>6. ASSUME NEW j \in y..vy
      PROVE  /\ run(j) \in x..w - 1
             /\ \A k \in x..run(j) : t[<<k, j>>] = c
  <2>1. t[<<x, j>>] = c
    BY <1>5
  <2>2. x \in Row(j)
    BY <2>1 DEF Row
  <2>3. Row(j) \subseteq 0..w - 1
    BY DEF Row
  <2>4. w - 1 \in Nat
    OBVIOUS
  <2>5. run(j) \in Row(j)
    BY <2>2, <2>3, <2>4, MaxProperties DEF run
  <2> QED BY <2>5 DEF Row
<1>7. /\ vx \in x..w - 1
      /\ \A j \in y..vy : vx <= run(j)
  <2> DEFINE Runs == {run(j) : j \in y..vy}
  <2>1. Runs \subseteq Nat /\ Runs \subseteq x..w - 1
    BY <1>6
  <2>2. Runs # {}
    BY <1>5
  <2>3. \A j \in y..vy : run(j) \in Runs
    OBVIOUS
  <2> HIDE DEF Runs
  <2>4. Min(Runs) \in Runs /\ \A i \in Runs : Min(Runs) <= i
    BY <2>1, <2>2, MinProperties
  <2>5. vx = Min(Runs)
    BY DEF Runs
  <2> QED BY <2>1, <2>3, <2>4, <2>5
<1> HIDE DEF vx, Below, hy
<1>8. /\ hy \in y..vy
      /\ \A k \in y..hy : run(k) >= hx
  <2>1. y \in Below
    BY <1>5, <1>6 DEF Below
  <2>2. Below \subseteq 0..h - 1
    BY <1>5 DEF Below
  <2>3. h - 1 \in Nat
    OBVIOUS
  <2>4. hy \in Below
    BY <2>1, <2>2, <2>3, MaxProperties DEF hy
  <2> QED BY <2>4 DEF Below
<1>9. hx \in x..w - 1
  BY <1>5, <1>6
<1> HIDE DEF hx
<1>10. ASSUME NEW a \in x..w - 1, NEW b \in y..vy, \A j \in y..b : a <= run(j),
              NEW r, r = [x |-> x, y |-> y, w |-> a - x + 1, h |-> b - y + 1, colour |-> c]
       PROVE  /\ r \in Rects({t[p]})
              /\ Inside(p, r)
              /\ \A q \in Grid(size) : Inside(q, r) => t[q] = t[p]
  <2>1. /\ r.x = x /\ r.y = y /\ r.w = a - x + 1 /\ r.h = b - y + 1
        /\ a - x + 1 \in Nat /\ b - y + 1 \in Nat
        /\ x + (a - x + 1) - 1 = a /\ y + (b - y + 1) - 1 = b
    BY <1>5, <1>10
  <2>2. r \in Rects({t[p]})
    BY <1>3, <1>10, <2>1 DEF Rects
  <2>3. \A q : Inside(q, r) <=> q[1] \in x..a /\ q[2] \in y..b
    BY <2>1 DEF Inside
  <2>4. Inside(p, r)
    BY <1>3, <1>5, <2>3
  <2>5. ASSUME NEW q \in Grid(size), Inside(q, r) PROVE t[q] = t[p]
    <3>1. PICK i \in x..a, j \in y..b : q = <<i, j>>
      BY <1>1, <2>3, <2>5 DEF Grid
    <3>2. j \in y..vy /\ i \in x..run(j)
      BY <1>5, <1>6, <1>10, <3>1
    <3> QED BY <1>3, <1>6, <3>1, <3>2
  <2> QED BY <2>2, <2>4, <2>5
<1>11. CASE hor.w * hor.h > ver.w * ver.h
  <2>1. Corner(t, p[1], p[2]) = hor
    BY <1>3, <1>4, <1>11
  <2>2. \A j \in y..hy : hx <= run(j)
    BY <1>5, <1>6, <1>8, <1>9
  <2> QED BY <1>8, <1>9, <1>10, <2>1, <2>2
<1>12. CASE ~(hor.w * hor.h > ver.w * ver.h)
  <2>1. Corner(t, p[1], p[2]) = ver
    BY <1>3, <1>4, <1>12
  <2>2. vy \in y..vy
    BY <1>5
  <2> QED BY <1>7, <1>10, <2>1, <2>2
<1> QED BY <1>11, <1>12

(* To fill a rectangle changes its pixels, and leaves a picture.           *)
LEMMA FillIsPicture ==
  ASSUME NEW size, NEW t, IsPicture(t, size), NEW r, NEW colour
  PROVE  /\ IsPicture(Fill(t, r, colour), size)
         /\ \A p \in Grid(size) : Fill(t, r, colour)[p] = IF Inside(p, r) THEN colour ELSE t[p]
<1>1. DOMAIN t = Grid(size)
  BY DEF IsPicture
<1>2. Fill(t, r, colour) = [p \in Grid(size) |-> IF Inside(p, r) THEN colour ELSE t[p]]
  BY <1>1 DEF Fill
<1> QED BY <1>2 DEF IsPicture

(* Pictures that agree in each pixel are equal.                            *)
LEMMA SamePictures ==
  ASSUME NEW size, NEW t, NEW u, IsPicture(t, size), IsPicture(u, size),
         \A p \in Grid(size) : t[p] = u[p]
  PROVE  t = u
BY DEF IsPicture

-----------------------------------------------------------------------------
(* The client's drawing: f[i] is what shows after the first i rectangles.  *)
Drawing(f, size, background, subs) ==
  /\ f[0] = [p \in Grid(size) |-> background]
  /\ \A i \in 1..Len(subs) : f[i] = Fill(f[i - 1], subs[i], subs[i].colour)

(* The recursive function that Draw is defined by exists.                  *)
LEMMA DrawIsDrawing ==
  ASSUME NEW size, NEW background, NEW S, NEW subs \in Seq(S)
  PROVE  \E f : Drawing(f, size, background, subs) /\ Draw(size, background, subs) = f[Len(subs)]
<1> DEFINE canvas == [p \in Grid(size) |-> background]
           Step(g, i) == IF i = 0 THEN canvas ELSE Fill(g[i - 1], subs[i], subs[i].colour)
           IsUpTo(n, g) == g = [i \in 0..n |-> Step(g, i)]
           N == {n \in Nat : n <= Len(subs) => \E g : IsUpTo(n, g)}
           drawn == CHOOSE g : g = [i \in 0..Len(subs) |-> Step(g, i)]
<1>0. Len(subs) \in Nat
  BY LenProperties
<1> HIDE DEF canvas
<1>1. 0 \in N
  <2> DEFINE g == [i \in 0..0 |-> canvas]
  <2>1. IsUpTo(0, g)
    OBVIOUS
  <2> QED BY <2>1
<1>2. ASSUME NEW n \in Nat, n \in N PROVE n + 1 \in N
  <2> SUFFICES ASSUME n + 1 <= Len(subs) PROVE \E g : IsUpTo(n + 1, g)
    OBVIOUS
  <2>1. PICK g : IsUpTo(n, g)
    BY <1>0, <1>2
  <2> DEFINE h == [i \in 0..n + 1 |->
                     IF i = n + 1 THEN Fill(g[n], subs[n + 1], subs[n + 1].colour) ELSE g[i]]
  <2>2. ASSUME NEW i \in 0..n + 1 PROVE h[i] = Step(h, i)
    <3>1. CASE i = n + 1
      BY <3>1
    <3>2. CASE i \in 0..n
      <4>1. g[i] = Step(g, i)
        BY <2>1, <3>2
      <4> QED BY <4>1, <3>2
    <3> QED BY <3>1, <3>2
  <2>3. IsUpTo(n + 1, h)
    BY <2>2
  <2> QED BY <2>3
<1>3. \A n \in Nat : n \in N
  <2> HIDE DEF N
  <2> QED BY <1>1, <1>2, Induction
<1>4. drawn = [i \in 0..Len(subs) |-> Step(drawn, i)]
  <2>1. Len(subs) \in N
    BY <1>0, <1>3
  <2>2. \E g : g = [i \in 0..Len(subs) |-> Step(g, i)]
    BY <2>1
  <2> HIDE DEF Step
  <2> QED BY <2>2
<1>5. Draw(size, background, subs) = drawn[Len(subs)]
  BY DEF Draw, canvas, Grid
<1> HIDE DEF drawn
<1>6. \A i \in 0..Len(subs) : drawn[i] = Step(drawn, i)
  BY <1>4
<1>7. Drawing(drawn, size, background, subs)
  BY <1>0, <1>6 DEF Drawing, canvas
<1> QED BY <1>5, <1>7

(* Without rectangles the background shows,                                *)
LEMMA DrawNothing ==
  ASSUME NEW size, NEW background
  PROVE  Draw(size, background, <<>>) = [p \in Grid(size) |-> background]
<1>1. <<>> \in Seq({})
  OBVIOUS
<1>2. PICK f : Drawing(f, size, background, <<>>) /\ Draw(size, background, <<>>) = f[Len(<<>>)]
  BY <1>1, DrawIsDrawing
<1> QED BY <1>2 DEF Drawing

(* and one more is drawn over what the others show.                        *)
LEMMA DrawAppend ==
  ASSUME NEW size, NEW background, NEW S, NEW subs \in Seq(S), NEW r \in S
  PROVE  Draw(size, background, Append(subs, r)) = Fill(Draw(size, background, subs), r, r.colour)
<1> DEFINE more == Append(subs, r)
<1>1. /\ more \in Seq(S) /\ Len(more) = Len(subs) + 1 /\ Len(subs) \in Nat
      /\ \A i \in 1..Len(subs) : more[i] = subs[i]
      /\ more[Len(subs) + 1] = r
  BY AppendProperties, LenProperties
<1> HIDE DEF more
<1>2. PICK f : Drawing(f, size, background, subs) /\ Draw(size, background, subs) = f[Len(subs)]
  BY DrawIsDrawing
<1>3. PICK g : Drawing(g, size, background, more) /\ Draw(size, background, more) = g[Len(more)]
  BY <1>1, DrawIsDrawing
<1> DEFINE N == {n \in Nat : n <= Len(subs) => f[n] = g[n]}
<1>4. 0 \in N
  BY <1>2, <1>3 DEF Drawing
<1>5. ASSUME NEW n \in Nat, n \in N PROVE n + 1 \in N
  <2> SUFFICES ASSUME n + 1 <= Len(subs) PROVE f[n + 1] = g[n + 1]
    OBVIOUS
  <2>1. f[n] = g[n] /\ n + 1 \in 1..Len(subs) /\ n + 1 \in 1..Len(more) /\ (n + 1) - 1 = n
    BY <1>1, <1>5
  <2>2. f[n + 1] = Fill(f[n], subs[n + 1], subs[n + 1].colour)
    BY <1>2, <2>1 DEF Drawing
  <2>3. g[n + 1] = Fill(g[n], more[n + 1], more[n + 1].colour)
    BY <1>3, <2>1 DEF Drawing
  <2> QED BY <1>1, <2>1, <2>2, <2>3
<1>6. \A n \in Nat : n \in N
  <2> HIDE DEF N
  <2> QED BY <1>4, <1>5, Induction
<1>7. f[Len(subs)] = g[Len(subs)]
  BY <1>1, <1>6
<1>8. g[Len(more)] = Fill(g[Len(subs)], r, r.colour)
  <2>1. Len(more) \in 1..Len(more) /\ Len(more) - 1 = Len(subs)
    BY <1>1
  <2>2. g[Len(more)] = Fill(g[Len(more) - 1], more[Len(more)], more[Len(more)].colour)
    BY <1>3, <2>1 DEF Drawing
  <2> QED BY <1>1, <2>1, <2>2
<1> QED BY <1>2, <1>3, <1>7, <1>8 DEF more

(* The pass of subrectEncode over the pixels, for any background.  Pixels  *)
(* are overwritten with the background only, and a rectangle never has the *)
(* background's colour.                                                    *)
ShadesOf(t) == {t[p] : p \in DOMAIN t}

Passes(size, t, background) ==
  [data : [Grid(size) -> ShadesOf(t) \cup {background}],
   subs : Seq(Rects(ShadesOf(t) \ {background})),
   len : Nat, fits : BOOLEAN]

(* f[i] is the state after i pixels.                                       *)
Pass(f, t, b, background, start, cost) ==
  /\ f[0] = [data |-> t, subs |-> <<>>, len |-> start, fits |-> TRUE]
  /\ \A i \in 1..SizeOf(t) : f[i] = Visit(t, b, background, cost, f[i - 1], Scan(t)[i])

(* The pass keeps the picture in two places: a pixel that was overwritten  *)
(* shows in the rectangles, and the others are still in the data.  Pixels  *)
(* that were visited are background, unless the pass gave up.              *)
Encoded(s, i, size, t, b, background, start, cost) ==
  /\ s \in Passes(size, t, background)
  /\ \A p \in Grid(size) : s.data[p] \in {t[p], background}
  /\ Draw(size, background, s.subs) =
       [p \in Grid(size) |-> IF s.data[p] = background THEN t[p] ELSE background]
  /\ s.fits => \A j \in 1..i : s.data[Scan(t)[j]] = background
  /\ s.len = start + cost * Len(s.subs)
  /\ s.subs = <<>> \/ s.len <= SizeOf(t) * b

(* The recursive function that SubrectEncode is defined by exists.         *)
LEMMA PassExists ==
  ASSUME NEW size \in Sizes, NEW t, IsPicture(t, size), NEW b, NEW background, NEW start, NEW cost
  PROVE  \E f : /\ Pass(f, t, b, background, start, cost)
                /\ SubrectEncode(t, b, background, start, cost) = f[SizeOf(t)]
<1> DEFINE first == [data |-> t, subs |-> <<>>, len |-> start, fits |-> TRUE]
           Step(g, i) == IF i = 0 THEN first
                         ELSE Visit(t, b, background, cost, g[i - 1], Scan(t)[i])
           IsUpTo(n, g) == g = [i \in 0..n |-> Step(g, i)]
           N == {n \in Nat : \E g : IsUpTo(n, g)}
           pass == CHOOSE g : g = [i \in 0..SizeOf(t) |-> Step(g, i)]
<1>0. SizeOf(t) \in Nat
  <2>1. PICK w \in Nat, h \in Nat : size = <<w, h>>
    BY DEF Sizes
  <2> QED BY <2>1, Measures
<1> HIDE DEF first
<1>1. 0 \in N
  <2> DEFINE g == [i \in 0..0 |-> first]
  <2>1. IsUpTo(0, g)
    OBVIOUS
  <2> QED BY <2>1
<1>2. ASSUME NEW n \in Nat, n \in N PROVE n + 1 \in N
  <2>1. PICK g : IsUpTo(n, g)
    BY <1>2
  <2> DEFINE h == [i \in 0..n + 1 |->
                     IF i = n + 1 THEN Visit(t, b, background, cost, g[n], Scan(t)[n + 1])
                                  ELSE g[i]]
  <2>2. ASSUME NEW i \in 0..n + 1 PROVE h[i] = Step(h, i)
    <3>1. CASE i = n + 1
      BY <3>1
    <3>2. CASE i \in 0..n
      <4>1. g[i] = Step(g, i)
        BY <2>1, <3>2
      <4> QED BY <4>1, <3>2
    <3> QED BY <3>1, <3>2
  <2>3. IsUpTo(n + 1, h)
    BY <2>2
  <2> HIDE DEF h, IsUpTo
  <2>4. \E k : IsUpTo(n + 1, k)
    BY <2>3
  <2> QED BY <2>4
<1>3. \A n \in Nat : n \in N
  <2> HIDE DEF N
  <2> QED BY <1>1, <1>2, Induction
<1>4. pass = [i \in 0..SizeOf(t) |-> Step(pass, i)]
  <2>1. SizeOf(t) \in N
    BY <1>0, <1>3
  <2>2. \E g : g = [i \in 0..SizeOf(t) |-> Step(g, i)]
    BY <2>1
  <2> HIDE DEF Step
  <2> QED BY <2>2
<1>5. SubrectEncode(t, b, background, start, cost) = pass[SizeOf(t)]
  BY DEF SubrectEncode, first
<1> HIDE DEF pass
<1>6. \A i \in 0..SizeOf(t) : pass[i] = Step(pass, i)
  BY <1>4
<1>7. Pass(pass, t, b, background, start, cost)
  <2>1. pass[0] = first
    BY <1>0, <1>6
  <2>2. ASSUME NEW i \in 1..SizeOf(t)
        PROVE  pass[i] = Visit(t, b, background, cost, pass[i - 1], Scan(t)[i])
    <3>1. i \in 0..SizeOf(t) /\ i # 0
      BY <1>0
    <3> HIDE DEF Step
    <3>2. pass[i] = Step(pass, i)
      BY <1>6, <3>1
    <3> QED BY <3>1, <3>2 DEF Step
  <2> QED BY <2>1, <2>2 DEF Pass, first
<1> QED BY <1>5, <1>7

(* A visit keeps this: the rectangle that is found has its colour in all of *)
(* its pixels, which have not been overwritten yet.                        *)
LEMMA VisitEncodes ==
  ASSUME NEW size \in Sizes, NEW t, IsPicture(t, size), NEW b \in Nat, NEW background,
         NEW start \in Nat, NEW cost \in Nat, NEW i \in Nat, i + 1 <= SizeOf(t),
         NEW s, Encoded(s, i, size, t, b, background, start, cost)
  PROVE  Encoded(Visit(t, b, background, cost, s, Scan(t)[i + 1]), i + 1,
                 size, t, b, background, start, cost)
<1> DEFINE p == Scan(t)[i + 1]
           v == Visit(t, b, background, cost, s, p)
           r == Corner(s.data, p[1], p[2])
<1>1. SizeOf(t) \in Nat
  <2>1. PICK w \in Nat, h \in Nat : size = <<w, h>>
    BY DEF Sizes
  <2> QED BY <2>1, Measures
<1>2. p \in Grid(size) /\ \A j \in 1..SizeOf(t) : Scan(t)[j] \in Grid(size)
  BY <1>1, ScanInside
<1>3. /\ s.data \in [Grid(size) -> ShadesOf(t) \cup {background}]
      /\ s.subs \in Seq(Rects(ShadesOf(t) \ {background}))
      /\ s.len \in Nat /\ s.fits \in BOOLEAN
  BY DEF Encoded, Passes
<1>4. v = IF ~s.fits \/ s.data[p] = background THEN s
          ELSE IF TooLarge(s.len + cost, t, b) THEN [s EXCEPT !.fits = FALSE]
          ELSE [data |-> Fill(s.data, r, background), subs |-> Append(s.subs, r),
                len |-> s.len + cost, fits |-> TRUE]
  BY DEF Visit
<1> HIDE DEF p, v, r
<1>5. CASE ~s.fits \/ s.data[p] = background
  <2>1. v = s
    BY <1>4, <1>5
  <2>2. s.fits => \A j \in 1..i + 1 : s.data[Scan(t)[j]] = background
    <3> SUFFICES ASSUME s.fits, NEW j \in 1..i + 1 PROVE s.data[Scan(t)[j]] = background
      OBVIOUS
    <3>1. CASE j = i + 1
      BY <1>5, <3>1 DEF p
    <3>2. CASE j \in 1..i
      BY <3>2 DEF Encoded
    <3> QED BY <3>1, <3>2
  <2> QED BY <2>1, <2>2 DEF Encoded, p, v
<1>6. CASE s.fits /\ s.data[p] # background /\ TooLarge(s.len + cost, t, b)
  <2>1. v = [s EXCEPT !.fits = FALSE]
    BY <1>4, <1>6
  <2>2. s \in Passes(size, t, background)
    BY DEF Encoded
  <2>3. /\ v \in Passes(size, t, background) /\ ~v.fits
        /\ v.data = s.data /\ v.subs = s.subs /\ v.len = s.len
    BY <2>1, <2>2 DEF Passes
  <2> QED BY <2>3 DEF Encoded, p, v
<1>7. CASE s.fits /\ s.data[p] # background /\ ~TooLarge(s.len + cost, t, b)
  <2> DEFINE data == Fill(s.data, r, background)
             subs == Append(s.subs, r)
  <2>1. v = [data |-> data, subs |-> subs, len |-> s.len + cost, fits |-> TRUE]
    BY <1>4, <1>7
  <2>2. v.data = data /\ v.subs = subs /\ v.len = s.len + cost /\ v.fits
    BY <2>1
  <2>3. IsPicture(s.data, size)
    BY <1>3 DEF IsPicture
  <2>4. /\ r \in Rects({s.data[p]})
        /\ Inside(p, r)
        /\ \A q \in Grid(size) : Inside(q, r) => s.data[q] = s.data[p]
    BY <1>2, <2>3, CornerFound DEF r
  <2>5. IsPicture(data, size) /\ \A q \in Grid(size) : data[q] = IF Inside(q, r) THEN background ELSE s.data[q]
    BY <2>3, FillIsPicture
  <2> HIDE DEF data
  <2>6. data \in [Grid(size) -> ShadesOf(t) \cup {background}]
    BY <1>3, <2>5 DEF IsPicture
  <2>7. \A q \in Grid(size) : s.data[q] \in {t[q], background}
    BY DEF Encoded
  <2>8. DOMAIN t = Grid(size)
    BY DEF IsPicture
  <2>9. r.colour = s.data[p] /\ r \in Rects(ShadesOf(t) \ {background})
    <3>1. s.data[p] \in ShadesOf(t) \ {background}
      BY <1>2, <1>3, <1>7
    <3> QED BY <2>4, <3>1 DEF Rects
  <2>10. /\ subs \in Seq(Rects(ShadesOf(t) \ {background}))
         /\ Len(subs) = Len(s.subs) + 1 /\ Len(s.subs) \in Nat
    BY <1>3, <2>9, AppendProperties, LenProperties
  <2>11. Draw(size, background, subs) = Fill(Draw(size, background, s.subs), r, r.colour)
    BY <1>3, <2>9, DrawAppend
  <2> HIDE DEF subs
  <2>12. v \in Passes(size, t, background)
    BY <1>3, <2>1, <2>6, <2>10 DEF Passes
  <2>13. \A q \in Grid(size) : v.data[q] \in {t[q], background}
    BY <2>2, <2>5, <2>7
  <2>14. Draw(size, background, v.subs) =
           [q \in Grid(size) |-> IF v.data[q] = background THEN t[q] ELSE background]
    <3> DEFINE old == [q \in Grid(size) |-> IF s.data[q] = background THEN t[q] ELSE background]
               new == [q \in Grid(size) |-> IF v.data[q] = background THEN t[q] ELSE background]
    <3>1. Draw(size, background, s.subs) = old
      BY DEF Encoded
    <3>2. IsPicture(old, size) /\ IsPicture(new, size)
      BY DEF IsPicture
    <3>3. /\ IsPicture(Fill(old, r, r.colour), size)
          /\ \A q \in Grid(size) : Fill(old, r, r.colour)[q] = IF Inside(q, r) THEN r.colour ELSE old[q]
      <4> HIDE DEF old
      <4> QED BY <3>2, FillIsPicture
    <3>4. ASSUME NEW q \in Grid(size) PROVE Fill(old, r, r.colour)[q] = new[q]
      <4>1. old[q] = IF s.data[q] = background THEN t[q] ELSE background
        OBVIOUS
      <4>2. new[q] = IF data[q] = background THEN t[q] ELSE background
        BY <2>2
      <4>3. CASE Inside(q, r)
        <5>1. data[q] = background /\ s.data[q] = s.data[p]
          BY <2>4, <2>5, <4>3
        <5>2. s.data[q] = t[q]
          BY <1>7, <2>7, <5>1
        <5>3. Fill(old, r, r.colour)[q] = r.colour
          BY <3>3, <4>3
        <5> QED BY <2>9, <4>2, <5>1, <5>2, <5>3
      <4>4. CASE ~Inside(q, r)
        <5>1. data[q] = s.data[q] /\ Fill(old, r, r.colour)[q] = old[q]
          BY <2>5, <3>3, <4>4
        <5> QED BY <4>1, <4>2, <5>1
      <4> QED BY <4>3, <4>4
    <3> HIDE DEF old, new
    <3>5. Fill(old, r, r.colour) = new
      BY <3>2, <3>3, <3>4, SamePictures
    <3> QED BY <2>2, <2>11, <3>1, <3>5 DEF new
  <2>15. \A j \in 1..i + 1 : v.data[Scan(t)[j]] = background
    <3> SUFFICES ASSUME NEW j \in 1..i + 1 PROVE data[Scan(t)[j]] = background
      BY <2>2
    <3>1. CASE j = i + 1
      BY <1>2, <2>4, <2>5, <3>1 DEF p
    <3>2. CASE j \in 1..i
      <4>1. s.data[Scan(t)[j]] = background
        BY <1>7, <3>2 DEF Encoded
      <4>2. Scan(t)[j] \in Grid(size)
        BY <1>1, <1>2, <3>2
      <4> QED BY <2>5, <4>1, <4>2
    <3> QED BY <3>1, <3>2
  <2>16. v.len = start + cost * Len(v.subs)
    <3>1. s.len = start + cost * Len(s.subs)
      BY DEF Encoded
    <3>2. PICK n \in Nat : n = Len(s.subs)
      BY <2>10
    <3>3. cost * (n + 1) = cost * n + cost
      OBVIOUS
    <3>4. start + cost * n + cost = start + cost * (n + 1)
      BY <3>3
    <3> QED BY <2>2, <2>10, <3>1, <3>2, <3>4
  <2>17. v.len <= SizeOf(t) * b
    <3>1. PICK m \in Nat : m = SizeOf(t) * b
      BY <1>1
    <3> QED BY <1>3, <1>7, <2>2, <3>1 DEF TooLarge
  <2> QED BY <2>2, <2>12, <2>13, <2>14, <2>15, <2>16, <2>17 DEF Encoded, p, v
<1> QED BY <1>3, <1>5, <1>6, <1>7

(* What subrectEncode answers: the rectangles draw the picture, and take no *)
(* more room than its pixels, unless it gives up.                          *)
Answers(code, size, t, b, background, start, cost) ==
  /\ IsPicture(code.data, size)
  /\ code.subs \in Seq(Rects(ShadesOf(t) \ {background}))
  /\ code.fits \in BOOLEAN
  /\ code.fits => Draw(size, background, code.subs) = t
  /\ code.len = start + cost * Len(code.subs)
  /\ code.subs = <<>> \/ code.len <= SizeOf(t) * b

(* That it does so follows by induction over the pixels, all of which Scan *)
(* has visited in the end.                                                 *)
LEMMA EncodeProperties ==
  ASSUME NEW size \in Sizes, NEW t, IsPicture(t, size), NEW b \in Nat, NEW background,
         NEW start \in Nat, NEW cost \in Nat
  PROVE  Answers(SubrectEncode(t, b, background, start, cost),
                 size, t, b, background, start, cost)
<1> DEFINE E(s, i) == Encoded(s, i, size, t, b, background, start, cost)
<1>1. PICK f : /\ Pass(f, t, b, background, start, cost)
               /\ SubrectEncode(t, b, background, start, cost) = f[SizeOf(t)]
  BY PassExists
<1>2. SizeOf(t) \in Nat
  <2>1. PICK w \in Nat, h \in Nat : size = <<w, h>>
    BY DEF Sizes
  <2> QED BY <2>1, Measures
<1> DEFINE N == {n \in Nat : n <= SizeOf(t) => E(f[n], n)}
<1>3. 0 \in N
  <2> DEFINE s == [data |-> t, subs |-> <<>>, len |-> start, fits |-> TRUE]
  <2>1. f[0] = s
    BY <1>1 DEF Pass
  <2>2. s.data = t /\ s.subs = <<>> /\ s.len = start /\ s.fits = TRUE
    OBVIOUS
  <2>3. DOMAIN t = Grid(size)
    BY DEF IsPicture
  <2>4. t \in [Grid(size) -> ShadesOf(t) \cup {background}]
    <3>1. \A p \in Grid(size) : t[p] \in ShadesOf(t)
      BY <2>3 DEF ShadesOf
    <3> QED BY <3>1 DEF IsPicture
  <2>5. <<>> \in Seq(Rects(ShadesOf(t) \ {background}))
    OBVIOUS
  <2>6. s \in Passes(size, t, background)
    BY <2>4, <2>5 DEF Passes
  <2>7. Draw(size, background, <<>>) = [p \in Grid(size) |-> IF t[p] = background THEN t[p] ELSE background]
    BY DrawNothing
  <2>8. start + cost * Len(<<>>) = start
    <3>1. Len(<<>>) = 0
      OBVIOUS
    <3> QED BY <3>1
  <2> HIDE DEF s
  <2>9. E(s, 0)
    BY <2>2, <2>6, <2>7, <2>8 DEF Encoded
  <2> QED BY <2>1, <2>9
<1>4. ASSUME NEW n \in Nat, n \in N PROVE n + 1 \in N
  <2> SUFFICES ASSUME n + 1 <= SizeOf(t) PROVE E(f[n + 1], n + 1)
    OBVIOUS
  <2>1. E(f[n], n)
    BY <1>2, <1>4
  <2>2. f[n + 1] = Visit(t, b, background, cost, f[n], Scan(t)[n + 1])
    <3>1. n + 1 \in 1..SizeOf(t) /\ (n + 1) - 1 = n
      BY <1>2
    <3> QED BY <1>1, <3>1 DEF Pass
  <2> QED BY <2>1, <2>2, VisitEncodes
<1>5. \A n \in Nat : n \in N
  <2> HIDE DEF N
  <2> QED BY <1>3, <1>4, Induction
<1> DEFINE code == f[SizeOf(t)]
<1>6. Encoded(code, SizeOf(t), size, t, b, background, start, cost)
  BY <1>2, <1>5
<1> HIDE DEF N, code
<1>7. IsPicture(code.data, size)
  BY <1>6 DEF Encoded, Passes, IsPicture
<1>8. ASSUME code.fits PROVE Draw(size, background, code.subs) = t
  <2> DEFINE drawn == [p \in Grid(size) |-> IF code.data[p] = background THEN t[p] ELSE background]
  <2>1. \A p \in Grid(size) : code.data[p] = background
    BY <1>6, <1>8, ScanOnto DEF Encoded
  <2>2. \A p \in Grid(size) : drawn[p] = t[p]
    BY <2>1
  <2>3. IsPicture(drawn, size)
    BY DEF IsPicture
  <2> HIDE DEF drawn
  <2>4. drawn = t
    BY <2>2, <2>3, SamePictures
  <2> QED BY <1>6, <2>4 DEF Encoded, drawn
<1>9. /\ code.subs \in Seq(Rects(ShadesOf(t) \ {background})) /\ code.fits \in BOOLEAN
      /\ code.len = start + cost * Len(code.subs)
      /\ code.subs = <<>> \/ code.len <= SizeOf(t) * b
  BY <1>6 DEF Encoded, Passes
<1> QED BY <1>1, <1>7, <1>8, <1>9 DEF code, Answers

(* Of the framebuffer's colours.                                           *)
LEMMA PicturesArePictures ==
  ASSUME NEW size, NEW t \in Pictures(size)
  PROVE  IsPicture(t, size) /\ \A p \in Grid(size) : t[p] \in Colours
BY DEF Pictures, IsPicture, Grid

(* testColours tells pictures of one colour and of two, and says which.    *)
(* That a picture of one colour has it for its background depends on the   *)
(* count: the second colour, which is none, has come up less often.        *)
LEMMA TestProperties ==
  ASSUME NEW size \in Sizes, NEW t \in Pictures(size)
  PROVE  LET test == TestColours(t) IN
         /\ test.solid \in BOOLEAN /\ test.mono \in BOOLEAN
         /\ test.bg \in Colours \cup {NoColour} /\ test.fg \in Colours \cup {NoColour}
         /\ test.solid => \A p \in Grid(size) : t[p] = test.bg
         /\ test.mono => \A p \in Grid(size) : t[p] \in {test.bg, test.fg}
<1> DEFINE px(i) == t[Scan(t)[i]]
           all == 1..SizeOf(t)
           colour1 == px(1)
           second == {i \in all : px(i) # colour1}
           solid == second = {}
           colour2 == IF solid THEN NoColour ELSE px(Min(second))
           third == {i \in all : px(i) \notin {colour1, colour2}}
           counted == IF third = {} THEN all ELSE 1..Min(third)
           n(colour) == Cardinality({i \in counted : px(i) = colour})
           more1 == n(colour1) > n(colour2)
           test == [solid |-> solid, mono |-> third = {},
                    bg |-> IF more1 THEN colour1 ELSE colour2,
                    fg |-> IF more1 THEN colour2 ELSE colour1]
<1>1. TestColours(t) = test
  BY DEF TestColours
<1>2. IsPicture(t, size) /\ \A p \in Grid(size) : t[p] \in Colours
  BY PicturesArePictures
<1>3. SizeOf(t) \in Nat \ {0}
  <2>1. PICK w \in Nat \ {0}, h \in Nat \ {0} : size = <<w, h>>
    BY DEF Sizes
  <2>2. SizeOf(t) = w * h
    BY <1>2, <2>1, Measures
  <2> QED BY <2>2
<1>4. \A i \in all : Scan(t)[i] \in Grid(size)
  BY <1>2, ScanInside
<1>5. \A p \in Grid(size) : \E i \in all : Scan(t)[i] = p
  BY <1>2, ScanOnto
<1>6. \A i \in all : px(i) \in Colours
  BY <1>2, <1>4
<1> HIDE DEF px
<1>7. colour1 \in Colours
  BY <1>3, <1>6
<1>8. colour2 \in Colours \cup {NoColour}
  <2>1. CASE solid
    BY <2>1
  <2>2. CASE ~solid
    <3>1. second \subseteq Nat /\ second \subseteq all
      OBVIOUS
    <3> HIDE DEF second
    <3>2. Min(second) \in second
      BY <2>2, <3>1, MinProperties
    <3> QED BY <1>6, <2>2, <3>1, <3>2
  <2> QED BY <2>1, <2>2
<1>9. test.bg \in {colour1, colour2} /\ test.fg \in {colour1, colour2} /\ {test.bg, test.fg} = {colour1, colour2}
  <2> HIDE DEF more1, colour1, colour2, third, solid
  <2> QED OBVIOUS
<1>10. ASSUME solid PROVE \A p \in Grid(size) : t[p] = test.bg
  <2>1. \A i \in all : px(i) = colour1
    BY <1>10
  <2>2. colour2 = NoColour /\ third = {} /\ counted = all
    BY <1>10, <2>1
  <2>3. test.bg = colour1
    <3>1. CASE colour1 = NoColour
      BY <1>9, <2>2, <3>1
    <3>2. CASE colour1 # NoColour
      <4>1. {i \in counted : px(i) = colour1} = all
        BY <2>1, <2>2
      <4>2. {i \in counted : px(i) = colour2} = {}
        BY <2>1, <2>2, <3>2
      <4>3. n(colour1) = Cardinality(all) /\ n(colour2) = Cardinality({})
        BY <4>1, <4>2
      <4> HIDE DEF n
      <4>4. Cardinality(all) = SizeOf(t) /\ Cardinality({}) = 0
        BY <1>3, FS_Interval, FS_EmptySet
      <4>5. more1
        BY <1>3, <4>3, <4>4
      <4> HIDE DEF more1, colour1, colour2, third, solid
      <4> QED BY <4>5
    <3> QED BY <3>1, <3>2
  <2> HIDE DEF test, colour1
  <2> QED BY <1>5, <2>1, <2>3 DEF px
<1>11. ASSUME third = {} PROVE \A p \in Grid(size) : t[p] \in {test.bg, test.fg}
  <2>1. \A i \in all : px(i) \in {colour1, colour2}
    BY <1>11
  <2> HIDE DEF test, colour1, colour2
  <2>2. \A i \in all : px(i) \in {test.bg, test.fg}
    BY <1>9, <2>1
  <2> QED BY <1>5, <2>2 DEF px
<1>12. test.solid = solid /\ test.mono = (third = {})
  <2> HIDE DEF more1, colour1, colour2, third, solid
  <2> QED OBVIOUS
<1>13. test.solid \in BOOLEAN /\ test.mono \in BOOLEAN
  BY <1>12
<1> HIDE DEF test, colour1, colour2, solid, third
<1>14. test.bg \in Colours \cup {NoColour} /\ test.fg \in Colours \cup {NoColour}
  BY <1>7, <1>8, <1>9
<1> QED BY <1>1, <1>10, <1>11, <1>12, <1>13, <1>14

-----------------------------------------------------------------------------
(* The inductive invariants.                                               *)
(*                                                                         *)
(* The types.                                                              *)
Hues == Colours \cup {NoColour}

Types ==
  /\ at \in [Clients -> {"tiles", "translate", "encode", "send"}]
  /\ bytes \in [Clients -> PixelSizes]
  /\ bg \in [Clients -> Hues] /\ fg \in [Clients -> Hues]
  /\ validBg \in [Clients -> BOOLEAN] /\ validFg \in [Clients -> BOOLEAN]
  /\ seenBg \in [Clients -> Hues] /\ seenFg \in [Clients -> Hues]
  /\ nSubrects \in [Clients -> Nat \cup {-1}]
  /\ source \in [Clients -> RRERectangles \cup {NoPicture}]
  /\ arrived \in [Clients -> BOOLEAN] /\ roomy \in [Clients -> BOOLEAN]

(* Between reading a rectangle for RRE and sending it, it is known.        *)
SourceInv == \A c \in Clients : at[c] \in {"encode", "send"} => source[c] \in RRERectangles

(* Tiles keep within their room.                                           *)
TilesInRoom == \A c \in Clients : at[c] = "tiles" => roomy[c]

(* The colours that sendHextiles takes to be known are those the client    *)
(* remembers.                                                              *)
MemoryInv ==
  \A c \in Clients :
    /\ validBg[c] => seenBg[c] = bg[c]
    /\ validFg[c] => seenFg[c] = fg[c]

(* With one client in RRE, the buffers hold what was read for it: the picture *)
(* and then the rectangles that draw it, in its format and as many as were *)
(* counted, which take no more bytes than the pixels.                      *)
BufferInv ==
  \A c \in Clients :
    /\ at[c] = "encode" => before = [by |-> c, data |-> source[c]]
    /\ at[c] = "send" /\ nSubrects[c] >= 0 =>
         /\ ClientRectangle(c) = source[c]
         /\ AfterBufLen <= RawSize(c, source[c])

(* What the constants are.                                                 *)
LEMMA SizesKnown ==
  /\ TileSizes \subseteq Sizes /\ RRESizes \subseteq Sizes
  /\ \A b \in PixelSizes : b \in Nat \ {0}
  /\ RectangleSize \in Nat
BY EncodingsAssumption DEF Sizes

(* A picture has pixels.                                                   *)
LEMMA PictureSize ==
  ASSUME NEW size \in Sizes, NEW t, IsPicture(t, size)
  PROVE  SizeOf(t) \in Nat \ {0} /\ SizeOf(t) = size[1] * size[2]
<1>1. PICK w \in Nat \ {0}, h \in Nat \ {0} : size = <<w, h>>
  BY DEF Sizes
<1>2. SizeOf(t) = w * h
  BY <1>1, Measures
<1> QED BY <1>1, <1>2

(* So has a rectangle for RRE: it is a picture of its size.                *)
LEMMA RectangleKnown ==
  ASSUME NEW t \in RRERectangles
  PROVE  /\ Size(t) \in Sizes /\ t \in Pictures(Size(t)) /\ IsPicture(t, Size(t))
         /\ SizeOf(t) \in Nat \ {0}
<1>1. PICK size \in Sizes : t \in Pictures(size)
  BY SizesKnown DEF RRERectangles
<1>2. IsPicture(t, size)
  BY <1>1, PicturesArePictures
<1>3. Size(t) = size
  BY <1>2, Measures
<1>4. SizeOf(t) \in Nat \ {0}
  BY <1>2, PictureSize
<1> QED BY <1>1, <1>2, <1>3, <1>4

(* What was computed for a tile: in whatever format, its code draws it,    *)
(* where it was not given up, and a tile of two colours has rectangles in the *)
(* foreground's only, which need not be sent with each.                    *)
LEMMA TileProperties ==
  ASSUME NEW t \in Tiles, NEW b \in PixelSizes
  PROVE  LET test == Test[t]
             code == Code[b][t]
         IN /\ test.solid \in BOOLEAN /\ test.mono \in BOOLEAN
            /\ test.bg \in Hues /\ test.fg \in Hues
            /\ code.fits \in BOOLEAN
            /\ code.len \in Nat /\ code.len <= SizeOf(t) * b
            /\ SizeOf(t) \in Nat
            /\ test.solid => Draw(Size(t), test.bg, <<>>) = t
            /\ code.fits => Draw(Size(t), test.bg, code.subs) = t
            /\ test.mono => \A i \in DOMAIN code.subs :
                              code.subs[i] = [code.subs[i] EXCEPT !.colour = test.fg]
            /\ code.subs = [i \in DOMAIN code.subs |-> code.subs[i]]
<1> DEFINE test == TestColours(t)
           start == 1
           cost == IF test.mono THEN 2 ELSE b + 2
           background == test.bg
           code == SubrectEncode(t, b, background, start, cost)
<1>1. Test[t] = test
  BY DEF Test
<1>2. Code[b][t] = code
  BY <1>1 DEF Code
<1>3. PICK size \in Sizes : t \in Pictures(size)
  BY SizesKnown DEF Tiles
<1>4. /\ IsPicture(t, size) /\ Size(t) = size /\ SizeOf(t) \in Nat \ {0} /\ DOMAIN t = Grid(size)
  BY <1>3, PicturesArePictures, Measures, PictureSize
<1>5. /\ test.solid \in BOOLEAN /\ test.mono \in BOOLEAN /\ test.bg \in Hues /\ test.fg \in Hues
      /\ test.solid => \A p \in Grid(size) : t[p] = test.bg
      /\ test.mono => \A p \in Grid(size) : t[p] \in {test.bg, test.fg}
  BY <1>3, TestProperties DEF Hues
<1>6. b \in Nat \ {0} /\ start \in Nat /\ cost \in Nat
  BY SizesKnown
<1> HIDE DEF test, cost, start
<1>7. /\ code.subs \in Seq(Rects(ShadesOf(t) \ {test.bg}))
      /\ code.fits \in BOOLEAN
      /\ code.fits => Draw(size, test.bg, code.subs) = t
      /\ code.len = start + cost * Len(code.subs)
      /\ code.subs = <<>> \/ code.len <= SizeOf(t) * b
  <2> HIDE DEF background, code
  <2>1. /\ code.subs \in Seq(Rects(ShadesOf(t) \ {background}))
        /\ code.fits \in BOOLEAN
        /\ code.fits => Draw(size, background, code.subs) = t
        /\ code.len = start + cost * Len(code.subs)
        /\ code.subs = <<>> \/ code.len <= SizeOf(t) * b
    <3>1. IsPicture(t, size) /\ b \in Nat /\ start \in Nat /\ cost \in Nat
      BY <1>4, <1>6
    <3>2. Answers(code, size, t, b, background, start, cost)
      BY <3>1, EncodeProperties DEF code
    <3> QED BY <3>2 DEF Answers
  <2> QED BY <2>1 DEF background
<1> HIDE DEF code
<1>8. code.len \in Nat /\ code.len <= SizeOf(t) * b
  <2>1. PICK k \in Nat : k = Len(code.subs)
    BY <1>7, LenProperties
  <2>2. start + cost * k \in Nat
    BY <1>6
  <2>3. CASE code.subs = <<>>
    <3>1. Len(code.subs) = 0
      BY <2>3
    <3>2. code.len = 1
      BY <1>6, <1>7, <3>1 DEF start
    <3>3. SizeOf(t) * b >= 1
      BY <1>4, <1>6
    <3> QED BY <3>2, <3>3
  <2> QED BY <1>7, <2>1, <2>2, <2>3
<1>9. ASSUME test.solid PROVE Draw(Size(t), test.bg, <<>>) = t
  <2>1. Draw(size, test.bg, <<>>) = [p \in Grid(size) |-> test.bg]
    BY DrawNothing
  <2>2. t = [p \in Grid(size) |-> test.bg]
    BY <1>4, <1>5, <1>9 DEF IsPicture
  <2> QED BY <1>4, <2>1, <2>2
<1>10. ASSUME test.mono, NEW i \in DOMAIN code.subs
       PROVE  code.subs[i] = [code.subs[i] EXCEPT !.colour = test.fg]
  <2>1. PICK r \in Rects(ShadesOf(t) \ {test.bg}) : r = code.subs[i]
    BY <1>7, ElementOfSeq, LenProperties
  <2>2. r.colour \in ShadesOf(t) \ {test.bg}
    BY DEF Rects
  <2>3. PICK p \in Grid(size) : r.colour = t[p]
    BY <1>4, <2>2 DEF ShadesOf
  <2>4. r.colour = test.fg
    BY <1>5, <1>10, <2>2, <2>3
  <2>5. r = [r EXCEPT !.colour = test.fg]
    BY <2>4 DEF Rects
  <2> QED BY <2>1, <2>5
<1>11. code.subs = [i \in DOMAIN code.subs |-> code.subs[i]]
  BY <1>7, LenProperties
<1> QED BY <1>1, <1>2, <1>4, <1>5, <1>7, <1>8, <1>9, <1>10, <1>11

(* A tile that is not raw arrives: the colours that are left out are those *)
(* the client remembers.                                                   *)
LEMMA TileArrives ==
  ASSUME Types, MemoryInv, NEW c \in Clients, NEW t \in Tiles,
         Test[t].solid \/ Code[bytes[c]][t].fits
  PROVE  /\ ClientBg(c, Test[t]) = Test[t].bg
         /\ ~Test[t].solid /\ Test[t].mono => ClientFg(c, Test[t]) = Test[t].fg
         /\ ClientPicture(c, t, Test[t],
              IF Test[t].solid THEN <<>> ELSE Code[bytes[c]][t].subs) = t
<1> DEFINE test == Test[t]
           code == Code[bytes[c]][t]
           subs == IF test.solid THEN <<>> ELSE code.subs
<1>1. bytes[c] \in PixelSizes
  BY DEF Types
<1>2. /\ test.solid \in BOOLEAN /\ test.mono \in BOOLEAN
      /\ test.solid => Draw(Size(t), test.bg, <<>>) = t
      /\ code.fits => Draw(Size(t), test.bg, code.subs) = t
      /\ test.mono => \A i \in DOMAIN code.subs :
                        code.subs[i] = [code.subs[i] EXCEPT !.colour = test.fg]
      /\ code.subs = [i \in DOMAIN code.subs |-> code.subs[i]]
  BY <1>1, TileProperties
<1> HIDE DEF test, code
<1>3. ClientBg(c, test) = test.bg
  BY DEF ClientBg, SpecifiesBg, MemoryInv
<1>4. ~test.solid /\ test.mono => ClientFg(c, test) = test.fg
  BY DEF ClientFg, SpecifiesFg, MemoryInv
<1> DEFINE recoloured == [i \in DOMAIN subs |->
             IF test.mono THEN [subs[i] EXCEPT !.colour = ClientFg(c, test)] ELSE subs[i]]
<1>5. ClientPicture(c, t, test, subs) = Draw(Size(t), test.bg, recoloured)
  BY <1>3 DEF ClientPicture
<1>6. recoloured = subs
  <2>1. CASE test.solid
    <3>1. subs = <<>> /\ DOMAIN subs = {}
      BY <2>1
    <3> QED BY <3>1
  <2>2. CASE ~test.solid /\ test.mono
    <3>1. subs = code.subs /\ ClientFg(c, test) = test.fg
      BY <1>4, <2>2
    <3>2. \A i \in DOMAIN subs : subs[i] = [subs[i] EXCEPT !.colour = ClientFg(c, test)]
      BY <1>2, <2>2, <3>1
    <3>3. subs = [i \in DOMAIN subs |-> subs[i]]
      BY <1>2, <3>1
    <3> HIDE DEF subs
    <3>4. recoloured = [i \in DOMAIN subs |-> subs[i]]
      BY <2>2, <3>2
    <3> QED BY <3>3, <3>4
  <2>3. CASE ~test.solid /\ ~test.mono
    <3>1. subs = code.subs
      BY <2>3
    <3>2. subs = [i \in DOMAIN subs |-> subs[i]]
      BY <1>2, <3>1
    <3> HIDE DEF subs
    <3> QED BY <2>3, <3>2
  <2> QED BY <1>2, <2>1, <2>2, <2>3
<1>7. Draw(Size(t), test.bg, subs) = t
  BY <1>2 DEF test, code
<1> QED BY <1>3, <1>4, <1>5, <1>6, <1>7 DEF test, code

(* No tile is sent that takes more than the room made for it.              *)
RoomCore == Types /\ SourceInv /\ TilesInRoom

(* Each action keeps the types and the room.                               *)
LEMMA NewRectangleRoom ==
  ASSUME RoomCore, NEW c \in Clients, NEW b \in PixelSizes, NewRectangle(c, b)
  PROVE  RoomCore'
<1>1. Types'
  <2>1. at' = at /\ nSubrects' = nSubrects /\ source' = source /\ arrived' = arrived /\ roomy' = roomy
    BY DEF NewRectangle, rreVars, shownVars
  <2>2. bytes' \in [Clients -> PixelSizes]
    BY DEF NewRectangle, RoomCore, Types
  <2>3. /\ bg' \in [Clients -> Hues] /\ fg' \in [Clients -> Hues]
        /\ seenBg' \in [Clients -> Hues] /\ seenFg' \in [Clients -> Hues]
    <3>1. NoColour \in Hues
      BY DEF Hues
    <3> HIDE DEF Hues
    <3> QED BY <3>1 DEF NewRectangle, RoomCore, Types
  <2>4. validBg' \in [Clients -> BOOLEAN] /\ validFg' \in [Clients -> BOOLEAN]
    BY DEF NewRectangle, RoomCore, Types
  <2> QED BY <2>1, <2>2, <2>3, <2>4 DEF RoomCore, Types
<1>2. SourceInv' /\ TilesInRoom'
  BY DEF NewRectangle, rreVars, shownVars, RoomCore, SourceInv, TilesInRoom
<1> QED BY <1>1, <1>2 DEF RoomCore

(* What takes no more than its room keeps the promise.                     *)
LEMMA ShowsRoom ==
  ASSUME RoomCore, NEW c \in Clients, NEW t, NEW seen, NEW n \in Int, NEW room \in Int,
         n <= room, Shows(c, t, seen, n, room), UNCHANGED <<at, source>>
  PROVE  /\ SourceInv' /\ TilesInRoom'
         /\ arrived' \in [Clients -> BOOLEAN] /\ roomy' \in [Clients -> BOOLEAN]
<1>1. arrived' \in [Clients -> BOOLEAN]
  <2>1. arrived' = [arrived EXCEPT ![c] = (seen = t)] /\ (seen = t) \in BOOLEAN
    BY DEF Shows
  <2> QED BY <2>1 DEF RoomCore, Types
<1>2. roomy' = [roomy EXCEPT ![c] = TRUE]
  BY DEF Shows
<1>3. roomy' \in [Clients -> BOOLEAN] /\ TilesInRoom'
  BY <1>2 DEF RoomCore, Types, TilesInRoom
<1> QED BY <1>1, <1>3 DEF RoomCore, SourceInv

(* The bytes of a tile are counted against its room: it takes two colours  *)
(* at most, and its rectangles no more than its pixels.                    *)
LEMMA SendTileFits ==
  ASSUME Types, NEW c \in Clients, NEW t \in Tiles, SendTile(c, t)
  PROVE  \E n \in Int, room \in Int :
           /\ n <= room
           /\ Shows(c, t, ClientPicture(c, t, Test[t],
                      IF Test[t].solid THEN <<>> ELSE Code[bytes[c]][t].subs), n, room)
<1> DEFINE test == Test[t]
           code == Code[bytes[c]][t]
           subs == IF test.solid THEN <<>> ELSE code.subs
           n == 1 + ColourBytes(c, test) + (IF test.solid THEN 0 ELSE code.len)
           room == TileRoom(c, t)
<1>1. bytes[c] \in PixelSizes /\ bytes[c] \in Nat
  BY SizesKnown DEF Types
<1>2. /\ test.solid \in BOOLEAN
      /\ code.len \in Nat /\ code.len <= SizeOf(t) * bytes[c]
      /\ SizeOf(t) \in Nat
  BY <1>1, TileProperties
<1>3. Shows(c, t, ClientPicture(c, t, test, subs), n, room)
  BY DEF SendTile
<1> HIDE DEF test, code
<1>4. PICK b \in Nat, m \in Nat, l \in Nat :
        b = bytes[c] /\ m = SizeOf(t) * bytes[c] /\ l = code.len /\ l <= m
  <2>1. SizeOf(t) * bytes[c] \in Nat
    BY <1>1, <1>2
  <2> QED BY <1>1, <1>2, <2>1
<1>5. PICK k \in Nat : k = ColourBytes(c, test) /\ k <= 2 * b
  <2>1. ColourBytes(c, test) \in {0, b, b + b}
    BY <1>4 DEF ColourBytes
  <2> QED BY <2>1
<1>6. PICK e \in Nat : e = (IF test.solid THEN 0 ELSE code.len) /\ e <= m
  BY <1>4
<1>7. room = 1 + 2 * b + m
  BY <1>4 DEF TileRoom, RawSize
<1>8. n = 1 + k + e
  BY <1>5, <1>6
<1> HIDE DEF n, room, subs
<1>9. n \in Int /\ room \in Int /\ n <= room
  BY <1>5, <1>6, <1>7, <1>8
<1> QED BY <1>3, <1>9 DEF test, code, subs

LEMMA SendRawTileFits ==
  ASSUME Types, NEW c \in Clients, NEW t \in Tiles, SendRawTile(c, t)
  PROVE  \E n \in Int, room \in Int : n <= room /\ Shows(c, t, t, n, room)
<1> DEFINE n == 1 + RawSize(c, t)
           room == TileRoom(c, t)
<1>1. bytes[c] \in PixelSizes /\ bytes[c] \in Nat
  BY SizesKnown DEF Types
<1>2. SizeOf(t) \in Nat
  BY <1>1, TileProperties
<1>3. Shows(c, t, t, n, room)
  BY DEF SendRawTile
<1>4. PICK b \in Nat, m \in Nat : b = bytes[c] /\ m = SizeOf(t) * bytes[c]
  <2>1. SizeOf(t) * bytes[c] \in Nat
    BY <1>1, <1>2
  <2> QED BY <1>1, <2>1
<1>5. n = 1 + m /\ room = 1 + 2 * b + m
  BY <1>4 DEF TileRoom, RawSize
<1> HIDE DEF n, room
<1>6. n \in Int /\ room \in Int /\ n <= room
  BY <1>5
<1> QED BY <1>3, <1>6

LEMMA SendTileRoom ==
  ASSUME RoomCore, NEW c \in Clients, NEW t \in Tiles, SendTile(c, t)
  PROVE  RoomCore'
<1> DEFINE test == Test[t]
<1>1. test.solid \in BOOLEAN /\ test.mono \in BOOLEAN /\ test.bg \in Hues /\ test.fg \in Hues
  BY TileProperties DEF RoomCore, Types
<1>2. UNCHANGED <<at, bytes, rreVars>>
  BY DEF SendTile
<1>3. /\ validBg' = [validBg EXCEPT ![c] = TRUE]
      /\ bg' = [bg EXCEPT ![c] = test.bg]
      /\ validFg' = [validFg EXCEPT ![c] = IF test.solid THEN validFg[c] ELSE test.mono]
      /\ fg' = [fg EXCEPT ![c] = IF ~test.solid /\ test.mono THEN test.fg ELSE fg[c]]
      /\ seenBg' = [seenBg EXCEPT ![c] = ClientBg(c, test)]
      /\ seenFg' = [seenFg EXCEPT ![c] =
                      IF test.solid \/ test.mono THEN ClientFg(c, test) ELSE NoColour]
  BY DEF SendTile, RoomCore, Types
<1>4. PICK n \in Int, room \in Int : n <= room /\ \E seen : Shows(c, t, seen, n, room)
  BY SendTileFits DEF RoomCore
<1> HIDE DEF test
<1>5. /\ SourceInv' /\ TilesInRoom'
      /\ arrived' \in [Clients -> BOOLEAN] /\ roomy' \in [Clients -> BOOLEAN]
  BY <1>2, <1>4, ShowsRoom DEF rreVars
<1>6. Types'
  <2>1. at' = at /\ bytes' = bytes /\ nSubrects' = nSubrects /\ source' = source
    BY <1>2 DEF rreVars
  <2>2. validBg' \in [Clients -> BOOLEAN] /\ validFg' \in [Clients -> BOOLEAN]
    BY <1>1, <1>3 DEF RoomCore, Types
  <2>3. NoColour \in Hues
    BY DEF Hues
  <2>4. bg' \in [Clients -> Hues] /\ fg' \in [Clients -> Hues]
    BY <1>1, <1>3 DEF RoomCore, Types
  <2>5. ClientBg(c, test) \in Hues /\ ClientFg(c, test) \in Hues
    BY <1>1 DEF ClientBg, ClientFg, RoomCore, Types
  <2>6. seenBg' \in [Clients -> Hues] /\ seenFg' \in [Clients -> Hues]
    BY <1>3, <2>3, <2>5 DEF RoomCore, Types
  <2> QED BY <1>5, <2>1, <2>2, <2>4, <2>6 DEF RoomCore, Types
<1> QED BY <1>5, <1>6 DEF RoomCore

LEMMA SendRawTileRoom ==
  ASSUME RoomCore, NEW c \in Clients, NEW t \in Tiles, SendRawTile(c, t)
  PROVE  RoomCore'
<1> DEFINE test == Test[t]
<1>1. test.mono \in BOOLEAN /\ test.bg \in Hues /\ test.fg \in Hues
  BY TileProperties DEF RoomCore, Types
<1>2. UNCHANGED <<at, bytes, rreVars>>
  BY DEF SendRawTile
<1>3. /\ bg' = [bg EXCEPT ![c] = test.bg]
      /\ fg' = [fg EXCEPT ![c] = IF test.mono THEN test.fg ELSE fg[c]]
      /\ validBg' = [validBg EXCEPT ![c] = FALSE]
      /\ validFg' = [validFg EXCEPT ![c] = FALSE]
      /\ seenBg' = [seenBg EXCEPT ![c] = NoColour]
      /\ seenFg' = [seenFg EXCEPT ![c] = NoColour]
  BY DEF SendRawTile, RoomCore, Types
<1>4. PICK n \in Int, room \in Int : n <= room /\ Shows(c, t, t, n, room)
  BY SendRawTileFits DEF RoomCore
<1> HIDE DEF test
<1>5. /\ SourceInv' /\ TilesInRoom'
      /\ arrived' \in [Clients -> BOOLEAN] /\ roomy' \in [Clients -> BOOLEAN]
  BY <1>2, <1>4, ShowsRoom DEF rreVars
<1>6. Types'
  <2>1. at' = at /\ bytes' = bytes /\ nSubrects' = nSubrects /\ source' = source
    BY <1>2 DEF rreVars
  <2>2. validBg' \in [Clients -> BOOLEAN] /\ validFg' \in [Clients -> BOOLEAN]
    BY <1>3 DEF RoomCore, Types
  <2>3. NoColour \in Hues
    BY DEF Hues
  <2>4. bg' \in [Clients -> Hues] /\ fg' \in [Clients -> Hues]
    BY <1>1, <1>3 DEF RoomCore, Types
  <2>5. seenBg' \in [Clients -> Hues] /\ seenFg' \in [Clients -> Hues]
    BY <1>3, <2>3 DEF RoomCore, Types
  <2> QED BY <1>5, <2>1, <2>2, <2>4, <2>5 DEF RoomCore, Types
<1> QED BY <1>5, <1>6 DEF RoomCore

LEMMA RRETranslateRoom ==
  ASSUME RoomCore, NEW c \in Clients, NEW t \in RRERectangles, RRETranslate(c, t)
  PROVE  RoomCore'
<1>1. /\ source' = [source EXCEPT ![c] = t]
      /\ at' = [at EXCEPT ![c] = "encode"] /\ nSubrects' = nSubrects
      /\ bytes' = bytes /\ UNCHANGED hextileVars /\ UNCHANGED shownVars
  BY DEF RRETranslate
<1>2. source' \in [Clients -> RRERectangles \cup {NoPicture}]
  BY <1>1 DEF RoomCore, Types
<1>3. at' \in [Clients -> {"tiles", "translate", "encode", "send"}]
  BY <1>1 DEF RoomCore, Types
<1>4. Types'
  BY <1>1, <1>2, <1>3 DEF RoomCore, Types, hextileVars, shownVars
<1>5. SourceInv' /\ TilesInRoom'
  BY <1>1 DEF RoomCore, Types, SourceInv, TilesInRoom, shownVars
<1> QED BY <1>4, <1>5 DEF RoomCore

(* What subrectEncode answers for RRE: when it does not give up, the       *)
(* rectangles that it counts draw the picture, and take no more bytes.     *)
LEMMA RREAnswers ==
  ASSUME NEW t \in RRERectangles, NEW b \in PixelSizes, NEW background
  PROVE  LET code == SubrectEncode(t, b, background, b, b + RectangleSize)
         IN /\ code.fits \in BOOLEAN
            /\ Len(code.subs) \in Nat
            /\ code.fits => /\ Draw(Size(t), background, code.subs) = t
                            /\ b + Len(code.subs) * (b + RectangleSize) <= SizeOf(t) * b
<1> DEFINE start == b
           cost == b + RectangleSize
           code == SubrectEncode(t, b, background, start, cost)
           size == Size(t)
<1>1. b \in Nat \ {0} /\ RectangleSize \in Nat /\ start \in Nat /\ cost \in Nat
  BY SizesKnown
<1>2. size \in Sizes /\ IsPicture(t, size) /\ SizeOf(t) \in Nat \ {0}
  BY RectangleKnown
<1> HIDE DEF start, cost, size
<1>3. Answers(code, size, t, b, background, start, cost)
  <2>1. b \in Nat
    BY <1>1
  <2> QED BY <1>1, <1>2, <2>1, EncodeProperties
<1> HIDE DEF code
<1>4. PICK k \in Nat : k = Len(code.subs)
  BY <1>3, LenProperties DEF Answers
<1>5. b + k * (b + RectangleSize) <= SizeOf(t) * b
  <2>1. CASE code.subs = <<>>
    <3>1. k = 0
      BY <1>4, <2>1
    <3>2. PICK s \in Nat \ {0} : s = SizeOf(t)
      BY <1>2
    <3>3. b <= s * b
      BY <1>1
    <3>4. k * (b + RectangleSize) = 0
      BY <1>1, <3>1
    <3> QED BY <1>1, <3>2, <3>3, <3>4
  <2>2. CASE code.subs # <<>>
    <3>1. code.len = start + cost * k /\ code.len <= SizeOf(t) * b
      BY <1>3, <1>4, <2>2 DEF Answers
    <3>2. PICK u \in Nat : u = b + RectangleSize
      BY <1>1
    <3>3. u * k = k * u
      OBVIOUS
    <3>4. b + k * u <= SizeOf(t) * b
      BY <3>1, <3>2, <3>3 DEF start, cost
    <3> QED BY <3>2, <3>4
  <2> QED BY <2>1, <2>2
<1>6. code.fits \in BOOLEAN /\ (code.fits => Draw(size, background, code.subs) = t)
  BY <1>3 DEF Answers
<1> QED BY <1>4, <1>5, <1>6 DEF code, start, cost, size

LEMMA RREEncodeRoom ==
  ASSUME RoomCore, NEW c \in Clients, RREEncode(c)
  PROVE  RoomCore'
<1>1. /\ at' = [at EXCEPT ![c] = "send"] /\ source' = source /\ bytes' = bytes
      /\ UNCHANGED hextileVars /\ UNCHANGED shownVars /\ at[c] = "encode"
  BY DEF RREEncode
<1>2. PICK t \in Pictures(Size(source[c])) :
        LET background == GetBgColour(t, bytes[c])
            code == SubrectEncode(t, bytes[c], background, bytes[c], bytes[c] + RectangleSize)
        IN nSubrects' = [nSubrects EXCEPT ![c] = IF code.fits THEN Len(code.subs) ELSE -1]
  BY DEF RREEncode
<1>3. t \in RRERectangles
  <2>1. PICK size \in RRESizes : source[c] \in Pictures(size)
    BY <1>1 DEF RoomCore, SourceInv, RRERectangles
  <2>2. Size(source[c]) = size
    BY <2>1, SizesKnown, PicturesArePictures, Measures
  <2> QED BY <2>1, <2>2 DEF RRERectangles
<1> DEFINE background == GetBgColour(t, bytes[c])
           code == SubrectEncode(t, bytes[c], background, bytes[c], bytes[c] + RectangleSize)
<1>4. code.fits \in BOOLEAN /\ Len(code.subs) \in Nat
  BY <1>3, RREAnswers DEF RoomCore, Types
<1>5. nSubrects' = [nSubrects EXCEPT ![c] = IF code.fits THEN Len(code.subs) ELSE -1]
  BY <1>2
<1> HIDE DEF code
<1>6. nSubrects' \in [Clients -> Nat \cup {-1}]
  <2>1. (IF code.fits THEN Len(code.subs) ELSE -1) \in Nat \cup {-1}
    BY <1>4
  <2> QED BY <1>5, <2>1 DEF RoomCore, Types
<1>7. at' \in [Clients -> {"tiles", "translate", "encode", "send"}]
  BY <1>1 DEF RoomCore, Types
<1>8. Types'
  BY <1>1, <1>6, <1>7 DEF RoomCore, Types, hextileVars, shownVars
<1>9. SourceInv' /\ TilesInRoom'
  BY <1>1 DEF RoomCore, Types, SourceInv, TilesInRoom, shownVars
<1> QED BY <1>8, <1>9 DEF RoomCore

LEMMA RRESendRoom ==
  ASSUME RoomCore, NEW c \in Clients, RRESend(c)
  PROVE  RoomCore'
<1>1. /\ at[c] = "send"
      /\ source' = [source EXCEPT ![c] = NoPicture]
      /\ at' = [at EXCEPT ![c] = "translate"]
      /\ bytes' = bytes /\ nSubrects' = nSubrects
      /\ UNCHANGED hextileVars
  BY DEF RRESend
<1>2. PICK seen, n, room : Shows(c, source[c], seen, n, room)
  BY DEF RRESend
<1>3. arrived' = [arrived EXCEPT ![c] = (seen = source[c])] /\ roomy' = [roomy EXCEPT ![c] = (n <= room)]
  BY <1>2 DEF Shows
<1>4. arrived' \in [Clients -> BOOLEAN] /\ roomy' \in [Clients -> BOOLEAN]
  <2>1. (seen = source[c]) \in BOOLEAN /\ (n <= room) \in BOOLEAN
    OBVIOUS
  <2> QED BY <1>3, <2>1 DEF RoomCore, Types
<1>5. source' \in [Clients -> RRERectangles \cup {NoPicture}]
  BY <1>1 DEF RoomCore, Types
<1>6. at' \in [Clients -> {"tiles", "translate", "encode", "send"}]
  BY <1>1 DEF RoomCore, Types
<1>7. Types'
  BY <1>1, <1>4, <1>5, <1>6 DEF RoomCore, Types, hextileVars
<1>8. SourceInv' /\ TilesInRoom'
  BY <1>1, <1>3 DEF RoomCore, Types, SourceInv, TilesInRoom
<1> QED BY <1>7, <1>8 DEF RoomCore

LEMMA RoomInvariant == Spec => []RoomCore
<1>1. Init => RoomCore
  <2> SUFFICES ASSUME Init PROVE RoomCore
    OBVIOUS
  <2>1. Types
    <3>1. NoColour \in Hues
      BY DEF Hues
    <3> HIDE DEF Hues
    <3> QED BY <3>1 DEF Init, Types
  <2>2. \A c \in Clients : at[c] \in {"tiles", "translate"} /\ roomy[c]
    BY DEF Init
  <2> QED BY <2>1, <2>2 DEF RoomCore, SourceInv, TilesInRoom
<1>2. RoomCore /\ [Next]_vars => RoomCore'
  <2> SUFFICES ASSUME RoomCore, [Next]_vars PROVE RoomCore'
    OBVIOUS
  <2>1. ASSUME NEW c \in Clients, NEW b \in PixelSizes, NewRectangle(c, b) PROVE RoomCore'
    BY <2>1, NewRectangleRoom
  <2>2. ASSUME NEW c \in Clients, NEW t \in Tiles, SendTile(c, t) PROVE RoomCore'
    BY <2>2, SendTileRoom
  <2>3. ASSUME NEW c \in Clients, NEW t \in Tiles, SendRawTile(c, t) PROVE RoomCore'
    BY <2>3, SendRawTileRoom
  <2>4. ASSUME NEW c \in Clients, NEW t \in RRERectangles, RRETranslate(c, t) PROVE RoomCore'
    BY <2>4, RRETranslateRoom
  <2>5. ASSUME NEW c \in Clients, RREEncode(c) PROVE RoomCore'
    BY <2>5, RREEncodeRoom
  <2>6. ASSUME NEW c \in Clients, RRESend(c) PROVE RoomCore'
    BY <2>6, RRESendRoom
  <2>7. CASE UNCHANGED vars
    <3>1. Types'
      BY <2>7 DEF RoomCore, Types, vars, hextileVars, rreVars, shownVars
    <3>2. SourceInv' /\ TilesInRoom'
      BY <2>7 DEF RoomCore, SourceInv, TilesInRoom, vars, rreVars, shownVars
    <3> QED BY <3>1, <3>2 DEF RoomCore
  <2> QED BY <2>1, <2>2, <2>3, <2>4, <2>5, <2>6, <2>7 DEF Next
<1> QED BY <1>1, <1>2, PTL DEF Spec

(* sendHextiles' colours and the client's keep step: where a colour is left *)
(* out, or a raw tile makes the client forget both, so does the encoder.   *)
LEMMA MemoryStep ==
  ASSUME RoomCore, MemoryInv, [Next]_vars
  PROVE  MemoryInv'
<1>1. ASSUME UNCHANGED hextileVars PROVE MemoryInv'
  BY <1>1 DEF MemoryInv, hextileVars
<1>2. ASSUME NEW c \in Clients, NEW b \in PixelSizes, NewRectangle(c, b) PROVE MemoryInv'
  <2>1. /\ validBg' = [validBg EXCEPT ![c] = FALSE] /\ validFg' = [validFg EXCEPT ![c] = FALSE]
        /\ bg' = [bg EXCEPT ![c] = NoColour] /\ fg' = [fg EXCEPT ![c] = NoColour]
        /\ seenBg' = [seenBg EXCEPT ![c] = NoColour] /\ seenFg' = [seenFg EXCEPT ![c] = NoColour]
    BY <1>2 DEF NewRectangle
  <2> QED BY <2>1 DEF MemoryInv, RoomCore, Types
<1>3. ASSUME NEW c \in Clients, NEW t \in Tiles, SendTile(c, t) PROVE MemoryInv'
  <2> DEFINE test == Test[t]
  <2>1. /\ test.solid \/ Code[bytes[c]][t].fits
        /\ validBg' = [validBg EXCEPT ![c] = TRUE]
        /\ bg' = [bg EXCEPT ![c] = test.bg]
        /\ validFg' = [validFg EXCEPT ![c] = IF test.solid THEN validFg[c] ELSE test.mono]
        /\ fg' = [fg EXCEPT ![c] = IF ~test.solid /\ test.mono THEN test.fg ELSE fg[c]]
        /\ seenBg' = [seenBg EXCEPT ![c] = ClientBg(c, test)]
        /\ seenFg' = [seenFg EXCEPT ![c] =
                        IF test.solid \/ test.mono THEN ClientFg(c, test) ELSE NoColour]
    BY <1>3 DEF SendTile, RoomCore, Types
  <2>2. /\ ClientBg(c, test) = test.bg
        /\ ~test.solid /\ test.mono => ClientFg(c, test) = test.fg
    BY <2>1, TileArrives DEF RoomCore
  <2>3. test.solid \in BOOLEAN /\ test.mono \in BOOLEAN
    BY TileProperties DEF RoomCore, Types
  <2>4. test.solid => ClientFg(c, test) = seenFg[c]
    BY DEF ClientFg, SpecifiesFg
  <2> HIDE DEF test
  <2> SUFFICES ASSUME NEW d \in Clients
               PROVE  /\ validBg'[d] => seenBg'[d] = bg'[d]
                      /\ validFg'[d] => seenFg'[d] = fg'[d]
    BY DEF MemoryInv
  <2>5. CASE d # c
    BY <2>1, <2>5 DEF MemoryInv, RoomCore, Types
  <2>6. CASE d = c
    <3>1. seenBg'[c] = bg'[c]
      BY <2>1, <2>2 DEF RoomCore, Types
    <3>2. ASSUME validFg'[c] PROVE seenFg'[c] = fg'[c]
      <4>1. CASE test.solid
        <5>1. validFg[c] /\ seenFg'[c] = seenFg[c] /\ fg'[c] = fg[c]
          BY <2>1, <2>4, <3>2, <4>1 DEF RoomCore, Types
        <5> QED BY <5>1 DEF MemoryInv
      <4>2. CASE ~test.solid
        <5>1. test.mono
          BY <2>1, <3>2, <4>2 DEF RoomCore, Types
        <5> QED BY <2>1, <2>2, <4>2, <5>1 DEF RoomCore, Types
      <4> QED BY <2>3, <4>1, <4>2
    <3> QED BY <2>6, <3>1, <3>2
  <2> QED BY <2>5, <2>6
<1>4. ASSUME NEW c \in Clients, NEW t \in Tiles, SendRawTile(c, t) PROVE MemoryInv'
  <2>1. /\ validBg' = [validBg EXCEPT ![c] = FALSE] /\ validFg' = [validFg EXCEPT ![c] = FALSE]
        /\ seenBg' = [seenBg EXCEPT ![c] = NoColour] /\ seenFg' = [seenFg EXCEPT ![c] = NoColour]
        /\ \A d \in Clients : d # c => bg'[d] = bg[d] /\ fg'[d] = fg[d]
    BY <1>4 DEF SendRawTile, RoomCore, Types
  <2> QED BY <2>1 DEF MemoryInv, RoomCore, Types
<1>5. ASSUME NEW c \in Clients, NEW t \in RRERectangles, RRETranslate(c, t) PROVE MemoryInv'
  BY <1>1, <1>5 DEF RRETranslate
<1>6. ASSUME NEW c \in Clients, RREEncode(c) PROVE MemoryInv'
  BY <1>1, <1>6 DEF RREEncode
<1>7. ASSUME NEW c \in Clients, RRESend(c) PROVE MemoryInv'
  BY <1>1, <1>7 DEF RRESend
<1>8. CASE UNCHANGED vars
  BY <1>1, <1>8 DEF vars
<1> QED BY <1>2, <1>3, <1>4, <1>5, <1>6, <1>7, <1>8 DEF Next

LEMMA MemoryInvariant == Spec => [](RoomCore /\ MemoryInv)
<1>1. Init => MemoryInv
  BY DEF Init, MemoryInv
<1>2. RoomCore /\ MemoryInv /\ [Next]_vars => MemoryInv'
  BY MemoryStep
<1> QED BY <1>1, <1>2, RoomInvariant, PTL DEF Spec

(* With one client in RRE every picture arrives, in no more than its room. *)
PictureCore == OneInRRE /\ BufferInv /\ PictureArrives /\ RoomIsEnough

(* A picture that is drawn as it was read keeps the promise, and so does   *)
(* what takes no more than its room.                                       *)
LEMMA ShowsPicture ==
  ASSUME RoomCore, PictureArrives, RoomIsEnough, NEW c \in Clients, NEW t, NEW seen,
         NEW n, NEW room, Shows(c, t, seen, n, room), seen = t, n <= room
  PROVE  PictureArrives' /\ RoomIsEnough'
BY DEF Shows, PictureArrives, RoomIsEnough, RoomCore, Types

(* A client that is sent tiles goes on to be.                              *)
LEMMA SameEncodings ==
  ASSUME OneInRRE, \A c \in Clients : at'[c] = "tiles" <=> at[c] = "tiles"
  PROVE  OneInRRE'
BY DEF OneInRRE

(* What BufferInv says of a client is about the RRE buffers, its place and  *)
(* its format.                                                             *)
LEMMA BufferStays ==
  ASSUME BufferInv, NEW c \in Clients, at' = at, UNCHANGED rreVars,
         \A d \in Clients : d # c => bytes'[d] = bytes[d],
         at[c] \in {"tiles", "translate"} \/ bytes'[c] = bytes[c]
  PROVE  BufferInv'
<1> SUFFICES ASSUME NEW d \in Clients
             PROVE  /\ at[d] = "encode" => before = [by |-> d, data |-> source[d]]
                    /\ at[d] = "send" /\ nSubrects[d] >= 0 =>
                         /\ ClientRectangle(d)' = source[d]
                         /\ AfterBufLen' <= RawSize(d, source[d])'
  BY DEF BufferInv, rreVars
<1>1. at[d] = "encode" => before = [by |-> d, data |-> source[d]]
  BY DEF BufferInv
<1>2. ASSUME at[d] = "send", nSubrects[d] >= 0
      PROVE  /\ ClientRectangle(d)' = source[d]
             /\ AfterBufLen' <= RawSize(d, source[d])'
  <2>1. bytes'[d] = bytes[d]
    BY <1>2
  <2>2. ClientRectangle(d)' = ClientRectangle(d)
    BY <2>1 DEF ClientRectangle, Draw, Fill, Inside, Size, WidthOf, HeightOf, rreVars
  <2>3. AfterBufLen' = AfterBufLen
    BY DEF AfterBufLen, rreVars
  <2>4. RawSize(d, source[d])' = RawSize(d, source[d])
    BY <2>1 DEF RawSize, SizeOf, WidthOf, HeightOf, rreVars
  <2> QED BY <1>2, <2>2, <2>3, <2>4 DEF BufferInv
<1> QED BY <1>1, <1>2

(* The other clients are sent tiles, and leave the buffers alone.          *)
LEMMA PictureStep ==
  ASSUME RoomCore, MemoryInv, PictureCore, [Next]_vars
  PROVE  PictureCore'
<1>1. ASSUME UNCHANGED <<at, bytes, rreVars>> PROVE OneInRRE' /\ BufferInv'
  <2>1. OneInRRE'
    BY <1>1, SameEncodings DEF PictureCore
  <2>2. BufferInv'
    <3>1. CASE Clients = {}
      BY <3>1 DEF BufferInv
    <3>2. CASE Clients # {}
      <4>1. PICK c \in Clients : TRUE
        BY <3>2
      <4> QED BY <1>1, <4>1, BufferStays DEF PictureCore
    <3> QED BY <3>1, <3>2
  <2> QED BY <2>1, <2>2
<1>2. ASSUME NEW c \in Clients, NEW b \in PixelSizes, NewRectangle(c, b) PROVE PictureCore'
  <2>1. /\ UNCHANGED <<at, rreVars>> /\ arrived' = arrived /\ roomy' = roomy
        /\ at[c] \in {"tiles", "translate"} /\ bytes' = [bytes EXCEPT ![c] = b]
    BY <1>2 DEF NewRectangle, shownVars
  <2>2. \A d \in Clients : d # c => bytes'[d] = bytes[d]
    BY <2>1 DEF RoomCore, Types
  <2>3. OneInRRE'
    BY <2>1, SameEncodings DEF PictureCore
  <2>4. BufferInv'
    BY <2>1, <2>2, BufferStays DEF PictureCore
  <2> QED BY <2>1, <2>3, <2>4 DEF PictureCore, PictureArrives, RoomIsEnough
<1>3. ASSUME NEW c \in Clients, NEW t \in Tiles, SendTile(c, t) PROVE PictureCore'
  <2> DEFINE subs == IF Test[t].solid THEN <<>> ELSE Code[bytes[c]][t].subs
  <2>1. UNCHANGED <<at, bytes, rreVars>> /\ (Test[t].solid \/ Code[bytes[c]][t].fits)
    BY <1>3 DEF SendTile
  <2>2. PICK n \in Int, room \in Int :
          n <= room /\ Shows(c, t, ClientPicture(c, t, Test[t], subs), n, room)
    BY <1>3, SendTileFits DEF RoomCore
  <2>3. ClientPicture(c, t, Test[t], subs) = t
    BY <2>1, TileArrives DEF RoomCore
  <2> HIDE DEF subs
  <2>4. PictureArrives' /\ RoomIsEnough'
    BY <2>2, <2>3, ShowsPicture DEF PictureCore
  <2> QED BY <1>1, <2>1, <2>4 DEF PictureCore
<1>4. ASSUME NEW c \in Clients, NEW t \in Tiles, SendRawTile(c, t) PROVE PictureCore'
  <2>1. UNCHANGED <<at, bytes, rreVars>>
    BY <1>4 DEF SendRawTile
  <2>2. PICK n \in Int, room \in Int : n <= room /\ Shows(c, t, t, n, room)
    BY <1>4, SendRawTileFits DEF RoomCore
  <2>3. PictureArrives' /\ RoomIsEnough'
    BY <2>2, ShowsPicture DEF PictureCore
  <2> QED BY <1>1, <2>1, <2>3 DEF PictureCore
<1>5. ASSUME NEW c \in Clients, NEW t \in RRERectangles, RRETranslate(c, t) PROVE PictureCore'
  <2>1. /\ at[c] = "translate" /\ at'[c] = "encode" /\ source'[c] = t
        /\ before' = [by |-> c, data |-> t]
        /\ \A d \in Clients : d # c => at'[d] = at[d]
    BY <1>5 DEF RRETranslate, RoomCore, Types
  <2>2. OneInRRE'
    BY <2>1, SameEncodings DEF PictureCore
  <2>3. \A d \in Clients : d # c => at'[d] = "tiles"
    BY <2>1 DEF PictureCore, OneInRRE
  <2>4. BufferInv'
    BY <2>1, <2>3 DEF BufferInv
  <2>5. PictureArrives' /\ RoomIsEnough'
    BY <1>5 DEF RRETranslate, shownVars, PictureCore, PictureArrives, RoomIsEnough
  <2> QED BY <2>2, <2>4, <2>5 DEF PictureCore
<1>6. ASSUME NEW c \in Clients, RREEncode(c) PROVE PictureCore'
  <2>1. /\ at[c] = "encode" /\ at'[c] = "send" /\ source' = source /\ bytes' = bytes
        /\ \A d \in Clients : d # c => at'[d] = at[d]
    BY <1>6 DEF RREEncode, RoomCore, Types
  <2>2. OneInRRE'
    BY <2>1, SameEncodings DEF PictureCore
  <2>3. \A d \in Clients : d # c => at'[d] = "tiles"
    BY <2>1 DEF PictureCore, OneInRRE
  <2>4. before.by = c /\ before.data = source[c]
    BY <2>1 DEF PictureCore, BufferInv
  <2> DEFINE code(background) == SubrectEncode(source[c], bytes[c], background,
                                               bytes[c], bytes[c] + RectangleSize)
  <2>5. PICK background :
          /\ after' = [bytes |-> bytes[c], bg |-> background, subs |-> code(background).subs]
          /\ nSubrects' = [nSubrects EXCEPT ![c] = IF code(background).fits
                                                  THEN Len(code(background).subs) ELSE -1]
    BY <1>6, <2>4 DEF RREEncode
  <2>6. source[c] \in RRERectangles /\ bytes[c] \in PixelSizes
    BY <2>1 DEF RoomCore, Types, SourceInv
  <2>7. /\ code(background).fits \in BOOLEAN
        /\ Len(code(background).subs) \in Nat
        /\ code(background).fits =>
             /\ Draw(Size(source[c]), background, code(background).subs) = source[c]
             /\ bytes[c] + Len(code(background).subs) * (bytes[c] + RectangleSize)
                  <= SizeOf(source[c]) * bytes[c]
    BY <2>6, RREAnswers
  <2> HIDE DEF code
  <2>8. nSubrects'[c] = IF code(background).fits THEN Len(code(background).subs) ELSE -1
    BY <2>5 DEF RoomCore, Types
  <2>9. ASSUME nSubrects'[c] >= 0
        PROVE  /\ ClientRectangle(c)' = source[c]
               /\ AfterBufLen' <= RawSize(c, source[c])'
    <3>1. code(background).fits /\ nSubrects'[c] = Len(code(background).subs)
      BY <2>7, <2>8, <2>9
    <3>2. /\ after'.bytes = bytes[c] /\ after'.bg = background
          /\ after'.subs = code(background).subs
      BY <2>5
    <3>3. ClientRectangle(c)' = Draw(Size(source[c]), background, code(background).subs)
      <4>1. ClientRectangle(c)' =
              IF after'.bytes = bytes'[c] /\ Len(after'.subs) = nSubrects'[c]
              THEN Draw(Size(source'[c]), after'.bg, after'.subs) ELSE NoPicture
        BY DEF ClientRectangle, Draw, Fill, Inside, Size, WidthOf, HeightOf
      <4> QED BY <2>1, <3>1, <3>2, <4>1
    <3>4. AfterBufLen' = bytes[c] + Len(code(background).subs) * (bytes[c] + RectangleSize)
      BY <3>2 DEF AfterBufLen
    <3>5. RawSize(c, source[c])' = SizeOf(source[c]) * bytes[c]
      BY <2>1 DEF RawSize, SizeOf, WidthOf, HeightOf
    <3> QED BY <2>7, <3>1, <3>3, <3>4, <3>5
  <2>10. BufferInv'
    <3> SUFFICES ASSUME NEW d \in Clients
                 PROVE  /\ at'[d] = "encode" => before' = [by |-> d, data |-> source'[d]]
                        /\ at'[d] = "send" /\ nSubrects'[d] >= 0 =>
                             /\ ClientRectangle(d)' = source'[d]
                             /\ AfterBufLen' <= RawSize(d, source[d])'
      BY DEF BufferInv
    <3>1. CASE d # c
      BY <2>3, <3>1
    <3>2. CASE d = c
      BY <2>1, <2>9, <3>2
    <3> QED BY <3>1, <3>2
  <2>11. PictureArrives' /\ RoomIsEnough'
    BY <1>6 DEF RREEncode, shownVars, PictureCore, PictureArrives, RoomIsEnough
  <2> QED BY <2>2, <2>10, <2>11 DEF PictureCore
<1>7. ASSUME NEW c \in Clients, RRESend(c) PROVE PictureCore'
  <2>1. /\ at[c] = "send" /\ at'[c] = "translate"
        /\ \A d \in Clients : d # c => at'[d] = at[d]
    BY <1>7 DEF RRESend, RoomCore, Types
  <2>2. OneInRRE'
    BY <2>1, SameEncodings DEF PictureCore
  <2>3. \A d \in Clients : d # c => at'[d] = "tiles"
    BY <2>1 DEF PictureCore, OneInRRE
  <2>4. BufferInv'
    BY <2>1, <2>3 DEF BufferInv
  <2>5. PICK n, room : Shows(c, source[c], source[c], n, room) /\ n <= room
    <3>1. CASE nSubrects[c] < 0
      <4>1. RawSize(c, source[c]) <= RawSize(c, source[c])
        <5>1. SizeOf(source[c]) \in Nat /\ bytes[c] \in Nat
          BY <2>1, RectangleKnown, SizesKnown DEF RoomCore, Types, SourceInv
        <5> QED BY <5>1 DEF RawSize
      <4> QED BY <1>7, <3>1, <4>1 DEF RRESend
    <3>2. CASE ~(nSubrects[c] < 0)
      <4>1. nSubrects[c] >= 0
        BY <3>2 DEF RoomCore, Types
      <4>2. ClientRectangle(c) = source[c] /\ AfterBufLen <= RawSize(c, source[c])
        BY <2>1, <4>1 DEF PictureCore, BufferInv
      <4> QED BY <1>7, <3>2, <4>2 DEF RRESend
    <3> QED BY <3>1, <3>2
  <2>6. PictureArrives' /\ RoomIsEnough'
    BY <2>5, ShowsPicture DEF PictureCore
  <2> QED BY <2>2, <2>4, <2>6 DEF PictureCore
<1>8. CASE UNCHANGED vars
  <2>1. UNCHANGED <<at, bytes, rreVars>> /\ arrived' = arrived /\ roomy' = roomy
    BY <1>8 DEF vars, shownVars
  <2> QED BY <1>1, <2>1 DEF PictureCore, PictureArrives, RoomIsEnough
<1> QED BY <1>2, <1>3, <1>4, <1>5, <1>6, <1>7, <1>8 DEF Next

LEMMA PictureInvariant == Spec /\ OneInRRE => []PictureCore
<1>1. Init /\ OneInRRE => PictureCore
  BY DEF Init, PictureCore, BufferInv, PictureArrives, RoomIsEnough
<1>2. RoomCore /\ MemoryInv /\ PictureCore /\ [Next]_vars => PictureCore'
  BY PictureStep
<1> QED BY <1>1, <1>2, MemoryInvariant, PTL DEF Spec

(* What the client draws is what was read from the framebuffer, if at most *)
(* one client is sent RRE or CoRRE: hextile.c, rre.c and corre.c leave out no *)
(* colour that the client does not know and no pixel that differs from the *)
(* background.                                                             *)
THEOREM PicturesArrive == Spec /\ OneInRRE => []PictureArrives
<1>1. PictureCore => PictureArrives
  BY DEF PictureCore
<1> QED BY <1>1, PictureInvariant, PTL

(* With one client in RRE, what is sent up to the static rreAfterBufLen is *)
(* no more than the raw data, and a tile never takes more bytes than       *)
(* sendHextiles makes room for.                                            *)
THEOREM RoomSuffices == Spec /\ OneInRRE => []RoomIsEnough
<1>1. PictureCore => RoomIsEnough
  BY DEF PictureCore
<1> QED BY <1>1, PictureInvariant, PTL

(* Hextile uses no static buffer: its tiles arrive, and keep within the     *)
(* room made for them, however many clients are sent RRE at once and        *)
(* whatever their threads leave in the buffers.                             *)
TilesArrived == \A c \in Clients : at[c] = "tiles" => arrived[c] /\ roomy[c]

THEOREM TilesArrive == Spec => []TilesArrived
<1> DEFINE AllArrive == \A c \in Clients : at[c] = "tiles" => arrived[c]
<1>1. Init => AllArrive
  BY DEF Init, AllArrive
<1>2. RoomCore /\ MemoryInv /\ AllArrive /\ [Next]_vars => AllArrive'
  <2> SUFFICES ASSUME RoomCore, MemoryInv, AllArrive, [Next]_vars PROVE AllArrive'
    OBVIOUS
  <2>1. ASSUME UNCHANGED <<at, arrived>> PROVE AllArrive'
    BY <2>1
  <2>2. ASSUME NEW c \in Clients, NEW t, NEW n, NEW room, at' = at, Shows(c, t, t, n, room) PROVE AllArrive'
    BY <2>2 DEF Shows, RoomCore, Types
  <2>3. ASSUME NEW c \in Clients, NEW b \in PixelSizes, NewRectangle(c, b) PROVE AllArrive'
    BY <2>1, <2>3 DEF NewRectangle, shownVars
  <2>4. ASSUME NEW c \in Clients, NEW t \in Tiles, SendTile(c, t) PROVE AllArrive'
    <3> DEFINE subs == IF Test[t].solid THEN <<>> ELSE Code[bytes[c]][t].subs
    <3>1. at' = at /\ (Test[t].solid \/ Code[bytes[c]][t].fits)
      BY <2>4 DEF SendTile
    <3>2. PICK n, room : Shows(c, t, ClientPicture(c, t, Test[t], subs), n, room)
      BY <2>4 DEF SendTile
    <3>3. ClientPicture(c, t, Test[t], subs) = t
      BY <3>1, TileArrives DEF RoomCore
    <3> QED BY <2>2, <3>1, <3>2, <3>3
  <2>5. ASSUME NEW c \in Clients, NEW t \in Tiles, SendRawTile(c, t) PROVE AllArrive'
    BY <2>2, <2>5 DEF SendRawTile
  <2>6. ASSUME NEW c \in Clients, NEW t \in RRERectangles, RRETranslate(c, t) PROVE AllArrive'
    BY <2>6 DEF RRETranslate, shownVars, RoomCore, Types
  <2>7. ASSUME NEW c \in Clients, RREEncode(c) PROVE AllArrive'
    BY <2>7 DEF RREEncode, shownVars, RoomCore, Types
  <2>8. ASSUME NEW c \in Clients, RRESend(c) PROVE AllArrive'
    <3>1. PICK t, seen, n, room : Shows(c, t, seen, n, room)
      BY <2>8 DEF RRESend
    <3>2. at' = [at EXCEPT ![c] = "translate"]
      BY <2>8 DEF RRESend
    <3> QED BY <3>1, <3>2 DEF Shows, RoomCore, Types
  <2>9. CASE UNCHANGED vars
    BY <2>1, <2>9 DEF vars, shownVars
  <2> QED BY <2>3, <2>4, <2>5, <2>6, <2>7, <2>8, <2>9 DEF Next
<1>3. RoomCore /\ AllArrive => TilesArrived
  BY DEF RoomCore, TilesInRoom, TilesArrived
<1> HIDE DEF AllArrive
<1> QED BY <1>1, <1>2, <1>3, MemoryInvariant, PTL DEF Spec

-----------------------------------------------------------------------------
(*                              Loops                                      *)

(* g[n] is what a loop has come to in n turns.                             *)
IsRun(g, start, turn) == \A n \in Nat : g[n] = IF n = 0 THEN start ELSE turn[g[n - 1]]

(* A loop whose turns stay among the states S goes on as long as one likes. *)
LEMMA Repeats ==
  ASSUME NEW S, NEW start \in S, NEW turn \in [S -> S]
  PROVE  \E g \in [Nat -> S] : IsRun(g, start, turn)
<1> DEFINE Runs(n, g) == g \in [0..n -> S] /\ g[0] = start /\ \A k \in 0..n - 1 : g[k + 1] = turn[g[k]]
           N == {n \in Nat : \E g : Runs(n, g)}
<1>1. 0 \in N
  <2> DEFINE g == [k \in 0..0 |-> start]
  <2>1. Runs(0, g)
    OBVIOUS
  <2> QED BY <2>1
<1>2. ASSUME NEW n \in Nat, n \in N PROVE n + 1 \in N
  <2>1. PICK g : Runs(n, g)
    BY <1>2
  <2> DEFINE h == [k \in 0..n + 1 |-> IF k = n + 1 THEN turn[g[n]] ELSE g[k]]
  <2>2. h \in [0..n + 1 -> S] /\ h[0] = start
    BY <2>1
  <2>3. ASSUME NEW k \in 0..(n + 1) - 1 PROVE h[k + 1] = turn[h[k]]
    <3>1. CASE k = n
      BY <3>1
    <3>2. CASE k # n
      <4>1. k \in 0..n - 1 /\ k + 1 \in 0..n
        BY <3>2
      <4> QED BY <2>1, <4>1
    <3> QED BY <3>1, <3>2
  <2>4. Runs(n + 1, h)
    BY <2>2, <2>3
  <2> HIDE DEF h, Runs
  <2> QED BY <2>4
<1>3. \A n \in Nat : n \in N
  <2> HIDE DEF N
  <2> QED BY <1>1, <1>2, Induction
<1> DEFINE G(n) == CHOOSE g : Runs(n, g)
<1>4. \A n \in Nat : Runs(n, G(n))
  <2> HIDE DEF Runs
  <2> QED BY <1>3
<1>5. ASSUME NEW n \in Nat PROVE G(n + 1)[n] = G(n)[n]
  <2> DEFINE K == {k \in Nat : k <= n => G(n + 1)[k] = G(n)[k]}
  <2> HIDE DEF G
  <2>1. 0 \in K
    BY <1>4
  <2>2. ASSUME NEW k \in Nat, k \in K PROVE k + 1 \in K
    <3> SUFFICES ASSUME k + 1 <= n PROVE G(n + 1)[k + 1] = G(n)[k + 1]
      OBVIOUS
    <3>1. k \in 0..n - 1 /\ k \in 0..(n + 1) - 1 /\ n + 1 \in Nat
      OBVIOUS
    <3>2. Runs(n, G(n)) /\ Runs(n + 1, G(n + 1))
      BY <1>4
    <3> QED BY <2>2, <3>1, <3>2
  <2>3. n \in K
    <3> HIDE DEF K
    <3> QED BY <2>1, <2>2, Induction
  <2> QED BY <2>3
<1> DEFINE g == [n \in Nat |-> G(n)[n]]
<1> HIDE DEF G
<1>6. g \in [Nat -> S]
  <2>1. ASSUME NEW n \in Nat PROVE G(n)[n] \in S
    BY <1>4
  <2> QED BY <2>1
<1>7. g[0] = start
  BY <1>4
<1>8. ASSUME NEW n \in Nat PROVE g[n + 1] = turn[g[n]]
  <2>1. n + 1 \in Nat /\ n \in 0..(n + 1) - 1
    OBVIOUS
  <2>2. G(n + 1)[n + 1] = turn[G(n + 1)[n]]
    BY <1>4, <2>1
  <2> QED BY <1>5, <2>1, <2>2
<1>9. ASSUME NEW n \in Nat PROVE g[n] = IF n = 0 THEN start ELSE turn[g[n - 1]]
  <2>1. CASE n = 0
    BY <1>7, <2>1
  <2>2. CASE n # 0
    <3>1. n - 1 \in Nat /\ (n - 1) + 1 = n
      BY <2>2
    <3> QED BY <1>8, <2>2, <3>1
  <2> QED BY <2>1, <2>2
<1> QED BY <1>6, <1>9 DEF IsRun

(* One that starts right and goes on right while it gets shorter ends.     *)
LEMMA LoopEnds ==
  ASSUME NEW I, NEW D, NEW m \in [I -> Nat], NEW g,
         g[0] \in I,
         \A n \in Nat : g[n] \in I => /\ g[n + 1] \in I
                                      /\ g[n] \notin D => m[g[n + 1]] < m[g[n]]
                                      /\ g[n] \in D => g[n + 1] = g[n],
         NEW n \in Nat, m[g[0]] <= n
  PROVE  g[n] \in I /\ g[n] \in D
<1> DEFINE N == {k \in Nat : g[k] \in I /\ (g[k] \in D \/ m[g[k]] + k <= m[g[0]])}
<1>1. 0 \in N
  OBVIOUS
<1>2. ASSUME NEW k \in Nat, k \in N PROVE k + 1 \in N
  <2>1. g[k] \in I /\ g[k + 1] \in I /\ m[g[k]] \in Nat /\ m[g[k + 1]] \in Nat /\ m[g[0]] \in Nat
    BY <1>2
  <2>2. CASE g[k] \in D
    BY <2>1, <2>2
  <2>3. CASE g[k] \notin D
    <3>1. m[g[k]] + k <= m[g[0]]
      BY <1>2, <2>3
    <3>2. m[g[k + 1]] < m[g[k]]
      BY <2>1, <2>3
    <3>3. m[g[k + 1]] + (k + 1) <= m[g[0]]
      BY <2>1, <3>1, <3>2
    <3> QED BY <2>1, <3>3
  <2> QED BY <2>2, <2>3
<1>3. n \in N
  <2> HIDE DEF N
  <2> QED BY <1>1, <1>2, Induction
<1>4. CASE g[n] \in D
  BY <1>3, <1>4
<1>5. CASE g[n] \notin D
  <2>1. m[g[n]] + n <= m[g[0]] /\ g[n] \in I
    BY <1>3, <1>5
  <2>2. g[n + 1] \in I /\ m[g[n + 1]] < m[g[n]]
    BY <1>5, <2>1
  <2>3. m[g[n + 1]] \in Nat /\ m[g[n]] \in Nat /\ m[g[0]] \in Nat
    BY <2>1, <2>2
  <2> QED BY <2>1, <2>2, <2>3
<1> QED BY <1>4, <1>5

(* Two indices of which one or both have moved on are nearer to the ends.  *)
LEMMA Nearer ==
  ASSUME NEW n1 \in Nat, NEW n2 \in Nat, NEW i \in 1..n1 + 1, NEW j \in 1..n2 + 1
  PROVE  /\ (n1 + 1 - i) + (n2 + 1 - j) \in Nat
         /\ \A k \in 1..n1 + 1, l \in 1..n2 + 1 :
              k + l > i + j => (n1 + 1 - k) + (n2 + 1 - l) < (n1 + 1 - i) + (n2 + 1 - j)
OBVIOUS

-----------------------------------------------------------------------------
(*                         The boxes of a band                             *)

IntBox == [x1 : Int, y1 : Int, x2 : Int, y2 : Int]

(* Boxes between two lines, from left to right with gaps between them,     *)
IsBand(b, top, bottom) ==
  /\ b \in Seq(IntBox)
  /\ \A k \in 1..Len(b) : b[k].x1 < b[k].x2 /\ b[k].y1 = top /\ b[k].y2 = bottom
  /\ \A k, l \in 1..Len(b) : k < l => b[k].x2 < b[l].x1

(* the columns they cover, all of them and from the ith on.                *)
InColumn(b, k, x) == b[k].x1 <= x /\ x < b[k].x2
Covers(b, x) == \E k \in 1..Len(b) : InColumn(b, k, x)
CoversFrom(b, i, x) == \E k \in i..Len(b) : InColumn(b, k, x)

(* From the first box on, those are all;                                   *)
LEMMA CoversFromFirst ==
  ASSUME NEW b, NEW x
  PROVE  CoversFrom(b, 1, x) <=> Covers(b, x)
BY DEF CoversFrom, Covers

(* from the next on, they lie right of a gap;                              *)
LEMMA CoversFromNext ==
  ASSUME NEW top, NEW bottom, NEW b, IsBand(b, top, bottom), NEW x \in Int, NEW i \in 1..Len(b)
  PROVE  /\ CoversFrom(b, i, x) <=> InColumn(b, i, x) \/ CoversFrom(b, i + 1, x)
         /\ CoversFrom(b, i + 1, x) => b[i].x2 < x
<1>1. Len(b) \in Nat /\ \A k \in 1..Len(b) : b[k] \in IntBox
  BY DEF IsBand
<1>2. CoversFrom(b, i, x) <=> InColumn(b, i, x) \/ CoversFrom(b, i + 1, x)
  BY <1>1 DEF CoversFrom
<1>3. ASSUME NEW k \in (i + 1)..Len(b), InColumn(b, k, x) PROVE b[i].x2 < x
  <2>1. k \in 1..Len(b) /\ i < k /\ b[i] \in IntBox /\ b[k] \in IntBox
    BY <1>1
  <2>2. b[i].x2 < b[k].x1
    BY <2>1 DEF IsBand
  <2> QED BY <1>3, <2>1, <2>2, SMTT(60) DEF InColumn, IntBox
<1> QED BY <1>2, <1>3 DEF CoversFrom

(* past the last, there are none.                                          *)
LEMMA CoversFromPast ==
  ASSUME NEW b \in Seq(IntBox), NEW x
  PROVE  ~CoversFrom(b, Len(b) + 1, x)
BY DEF CoversFrom

(* A box that is added on the right.                                       *)
LEMMA BandAppend ==
  ASSUME NEW top \in Int, NEW bottom \in Int, NEW out, IsBand(out, top, bottom),
         NEW b \in IntBox, b.x1 < b.x2, b.y1 = top, b.y2 = bottom,
         \A k \in 1..Len(out) : out[k].x2 < b.x1
  PROVE  /\ IsBand(Append(out, b), top, bottom)
         /\ \A x \in Int : Covers(Append(out, b), x) <=> Covers(out, x) \/ (b.x1 <= x /\ x < b.x2)
         /\ \A z \in Int : (\A k \in 1..Len(out) : out[k].x2 < z) /\ b.x2 < z
                             => \A k \in 1..Len(Append(out, b)) : Append(out, b)[k].x2 < z
<1> DEFINE more == Append(out, b)
<1>1. /\ out \in Seq(IntBox) /\ Len(out) \in Nat
      /\ more \in Seq(IntBox) /\ Len(more) = Len(out) + 1
      /\ \A k \in 1..Len(out) : more[k] = out[k]
      /\ more[Len(out) + 1] = b
  BY DEF IsBand
<1> HIDE DEF more
<1>2. \A k \in 1..Len(more) : \/ k \in 1..Len(out) /\ more[k] = out[k]
                              \/ k = Len(out) + 1 /\ more[k] = b
  BY <1>1
<1>3. \A k \in 1..Len(more) : more[k].x1 < more[k].x2 /\ more[k].y1 = top /\ more[k].y2 = bottom
  BY <1>2 DEF IsBand
<1>4. ASSUME NEW k \in 1..Len(more), NEW l \in 1..Len(more), k < l PROVE more[k].x2 < more[l].x1
  <2>1. k \in 1..Len(out) /\ more[k] = out[k]
    BY <1>1, <1>2, <1>4
  <2>2. CASE l \in 1..Len(out) /\ more[l] = out[l]
    BY <1>4, <2>1, <2>2 DEF IsBand
  <2>3. CASE more[l] = b
    BY <2>1, <2>3
  <2> QED BY <1>2, <2>2, <2>3
<1>5. ASSUME NEW x \in Int
      PROVE  Covers(more, x) <=> Covers(out, x) \/ (b.x1 <= x /\ x < b.x2)
  <2>1. \A k \in 1..Len(out) : k \in 1..Len(more) /\ (InColumn(more, k, x) <=> InColumn(out, k, x))
    BY <1>1 DEF InColumn
  <2>2. Len(out) + 1 \in 1..Len(more)
    BY <1>1
  <2>3. InColumn(more, Len(out) + 1, x) <=> b.x1 <= x /\ x < b.x2
    BY <1>1 DEF InColumn
  <2>4. \A k \in 1..Len(more) : k \in 1..Len(out) \/ k = Len(out) + 1
    BY <1>2
  <2> QED BY <2>1, <2>2, <2>3, <2>4 DEF Covers
<1>6. ASSUME NEW z \in Int, \A k \in 1..Len(out) : out[k].x2 < z, b.x2 < z
      PROVE  \A k \in 1..Len(more) : more[k].x2 < z
  BY <1>2, <1>6
<1> QED BY <1>1, <1>3, <1>4, <1>5, <1>6 DEF IsBand, more

(* Without boxes there is a band that covers nothing.                      *)
LEMMA NoBoxes ==
  ASSUME NEW top, NEW bottom
  PROVE  IsBand(<<>>, top, bottom) /\ Len(<<>>) = 0 /\ \A x : ~Covers(<<>>, x)
BY DEF IsBand, Covers

-----------------------------------------------------------------------------
(*                            miIntersectO                                 *)

IntersectStates == [i : Nat, j : Nat, out : Seq(IntBox)]
IntersectInv(b1, b2, top, bottom, s) ==
  /\ s.i \in 1..Len(b1) + 1 /\ s.j \in 1..Len(b2) + 1
  /\ IsBand(s.out, top, bottom)
  /\ s.i <= Len(b1) /\ s.j <= Len(b2) =>
       \A k \in 1..Len(s.out) : s.out[k].x2 < Max2(b1[s.i].x1, b2[s.j].x1)
  /\ \A x \in Int : Covers(s.out, x) \/ (CoversFrom(b1, s.i, x) /\ CoversFrom(b2, s.j, x))
                      <=> Covers(b1, x) /\ Covers(b2, x)

(* A turn keeps that, and passes a box if there is one left in both bands. *)
LEMMA IntersectTurnKeeps ==
  ASSUME NEW top \in Int, NEW bottom \in Int, NEW b1, NEW b2,
         IsBand(b1, top, bottom), IsBand(b2, top, bottom),
         NEW s \in IntersectStates, IntersectInv(b1, b2, top, bottom, s),
         s.i <= Len(b1), s.j <= Len(b2)
  PROVE  LET t == IntersectTurn(b1, b2, s)
         IN /\ t \in IntersectStates /\ IntersectInv(b1, b2, top, bottom, t)
            /\ t.i + t.j > s.i + s.j
<1> DEFINE t == IntersectTurn(b1, b2, s)
           c1 == b1[s.i]
           c2 == b2[s.j]
           b == [c1 EXCEPT !.x1 = Max2(@, c2.x1), !.x2 = Min2(@, c2.x2)]
<1>1. /\ Len(b1) \in Nat /\ Len(b2) \in Nat /\ s.i \in 1..Len(b1) /\ s.j \in 1..Len(b2)
      /\ s.out \in Seq(IntBox)
  BY DEF IsBand, IntersectInv, IntersectStates
<1>2. /\ c1 \in IntBox /\ c2 \in IntBox /\ c1.x1 < c1.x2 /\ c2.x1 < c2.x2
      /\ c1.y1 = top /\ c1.y2 = bottom
  BY <1>1, SMTT(60) DEF IsBand
<1>3. /\ b \in IntBox /\ b.y1 = top /\ b.y2 = bottom
      /\ b.x1 = Max2(c1.x1, c2.x1) /\ b.x2 = Min2(c1.x2, c2.x2)
      /\ b.x1 \in Int /\ b.x2 \in Int
  BY <1>2 DEF IntBox, Max2, Min2
<1>4. t = [i |-> IF c1.x2 = b.x2 THEN s.i + 1 ELSE s.i,
           j |-> IF c2.x2 = b.x2 THEN s.j + 1 ELSE s.j,
           out |-> IF b.x1 < b.x2 THEN Append(s.out, b) ELSE s.out]
  BY <1>1, SMTT(60) DEF IntersectTurn
<1> HIDE DEF t, b, c1, c2
<1>5. c1.x1 \in Int /\ c1.x2 \in Int /\ c2.x1 \in Int /\ c2.x2 \in Int
  BY <1>2 DEF IntBox
<1>6. /\ t.i = IF c1.x2 = b.x2 THEN s.i + 1 ELSE s.i
      /\ t.j = IF c2.x2 = b.x2 THEN s.j + 1 ELSE s.j
      /\ t.out = IF b.x1 < b.x2 THEN Append(s.out, b) ELSE s.out
      /\ t = [i |-> t.i, j |-> t.j, out |-> t.out]
  BY <1>4
<1>7. c1.x2 = b.x2 \/ c2.x2 = b.x2
  BY <1>3, <1>5 DEF Min2
<1>8. s.i \in Nat /\ s.j \in Nat
  BY <1>1
<1>9. /\ t.i \in 1..Len(b1) + 1 /\ t.j \in 1..Len(b2) + 1 /\ t.i + t.j > s.i + s.j
      /\ t.i \in Nat /\ t.j \in Nat
  BY <1>1, <1>6, <1>7, <1>8, SMTT(60)
<1>10. \A k \in 1..Len(s.out) : s.out[k].x2 < b.x1
  BY <1>1, <1>3 DEF IntersectInv, c1, c2
<1>11. IsBand(t.out, top, bottom)
  BY <1>3, <1>6, <1>10, BandAppend DEF IntersectInv
<1>12. ASSUME NEW x \in Int
      PROVE  Covers(t.out, x) \/ (CoversFrom(b1, t.i, x) /\ CoversFrom(b2, t.j, x))
               <=> Covers(b1, x) /\ Covers(b2, x)
  <2>1. Covers(t.out, x) <=> Covers(s.out, x) \/ (b.x1 <= x /\ x < b.x2)
    <3>1. CASE b.x1 < b.x2
      <4>1. IsBand(s.out, top, bottom)
        BY DEF IntersectInv
      <4>2. Covers(Append(s.out, b), x) <=> Covers(s.out, x) \/ (b.x1 <= x /\ x < b.x2)
        BY <1>3, <1>10, <3>1, <4>1, BandAppend
      <4> QED BY <1>6, <3>1, <4>2
    <3>2. CASE ~(b.x1 < b.x2)
      BY <1>3, <1>6, <3>2
    <3> QED BY <3>1, <3>2
  <2>2. /\ CoversFrom(b1, s.i, x) <=> InColumn(b1, s.i, x) \/ CoversFrom(b1, s.i + 1, x)
        /\ CoversFrom(b1, s.i + 1, x) => c1.x2 < x
    BY <1>1, CoversFromNext DEF c1
  <2>3. /\ CoversFrom(b2, s.j, x) <=> InColumn(b2, s.j, x) \/ CoversFrom(b2, s.j + 1, x)
        /\ CoversFrom(b2, s.j + 1, x) => c2.x2 < x
    BY <1>1, CoversFromNext DEF c2
  <2>4. InColumn(b1, s.i, x) <=> c1.x1 <= x /\ x < c1.x2
    BY DEF InColumn, c1
  <2>5. InColumn(b2, s.j, x) <=> c2.x1 <= x /\ x < c2.x2
    BY DEF InColumn, c2
  <2>6. Covers(s.out, x) \/ (CoversFrom(b1, s.i, x) /\ CoversFrom(b2, s.j, x))
          <=> Covers(b1, x) /\ Covers(b2, x)
    BY DEF IntersectInv
  <2>7. (b.x1 <= x /\ x < b.x2) <=> InColumn(b1, s.i, x) /\ InColumn(b2, s.j, x)
    BY <1>3, <1>5, <2>4, <2>5 DEF Max2, Min2
  <2>8. CoversFrom(b1, t.i, x) => CoversFrom(b1, s.i, x)
    BY <1>6, <2>2
  <2>9. CoversFrom(b2, t.j, x) => CoversFrom(b2, s.j, x)
    BY <1>6, <2>3
  <2>10. CoversFrom(b1, s.i, x) /\ CoversFrom(b2, s.j, x) =>
           \/ InColumn(b1, s.i, x) /\ InColumn(b2, s.j, x)
           \/ CoversFrom(b1, t.i, x) /\ CoversFrom(b2, t.j, x)
    <3> SUFFICES ASSUME CoversFrom(b1, s.i, x), CoversFrom(b2, s.j, x),
                        ~(InColumn(b1, s.i, x) /\ InColumn(b2, s.j, x))
                 PROVE  CoversFrom(b1, t.i, x) /\ CoversFrom(b2, t.j, x)
      OBVIOUS
    <3>1. x >= b.x2
      BY <1>3, <1>5, <2>2, <2>3, <2>4, <2>5 DEF Min2
    <3>2. c1.x2 = b.x2 => CoversFrom(b1, s.i + 1, x)
      BY <1>3, <1>5, <3>1, <2>2, <2>4
    <3>3. c2.x2 = b.x2 => CoversFrom(b2, s.j + 1, x)
      BY <1>3, <1>5, <3>1, <2>3, <2>5
    <3> QED BY <1>6, <3>2, <3>3
  <2>11. Covers(t.out, x) <=> Covers(s.out, x) \/ (InColumn(b1, s.i, x) /\ InColumn(b2, s.j, x))
    BY <2>1, <2>7
  <2>12. CoversFrom(b1, t.i, x) /\ CoversFrom(b2, t.j, x)
           => CoversFrom(b1, s.i, x) /\ CoversFrom(b2, s.j, x)
    BY <2>8, <2>9
  <2> QED BY <2>2, <2>3, <2>6, <2>10, <2>11, <2>12
<1>13. ASSUME t.i <= Len(b1), t.j <= Len(b2), NEW k \in 1..Len(t.out)
       PROVE  t.out[k].x2 < Max2(b1[t.i].x1, b2[t.j].x1)
  <2>1. /\ t.i \in 1..Len(b1) /\ t.j \in 1..Len(b2)
        /\ b1[t.i] \in IntBox /\ b2[t.j] \in IntBox
    BY <1>9, <1>13, SMTT(60) DEF IsBand
  <2>2. b1[t.i].x1 >= c1.x1 /\ (c1.x2 = b.x2 => b1[t.i].x1 > b.x2)
    <3>1. t.i = s.i \/ s.i < t.i
      BY <1>6, <1>8
    <3>2. s.i < t.i => c1.x2 < b1[t.i].x1
      BY <1>1, <2>1 DEF IsBand, c1
    <3>3. t.i = s.i => b1[t.i] = c1
      BY DEF c1
    <3>4. b1[t.i].x1 \in Int
      BY <2>1 DEF IntBox
    <3>5. CASE t.i = s.i
      BY <1>6, <1>8, <1>5, <3>3, <3>5, SMTT(60)
    <3>6. CASE s.i < t.i
      BY <1>2, <1>6, <1>8, <1>5, <3>2, <3>4, <3>6, SMTT(60)
    <3> QED BY <3>1, <3>5, <3>6
  <2>3. b2[t.j].x1 >= c2.x1 /\ (c2.x2 = b.x2 => b2[t.j].x1 > b.x2)
    <3>1. t.j = s.j \/ s.j < t.j
      BY <1>6, <1>8
    <3>2. s.j < t.j => c2.x2 < b2[t.j].x1
      BY <1>1, <2>1 DEF IsBand, c2
    <3>3. t.j = s.j => b2[t.j] = c2
      BY DEF c2
    <3>4. b2[t.j].x1 \in Int
      BY <2>1 DEF IntBox
    <3>5. CASE t.j = s.j
      BY <1>6, <1>8, <1>5, <3>3, <3>5, SMTT(60)
    <3>6. CASE s.j < t.j
      BY <1>2, <1>6, <1>8, <1>5, <3>2, <3>4, <3>6, SMTT(60)
    <3> QED BY <3>1, <3>5, <3>6
  <2> DEFINE z == Max2(b1[t.i].x1, b2[t.j].x1)
  <2>4. z \in Int /\ b.x2 < z /\ b.x1 <= z
    <3>1. b1[t.i].x1 \in Int /\ b2[t.j].x1 \in Int
      BY <2>1 DEF IntBox
    <3> QED BY <1>3, <1>7, <1>5, <2>2, <2>3, <3>1, SMTT(60) DEF Max2
  <2> HIDE DEF z
  <2>5. \A l \in 1..Len(s.out) : s.out[l].x2 < z
    <3>1. \A l \in 1..Len(s.out) : s.out[l] \in IntBox
      BY <1>1
    <3> QED BY <1>3, <1>10, <2>4, <3>1, SMTT(60) DEF IntBox
  <2>6. \A l \in 1..Len(t.out) : t.out[l].x2 < z
    BY <1>3, <1>6, <1>10, <2>4, <2>5, BandAppend DEF IntersectInv
  <2> QED BY <2>6 DEF z
<1>14. t \in IntersectStates
  BY <1>6, <1>9, <1>11 DEF IntersectStates, IsBand
<1> QED BY <1>9, <1>11, <1>12, <1>13, <1>14 DEF IntersectInv, t

(* miIntersectO makes the band that covers what both bands cover.          *)
LEMMA IntersectCorrect ==
  ASSUME NEW top \in Int, NEW bottom \in Int, NEW b1, NEW b2,
         IsBand(b1, top, bottom), IsBand(b2, top, bottom)
  PROVE  /\ IsBand(IntersectO(b1, b2), top, bottom)
         /\ \A x \in Int : Covers(IntersectO(b1, b2), x) <=> Covers(b1, x) /\ Covers(b2, x)
<1> DEFINE start == [i |-> 1, j |-> 1, out |-> <<>>]
           Turn(s) == IntersectTurn(b1, b2, s)
           Steps(g) == [n \in Nat |-> IF n = 0 THEN start ELSE Turn(g[n - 1])]
           I == {s \in IntersectStates : IntersectInv(b1, b2, top, bottom, s)}
           D == {s \in IntersectStates : s.i > Len(b1) \/ s.j > Len(b2)}
           m == [s \in I |-> (Len(b1) + 1 - s.i) + (Len(b2) + 1 - s.j)]
           turns == CHOOSE g : g = Steps(g)
           end == turns[Len(b1) + Len(b2)]
<1>1. Len(b1) \in Nat /\ Len(b2) \in Nat /\ b1 \in Seq(IntBox) /\ b2 \in Seq(IntBox)
  BY DEF IsBand
<1>2. start \in I
  <2>1. start \in IntersectStates /\ start.i = 1 /\ start.j = 1 /\ start.out = <<>>
    BY DEF IntersectStates
  <2> HIDE DEF start
  <2>2. IntersectInv(b1, b2, top, bottom, start)
    BY <1>1, <2>1, NoBoxes, CoversFromFirst DEF IntersectInv
  <2> QED BY <2>1, <2>2
<1>3. ASSUME NEW s \in I
      PROVE  /\ Turn(s) \in I /\ m[s] \in Nat
             /\ s \notin D => m[Turn(s)] < m[s]
             /\ s \in D => Turn(s) = s
  <2>1. /\ s \in IntersectStates /\ IntersectInv(b1, b2, top, bottom, s)
        /\ s.i \in 1..Len(b1) + 1 /\ s.j \in 1..Len(b2) + 1
    BY DEF IntersectInv
  <2>2. CASE s \in D
    <3>1. Turn(s) = s
      BY <1>1, <2>2 DEF IntersectTurn
    <3> QED BY <1>1, <2>1, <2>2, <3>1, SMTT(60)
  <2>3. CASE s \notin D
    <3>1. s.i <= Len(b1) /\ s.j <= Len(b2)
      BY <1>1, <2>1, <2>3
    <3>2. /\ Turn(s) \in IntersectStates /\ IntersectInv(b1, b2, top, bottom, Turn(s))
          /\ Turn(s).i + Turn(s).j > s.i + s.j
      BY <2>1, <3>1, IntersectTurnKeeps
    <3>3. Turn(s).i \in 1..Len(b1) + 1 /\ Turn(s).j \in 1..Len(b2) + 1
      BY <3>2 DEF IntersectInv
    <3>4. Turn(s) \in I
      BY <3>2
    <3> DEFINE t == Turn(s)
    <3> HIDE DEF Turn, I
    <3>5. /\ m[s] = (Len(b1) + 1 - s.i) + (Len(b2) + 1 - s.j)
          /\ m[t] = (Len(b1) + 1 - t.i) + (Len(b2) + 1 - t.j)
      BY <3>4
    <3> HIDE DEF m, t
    <3>6. /\ s.i \in 1..Len(b1) + 1 /\ s.j \in 1..Len(b2) + 1
          /\ t.i \in 1..Len(b1) + 1 /\ t.j \in 1..Len(b2) + 1 /\ t.i + t.j > s.i + s.j
          /\ Len(b1) \in Nat /\ Len(b2) \in Nat
      BY <1>1, <2>1, <3>2, <3>3 DEF t
    <3>7. m[s] \in Nat /\ m[t] < m[s]
      BY <3>5, <3>6, Nearer, ZenonT(60)
    <3> QED BY <2>3, <3>4, <3>7 DEF t
  <2> QED BY <2>2, <2>3
<1> HIDE DEF I, D, m, Turn, start
<1>4. m \in [I -> Nat]
  BY <1>3 DEF m
<1>5. \E g : g = Steps(g)
  <2> DEFINE turn == [s \in I |-> Turn(s)]
  <2>1. turn \in [I -> I]
    BY <1>3
  <2>2. \A s \in I : turn[s] = Turn(s)
    OBVIOUS
  <2> HIDE DEF turn
  <2>3. PICK g \in [Nat -> I] : IsRun(g, start, turn)
    BY <1>2, <2>1, Repeats
  <2>4. \A n \in Nat : n # 0 => turn[g[n - 1]] = Turn(g[n - 1])
    BY <2>2, <2>3
  <2>5. g = Steps(g)
    BY <2>3, <2>4 DEF IsRun
  <2> HIDE DEF Steps
  <2> QED BY <2>5
<1>6. IntersectO(b1, b2) = end.out
  BY DEF IntersectO, start, Turn
<1>7. turns = Steps(turns)
  <2> HIDE DEF Steps
  <2> QED BY <1>5
<1> HIDE DEF turns
<1>8. turns[0] = start /\ \A n \in Nat : turns[n + 1] = Turn(turns[n])
  <2>1. \A n \in Nat : turns[n] = IF n = 0 THEN start ELSE Turn(turns[n - 1])
    BY <1>7
  <2> QED BY <2>1
<1>9. end \in I /\ end \in D
  <2>1. m[start] = Len(b1) + Len(b2)
    BY <1>1, <1>2 DEF m, start
  <2>2. \A n \in Nat : turns[n] \in I => /\ turns[n + 1] \in I
                                         /\ turns[n] \notin D => m[turns[n + 1]] < m[turns[n]]
                                         /\ turns[n] \in D => turns[n + 1] = turns[n]
    BY <1>3, <1>8
  <2>3. Len(b1) + Len(b2) \in Nat /\ m[turns[0]] <= Len(b1) + Len(b2) /\ turns[0] \in I
    BY <1>1, <1>2, <1>8, <2>1
  <2> QED BY <1>4, <2>2, <2>3, LoopEnds
<1>10. IntersectInv(b1, b2, top, bottom, end) /\ (end.i = Len(b1) + 1 \/ end.j = Len(b2) + 1)
  BY <1>1, <1>9, SMTT(60) DEF I, D, IntersectInv
<1> HIDE DEF end
<1>11. ASSUME NEW x \in Int PROVE Covers(end.out, x) <=> Covers(b1, x) /\ Covers(b2, x)
  <2>1. ~(CoversFrom(b1, end.i, x) /\ CoversFrom(b2, end.j, x))
    BY <1>1, <1>10, CoversFromPast
  <2> QED BY <1>10, <2>1 DEF IntersectInv
<1> QED BY <1>6, <1>10, <1>11 DEF IntersectInv

-----------------------------------------------------------------------------
(*                              miUnionO                                   *)

(* The types of a box in a band.                                           *)
LEMMA BandBox ==
  ASSUME NEW top \in Int, NEW bottom \in Int, NEW b, IsBand(b, top, bottom), NEW i \in 1..Len(b)
  PROVE  /\ b[i] \in IntBox /\ b[i].x1 \in Int /\ b[i].x2 \in Int /\ b[i].x1 < b[i].x2
         /\ b[i].y1 = top /\ b[i].y2 = bottom
         /\ i + 1 <= Len(b) => b[i + 1].x1 \in Int /\ b[i].x2 < b[i + 1].x1
<1>1. Len(b) \in Nat /\ \A k \in 1..Len(b) : b[k] \in IntBox
  BY DEF IsBand
<1>2. b[i].x1 \in Int /\ b[i].x2 \in Int
  BY <1>1 DEF IntBox
<1>3. ASSUME i + 1 <= Len(b) PROVE b[i + 1].x1 \in Int /\ b[i].x2 < b[i + 1].x1
  <2>1. i + 1 \in 1..Len(b) /\ i < i + 1
    BY <1>1, <1>3
  <2>2. b[i + 1] \in IntBox
    BY <1>1, <2>1
  <2> QED BY <2>1, <2>2 DEF IsBand, IntBox
<1> QED BY <1>1, <1>2, <1>3 DEF IsBand

UnionStates == [i : Nat, j : Nat, b : IntBox, out : Seq(IntBox)]
UnionInv(b1, b2, top, bottom, s) ==
  /\ s.i \in 1..Len(b1) + 1 /\ s.j \in 1..Len(b2) + 1
  /\ IsBand(s.out, top, bottom)
  /\ s.b.x1 < s.b.x2 /\ s.b.y1 = top /\ s.b.y2 = bottom
  /\ \A k \in 1..Len(s.out) : s.out[k].x2 < s.b.x1
  /\ s.i <= Len(b1) => s.b.x1 <= b1[s.i].x1
  /\ s.j <= Len(b2) => s.b.x1 <= b2[s.j].x1
  /\ \A x \in Int : Covers(b1, x) \/ Covers(b2, x) <=>
                      \/ Covers(s.out, x) \/ (s.b.x1 <= x /\ x < s.b.x2)
                      \/ CoversFrom(b1, s.i, x) \/ CoversFrom(b2, s.j, x)

(* A turn keeps that, and passes a box if there is one left.               *)
LEMMA UnionTurnKeeps ==
  ASSUME NEW top \in Int, NEW bottom \in Int, NEW b1, NEW b2,
         IsBand(b1, top, bottom), IsBand(b2, top, bottom),
         NEW s \in UnionStates, UnionInv(b1, b2, top, bottom, s),
         s.i <= Len(b1) \/ s.j <= Len(b2)
  PROVE  LET t == UnionTurn(b1, b2, s)
         IN /\ t \in UnionStates /\ UnionInv(b1, b2, top, bottom, t)
            /\ t.i + t.j > s.i + s.j
<1> DEFINE t == UnionTurn(b1, b2, s)
           first == s.j > Len(b2) \/ (s.i <= Len(b1) /\ b1[s.i].x1 < b2[s.j].x1)
           r == IF first THEN b1[s.i] ELSE b2[s.j]
           joins == r.x1 <= s.b.x2
           b == [s.b EXCEPT !.x2 = Max2(@, r.x2)]
<1>1. /\ Len(b1) \in Nat /\ Len(b2) \in Nat /\ s.i \in 1..Len(b1) + 1 /\ s.j \in 1..Len(b2) + 1
      /\ s.i \in Nat /\ s.j \in Nat /\ s.out \in Seq(IntBox) /\ s.b \in IntBox
  BY DEF IsBand, UnionInv, UnionStates
<1>2. /\ s.b.x1 \in Int /\ s.b.x2 \in Int /\ s.b.x1 < s.b.x2 /\ s.b.y1 = top /\ s.b.y2 = bottom
      /\ IsBand(s.out, top, bottom)
  BY <1>1 DEF IntBox, UnionInv
<1>3. t = [i |-> IF first THEN s.i + 1 ELSE s.i,
           j |-> IF first THEN s.j ELSE s.j + 1,
           b |-> IF joins THEN b ELSE r,
           out |-> IF joins THEN s.out ELSE Append(s.out, s.b)]
  BY <1>1 DEF UnionTurn
<1> HIDE DEF t
<1>4. /\ t.i = IF first THEN s.i + 1 ELSE s.i
      /\ t.j = IF first THEN s.j ELSE s.j + 1
      /\ t.b = IF joins THEN b ELSE r
      /\ t.out = IF joins THEN s.out ELSE Append(s.out, s.b)
      /\ t = [i |-> t.i, j |-> t.j, b |-> t.b, out |-> t.out]
  BY <1>3
<1> HIDE DEF joins, b, r
(* the box it takes is the leftmost of all that are left,                  *)
<1>5. /\ r \in IntBox /\ r.x1 \in Int /\ r.x2 \in Int /\ r.x1 < r.x2
      /\ r.y1 = top /\ r.y2 = bottom /\ s.b.x1 <= r.x1
      /\ t.i \in 1..Len(b1) + 1 /\ t.j \in 1..Len(b2) + 1 /\ t.i + t.j > s.i + s.j
      /\ t.i <= Len(b1) => r.x1 <= b1[t.i].x1
      /\ t.j <= Len(b2) => r.x1 <= b2[t.j].x1
      /\ \A x \in Int : CoversFrom(b1, s.i, x) \/ CoversFrom(b2, s.j, x)
           <=> (r.x1 <= x /\ x < r.x2) \/ CoversFrom(b1, t.i, x) \/ CoversFrom(b2, t.j, x)
  <2>1. CASE first
    <3>1. r = b1[s.i] /\ t.i = s.i + 1 /\ t.j = s.j /\ s.i \in 1..Len(b1)
      BY <1>1, <1>4, <2>1 DEF r
    <3>2. /\ r \in IntBox /\ r.x1 \in Int /\ r.x2 \in Int /\ r.x1 < r.x2
          /\ r.y1 = top /\ r.y2 = bottom
          /\ t.i <= Len(b1) => b1[t.i].x1 \in Int /\ r.x2 < b1[t.i].x1
      <4>1. /\ b1[s.i] \in IntBox /\ b1[s.i].x1 \in Int /\ b1[s.i].x2 \in Int /\ b1[s.i].x1 < b1[s.i].x2
            /\ b1[s.i].y1 = top /\ b1[s.i].y2 = bottom
            /\ s.i + 1 <= Len(b1) => b1[s.i + 1].x1 \in Int /\ b1[s.i].x2 < b1[s.i + 1].x1
        BY <3>1, BandBox
      <4> QED BY <3>1, <4>1
    <3>3. s.b.x1 <= r.x1
      BY <1>1, <3>1 DEF UnionInv
    <3>4. t.i <= Len(b1) => r.x1 <= b1[t.i].x1
      BY <3>2
    <3>5. ASSUME t.j <= Len(b2) PROVE r.x1 <= b2[t.j].x1
      <4>1. s.j \in 1..Len(b2)
        BY <1>1, <3>1, <3>5
      <4>2. b2[s.j].x1 \in Int
        BY <4>1, BandBox
      <4>3. b1[s.i].x1 < b2[s.j].x1
        BY <1>1, <2>1, <4>1
      <4> QED BY <3>1, <3>2, <4>2, <4>3
    <3>6. ASSUME NEW x \in Int
          PROVE  CoversFrom(b1, s.i, x) <=> (r.x1 <= x /\ x < r.x2) \/ CoversFrom(b1, t.i, x)
      <4>1. CoversFrom(b1, s.i, x) <=> InColumn(b1, s.i, x) \/ CoversFrom(b1, s.i + 1, x)
        BY <3>1, CoversFromNext
      <4> QED BY <3>1, <4>1 DEF InColumn
    <3>7. t.i \in 1..Len(b1) + 1 /\ t.j \in 1..Len(b2) + 1 /\ t.i + t.j > s.i + s.j
      BY <1>1, <3>1, SMTT(60)
    <3> HIDE DEF first
    <3> QED BY <3>1, <3>2, <3>3, <3>4, <3>5, <3>6, <3>7
  <2>2. CASE ~first
    <3>1. /\ r = b2[s.j] /\ t.i = s.i /\ t.j = s.j + 1 /\ s.j \in 1..Len(b2)
          /\ s.i <= Len(b1) => ~(b1[s.i].x1 < b2[s.j].x1)
      BY <1>1, <1>4, <2>2 DEF r
    <3>2. /\ r \in IntBox /\ r.x1 \in Int /\ r.x2 \in Int /\ r.x1 < r.x2
          /\ r.y1 = top /\ r.y2 = bottom
          /\ t.j <= Len(b2) => b2[t.j].x1 \in Int /\ r.x2 < b2[t.j].x1
      <4>1. /\ b2[s.j] \in IntBox /\ b2[s.j].x1 \in Int /\ b2[s.j].x2 \in Int /\ b2[s.j].x1 < b2[s.j].x2
            /\ b2[s.j].y1 = top /\ b2[s.j].y2 = bottom
            /\ s.j + 1 <= Len(b2) => b2[s.j + 1].x1 \in Int /\ b2[s.j].x2 < b2[s.j + 1].x1
        BY <3>1, BandBox
      <4> QED BY <3>1, <4>1
    <3>3. s.b.x1 <= r.x1
      BY <1>1, <3>1 DEF UnionInv
    <3>4. t.j <= Len(b2) => r.x1 <= b2[t.j].x1
      BY <3>2
    <3>5. ASSUME t.i <= Len(b1) PROVE r.x1 <= b1[t.i].x1
      <4>1. s.i \in 1..Len(b1)
        BY <1>1, <3>1, <3>5
      <4>2. b1[s.i].x1 \in Int
        BY <4>1, BandBox
      <4> QED BY <3>1, <3>2, <4>1, <4>2, SMTT(60)
    <3>6. ASSUME NEW x \in Int
          PROVE  CoversFrom(b2, s.j, x) <=> (r.x1 <= x /\ x < r.x2) \/ CoversFrom(b2, t.j, x)
      <4>1. CoversFrom(b2, s.j, x) <=> InColumn(b2, s.j, x) \/ CoversFrom(b2, s.j + 1, x)
        BY <3>1, CoversFromNext
      <4> QED BY <3>1, <4>1 DEF InColumn
    <3>7. t.i \in 1..Len(b1) + 1 /\ t.j \in 1..Len(b2) + 1 /\ t.i + t.j > s.i + s.j
      BY <1>1, <3>1, SMTT(60)
    <3> HIDE DEF first
    <3> QED BY <3>1, <3>2, <3>3, <3>4, <3>5, <3>6, <3>7
  <2> QED BY <2>1, <2>2
<1> HIDE DEF first
(* and joins the box under way, or begins another right of it.             *)
<1>6. /\ t.b \in IntBox /\ t.b.x1 \in Int /\ t.b.x2 \in Int /\ t.b.x1 < t.b.x2
      /\ t.b.y1 = top /\ t.b.y2 = bottom /\ t.b.x1 <= r.x1
      /\ IsBand(t.out, top, bottom)
      /\ \A k \in 1..Len(t.out) : t.out[k].x2 < t.b.x1
      /\ \A x \in Int : Covers(t.out, x) \/ (t.b.x1 <= x /\ x < t.b.x2)
           <=> Covers(s.out, x) \/ (s.b.x1 <= x /\ x < s.b.x2) \/ (r.x1 <= x /\ x < r.x2)
  <2>1. CASE joins
    <3>1. t.out = s.out /\ t.b = b
      BY <1>4, <2>1
    <3>2. b \in IntBox /\ b.x1 = s.b.x1 /\ b.x2 = Max2(s.b.x2, r.x2) /\ b.y1 = top /\ b.y2 = bottom
      BY <1>1, <1>2, <1>5 DEF b, IntBox, Max2
    <3>3. r.x1 <= s.b.x2
      BY <2>1 DEF joins
    <3>4. t.b.x1 = s.b.x1 /\ t.b.x2 = Max2(s.b.x2, r.x2)
      BY <3>1, <3>2
    <3>5. /\ t.b.x2 \in Int /\ t.b.x1 < t.b.x2
          /\ \A x \in Int : (t.b.x1 <= x /\ x < t.b.x2)
                              <=> (s.b.x1 <= x /\ x < s.b.x2) \/ (r.x1 <= x /\ x < r.x2)
      BY <1>2, <1>5, <3>3, <3>4, SMTT(60) DEF Max2
    <3>6. \A k \in 1..Len(s.out) : s.out[k].x2 < s.b.x1
      BY DEF UnionInv
    <3> QED BY <1>2, <1>5, <3>1, <3>2, <3>4, <3>5, <3>6
  <2>2. CASE ~joins
    <3>1. t.out = Append(s.out, s.b) /\ t.b = r /\ s.b.x2 < r.x1
      BY <1>2, <1>4, <1>5, <2>2, SMTT(60) DEF joins
    <3>2. \A k \in 1..Len(s.out) : s.out[k].x2 < s.b.x1
      BY DEF UnionInv
    <3>3. /\ IsBand(t.out, top, bottom)
          /\ \A x \in Int : Covers(t.out, x) <=> Covers(s.out, x) \/ (s.b.x1 <= x /\ x < s.b.x2)
          /\ \A z \in Int : (\A k \in 1..Len(s.out) : s.out[k].x2 < z) /\ s.b.x2 < z
               => \A k \in 1..Len(t.out) : t.out[k].x2 < z
      <4> DEFINE more == Append(s.out, s.b)
      <4>1. /\ IsBand(more, top, bottom)
            /\ \A x \in Int : Covers(more, x) <=> Covers(s.out, x) \/ (s.b.x1 <= x /\ x < s.b.x2)
            /\ \A z \in Int : (\A k \in 1..Len(s.out) : s.out[k].x2 < z) /\ s.b.x2 < z
                 => \A k \in 1..Len(more) : more[k].x2 < z
        BY <1>1, <1>2, <3>2, BandAppend
      <4> QED BY <3>1, <4>1
    <3>4. ASSUME NEW k \in 1..Len(s.out) PROVE s.out[k].x2 < r.x1
      <4>1. s.out[k] \in IntBox
        BY <1>1
      <4>2. s.out[k].x2 \in Int /\ s.out[k].x2 < s.b.x1
        BY <3>2, <4>1 DEF IntBox
      <4> QED BY <1>2, <1>5, <3>1, <4>2, SMTT(60)
    <3>5. \A k \in 1..Len(s.out) : s.out[k].x2 < r.x1
      BY <3>4
    <3>6. \A k \in 1..Len(t.out) : t.out[k].x2 < r.x1
      BY <1>5, <3>1, <3>3, <3>5
    <3> QED BY <1>5, <3>1, <3>3, <3>6, SMTT(60)
  <2> QED BY <2>1, <2>2
<1>7. \A x \in Int : Covers(b1, x) \/ Covers(b2, x) <=>
                      \/ Covers(t.out, x) \/ (t.b.x1 <= x /\ x < t.b.x2)
                      \/ CoversFrom(b1, t.i, x) \/ CoversFrom(b2, t.j, x)
  BY <1>5, <1>6 DEF UnionInv
<1>8. t.i <= Len(b1) => t.b.x1 <= b1[t.i].x1
  <2> SUFFICES ASSUME t.i <= Len(b1) PROVE t.b.x1 <= b1[t.i].x1
    OBVIOUS
  <2>1. t.i \in 1..Len(b1)
    BY <1>1, <1>5
  <2>2. b1[t.i].x1 \in Int
    BY <2>1, BandBox
  <2> QED BY <1>5, <1>6, <2>2, SMTT(60)
<1>9. t.j <= Len(b2) => t.b.x1 <= b2[t.j].x1
  <2> SUFFICES ASSUME t.j <= Len(b2) PROVE t.b.x1 <= b2[t.j].x1
    OBVIOUS
  <2>1. t.j \in 1..Len(b2)
    BY <1>1, <1>5
  <2>2. b2[t.j].x1 \in Int
    BY <2>1, BandBox
  <2> QED BY <1>5, <1>6, <2>2, SMTT(60)
<1>10. t \in UnionStates
  <2>1. t.i \in Nat /\ t.j \in Nat /\ t.out \in Seq(IntBox)
    BY <1>1, <1>5, <1>6, SMTT(60) DEF IsBand
  <2> QED BY <1>4, <1>6, <2>1 DEF UnionStates
<1> QED BY <1>5, <1>6, <1>7, <1>8, <1>9, <1>10 DEF UnionInv, t

(* miUnionO makes the band that covers what either band covers.            *)
LEMMA UnionCorrect ==
  ASSUME NEW top \in Int, NEW bottom \in Int, NEW b1, NEW b2,
         IsBand(b1, top, bottom), IsBand(b2, top, bottom), Len(b1) > 0, Len(b2) > 0
  PROVE  /\ IsBand(UnionO(b1, b2), top, bottom) /\ Len(UnionO(b1, b2)) > 0
         /\ \A x \in Int : Covers(UnionO(b1, b2), x) <=> Covers(b1, x) \/ Covers(b2, x)
<1> DEFINE start == IF b1[1].x1 < b2[1].x1 THEN [i |-> 2, j |-> 1, b |-> b1[1], out |-> <<>>]
                                           ELSE [i |-> 1, j |-> 2, b |-> b2[1], out |-> <<>>]
           Turn(s) == UnionTurn(b1, b2, s)
           Steps(g) == [n \in Nat |-> IF n = 0 THEN start ELSE Turn(g[n - 1])]
           I == {s \in UnionStates : UnionInv(b1, b2, top, bottom, s)}
           D == {s \in UnionStates : s.i > Len(b1) /\ s.j > Len(b2)}
           m == [s \in I |-> (Len(b1) + 1 - s.i) + (Len(b2) + 1 - s.j)]
           turns == CHOOSE g : g = Steps(g)
           end == turns[Len(b1) + Len(b2)]
<1>1. /\ Len(b1) \in Nat \ {0} /\ Len(b2) \in Nat \ {0} /\ 1 \in 1..Len(b1) /\ 1 \in 1..Len(b2)
      /\ b1 \in Seq(IntBox) /\ b2 \in Seq(IntBox)
  BY DEF IsBand
<1>2. start \in I /\ start.i + start.j = 3
  <2>1. /\ b1[1] \in IntBox /\ b1[1].x1 \in Int /\ b1[1].x2 \in Int /\ b1[1].x1 < b1[1].x2
        /\ b1[1].y1 = top /\ b1[1].y2 = bottom
        /\ 2 <= Len(b1) => b1[2].x1 \in Int /\ b1[1].x2 < b1[2].x1
    BY <1>1, BandBox, 1 + 1 = 2, SMTT(60)
  <2>2. /\ b2[1] \in IntBox /\ b2[1].x1 \in Int /\ b2[1].x2 \in Int /\ b2[1].x1 < b2[1].x2
        /\ b2[1].y1 = top /\ b2[1].y2 = bottom
        /\ 2 <= Len(b2) => b2[2].x1 \in Int /\ b2[1].x2 < b2[2].x1
    BY <1>1, BandBox, 1 + 1 = 2
  <2>3. ASSUME NEW x \in Int
        PROVE  /\ Covers(b1, x) <=> InColumn(b1, 1, x) \/ CoversFrom(b1, 2, x)
               /\ Covers(b2, x) <=> InColumn(b2, 1, x) \/ CoversFrom(b2, 2, x)
               /\ Covers(b1, x) <=> CoversFrom(b1, 1, x)
               /\ Covers(b2, x) <=> CoversFrom(b2, 1, x)
               /\ ~Covers(<<>>, x)
    <3>1. CoversFrom(b1, 1, x) <=> InColumn(b1, 1, x) \/ CoversFrom(b1, 1 + 1, x)
      BY <1>1, CoversFromNext
    <3>2. CoversFrom(b2, 1, x) <=> InColumn(b2, 1, x) \/ CoversFrom(b2, 1 + 1, x)
      BY <1>1, CoversFromNext
    <3> QED BY <3>1, <3>2, CoversFromFirst, NoBoxes, 1 + 1 = 2
  <2>4. CASE b1[1].x1 < b2[1].x1
    <3>1. start = [i |-> 2, j |-> 1, b |-> b1[1], out |-> <<>>]
      BY <2>4
    <3> HIDE DEF start
    <3>2. start.i = 2 /\ start.j = 1 /\ start.b = b1[1] /\ start.out = <<>> /\ start \in UnionStates
      BY <2>1, <3>1 DEF UnionStates
    <3>3. \A x \in Int : Covers(b1, x) \/ Covers(b2, x) <=>
                         \/ Covers(start.out, x) \/ (start.b.x1 <= x /\ x < start.b.x2)
                         \/ CoversFrom(b1, start.i, x) \/ CoversFrom(b2, start.j, x)
      BY <2>3, <3>2 DEF InColumn
    <3>4. UnionInv(b1, b2, top, bottom, start)
      BY <1>1, <2>1, <2>2, <2>4, <3>2, <3>3, NoBoxes, SMTT(60) DEF UnionInv
    <3> QED BY <3>2, <3>4
  <2>5. CASE ~(b1[1].x1 < b2[1].x1)
    <3>1. start = [i |-> 1, j |-> 2, b |-> b2[1], out |-> <<>>]
      BY <2>5
    <3> HIDE DEF start
    <3>2. start.i = 1 /\ start.j = 2 /\ start.b = b2[1] /\ start.out = <<>> /\ start \in UnionStates
      BY <2>2, <3>1 DEF UnionStates
    <3>3. \A x \in Int : Covers(b1, x) \/ Covers(b2, x) <=>
                         \/ Covers(start.out, x) \/ (start.b.x1 <= x /\ x < start.b.x2)
                         \/ CoversFrom(b1, start.i, x) \/ CoversFrom(b2, start.j, x)
      BY <2>3, <3>2 DEF InColumn
    <3>4. UnionInv(b1, b2, top, bottom, start)
      BY <1>1, <2>1, <2>2, <2>5, <3>2, <3>3, NoBoxes, SMTT(60) DEF UnionInv
    <3> QED BY <3>2, <3>4
  <2> QED BY <2>4, <2>5
<1>3. ASSUME NEW s \in I
      PROVE  /\ Turn(s) \in I /\ m[s] \in Nat
             /\ s \notin D => m[Turn(s)] < m[s]
             /\ s \in D => Turn(s) = s
  <2>1. /\ s \in UnionStates /\ UnionInv(b1, b2, top, bottom, s)
        /\ s.i \in 1..Len(b1) + 1 /\ s.j \in 1..Len(b2) + 1
    BY DEF UnionInv
  <2>2. CASE s \in D
    <3>1. Turn(s) = s
      BY <1>1, <2>2 DEF UnionTurn
    <3> QED BY <1>1, <2>1, <2>2, <3>1
  <2>3. CASE s \notin D
    <3>1. s.i <= Len(b1) \/ s.j <= Len(b2)
      BY <1>1, <2>1, <2>3
    <3>2. /\ Turn(s) \in UnionStates /\ UnionInv(b1, b2, top, bottom, Turn(s))
          /\ Turn(s).i + Turn(s).j > s.i + s.j
      BY <2>1, <3>1, UnionTurnKeeps
    <3>3. Turn(s).i \in 1..Len(b1) + 1 /\ Turn(s).j \in 1..Len(b2) + 1
      BY <3>2 DEF UnionInv
    <3>4. Turn(s) \in I
      BY <3>2
    <3> DEFINE t == Turn(s)
    <3> HIDE DEF Turn, I
    <3>5. /\ m[s] = (Len(b1) + 1 - s.i) + (Len(b2) + 1 - s.j)
          /\ m[t] = (Len(b1) + 1 - t.i) + (Len(b2) + 1 - t.j)
      BY <3>4
    <3> HIDE DEF m, t
    <3>6. /\ s.i \in 1..Len(b1) + 1 /\ s.j \in 1..Len(b2) + 1
          /\ t.i \in 1..Len(b1) + 1 /\ t.j \in 1..Len(b2) + 1 /\ t.i + t.j > s.i + s.j
          /\ Len(b1) \in Nat /\ Len(b2) \in Nat
      BY <1>1, <2>1, <3>2, <3>3 DEF t
    <3>7. m[s] \in Nat /\ m[t] < m[s]
      BY <3>5, <3>6, Nearer, ZenonT(60)
    <3> QED BY <2>3, <3>4, <3>7 DEF t
  <2> QED BY <2>2, <2>3
<1> HIDE DEF I, D, m, Turn, start
<1>4. m \in [I -> Nat]
  BY <1>3 DEF m
<1>5. \E g : g = Steps(g)
  <2> DEFINE turn == [s \in I |-> Turn(s)]
  <2>1. turn \in [I -> I]
    BY <1>3
  <2>2. \A s \in I : turn[s] = Turn(s)
    OBVIOUS
  <2> HIDE DEF turn
  <2>3. start \in I
    BY <1>2
  <2>4. PICK g \in [Nat -> I] : IsRun(g, start, turn)
    BY <2>1, <2>3, Repeats
  <2>5. \A n \in Nat : n # 0 => turn[g[n - 1]] = Turn(g[n - 1])
    BY <2>2, <2>4
  <2>6. g = Steps(g)
    BY <2>4, <2>5 DEF IsRun
  <2> HIDE DEF Steps
  <2> QED BY <2>6
<1>6. UnionO(b1, b2) = Append(end.out, end.b)
  BY DEF UnionO, start, Turn
<1>7. turns = Steps(turns)
  <2> HIDE DEF Steps
  <2> QED BY <1>5
<1> HIDE DEF turns
<1>8. turns[0] = start /\ \A n \in Nat : turns[n + 1] = Turn(turns[n])
  <2>1. \A n \in Nat : turns[n] = IF n = 0 THEN start ELSE Turn(turns[n - 1])
    BY <1>7
  <2> QED BY <2>1
<1>9. end \in I /\ end \in D
  <2>1. m[start] <= Len(b1) + Len(b2)
    <3>1. m[start] = (Len(b1) + 1 - start.i) + (Len(b2) + 1 - start.j)
      BY <1>2 DEF m
    <3>2. start.i \in Nat /\ start.j \in Nat
      BY <1>2 DEF I, UnionStates
    <3> QED BY <1>1, <1>2, <3>1, <3>2, SMTT(60)
  <2>2. \A n \in Nat : turns[n] \in I => /\ turns[n + 1] \in I
                                         /\ turns[n] \notin D => m[turns[n + 1]] < m[turns[n]]
                                         /\ turns[n] \in D => turns[n + 1] = turns[n]
    BY <1>3, <1>8
  <2>3. Len(b1) + Len(b2) \in Nat /\ m[turns[0]] <= Len(b1) + Len(b2) /\ turns[0] \in I
    BY <1>1, <1>2, <1>8, <2>1
  <2> QED BY <1>4, <2>2, <2>3, LoopEnds
<1>10. /\ UnionInv(b1, b2, top, bottom, end) /\ end.i = Len(b1) + 1 /\ end.j = Len(b2) + 1
       /\ end.b \in IntBox
  BY <1>1, <1>9, SMTT(60) DEF I, D, UnionInv, UnionStates
<1> HIDE DEF end
<1> DEFINE more == Append(end.out, end.b)
<1>11. /\ IsBand(more, top, bottom)
       /\ \A x \in Int : Covers(more, x) <=> Covers(end.out, x) \/ (end.b.x1 <= x /\ x < end.b.x2)
  BY <1>10, BandAppend DEF UnionInv
<1>12. Len(more) > 0
  BY <1>10 DEF UnionInv, IsBand
<1> HIDE DEF more
<1>13. ASSUME NEW x \in Int PROVE Covers(more, x) <=> Covers(b1, x) \/ Covers(b2, x)
  <2>1. ~CoversFrom(b1, end.i, x) /\ ~CoversFrom(b2, end.j, x)
    BY <1>1, <1>10, CoversFromPast
  <2> DEFINE inLast == end.b.x1 <= x /\ x < end.b.x2
  <2>2. Covers(b1, x) \/ Covers(b2, x) <=>
          Covers(end.out, x) \/ inLast \/ CoversFrom(b1, end.i, x) \/ CoversFrom(b2, end.j, x)
    BY <1>10 DEF UnionInv
  <2>3. Covers(more, x) <=> Covers(end.out, x) \/ inLast
    BY <1>11
  <2> HIDE DEF inLast
  <2> QED BY <2>1, <2>2, <2>3
<1> QED BY <1>6, <1>11, <1>12, <1>13 DEF more

-----------------------------------------------------------------------------
(*                             miSubtractO                                 *)

SubtractStates == [i : Nat, j : Nat, x : Int, out : Seq(IntBox)]
(* What of b1 is not decided yet.                                          *)
Undecided(b1, s, c) ==
  s.i <= Len(b1) /\ ((s.x <= c /\ c < b1[s.i].x2) \/ CoversFrom(b1, s.i + 1, c))
SubtractInv(b1, b2, top, bottom, s) ==
  /\ s.i \in 1..Len(b1) + 1 /\ s.j \in 1..Len(b2) + 1
  /\ IsBand(s.out, top, bottom)
  /\ s.i <= Len(b1) => /\ b1[s.i].x1 <= s.x /\ s.x < b1[s.i].x2
                       /\ \A k \in 1..Len(s.out) : s.out[k].x2 < s.x
  /\ \A c \in Int : Covers(b1, c) /\ ~Covers(b2, c) <=>
                      Covers(s.out, c) \/ (Undecided(b1, s, c) /\ ~CoversFrom(b2, s.j, c))

(* A turn keeps the invariant and goes on.                                 *)
SubtractKeeps(b1, b2, top, bottom, s, t) ==
  t \in SubtractStates /\ SubtractInv(b1, b2, top, bottom, t) /\ t.i + t.j > s.i + s.j

(* It leaves a box of b1 when all of that is decided,                      *)
PastBox(b1, s, out) ==
  [s EXCEPT !.i = @ + 1, !.out = out, !.x = IF s.i < Len(b1) THEN b1[s.i + 1].x1 ELSE @]
DecidedPast(b1, b2, top, bottom, s, out) ==
  /\ IsBand(out, top, bottom)
  /\ \A k \in 1..Len(out) : out[k].x2 <= b1[s.i].x2
  /\ \A c \in Int : Covers(b1, c) /\ ~Covers(b2, c) <=>
                      Covers(out, c) \/ (CoversFrom(b1, s.i + 1, c) /\ ~CoversFrom(b2, s.j, c))

(* The box is done when the second band decides all of it:                 *)
LEMMA SubtractPast ==
  ASSUME NEW top \in Int, NEW bottom \in Int, NEW b1, NEW b2,
         IsBand(b1, top, bottom), IsBand(b2, top, bottom),
         NEW s \in SubtractStates, SubtractInv(b1, b2, top, bottom, s), s.i <= Len(b1),
         NEW out, DecidedPast(b1, b2, top, bottom, s, out)
  PROVE  SubtractKeeps(b1, b2, top, bottom, s, PastBox(b1, s, out))
<1> DEFINE t == PastBox(b1, s, out)
<1>1. /\ Len(b1) \in Nat /\ Len(b2) \in Nat /\ s.i \in 1..Len(b1) /\ s.j \in 1..Len(b2) + 1
      /\ s.i \in Nat /\ s.j \in Nat /\ s.x \in Int /\ out \in Seq(IntBox) /\ b1 \in Seq(IntBox)
  BY DEF IsBand, SubtractInv, SubtractStates, DecidedPast
<1>2. /\ b1[s.i].x2 \in Int
      /\ s.i + 1 <= Len(b1) => b1[s.i + 1].x1 \in Int /\ b1[s.i].x2 < b1[s.i + 1].x1
  BY <1>1, BandBox
<1>3. t = [s EXCEPT !.i = @ + 1, !.out = out,
                     !.x = IF s.i < Len(b1) THEN b1[s.i + 1].x1 ELSE @]
  BY DEF PastBox
<1> HIDE DEF t
<1>4. /\ t.i = s.i + 1 /\ t.j = s.j /\ t.out = out
      /\ t.x = IF s.i < Len(b1) THEN b1[s.i + 1].x1 ELSE s.x
      /\ t = [i |-> t.i, j |-> t.j, x |-> t.x, out |-> t.out]
  BY <1>3 DEF SubtractStates
<1>5. t.i \in 1..Len(b1) + 1 /\ t.i \in Nat /\ t.i + t.j > s.i + s.j
  BY <1>1, <1>4, SMTT(60)
<1>6. t.x \in Int
  BY <1>1, <1>2, <1>4
<1>7. t \in SubtractStates
  BY <1>1, <1>4, <1>5, <1>6 DEF SubtractStates
<1>8. ASSUME t.i <= Len(b1)
      PROVE  /\ b1[t.i].x1 <= t.x /\ t.x < b1[t.i].x2
             /\ \A k \in 1..Len(t.out) : t.out[k].x2 < t.x
  <2>1. t.i \in 1..Len(b1) /\ s.i < Len(b1) /\ t.x = b1[t.i].x1
    BY <1>1, <1>4, <1>5, <1>8
  <2>2. b1[t.i].x1 \in Int /\ b1[t.i].x1 < b1[t.i].x2 /\ b1[s.i].x2 < t.x
    <3>1. b1[t.i].x1 \in Int /\ b1[t.i].x1 < b1[t.i].x2
      BY <2>1, BandBox
    <3> QED BY <1>1, <1>2, <1>4, <2>1, <3>1
  <2>3. ASSUME NEW k \in 1..Len(out) PROVE out[k].x2 < t.x
    <3>1. out[k] \in IntBox
      BY <1>1
    <3>2. out[k].x2 \in Int /\ out[k].x2 <= b1[s.i].x2
      BY <3>1 DEF IntBox, DecidedPast
    <3> QED BY <1>2, <1>6, <2>2, <3>2, SMTT(60)
  <2> QED BY <1>4, <1>6, <2>1, <2>2, <2>3
<1>9. ASSUME NEW c \in Int PROVE Undecided(b1, t, c) <=> CoversFrom(b1, s.i + 1, c)
  <2>1. CASE s.i < Len(b1)
    <3>1. t.i \in 1..Len(b1) /\ t.x = b1[t.i].x1
      BY <1>1, <1>4, <2>1, SMTT(60)
    <3>2. CoversFrom(b1, t.i, c) <=> InColumn(b1, t.i, c) \/ CoversFrom(b1, t.i + 1, c)
      BY <3>1, CoversFromNext
    <3> QED BY <1>4, <3>1, <3>2 DEF Undecided, InColumn
  <2>2. CASE ~(s.i < Len(b1))
    <3>1. s.i + 1 = Len(b1) + 1 /\ ~(t.i <= Len(b1))
      BY <1>1, <1>4, <2>2, SMTT(60)
    <3> QED BY <1>1, <3>1, CoversFromPast DEF Undecided
  <2> QED BY <2>1, <2>2
<1>10. \A c \in Int : Covers(b1, c) /\ ~Covers(b2, c) <=>
                       Covers(t.out, c) \/ (Undecided(b1, t, c) /\ ~CoversFrom(b2, t.j, c))
  BY <1>4, <1>9 DEF DecidedPast
<1> QED BY <1>1, <1>4, <1>5, <1>7, <1>8, <1>10 DEF SubtractInv, SubtractKeeps, DecidedPast, t

(* and a box of b2 when nothing undecided is left of its end.              *)
PastTaken(s, out, x) == [s EXCEPT !.j = @ + 1, !.out = out, !.x = x]
DecidedUpto(b1, b2, top, bottom, s, out, x) ==
  /\ IsBand(out, top, bottom)
  /\ s.x <= x /\ x < b1[s.i].x2
  /\ \A k \in 1..Len(out) : out[k].x2 < x
  /\ \A c \in Int : Covers(b1, c) /\ ~Covers(b2, c) <=>
       \/ Covers(out, c)
       \/ ((x <= c /\ c < b1[s.i].x2) \/ CoversFrom(b1, s.i + 1, c)) /\ ~CoversFrom(b2, s.j + 1, c)

(* a box of the second band is done when it ends before that.              *)
LEMMA SubtractBeyond ==
  ASSUME NEW top \in Int, NEW bottom \in Int, NEW b1, NEW b2,
         IsBand(b1, top, bottom), IsBand(b2, top, bottom),
         NEW s \in SubtractStates, SubtractInv(b1, b2, top, bottom, s),
         s.i <= Len(b1), s.j <= Len(b2),
         NEW out, NEW x \in Int, DecidedUpto(b1, b2, top, bottom, s, out, x)
  PROVE  SubtractKeeps(b1, b2, top, bottom, s, PastTaken(s, out, x))
<1> DEFINE t == PastTaken(s, out, x)
<1>1. /\ Len(b1) \in Nat /\ Len(b2) \in Nat /\ s.i \in 1..Len(b1) /\ s.j \in 1..Len(b2)
      /\ s.i \in Nat /\ s.j \in Nat /\ s.x \in Int /\ out \in Seq(IntBox)
  BY DEF IsBand, SubtractInv, SubtractStates, DecidedUpto
<1>2. t = [s EXCEPT !.j = @ + 1, !.out = out, !.x = x]
  BY DEF PastTaken
<1> HIDE DEF t
<1>3. /\ t.i = s.i /\ t.j = s.j + 1 /\ t.out = out /\ t.x = x
      /\ t = [i |-> t.i, j |-> t.j, x |-> t.x, out |-> t.out]
  BY <1>2 DEF SubtractStates
<1>4. t.j \in 1..Len(b2) + 1 /\ t.j \in Nat /\ t.i + t.j > s.i + s.j
  BY <1>1, <1>3, SMTT(60)
<1>5. t \in SubtractStates
  BY <1>1, <1>3, <1>4 DEF SubtractStates
<1>6. b1[s.i].x1 <= x
  <2>1. b1[s.i].x1 \in Int
    BY <1>1, BandBox
  <2> QED BY <1>1, <2>1, SMTT(60) DEF SubtractInv, DecidedUpto
<1>7. \A c \in Int : Covers(b1, c) /\ ~Covers(b2, c) <=>
                       Covers(t.out, c) \/ (Undecided(b1, t, c) /\ ~CoversFrom(b2, t.j, c))
  BY <1>1, <1>3 DEF Undecided, DecidedUpto
<1> QED BY <1>1, <1>3, <1>4, <1>5, <1>6, <1>7 DEF SubtractInv, SubtractKeeps, DecidedUpto, t

(* A turn keeps that, and passes a box of one band.                        *)
LEMMA SubtractTurnKeeps ==
  ASSUME NEW top \in Int, NEW bottom \in Int, NEW b1, NEW b2,
         IsBand(b1, top, bottom), IsBand(b2, top, bottom),
         NEW s \in SubtractStates, SubtractInv(b1, b2, top, bottom, s), s.i <= Len(b1)
  PROVE  LET t == SubtractTurn(b1, b2, s)
         IN SubtractKeeps(b1, b2, top, bottom, s, t)
<1> DEFINE t == SubtractTurn(b1, b2, s)
           m == b1[s.i]
           b == b2[s.j]
           Piece(end) == [m EXCEPT !.x1 = s.x, !.x2 = end]
           Upto(end) == Append(s.out, Piece(end))
           Good == SubtractKeeps(b1, b2, top, bottom, s, t)
           Rest1(c) == CoversFrom(b1, s.i + 1, c)
           Rest2(c) == CoversFrom(b2, s.j + 1, c)
           Known(c) == Covers(b1, c) /\ ~Covers(b2, c)
           Within(from, to, c) == from <= c /\ c < to
<1> SUFFICES Good
  BY DEF Good, t
<1>1. /\ Len(b1) \in Nat /\ Len(b2) \in Nat /\ s.i \in 1..Len(b1) /\ s.j \in 1..Len(b2) + 1
      /\ s.i \in Nat /\ s.j \in Nat /\ s.x \in Int /\ s.out \in Seq(IntBox)
      /\ b1 \in Seq(IntBox) /\ b2 \in Seq(IntBox)
  BY DEF IsBand, SubtractInv, SubtractStates
<1>2. /\ m \in IntBox /\ m.x1 \in Int /\ m.x2 \in Int /\ m.y1 = top /\ m.y2 = bottom
      /\ m.x1 <= s.x /\ s.x < m.x2
      /\ IsBand(s.out, top, bottom)
      /\ \A k \in 1..Len(s.out) : s.out[k].x2 \in Int /\ s.out[k].x2 < s.x
  <2>1. m \in IntBox /\ m.x1 \in Int /\ m.x2 \in Int /\ m.y1 = top /\ m.y2 = bottom
    <3>1. s.i \in 1..Len(b1)
      BY <1>1
    <3>2. /\ b1[s.i] \in IntBox /\ b1[s.i].x1 \in Int /\ b1[s.i].x2 \in Int
          /\ b1[s.i].y1 = top /\ b1[s.i].y2 = bottom
      BY <3>1, BandBox
    <3> QED BY <3>2 DEF m
  <2>2. ASSUME NEW k \in 1..Len(s.out) PROVE s.out[k].x2 \in Int
    <3>1. s.out[k] \in IntBox
      BY <1>1
    <3> QED BY <3>1 DEF IntBox
  <2> QED BY <1>1, <2>1, <2>2 DEF SubtractInv
<1>3. ASSUME NEW c \in Int
      PROVE  /\ Known(c) <=>
                   Covers(s.out, c) \/ ((Within(s.x, m.x2, c) \/ Rest1(c)) /\ ~CoversFrom(b2, s.j, c))
             /\ Rest1(c) => m.x2 < c
  <2>1. Rest1(c) => m.x2 < c
    BY <1>1, CoversFromNext
  <2>2. Known(c) <=> Covers(s.out, c) \/ (Undecided(b1, s, c) /\ ~CoversFrom(b2, s.j, c))
    BY DEF SubtractInv
  <2>3. Undecided(b1, s, c) <=> Within(s.x, m.x2, c) \/ Rest1(c)
    BY DEF Undecided
  <2> HIDE DEF Known, Rest1, m, Within
  <2> QED BY <2>1, <2>2, <2>3
(* A piece of b1's box that it adds ends where it should.                  *)
<1>4. ASSUME NEW e \in Int, s.x < e, e <= m.x2
      PROVE  /\ IsBand(Upto(e), top, bottom)
             /\ \A c \in Int : Covers(Upto(e), c) <=> Covers(s.out, c) \/ Within(s.x, e, c)
             /\ \A z \in Int : e < z => \A k \in 1..Len(Upto(e)) : Upto(e)[k].x2 < z
             /\ \A k \in 1..Len(Upto(e)) : Upto(e)[k].x2 <= m.x2
  <2> DEFINE p == Piece(e)
  <2>1. p \in IntBox /\ p.x1 = s.x /\ p.x2 = e /\ p.y1 = top /\ p.y2 = bottom
    BY <1>1, <1>2 DEF IntBox
  <2> HIDE DEF p
  <2> DEFINE more == Append(s.out, p)
  <2>2. /\ IsBand(more, top, bottom)
        /\ \A c \in Int : Covers(more, c) <=> Covers(s.out, c) \/ (p.x1 <= c /\ c < p.x2)
        /\ \A z \in Int : (\A k \in 1..Len(s.out) : s.out[k].x2 < z) /\ p.x2 < z
                            => \A k \in 1..Len(more) : more[k].x2 < z
    BY <1>2, <1>4, <2>1, BandAppend
  <2> HIDE DEF more
  <2>3. ASSUME NEW z \in Int, e < z PROVE \A k \in 1..Len(more) : more[k].x2 < z
    <3>1. \A k \in 1..Len(s.out) : s.out[k].x2 < z
      BY <1>1, <1>2, <1>4, <2>3, SMTT(60)
    <3> QED BY <2>1, <2>2, <2>3, <3>1
  <2>4. ASSUME NEW k \in 1..Len(more) PROVE more[k].x2 <= m.x2
    <3>1. m.x2 + 1 \in Int /\ e < m.x2 + 1
      BY <1>2, <1>4
    <3>2. more[k].x2 < m.x2 + 1
      BY <2>3, <3>1
    <3>3. more \in Seq(IntBox)
      BY <2>2 DEF IsBand
    <3>4. more[k] \in IntBox
      BY <3>3
    <3>5. more[k].x2 \in Int
      BY <3>4 DEF IntBox
    <3> QED BY <1>2, <3>2, <3>5
  <2> QED BY <2>1, <2>2, <2>3, <2>4 DEF more, p
<1> HIDE DEF Upto, Piece, m, b, Rest1, Rest2, Known, Within, Good, t
(* The box of b1 is done,                                                  *)
<1> DEFINE Done1(out) == DecidedPast(b1, b2, top, bottom, s, out)
           Done2(out, x) == DecidedUpto(b1, b2, top, bottom, s, out, x)
<1>5. ASSUME NEW out, Done1(out), t = PastBox(b1, s, out)
      PROVE  Good
  <2>1. SubtractKeeps(b1, b2, top, bottom, s, PastBox(b1, s, out))
    BY <1>5, SubtractPast
  <2> QED BY <1>5, <2>1 DEF Good
(* or that of b2.                                                          *)
<1>6. ASSUME s.j <= Len(b2), NEW out, NEW x \in Int, Done2(out, x), t = PastTaken(s, out, x)
      PROVE  Good
  <2>1. SubtractKeeps(b1, b2, top, bottom, s, PastTaken(s, out, x))
    BY <1>6, SubtractBeyond
  <2> QED BY <1>6, <2>1 DEF Good
<1>7. ASSUME NEW out, IsBand(out, top, bottom), \A k \in 1..Len(out) : out[k].x2 <= m.x2,
              \A c \in Int : Known(c) <=> Covers(out, c) \/ (Rest1(c) /\ ~CoversFrom(b2, s.j, c))
       PROVE  Done1(out)
  BY <1>7 DEF DecidedPast, Known, Rest1, m
<1>8. ASSUME NEW out, IsBand(out, top, bottom),
              NEW x \in Int, s.x <= x, x < m.x2,
              \A k \in 1..Len(out) : out[k].x2 < x,
              \A c \in Int : Known(c) <=>
                Covers(out, c) \/ ((Within(x, m.x2, c) \/ Rest1(c)) /\ ~Rest2(c))
       PROVE  Done2(out, x)
  BY <1>8 DEF DecidedUpto, Known, Rest1, Rest2, Within, m
<1> HIDE DEF Done1, Done2
<1>9. CASE s.j > Len(b2)
  <2>1. t = PastBox(b1, s, Upto(m.x2))
    BY <1>1, <1>9 DEF t, SubtractTurn, Upto, Piece, PastBox, m
  <2>2. ASSUME NEW c \in Int PROVE ~CoversFrom(b2, s.j, c)
    <3>1. s.j = Len(b2) + 1
      BY <1>1, <1>9
    <3> QED BY <1>1, <3>1, CoversFromPast
  <2>3. /\ IsBand(Upto(m.x2), top, bottom)
        /\ \A c \in Int : Covers(Upto(m.x2), c) <=> Covers(s.out, c) \/ Within(s.x, m.x2, c)
        /\ \A k \in 1..Len(Upto(m.x2)) : Upto(m.x2)[k].x2 <= m.x2
    BY <1>2, <1>4
  <2>4. \A c \in Int : Known(c) <=> Covers(Upto(m.x2), c) \/ (Rest1(c) /\ ~CoversFrom(b2, s.j, c))
    BY <1>3, <2>2, <2>3
  <2>5. Done1(Upto(m.x2))
    BY <1>7, <2>3, <2>4
  <2> QED BY <1>5, <2>1, <2>5
<1>10. CASE s.j <= Len(b2)
  <2>1. s.j \in 1..Len(b2)
    BY <1>1, <1>10
  <2>2. b.x1 \in Int /\ b.x2 \in Int /\ b.x1 < b.x2
    BY <2>1, BandBox DEF b
  <2>3. ASSUME NEW c \in Int
        PROVE  /\ CoversFrom(b2, s.j, c) <=> Within(b.x1, b.x2, c) \/ Rest2(c)
               /\ Rest2(c) => b.x2 < c
    BY <2>1, CoversFromNext DEF InColumn, b, Rest2, Within
  <2>4. CASE b.x2 <= s.x
    <3>1. t = [s EXCEPT !.j = @ + 1]
      BY <1>1, <2>1, <2>2, <2>4, SMTT(60) DEF t, SubtractTurn, b
    <3>2. [s EXCEPT !.j = @ + 1] = [s EXCEPT !.j = @ + 1, !.out = s.out, !.x = s.x]
      BY DEF SubtractStates
    <3>3. ASSUME NEW c \in Int
          PROVE  Known(c) <=>
                   Covers(s.out, c) \/ ((Within(s.x, m.x2, c) \/ Rest1(c)) /\ ~Rest2(c))
      <4>1. /\ Within(s.x, m.x2, c) => ~Within(b.x1, b.x2, c)
            /\ m.x2 < c => ~Within(b.x1, b.x2, c)
        BY <1>1, <1>2, <2>2, <2>4, SMTT(60) DEF Within
      <4> QED BY <1>3, <2>3, <4>1
    <3>4. t = PastTaken(s, s.out, s.x)
      BY <3>1, <3>2 DEF PastTaken
    <3>5. s.x \in Int /\ s.x <= s.x /\ s.x < m.x2 /\ \A k \in 1..Len(s.out) : s.out[k].x2 < s.x
      BY <1>1, <1>2
    <3>6. Done2(s.out, s.x)
      BY <1>2, <1>8, <3>3, <3>5
    <3> QED BY <1>6, <1>10, <3>4, <3>5, <3>6
  <2>5. CASE b.x2 > s.x /\ b.x1 <= s.x /\ b.x2 >= m.x2
    <3>1. t = PastBox(b1, s, s.out)
      BY <1>1, <2>1, <2>2, <2>5, SMTT(60) DEF t, SubtractTurn, PastBox, PastTaken, b, m
    <3>2. ASSUME NEW c \in Int
          PROVE  Known(c) <=> Covers(s.out, c) \/ (Rest1(c) /\ ~CoversFrom(b2, s.j, c))
      <4>1. Within(s.x, m.x2, c) => Within(b.x1, b.x2, c)
        BY <1>1, <1>2, <2>2, <2>5, SMTT(60) DEF Within
      <4> QED BY <1>3, <2>3, <4>1
    <3>3. ASSUME NEW k \in 1..Len(s.out) PROVE s.out[k].x2 <= m.x2
      BY <1>1, <1>2, SMTT(60)
    <3>4. Done1(s.out)
      BY <1>2, <1>7, <3>2, <3>3
    <3> QED BY <1>5, <3>1, <3>4
  <2>6. CASE b.x2 > s.x /\ b.x1 <= s.x /\ b.x2 < m.x2
    <3>1. t = PastTaken(s, s.out, b.x2)
      BY <1>1, <1>2, <2>1, <2>2, <2>6, SMTT(60) DEF t, SubtractTurn, PastBox, PastTaken, b, m
    <3>2. ASSUME NEW c \in Int
          PROVE  Known(c) <=>
                   Covers(s.out, c) \/ ((Within(b.x2, m.x2, c) \/ Rest1(c)) /\ ~Rest2(c))
      <4>1. /\ Within(b.x2, m.x2, c) => Within(s.x, m.x2, c) /\ ~Within(b.x1, b.x2, c)
            /\ Within(s.x, m.x2, c) => Within(b.x2, m.x2, c) \/ Within(b.x1, b.x2, c)
            /\ m.x2 < c => ~Within(b.x1, b.x2, c)
        BY <1>1, <1>2, <2>2, <2>6, SMTT(60) DEF Within
      <4> QED BY <1>3, <2>3, <4>1
    <3>3. ASSUME NEW k \in 1..Len(s.out) PROVE s.out[k].x2 < b.x2
      BY <1>1, <1>2, <2>2, <2>6, SMTT(60)
    <3>4. s.x <= b.x2
      BY <1>1, <2>2, <2>6, SMTT(60)
    <3>5. Done2(s.out, b.x2)
      BY <1>2, <1>8, <2>2, <2>6, <3>2, <3>3, <3>4
    <3> QED BY <1>6, <1>10, <2>2, <3>1, <3>5
  <2>7. CASE b.x2 > s.x /\ b.x1 > s.x /\ b.x1 < m.x2 /\ b.x2 >= m.x2
    <3>1. t = PastBox(b1, s, Upto(b.x1))
      BY <1>1, <1>2, <2>1, <2>2, <2>7, SMTT(60) DEF t, SubtractTurn, Upto, Piece, PastBox, PastTaken, b, m
    <3>2. /\ IsBand(Upto(b.x1), top, bottom)
          /\ \A c \in Int : Covers(Upto(b.x1), c) <=> Covers(s.out, c) \/ Within(s.x, b.x1, c)
          /\ \A k \in 1..Len(Upto(b.x1)) : Upto(b.x1)[k].x2 <= m.x2
      BY <1>1, <1>2, <1>4, <2>2, <2>7, SMTT(60)
    <3>3. ASSUME NEW c \in Int
          PROVE  Known(c) <=> Covers(Upto(b.x1), c) \/ (Rest1(c) /\ ~CoversFrom(b2, s.j, c))
      <4>1. /\ Within(s.x, b.x1, c) => /\ Within(s.x, m.x2, c) /\ ~Within(b.x1, b.x2, c)
                                       /\ ~(b.x2 < c)
            /\ Within(s.x, m.x2, c) => Within(s.x, b.x1, c) \/ Within(b.x1, b.x2, c)
        BY <1>1, <1>2, <2>2, <2>7, SMTT(60) DEF Within
      <4>2. Covers(Upto(b.x1), c) <=> Covers(s.out, c) \/ Within(s.x, b.x1, c)
        BY <3>2
      <4> QED BY <1>3, <2>3, <4>1, <4>2
    <3>4. Done1(Upto(b.x1))
      BY <1>7, <3>2, <3>3
    <3> QED BY <1>5, <3>1, <3>4
  <2>8. CASE b.x2 > s.x /\ b.x1 > s.x /\ b.x1 < m.x2 /\ b.x2 < m.x2
    <3>1. t = PastTaken(s, Upto(b.x1), b.x2)
      BY <1>1, <1>2, <2>1, <2>2, <2>8, SMTT(60) DEF t, SubtractTurn, Upto, Piece, PastBox, PastTaken, b, m
    <3>2. /\ IsBand(Upto(b.x1), top, bottom)
          /\ \A c \in Int : Covers(Upto(b.x1), c) <=> Covers(s.out, c) \/ Within(s.x, b.x1, c)
          /\ \A k \in 1..Len(Upto(b.x1)) : Upto(b.x1)[k].x2 < b.x2
      <4>1. b.x1 \in Int /\ s.x < b.x1 /\ b.x1 <= m.x2 /\ b.x1 < b.x2
        BY <1>1, <1>2, <2>2, <2>8, SMTT(60)
      <4> QED BY <1>4, <2>2, <4>1
    <3>3. ASSUME NEW c \in Int
          PROVE  Known(c) <=>
                   Covers(Upto(b.x1), c) \/ ((Within(b.x2, m.x2, c) \/ Rest1(c)) /\ ~Rest2(c))
      <4>1. /\ Within(s.x, b.x1, c) => /\ Within(s.x, m.x2, c) /\ ~Within(b.x1, b.x2, c)
                                       /\ ~(b.x2 < c)
            /\ Within(b.x2, m.x2, c) => Within(s.x, m.x2, c) /\ ~Within(b.x1, b.x2, c)
            /\ Within(s.x, m.x2, c) =>
                 Within(s.x, b.x1, c) \/ Within(b.x1, b.x2, c) \/ Within(b.x2, m.x2, c)
            /\ m.x2 < c => ~Within(b.x1, b.x2, c)
        BY <1>1, <1>2, <2>2, <2>8, SMTT(60) DEF Within
      <4>2. Covers(Upto(b.x1), c) <=> Covers(s.out, c) \/ Within(s.x, b.x1, c)
        BY <3>2
      <4> QED BY <1>3, <2>3, <4>1, <4>2
    <3>4. s.x <= b.x2
      BY <1>1, <2>2, <2>8
    <3>5. Done2(Upto(b.x1), b.x2)
      BY <1>8, <2>2, <2>8, <3>2, <3>3, <3>4
    <3> QED BY <1>6, <1>10, <2>2, <3>1, <3>5
  <2>9. CASE b.x2 > s.x /\ b.x1 > s.x /\ b.x1 >= m.x2
    <3>1. t = PastBox(b1, s, Upto(m.x2))
      BY <1>1, <1>2, <2>1, <2>2, <2>9 DEF t, SubtractTurn, Upto, Piece, PastBox, PastTaken, b, m
    <3>2. /\ IsBand(Upto(m.x2), top, bottom)
          /\ \A c \in Int : Covers(Upto(m.x2), c) <=> Covers(s.out, c) \/ Within(s.x, m.x2, c)
          /\ \A k \in 1..Len(Upto(m.x2)) : Upto(m.x2)[k].x2 <= m.x2
      BY <1>2, <1>4
    <3>3. ASSUME NEW c \in Int
          PROVE  Known(c) <=> Covers(Upto(m.x2), c) \/ (Rest1(c) /\ ~CoversFrom(b2, s.j, c))
      <4>1. Within(s.x, m.x2, c) => ~Within(b.x1, b.x2, c) /\ ~(b.x2 < c)
        BY <1>1, <1>2, <2>2, <2>9, SMTT(60) DEF Within
      <4>2. Covers(Upto(m.x2), c) <=> Covers(s.out, c) \/ Within(s.x, m.x2, c)
        BY <3>2
      <4> QED BY <1>3, <2>3, <4>1, <4>2
    <3>4. Done1(Upto(m.x2))
      BY <1>7, <3>2, <3>3
    <3> QED BY <1>5, <3>1, <3>4
  <2> QED BY <1>1, <1>2, <2>2, <2>4, <2>5, <2>6, <2>7, <2>8, <2>9, SMTT(60)
<1> QED BY <1>1, <1>9, <1>10

(* miSubtractO makes the band that covers what the first band does and the *)
(* second does not.                                                        *)
LEMMA SubtractCorrect ==
  ASSUME NEW top \in Int, NEW bottom \in Int, NEW b1, NEW b2,
         IsBand(b1, top, bottom), IsBand(b2, top, bottom), Len(b1) > 0
  PROVE  /\ IsBand(SubtractO(b1, b2), top, bottom)
         /\ \A c \in Int : Covers(SubtractO(b1, b2), c) <=> Covers(b1, c) /\ ~Covers(b2, c)
<1> DEFINE start == [i |-> 1, j |-> 1, x |-> b1[1].x1, out |-> <<>>]
           Turn(s) == SubtractTurn(b1, b2, s)
           Steps(g) == [n \in Nat |-> IF n = 0 THEN start ELSE Turn(g[n - 1])]
           I == {s \in SubtractStates : SubtractInv(b1, b2, top, bottom, s)}
           D == {s \in SubtractStates : s.i > Len(b1)}
           m == [s \in I |-> (Len(b1) + 1 - s.i) + (Len(b2) + 1 - s.j)]
           turns == CHOOSE g : g = Steps(g)
           end == turns[Len(b1) + Len(b2)]
<1>1. /\ Len(b1) \in Nat \ {0} /\ Len(b2) \in Nat /\ 1 \in 1..Len(b1) /\ 1 \in 1..Len(b2) + 1
      /\ b1 \in Seq(IntBox) /\ b2 \in Seq(IntBox)
  BY DEF IsBand
<1>2. start \in I /\ start.i + start.j = 2
  <2>1. b1[1].x1 \in Int /\ b1[1].x1 < b1[1].x2
    BY <1>1, BandBox
  <2>2. /\ start.i = 1 /\ start.j = 1 /\ start.x = b1[1].x1 /\ start.out = <<>>
        /\ start \in SubtractStates
    BY <2>1 DEF SubtractStates
  <2> HIDE DEF start
  <2>3. ASSUME NEW c \in Int
        PROVE  /\ Undecided(b1, start, c) <=> Covers(b1, c)
               /\ Covers(b2, c) <=> CoversFrom(b2, 1, c)
               /\ ~Covers(<<>>, c)
    <3>1. CoversFrom(b1, 1, c) <=> InColumn(b1, 1, c) \/ CoversFrom(b1, 1 + 1, c)
      BY <1>1, CoversFromNext
    <3>2. Undecided(b1, start, c) <=> InColumn(b1, 1, c) \/ CoversFrom(b1, 1 + 1, c)
      BY <1>1, <2>2 DEF Undecided, InColumn
    <3> QED BY <3>1, <3>2, CoversFromFirst, NoBoxes
  <2>4. \A c \in Int : Covers(b1, c) /\ ~Covers(b2, c) <=>
          Covers(start.out, c) \/ (Undecided(b1, start, c) /\ ~CoversFrom(b2, start.j, c))
    BY <2>2, <2>3
  <2>5. SubtractInv(b1, b2, top, bottom, start)
    BY <1>1, <2>1, <2>2, <2>4, NoBoxes DEF SubtractInv
  <2> QED BY <2>2, <2>5
<1>3. ASSUME NEW s \in I
      PROVE  /\ Turn(s) \in I /\ m[s] \in Nat
             /\ s \notin D => m[Turn(s)] < m[s]
             /\ s \in D => Turn(s) = s
  <2>1. /\ s \in SubtractStates /\ SubtractInv(b1, b2, top, bottom, s)
        /\ s.i \in 1..Len(b1) + 1 /\ s.j \in 1..Len(b2) + 1
    BY DEF SubtractInv
  <2>2. CASE s \in D
    <3>1. Turn(s) = s
      BY <1>1, <2>2 DEF SubtractTurn
    <3> QED BY <1>1, <2>1, <2>2, <3>1
  <2>3. CASE s \notin D
    <3>1. s.i <= Len(b1)
      BY <1>1, <2>1, <2>3
    <3>2. /\ Turn(s) \in SubtractStates /\ SubtractInv(b1, b2, top, bottom, Turn(s))
          /\ Turn(s).i + Turn(s).j > s.i + s.j
      BY <2>1, <3>1, SubtractTurnKeeps DEF SubtractKeeps
    <3>3. Turn(s).i \in 1..Len(b1) + 1 /\ Turn(s).j \in 1..Len(b2) + 1
      BY <3>2 DEF SubtractInv
    <3>4. Turn(s) \in I
      BY <3>2
    <3> DEFINE t == Turn(s)
    <3> HIDE DEF Turn, I
    <3>5. /\ m[s] = (Len(b1) + 1 - s.i) + (Len(b2) + 1 - s.j)
          /\ m[t] = (Len(b1) + 1 - t.i) + (Len(b2) + 1 - t.j)
      BY <3>4
    <3> HIDE DEF m, t
    <3>6. /\ s.i \in 1..Len(b1) + 1 /\ s.j \in 1..Len(b2) + 1
          /\ t.i \in 1..Len(b1) + 1 /\ t.j \in 1..Len(b2) + 1 /\ t.i + t.j > s.i + s.j
          /\ Len(b1) \in Nat /\ Len(b2) \in Nat
      BY <1>1, <2>1, <3>2, <3>3 DEF t
    <3>7. m[s] \in Nat /\ m[t] < m[s]
      BY <3>5, <3>6, Nearer, ZenonT(60)
    <3> QED BY <2>3, <3>4, <3>7 DEF t
  <2> QED BY <2>2, <2>3
<1> HIDE DEF I, D, m, Turn, start
<1>4. m \in [I -> Nat]
  BY <1>3 DEF m
<1>5. \E g : g = Steps(g)
  <2> DEFINE turn == [s \in I |-> Turn(s)]
  <2>1. turn \in [I -> I]
    BY <1>3
  <2>2. \A s \in I : turn[s] = Turn(s)
    OBVIOUS
  <2> HIDE DEF turn
  <2>3. start \in I
    BY <1>2
  <2>4. PICK g \in [Nat -> I] : IsRun(g, start, turn)
    BY <2>1, <2>3, Repeats
  <2>5. \A n \in Nat : n # 0 => turn[g[n - 1]] = Turn(g[n - 1])
    BY <2>2, <2>4
  <2>6. g = Steps(g)
    BY <2>4, <2>5 DEF IsRun
  <2> HIDE DEF Steps
  <2> QED BY <2>6
<1>6. SubtractO(b1, b2) = end.out
  BY DEF SubtractO, start, Turn
<1>7. turns = Steps(turns)
  <2> HIDE DEF Steps
  <2> QED BY <1>5
<1> HIDE DEF turns
<1>8. turns[0] = start /\ \A n \in Nat : turns[n + 1] = Turn(turns[n])
  <2>1. \A n \in Nat : turns[n] = IF n = 0 THEN start ELSE Turn(turns[n - 1])
    BY <1>7
  <2> QED BY <2>1
<1>9. end \in I /\ end \in D
  <2>1. m[start] <= Len(b1) + Len(b2)
    <3>1. m[start] = (Len(b1) + 1 - start.i) + (Len(b2) + 1 - start.j)
      BY <1>2 DEF m
    <3>2. start.i \in Nat /\ start.j \in Nat
      BY <1>2 DEF I, SubtractStates
    <3> QED BY <1>1, <1>2, <3>1, <3>2, SMTT(60)
  <2>2. \A n \in Nat : turns[n] \in I => /\ turns[n + 1] \in I
                                         /\ turns[n] \notin D => m[turns[n + 1]] < m[turns[n]]
                                         /\ turns[n] \in D => turns[n + 1] = turns[n]
    BY <1>3, <1>8
  <2>3. Len(b1) + Len(b2) \in Nat /\ m[turns[0]] <= Len(b1) + Len(b2) /\ turns[0] \in I
    BY <1>1, <1>2, <1>8, <2>1
  <2> QED BY <1>4, <2>2, <2>3, LoopEnds
<1>10. SubtractInv(b1, b2, top, bottom, end) /\ end.i > Len(b1)
  BY <1>1, <1>9 DEF I, D
<1> HIDE DEF end
<1>11. ASSUME NEW c \in Int PROVE Covers(end.out, c) <=> Covers(b1, c) /\ ~Covers(b2, c)
  <2>1. ~Undecided(b1, end, c)
    <3>1. end.i \in 1..Len(b1) + 1
      BY <1>10 DEF SubtractInv
    <3> QED BY <1>1, <1>10, <3>1 DEF Undecided
  <2> QED BY <1>10, <2>1 DEF SubtractInv
<1> QED BY <1>6, <1>10, <1>11 DEF SubtractInv

-----------------------------------------------------------------------------
(*                       One band of either region                         *)

Ops == {"intersect", "union", "subtract"}
Selects(op, in1, in2) ==
  \/ op = "intersect" /\ in1 /\ in2
  \/ op = "union" /\ (in1 \/ in2)
  \/ op = "subtract" /\ in1 /\ ~in2

(* Each of the three makes a band, which covers what op selects.           *)
LEMMA OverlapBandCorrect ==
  ASSUME NEW op \in Ops, NEW top \in Int, NEW bottom \in Int, NEW b1, NEW b2,
         IsBand(b1, top, bottom), IsBand(b2, top, bottom), Len(b1) > 0, Len(b2) > 0
  PROVE  /\ IsBand(OverlapBand(op, b1, b2), top, bottom)
         /\ \A x \in Int : Covers(OverlapBand(op, b1, b2), x)
                             <=> Selects(op, Covers(b1, x), Covers(b2, x))
<1>1. CASE op = "intersect"
  <2>1. OverlapBand(op, b1, b2) = IntersectO(b1, b2)
    BY <1>1 DEF OverlapBand
  <2> QED BY <1>1, <2>1, IntersectCorrect DEF Selects
<1>2. CASE op = "union"
  <2>1. OverlapBand(op, b1, b2) = UnionO(b1, b2)
    BY <1>2 DEF OverlapBand
  <2> QED BY <1>2, <2>1, UnionCorrect DEF Selects
<1>3. CASE op = "subtract"
  <2>1. OverlapBand(op, b1, b2) = SubtractO(b1, b2)
    BY <1>3 DEF OverlapBand
  <2> QED BY <1>3, <2>1, SubtractCorrect DEF Selects
<1> QED BY <1>1, <1>2, <1>3 DEF Ops

-----------------------------------------------------------------------------
(*                        The bands of a region                            *)

Before(b, c) == (b.y1 = c.y1 /\ b.y2 = c.y2 /\ b.x2 < c.x1) \/ b.y2 <= c.y1

(* Banded, for boxes that do not follow each other at once too.            *)
Sorted(r) ==
  /\ r \in Seq(IntBox)
  /\ \A k \in 1..Len(r) : r[k].x1 < r[k].x2 /\ r[k].y1 < r[k].y2
  /\ \A k, l \in 1..Len(r) : k < l => Before(r[k], r[l])

In(r, x, y) == \E k \in 1..Len(r) : r[k].x1 <= x /\ x < r[k].x2 /\ r[k].y1 <= y /\ y < r[k].y2

(* What is before a box that is before another is before that one.         *)
LEMMA BeforeTransitive ==
  ASSUME NEW b \in IntBox, NEW c \in IntBox, NEW d \in IntBox,
         c.x1 < c.x2, c.y1 < c.y2, Before(b, c), Before(c, d)
  PROVE  Before(b, d)
<1>1. /\ b.x2 \in Int /\ b.y1 \in Int /\ b.y2 \in Int
      /\ c.x1 \in Int /\ c.x2 \in Int /\ c.y1 \in Int /\ c.y2 \in Int
      /\ d.x1 \in Int /\ d.y1 \in Int /\ d.y2 \in Int
  BY DEF IntBox
<1> QED BY <1>1 DEF Before

(* What CanonicalForm says of boxes next to each other holds of any two.   *)
LEMMA BandedSorted ==
  ASSUME NEW r \in Seq(IntBox)
  PROVE  Banded(r) <=> Sorted(r)
<1>1. Len(r) \in Nat /\ DOMAIN r = 1..Len(r) /\ \A k \in 1..Len(r) : r[k] \in IntBox
  OBVIOUS
<1>2. ASSUME Banded(r) PROVE Sorted(r)
  <2>1. \A k \in 1..Len(r) : r[k].x1 < r[k].x2 /\ r[k].y1 < r[k].y2
    BY <1>1, <1>2 DEF Banded
  <2>2. \A k \in 1..Len(r) - 1 : Before(r[k], r[k + 1])
    BY <1>2 DEF Banded, Before
  <2> DEFINE S == {l \in Nat : l <= Len(r) => \A k \in 1..l - 1 : Before(r[k], r[l])}
  <2>3. 0 \in S
    OBVIOUS
  <2>4. ASSUME NEW l \in Nat, l \in S PROVE l + 1 \in S
    <3> SUFFICES ASSUME l + 1 <= Len(r), NEW k \in 1..(l + 1) - 1 PROVE Before(r[k], r[l + 1])
      OBVIOUS
    <3>1. /\ l \in 1..Len(r) /\ l \in 1..Len(r) - 1 /\ l + 1 \in 1..Len(r) /\ k \in 1..Len(r)
          /\ k = l \/ k \in 1..l - 1
      BY <1>1
    <3>2. Before(r[l], r[l + 1])
      BY <2>2, <3>1
    <3>3. CASE k \in 1..l - 1
      <4>1. Before(r[k], r[l])
        BY <1>1, <2>4, <3>1, <3>3
      <4>2. r[l].x1 < r[l].x2 /\ r[l].y1 < r[l].y2 /\ r[k] \in IntBox /\ r[l] \in IntBox /\ r[l + 1] \in IntBox
        BY <1>1, <2>1, <3>1
      <4> QED BY <3>2, <4>1, <4>2, BeforeTransitive
    <3> QED BY <3>1, <3>2, <3>3
  <2>5. \A l \in Nat : l \in S
    <3> HIDE DEF S
    <3> QED BY <2>3, <2>4, Induction
  <2>6. ASSUME NEW k \in 1..Len(r), NEW l \in 1..Len(r), k < l PROVE Before(r[k], r[l])
    <3>1. l \in Nat /\ l <= Len(r) /\ k \in 1..l - 1
      BY <1>1, <2>6
    <3> QED BY <2>5, <3>1
  <2> QED BY <2>1, <2>6 DEF Sorted
<1>3. ASSUME Sorted(r) PROVE Banded(r)
  <2>1. \A k \in 1..Len(r) : r[k].x1 < r[k].x2 /\ r[k].y1 < r[k].y2
    BY <1>3 DEF Sorted
  <2>2. ASSUME NEW k \in 1..Len(r) - 1 PROVE Before(r[k], r[k + 1])
    <3>1. k \in 1..Len(r) /\ k + 1 \in 1..Len(r) /\ k < k + 1
      BY <1>1
    <3> QED BY <1>3, <3>1 DEF Sorted
  <2> QED BY <1>1, <2>1, <2>2 DEF Banded, Before
<1> QED BY <1>2, <1>3

(* The boxes up to BandEnd are between the same lines, the others below    *)
(* them.                                                                   *)
LEMMA BandEndIs ==
  ASSUME NEW r, Sorted(r), NEW i \in 1..Len(r)
  PROVE  /\ BandEnd(r, i) \in i..Len(r)
         /\ \A l \in i..BandEnd(r, i) : r[l].y1 = r[i].y1 /\ r[l].y2 = r[i].y2
         /\ \A l \in BandEnd(r, i) + 1..Len(r) : r[i].y2 <= r[l].y1
<1>1. Len(r) \in Nat /\ \A k \in 1..Len(r) : r[k] \in IntBox
  BY DEF Sorted
<1> DEFINE Ends(k) == /\ \A l \in i..k : r[l].y1 = r[i].y1
                      /\ k < Len(r) => r[k + 1].y1 # r[i].y1
           T == {k \in i..Len(r) : k < Len(r) => r[k + 1].y1 # r[i].y1}
           e == BandEnd(r, i)
<1>2. \E k \in i..Len(r) : Ends(k)
  <2>1. T \subseteq Nat /\ Len(r) \in T
    BY <1>1
  <2>2. PICK k \in T : \A l \in T : k <= l
    <3> HIDE DEF T
    <3> QED BY <2>1, LeastElement
  <2>3. ASSUME NEW l \in i..k PROVE r[l].y1 = r[i].y1
    <3>1. CASE l # i
      <4>1. l - 1 \in i..Len(r) /\ l - 1 < k /\ l - 1 < Len(r) /\ (l - 1) + 1 = l
        BY <1>1, <3>1
      <4>2. l - 1 \notin T
        BY <2>2, <4>1
      <4> QED BY <4>1, <4>2
    <3> QED BY <3>1
  <2>4. Ends(k)
    BY <2>2, <2>3
  <2> HIDE DEF Ends
  <2> QED BY <2>2, <2>4
<1>3. e \in i..Len(r) /\ Ends(e)
  BY <1>2 DEF BandEnd
<1> HIDE DEF e
<1>4. \A k \in 1..Len(r) : /\ r[k].y1 \in Int /\ r[k].y2 \in Int /\ r[k].y1 < r[k].y2
  <2> SUFFICES ASSUME NEW k \in 1..Len(r) PROVE r[k].y1 \in Int /\ r[k].y2 \in Int /\ r[k].y1 < r[k].y2
    OBVIOUS
  <2>1. r[k] \in IntBox
    BY <1>1
  <2> QED BY <2>1 DEF Sorted, IntBox
<1>5. ASSUME NEW l \in i..e PROVE r[l].y1 = r[i].y1 /\ r[l].y2 = r[i].y2
  <2>1. r[l].y1 = r[i].y1 /\ l \in 1..Len(r) /\ (l = i \/ i < l)
    BY <1>1, <1>3
  <2>2. CASE i < l
    <3>1. Before(r[i], r[l])
      BY <2>1, <2>2 DEF Sorted
    <3> QED BY <1>4, <2>1, <3>1 DEF Before
  <2> QED BY <2>1, <2>2
<1>6. ASSUME NEW l \in e + 1..Len(r) PROVE r[i].y2 <= r[l].y1
  <2>1. e + 1 \in 1..Len(r) /\ e < Len(r) /\ i < e + 1 /\ l \in 1..Len(r) /\ (l = e + 1 \/ e + 1 < l)
    BY <1>1, <1>3
  <2>2. r[i].y2 <= r[e + 1].y1
    <3>1. Before(r[i], r[e + 1])
      BY <2>1 DEF Sorted
    <3>2. r[e + 1].y1 # r[i].y1
      BY <1>3, <2>1
    <3> QED BY <3>1, <3>2 DEF Before
  <2>3. CASE e + 1 < l
    <3>1. Before(r[e + 1], r[l])
      BY <2>1, <2>3 DEF Sorted
    <3> QED BY <1>4, <2>1, <2>2, <3>1, SMTT(60) DEF Before
  <2> QED BY <2>1, <2>2, <2>3
<1> QED BY <1>3, <1>5, <1>6 DEF e

(* A band of a region, cut to other lines, is a band with the same columns. *)
LEMMA ClipIsBand ==
  ASSUME NEW r, Sorted(r), NEW i \in 1..Len(r), NEW top \in Int, NEW bottom \in Int
  PROVE  /\ IsBand(Clip(r, i, top, bottom), top, bottom)
         /\ Len(Clip(r, i, top, bottom)) = BandEnd(r, i) - i + 1 /\ Len(Clip(r, i, top, bottom)) > 0
         /\ \A k \in 1..Len(Clip(r, i, top, bottom)) :
              /\ i + k - 1 \in i..BandEnd(r, i)
              /\ Clip(r, i, top, bottom)[k].x1 = r[i + k - 1].x1
              /\ Clip(r, i, top, bottom)[k].x2 = r[i + k - 1].x2
<1> DEFINE e == BandEnd(r, i)
           n == e - i + 1
           c == Clip(r, i, top, bottom)
<1>1. /\ Len(r) \in Nat /\ e \in i..Len(r) /\ n \in Nat \ {0}
      /\ \A k \in 1..Len(r) : r[k] \in IntBox
      /\ \A k \in 1..n : i + k - 1 \in i..e /\ i + k - 1 \in 1..Len(r)
  <2>1. Len(r) \in Nat /\ e \in i..Len(r) /\ \A k \in 1..Len(r) : r[k] \in IntBox
    BY BandEndIs DEF Sorted
  <2> HIDE DEF e
  <2> QED BY <2>1
<1>2. c = [k \in 1..n |-> [r[i + k - 1] EXCEPT !.y1 = top, !.y2 = bottom]]
  BY DEF Clip
<1>3. \A l \in i..e : r[l].y1 = r[i].y1 /\ r[l].y2 = r[i].y2
  BY BandEndIs
<1> HIDE DEF c, e, n
<1>4. ASSUME NEW k \in 1..n
      PROVE  /\ c[k] \in IntBox /\ c[k].x1 = r[i + k - 1].x1 /\ c[k].x2 = r[i + k - 1].x2
             /\ c[k].y1 = top /\ c[k].y2 = bottom
  <2>1. r[i + k - 1] \in IntBox
    BY <1>1
  <2>2. c[k] = [r[i + k - 1] EXCEPT !.y1 = top, !.y2 = bottom]
    BY <1>2, ZenonT(60)
  <2> QED BY <2>1, <2>2 DEF IntBox
<1>5. c \in Seq(IntBox) /\ Len(c) = n
  <2>1. DOMAIN c = 1..n /\ \A k \in 1..n : c[k] \in IntBox
    BY <1>2, <1>4, ZenonT(60)
  <2>2. c = [k \in 1..n |-> c[k]]
    BY <1>2, ZenonT(60)
  <2>3. c \in [1..n -> IntBox]
    BY <2>1, <2>2
  <2> QED BY <1>1, <2>3
<1>6. ASSUME NEW k \in 1..n PROVE c[k].x1 < c[k].x2
  BY <1>1, <1>4 DEF Sorted
<1>7. ASSUME NEW k \in 1..n, NEW l \in 1..n, k < l PROVE c[k].x2 < c[l].x1
  <2>1. i + k - 1 \in 1..Len(r) /\ i + l - 1 \in 1..Len(r) /\ i + k - 1 < i + l - 1
    BY <1>1, <1>7
  <2>2. Before(r[i + k - 1], r[i + l - 1])
    BY <2>1 DEF Sorted
  <2>3. r[i + k - 1].y2 = r[i].y2 /\ r[i + l - 1].y1 = r[i].y1
    BY <1>1, <1>3
  <2>4. r[i].y1 \in Int /\ r[i].y2 \in Int /\ r[i].y1 < r[i].y2
    <3>1. r[i] \in IntBox
      BY <1>1
    <3> QED BY <3>1 DEF Sorted, IntBox
  <2>5. c[k].x2 = r[i + k - 1].x2 /\ c[l].x1 = r[i + l - 1].x1
    BY <1>4
  <2> QED BY <2>2, <2>3, <2>4, <2>5 DEF Before
<1>8. IsBand(c, top, bottom)
  <2>1. c \in Seq(IntBox) /\ Len(c) = n
    BY <1>5
  <2>2. \A k \in 1..n : c[k].x1 < c[k].x2 /\ c[k].y1 = top /\ c[k].y2 = bottom
    BY <1>4, <1>6
  <2>3. \A k, l \in 1..n : k < l => c[k].x2 < c[l].x1
    BY <1>7
  <2> QED BY <2>1, <2>2, <2>3 DEF IsBand
<1>9. Len(c) = n /\ n > 0
  BY <1>1, <1>5
<1>10. \A k \in 1..Len(c) :
         i + k - 1 \in i..e /\ c[k].x1 = r[i + k - 1].x1 /\ c[k].x2 = r[i + k - 1].x2
  BY <1>1, <1>4, <1>9
<1> QED BY <1>8, <1>9, <1>10 DEF c, n, e

(* A band begins at i, and what is before it is above y.                   *)
Cursor(r, i, y) ==
  /\ i \in 1..Len(r) + 1
  /\ \A k \in 1..i - 1 : r[k].y2 <= y
  /\ i <= Len(r) => y < r[i].y2 /\ \A k \in 1..i - 1 : r[k].y2 <= r[i].y1

(* At the rows of the band at i the region has the pixels that band covers, *)
(* above it none, and none when there is no band left.                     *)
LEMMA CursorRows ==
  ASSUME NEW r, Sorted(r), NEW y0 \in Int, NEW i, Cursor(r, i, y0),
         NEW x \in Int, NEW y \in Int, y0 <= y
  PROVE  /\ i > Len(r) => ~In(r, x, y)
         /\ i <= Len(r) /\ y < r[i].y1 => ~In(r, x, y)
         /\ i <= Len(r) /\ r[i].y1 <= y /\ y < r[i].y2 =>
              \A top, bottom \in Int : Covers(Clip(r, i, top, bottom), x) <=> In(r, x, y)
<1>1. Len(r) \in Nat /\ i \in 1..Len(r) + 1 /\ \A k \in 1..Len(r) : r[k] \in IntBox
  BY DEF Sorted, Cursor
<1>2. ASSUME NEW k \in 1..Len(r)
      PROVE  /\ r[k].x1 \in Int /\ r[k].x2 \in Int /\ r[k].y1 \in Int /\ r[k].y2 \in Int
             /\ r[k].x1 < r[k].x2 /\ r[k].y1 < r[k].y2
  <2>1. r[k] \in IntBox
    BY <1>1
  <2> QED BY <2>1 DEF Sorted, IntBox
<1>3. ASSUME NEW k \in 1..Len(r), k < i PROVE ~(y < r[k].y2)
  <2>1. k \in 1..i - 1
    BY <1>1, <1>3
  <2>2. r[k].y2 <= y0
    BY <2>1 DEF Cursor
  <2> QED BY <1>2, <2>2
<1>4. i > Len(r) => ~In(r, x, y)
  BY <1>1, <1>3 DEF In
<1>5. ASSUME i <= Len(r), y < r[i].y1 PROVE ~In(r, x, y)
  <2>1. i \in 1..Len(r)
    BY <1>1, <1>5
  <2>2. ASSUME NEW k \in 1..Len(r), ~(k < i) PROVE ~(r[k].y1 <= y)
    <3>1. k = i \/ Before(r[i], r[k])
      BY <1>1, <2>1, <2>2 DEF Sorted
    <3> QED BY <1>2, <1>5, <2>1, <3>1, SMTT(60) DEF Before
  <2> QED BY <1>3, <2>2 DEF In
<1>6. ASSUME i <= Len(r), r[i].y1 <= y, y < r[i].y2, NEW top \in Int, NEW bottom \in Int
      PROVE  Covers(Clip(r, i, top, bottom), x) <=> In(r, x, y)
  <2> DEFINE c == Clip(r, i, top, bottom)
             e == BandEnd(r, i)
  <2>1. i \in 1..Len(r)
    BY <1>1, <1>6
  <2>2. /\ e \in i..Len(r)
        /\ \A l \in i..e : r[l].y1 = r[i].y1 /\ r[l].y2 = r[i].y2
        /\ \A l \in e + 1..Len(r) : r[i].y2 <= r[l].y1
    BY <2>1, BandEndIs
  <2>3. /\ Len(c) = e - i + 1
        /\ \A k \in 1..Len(c) : /\ i + k - 1 \in i..e /\ c[k].x1 = r[i + k - 1].x1
                                /\ c[k].x2 = r[i + k - 1].x2
    BY <2>1, ClipIsBand
  <2> HIDE DEF c, e
  <2>4. ASSUME Covers(c, x) PROVE In(r, x, y)
    <3>1. PICK k \in 1..Len(c) : InColumn(c, k, x)
      BY <2>4 DEF Covers
    <3>2. i + k - 1 \in i..e /\ i + k - 1 \in 1..Len(r)
      BY <1>1, <2>2, <2>3
    <3>3. r[i + k - 1].x1 <= x /\ x < r[i + k - 1].x2
      BY <2>3, <3>1 DEF InColumn
    <3> QED BY <1>6, <2>2, <3>2, <3>3 DEF In
  <2>5. ASSUME In(r, x, y) PROVE Covers(c, x)
    <3>1. PICK l \in 1..Len(r) : r[l].x1 <= x /\ x < r[l].x2 /\ r[l].y1 <= y /\ y < r[l].y2
      BY <2>5 DEF In
    <3>2. ~(l < i)
      BY <1>3, <3>1
    <3>3. ~(l \in e + 1..Len(r))
      BY <1>2, <1>6, <2>1, <2>2, <3>1, SMTT(60)
    <3>4. l \in i..e
      BY <1>1, <2>2, <3>2, <3>3
    <3>5. l - i + 1 \in 1..Len(c) /\ i + (l - i + 1) - 1 = l
      BY <1>1, <2>2, <2>3, <3>4
    <3>6. InColumn(c, l - i + 1, x)
      BY <2>3, <3>1, <3>5 DEF InColumn
    <3> QED BY <3>5, <3>6 DEF Covers
  <2> QED BY <2>4, <2>5 DEF c
<1> QED BY <1>4, <1>5, <1>6

(* The loop passes the band when it has come to its bottom line.           *)
LEMMA CursorMoves ==
  ASSUME NEW r, Sorted(r), NEW y0 \in Int, NEW i, Cursor(r, i, y0), i <= Len(r),
         NEW y \in Int, y0 <= y, y <= r[i].y2
  PROVE  LET i2 == IF r[i].y2 = y THEN BandEnd(r, i) + 1 ELSE i
         IN /\ Cursor(r, i2, y) /\ i2 \in 1..Len(r) + 1 /\ i2 >= i
            /\ r[i].y2 = y => i2 > i /\ (i2 <= Len(r) => y <= r[i2].y1)
<1> DEFINE e == BandEnd(r, i)
           i2 == IF r[i].y2 = y THEN e + 1 ELSE i
<1>1. Len(r) \in Nat /\ i \in 1..Len(r) /\ \A k \in 1..Len(r) : r[k] \in IntBox
  BY DEF Sorted, Cursor
<1>2. /\ e \in i..Len(r)
      /\ \A l \in i..e : r[l].y1 = r[i].y1 /\ r[l].y2 = r[i].y2
      /\ \A l \in e + 1..Len(r) : r[i].y2 <= r[l].y1
  BY <1>1, BandEndIs
<1> HIDE DEF e
<1>3. ASSUME NEW k \in 1..Len(r)
      PROVE  r[k].y1 \in Int /\ r[k].y2 \in Int /\ r[k].y1 < r[k].y2
  <2>1. r[k] \in IntBox
    BY <1>1
  <2> QED BY <2>1 DEF Sorted, IntBox
<1>4. ASSUME NEW k \in 1..i - 1 PROVE r[k].y2 <= y
  <2>1. k \in 1..Len(r) /\ r[k].y2 <= y0
    BY <1>1 DEF Cursor
  <2> QED BY <1>3, <2>1
<1>5. CASE r[i].y2 = y
  <2>1. i2 = e + 1 /\ i2 \in 1..Len(r) + 1 /\ i2 > i
    BY <1>1, <1>2, <1>5
  <2>2. ASSUME NEW k \in 1..i2 - 1 PROVE r[k].y2 <= y
    <3>1. k \in 1..i - 1 \/ k \in i..e
      BY <1>1, <1>2, <2>1
    <3> QED BY <1>1, <1>2, <1>3, <1>4, <1>5, <3>1
  <2>3. ASSUME i2 <= Len(r) PROVE y <= r[i2].y1 /\ y < r[i2].y2 /\ \A k \in 1..i2 - 1 : r[k].y2 <= r[i2].y1
    <3>1. e + 1 \in 1..Len(r) /\ e + 1 \in e + 1..Len(r)
      BY <1>1, <1>2, <2>1, <2>3
    <3>2. y <= r[i2].y1 /\ r[i2].y1 \in Int /\ r[i2].y2 \in Int /\ r[i2].y1 < r[i2].y2
      BY <1>2, <1>3, <1>5, <2>1, <3>1
    <3>3. ASSUME NEW k \in 1..i2 - 1 PROVE r[k].y2 <= r[i2].y1
      <4>1. k \in 1..Len(r) /\ r[k].y2 \in Int
        BY <1>1, <1>2, <1>3, <2>1
      <4> QED BY <2>2, <3>2, <4>1
    <3> QED BY <3>2, <3>3
  <2> QED BY <1>1, <2>1, <2>2, <2>3 DEF Cursor, e
<1>6. CASE r[i].y2 # y
  <2>1. i2 = i /\ y < r[i].y2
    BY <1>1, <1>3, <1>6
  <2> QED BY <1>1, <1>4, <1>6, <2>1 DEF Cursor, e
<1> QED BY <1>5, <1>6

-----------------------------------------------------------------------------
(*                              miCoalesce                                 *)

SameColumns(b, c) == b.x1 = c.x1 /\ b.x2 = c.x2

(* The boxes of a band are from left to right.                             *)
LEMMA BandIncreases ==
  ASSUME NEW top \in Int, NEW bottom \in Int, NEW b, IsBand(b, top, bottom),
         NEW k \in 1..Len(b), NEW l \in 1..Len(b)
  PROVE  k < l => b[k].x1 < b[l].x1 /\ b[k].x1 # b[l].x1 /\ ~(b[l].x1 < b[k].x1)
<1>1. b[k].x1 \in Int /\ b[k].x2 \in Int /\ b[k].x1 < b[k].x2 /\ b[l].x1 \in Int
  BY BandBox
<1>2. k < l => b[k].x2 < b[l].x1
  BY DEF IsBand
<1> QED BY <1>1, <1>2

(* Bands with boxes at the same places have them in the same order.        *)
LEMMA SameBands ==
  ASSUME NEW t1 \in Int, NEW u1 \in Int, NEW c, IsBand(c, t1, u1),
         NEW t2 \in Int, NEW u2 \in Int, NEW d, IsBand(d, t2, u2),
         \A k \in 1..Len(c) : \E l \in 1..Len(d) : SameColumns(c[k], d[l]),
         \A k \in 1..Len(d) : \E l \in 1..Len(c) : SameColumns(c[l], d[k])
  PROVE  Len(c) = Len(d) /\ \A k \in 1..Len(c) : SameColumns(c[k], d[k])
<1> DEFINE Both(p) == p \in 1..Len(c) /\ p \in 1..Len(d) /\ SameColumns(c[p], d[p])
           T == {p \in Nat : (p \in 1..Len(c) \/ p \in 1..Len(d)) /\ ~Both(p)}
<1>1. Len(c) \in Nat /\ Len(d) \in Nat
  BY DEF IsBand
<1>2. ASSUME NEW k \in 1..Len(c), NEW l \in 1..Len(c)
      PROVE  k < l => c[k].x1 < c[l].x1 /\ c[k].x1 # c[l].x1 /\ ~(c[l].x1 < c[k].x1)
  BY BandIncreases
<1>3. ASSUME NEW k \in 1..Len(d), NEW l \in 1..Len(d)
      PROVE  k < l => d[k].x1 < d[l].x1 /\ d[k].x1 # d[l].x1 /\ ~(d[l].x1 < d[k].x1)
  BY BandIncreases
<1>4. ASSUME T # {} PROVE FALSE
  <2>1. PICK p \in T : \A q \in T : p <= q
    <3>1. T \subseteq Nat
      OBVIOUS
    <3> HIDE DEF T
    <3> QED BY <1>4, <3>1, LeastElement
  <2>2. p \in Nat \ {0} /\ ~Both(p) /\ (p \in 1..Len(c) \/ p \in 1..Len(d))
    BY <1>1, <2>1
  <2>3. ASSUME NEW q \in Nat, q < p, q \in 1..Len(c) \/ q \in 1..Len(d) PROVE Both(q)
    <3>1. q \notin T
      BY <2>1, <2>2, <2>3
    <3> QED BY <2>3, <3>1
  <2> HIDE DEF T
  <2>4. ASSUME p \in 1..Len(c) PROVE \E l \in 1..Len(d) : p < l /\ SameColumns(c[p], d[l])
    <3>1. PICK l \in 1..Len(d) : SameColumns(c[p], d[l])
      BY <2>4
    <3>2. l # p
      BY <2>2, <2>4, <3>1
    <3>3. ~(l < p)
      <4> SUFFICES ASSUME l < p PROVE FALSE
        OBVIOUS
      <4>1. l \in 1..Len(c) /\ SameColumns(c[l], d[l])
        BY <2>3
      <4>2. c[l].x1 # c[p].x1
        BY <1>2, <2>4, <4>1
      <4>3. c[l].x1 = c[p].x1
        BY <3>1, <4>1 DEF SameColumns
      <4> QED BY <4>2, <4>3
    <3> QED BY <2>2, <3>1, <3>2, <3>3
  <2>5. ASSUME p \in 1..Len(d) PROVE \E l \in 1..Len(c) : p < l /\ SameColumns(c[l], d[p])
    <3>1. PICK l \in 1..Len(c) : SameColumns(c[l], d[p])
      BY <2>5
    <3>2. l # p
      BY <2>2, <2>5, <3>1
    <3>3. ~(l < p)
      <4> SUFFICES ASSUME l < p PROVE FALSE
        OBVIOUS
      <4>1. l \in 1..Len(d) /\ SameColumns(c[l], d[l])
        BY <2>3
      <4>2. d[l].x1 # d[p].x1
        BY <1>3, <2>5, <4>1
      <4>3. d[l].x1 = d[p].x1
        BY <3>1, <4>1 DEF SameColumns
      <4> QED BY <4>2, <4>3
    <3> QED BY <2>2, <3>1, <3>2, <3>3
  <2>6. p \in 1..Len(c) /\ p \in 1..Len(d)
    <3>1. p \in 1..Len(c) \/ p \in 1..Len(d)
      BY <2>2
    <3>2. ASSUME p \in 1..Len(c) PROVE p \in 1..Len(d)
      BY <1>1, <2>2, <2>4, <3>2
    <3>3. ASSUME p \in 1..Len(d) PROVE p \in 1..Len(c)
      BY <1>1, <2>2, <2>5, <3>3
    <3> QED BY <3>1, <3>2, <3>3
  <2>7. PICK l \in 1..Len(d) : p < l /\ SameColumns(c[p], d[l])
    BY <2>4, <2>6
  <2>8. PICK m \in 1..Len(c) : p < m /\ SameColumns(c[m], d[p])
    BY <2>5, <2>6
  <2>9. ~(c[m].x1 < c[p].x1) /\ d[p].x1 < d[l].x1
    BY <1>2, <1>3, <2>6, <2>7, <2>8
  <2> HIDE DEF Both
  <2>10. c[p].x1 = d[l].x1 /\ c[m].x1 = d[p].x1
    BY <2>7, <2>8 DEF SameColumns
  <2> QED BY <2>9, <2>10
<1>5. ASSUME NEW k \in Nat, k \in 1..Len(c) \/ k \in 1..Len(d) PROVE Both(k)
  <2>1. k \notin T
    BY <1>4
  <2> QED BY <1>5, <2>1
<1>6. \A k \in Nat : k \in 1..Len(c) <=> k \in 1..Len(d)
  BY <1>5
<1>7. Len(c) = Len(d)
  <2>1. Len(c) = 0 \/ Len(c) \in 1..Len(d)
    BY <1>1, <1>6
  <2>2. Len(d) = 0 \/ Len(d) \in 1..Len(c)
    BY <1>1, <1>6
  <2> QED BY <1>1, <2>1, <2>2
<1> QED BY <1>1, <1>5, <1>7

-----------------------------------------------------------------------------

(* The new region in the making: canonical, and all of it above the row y. *)
(* Only its last band may end there, and then prev says where that begins. *)
OutInv(out, y) ==
  /\ out \in [boxes : Seq(IntBox), prev : Nat]
  /\ Sorted(out.boxes) /\ Coalesced(out.boxes)
  /\ out.prev \in 0..Len(out.boxes)
  /\ \A k \in 1..Len(out.boxes) : out.boxes[k].y2 <= y
  /\ \A k \in 1..out.prev :
       /\ out.boxes[k].y2 < y
       /\ out.prev < Len(out.boxes) => out.boxes[k].y2 <= out.boxes[out.prev + 1].y1
  /\ \A k \in out.prev + 1..Len(out.boxes) :
       /\ out.boxes[k].y1 = out.boxes[out.prev + 1].y1
       /\ out.boxes[k].y2 = out.boxes[out.prev + 1].y2

LastBand(out) == [k \in 1..Len(out.boxes) - out.prev |-> out.boxes[out.prev + k]]

(* The last band is one.                                                   *)
LEMMA LastBandIs ==
  ASSUME NEW out, NEW y \in Int, OutInv(out, y), out.prev < Len(out.boxes)
  PROVE  /\ IsBand(LastBand(out), out.boxes[out.prev + 1].y1, out.boxes[out.prev + 1].y2)
         /\ Len(LastBand(out)) = Len(out.boxes) - out.prev
<1> DEFINE r == out.boxes
           n == Len(r) - out.prev
           b == LastBand(out)
<1>1. Len(r) \in Nat /\ out.prev \in Nat /\ n \in Nat /\ out.prev + 1 \in 1..Len(r)
  BY DEF OutInv, Sorted
<1>2. \A k \in 1..n : out.prev + k \in 1..Len(r) /\ out.prev + k \in out.prev + 1..Len(r)
  BY <1>1, SMTT(60)
<1>3. b = [k \in 1..n |-> r[out.prev + k]]
  BY DEF LastBand
<1> HIDE DEF b, r, n
<1>4. ASSUME NEW k \in 1..Len(r)
      PROVE  r[k] \in IntBox /\ r[k].y1 \in Int /\ r[k].y2 \in Int /\ r[k].x1 < r[k].x2 /\ r[k].y1 < r[k].y2
  <2>1. r[k] \in IntBox
    BY DEF r, OutInv, Sorted
  <2> QED BY <2>1 DEF r, OutInv, Sorted, IntBox
<1>5. \A k \in 1..n : b[k] = r[out.prev + k] /\ b[k] \in IntBox
  BY <1>2, <1>3, <1>4
<1>6. b \in Seq(IntBox) /\ Len(b) = n
  <2>1. DOMAIN b = 1..n /\ b = [k \in 1..n |-> b[k]]
    BY <1>3
  <2>2. b \in [1..n -> IntBox]
    BY <1>5, <2>1
  <2> QED BY <1>1, <2>2
<1>7. ASSUME NEW k \in 1..n
      PROVE  b[k].x1 < b[k].x2 /\ b[k].y1 = r[out.prev + 1].y1 /\ b[k].y2 = r[out.prev + 1].y2
  <2>1. r[out.prev + k].y1 = r[out.prev + 1].y1 /\ r[out.prev + k].y2 = r[out.prev + 1].y2
    BY <1>2 DEF OutInv, r
  <2> QED BY <1>2, <1>4, <1>5, <2>1
<1>8. ASSUME NEW k \in 1..n, NEW l \in 1..n, k < l PROVE b[k].x2 < b[l].x1
  <2>1. out.prev + k < out.prev + l
    BY <1>1, <1>8
  <2>2. Before(r[out.prev + k], r[out.prev + l])
    BY <1>2, <2>1 DEF r, OutInv, Sorted
  <2>3. /\ r[out.prev + k].y2 = r[out.prev + 1].y2 /\ r[out.prev + l].y1 = r[out.prev + 1].y1
        /\ b[k] = r[out.prev + k] /\ b[l] = r[out.prev + l]
    BY <1>5, <1>7
  <2>4. /\ r[out.prev + 1].y1 \in Int /\ r[out.prev + 1].y2 \in Int
        /\ r[out.prev + 1].y1 < r[out.prev + 1].y2
    BY <1>1, <1>4
  <2> QED BY <2>2, <2>3, <2>4 DEF Before
<1>9. IsBand(b, r[out.prev + 1].y1, r[out.prev + 1].y2)
  BY <1>6, <1>7, <1>8 DEF IsBand
<1> QED BY <1>6, <1>9 DEF b, r, n

(* The types of a box in a region.                                         *)
LEMMA BoxTypes ==
  ASSUME NEW r, Sorted(r), NEW k \in 1..Len(r)
  PROVE  /\ r[k] \in IntBox /\ r[k].x1 \in Int /\ r[k].x2 \in Int /\ r[k].y1 \in Int /\ r[k].y2 \in Int
         /\ r[k].x1 < r[k].x2 /\ r[k].y1 < r[k].y2
<1>1. r[k] \in IntBox
  BY DEF Sorted
<1> QED BY <1>1 DEF Sorted, IntBox

(* BandAt, as a set of pairs of columns.                                   *)
LEMMA BandAtIs ==
  ASSUME NEW r \in Seq(IntBox), NEW y
  PROVE  BandAt(r, y) = {p \in Int \X Int :
                           \E k \in 1..Len(r) : r[k].y1 = y /\ p = <<r[k].x1, r[k].x2>>}
<1>1. \A k \in 1..Len(r) : r[k] \in IntBox
  OBVIOUS
<1>2. \A k \in 1..Len(r) : r[k].x1 \in Int /\ r[k].x2 \in Int
  BY <1>1 DEF IntBox
<1>3. DOMAIN r = 1..Len(r)
  OBVIOUS
<1> QED BY <1>2, <1>3 DEF BandAt

(* When the band at the end and the new one are alike and meet.            *)
Joins(out, band) ==
  LET n == Len(out.boxes) - out.prev
  IN /\ n = Len(band) /\ n > 0
     /\ out.boxes[out.prev + 1].y2 = band[1].y1
     /\ \A i \in 1..n : SameColumns(out.boxes[out.prev + i], band[i])

(* What the new region has to be after that.                               *)
Added(out, band, top, bottom, new) ==
  /\ OutInv(new, bottom)
  /\ \A x, y \in Int : In(new.boxes, x, y) <=>
       In(out.boxes, x, y) \/ (top <= y /\ y < bottom /\ Covers(band, x))
  /\ Len(band) > 0 => /\ Len(new.boxes) - new.prev = Len(band)
                      /\ new.boxes[new.prev + 1].y2 = bottom
                      /\ \A k \in 1..Len(band) : SameColumns(new.boxes[new.prev + k], band[k])

(* miCoalesce is right when the bands join: the one before gets taller.    *)
LEMMA JoinsRight ==
  ASSUME NEW out, NEW y0 \in Int, OutInv(out, y0), NEW top \in Int, NEW bottom \in Int,
         y0 <= top, top < bottom, NEW band, IsBand(band, top, bottom), Joins(out, band)
  PROVE  Added(out, band, top, bottom, Coalesce(out, band))
<1> DEFINE r == out.boxes
           p == out.prev
           new == Coalesce(out, band)
           q == new.boxes
           Y == r[p + 1].y1
<1>1. /\ Len(r) \in Nat /\ p \in Nat /\ p < Len(r) /\ Len(r) - p = Len(band) /\ p + 1 \in 1..Len(r)
      /\ r \in Seq(IntBox) /\ Sorted(r) /\ Coalesced(r) /\ 1 \in 1..Len(band)
      /\ out = [boxes |-> r, prev |-> p] /\ Len(band) \in Nat
  BY DEF OutInv, Sorted, Joins, IsBand
<1>2. ASSUME NEW k \in 1..Len(r)
      PROVE  /\ r[k] \in IntBox /\ r[k].x1 \in Int /\ r[k].x2 \in Int /\ r[k].y1 \in Int
             /\ r[k].y2 \in Int /\ r[k].x1 < r[k].x2 /\ r[k].y1 < r[k].y2
  BY <1>1, BoxTypes
<1>3. band[1].y1 = top /\ band[1].y2 = bottom
  BY <1>1 DEF IsBand
<1>4. new = [boxes |-> [k \in 1..Len(r) |-> IF k > p THEN [r[k] EXCEPT !.y2 = bottom] ELSE r[k]],
             prev |-> p]
  <2>1. new = [out EXCEPT !.boxes = [i \in 1..Len(r) |->
             IF i > p THEN [@[i] EXCEPT !.y2 = band[1].y2] ELSE @[i]]]
    BY DEF Coalesce, Joins, SameColumns
  <2> HIDE DEF new, r, p
  <2> QED BY <1>1, <1>3, <2>1
<1> HIDE DEF new
<1>5. new.prev = p /\ q = [k \in 1..Len(r) |-> IF k > p THEN [r[k] EXCEPT !.y2 = bottom] ELSE r[k]]
  BY <1>4
<1> HIDE DEF q
<1>6. ASSUME NEW k \in 1..Len(r)
      PROVE  /\ q[k] \in IntBox /\ q[k].x1 = r[k].x1 /\ q[k].x2 = r[k].x2 /\ q[k].y1 = r[k].y1
             /\ q[k].y2 = IF k > p THEN bottom ELSE r[k].y2
  <2>1. q[k] = IF k > p THEN [r[k] EXCEPT !.y2 = bottom] ELSE r[k]
    BY <1>5
  <2> HIDE DEF r, p
  <2> QED BY <1>2, <2>1 DEF IntBox
<1>7. q \in Seq(IntBox) /\ Len(q) = Len(r)
  <2>1. DOMAIN q = 1..Len(r) /\ q = [k \in 1..Len(r) |-> q[k]]
    BY <1>5
  <2> HIDE DEF r
  <2>2. q \in [1..Len(r) -> IntBox]
    BY <1>6, <2>1
  <2> QED BY <1>1, <2>2, SMTT(60)
<1>8. Y \in Int /\ Y < top /\ r[p + 1].y2 = top
  BY <1>1, <1>2, <1>3 DEF Joins
<1>9. ASSUME NEW k \in 1..Len(r)
      PROVE  /\ k > p => r[k].y1 = Y /\ r[k].y2 = top
             /\ ~(k > p) => r[k].y2 <= Y /\ r[k].y2 < y0
             /\ r[k].y2 <= y0
  <2>1. k > p => k \in p + 1..Len(r)
    BY <1>1
  <2>2. ~(k > p) => k \in 1..p
    BY <1>1
  <2> QED BY <1>1, <1>8, <2>1, <2>2 DEF OutInv
<1> HIDE DEF r, p, Y
<1>10. ASSUME NEW k \in 1..Len(q), NEW l \in 1..Len(q), k < l PROVE Before(q[k], q[l])
  <2>1. k \in 1..Len(r) /\ l \in 1..Len(r) /\ Before(r[k], r[l])
    BY <1>1, <1>7, <1>10 DEF Sorted
  <2>2. CASE k > p
    <3>1. l > p
      BY <1>1, <1>10, <2>1, <2>2
    <3>2. r[k].x2 < r[l].x1 /\ r[k].y1 = r[l].y1
      BY <1>8, <1>9, <2>1, <2>2, <3>1 DEF Before
    <3> QED BY <1>6, <2>1, <2>2, <3>1, <3>2 DEF Before
  <2>3. CASE ~(k > p)
    <3>1. q[k].y2 = r[k].y2 /\ q[k].y1 = r[k].y1 /\ q[l].y1 = r[l].y1
      BY <1>6, <2>1, <2>3
    <3>2. CASE l > p
      <4>1. r[k].y2 <= Y /\ r[l].y1 = Y
        BY <1>9, <2>1, <2>3, <3>2
      <4> QED BY <3>1, <4>1 DEF Before
    <3>3. CASE ~(l > p)
      BY <1>6, <2>1, <2>3, <3>3 DEF Before
    <3> QED BY <3>2, <3>3
  <2> QED BY <2>2, <2>3
<1>11. ASSUME NEW k \in 1..Len(q)
       PROVE  q[k].x1 < q[k].x2 /\ q[k].y1 < q[k].y2 /\ q[k].y2 <= bottom
  <2>1. k \in 1..Len(r)
    BY <1>7
  <2> QED BY <1>2, <1>6, <1>8, <1>9, <2>1
<1>12. Sorted(q)
  BY <1>7, <1>10, <1>11 DEF Sorted
<1>13. ASSUME NEW z PROVE BandAt(q, z) = BandAt(r, z)
  <2>1. BandAt(q, z) = {c \in Int \X Int : \E k \in 1..Len(q) : q[k].y1 = z /\ c = <<q[k].x1, q[k].x2>>}
    BY <1>7, BandAtIs
  <2>2. BandAt(r, z) = {c \in Int \X Int : \E k \in 1..Len(r) : r[k].y1 = z /\ c = <<r[k].x1, r[k].x2>>}
    BY <1>1, BandAtIs
  <2>3. \A k \in 1..Len(r) : q[k].x1 = r[k].x1 /\ q[k].x2 = r[k].x2 /\ q[k].y1 = r[k].y1
    BY <1>6
  <2>4. ASSUME NEW c \in Int \X Int
        PROVE  (\E k \in 1..Len(q) : q[k].y1 = z /\ c = <<q[k].x1, q[k].x2>>)
                 <=> (\E k \in 1..Len(r) : r[k].y1 = z /\ c = <<r[k].x1, r[k].x2>>)
    BY <1>7, <2>3
  <2> QED BY <2>1, <2>2, <2>4
<1>14. Coalesced(q)
  <2> SUFFICES ASSUME NEW i \in 1..Len(r), NEW j \in 1..Len(r), q[j].y1 = q[i].y2
               PROVE  BandAt(q, q[i].y2) # BandAt(q, q[i].y1)
    BY <1>7 DEF Coalesced
  <2>1. r[j].y1 < bottom /\ r[j].y1 \in Int
    BY <1>2, <1>9
  <2>2. ~(i > p)
    BY <1>6, <2>1
  <2>3. q[i].y2 = r[i].y2 /\ q[i].y1 = r[i].y1 /\ r[j].y1 = r[i].y2
    BY <1>6, <2>2
  <2>4. DOMAIN r = 1..Len(r)
    BY <1>1
  <2>5. BandAt(r, r[i].y2) # BandAt(r, r[i].y1)
    BY <1>1, <2>3, <2>4 DEF Coalesced
  <2> QED BY <1>13, <2>3, <2>5
<1>15. OutInv(new, bottom)
  <2>1. new \in [boxes : Seq(IntBox), prev : Nat] /\ new.boxes = q
    BY <1>1, <1>4, <1>5, <1>7 DEF q
  <2>2. ASSUME NEW k \in 1..p PROVE q[k].y2 < bottom /\ q[k].y2 <= q[p + 1].y1
    <3>1. k \in 1..Len(r) /\ ~(k > p)
      BY <1>1
    <3>2. r[k].y2 <= r[p + 1].y1 /\ r[k].y2 < y0 /\ r[k].y2 \in Int
      BY <1>2, <1>9, <3>1 DEF Y
    <3>3. q[k].y2 = r[k].y2 /\ q[p + 1].y1 = r[p + 1].y1
      BY <1>1, <1>6, <3>1
    <3> QED BY <3>2, <3>3
  <2>3. ASSUME NEW k \in p + 1..Len(q) PROVE q[k].y1 = q[p + 1].y1 /\ q[k].y2 = q[p + 1].y2
    <3>1. k \in 1..Len(r) /\ k > p /\ p + 1 > p
      BY <1>1, <1>7
    <3> QED BY <1>1, <1>6, <1>9, <3>1
  <2>4. p \in 0..Len(q)
    BY <1>1, <1>7
  <2> QED BY <1>5, <1>11, <1>12, <1>14, <2>1, <2>2, <2>3, <2>4 DEF OutInv
<1>16. \A k \in 1..Len(band) : /\ p + k \in 1..Len(r) /\ p + k > p
                               /\ SameColumns(r[p + k], band[k])
  BY <1>1, SMTT(60) DEF Joins, r, p
<1>17. ASSUME NEW x \in Int, NEW y \in Int
       PROVE  In(q, x, y) <=> In(r, x, y) \/ (top <= y /\ y < bottom /\ Covers(band, x))
  <2>1. ASSUME NEW k \in 1..Len(q),
               q[k].x1 <= x /\ x < q[k].x2 /\ q[k].y1 <= y /\ y < q[k].y2
        PROVE  In(r, x, y) \/ (top <= y /\ y < bottom /\ Covers(band, x))
    <3>1. k \in 1..Len(r)
      BY <1>7
    <3>2. CASE y < r[k].y2
      BY <1>6, <2>1, <3>1, <3>2 DEF In
    <3>3. CASE ~(y < r[k].y2)
      <4>1. k > p /\ q[k].y2 = bottom /\ r[k].y2 = top
        BY <1>6, <1>9, <2>1, <3>1, <3>3
      <4>2. k - p \in 1..Len(band) /\ p + (k - p) = k
        BY <1>1, <3>1, <4>1, SMTT(60)
      <4>3. InColumn(band, k - p, x)
        BY <1>6, <1>16, <2>1, <3>1, <4>2, SMTT(60) DEF SameColumns, InColumn
      <4> QED BY <2>1, <3>3, <4>1, <4>2, <4>3 DEF Covers
    <3> QED BY <3>2, <3>3
  <2>2. ASSUME NEW k \in 1..Len(r),
               r[k].x1 <= x /\ x < r[k].x2 /\ r[k].y1 <= y /\ y < r[k].y2
        PROVE  In(q, x, y)
    <3>1. y < q[k].y2
      BY <1>2, <1>6, <1>9, <2>2
    <3> QED BY <1>6, <1>7, <2>2, <3>1 DEF In
  <2>3. ASSUME top <= y, y < bottom, NEW k \in 1..Len(band), InColumn(band, k, x)
        PROVE  In(q, x, y)
    <3>1. /\ p + k \in 1..Len(q) /\ q[p + k].x1 <= x /\ x < q[p + k].x2
          /\ q[p + k].y1 = Y /\ q[p + k].y2 = bottom
      BY <1>6, <1>7, <1>9, <1>16, <2>3 DEF SameColumns, InColumn
    <3>2. Y <= y
      BY <1>8, <2>3
    <3> QED BY <2>3, <3>1, <3>2 DEF In
  <2> QED BY <2>1, <2>2, <2>3 DEF In, Covers
<1>18. /\ Len(q) - p = Len(band) /\ q[p + 1].y2 = bottom
       /\ \A k \in 1..Len(band) : SameColumns(q[p + k], band[k])
  BY <1>1, <1>6, <1>7, <1>16 DEF SameColumns
<1> QED BY <1>5, <1>15, <1>17, <1>18 DEF Added, new, q, r

(* It is right when they do not: no two bands that meet are alike, for the *)
(* band before could not be told from the new one otherwise.               *)
LEMMA AppendsRight ==
  ASSUME NEW out, NEW y0 \in Int, OutInv(out, y0), NEW top \in Int, NEW bottom \in Int,
         y0 <= top, top < bottom, NEW band, IsBand(band, top, bottom), ~Joins(out, band)
  PROVE  Added(out, band, top, bottom, Coalesce(out, band))
<1> DEFINE r == out.boxes
           p == out.prev
           q == r \o band
           new == [boxes |-> q, prev |-> Len(r)]
           n == Len(r)
           m == Len(band)
<1>1. /\ n \in Nat /\ p \in Nat /\ p <= n /\ m \in Nat
      /\ r \in Seq(IntBox) /\ Sorted(r) /\ Coalesced(r) /\ band \in Seq(IntBox)
  BY DEF OutInv, Sorted, IsBand
<1>2. Coalesce(out, band) = new
  BY DEF Coalesce, Joins, SameColumns
<1>3. ASSUME NEW k \in 1..n
      PROVE  /\ r[k] \in IntBox /\ r[k].x1 \in Int /\ r[k].x2 \in Int /\ r[k].y1 \in Int
             /\ r[k].y2 \in Int /\ r[k].x1 < r[k].x2 /\ r[k].y1 < r[k].y2
             /\ r[k].y2 <= y0 /\ r[k].y2 <= top /\ r[k].y1 < top
  <2>1. /\ r[k] \in IntBox /\ r[k].x1 \in Int /\ r[k].x2 \in Int /\ r[k].y1 \in Int
        /\ r[k].y2 \in Int /\ r[k].x1 < r[k].x2 /\ r[k].y1 < r[k].y2
    BY <1>1, BoxTypes
  <2>2. r[k].y2 <= y0
    BY DEF OutInv
  <2> HIDE DEF r
  <2> QED BY <2>1, <2>2
<1>4. ASSUME NEW k \in 1..m
      PROVE  /\ band[k] \in IntBox /\ band[k].x1 \in Int /\ band[k].x2 \in Int
             /\ band[k].x1 < band[k].x2 /\ band[k].y1 = top /\ band[k].y2 = bottom
  BY BandBox
<1>5. /\ q \in Seq(IntBox) /\ Len(q) = n + m
      /\ \A k \in 1..n : k \in 1..Len(q) /\ q[k] = r[k]
      /\ \A k \in 1..m : n + k \in 1..Len(q) /\ q[n + k] = band[k]
  BY <1>1, SMTT(60)
<1>6. \A k \in 1..Len(q) : k \in 1..n \/ (k \notin 1..n /\ k - n \in 1..m /\ q[k] = band[k - n])
  <2> HIDE DEF q, r
  <2> SUFFICES ASSUME NEW k \in 1..Len(q), k \notin 1..n PROVE k - n \in 1..m /\ q[k] = band[k - n]
    OBVIOUS
  <2>1. k - n \in 1..m /\ n + (k - n) = k
    BY <1>1, <1>5
  <2> QED BY <1>5, <2>1
<1> HIDE DEF q, r, p, n, m
<1>7. ASSUME NEW k \in 1..Len(q), NEW l \in 1..Len(q), k < l PROVE Before(q[k], q[l])
  <2>1. CASE k \in 1..n /\ l \in 1..n
    BY <1>1, <1>5, <1>7, <2>1 DEF Sorted, n
  <2>2. CASE k \in 1..n /\ l \notin 1..n
    BY <1>3, <1>4, <1>5, <1>6, <2>2 DEF Before
  <2>3. CASE k \notin 1..n
    <3>1. l \notin 1..n /\ k - n \in 1..m /\ l - n \in 1..m /\ k - n < l - n
      BY <1>1, <1>6, <1>7, <2>3, SMTT(60)
    <3>2. band[k - n].x2 < band[l - n].x1
      BY <3>1 DEF IsBand, m
    <3>3. q[k] = band[k - n] /\ q[l] = band[l - n]
      BY <1>6, <2>3, <3>1
    <3> QED BY <1>4, <3>1, <3>2, <3>3 DEF Before
  <2> QED BY <2>1, <2>2, <2>3
<1>8. ASSUME NEW k \in 1..Len(q)
      PROVE  q[k].x1 < q[k].x2 /\ q[k].y1 < q[k].y2 /\ q[k].y2 <= bottom
  BY <1>3, <1>4, <1>5, <1>6
<1>9. Sorted(q)
  BY <1>5, <1>7, <1>8 DEF Sorted
<1>10. ASSUME NEW z \in Int, z < top, NEW c
       PROVE  c \in BandAt(q, z) <=> c \in BandAt(r, z)
  <2>1. c \in BandAt(q, z) <=>
          c \in Int \X Int /\ \E k \in 1..Len(q) : q[k].y1 = z /\ c = <<q[k].x1, q[k].x2>>
    BY <1>5, BandAtIs
  <2>2. c \in BandAt(r, z) <=>
          c \in Int \X Int /\ \E k \in 1..n : r[k].y1 = z /\ c = <<r[k].x1, r[k].x2>>
    BY <1>1, BandAtIs DEF n
  <2>3. \A k \in 1..Len(q) : k \notin 1..n => q[k].y1 # z
    BY <1>4, <1>6, <1>10
  <2> QED BY <1>5, <2>1, <2>2, <2>3
<1>11. ASSUME NEW c
       PROVE  c \in BandAt(q, top) <=>
                \E k \in 1..m : c = <<band[k].x1, band[k].x2>>
  <2>1. c \in BandAt(q, top) <=>
          c \in Int \X Int /\ \E k \in 1..Len(q) : q[k].y1 = top /\ c = <<q[k].x1, q[k].x2>>
    BY <1>5, BandAtIs
  <2>2. \A k \in 1..n : q[k].y1 # top
    BY <1>3, <1>5
  <2>3. \A k \in 1..m : /\ n + k \in 1..Len(q) /\ q[n + k] = band[k] /\ band[k].y1 = top
                        /\ <<band[k].x1, band[k].x2>> \in Int \X Int
    BY <1>4, <1>5
  <2>4. \A k \in 1..Len(q) : q[k].y1 = top => k - n \in 1..m /\ q[k] = band[k - n]
    BY <1>6, <2>2
  <2> QED BY <2>1, <2>3, <2>4
<1>12. ASSUME NEW i \in 1..n, r[i].y2 = top, m > 0
       PROVE  BandAt(q, top) # BandAt(q, r[i].y1)
  <2> SUFFICES ASSUME BandAt(q, top) = BandAt(q, r[i].y1) PROVE FALSE
    OBVIOUS
  <2>1. p < n /\ i \in p + 1..n
    <3>1. y0 = top
      BY <1>3, <1>12
    <3>2. i \notin 1..p
      <4> SUFFICES ASSUME i \in 1..p PROVE FALSE
        OBVIOUS
      <4>1. r[i].y2 < y0
        BY DEF OutInv, r, p
      <4> QED BY <1>12, <3>1, <4>1
    <3> QED BY <1>1, <3>2
  <2> DEFINE Y == r[p + 1].y1
             b == LastBand(out)
  <2>2. p + 1 \in 1..n /\ p + 1 \in p + 1..n
    BY <1>1, <2>1
  <2>3. \A k \in p + 1..n : r[k].y1 = Y /\ r[k].y2 = r[p + 1].y2
    BY DEF OutInv, r, p, n
  <2>4. r[i].y1 = Y /\ r[p + 1].y2 = top /\ Y \in Int /\ Y < top
    BY <1>3, <1>12, <2>1, <2>2, <2>3
  <2>5. IsBand(b, Y, top) /\ Len(b) = n - p
    <3>1. IsBand(b, Y, r[p + 1].y2) /\ Len(b) = n - p
      BY <2>1, LastBandIs DEF r, p, n
    <3> QED BY <2>4, <3>1
  <2>6. \A k \in 1..n - p : b[k] = r[p + k] /\ p + k \in 1..n /\ p + k \in p + 1..n
    <3>1. b = [k \in 1..n - p |-> r[p + k]]
      BY DEF LastBand, n, p, r
    <3> QED BY <1>1, <3>1
  <2> HIDE DEF b, Y
  <2>7. \A c : c \in BandAt(r, Y) <=> \E k \in 1..m : c = <<band[k].x1, band[k].x2>>
    BY <1>10, <1>11, <2>4
  <2>8. \A c : c \in BandAt(r, Y) <=>
          c \in Int \X Int /\ \E k \in 1..n : r[k].y1 = Y /\ c = <<r[k].x1, r[k].x2>>
    BY <1>1, BandAtIs DEF n
  <2>9. ASSUME NEW k \in 1..Len(b) PROVE \E l \in 1..Len(band) : SameColumns(b[k], band[l])
    <3>1. /\ b[k] = r[p + k] /\ p + k \in 1..n /\ r[p + k].y1 = Y
          /\ <<r[p + k].x1, r[p + k].x2>> \in Int \X Int
      BY <1>3, <2>3, <2>5, <2>6
    <3>2. <<r[p + k].x1, r[p + k].x2>> \in BandAt(r, Y)
      BY <2>8, <3>1
    <3>3. PICK l \in 1..m : <<r[p + k].x1, r[p + k].x2>> = <<band[l].x1, band[l].x2>>
      BY <2>7, <3>2
    <3> QED BY <3>1, <3>3 DEF SameColumns, m
  <2>10. ASSUME NEW k \in 1..Len(band) PROVE \E l \in 1..Len(b) : SameColumns(b[l], band[k])
    <3>1. <<band[k].x1, band[k].x2>> \in BandAt(r, Y)
      BY <2>7 DEF m
    <3>2. PICK l \in 1..n : r[l].y1 = Y /\ <<band[k].x1, band[k].x2>> = <<r[l].x1, r[l].x2>>
      BY <2>8, <3>1
    <3>3. l \notin 1..p
      <4> SUFFICES ASSUME l \in 1..p PROVE FALSE
        OBVIOUS
      <4>1. r[l].y2 <= Y
        BY <2>1 DEF OutInv, r, p, n, Y
      <4> QED BY <1>3, <2>4, <3>2, <4>1, SMTT(60)
    <3>4. l - p \in 1..Len(b) /\ p + (l - p) = l
      BY <1>1, <2>5, <3>3
    <3>5. b[l - p] = r[l]
      BY <2>5, <2>6, <3>4
    <3> QED BY <3>2, <3>4, <3>5 DEF SameColumns
  <2>11. Len(b) = Len(band) /\ \A k \in 1..Len(b) : SameColumns(b[k], band[k])
    BY <2>4, <2>5, <2>9, <2>10, SameBands
  <2>12. band[1].y1 = top
    BY <1>1, <1>4, <1>12
  <2>13. Joins(out, band)
    <3>1. \A k \in 1..n - p : SameColumns(r[p + k], band[k])
      BY <2>5, <2>6, <2>11
    <3>2. n - p = Len(band) /\ r[p + 1].y2 = band[1].y1
      BY <2>4, <2>5, <2>11, <2>12
    <3>3. n - p > 0
      BY <1>1, <2>1
    <3> QED BY <3>1, <3>2, <3>3 DEF Joins, n, p, r
  <2> QED BY <2>13
<1>13. Coalesced(q)
  <2> SUFFICES ASSUME NEW i \in 1..Len(q), NEW j \in 1..Len(q), q[j].y1 = q[i].y2
               PROVE  BandAt(q, q[i].y2) # BandAt(q, q[i].y1)
    BY <1>5 DEF Coalesced
  <2>1. i \in 1..n /\ q[i] = r[i]
    <3> SUFFICES ASSUME i \notin 1..n PROVE FALSE
      BY <1>5
    <3>1. q[j].y1 = bottom
      BY <1>4, <1>6
    <3>2. q[j].y1 \in Int /\ q[j].y1 <= top
      BY <1>3, <1>4, <1>5, <1>6
    <3> QED BY <3>1, <3>2
  <2>2. CASE j \in 1..n
    <3>1. q[j] = r[j] /\ r[j].y1 < top /\ r[i].y1 < top /\ r[j].y1 = r[i].y2 /\ r[i].y2 \in Int
      BY <1>3, <1>5, <2>1, <2>2
    <3>2. BandAt(r, r[i].y2) # BandAt(r, r[i].y1)
      <4>1. DOMAIN r = 1..n
        BY <1>1 DEF n
      <4> QED BY <1>1, <2>1, <2>2, <3>1, <4>1 DEF Coalesced
    <3>3. BandAt(q, r[i].y2) = BandAt(r, r[i].y2) /\ BandAt(q, r[i].y1) = BandAt(r, r[i].y1)
      <4>1. \A c : /\ c \in BandAt(q, r[i].y2) <=> c \in BandAt(r, r[i].y2)
                   /\ c \in BandAt(q, r[i].y1) <=> c \in BandAt(r, r[i].y1)
        BY <1>3, <1>10, <2>1, <3>1
      <4> QED BY <4>1
    <3> QED BY <2>1, <3>2, <3>3
  <2>3. CASE j \notin 1..n
    <3>1. q[j].y1 = top /\ m > 0
      BY <1>1, <1>4, <1>6, <2>3
    <3> QED BY <1>12, <2>1, <3>1
  <2> QED BY <2>2, <2>3
<1>14. OutInv(new, bottom)
  <2>1. new \in [boxes : Seq(IntBox), prev : Nat] /\ new.boxes = q /\ new.prev = n
    BY <1>1, <1>5 DEF n
  <2>2. ASSUME NEW k \in 1..n
        PROVE  q[k].y2 < bottom /\ (n < Len(q) => q[k].y2 <= q[n + 1].y1)
    <3>1. q[k] = r[k] /\ r[k].y2 <= top /\ r[k].y2 \in Int
      BY <1>3, <1>5
    <3>2. n < Len(q) => q[n + 1].y1 = top
      <4>1. n < Len(q) => 1 \in 1..m
        BY <1>1, <1>5, SMTT(60)
      <4>2. 1 \in 1..m => q[n + 1] = band[1] /\ band[1].y1 = top
        BY <1>4, <1>5
      <4> QED BY <4>1, <4>2
    <3> QED BY <3>1, <3>2
  <2>3. ASSUME NEW k \in n + 1..Len(q) PROVE q[k].y1 = q[n + 1].y1 /\ q[k].y2 = q[n + 1].y2
    <3>1. k - n \in 1..m /\ 1 \in 1..m /\ n + (k - n) = k
      BY <1>1, <1>5, SMTT(60)
    <3> QED BY <1>4, <1>5, <3>1
  <2>4. n \in 0..Len(q)
    BY <1>1, <1>5
  <2> HIDE DEF new
  <2> QED BY <1>8, <1>9, <1>13, <2>1, <2>2, <2>3, <2>4 DEF OutInv
<1>15. ASSUME NEW x \in Int, NEW y \in Int
       PROVE  In(q, x, y) <=> In(r, x, y) \/ (top <= y /\ y < bottom /\ Covers(band, x))
  <2>1. ASSUME NEW k \in 1..Len(q),
               q[k].x1 <= x /\ x < q[k].x2 /\ q[k].y1 <= y /\ y < q[k].y2
        PROVE  In(r, x, y) \/ (top <= y /\ y < bottom /\ Covers(band, x))
    <3>1. CASE k \in 1..n
      BY <1>5, <2>1, <3>1 DEF In, n
    <3>2. CASE k \notin 1..n
      BY <1>4, <1>6, <2>1, <3>2 DEF Covers, InColumn, m
    <3> QED BY <3>1, <3>2
  <2>2. ASSUME NEW k \in 1..n,
               r[k].x1 <= x /\ x < r[k].x2 /\ r[k].y1 <= y /\ y < r[k].y2
        PROVE  In(q, x, y)
    BY <1>5, <2>2 DEF In
  <2>3. ASSUME top <= y, y < bottom, NEW k \in 1..m, InColumn(band, k, x) PROVE In(q, x, y)
    BY <1>4, <1>5, <2>3 DEF In, InColumn
  <2> QED BY <2>1, <2>2, <2>3 DEF In, Covers, n, m
<1>16. m > 0 => /\ Len(q) - n = m /\ q[n + 1].y2 = bottom
                /\ \A k \in 1..m : SameColumns(q[n + k], band[k])
  <2> SUFFICES ASSUME m > 0
               PROVE  /\ Len(q) - n = m /\ q[n + 1].y2 = bottom
                      /\ \A k \in 1..m : SameColumns(q[n + k], band[k])
    OBVIOUS
  <2>1. 1 \in 1..m
    BY <1>1
  <2>2. Len(q) - n = m
    BY <1>1, <1>5
  <2>3. q[n + 1] = band[1] /\ band[1].y2 = bottom
    BY <1>4, <1>5, <2>1
  <2>4. \A k \in 1..m : SameColumns(q[n + k], band[k])
    BY <1>5 DEF SameColumns
  <2> QED BY <2>2, <2>3, <2>4
<1>17. new.boxes = q /\ new.prev = n
  BY DEF n
<1> HIDE DEF new
<1> QED BY <1>2, <1>14, <1>15, <1>16, <1>17 DEF Added, r, m

(* So miCoalesce adds the new band and leaves the region canonical.        *)
LEMMA CoalesceRight ==
  ASSUME NEW out, NEW y0 \in Int, OutInv(out, y0), NEW top \in Int, NEW bottom \in Int,
         y0 <= top, top < bottom, NEW band, IsBand(band, top, bottom)
  PROVE  Added(out, band, top, bottom, Coalesce(out, band))
<1>1. CASE Joins(out, band)
  BY <1>1, JoinsRight
<1>2. CASE ~Joins(out, band)
  BY <1>2, AppendsRight
<1> QED BY <1>1, <1>2

(* What is above a row is above the ones below it.                         *)
LEMMA OutBelow ==
  ASSUME NEW out, NEW y0 \in Int, OutInv(out, y0)
  PROVE  /\ \A x, y \in Int : y0 <= y => ~In(out.boxes, x, y)
         /\ \A y \in Int : y0 <= y => OutInv(out, y)
<1>1. ASSUME NEW k \in 1..Len(out.boxes) PROVE out.boxes[k].y2 \in Int /\ out.boxes[k].y2 <= y0
  <2>1. Sorted(out.boxes)
    BY DEF OutInv
  <2>2. out.boxes[k].y2 \in Int
    BY <2>1, BoxTypes
  <2> QED BY <2>2 DEF OutInv
<1>2. ASSUME NEW x \in Int, NEW y \in Int, y0 <= y PROVE ~In(out.boxes, x, y)
  BY <1>1, <1>2 DEF In
<1>3. ASSUME NEW y \in Int, y0 <= y PROVE OutInv(out, y)
  <2>1. \A k \in 1..Len(out.boxes) : out.boxes[k].y2 <= y
    BY <1>1, <1>3
  <2>2. out.prev \in 0..Len(out.boxes) /\ Len(out.boxes) \in Nat
    BY DEF OutInv
  <2>3. ASSUME NEW k \in 1..out.prev PROVE out.boxes[k].y2 < y
    <3>1. k \in 1..Len(out.boxes)
      BY <2>2
    <3>2. out.boxes[k].y2 < y0
      BY DEF OutInv
    <3> QED BY <1>1, <1>3, <3>1, <3>2
  <2> QED BY <2>1, <2>3 DEF OutInv
<1> QED BY <1>2, <1>3

-----------------------------------------------------------------------------
(*                       miRegionOp's main loop                            *)

(* The rows of one region alone, down to where the other's band begins.    *)
Alone(r, i, ybot, ytop, out) ==
  LET top == Max2(r[i].y1, ybot)
      bot == Min2(r[i].y2, ytop)
  IN IF top # bot THEN Coalesce(out, Clip(r, i, top, bot)) ELSE out

(* Rows that only one of the regions has stay as they are in it.           *)
LEMMA AloneRight ==
  ASSUME NEW r, Sorted(r), NEW ybot \in Int, NEW i, Cursor(r, i, ybot), i <= Len(r),
         NEW out, OutInv(out, ybot), NEW ytop \in Int, r[i].y1 < ytop, ybot <= ytop
  PROVE  LET bot == Min2(r[i].y2, ytop)
             new == Alone(r, i, ybot, ytop, out)
         IN /\ OutInv(new, bot) /\ ybot <= bot /\ bot \in Int
            /\ \A x, y \in Int : y < bot =>
                 /\ y < ybot => (In(new.boxes, x, y) <=> In(out.boxes, x, y))
                 /\ ybot <= y => (In(new.boxes, x, y) <=> In(r, x, y))
<1> DEFINE top == Max2(r[i].y1, ybot)
           bot == Min2(r[i].y2, ytop)
           new == Alone(r, i, ybot, ytop, out)
           band == Clip(r, i, top, bot)
<1>1. Len(r) \in Nat /\ i \in 1..Len(r)
  BY DEF Sorted, Cursor
<1>2. /\ r[i].y1 \in Int /\ r[i].y2 \in Int /\ r[i].y1 < r[i].y2 /\ ybot < r[i].y2
  BY <1>1, BoxTypes DEF Cursor
<1>3. /\ top \in Int /\ bot \in Int /\ ybot <= bot /\ top <= bot /\ ybot <= top
      /\ \A y \in Int : /\ y < bot => y < r[i].y2
                        /\ ybot <= y => (r[i].y1 <= y <=> top <= y)
  BY <1>2 DEF Max2, Min2
<1>4. new = IF top # bot THEN Coalesce(out, band) ELSE out
  BY DEF Alone
<1> HIDE DEF top, bot, new, band
<1>5. ASSUME NEW x \in Int, NEW y \in Int, ybot <= y
      PROVE  /\ ~In(out.boxes, x, y)
             /\ y < r[i].y1 => ~In(r, x, y)
             /\ r[i].y1 <= y /\ y < r[i].y2 => (Covers(band, x) <=> In(r, x, y))
  <2>1. ~In(out.boxes, x, y)
    BY <1>5, OutBelow
  <2>2. y < r[i].y1 => ~In(r, x, y)
    BY <1>5, CursorRows
  <2>3. r[i].y1 <= y /\ y < r[i].y2 =>
          \A t, u \in Int : Covers(Clip(r, i, t, u), x) <=> In(r, x, y)
    BY <1>5, CursorRows
  <2> QED BY <1>3, <2>1, <2>2, <2>3 DEF band
<1>6. CASE top # bot
  <2>1. top < bot
    BY <1>3, <1>6
  <2>2. IsBand(band, top, bot)
    BY <1>1, <1>3, ClipIsBand DEF band
  <2>3. Added(out, band, top, bot, new)
    BY <1>3, <1>4, <1>6, <2>1, <2>2, CoalesceRight
  <2>4. ASSUME NEW x \in Int, NEW y \in Int, y < bot
        PROVE  /\ y < ybot => (In(new.boxes, x, y) <=> In(out.boxes, x, y))
               /\ ybot <= y => (In(new.boxes, x, y) <=> In(r, x, y))
    <3>1. In(new.boxes, x, y) <=> In(out.boxes, x, y) \/ (top <= y /\ y < bot /\ Covers(band, x))
      BY <2>3 DEF Added
    <3>2. CASE y < ybot
      <4>1. ~(top <= y) /\ ~(ybot <= y)
        BY <1>3, <3>2
      <4> QED BY <3>1, <4>1
    <3>3. CASE ybot <= y
      <4>1. ~(y < ybot) /\ y < r[i].y2 /\ (r[i].y1 <= y <=> top <= y) /\ (y < r[i].y1 <=> ~(r[i].y1 <= y))
        BY <1>2, <1>3, <2>4, <3>3
      <4> QED BY <1>5, <2>4, <3>1, <3>3, <4>1
    <3> QED BY <3>2, <3>3
  <2> QED BY <1>3, <2>3, <2>4 DEF Added, bot, new
<1>7. CASE top = bot
  <2>1. new = out /\ OutInv(out, bot)
    BY <1>3, <1>4, <1>7, OutBelow
  <2>2. ASSUME NEW x \in Int, NEW y \in Int, y < bot, ybot <= y
        PROVE  ~In(out.boxes, x, y) /\ ~In(r, x, y)
    <3>1. y < r[i].y1
      BY <1>2, <1>3, <1>7, <2>2
    <3> QED BY <1>5, <2>2, <3>1
  <2> QED BY <1>3, <2>1, <2>2 DEF bot, new
<1> QED BY <1>6, <1>7

SweepStates == [i : Nat, j : Nat, ybot : Int, out : [boxes : Seq(IntBox), prev : Nat]]
SweepInv(op, r1, r2, s) ==
  /\ OutInv(s.out, s.ybot)
  /\ Cursor(r1, s.i, s.ybot) /\ Cursor(r2, s.j, s.ybot)
  /\ s.i <= Len(r1) /\ s.j <= Len(r2) => s.ybot <= Max2(r1[s.i].y1, r2[s.j].y1)
  /\ \A x, y \in Int : y < s.ybot =>
       (In(s.out.boxes, x, y) <=> Selects(op, In(r1, x, y), In(r2, x, y)))

(* The rows above the overlap of two bands.                                *)
RowsAbove(op, r1, r2, s) ==
  LET ytop == Max2(r1[s.i].y1, r2[s.j].y1)
  IN CASE r1[s.i].y1 < r2[s.j].y1 /\ Keeps1(op) -> Alone(r1, s.i, s.ybot, ytop, s.out)
       [] r2[s.j].y1 < r1[s.i].y1 /\ Keeps2(op) -> Alone(r2, s.j, s.ybot, ytop, s.out)
       [] OTHER -> s.out

(* The rows above the overlap are what op selects.                         *)
LEMMA RowsAboveRight ==
  ASSUME NEW op \in Ops, NEW r1, Sorted(r1), NEW r2, Sorted(r2),
         NEW s \in SweepStates, SweepInv(op, r1, r2, s), s.i <= Len(r1), s.j <= Len(r2)
  PROVE  LET lim == Min2(Max2(r1[s.i].y1, r2[s.j].y1), Min2(r1[s.i].y2, r2[s.j].y2))
             new == RowsAbove(op, r1, r2, s)
         IN /\ OutInv(new, lim) /\ s.ybot <= lim
            /\ \A x, y \in Int : y < lim =>
                 (In(new.boxes, x, y) <=> Selects(op, In(r1, x, y), In(r2, x, y)))
<1> DEFINE b == r1[s.i]
           c == r2[s.j]
           ytop == Max2(b.y1, c.y1)
           lim == Min2(ytop, Min2(b.y2, c.y2))
           new == RowsAbove(op, r1, r2, s)
           Right(x, y) == In(new.boxes, x, y) <=> Selects(op, In(r1, x, y), In(r2, x, y))
<1>1. /\ s.i \in 1..Len(r1) /\ s.j \in 1..Len(r2) /\ s.ybot \in Int
      /\ Cursor(r1, s.i, s.ybot) /\ Cursor(r2, s.j, s.ybot) /\ OutInv(s.out, s.ybot)
  BY DEF SweepInv, SweepStates, Cursor, Sorted
<1>2. /\ b.y1 \in Int /\ b.y2 \in Int /\ b.y1 < b.y2 /\ s.ybot < b.y2
      /\ c.y1 \in Int /\ c.y2 \in Int /\ c.y1 < c.y2 /\ s.ybot < c.y2
      /\ s.ybot <= ytop
  <2>1. b.y1 \in Int /\ b.y2 \in Int /\ b.y1 < b.y2 /\ s.ybot < b.y2
    BY <1>1, BoxTypes DEF Cursor
  <2>2. c.y1 \in Int /\ c.y2 \in Int /\ c.y1 < c.y2 /\ s.ybot < c.y2
    BY <1>1, BoxTypes DEF Cursor
  <2> QED BY <2>1, <2>2 DEF SweepInv
<1>3. \A x, y \in Int : y < s.ybot =>
        (In(s.out.boxes, x, y) <=> Selects(op, In(r1, x, y), In(r2, x, y)))
  BY DEF SweepInv
<1>4. new = CASE b.y1 < c.y1 /\ Keeps1(op) -> Alone(r1, s.i, s.ybot, ytop, s.out)
              [] c.y1 < b.y1 /\ Keeps2(op) -> Alone(r2, s.j, s.ybot, ytop, s.out)
              [] OTHER -> s.out
  BY DEF RowsAbove
<1> HIDE DEF new, b, c, ytop, lim
<1>5. /\ lim \in Int /\ s.ybot <= lim /\ ytop \in Int
      /\ \A y \in Int : y < lim => /\ y < b.y2 /\ y < c.y2
                                   /\ b.y1 < c.y1 => y < c.y1
                                   /\ c.y1 < b.y1 => y < b.y1
                                   /\ b.y1 = c.y1 => y < b.y1 /\ y < c.y1
      /\ b.y1 < c.y1 => ytop = c.y1 /\ lim = Min2(b.y2, ytop) /\ b.y1 < ytop
      /\ c.y1 < b.y1 => ytop = b.y1 /\ lim = Min2(c.y2, ytop) /\ c.y1 < ytop
  BY <1>1, <1>2, SMTT(60) DEF lim, ytop, Max2, Min2
<1>6. ASSUME NEW x \in Int, NEW y \in Int, s.ybot <= y
      PROVE  /\ ~In(s.out.boxes, x, y)
             /\ y < b.y1 => ~In(r1, x, y)
             /\ y < c.y1 => ~In(r2, x, y)
  <2>1. ~In(s.out.boxes, x, y)
    BY <1>1, <1>6, OutBelow
  <2>2. y < b.y1 => ~In(r1, x, y)
    BY <1>1, <1>6, CursorRows DEF b
  <2>3. y < c.y1 => ~In(r2, x, y)
    BY <1>1, <1>6, CursorRows DEF c
  <2> QED BY <2>1, <2>2, <2>3
<1>7. \A y \in Int : y < s.ybot <=> ~(s.ybot <= y)
  BY <1>1
<1>8. CASE b.y1 < c.y1 /\ Keeps1(op)
  <2>1. new = Alone(r1, s.i, s.ybot, ytop, s.out)
    BY <1>2, <1>4, <1>8
  <2>2. /\ OutInv(new, lim)
        /\ \A x, y \in Int : y < lim =>
             /\ y < s.ybot => (In(new.boxes, x, y) <=> In(s.out.boxes, x, y))
             /\ s.ybot <= y => (In(new.boxes, x, y) <=> In(r1, x, y))
    <3>1. s.i <= Len(r1) /\ r1[s.i].y1 < ytop /\ s.ybot <= ytop /\ lim = Min2(r1[s.i].y2, ytop)
      BY <1>2, <1>5, <1>8 DEF b
    <3> QED BY <1>1, <1>5, <2>1, <3>1, AloneRight
  <2>3. ASSUME NEW x \in Int, NEW y \in Int, y < lim PROVE Right(x, y)
    <3>1. CASE y < s.ybot
      BY <1>3, <2>2, <2>3, <3>1
    <3>2. CASE s.ybot <= y
      <4>1. ~In(r2, x, y) /\ (In(new.boxes, x, y) <=> In(r1, x, y))
        BY <1>5, <1>6, <1>8, <2>2, <2>3, <3>2
      <4> QED BY <1>8, <4>1 DEF Selects, Keeps1
    <3> QED BY <1>7, <3>1, <3>2
  <2> QED BY <1>5, <2>2, <2>3 DEF new, lim, ytop, b, c
<1>9. CASE c.y1 < b.y1 /\ Keeps2(op)
  <2>1. new = Alone(r2, s.j, s.ybot, ytop, s.out)
    BY <1>2, <1>4, <1>9
  <2>2. /\ OutInv(new, lim)
        /\ \A x, y \in Int : y < lim =>
             /\ y < s.ybot => (In(new.boxes, x, y) <=> In(s.out.boxes, x, y))
             /\ s.ybot <= y => (In(new.boxes, x, y) <=> In(r2, x, y))
    <3>1. s.j <= Len(r2) /\ r2[s.j].y1 < ytop /\ s.ybot <= ytop /\ lim = Min2(r2[s.j].y2, ytop)
      BY <1>2, <1>5, <1>9 DEF c
    <3> QED BY <1>1, <1>5, <2>1, <3>1, AloneRight
  <2>3. ASSUME NEW x \in Int, NEW y \in Int, y < lim PROVE Right(x, y)
    <3>1. CASE y < s.ybot
      BY <1>3, <2>2, <2>3, <3>1
    <3>2. CASE s.ybot <= y
      <4>1. ~In(r1, x, y) /\ (In(new.boxes, x, y) <=> In(r2, x, y))
        BY <1>5, <1>6, <1>9, <2>2, <2>3, <3>2
      <4> QED BY <1>9, <4>1 DEF Selects, Keeps2
    <3> QED BY <1>7, <3>1, <3>2
  <2> QED BY <1>5, <2>2, <2>3 DEF new, lim, ytop, b, c
<1>10. CASE ~(b.y1 < c.y1 /\ Keeps1(op)) /\ ~(c.y1 < b.y1 /\ Keeps2(op))
  <2>1. new = s.out
    BY <1>4, <1>10
  <2>2. OutInv(new, lim)
    BY <1>1, <1>5, <2>1, OutBelow
  <2>3. ASSUME NEW x \in Int, NEW y \in Int, y < lim PROVE Right(x, y)
    <3>1. CASE y < s.ybot
      BY <1>3, <2>1, <2>3, <3>1
    <3>2. CASE s.ybot <= y
      <4>1. ~In(new.boxes, x, y)
        BY <1>6, <2>1, <3>2
      <4>2. CASE b.y1 < c.y1
        <5>1. ~In(r2, x, y) /\ op = "intersect"
          BY <1>5, <1>6, <1>10, <2>3, <3>2, <4>2 DEF Keeps1, Ops
        <5> QED BY <4>1, <5>1 DEF Selects
      <4>3. CASE c.y1 < b.y1
        <5>1. ~In(r1, x, y) /\ op # "union"
          BY <1>5, <1>6, <1>10, <2>3, <3>2, <4>3 DEF Keeps2
        <5> QED BY <4>1, <5>1 DEF Selects
      <4>4. CASE b.y1 = c.y1
        <5>1. ~In(r1, x, y) /\ ~In(r2, x, y)
          BY <1>5, <1>6, <2>3, <3>2, <4>4
        <5> QED BY <4>1, <5>1 DEF Selects
      <4> QED BY <1>2, <4>2, <4>3, <4>4
    <3> QED BY <1>7, <3>1, <3>2
  <2> QED BY <1>5, <2>2, <2>3 DEF new, lim, ytop, b, c
<1> QED BY <1>8, <1>9, <1>10

(* A turn keeps that, and passes a band of one region or of both.          *)
LEMMA SweepTurnKeeps ==
  ASSUME NEW op \in Ops, NEW r1, Sorted(r1), NEW r2, Sorted(r2),
         NEW s \in SweepStates, SweepInv(op, r1, r2, s), s.i <= Len(r1), s.j <= Len(r2)
  PROVE  LET t == SweepTurn(op, r1, r2, s)
         IN /\ t \in SweepStates /\ SweepInv(op, r1, r2, t)
            /\ t.i + t.j > s.i + s.j
<1> DEFINE b == r1[s.i]
           c == r2[s.j]
           ytop == Max2(b.y1, c.y1)
           bottom == Min2(b.y2, c.y2)
           lim == Min2(ytop, bottom)
           above == RowsAbove(op, r1, r2, s)
           clip1 == Clip(r1, s.i, ytop, bottom)
           clip2 == Clip(r2, s.j, ytop, bottom)
           band == OverlapBand(op, clip1, clip2)
           t == SweepTurn(op, r1, r2, s)
<1>1. /\ s.i \in 1..Len(r1) /\ s.j \in 1..Len(r2) /\ s.ybot \in Int
      /\ Len(r1) \in Nat /\ Len(r2) \in Nat /\ s.i \in Nat /\ s.j \in Nat
      /\ Cursor(r1, s.i, s.ybot) /\ Cursor(r2, s.j, s.ybot) /\ OutInv(s.out, s.ybot)
  BY DEF SweepInv, SweepStates, Cursor, Sorted
<1>2. /\ b.y1 \in Int /\ b.y2 \in Int /\ b.y1 < b.y2 /\ s.ybot < b.y2
      /\ c.y1 \in Int /\ c.y2 \in Int /\ c.y1 < c.y2 /\ s.ybot < c.y2
  <2>1. b.y1 \in Int /\ b.y2 \in Int /\ b.y1 < b.y2 /\ s.ybot < b.y2
    BY <1>1, BoxTypes DEF Cursor
  <2>2. c.y1 \in Int /\ c.y2 \in Int /\ c.y1 < c.y2 /\ s.ybot < c.y2
    BY <1>1, BoxTypes DEF Cursor
  <2> QED BY <2>1, <2>2
<1>3. /\ OutInv(above, lim) /\ s.ybot <= lim
      /\ \A x, y \in Int : y < lim =>
           (In(above.boxes, x, y) <=> Selects(op, In(r1, x, y), In(r2, x, y)))
  BY RowsAboveRight
<1>4. t = [i |-> IF b.y2 = bottom THEN BandEnd(r1, s.i) + 1 ELSE s.i,
           j |-> IF c.y2 = bottom THEN BandEnd(r2, s.j) + 1 ELSE s.j,
           ybot |-> bottom,
           out |-> IF bottom > ytop THEN Coalesce(above, band) ELSE above]
  BY <1>1 DEF SweepTurn, RowsAbove, Alone
<1> HIDE DEF t, above, lim, band, ytop, bottom, clip1, clip2, b, c
<1>5. /\ t.i = IF b.y2 = bottom THEN BandEnd(r1, s.i) + 1 ELSE s.i
      /\ t.j = IF c.y2 = bottom THEN BandEnd(r2, s.j) + 1 ELSE s.j
      /\ t.ybot = bottom
      /\ t.out = IF bottom > ytop THEN Coalesce(above, band) ELSE above
      /\ t = [i |-> t.i, j |-> t.j, ybot |-> t.ybot, out |-> t.out]
  BY <1>4
<1>6. /\ ytop \in Int /\ bottom \in Int /\ lim \in Int /\ lim <= bottom
      /\ bottom <= b.y2 /\ bottom <= c.y2 /\ (b.y2 = bottom \/ c.y2 = bottom)
      /\ bottom > ytop => lim = ytop
      /\ ~(bottom > ytop) => lim = bottom
      /\ b.y1 <= ytop /\ c.y1 <= ytop /\ s.ybot < bottom
  BY <1>1, <1>2, SMTT(60) DEF ytop, bottom, lim, Max2, Min2
(* The rows that both bands have.                                          *)
<1>7. /\ OutInv(t.out, bottom)
      /\ \A x, y \in Int : y < bottom =>
           (In(t.out.boxes, x, y) <=> Selects(op, In(r1, x, y), In(r2, x, y)))
  <2>1. CASE bottom > ytop
    <3>1. /\ IsBand(clip1, ytop, bottom) /\ Len(clip1) > 0
          /\ IsBand(clip2, ytop, bottom) /\ Len(clip2) > 0
      BY <1>1, <1>6, ClipIsBand DEF clip1, clip2
    <3>2. /\ IsBand(band, ytop, bottom)
          /\ \A x \in Int : Covers(band, x) <=> Selects(op, Covers(clip1, x), Covers(clip2, x))
      BY <1>6, <3>1, OverlapBandCorrect DEF band
    <3>3. t.out = Coalesce(above, band) /\ OutInv(above, ytop) /\ ytop < bottom /\ ytop <= ytop
      BY <1>3, <1>5, <1>6, <2>1
    <3>4. Added(above, band, ytop, bottom, t.out)
      BY <1>6, <3>2, <3>3, CoalesceRight
    <3>5. ASSUME NEW x \in Int, NEW y \in Int, y < bottom
          PROVE  In(t.out.boxes, x, y) <=> Selects(op, In(r1, x, y), In(r2, x, y))
      <4>1. In(t.out.boxes, x, y) <=>
              In(above.boxes, x, y) \/ (ytop <= y /\ y < bottom /\ Covers(band, x))
        BY <3>4 DEF Added
      <4>2. CASE y < ytop
        <5>1. ~(ytop <= y)
          BY <1>6, <4>2
        <5>2. In(above.boxes, x, y) <=> Selects(op, In(r1, x, y), In(r2, x, y))
          BY <1>3, <1>6, <2>1, <4>2
        <5> QED BY <4>1, <5>1, <5>2
      <4>3. CASE ytop <= y
        <5>1. ~In(above.boxes, x, y)
          BY <1>6, <3>3, <4>3, OutBelow
        <5>2. s.ybot <= y /\ b.y1 <= y /\ y < b.y2 /\ c.y1 <= y /\ y < c.y2
          BY <1>1, <1>2, <1>3, <1>6, <2>1, <3>5, <4>3, SMTT(60)
        <5>3. Covers(clip1, x) <=> In(r1, x, y)
          <6>1. s.i <= Len(r1) /\ r1[s.i].y1 <= y /\ y < r1[s.i].y2
            BY <5>2 DEF b
          <6> QED BY <1>1, <1>6, <5>2, <6>1, CursorRows DEF clip1
        <5>4. Covers(clip2, x) <=> In(r2, x, y)
          <6>1. s.j <= Len(r2) /\ r2[s.j].y1 <= y /\ y < r2[s.j].y2
            BY <5>2 DEF c
          <6> QED BY <1>1, <1>6, <5>2, <6>1, CursorRows DEF clip2
        <5>5. Covers(band, x) <=> Selects(op, In(r1, x, y), In(r2, x, y))
          BY <3>2, <5>3, <5>4 DEF Selects
        <5> QED BY <3>5, <4>1, <4>3, <5>1, <5>5
      <4> QED BY <1>6, <4>2, <4>3
    <3> QED BY <3>4, <3>5 DEF Added
  <2>2. CASE ~(bottom > ytop)
    BY <1>3, <1>5, <1>6, <2>2
  <2> QED BY <2>1, <2>2
(* Where the turn has come to in either region.                            *)
<1>8. /\ Cursor(r1, t.i, bottom) /\ t.i \in 1..Len(r1) + 1 /\ t.i >= s.i
      /\ b.y2 = bottom => t.i > s.i /\ (t.i <= Len(r1) => bottom <= r1[t.i].y1)
  <2>1. s.i <= Len(r1) /\ s.ybot <= bottom /\ bottom <= r1[s.i].y2
    BY <1>1, <1>6 DEF b
  <2> QED BY <1>1, <1>5, <1>6, <2>1, CursorMoves DEF b
<1>9. /\ Cursor(r2, t.j, bottom) /\ t.j \in 1..Len(r2) + 1 /\ t.j >= s.j
      /\ c.y2 = bottom => t.j > s.j /\ (t.j <= Len(r2) => bottom <= r2[t.j].y1)
  <2>1. s.j <= Len(r2) /\ s.ybot <= bottom /\ bottom <= r2[s.j].y2
    BY <1>1, <1>6 DEF c
  <2> QED BY <1>1, <1>5, <1>6, <2>1, CursorMoves DEF c
<1>10. ASSUME t.i <= Len(r1), t.j <= Len(r2) PROVE bottom <= Max2(r1[t.i].y1, r2[t.j].y1)
  <2>1. r1[t.i].y1 \in Int /\ r2[t.j].y1 \in Int
    <3>1. t.i \in 1..Len(r1) /\ t.j \in 1..Len(r2)
      BY <1>1, <1>8, <1>9, <1>10
    <3> QED BY <3>1, BoxTypes
  <2>2. bottom <= r1[t.i].y1 \/ bottom <= r2[t.j].y1
    BY <1>6, <1>8, <1>9, <1>10
  <2> QED BY <1>6, <2>1, <2>2 DEF Max2
<1>11. t \in SweepStates
  <2>1. t.i \in Nat /\ t.j \in Nat /\ t.ybot \in Int /\ t.out \in [boxes : Seq(IntBox), prev : Nat]
    BY <1>1, <1>5, <1>6, <1>7, <1>8, <1>9 DEF OutInv
  <2> QED BY <1>5, <2>1 DEF SweepStates
<1>12. t.i + t.j > s.i + s.j
  <2>1. t.i \in Nat /\ t.j \in Nat /\ t.i >= s.i /\ t.j >= s.j /\ (t.i > s.i \/ t.j > s.j)
    BY <1>1, <1>6, <1>8, <1>9
  <2> QED BY <1>1, <2>1
<1>13. SweepInv(op, r1, r2, t)
  BY <1>5, <1>7, <1>8, <1>9, <1>10 DEF SweepInv
<1> QED BY <1>11, <1>12, <1>13 DEF t

(* The loop ends when one of the regions has, with what op selects so far. *)
LEMMA SweepCorrect ==
  ASSUME NEW op \in Ops, NEW r1, Sorted(r1), NEW r2, Sorted(r2), Len(r1) > 0, Len(r2) > 0
  PROVE  LET end == Sweep(op, r1, r2)
         IN /\ end \in SweepStates /\ SweepInv(op, r1, r2, end)
            /\ end.i > Len(r1) \/ end.j > Len(r2)
<1> DEFINE start == [i |-> 1, j |-> 1, ybot |-> Min2(r1[1].y1, r2[1].y1),
                     out |-> [boxes |-> <<>>, prev |-> 0]]
           Turn(s) == SweepTurn(op, r1, r2, s)
           Steps(g) == [n \in Nat |-> IF n = 0 THEN start ELSE Turn(g[n - 1])]
           I == {s \in SweepStates : SweepInv(op, r1, r2, s)}
           D == {s \in SweepStates : s.i > Len(r1) \/ s.j > Len(r2)}
           m == [s \in I |-> (Len(r1) + 1 - s.i) + (Len(r2) + 1 - s.j)]
           turns == CHOOSE g : g = Steps(g)
           end == turns[Len(r1) + Len(r2)]
<1>1. Len(r1) \in Nat \ {0} /\ Len(r2) \in Nat \ {0} /\ 1 \in 1..Len(r1) /\ 1 \in 1..Len(r2)
  BY DEF Sorted
<1>2. start \in I /\ start.i + start.j = 2
  <2> DEFINE y0 == Min2(r1[1].y1, r2[1].y1)
             none == [boxes |-> <<>>, prev |-> 0]
  <2>1. r1[1].y1 \in Int /\ r1[1].y2 \in Int /\ r1[1].y1 < r1[1].y2
    BY <1>1, BoxTypes
  <2>2. r2[1].y1 \in Int /\ r2[1].y2 \in Int /\ r2[1].y1 < r2[1].y2
    BY <1>1, BoxTypes
  <2>3. /\ y0 \in Int /\ y0 <= Max2(r1[1].y1, r2[1].y1)
        /\ y0 <= r1[1].y1 /\ y0 <= r2[1].y1 /\ y0 < r1[1].y2 /\ y0 < r2[1].y2
    BY <2>1, <2>2 DEF Min2, Max2
  <2>4. /\ start.i = 1 /\ start.j = 1 /\ start.ybot = y0 /\ start.out = none
        /\ start \in SweepStates
    <3>1. none \in [boxes : Seq(IntBox), prev : Nat]
      OBVIOUS
    <3>2. start = [i |-> 1, j |-> 1, ybot |-> y0, out |-> none]
      OBVIOUS
    <3> HIDE DEF y0, none, start
    <3> QED BY <2>3, <3>1, <3>2 DEF SweepStates
  <2> HIDE DEF start, y0
  <2>5. OutInv(none, y0) /\ \A x, y : ~In(none.boxes, x, y)
    BY DEF OutInv, Sorted, Coalesced, In
  <2>6. Cursor(r1, 1, y0) /\ Cursor(r2, 1, y0)
    BY <1>1, <2>3 DEF Cursor
  <2>7. ASSUME NEW x \in Int, NEW y \in Int, y < y0 PROVE ~In(r1, x, y) /\ ~In(r2, x, y)
    <3>1. y < r1[1].y1 /\ y < r2[1].y1 /\ y < r1[1].y2 /\ y < r2[1].y2 /\ y <= y
      BY <2>1, <2>2, <2>3, <2>7, SMTT(60)
    <3>2. Cursor(r1, 1, y) /\ Cursor(r2, 1, y)
      BY <1>1, <3>1 DEF Cursor
    <3>3. 1 <= Len(r1) /\ 1 <= Len(r2)
      BY <1>1
    <3>4. ~In(r1, x, y)
      BY <3>1, <3>2, <3>3, CursorRows
    <3>5. ~In(r2, x, y)
      BY <3>1, <3>2, <3>3, CursorRows
    <3> QED BY <3>4, <3>5
  <2> HIDE DEF none
  <2>8. SweepInv(op, r1, r2, start)
    <3>1. \A x, y \in Int : y < y0 =>
            (In(none.boxes, x, y) <=> Selects(op, In(r1, x, y), In(r2, x, y)))
      BY <2>5, <2>7 DEF Selects
    <3> QED BY <2>3, <2>4, <2>5, <2>6, <3>1 DEF SweepInv
  <2> QED BY <2>4, <2>8
<1>3. ASSUME NEW s \in I
      PROVE  /\ Turn(s) \in I /\ m[s] \in Nat
             /\ s \notin D => m[Turn(s)] < m[s]
             /\ s \in D => Turn(s) = s
  <2>1. /\ s \in SweepStates /\ SweepInv(op, r1, r2, s)
        /\ s.i \in 1..Len(r1) + 1 /\ s.j \in 1..Len(r2) + 1
    BY DEF SweepInv, Cursor
  <2>2. CASE s \in D
    <3>1. Turn(s) = s
      BY <1>1, <2>2 DEF SweepTurn
    <3> QED BY <1>1, <2>1, <2>2, <3>1
  <2>3. CASE s \notin D
    <3>1. s.i <= Len(r1) /\ s.j <= Len(r2)
      BY <1>1, <2>1, <2>3
    <3>2. /\ Turn(s) \in SweepStates /\ SweepInv(op, r1, r2, Turn(s))
          /\ Turn(s).i + Turn(s).j > s.i + s.j
      BY <2>1, <3>1, SweepTurnKeeps
    <3>3. Turn(s).i \in 1..Len(r1) + 1 /\ Turn(s).j \in 1..Len(r2) + 1
      BY <3>2 DEF SweepInv, Cursor
    <3>4. Turn(s) \in I
      BY <3>2
    <3> DEFINE t == Turn(s)
    <3> HIDE DEF Turn, I
    <3>5. /\ m[s] = (Len(r1) + 1 - s.i) + (Len(r2) + 1 - s.j)
          /\ m[t] = (Len(r1) + 1 - t.i) + (Len(r2) + 1 - t.j)
      BY <3>4
    <3> HIDE DEF m, t
    <3>6. /\ s.i \in 1..Len(r1) + 1 /\ s.j \in 1..Len(r2) + 1
          /\ t.i \in 1..Len(r1) + 1 /\ t.j \in 1..Len(r2) + 1 /\ t.i + t.j > s.i + s.j
          /\ Len(r1) \in Nat /\ Len(r2) \in Nat
      BY <1>1, <2>1, <3>2, <3>3 DEF t
    <3>7. m[s] \in Nat /\ m[t] < m[s]
      BY <3>5, <3>6, Nearer, ZenonT(60)
    <3> QED BY <2>3, <3>4, <3>7 DEF t
  <2> QED BY <2>2, <2>3
<1> HIDE DEF I, D, m, Turn, start
<1>4. m \in [I -> Nat]
  BY <1>3 DEF m
<1>5. \E g : g = Steps(g)
  <2> DEFINE turn == [s \in I |-> Turn(s)]
  <2>1. turn \in [I -> I]
    BY <1>3
  <2>2. \A s \in I : turn[s] = Turn(s)
    OBVIOUS
  <2> HIDE DEF turn
  <2>3. start \in I
    BY <1>2
  <2>4. PICK g \in [Nat -> I] : IsRun(g, start, turn)
    BY <2>1, <2>3, Repeats
  <2>5. \A n \in Nat : n # 0 => turn[g[n - 1]] = Turn(g[n - 1])
    BY <2>2, <2>4
  <2>6. g = Steps(g)
    BY <2>4, <2>5 DEF IsRun
  <2> HIDE DEF Steps
  <2> QED BY <2>6
<1>6. Sweep(op, r1, r2) = end
  BY DEF Sweep, start, Turn
<1>7. turns = Steps(turns)
  <2> HIDE DEF Steps
  <2> QED BY <1>5
<1> HIDE DEF turns
<1>8. turns[0] = start /\ \A n \in Nat : turns[n + 1] = Turn(turns[n])
  <2>1. \A n \in Nat : turns[n] = IF n = 0 THEN start ELSE Turn(turns[n - 1])
    BY <1>7
  <2> QED BY <2>1
<1>9. end \in I /\ end \in D
  <2>1. m[start] <= Len(r1) + Len(r2)
    <3>1. m[start] = (Len(r1) + 1 - start.i) + (Len(r2) + 1 - start.j)
      BY <1>2 DEF m
    <3>2. start.i \in Nat /\ start.j \in Nat
      BY <1>2 DEF I, SweepStates
    <3> QED BY <1>1, <1>2, <3>1, <3>2, SMTT(60)
  <2>2. \A n \in Nat : turns[n] \in I => /\ turns[n + 1] \in I
                                         /\ turns[n] \notin D => m[turns[n + 1]] < m[turns[n]]
                                         /\ turns[n] \in D => turns[n + 1] = turns[n]
    BY <1>3, <1>8
  <2>3. Len(r1) + Len(r2) \in Nat /\ m[turns[0]] <= Len(r1) + Len(r2) /\ turns[0] \in I
    BY <1>1, <1>2, <1>8, <2>1
  <2> QED BY <1>4, <2>2, <2>3, LoopEnds
<1>10. end \in SweepStates /\ SweepInv(op, r1, r2, end) /\ (end.i > Len(r1) \/ end.j > Len(r2))
  BY <1>9 DEF I, D
<1> QED BY <1>6, <1>10

-----------------------------------------------------------------------------
(*                 The rest of the region that is left                     *)

(* The columns of the boxes that begin at a line.                          *)
LEMMA BandAtSorted ==
  ASSUME NEW r, Sorted(r), NEW z, NEW c
  PROVE  c \in BandAt(r, z) <=> \E k \in 1..Len(r) : r[k].y1 = z /\ c = <<r[k].x1, r[k].x2>>
<1>1. r \in Seq(IntBox)
  BY DEF Sorted
<1>2. \A k \in 1..Len(r) : r[k].x1 \in Int /\ r[k].x2 \in Int
  BY BoxTypes
<1>3. BandAt(r, z) = {d \in Int \X Int : \E k \in 1..Len(r) : r[k].y1 = z /\ d = <<r[k].x1, r[k].x2>>}
  BY <1>1, BandAtIs
<1>4. \A k \in 1..Len(r) : <<r[k].x1, r[k].x2>> \in Int \X Int
  BY <1>2
<1> QED BY <1>3, <1>4

(* The bands of the region that is left follow as they are, the first of   *)
(* them joined to what is there if it can be: only that one may meet a     *)
(* band like it.                                                           *)
LEMMA LeftoverRight ==
  ASSUME NEW r, Sorted(r), Coalesced(r), NEW s \in SweepStates, OutInv(s.out, s.ybot),
         NEW i, Cursor(r, i, s.ybot), i <= Len(r)
  PROVE  /\ Sorted(Leftover(r, i, s)) /\ Coalesced(Leftover(r, i, s))
         /\ \A x, y \in Int :
              /\ y < s.ybot => (In(Leftover(r, i, s), x, y) <=> In(s.out.boxes, x, y))
              /\ s.ybot <= y => (In(Leftover(r, i, s), x, y) <=> In(r, x, y))
<1> DEFINE ybot == s.ybot
           e == BandEnd(r, i)
           top == Max2(r[i].y1, ybot)
           B == r[i].y2
           band == Clip(r, i, top, B)
           new == Coalesce(s.out, band)
           u == new.boxes
           n == Len(u)
           p == new.prev
           rest == SubSeq(r, e + 1, Len(r))
           q == u \o rest
<1>1. Len(r) \in Nat /\ i \in 1..Len(r) /\ ybot \in Int /\ r \in Seq(IntBox)
  BY DEF Sorted, Cursor, SweepStates
<1>2. /\ e \in i..Len(r)
      /\ \A l \in i..e : r[l].y1 = r[i].y1 /\ r[l].y2 = B
      /\ \A l \in e + 1..Len(r) : B <= r[l].y1
  BY <1>1, BandEndIs
<1>3. /\ r[i].y1 \in Int /\ B \in Int /\ r[i].y1 < B /\ ybot < B
  BY <1>1, BoxTypes DEF Cursor
<1>4. top \in Int /\ ybot <= top /\ top < B /\ \A y \in Int : ybot <= y => (top <= y <=> r[i].y1 <= y)
  <2> HIDE DEF B
  <2> QED BY <1>1, <1>3 DEF Max2
<1>5. /\ IsBand(band, top, B) /\ Len(band) = e - i + 1 /\ Len(band) > 0
      /\ \A k \in 1..Len(band) : /\ i + k - 1 \in i..e /\ band[k].x1 = r[i + k - 1].x1
                                 /\ band[k].x2 = r[i + k - 1].x2
  <2>1. top \in Int /\ B \in Int /\ i \in 1..Len(r)
    BY <1>1, <1>3, <1>4
  <2> HIDE DEF top, B, e, band
  <2>2. /\ IsBand(Clip(r, i, top, B), top, B) /\ Len(Clip(r, i, top, B)) = BandEnd(r, i) - i + 1
        /\ Len(Clip(r, i, top, B)) > 0
        /\ \A k \in 1..Len(Clip(r, i, top, B)) :
             /\ i + k - 1 \in i..BandEnd(r, i)
             /\ Clip(r, i, top, B)[k].x1 = r[i + k - 1].x1
             /\ Clip(r, i, top, B)[k].x2 = r[i + k - 1].x2
    BY <2>1, ClipIsBand
  <2> QED BY <2>2 DEF band, e
<1> HIDE DEF top, band, e
<1>6. Added(s.out, band, top, B, new)
  <2> HIDE DEF B
  <2>1. OutInv(s.out, ybot)
    OBVIOUS
  <2> HIDE DEF ybot
  <2> QED BY <1>1, <1>3, <1>4, <1>5, <2>1, CoalesceRight
<1> HIDE DEF new
<1>7. /\ OutInv(new, B) /\ n - p = e - i + 1 /\ u[p + 1].y2 = B
      /\ \A k \in 1..Len(band) : SameColumns(u[p + k], band[k])
      /\ \A x, y \in Int : In(u, x, y) <=> In(s.out.boxes, x, y) \/ (top <= y /\ y < B /\ Covers(band, x))
  BY <1>5, <1>6 DEF Added
<1>8. /\ u \in Seq(IntBox) /\ Sorted(u) /\ Coalesced(u) /\ n \in Nat /\ p \in Nat
      /\ p < n /\ p + 1 \in 1..n
  <2>1. u \in Seq(IntBox) /\ Sorted(u) /\ Coalesced(u) /\ n \in Nat /\ p \in Nat
    BY <1>7 DEF OutInv
  <2>2. p < n
    <3> HIDE DEF n, p, u
    <3> QED BY <1>1, <1>2, <1>7, <2>1
  <2> QED BY <2>1, <2>2
<1>9. Leftover(r, i, s) = q
  BY DEF Leftover, new, band, top, e
<1>10. rest \in Seq(IntBox) /\ Len(rest) = Len(r) - e /\ \A k \in 1..Len(r) - e : rest[k] = r[e + k]
  <2>1. e + 1 \in 1..Len(r) + 1 /\ e \in Nat
    BY <1>1, <1>2
  <2> QED BY <1>1, <1>2, <2>1, SMTT(60)
<1> HIDE DEF rest, u, p
<1>11. /\ q \in Seq(IntBox) /\ Len(q) = n + (Len(r) - e)
       /\ \A k \in 1..n : k \in 1..Len(q) /\ q[k] = u[k]
       /\ \A k \in e + 1..Len(r) : n + (k - e) \in 1..Len(q) /\ q[n + (k - e)] = r[k]
  <2>1. q \in Seq(IntBox) /\ Len(q) = n + Len(rest)
    BY <1>8, <1>10, SMTT(60)
  <2>2. \A k \in 1..n : k \in 1..Len(q) /\ q[k] = u[k]
    BY <1>8, <1>10
  <2>3. \A k \in 1..Len(rest) : n + k \in 1..Len(q) /\ q[n + k] = rest[k]
    BY <1>8, <1>10
  <2> HIDE DEF n, q
  <2>4. \A k \in e + 1..Len(r) : k - e \in 1..Len(r) - e /\ e + (k - e) = k
    BY <1>1, <1>2
  <2> QED BY <1>10, <2>1, <2>2, <2>3, <2>4
<1> HIDE DEF q
<1>12. ASSUME NEW k \in 1..Len(q), k \notin 1..n
       PROVE  (k - n) + e \in e + 1..Len(r) /\ q[k] = r[(k - n) + e]
  <2>1. (k - n) + e \in e + 1..Len(r) /\ n + (((k - n) + e) - e) = k
    BY <1>1, <1>2, <1>8, <1>11, <1>12
  <2> QED BY <1>11, <2>1
<1> HIDE DEF n
<1>13. ASSUME NEW k \in 1..n
       PROVE  /\ q[k].x1 < q[k].x2 /\ q[k].y1 < q[k].y2 /\ q[k].y1 < B /\ q[k].y2 <= B
              /\ q[k].y1 \in Int /\ q[k].y2 \in Int /\ q[k] = u[k]
  <2>1. /\ u[k].x1 < u[k].x2 /\ u[k].y1 < u[k].y2 /\ u[k].y1 \in Int /\ u[k].y2 \in Int
    BY <1>8, BoxTypes DEF n
  <2>2. u[k].y2 <= B
    BY <1>7 DEF OutInv, n, u
  <2> HIDE DEF B
  <2> QED BY <1>3, <1>11, <2>1, <2>2
<1>14. ASSUME NEW k \in 1..Len(r)
       PROVE  /\ r[k].x1 < r[k].x2 /\ r[k].y1 < r[k].y2 /\ r[k].y1 \in Int /\ r[k].y2 \in Int
              /\ k \in e + 1..Len(r) => B <= r[k].y1
              /\ k \notin e + 1..Len(r) => r[k].y1 < B /\ r[k].y2 <= B
              /\ k \in i..e <=> r[k].y1 = r[i].y1
  <2>1. r[k].x1 < r[k].x2 /\ r[k].y1 < r[k].y2 /\ r[k].y1 \in Int /\ r[k].y2 \in Int
    BY BoxTypes
  <2>2. k \in 1..i - 1 \/ k \in i..e \/ k \in e + 1..Len(r)
    BY <1>1, <1>2
  <2>3. CASE k \in 1..i - 1
    <3>1. r[k].y2 <= ybot /\ r[k].y2 <= r[i].y1 /\ k \notin i..e /\ k \notin e + 1..Len(r)
      BY <1>1, <1>2, <2>3 DEF Cursor
    <3> HIDE DEF B, ybot
    <3> QED BY <1>1, <1>3, <2>1, <3>1
  <2>4. CASE k \in i..e
    <3>1. r[k].y1 = r[i].y1 /\ r[k].y2 = B /\ k \notin e + 1..Len(r)
      BY <1>1, <1>2, <2>4
    <3> HIDE DEF B
    <3> QED BY <1>3, <2>1, <2>4, <3>1
  <2>5. CASE k \in e + 1..Len(r)
    <3>1. B <= r[k].y1 /\ k \notin i..e
      BY <1>1, <1>2, <2>5
    <3> HIDE DEF B
    <3> QED BY <1>3, <2>1, <2>5, <3>1
  <2> QED BY <2>2, <2>3, <2>4, <2>5
<1>15. e + 1..Len(r) \subseteq 1..Len(r)
  BY <1>1, <1>2
<1> HIDE DEF B, ybot
<1>16. ASSUME NEW k \in 1..Len(q), NEW l \in 1..Len(q), k < l PROVE Before(q[k], q[l])
  <2>1. CASE k \in 1..n /\ l \in 1..n
    <3>1. Before(u[k], u[l])
      BY <1>8, <1>16, <2>1 DEF Sorted, n
    <3> QED BY <1>13, <2>1, <3>1
  <2>2. CASE k \in 1..n /\ l \notin 1..n
    <3>1. q[k].y2 \in Int /\ q[k].y2 <= B
      BY <1>13, <2>2
    <3>2. q[l].y1 \in Int /\ B <= q[l].y1
      <4>1. (l - n) + e \in e + 1..Len(r) /\ q[l] = r[(l - n) + e]
        BY <1>12, <2>2
      <4> QED BY <1>14, <1>15, <4>1
    <3> QED BY <1>3, <3>1, <3>2 DEF Before
  <2>3. CASE k \notin 1..n
    <3>1. l \notin 1..n
      BY <1>8, <1>16, <2>3
    <3> DEFINE k2 == (k - n) + e
               l2 == (l - n) + e
    <3>2. k2 \in e + 1..Len(r) /\ q[k] = r[k2] /\ l2 \in e + 1..Len(r) /\ q[l] = r[l2]
      BY <1>12, <2>3, <3>1
    <3>3. k2 < l2
      BY <1>1, <1>2, <1>8, <1>16
    <3> HIDE DEF k2, l2
    <3>4. Before(r[k2], r[l2])
      BY <1>15, <3>2, <3>3 DEF Sorted
    <3> QED BY <3>2, <3>4
  <2> QED BY <2>1, <2>2, <2>3
<1>17. ASSUME NEW k \in 1..Len(q) PROVE q[k].x1 < q[k].x2 /\ q[k].y1 < q[k].y2
  <2>1. CASE k \in 1..n
    BY <1>13, <2>1
  <2>2. CASE k \notin 1..n
    <3>1. (k - n) + e \in e + 1..Len(r) /\ q[k] = r[(k - n) + e]
      BY <1>12, <2>2
    <3> QED BY <1>14, <1>15, <3>1
  <2> QED BY <2>1, <2>2
<1>18. Sorted(q)
  BY <1>11, <1>16, <1>17 DEF Sorted
<1>19. ASSUME NEW z \in Int, z < B, NEW c PROVE c \in BandAt(q, z) <=> c \in BandAt(u, z)
  <2>1. c \in BandAt(q, z) <=> \E k \in 1..Len(q) : q[k].y1 = z /\ c = <<q[k].x1, q[k].x2>>
    BY <1>18, BandAtSorted
  <2>2. c \in BandAt(u, z) <=> \E k \in 1..n : u[k].y1 = z /\ c = <<u[k].x1, u[k].x2>>
    BY <1>8, BandAtSorted DEF n
  <2>3. ASSUME NEW k \in 1..Len(q), k \notin 1..n PROVE q[k].y1 # z
    <3>1. (k - n) + e \in e + 1..Len(r) /\ q[k] = r[(k - n) + e]
      BY <1>12, <2>3
    <3>2. q[k].y1 \in Int /\ B <= q[k].y1
      BY <1>14, <1>15, <3>1
    <3> QED BY <1>3, <1>19, <3>2
  <2> QED BY <1>11, <2>1, <2>2, <2>3
<1>20. ASSUME NEW z \in Int, B <= z, NEW c PROVE c \in BandAt(q, z) <=> c \in BandAt(r, z)
  <2>1. c \in BandAt(q, z) <=> \E k \in 1..Len(q) : q[k].y1 = z /\ c = <<q[k].x1, q[k].x2>>
    BY <1>18, BandAtSorted
  <2>2. c \in BandAt(r, z) <=> \E k \in 1..Len(r) : r[k].y1 = z /\ c = <<r[k].x1, r[k].x2>>
    BY BandAtSorted
  <2>3. ASSUME NEW k \in 1..Len(q), q[k].y1 = z PROVE \E l \in 1..Len(r) : q[k] = r[l]
    <3>1. k \notin 1..n
      BY <1>3, <1>13, <1>20, <2>3
    <3> QED BY <1>12, <1>15, <3>1
  <2>4. ASSUME NEW l \in 1..Len(r), r[l].y1 = z PROVE \E k \in 1..Len(q) : q[k] = r[l]
    <3>1. l \in e + 1..Len(r)
      BY <1>3, <1>14, <1>20, <2>4
    <3> QED BY <1>11, <3>1
  <2> QED BY <2>1, <2>2, <2>3, <2>4
<1>21. \A z \in Int : /\ z < B => BandAt(q, z) = BandAt(u, z)
                      /\ B <= z => BandAt(q, z) = BandAt(r, z)
  BY <1>19, <1>20
(* The band at the end of u has r's columns at i.                          *)
<1>22. ASSUME NEW k \in 1..n, u[k].y2 = B PROVE BandAt(u, u[k].y1) = BandAt(r, r[i].y1)
  <2> DEFINE Y == u[p + 1].y1
  <2>1. /\ \A l \in 1..p : u[l].y2 < B /\ u[l].y2 <= Y
        /\ \A l \in p + 1..n : u[l].y1 = Y
    BY <1>7, <1>8 DEF OutInv, n, p, u
  <2>2. \A l \in 1..n : l \in 1..p \/ l \in p + 1..n
    BY <1>8
  <2>3. Y \in Int /\ \A l \in 1..n : u[l].y1 \in Int /\ u[l].y2 \in Int /\ u[l].y1 < u[l].y2
    BY <1>8, <1>11, <1>13
  <2> HIDE DEF Y
  <2>4. k \in p + 1..n /\ u[k].y1 = Y
    <3>1. k \notin 1..p
      BY <1>3, <1>22, <2>1, <2>3
    <3> QED BY <2>1, <2>2, <3>1
  <2>5. \A c : c \in BandAt(u, Y) <=> \E l \in 1..n : u[l].y1 = Y /\ c = <<u[l].x1, u[l].x2>>
    BY <1>8, BandAtSorted DEF n
  <2>6. \A c : c \in BandAt(r, r[i].y1) <=>
                 \E l \in 1..Len(r) : r[l].y1 = r[i].y1 /\ c = <<r[l].x1, r[l].x2>>
    BY BandAtSorted
  <2>7. ASSUME NEW m \in 1..Len(band)
        PROVE  /\ u[p + m].x1 = r[i + m - 1].x1 /\ u[p + m].x2 = r[i + m - 1].x2
               /\ p + m \in 1..n /\ u[p + m].y1 = Y
               /\ i + m - 1 \in 1..Len(r) /\ r[i + m - 1].y1 = r[i].y1
    <3>1. SameColumns(u[p + m], band[m])
      BY <1>7
    <3>2. i + m - 1 \in i..e /\ band[m].x1 = r[i + m - 1].x1 /\ band[m].x2 = r[i + m - 1].x2
      BY <1>5
    <3>3. i + m - 1 \in 1..Len(r) /\ r[i + m - 1].y1 = r[i].y1
      BY <1>1, <1>2, <3>2
    <3>4. p + m \in p + 1..n /\ p + m \in 1..n
      BY <1>1, <1>2, <1>5, <1>7, <1>8
    <3> QED BY <2>1, <3>1, <3>2, <3>3, <3>4 DEF SameColumns
  <2>8. ASSUME NEW l \in 1..n, u[l].y1 = Y PROVE \E m \in 1..Len(band) : l = p + m
    <3>1. l \notin 1..p
      BY <2>1, <2>3, <2>8
    <3>2. l - p \in 1..Len(band) /\ l = p + (l - p)
      BY <1>1, <1>2, <1>5, <1>7, <1>8, <3>1
    <3> QED BY <3>2
  <2>9. ASSUME NEW l \in 1..Len(r), r[l].y1 = r[i].y1 PROVE \E m \in 1..Len(band) : l = i + m - 1
    <3>1. l \in i..e
      BY <1>14, <2>9
    <3>2. l - i + 1 \in 1..Len(band) /\ l = i + (l - i + 1) - 1
      BY <1>1, <1>2, <1>5, <3>1
    <3> QED BY <3>2
  <2>10. ASSUME NEW c PROVE c \in BandAt(u, Y) <=> c \in BandAt(r, r[i].y1)
    <3>1. ASSUME c \in BandAt(u, Y) PROVE c \in BandAt(r, r[i].y1)
      <4>1. PICK l \in 1..n : u[l].y1 = Y /\ c = <<u[l].x1, u[l].x2>>
        BY <2>5, <3>1
      <4>2. PICK m \in 1..Len(band) : l = p + m
        BY <2>8, <4>1
      <4> QED BY <2>6, <2>7, <4>1, <4>2
    <3>2. ASSUME c \in BandAt(r, r[i].y1) PROVE c \in BandAt(u, Y)
      <4>1. PICK l \in 1..Len(r) : r[l].y1 = r[i].y1 /\ c = <<r[l].x1, r[l].x2>>
        BY <2>6, <3>2
      <4>2. PICK m \in 1..Len(band) : l = i + m - 1
        BY <2>9, <4>1
      <4> QED BY <2>5, <2>7, <4>1, <4>2
    <3> QED BY <3>1, <3>2
  <2> QED BY <2>4, <2>10
<1>23. Coalesced(q)
  <2>1. DOMAIN q = 1..Len(q) /\ DOMAIN r = 1..Len(r) /\ DOMAIN u = 1..n
    BY <1>1, <1>8, <1>11 DEF n
  <2> SUFFICES ASSUME NEW k \in 1..Len(q), NEW j \in 1..Len(q), q[j].y1 = q[k].y2
               PROVE  BandAt(q, q[k].y2) # BandAt(q, q[k].y1)
    BY <2>1 DEF Coalesced
  <2>2. ASSUME NEW l \in 1..Len(q), l \notin 1..n
        PROVE  \E l2 \in 1..Len(r) : q[l] = r[l2] /\ B <= r[l2].y1 /\ r[l2].y1 \in Int
                                     /\ r[l2].y2 \in Int /\ r[l2].y1 < r[l2].y2
    <3>1. (l - n) + e \in e + 1..Len(r) /\ q[l] = r[(l - n) + e]
      BY <1>12, <2>2
    <3> QED BY <1>14, <1>15, <3>1
  <2>3. CASE k \in 1..n /\ j \in 1..n
    <3>1. /\ q[k] = u[k] /\ q[j] = u[j] /\ u[j].y1 = u[k].y2 /\ u[k].y1 \in Int /\ u[k].y1 < B
          /\ u[k].y2 \in Int /\ u[k].y2 < B
      BY <1>13, <2>3
    <3>2. BandAt(u, u[k].y2) # BandAt(u, u[k].y1)
      BY <1>8, <2>1, <2>3, <3>1 DEF Coalesced
    <3> QED BY <1>21, <3>1, <3>2
  <2>4. CASE k \notin 1..n
    <3>1. PICK k2 \in 1..Len(r) : q[k] = r[k2] /\ B <= r[k2].y1 /\ r[k2].y1 \in Int
                                  /\ r[k2].y2 \in Int /\ r[k2].y1 < r[k2].y2
      BY <2>2, <2>4
    <3>2. j \notin 1..n
      BY <1>3, <1>13, <3>1, SMTT(60)
    <3>3. PICK j2 \in 1..Len(r) : q[j] = r[j2]
      BY <2>2, <3>2
    <3>4. BandAt(r, r[k2].y2) # BandAt(r, r[k2].y1)
      BY <2>1, <3>1, <3>3 DEF Coalesced
    <3>5. B <= r[k2].y2
      BY <1>3, <3>1
    <3> QED BY <1>21, <3>1, <3>4, <3>5
  <2>5. CASE k \in 1..n /\ j \notin 1..n
    <3>1. PICK j2 \in 1..Len(r) : q[j] = r[j2] /\ B <= r[j2].y1 /\ r[j2].y1 \in Int
      BY <2>2, <2>5
    <3>2. q[k].y2 = B /\ u[k].y2 = B /\ r[j2].y1 = B /\ q[k].y1 = u[k].y1 /\ u[k].y1 \in Int /\ u[k].y1 < B
      <4>1. q[k] = u[k] /\ q[k].y2 \in Int /\ q[k].y2 <= B /\ q[k].y1 < B /\ q[k].y1 \in Int
        BY <1>13, <2>5
      <4> QED BY <1>3, <3>1, <4>1
    <3>3. BandAt(r, B) # BandAt(r, r[i].y1)
      BY <1>1, <2>1, <3>2 DEF Coalesced, B
    <3>4. BandAt(q, B) = BandAt(r, B) /\ BandAt(q, u[k].y1) = BandAt(u, u[k].y1)
      <4>1. B <= B
        BY <1>3
      <4> QED BY <1>3, <1>21, <3>2, <4>1
    <3>5. BandAt(u, u[k].y1) = BandAt(r, r[i].y1)
      BY <1>22, <2>5, <3>2
    <3> QED BY <3>2, <3>3, <3>4, <3>5
  <2> QED BY <2>3, <2>4, <2>5
<1>24. ASSUME NEW x \in Int, NEW y \in Int
       PROVE  In(q, x, y) <=> In(u, x, y) \/ \E k \in e + 1..Len(r) :
                r[k].x1 <= x /\ x < r[k].x2 /\ r[k].y1 <= y /\ y < r[k].y2
  <2>1. ASSUME In(q, x, y)
        PROVE  In(u, x, y) \/ \E k \in e + 1..Len(r) :
                 r[k].x1 <= x /\ x < r[k].x2 /\ r[k].y1 <= y /\ y < r[k].y2
    <3>1. PICK k \in 1..Len(q) : q[k].x1 <= x /\ x < q[k].x2 /\ q[k].y1 <= y /\ y < q[k].y2
      BY <2>1 DEF In
    <3>2. CASE k \in 1..n
      BY <1>11, <3>1, <3>2 DEF In, n
    <3>3. CASE k \notin 1..n
      BY <1>12, <3>1, <3>3
    <3> QED BY <3>2, <3>3
  <2>2. ASSUME In(u, x, y) PROVE In(q, x, y)
    BY <1>11, <2>2 DEF In, n
  <2>3. ASSUME NEW k \in e + 1..Len(r), r[k].x1 <= x, x < r[k].x2, r[k].y1 <= y, y < r[k].y2
        PROVE  In(q, x, y)
    BY <1>11, <2>3 DEF In
  <2> QED BY <2>1, <2>2, <2>3
<1>25. ASSUME NEW x \in Int, NEW y \in Int
       PROVE  /\ y < ybot => (In(q, x, y) <=> In(s.out.boxes, x, y))
              /\ ybot <= y => (In(q, x, y) <=> In(r, x, y))
  <2> DEFINE Rest == \E k \in e + 1..Len(r) :
                       r[k].x1 <= x /\ x < r[k].x2 /\ r[k].y1 <= y /\ y < r[k].y2
  <2>1. In(q, x, y) <=> In(u, x, y) \/ Rest
    BY <1>24
  <2>2. In(u, x, y) <=> In(s.out.boxes, x, y) \/ (top <= y /\ y < B /\ Covers(band, x))
    BY <1>7
  <2>3. y < B => ~Rest
    <3> SUFFICES ASSUME y < B, NEW k \in e + 1..Len(r), r[k].y1 <= y PROVE FALSE
      OBVIOUS
    <3>1. B <= r[k].y1 /\ r[k].y1 \in Int
      BY <1>14, <1>15
    <3> QED BY <1>3, <3>1
  <2>4. B <= y => (In(r, x, y) <=> Rest)
    <3> SUFFICES ASSUME B <= y, NEW k \in 1..Len(r), y < r[k].y2 PROVE k \in e + 1..Len(r)
      BY <1>15 DEF In
    <3>1. k \notin e + 1..Len(r) => r[k].y2 <= B /\ r[k].y2 \in Int
      BY <1>14
    <3> QED BY <1>3, <3>1
  <2>5. ybot <= y => ~In(s.out.boxes, x, y)
    BY <1>1, OutBelow DEF ybot
  <2>6. ybot <= y /\ y < r[i].y1 => ~In(r, x, y)
    BY <1>1, CursorRows DEF ybot
  <2>7. ybot <= y /\ r[i].y1 <= y /\ y < B => (Covers(band, x) <=> In(r, x, y))
    <3>1. ybot <= y /\ r[i].y1 <= y /\ y < r[i].y2 =>
            \A t, v \in Int : Covers(Clip(r, i, t, v), x) <=> In(r, x, y)
      BY <1>1, CursorRows DEF ybot
    <3> QED BY <1>3, <1>4, <3>1 DEF band, B
  <2>8. B <= y => ~In(u, x, y)
    BY <1>3, <1>7, OutBelow DEF u
  <2> HIDE DEF Rest
  <2>9. CASE y < ybot
    <3>1. y < B /\ ~(top <= y) /\ ~(ybot <= y)
      BY <1>1, <1>3, <1>4, <2>9
    <3> QED BY <2>1, <2>2, <2>3, <3>1
  <2>10. CASE ybot <= y /\ y < B
    <3>1. ~(y < ybot) /\ (top <= y <=> r[i].y1 <= y) /\ (y < r[i].y1 <=> ~(r[i].y1 <= y))
      BY <1>1, <1>3, <1>4, <2>10
    <3> QED BY <2>1, <2>2, <2>3, <2>5, <2>6, <2>7, <2>10, <3>1
  <2>11. CASE B <= y
    <3>1. ~(y < ybot)
      BY <1>1, <1>3, <2>11
    <3> QED BY <2>1, <2>4, <2>8, <2>11, <3>1
  <2>12. y < ybot \/ (ybot <= y /\ y < B) \/ B <= y
    BY <1>1, <1>3
  <2> QED BY <2>9, <2>10, <2>11, <2>12
<1> QED BY <1>9, <1>18, <1>23, <1>25 DEF ybot

-----------------------------------------------------------------------------
(*                            miRegionOp                                   *)

Canonical(r) == Sorted(r) /\ Coalesced(r)

(* miRegionOp makes a canonical sequence of boxes with the pixels op       *)
(* selects.                                                                *)
LEMMA RegionOpCorrect ==
  ASSUME NEW op \in Ops, NEW reg1, Canonical(reg1.boxes), Len(reg1.boxes) > 0,
         NEW reg2, Canonical(reg2.boxes), Len(reg2.boxes) > 0
  PROVE  /\ Canonical(RegionOp(op, reg1, reg2))
         /\ \A x, y \in Int : In(RegionOp(op, reg1, reg2), x, y)
                                <=> Selects(op, In(reg1.boxes, x, y), In(reg2.boxes, x, y))
<1> DEFINE r1 == reg1.boxes
           r2 == reg2.boxes
           s == Sweep(op, r1, r2)
           r == RegionOp(op, reg1, reg2)
<1>1. /\ Sorted(r1) /\ Coalesced(r1) /\ Len(r1) > 0 /\ Len(r1) \in Nat
      /\ Sorted(r2) /\ Coalesced(r2) /\ Len(r2) > 0 /\ Len(r2) \in Nat
  BY DEF Canonical, Sorted
<1>2. r = CASE s.i <= Len(r1) /\ Keeps1(op) -> Leftover(r1, s.i, s)
            [] s.j <= Len(r2) /\ Keeps2(op) -> Leftover(r2, s.j, s)
            [] OTHER -> s.out.boxes
  BY DEF RegionOp
<1> HIDE DEF r1, r2, r
<1>3. s \in SweepStates /\ SweepInv(op, r1, r2, s) /\ (s.i > Len(r1) \/ s.j > Len(r2))
  BY <1>1, SweepCorrect
<1> HIDE DEF s
<1>4. /\ OutInv(s.out, s.ybot) /\ Cursor(r1, s.i, s.ybot) /\ Cursor(r2, s.j, s.ybot)
      /\ s.ybot \in Int /\ s.i \in Nat /\ s.j \in Nat
      /\ \A x, y \in Int : y < s.ybot =>
           (In(s.out.boxes, x, y) <=> Selects(op, In(r1, x, y), In(r2, x, y)))
  BY <1>3 DEF SweepInv, SweepStates
<1>5. ASSUME NEW x \in Int, NEW y \in Int, s.ybot <= y
      PROVE  /\ ~In(s.out.boxes, x, y) /\ ~(y < s.ybot)
             /\ s.i > Len(r1) => ~In(r1, x, y)
             /\ s.j > Len(r2) => ~In(r2, x, y)
  <2>1. ~In(s.out.boxes, x, y)
    BY <1>4, <1>5, OutBelow
  <2>2. s.i > Len(r1) => ~In(r1, x, y)
    BY <1>1, <1>4, <1>5, CursorRows
  <2>3. s.j > Len(r2) => ~In(r2, x, y)
    BY <1>1, <1>4, <1>5, CursorRows
  <2>4. ~(y < s.ybot)
    BY <1>4, <1>5
  <2> QED BY <2>1, <2>2, <2>3, <2>4
<1>6. \A y \in Int : y < s.ybot \/ s.ybot <= y
  BY <1>4
<1>7. (s.i > Len(r1) <=> ~(s.i <= Len(r1))) /\ (s.j > Len(r2) <=> ~(s.j <= Len(r2)))
  BY <1>1, <1>4
<1>8. CASE s.i <= Len(r1) /\ Keeps1(op)
  <2>1. r = Leftover(r1, s.i, s) /\ s.j > Len(r2)
    <3>1. s.j > Len(r2)
      BY <1>3, <1>7, <1>8
    <3> QED BY <1>2, <1>7, <1>8, <3>1
  <2>2. /\ Sorted(r) /\ Coalesced(r)
        /\ \A x, y \in Int :
             /\ y < s.ybot => (In(r, x, y) <=> In(s.out.boxes, x, y))
             /\ s.ybot <= y => (In(r, x, y) <=> In(r1, x, y))
    BY <1>1, <1>3, <1>4, <1>8, <2>1, LeftoverRight
  <2>3. ASSUME NEW x \in Int, NEW y \in Int
        PROVE  In(r, x, y) <=> Selects(op, In(r1, x, y), In(r2, x, y))
    <3>1. CASE y < s.ybot
      BY <1>4, <2>2, <3>1
    <3>2. CASE s.ybot <= y
      BY <1>5, <1>8, <2>1, <2>2, <3>2 DEF Keeps1, Selects
    <3> QED BY <1>6, <3>1, <3>2
  <2> QED BY <2>2, <2>3 DEF Canonical, r, r1, r2
<1>9. CASE s.j <= Len(r2) /\ Keeps2(op)
  <2>1. r = Leftover(r2, s.j, s) /\ s.i > Len(r1)
    <3>1. s.i > Len(r1)
      BY <1>3, <1>7, <1>9
    <3> QED BY <1>2, <1>7, <1>9, <3>1
  <2>2. /\ Sorted(r) /\ Coalesced(r)
        /\ \A x, y \in Int :
             /\ y < s.ybot => (In(r, x, y) <=> In(s.out.boxes, x, y))
             /\ s.ybot <= y => (In(r, x, y) <=> In(r2, x, y))
    BY <1>1, <1>3, <1>4, <1>9, <2>1, LeftoverRight
  <2>3. ASSUME NEW x \in Int, NEW y \in Int
        PROVE  In(r, x, y) <=> Selects(op, In(r1, x, y), In(r2, x, y))
    <3>1. CASE y < s.ybot
      BY <1>4, <2>2, <3>1
    <3>2. CASE s.ybot <= y
      BY <1>5, <1>9, <2>1, <2>2, <3>2 DEF Keeps2, Selects
    <3> QED BY <1>6, <3>1, <3>2
  <2> QED BY <2>2, <2>3 DEF Canonical, r, r1, r2
<1>10. CASE ~(s.i <= Len(r1) /\ Keeps1(op)) /\ ~(s.j <= Len(r2) /\ Keeps2(op))
  <2>1. r = s.out.boxes
    BY <1>2, <1>10
  <2>2. Sorted(r) /\ Coalesced(r)
    BY <1>4, <2>1 DEF OutInv
  <2>3. ASSUME NEW x \in Int, NEW y \in Int
        PROVE  In(r, x, y) <=> Selects(op, In(r1, x, y), In(r2, x, y))
    <3>1. CASE y < s.ybot
      BY <1>4, <2>1, <3>1
    <3>2. CASE s.ybot <= y
      <4>1. ~Selects(op, In(r1, x, y), In(r2, x, y))
        BY <1>3, <1>5, <1>7, <1>10, <3>2 DEF Keeps1, Keeps2, Selects, Ops
      <4> QED BY <1>5, <2>1, <3>2, <4>1
    <3> QED BY <1>6, <3>1, <3>2
  <2> QED BY <2>2, <2>3 DEF Canonical, r, r1, r2
<1> QED BY <1>8, <1>9, <1>10

-----------------------------------------------------------------------------
(*                         Regions and extents                             *)

RegionOk(r) ==
  /\ r \in [extents : IntBox, boxes : Seq(IntBox)]
  /\ Canonical(r.boxes) /\ Tight(r)

InBox(b, x, y) == b.x1 <= x /\ x < b.x2 /\ b.y1 <= y /\ y < b.y2

(* Tight, in terms of pixels: the edges of e are those of the pixels of r. *)
EdgesOf(r, e) ==
  /\ \A x, y \in Int : In(r, x, y) => InBox(e, x, y)
  /\ \E y \in Int : In(r, e.x1, y)
  /\ \E y \in Int : In(r, e.x2 - 1, y)
  /\ \E x \in Int : In(r, x, e.y1)
  /\ \E x \in Int : In(r, x, e.y2 - 1)

(* Tight, side by side.                                                    *)
LEMMA SidesAre ==
  ASSUME NEW r
  PROVE  Tight(r) <=>
           /\ \A k \in DOMAIN r.boxes : Subsumes(r.extents, r.boxes[k])
           /\ r.boxes # <<>> =>
                /\ \E k \in DOMAIN r.boxes : r.boxes[k].x1 = r.extents.x1
                /\ \E k \in DOMAIN r.boxes : r.boxes[k].y1 = r.extents.y1
                /\ \E k \in DOMAIN r.boxes : r.boxes[k].x2 = r.extents.x2
                /\ \E k \in DOMAIN r.boxes : r.boxes[k].y2 = r.extents.y2
<1> DEFINE At(side) == \E k \in DOMAIN r.boxes : r.boxes[k][side] = r.extents[side]
<1>1. (\A side \in {"x1", "y1", "x2", "y2"} : r.boxes # <<>> => At(side))
        <=> (r.boxes # <<>> => At("x1") /\ At("y1") /\ At("x2") /\ At("y2"))
  <2> HIDE DEF At
  <2> QED OBVIOUS
<1> QED BY <1>1 DEF Tight

(* They are the same, for then the extents are those of the pixels.        *)
LEMMA TightEdges ==
  ASSUME NEW r \in [extents : IntBox, boxes : Seq(IntBox)], Sorted(r.boxes), r.boxes # <<>>
  PROVE  Tight(r) <=> EdgesOf(r.boxes, r.extents)
<1> DEFINE b == r.boxes
           e == r.extents
<1>1. /\ DOMAIN b = 1..Len(b) /\ e.x1 \in Int /\ e.x2 \in Int /\ e.y1 \in Int /\ e.y2 \in Int
  BY DEF IntBox
<1>2. ASSUME NEW k \in 1..Len(b)
      PROVE  /\ b[k].x1 \in Int /\ b[k].x2 \in Int /\ b[k].y1 \in Int /\ b[k].y2 \in Int
             /\ b[k].x2 - 1 \in Int /\ b[k].y2 - 1 \in Int
             /\ b[k].x1 < b[k].x2 /\ b[k].y1 < b[k].y2
             /\ In(b, b[k].x1, b[k].y1) /\ In(b, b[k].x2 - 1, b[k].y2 - 1)
  <2>1. /\ b[k].x1 \in Int /\ b[k].x2 \in Int /\ b[k].y1 \in Int /\ b[k].y2 \in Int
        /\ b[k].x1 < b[k].x2 /\ b[k].y1 < b[k].y2
    BY BoxTypes
  <2> HIDE DEF b
  <2>2. In(b, b[k].x1, b[k].y1)
    <3>1. /\ b[k].x1 <= b[k].x1 /\ b[k].x1 < b[k].x2 /\ b[k].y1 <= b[k].y1 /\ b[k].y1 < b[k].y2
      BY <2>1
    <3> QED BY <3>1 DEF In
  <2>3. In(b, b[k].x2 - 1, b[k].y2 - 1)
    <3>1. /\ b[k].x1 <= b[k].x2 - 1 /\ b[k].x2 - 1 < b[k].x2
          /\ b[k].y1 <= b[k].y2 - 1 /\ b[k].y2 - 1 < b[k].y2
      BY <2>1
    <3> QED BY <3>1 DEF In
  <2> QED BY <2>1, <2>2, <2>3
<1>3. b # <<>>
  OBVIOUS
<1> HIDE DEF b, e
<1>4. Tight(r) <=> /\ \A k \in 1..Len(b) : Subsumes(e, b[k])
                   /\ \E k \in 1..Len(b) : b[k].x1 = e.x1
                   /\ \E k \in 1..Len(b) : b[k].y1 = e.y1
                   /\ \E k \in 1..Len(b) : b[k].x2 = e.x2
                   /\ \E k \in 1..Len(b) : b[k].y2 = e.y2
  BY <1>1, <1>3, SidesAre DEF b, e
<1>5. ASSUME Tight(r) PROVE EdgesOf(b, e)
  <2>1. ASSUME NEW x \in Int, NEW y \in Int, In(b, x, y) PROVE InBox(e, x, y)
    <3>1. PICK k \in 1..Len(b) : b[k].x1 <= x /\ x < b[k].x2 /\ b[k].y1 <= y /\ y < b[k].y2
      BY <2>1 DEF In
    <3>2. Subsumes(e, b[k])
      BY <1>4, <1>5
    <3>3. /\ b[k].x1 \in Int /\ b[k].x2 \in Int /\ b[k].y1 \in Int /\ b[k].y2 \in Int
          /\ e.x1 <= b[k].x1 /\ b[k].x2 <= e.x2 /\ e.y1 <= b[k].y1 /\ b[k].y2 <= e.y2
      BY <1>1, <1>2, <3>2 DEF Subsumes
    <3> QED BY <1>1, <3>1, <3>3, SMTT(60) DEF InBox
  <2>2. \E y \in Int : In(b, e.x1, y)
    BY <1>2, <1>4, <1>5
  <2>3. \E x \in Int : In(b, x, e.y1)
    BY <1>2, <1>4, <1>5
  <2>4. \E y \in Int : In(b, e.x2 - 1, y)
    BY <1>2, <1>4, <1>5
  <2>5. \E x \in Int : In(b, x, e.y2 - 1)
    BY <1>2, <1>4, <1>5
  <2> QED BY <2>1, <2>2, <2>3, <2>4, <2>5 DEF EdgesOf
<1>6. ASSUME EdgesOf(b, e) PROVE Tight(r)
  <2>1. ASSUME NEW k \in 1..Len(b) PROVE Subsumes(e, b[k])
    <3>1. InBox(e, b[k].x1, b[k].y1) /\ InBox(e, b[k].x2 - 1, b[k].y2 - 1)
      BY <1>2, <1>6 DEF EdgesOf
    <3> QED BY <1>1, <1>2, <3>1 DEF Subsumes, InBox
  <2>2. \E k \in 1..Len(b) : b[k].x1 = e.x1
    <3>1. PICK k \in 1..Len(b) : b[k].x1 <= e.x1
      BY <1>6 DEF EdgesOf, In
    <3> QED BY <1>1, <1>2, <2>1, <3>1 DEF Subsumes
  <2>3. \E k \in 1..Len(b) : b[k].y1 = e.y1
    <3>1. PICK k \in 1..Len(b) : b[k].y1 <= e.y1
      BY <1>6 DEF EdgesOf, In
    <3> QED BY <1>1, <1>2, <2>1, <3>1 DEF Subsumes
  <2>4. \E k \in 1..Len(b) : b[k].x2 = e.x2
    <3>1. PICK k \in 1..Len(b) : e.x2 - 1 < b[k].x2
      BY <1>6 DEF EdgesOf, In
    <3> QED BY <1>1, <1>2, <2>1, <3>1, SMTT(60) DEF Subsumes
  <2>5. \E k \in 1..Len(b) : b[k].y2 = e.y2
    <3>1. PICK k \in 1..Len(b) : e.y2 - 1 < b[k].y2
      BY <1>6 DEF EdgesOf, In
    <3> QED BY <1>1, <1>2, <2>1, <3>1 DEF Subsumes
  <2> QED BY <1>4, <2>1, <2>2, <2>3, <2>4, <2>5
<1> QED BY <1>5, <1>6 DEF b, e

(* No pixel is outside the extents, which is what EXTENTCHECK goes by.     *)
LEMMA InExtents ==
  ASSUME NEW r, RegionOk(r), NEW x \in Int, NEW y \in Int, In(r.boxes, x, y)
  PROVE  InBox(r.extents, x, y) /\ r.boxes # <<>>
<1>1. r.boxes # <<>>
  BY DEF In
<1>2. EdgesOf(r.boxes, r.extents)
  BY <1>1, TightEdges DEF RegionOk, Canonical
<1> QED BY <1>1, <1>2 DEF EdgesOf

(* A region of one box is its extents.                                     *)
LEMMA OneBox ==
  ASSUME NEW r, RegionOk(r), IsBox(r)
  PROVE  /\ r.boxes = <<r.extents>>
         /\ \A x, y \in Int : In(r.boxes, x, y) <=> InBox(r.extents, x, y)
<1> DEFINE b == r.boxes
<1>1. b \in Seq(IntBox) /\ Len(b) = 1 /\ DOMAIN b = {1} /\ b # <<>> /\ b[1] \in IntBox /\ r.extents \in IntBox
  BY DEF RegionOk, IsBox
<1>2. /\ b[1].x1 = r.extents.x1 /\ b[1].y1 = r.extents.y1
      /\ b[1].x2 = r.extents.x2 /\ b[1].y2 = r.extents.y2
  BY <1>1, SidesAre DEF RegionOk
<1>3. b[1] = r.extents
  BY <1>1, <1>2, SMTT(60) DEF IntBox
<1>4. b = <<r.extents>>
  BY <1>1, <1>3
<1>5. \A x, y \in Int : In(b, x, y) <=> InBox(r.extents, x, y)
  BY <1>1, <1>3 DEF In, InBox
<1> QED BY <1>4, <1>5

(* miRegionInit makes a region of a box,                                   *)
LEMMA RegionInitOk ==
  ASSUME NEW b \in IntBox, b.x1 < b.x2, b.y1 < b.y2
  PROVE  /\ RegionOk(RegionInit(b)) /\ RegionInit(b).boxes # <<>>
         /\ \A x, y \in Int : In(RegionInit(b).boxes, x, y) <=> InBox(b, x, y)
<1> DEFINE r == RegionInit(b)
<1>1. r.boxes = <<b>> /\ r.extents = b /\ r \in [extents : IntBox, boxes : Seq(IntBox)]
  BY DEF RegionInit, Region
<1> HIDE DEF r
<1>2. Len(r.boxes) = 1 /\ r.boxes[1] = b /\ DOMAIN r.boxes = {1} /\ 1..Len(r.boxes) = {1}
  BY <1>1
<1>3. b.x1 \in Int /\ b.x2 \in Int /\ b.y1 \in Int /\ b.y2 \in Int
  BY DEF IntBox
<1>4. Sorted(r.boxes)
  <2>1. r.boxes \in Seq(IntBox)
    BY <1>1
  <2> QED BY <1>2, <2>1 DEF Sorted
<1>5. Coalesced(r.boxes)
  BY <1>2, <1>3 DEF Coalesced
<1>6. Tight(r)
  <2>1. Subsumes(b, b)
    BY <1>3 DEF Subsumes
  <2> QED BY <1>1, <1>2, <2>1, SidesAre
<1>7. \A x, y \in Int : In(r.boxes, x, y) <=> InBox(b, x, y)
  BY <1>2 DEF In, InBox
<1>8. r.boxes # <<>>
  BY <1>2
<1> QED BY <1>1, <1>4, <1>5, <1>6, <1>7, <1>8 DEF RegionOk, Canonical, r

(* or an empty one.                                                        *)
LEMMA NoRegion ==
  ASSUME NEW e \in IntBox
  PROVE  /\ RegionOk(Region(e, <<>>)) /\ Region(e, <<>>).boxes = <<>>
         /\ \A x, y : ~In(Region(e, <<>>).boxes, x, y)
<1> DEFINE r == Region(e, <<>>)
<1>1. r.boxes = <<>> /\ r \in [extents : IntBox, boxes : Seq(IntBox)]
  BY DEF Region
<1> HIDE DEF r
<1>2. Len(r.boxes) = 0 /\ DOMAIN r.boxes = {} /\ 1..Len(r.boxes) = {}
  BY <1>1
<1>3. Sorted(r.boxes) /\ Coalesced(r.boxes) /\ Tight(r) /\ \A x, y : ~In(r.boxes, x, y)
  BY <1>1, <1>2, SidesAre DEF Sorted, Coalesced, In
<1> QED BY <1>1, <1>3 DEF RegionOk, Canonical, r

(* A row of numbers has a least,                                           *)
LEMMA LeastOf ==
  ASSUME NEW n \in Nat \ {0}, NEW f \in [1..n -> Int]
  PROVE  \E k \in 1..n : \A l \in 1..n : f[k] <= f[l]
<1> DEFINE S == {m \in Nat : 0 < m /\ m <= n => \E k \in 1..m : \A l \in 1..m : f[k] <= f[l]}
<1>1. 0 \in S
  OBVIOUS
<1>2. ASSUME NEW m \in Nat, m \in S PROVE m + 1 \in S
  <2> SUFFICES ASSUME m + 1 <= n PROVE \E k \in 1..m + 1 : \A l \in 1..m + 1 : f[k] <= f[l]
    OBVIOUS
  <2>1. CASE m = 0
    <3>1. \A k, l \in 1..m + 1 : k = 1 /\ l = 1 /\ f[1] \in Int /\ f[1] <= f[1]
      BY <2>1
    <3>2. 1 \in 1..m + 1
      BY <2>1
    <3> QED BY <3>1, <3>2
  <2>2. CASE m # 0
    <3>1. PICK k \in 1..m : \A l \in 1..m : f[k] <= f[l]
      BY <1>2, <2>2
    <3>2. /\ \A l \in 1..m + 1 : l \in 1..n /\ f[l] \in Int /\ (l \in 1..m \/ l = m + 1)
          /\ k \in 1..m + 1 /\ m + 1 \in 1..m + 1
      OBVIOUS
    <3>3. CASE f[k] <= f[m + 1]
      BY <3>1, <3>2, <3>3
    <3>4. CASE ~(f[k] <= f[m + 1])
      BY <3>1, <3>2, <3>4
    <3> QED BY <3>3, <3>4
  <2> QED BY <2>1, <2>2
<1>3. \A m \in Nat : m \in S
  <2> HIDE DEF S
  <2> QED BY <1>1, <1>2, Induction
<1>4. n \in S
  <2> HIDE DEF S
  <2> QED BY <1>3
<1> QED BY <1>4

(* and a greatest.                                                         *)
LEMMA GreatestOf ==
  ASSUME NEW n \in Nat \ {0}, NEW f \in [1..n -> Int]
  PROVE  \E k \in 1..n : \A l \in 1..n : f[k] >= f[l]
<1> DEFINE g == [k \in 1..n |-> -f[k]]
<1>1. g \in [1..n -> Int] /\ \A k \in 1..n : g[k] = -f[k] /\ f[k] \in Int
  OBVIOUS
<1> HIDE DEF g
<1>2. PICK k \in 1..n : \A l \in 1..n : g[k] <= g[l]
  BY <1>1, LeastOf
<1>3. ASSUME NEW l \in 1..n PROVE f[k] >= f[l]
  <2>1. -f[k] <= -f[l] /\ f[k] \in Int /\ f[l] \in Int
    BY <1>1, <1>2
  <2> QED BY <2>1
<1> QED BY <1>3

(* miSetExtents makes the extents tight.                                   *)
LEMMA SetExtentsOk ==
  ASSUME NEW old, old.extents \in IntBox, NEW b, Canonical(b)
  PROVE  RegionOk(SetExtents(old, b)) /\ SetExtents(old, b).boxes = b
<1>1. b \in Seq(IntBox) /\ Sorted(b) /\ Len(b) \in Nat /\ DOMAIN b = 1..Len(b)
  BY DEF Canonical, Sorted
<1>2. CASE b = <<>>
  <2> DEFINE e == [old.extents EXCEPT !.x2 = old.extents.x1, !.y2 = old.extents.y1]
  <2>1. e \in IntBox
    BY DEF IntBox
  <2>2. SetExtents(old, b) = Region(e, <<>>)
    BY <1>2 DEF SetExtents, Emptied
  <2> HIDE DEF e
  <2> QED BY <1>2, <2>1, <2>2, NoRegion
<1>3. CASE b # <<>>
  <2> DEFINE xs1 == {b[k].x1 : k \in DOMAIN b}
             xs2 == {b[k].x2 : k \in DOMAIN b}
             left == CHOOSE x \in xs1 : \A z \in xs1 : x <= z
             right == CHOOSE x \in xs2 : \A z \in xs2 : x >= z
             e == Box(left, b[1].y1, right, b[Len(b)].y2)
             r == Region(e, b)
  <2>1. SetExtents(old, b) = r
    BY <1>3 DEF SetExtents
  <2>2. Len(b) \in Nat \ {0} /\ 1 \in 1..Len(b) /\ Len(b) \in 1..Len(b)
    BY <1>1, <1>3
  <2>3. ASSUME NEW k \in 1..Len(b)
        PROVE  /\ b[k].x1 \in Int /\ b[k].x2 \in Int /\ b[k].y1 \in Int /\ b[k].y2 \in Int
               /\ b[k].y1 < b[k].y2
    BY <1>1, BoxTypes
  <2>4. \E k \in 1..Len(b) : \A l \in 1..Len(b) : b[k].x1 <= b[l].x1
    <3> DEFINE f == [k \in 1..Len(b) |-> b[k].x1]
    <3>1. f \in [1..Len(b) -> Int] /\ \A k \in 1..Len(b) : f[k] = b[k].x1
      BY <2>3
    <3> HIDE DEF f
    <3>2. PICK k \in 1..Len(b) : \A l \in 1..Len(b) : f[k] <= f[l]
      BY <2>2, <3>1, LeastOf
    <3> QED BY <3>1, <3>2
  <2>5. \E k \in 1..Len(b) : \A l \in 1..Len(b) : b[k].x2 >= b[l].x2
    <3> DEFINE f == [k \in 1..Len(b) |-> b[k].x2]
    <3>1. f \in [1..Len(b) -> Int] /\ \A k \in 1..Len(b) : f[k] = b[k].x2
      BY <2>3
    <3> HIDE DEF f
    <3>2. PICK k \in 1..Len(b) : \A l \in 1..Len(b) : f[k] >= f[l]
      BY <2>2, <3>1, GreatestOf
    <3> QED BY <3>1, <3>2
  <2>6. left \in xs1 /\ \A z \in xs1 : left <= z
    <3>1. \E x \in xs1 : \A z \in xs1 : x <= z
      BY <1>1, <2>4
    <3> HIDE DEF xs1
    <3> QED BY <3>1
  <2>7. right \in xs2 /\ \A z \in xs2 : right >= z
    <3>1. \E x \in xs2 : \A z \in xs2 : x >= z
      BY <1>1, <2>5
    <3> HIDE DEF xs2
    <3> QED BY <3>1
  <2> HIDE DEF left, right
  <2>8. /\ left \in Int /\ right \in Int
        /\ \E k \in 1..Len(b) : b[k].x1 = left
        /\ \E k \in 1..Len(b) : b[k].x2 = right
        /\ \A k \in 1..Len(b) : left <= b[k].x1 /\ right >= b[k].x2
    BY <1>1, <2>3, <2>6, <2>7
  <2>9. ASSUME NEW k \in 1..Len(b) PROVE b[1].y1 <= b[k].y1 /\ b[Len(b)].y2 >= b[k].y2
    <3>1. b[1].y1 <= b[k].y1
      <4>1. k = 1 \/ Before(b[1], b[k])
        BY <1>1, <2>2 DEF Sorted
      <4> QED BY <2>2, <2>3, <4>1 DEF Before
    <3>2. b[Len(b)].y2 >= b[k].y2
      <4>1. k = Len(b) \/ Before(b[k], b[Len(b)])
        <5>1. \A n \in Nat : \A l \in 1..n : l = n \/ l < n
          OBVIOUS
        <5>2. k = Len(b) \/ k < Len(b)
          BY <1>1, <5>1, ZenonT(60)
        <5> QED BY <1>1, <2>2, <5>2, ZenonT(60) DEF Sorted
      <4> QED BY <2>2, <2>3, <4>1 DEF Before
    <3> QED BY <3>1, <3>2
  <2> HIDE DEF xs1, xs2
  <2>10. /\ e \in IntBox /\ e.x1 = left /\ e.x2 = right /\ e.y1 = b[1].y1 /\ e.y2 = b[Len(b)].y2
    BY <2>2, <2>3, <2>8 DEF Box, IntBox
  <2> HIDE DEF e
  <2>11. r.extents = e /\ r.boxes = b /\ r \in [extents : IntBox, boxes : Seq(IntBox)]
    BY <1>1, <2>10 DEF Region
  <2> HIDE DEF r
  <2>12. Tight(r)
    <3>1. \A k \in 1..Len(b) : Subsumes(e, b[k])
      BY <2>3, <2>8, <2>9, <2>10 DEF Subsumes
    <3>2. /\ \E k \in 1..Len(b) : b[k].x1 = e.x1
          /\ \E k \in 1..Len(b) : b[k].y1 = e.y1
          /\ \E k \in 1..Len(b) : b[k].x2 = e.x2
          /\ \E k \in 1..Len(b) : b[k].y2 = e.y2
      BY <2>2, <2>8, <2>10
    <3> QED BY <1>1, <2>11, <3>1, <3>2, SidesAre
  <2> QED BY <2>1, <2>11, <2>12 DEF RegionOk
<1> QED BY <1>2, <1>3

-----------------------------------------------------------------------------
(*               miIntersect, miUnion and miSubtract                       *)

(* r is canonical and has the pixels that op makes of those of r1 and r2.  *)
Right(op, r1, r2, r) ==
  /\ RegionOk(r)
  /\ \A x, y \in Int : In(r.boxes, x, y) <=> Selects(op, In(r1.boxes, x, y), In(r2.boxes, x, y))

(* What is known of a region.                                              *)
LEMMA RegionTypes ==
  ASSUME NEW r, RegionOk(r)
  PROVE  /\ r.boxes \in Seq(IntBox) /\ Len(r.boxes) \in Nat /\ Canonical(r.boxes)
         /\ r.extents \in IntBox
         /\ r.extents.x1 \in Int /\ r.extents.x2 \in Int /\ r.extents.y1 \in Int /\ r.extents.y2 \in Int
         /\ IsNil(r) => \A x, y : ~In(r.boxes, x, y)
         /\ ~IsNil(r) => Len(r.boxes) > 0
         /\ \A x, y \in Int : In(r.boxes, x, y) => InBox(r.extents, x, y)
<1>1. r.boxes \in Seq(IntBox) /\ Len(r.boxes) \in Nat /\ Canonical(r.boxes) /\ r.extents \in IntBox
  BY DEF RegionOk
<1>2. r.extents.x1 \in Int /\ r.extents.x2 \in Int /\ r.extents.y1 \in Int /\ r.extents.y2 \in Int
  BY <1>1 DEF IntBox
<1>3. IsNil(r) => \A x, y : ~In(r.boxes, x, y)
  BY DEF IsNil, In
<1>4. ~IsNil(r) => Len(r.boxes) > 0
  BY <1>1 DEF IsNil
<1>5. \A x, y \in Int : In(r.boxes, x, y) => InBox(r.extents, x, y)
  BY InExtents
<1> QED BY <1>1, <1>2, <1>3, <1>4, <1>5

(* Regions whose extents do not overlap have no pixel in common.           *)
LEMMA Apart ==
  ASSUME NEW r1, RegionOk(r1), NEW r2, RegionOk(r2), ~Overlap(r1.extents, r2.extents),
         NEW x \in Int, NEW y \in Int
  PROVE  ~In(r1.boxes, x, y) \/ ~In(r2.boxes, x, y)
<1> SUFFICES ASSUME InBox(r1.extents, x, y), InBox(r2.extents, x, y) PROVE FALSE
  BY RegionTypes
<1>1. /\ r1.extents.x1 \in Int /\ r1.extents.x2 \in Int /\ r1.extents.y1 \in Int /\ r1.extents.y2 \in Int
      /\ r2.extents.x1 \in Int /\ r2.extents.x2 \in Int /\ r2.extents.y1 \in Int /\ r2.extents.y2 \in Int
  BY RegionTypes
<1> QED BY <1>1 DEF InBox, Overlap

(* A region that is one box has the pixels of one that its extents subsume. *)
LEMMA Contained ==
  ASSUME NEW r1, RegionOk(r1), IsBox(r1), NEW r2, RegionOk(r2), Subsumes(r1.extents, r2.extents),
         NEW x \in Int, NEW y \in Int, In(r2.boxes, x, y)
  PROVE  In(r1.boxes, x, y)
<1>1. InBox(r2.extents, x, y)
  BY RegionTypes
<1>2. /\ r1.extents.x1 \in Int /\ r1.extents.x2 \in Int /\ r1.extents.y1 \in Int /\ r1.extents.y2 \in Int
      /\ r2.extents.x1 \in Int /\ r2.extents.x2 \in Int /\ r2.extents.y1 \in Int /\ r2.extents.y2 \in Int
  BY RegionTypes
<1>3. InBox(r1.extents, x, y)
  BY <1>1, <1>2 DEF InBox, Subsumes
<1> QED BY <1>3, OneBox

(* miRegionOp and miSetExtents make the region that op asks for.           *)
LEMMA SweptRight ==
  ASSUME NEW op \in Ops, NEW r1, RegionOk(r1), ~IsNil(r1), NEW r2, RegionOk(r2), ~IsNil(r2),
         NEW old, old.extents \in IntBox
  PROVE  Right(op, r1, r2, SetExtents(old, RegionOp(op, r1, r2)))
<1>1. /\ Canonical(r1.boxes) /\ Len(r1.boxes) > 0 /\ Canonical(r2.boxes) /\ Len(r2.boxes) > 0
  BY RegionTypes
<1>2. /\ Canonical(RegionOp(op, r1, r2))
      /\ \A x, y \in Int : In(RegionOp(op, r1, r2), x, y)
                             <=> Selects(op, In(r1.boxes, x, y), In(r2.boxes, x, y))
  BY <1>1, RegionOpCorrect
<1> QED BY <1>2, SetExtentsOk DEF Right

(* miIntersect is right in the short cuts it takes and in the long way,    *)
LEMMA IntersectRight ==
  ASSUME NEW dst, dst.extents \in IntBox, NEW r1, RegionOk(r1), NEW r2, RegionOk(r2)
  PROVE  Right("intersect", r1, r2, Intersect(dst, r1, r2))
<1> DEFINE r == Intersect(dst, r1, r2)
           none == IsNil(r1) \/ IsNil(r2) \/ ~Overlap(r1.extents, r2.extents)
           sub2 == IsBox(r2) /\ ~IsBox(r1) /\ Subsumes(r2.extents, r1.extents)
           sub1 == IsBox(r1) /\ ~IsBox(r2) /\ Subsumes(r1.extents, r2.extents)
<1>1. CASE none
  <2> DEFINE e == [dst.extents EXCEPT !.x2 = dst.extents.x1, !.y2 = dst.extents.y1]
  <2>1. e \in IntBox
    BY DEF IntBox
  <2>2. r = Region(e, <<>>)
    BY <1>1 DEF Intersect, Emptied
  <2> HIDE DEF e
  <2>3. RegionOk(r) /\ \A x, y : ~In(r.boxes, x, y)
    BY <2>1, <2>2, NoRegion
  <2>4. \A x, y \in Int : ~In(r1.boxes, x, y) \/ ~In(r2.boxes, x, y)
    BY <1>1, RegionTypes, Apart
  <2> HIDE DEF r
  <2>5. \A x, y \in Int : ~Selects("intersect", In(r1.boxes, x, y), In(r2.boxes, x, y))
    BY <2>4 DEF Selects
  <2> QED BY <2>3, <2>5 DEF Right, r
<1>2. CASE ~none /\ IsBox(r1) /\ IsBox(r2)
  <2> DEFINE c == Common(r1.extents, r2.extents)
  <2>1. r = RegionInit(c)
    BY <1>2 DEF Intersect
  <2>2. /\ r1.extents.x1 \in Int /\ r1.extents.x2 \in Int /\ r1.extents.y1 \in Int /\ r1.extents.y2 \in Int
        /\ r2.extents.x1 \in Int /\ r2.extents.x2 \in Int /\ r2.extents.y1 \in Int /\ r2.extents.y2 \in Int
        /\ ~IsNil(r1) /\ ~IsNil(r2)
    BY <1>2, RegionTypes
  <2>3. \A x, y \in Int : /\ In(r1.boxes, x, y) <=> InBox(r1.extents, x, y)
                          /\ In(r2.boxes, x, y) <=> InBox(r2.extents, x, y)
    BY <1>2, OneBox
  <2>4. \A b, d \in Int : Max2(b, d) \in Int /\ Min2(b, d) \in Int
    BY DEF Max2, Min2
  <2>5. /\ c.x1 = Max2(r1.extents.x1, r2.extents.x1) /\ c.y1 = Max2(r1.extents.y1, r2.extents.y1)
        /\ c.x2 = Min2(r1.extents.x2, r2.extents.x2) /\ c.y2 = Min2(r1.extents.y2, r2.extents.y2)
        /\ c \in IntBox
    BY <2>2, <2>4 DEF Common, Box, IntBox
  <2> HIDE DEF c, r
  <2>6. PICK x0 \in Int, y0 \in Int : InBox(r1.extents, x0, y0)
    <3>1. EdgesOf(r1.boxes, r1.extents)
      BY <2>2, TightEdges DEF RegionOk, IsNil, Canonical
    <3>2. PICK y0 \in Int : In(r1.boxes, r1.extents.x1, y0)
      BY <3>1 DEF EdgesOf
    <3> QED BY <2>2, <2>3, <3>2
  <2>7. PICK x3 \in Int, y3 \in Int : InBox(r2.extents, x3, y3)
    <3>1. EdgesOf(r2.boxes, r2.extents)
      BY <2>2, TightEdges DEF RegionOk, IsNil, Canonical
    <3>2. PICK y3 \in Int : In(r2.boxes, r2.extents.x1, y3)
      BY <3>1 DEF EdgesOf
    <3> QED BY <2>2, <2>3, <3>2
  <2>8. Overlap(r1.extents, r2.extents)
    BY <1>2
  <2>9. c.x1 < c.x2 /\ c.y1 < c.y2
    <3>1. /\ r1.extents.x1 < r1.extents.x2 /\ r1.extents.y1 < r1.extents.y2
          /\ r2.extents.x1 < r2.extents.x2 /\ r2.extents.y1 < r2.extents.y2
      BY <2>2, <2>6, <2>7 DEF InBox
    <3>2. c.x1 < c.x2
      BY <2>2, <2>5, <2>8, <3>1 DEF Overlap, Max2, Min2
    <3>3. c.y1 < c.y2
      BY <2>2, <2>5, <2>8, <3>1 DEF Overlap, Max2, Min2
    <3> QED BY <3>2, <3>3
  <2>10. ASSUME NEW x \in Int, NEW y \in Int
         PROVE  InBox(c, x, y) <=> InBox(r1.extents, x, y) /\ InBox(r2.extents, x, y)
    <3>1. c.x1 <= x <=> r1.extents.x1 <= x /\ r2.extents.x1 <= x
      BY <2>2, <2>5 DEF Max2
    <3>2. c.y1 <= y <=> r1.extents.y1 <= y /\ r2.extents.y1 <= y
      BY <2>2, <2>5 DEF Max2
    <3>3. x < c.x2 <=> x < r1.extents.x2 /\ x < r2.extents.x2
      BY <2>2, <2>5 DEF Min2
    <3>4. y < c.y2 <=> y < r1.extents.y2 /\ y < r2.extents.y2
      BY <2>2, <2>5 DEF Min2
    <3> QED BY <3>1, <3>2, <3>3, <3>4 DEF InBox
  <2>11. RegionOk(r) /\ \A x, y \in Int : In(r.boxes, x, y) <=> InBox(c, x, y)
    BY <2>1, <2>5, <2>9, RegionInitOk
  <2>12. \A x, y \in Int : In(r.boxes, x, y) <=>
           Selects("intersect", In(r1.boxes, x, y), In(r2.boxes, x, y))
    BY <2>3, <2>10, <2>11 DEF Selects
  <2> QED BY <2>11, <2>12 DEF Right, r
<1>3. CASE ~none /\ sub2
  <2>1. r = r1
    BY <1>3 DEF Intersect
  <2>2. \A x, y \in Int : In(r1.boxes, x, y) => In(r2.boxes, x, y)
    BY <1>3, Contained
  <2> HIDE DEF r
  <2>3. \A x, y \in Int : In(r.boxes, x, y) <=>
          Selects("intersect", In(r1.boxes, x, y), In(r2.boxes, x, y))
    BY <2>1, <2>2 DEF Selects
  <2> QED BY <2>1, <2>3 DEF Right, r
<1>4. CASE ~none /\ sub1
  <2>1. r = r2
    BY <1>4 DEF Intersect
  <2>2. \A x, y \in Int : In(r2.boxes, x, y) => In(r1.boxes, x, y)
    BY <1>4, Contained
  <2> HIDE DEF r
  <2>3. \A x, y \in Int : In(r.boxes, x, y) <=>
          Selects("intersect", In(r1.boxes, x, y), In(r2.boxes, x, y))
    BY <2>1, <2>2 DEF Selects
  <2> QED BY <2>1, <2>3 DEF Right, r
<1>5. CASE ~none /\ ~(IsBox(r1) /\ IsBox(r2)) /\ ~sub1 /\ ~sub2
  <2>1. r = SetExtents(dst, RegionOp("intersect", r1, r2))
    BY <1>5 DEF Intersect
  <2> HIDE DEF r
  <2> QED BY <1>5, <2>1, SweptRight DEF Ops, r
<1> QED BY <1>1, <1>2, <1>3, <1>4, <1>5

(* so is miSubtract,                                                       *)
LEMMA SubtractRight ==
  ASSUME NEW r1, RegionOk(r1), NEW r2, RegionOk(r2)
  PROVE  Right("subtract", r1, r2, Subtract(r1, r2))
<1> DEFINE r == Subtract(r1, r2)
           none == IsNil(r1) \/ IsNil(r2) \/ ~Overlap(r1.extents, r2.extents)
<1>1. CASE none
  <2>1. r = r1
    BY <1>1 DEF Subtract
  <2>2. \A x, y \in Int : ~In(r1.boxes, x, y) \/ ~In(r2.boxes, x, y)
    BY <1>1, RegionTypes, Apart
  <2> HIDE DEF r
  <2>3. \A x, y \in Int : In(r.boxes, x, y) <=>
          Selects("subtract", In(r1.boxes, x, y), In(r2.boxes, x, y))
    BY <2>1, <2>2 DEF Selects
  <2> QED BY <2>1, <2>3 DEF Right, r
<1>2. CASE ~none
  <2>1. r = SetExtents(r1, RegionOp("subtract", r1, r2))
    BY <1>2 DEF Subtract
  <2> HIDE DEF r
  <2> QED BY <1>2, <2>1, SweptRight, RegionTypes DEF Ops, r
<1> QED BY <1>1, <1>2

(* (the extents of a region that is not empty are its edges)               *)
LEMMA RegionEdges ==
  ASSUME NEW r, RegionOk(r), ~IsNil(r)
  PROVE  EdgesOf(r.boxes, r.extents)
BY TightEdges DEF RegionOk, Canonical, IsNil

(* and miUnion, which does not call miSetExtents: the hull of the extents  *)
(* is tight for the union.                                                 *)
LEMMA UnionRight ==
  ASSUME NEW r1, RegionOk(r1), NEW r2, RegionOk(r2)
  PROVE  Right("union", r1, r2, Union(r1, r2))
<1> DEFINE r == Union(r1, r2)
           In1(x, y) == In(r1.boxes, x, y)
           In2(x, y) == In(r2.boxes, x, y)
           sub1 == IsBox(r1) /\ Subsumes(r1.extents, r2.extents)
           sub2 == IsBox(r2) /\ Subsumes(r2.extents, r1.extents)
<1> SUFFICES /\ RegionOk(r)
             /\ \A x, y \in Int : In(r.boxes, x, y) <=> In1(x, y) \/ In2(x, y)
  BY DEF Right, Selects
<1>1. CASE IsNil(r1)
  <2>1. r = r2 /\ \A x, y : ~In1(x, y)
    BY <1>1, RegionTypes DEF Union
  <2> HIDE DEF r
  <2> QED BY <2>1
<1>2. CASE IsNil(r2) /\ ~IsNil(r1)
  <2>1. r = r1 /\ \A x, y : ~In2(x, y)
    BY <1>2, RegionTypes DEF Union
  <2> HIDE DEF r
  <2> QED BY <2>1
<1>3. CASE ~IsNil(r1) /\ ~IsNil(r2) /\ sub1
  <2>1. r = r1 \/ (sub2 /\ r = r2)
    BY <1>3 DEF Union
  <2>2. \A x, y \in Int : In2(x, y) => In1(x, y)
    BY <1>3, Contained
  <2>3. sub2 => \A x, y \in Int : In1(x, y) => In2(x, y)
    BY Contained
  <2> HIDE DEF r, sub2
  <2> QED BY <2>1, <2>2, <2>3
<1>4. CASE ~IsNil(r1) /\ ~IsNil(r2) /\ sub2 /\ ~sub1
  <2>1. r = r2
    BY <1>4 DEF Union
  <2>2. \A x, y \in Int : In1(x, y) => In2(x, y)
    BY <1>4, Contained
  <2> HIDE DEF r
  <2> QED BY <2>1, <2>2
<1>5. CASE ~IsNil(r1) /\ ~IsNil(r2) /\ ~sub1 /\ ~sub2
  <2> DEFINE b == RegionOp("union", r1, r2)
             e == Hull(r1.extents, r2.extents)
             e1 == r1.extents
             e2 == r2.extents
  <2>1. r = Region(e, b)
    BY <1>5 DEF Union
  <2>2. /\ Canonical(r1.boxes) /\ Len(r1.boxes) > 0 /\ Canonical(r2.boxes) /\ Len(r2.boxes) > 0
        /\ e1.x1 \in Int /\ e1.x2 \in Int /\ e1.y1 \in Int /\ e1.y2 \in Int
        /\ e2.x1 \in Int /\ e2.x2 \in Int /\ e2.y1 \in Int /\ e2.y2 \in Int
    BY <1>5, RegionTypes
  <2>3. Canonical(b) /\ \A x, y \in Int : In(b, x, y) <=> In1(x, y) \/ In2(x, y)
    <3>1. /\ Canonical(b)
          /\ \A x, y \in Int : In(b, x, y) <=> Selects("union", In1(x, y), In2(x, y))
      BY <2>2, RegionOpCorrect DEF Ops
    <3> HIDE DEF b
    <3> QED BY <3>1 DEF Selects
  <2>4. EdgesOf(r1.boxes, e1) /\ EdgesOf(r2.boxes, e2)
    BY <1>5, RegionEdges
  <2>5. /\ e.x1 = Min2(e1.x1, e2.x1) /\ e.y1 = Min2(e1.y1, e2.y1)
        /\ e.x2 = Max2(e1.x2, e2.x2) /\ e.y2 = Max2(e1.y2, e2.y2)
        /\ e \in IntBox
    <3>1. \A c, d \in Int : Max2(c, d) \in Int /\ Min2(c, d) \in Int
      BY DEF Max2, Min2
    <3> QED BY <2>2, <3>1 DEF Hull, Box, IntBox
  <2> HIDE DEF e, b, e1, e2, r
  <2>6. r \in [extents : IntBox, boxes : Seq(IntBox)] /\ r.extents = e /\ r.boxes = b
    BY <2>1, <2>3, <2>5 DEF Region, Canonical, Sorted
  <2>7. EdgesOf(b, e)
    <3>1. ASSUME NEW x \in Int, NEW y \in Int, In(b, x, y) PROVE InBox(e, x, y)
      <4>1. InBox(e1, x, y) \/ InBox(e2, x, y)
        BY <2>3, <2>4, <3>1 DEF EdgesOf
      <4>2. e.x1 <= e1.x1 /\ e.x1 <= e2.x1 /\ e.y1 <= e1.y1 /\ e.y1 <= e2.y1
        BY <2>2, <2>5, SMTT(60) DEF Min2
      <4>3. e1.x2 <= e.x2 /\ e2.x2 <= e.x2 /\ e1.y2 <= e.y2 /\ e2.y2 <= e.y2
        BY <2>2, <2>5, SMTT(60) DEF Max2
      <4>4. e.x1 \in Int /\ e.x2 \in Int /\ e.y1 \in Int /\ e.y2 \in Int
        BY <2>5 DEF IntBox
      <4>5. /\ e1.x1 \in Int /\ e1.x2 \in Int /\ e1.y1 \in Int /\ e1.y2 \in Int
            /\ e2.x1 \in Int /\ e2.x2 \in Int /\ e2.y1 \in Int /\ e2.y2 \in Int
        BY <2>2
      <4>6. CASE InBox(e1, x, y)
        <5>1. e1.x1 <= x /\ x < e1.x2 /\ e1.y1 <= y /\ y < e1.y2
          BY <4>6 DEF InBox
        <5>2. e.x1 <= x /\ e.y1 <= y
          BY <4>2, <4>4, <4>5, <5>1
        <5>3. x < e.x2 /\ y < e.y2
          BY <4>3, <4>4, <4>5, <5>1
        <5> QED BY <5>2, <5>3 DEF InBox
      <4>7. CASE InBox(e2, x, y)
        <5>1. e2.x1 <= x /\ x < e2.x2 /\ e2.y1 <= y /\ y < e2.y2
          BY <4>7 DEF InBox
        <5>2. e.x1 <= x /\ e.y1 <= y
          BY <4>2, <4>4, <4>5, <5>1
        <5>3. x < e.x2 /\ y < e.y2
          BY <4>3, <4>4, <4>5, <5>1
        <5> QED BY <5>2, <5>3 DEF InBox
      <4> QED BY <4>1, <4>6, <4>7
    <3>2. /\ e.x1 \in {e1.x1, e2.x1} /\ e.y1 \in {e1.y1, e2.y1}
          /\ e.x2 \in {e1.x2, e2.x2} /\ e.y2 \in {e1.y2, e2.y2}
      BY <2>5 DEF Min2, Max2
    <3>3. \E y \in Int : In(b, e.x1, y)
      <4>1. /\ \E y \in Int : In(b, e1.x1, y)
            /\ \E y \in Int : In(b, e2.x1, y)
        BY <2>2, <2>3, <2>4 DEF EdgesOf
      <4> QED BY <3>2, <4>1
    <3>4. \E y \in Int : In(b, e.x2 - 1, y)
      <4>1. /\ \E y \in Int : In(b, e1.x2 - 1, y)
            /\ \E y \in Int : In(b, e2.x2 - 1, y)
        <5>1. e1.x2 - 1 \in Int /\ e2.x2 - 1 \in Int
          BY <2>2, SMTT(60)
        <5> QED BY <2>3, <2>4, <5>1 DEF EdgesOf
      <4> QED BY <3>2, <4>1
    <3>5. \E x \in Int : In(b, x, e.y1)
      <4>1. /\ \E x \in Int : In(b, x, e1.y1)
            /\ \E x \in Int : In(b, x, e2.y1)
        BY <2>2, <2>3, <2>4 DEF EdgesOf
      <4> QED BY <3>2, <4>1
    <3>6. \E x \in Int : In(b, x, e.y2 - 1)
      <4>1. /\ \E x \in Int : In(b, x, e1.y2 - 1)
            /\ \E x \in Int : In(b, x, e2.y2 - 1)
        <5>1. e1.y2 - 1 \in Int /\ e2.y2 - 1 \in Int
          BY <2>2, SMTT(60)
        <5> QED BY <2>3, <2>4, <5>1 DEF EdgesOf
      <4> QED BY <3>2, <4>1
    <3> QED BY <3>1, <3>3, <3>4, <3>5, <3>6 DEF EdgesOf
  <2>8. b # <<>>
    BY <2>7 DEF EdgesOf, In
  <2>9. Tight(r)
    BY <2>3, <2>6, <2>7, <2>8, TightEdges DEF Canonical
  <2> QED BY <2>3, <2>6, <2>9 DEF RegionOk
<1> QED BY <1>1, <1>2, <1>3, <1>4, <1>5

(* SAFE_REGION_INIT makes a region with the pixels of the box, if any.     *)
LEMMA SafeRegionInitRight ==
  ASSUME NEW b \in IntBox, b.x1 <= b.x2, b.y1 <= b.y2
  PROVE  /\ RegionOk(SafeRegionInit(b))
         /\ \A x, y \in Int : In(SafeRegionInit(b).boxes, x, y) <=> InBox(b, x, y)
<1>1. b.x1 \in Int /\ b.x2 \in Int /\ b.y1 \in Int /\ b.y2 \in Int
  BY DEF IntBox
<1>2. CASE b.x1 = b.x2 \/ b.y1 = b.y2
  <2>1. Box(0, 0, 0, 0) \in IntBox
    BY DEF Box, IntBox
  <2>2. SafeRegionInit(b) = Region(Box(0, 0, 0, 0), <<>>)
    BY <1>2 DEF SafeRegionInit, NullRegion
  <2>3. \A x, y \in Int : ~InBox(b, x, y)
    BY <1>1, <1>2 DEF InBox
  <2> QED BY <2>1, <2>2, <2>3, NoRegion
<1>3. CASE b.x1 # b.x2 /\ b.y1 # b.y2
  <2>1. SafeRegionInit(b) = RegionInit(b)
    BY <1>3 DEF SafeRegionInit
  <2>2. b.x1 < b.x2 /\ b.y1 < b.y2
    BY <1>1, <1>3
  <2> QED BY <2>1, <2>2, RegionInitOk
<1> QED BY <1>2, <1>3

-----------------------------------------------------------------------------
(*                      Regions as sets of pixels                          *)

(* PixelsOf is the set of the pixels that are in some box.                 *)
LEMMA PixelsAre ==
  ASSUME NEW r, r.boxes \in Seq(IntBox)
  PROVE  PixelsOf(r) = {p \in Int \X Int : In(r.boxes, p[1], p[2])}
<1> DEFINE b == r.boxes
           P(c) == (c.x1..c.x2 - 1) \X (c.y1..c.y2 - 1)
<1>1. DOMAIN b = 1..Len(b)
  OBVIOUS
<1>2. \A k \in 1..Len(b) : b[k].x1 \in Int /\ b[k].x2 \in Int /\ b[k].y1 \in Int /\ b[k].y2 \in Int
  <2> SUFFICES ASSUME NEW k \in 1..Len(b)
               PROVE  b[k].x1 \in Int /\ b[k].x2 \in Int /\ b[k].y1 \in Int /\ b[k].y2 \in Int
    OBVIOUS
  <2>1. b[k] \in IntBox
    OBVIOUS
  <2> QED BY <2>1 DEF IntBox
<1>3. PixelsOf(r) = UNION {P(c) : c \in {b[k] : k \in 1..Len(b)}}
  BY <1>1 DEF PixelsOf
<1> HIDE DEF b
<1>4. ASSUME NEW p
      PROVE  p \in PixelsOf(r) <=> \E k \in 1..Len(b) : p \in P(b[k])
  <2> HIDE DEF P
  <2> QED BY <1>3
<1>5. ASSUME NEW p, NEW k \in 1..Len(b)
      PROVE  p \in P(b[k]) <=> /\ p \in Int \X Int
                               /\ b[k].x1 <= p[1] /\ p[1] < b[k].x2
                               /\ b[k].y1 <= p[2] /\ p[2] < b[k].y2
  <2>1. p \in P(b[k]) <=> /\ p \in Int \X Int
                          /\ p[1] \in b[k].x1..b[k].x2 - 1 /\ p[2] \in b[k].y1..b[k].y2 - 1
    OBVIOUS
  <2>2. ASSUME p \in Int \X Int
        PROVE  /\ p[1] \in b[k].x1..b[k].x2 - 1 <=> b[k].x1 <= p[1] /\ p[1] < b[k].x2
               /\ p[2] \in b[k].y1..b[k].y2 - 1 <=> b[k].y1 <= p[2] /\ p[2] < b[k].y2
    <3>1. p[1] \in Int /\ p[2] \in Int
      BY <2>2
    <3> QED BY <1>2, <3>1, SMTT(60)
  <2> HIDE DEF P
  <2> QED BY <2>1, <2>2
<1> HIDE DEF P
<1>6. ASSUME NEW p PROVE p \in PixelsOf(r) <=> p \in Int \X Int /\ In(b, p[1], p[2])
  BY <1>4, <1>5 DEF In
<1>7. \A p : p \in PixelsOf(r) <=> p \in {q \in Int \X Int : In(b, q[1], q[2])}
  BY <1>6
<1> QED BY <1>7 DEF b

(* What is right pixel by pixel is right as a set.                         *)
LEMMA RightPixels ==
  ASSUME NEW op \in Ops, NEW r1, RegionOk(r1), NEW r2, RegionOk(r2), NEW r, Right(op, r1, r2, r)
  PROVE  /\ op = "union" => PixelsOf(r) = PixelsOf(r1) \cup PixelsOf(r2)
         /\ op = "intersect" => PixelsOf(r) = PixelsOf(r1) \cap PixelsOf(r2)
         /\ op = "subtract" => PixelsOf(r) = PixelsOf(r1) \ PixelsOf(r2)
<1> DEFINE I(s, p) == In(s.boxes, p[1], p[2])
<1>1. /\ PixelsOf(r) = {p \in Int \X Int : I(r, p)}
      /\ PixelsOf(r1) = {p \in Int \X Int : I(r1, p)}
      /\ PixelsOf(r2) = {p \in Int \X Int : I(r2, p)}
  BY PixelsAre, RegionTypes DEF Right
<1>2. \A p \in Int \X Int : I(r, p) <=> Selects(op, I(r1, p), I(r2, p))
  BY DEF Right
<1> HIDE DEF I
<1>3. op = "union" => \A p \in Int \X Int : I(r, p) <=> I(r1, p) \/ I(r2, p)
  BY <1>2 DEF Selects
<1>4. op = "intersect" => \A p \in Int \X Int : I(r, p) <=> I(r1, p) /\ I(r2, p)
  BY <1>2 DEF Selects
<1>5. op = "subtract" => \A p \in Int \X Int : I(r, p) <=> I(r1, p) /\ ~I(r2, p)
  BY <1>2 DEF Selects
<1> QED BY <1>1, <1>3, <1>4, <1>5

(* The empty region is canonical,                                          *)
LEMMA NullRegionOk == RegionOk(NullRegion) /\ PixelsOf(NullRegion) = {}
<1>1. Box(0, 0, 0, 0) \in IntBox
  BY DEF Box, IntBox
<1>2. RegionOk(NullRegion) /\ \A x, y : ~In(NullRegion.boxes, x, y)
  BY <1>1, NoRegion DEF NullRegion
<1> QED BY <1>2, PixelsAre, RegionTypes

(* so is the one a client begins with, of the whole screen,                *)
LEMMA WholeScreenOk == RegionOk(WholeScreen)
<1>1. Width \in Nat \ {0} /\ Height \in Nat \ {0}
  BY RegionsAssumption
<1> DEFINE b == Box(0, 0, Width, Height)
<1>2. b \in IntBox /\ b.x1 < b.x2 /\ b.y1 < b.y2
  BY <1>1 DEF Box, IntBox
<1> QED BY <1>2, RegionInitOk DEF WholeScreen

(* and what the callbacks and the requests bring in.                       *)
LEMMA BoxesOk ==
  ASSUME NEW b \in Boxes
  PROVE  RegionOk(SafeRegionInit(b))
<1>1. Width \in Nat \ {0} /\ Height \in Nat \ {0}
  BY RegionsAssumption
<1>2. b \in IntBox /\ b.x1 <= b.x2 /\ b.y1 <= b.y2
  <2>1. CASE b = Box(1, 0, 1, Height) \/ b = Box(0, 1, Width, 1)
    BY <1>1, <2>1 DEF Box, IntBox
  <2>2. CASE \E x1, x2 \in 0..Width, y1, y2 \in 0..Height : b = Box(x1, y1, x2, y2) /\ b.x1 < b.x2 /\ b.y1 < b.y2
    <3>1. PICK x1 \in 0..Width, x2 \in 0..Width, y1 \in 0..Height, y2 \in 0..Height :
            b = Box(x1, y1, x2, y2) /\ b.x1 < b.x2 /\ b.y1 < b.y2
      BY <2>2
    <3>2. x1 \in Int /\ x2 \in Int /\ y1 \in Int /\ y2 \in Int
      BY <1>1
    <3>3. b \in IntBox /\ b.x1 \in Int /\ b.x2 \in Int /\ b.y1 \in Int /\ b.y2 \in Int
      BY <3>1, <3>2 DEF Box, IntBox
    <3> QED BY <3>1, <3>3
  <2> QED BY <2>1, <2>2 DEF Boxes
<1> QED BY <1>2, SafeRegionInitRight

-----------------------------------------------------------------------------
(*                        What the server does                             *)

RegionsOk == RegionOk(modified) /\ RegionOk(requested) /\ RegionOk(update)

(* The invariant: the three regions are canonical. It holds at first;      *)
LEMMA RegionsOkInit == BandInit => RegionsOk
BY NullRegionOk, WholeScreenOk DEF BandInit, RegionsOk

(* One step keeps the regions canonical and does to the sets of pixels     *)
(* what PixelSets says.                                                    *)
LEMMA BandStep ==
  ASSUME RegionsOk, [BandNext]_bandVars
  PROVE  RegionsOk' /\ [Sets!PixelNext]_Sets!pixelVars
<1> DEFINE damaged == PixelsOf(modified)
           wanted == PixelsOf(requested)
           chosen == PixelsOf(update)
<1>1. RegionOk(modified) /\ RegionOk(requested) /\ RegionOk(update)
  BY DEF RegionsOk
<1>2. \A b \in Boxes : PixelsOf(SafeRegionInit(b)) \in Areas
  BY DEF Areas
<1>3. ASSUME NEW b \in Boxes, Damage(b)
      PROVE  RegionsOk' /\ Sets!PixelNext
  <2> DEFINE s == SafeRegionInit(b)
             a == PixelsOf(s)
  <2>1. RegionOk(s) /\ a \in Areas
    BY <1>2, BoxesOk
  <2>2. modified' = Union(modified, s) /\ requested' = requested /\ update' = NullRegion
    BY <1>3 DEF Damage
  <2> HIDE DEF s
  <2>3. Right("union", modified, s, modified')
    BY <1>1, <2>1, <2>2, UnionRight
  <2>4. PixelsOf(modified') = damaged \cup a
    BY <1>1, <2>1, <2>3, RightPixels DEF Ops
  <2>5. RegionsOk'
    BY <1>1, <2>2, <2>3, NullRegionOk DEF Right, RegionsOk
  <2>6. Sets!Gather(a)
    BY <2>2, <2>4, NullRegionOk DEF Sets!Gather
  <2> QED BY <2>1, <2>5, <2>6 DEF Sets!PixelNext
<1>4. ASSUME NEW b \in RequestBoxes \cap Boxes, NEW incremental \in BOOLEAN,
             UpdateRequest(b, incremental)
      PROVE  RegionsOk' /\ Sets!PixelNext
  <2> DEFINE s == SafeRegionInit(b)
             a == PixelsOf(s)
  <2>1. RegionOk(s) /\ a \in Areas
    BY <1>2, BoxesOk
  <2>2. /\ requested' = Union(requested, s) /\ update' = NullRegion
        /\ modified' = modified \/ modified' = Union(modified, s)
    BY <1>4 DEF UpdateRequest
  <2> HIDE DEF s
  <2>3. Right("union", requested, s, requested') /\ Right("union", modified, s, Union(modified, s))
    BY <1>1, <2>1, <2>2, UnionRight
  <2>4. /\ PixelsOf(requested') = wanted \cup a
        /\ PixelsOf(Union(modified, s)) = damaged \cup a
    BY <1>1, <2>1, <2>3, RightPixels DEF Ops
  <2>5. RegionsOk'
    BY <1>1, <2>2, <2>3, NullRegionOk DEF Right, RegionsOk
  <2>6. Sets!Gather(a)
    BY <2>2, <2>4, NullRegionOk DEF Sets!Gather
  <2> QED BY <2>1, <2>5, <2>6 DEF Sets!PixelNext
<1>5. ASSUME Select
      PROVE  RegionsOk' /\ Sets!PixelNext
  <2>1. /\ update' = Intersect(NullRegion, modified, requested)
        /\ modified' = Subtract(modified, update') /\ requested' = NullRegion
    BY <1>5 DEF Select
  <2>2. NullRegion.extents \in IntBox
    BY NullRegionOk, RegionTypes
  <2>3. Right("intersect", modified, requested, update')
    BY <1>1, <2>1, <2>2, IntersectRight
  <2>4. RegionOk(update') /\ Right("subtract", modified, update', modified')
    BY <1>1, <2>1, <2>3, SubtractRight DEF Right
  <2>5. PixelsOf(update') = damaged \cap wanted
    BY <1>1, <2>3, RightPixels DEF Ops
  <2>6. PixelsOf(modified') = damaged \ PixelsOf(update')
    BY <1>1, <2>4, RightPixels DEF Ops
  <2>7. RegionsOk'
    BY <2>1, <2>4, NullRegionOk DEF Right, RegionsOk
  <2>8. Sets!Choose
    BY <2>1, <2>5, <2>6, NullRegionOk DEF Sets!Choose
  <2> QED BY <2>7, <2>8 DEF Sets!PixelNext
<1>6. ASSUME ScreenChanged
      PROVE  RegionsOk' /\ Sets!PixelNext
  <2>1. RegionsOk'
    BY <1>1, <1>6, NullRegionOk, WholeScreenOk DEF ScreenChanged, RegionsOk
  <2>2. Sets!Replace
    BY <1>6, NullRegionOk DEF ScreenChanged, Sets!Replace
  <2> QED BY <2>1, <2>2 DEF Sets!PixelNext
<1>7. ASSUME UNCHANGED bandVars
      PROVE  RegionsOk' /\ UNCHANGED Sets!pixelVars
  BY <1>1, <1>7 DEF bandVars, RegionsOk, Sets!pixelVars
<1> QED BY <1>3, <1>4, <1>5, <1>6, <1>7 DEF BandNext

(* So they stay canonical,                                                 *)
LEMMA RegionsStayOk == BandSpec => []RegionsOk
<1>1. RegionsOk /\ [BandNext]_bandVars => RegionsOk'
  BY BandStep
<1> QED BY <1>1, RegionsOkInit, PTL DEF BandSpec

(* CanonicalForm: banded, coalesced and with tight extents, as all of      *)
(* miregion.c takes for granted, after any damage, requests and updates.   *)
THEOREM CanonicalFormHolds == BandSpec => []CanonicalForm
<1>1. RegionsOk => CanonicalForm
  <2> SUFFICES ASSUME RegionsOk, NEW r \in {modified, requested, update}
               PROVE  Banded(r.boxes) /\ Coalesced(r.boxes) /\ Tight(r)
    BY DEF CanonicalForm
  <2>1. RegionOk(r)
    BY DEF RegionsOk
  <2> QED BY <2>1, BandedSorted DEF RegionOk, Canonical, Sorted
<1> QED BY <1>1, RegionsStayOk, PTL

(* ImplementsSets: unions, intersections and subtractions of boxes lose no *)
(* damage and invent none; modifiedRegion, requestedRegion and updateRegion *)
(* are the sets of pixels that the update pipeline takes them to be.       *)
THEOREM RegionsImplementSets == BandSpec => ImplementsSets
<1>1. BandInit => Sets!PixelInit
  BY NullRegionOk DEF BandInit, Sets!PixelInit
<1>2. RegionsOk /\ [BandNext]_bandVars => [Sets!PixelNext]_Sets!pixelVars
  BY BandStep
<1> QED BY <1>1, <1>2, RegionsStayOk, PTL DEF BandSpec, ImplementsSets, Sets!PixelSpec
=============================================================================
