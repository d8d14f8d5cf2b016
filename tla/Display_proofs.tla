---------------------------- MODULE Display_proofs ----------------------------
(***************************************************************************)
(* Proofs about Display.tla for every stage, tile and set of window sizes. *)
(*                                                                         *)
(* Letterbox and NoGaps hold in every state because resize computes all of *)
(* the sizes from the parent's alone and clears the canvas: what has been  *)
(* painted since was painted, whole, for the sizes there are now.  That is *)
(* IInv; the rest is arithmetic of \div.                                   *)
(***************************************************************************)
EXTENDS Display, TLAPS

-----------------------------------------------------------------------------
(* The inductive invariant *)

\* The sizes are those of one of the boxes.
Fitted == \E box \in Boxes : fit = Fit(box)

\* An image is painted as a whole.
Whole == \A r \in picture : Paint(r.image) \subseteq picture

IInv == TypeOK /\ Fitted /\ Whole

-----------------------------------------------------------------------------
(* Division *)

\* A quotient rounds down.
LEMMA DivBounds ==
  ASSUME NEW a \in Int, NEW b \in Nat \ {0}
  PROVE  /\ a \div b \in Int
         /\ b * (a \div b) <= a
         /\ a < b * (a \div b) + b
OBVIOUS

\* Multiples of c keep the order of their factors.
LEMMA TimesMonotonic ==
  ASSUME NEW a \in Int, NEW b \in Int, NEW c \in Nat, a <= b
  PROVE  c * a <= c * b
OBVIOUS

\* An order of multiples is an order of the factors.
LEMMA TimesOrder ==
  ASSUME NEW a \in Int, NEW b \in Int, NEW c \in Nat \ {0}, c * a < c * b
  PROVE  a < b
OBVIOUS

\* A dividend that is not negative has a quotient that is not negative.
LEMMA DivNat ==
  ASSUME NEW a \in Nat, NEW b \in Nat \ {0}
  PROVE  a \div b \in Nat
OBVIOUS

\* The steps of a loop leave no gap: whatever lies between its bounds is less
\* than a step behind one of them.
LEMMA StepsCover ==
  ASSUME NEW from \in Int, NEW below \in Int, NEW by \in Nat \ {0},
         NEW p \in Int, from <= p, p < below
  PROVE  \E v \in Steps(from, below, by) : v \in Int /\ v <= p /\ p < v + by
<1> DEFINE k == (p - from) \div by
           last == (below - from - 1) \div by
<1>1. /\ k \in Nat /\ by * k <= p - from /\ p - from < by * k + by
  BY DivBounds, DivNat
<1>2. /\ last \in Int /\ below - from - 1 < by * last + by
  BY DivBounds
<1>3. by * k < by * (last + 1)
  BY <1>1, <1>2
<1>4. k < last + 1
  BY <1>1, <1>2, <1>3, TimesOrder
<1>5. k \in 0..last
  BY <1>1, <1>2, <1>4
<1>6. from + k * by \in Steps(from, below, by)
  BY <1>5 DEF Steps
<1>7. from + k * by \in Int /\ from + k * by <= p /\ p < from + k * by + by
  BY <1>1
<1>8. QED
  BY <1>6, <1>7

\* All values of a loop variable are whole.
LEMMA StepsInt ==
  ASSUME NEW from \in Int, NEW below \in Int, NEW by \in Nat \ {0}
  PROVE  Steps(from, below, by) \subseteq Int
<1>1. (below - from - 1) \div by \in Int
  BY DivBounds
<1>2. QED
  BY <1>1 DEF Steps

-----------------------------------------------------------------------------
(* The sizes *)

\* What resize computes: the stage is enlarged by the largest whole factor at
\* which it fits and lies in the middle of the canvas, to a pixel.
LEMMA FitIsRight ==
  ASSUME NEW box \in Boxes
  PROVE  LET f == Fit(box) IN
         /\ f \in Geometry
         /\ f.ctxWidth = f.scale * BaseWidth /\ f.ctxHeight = f.scale * BaseHeight
         /\ f.canvasWidth - f.ctxWidth - f.xOffset - f.xOffset \in {0, 1}
         /\ f.ctxHeight <= f.canvasHeight
         /\ \/ f.canvasWidth < (f.scale + 1) * BaseWidth
            \/ f.canvasHeight < (f.scale + 1) * BaseHeight
<1> DEFINE w == Sub * BaseWidth
           h == Sub * BaseHeight
           width == AtLeast(box[1], w)
           height == AtLeast(box[2], h)
           across == width \div w
           down == height \div h
           factor == AtMost(across, down)
           left == width - Sub * (factor * BaseWidth)
<1> USE SizeAssumption
<1>0. Fit(box) = [scale |-> factor,
                  ctxWidth |-> factor * BaseWidth, ctxHeight |-> factor * BaseHeight,
                  canvasWidth |-> width \div Sub, canvasHeight |-> height \div Sub,
                  xOffset |-> left \div (2 * Sub)]
  BY DEF Fit
<1>1. /\ w \in Nat \ {0} /\ h \in Nat \ {0}
      /\ width \in Nat /\ w <= width
      /\ height \in Nat /\ h <= height
  BY BoxAssumption DEF AtLeast
<1> HIDE DEF w, h, width, height
<1>2. /\ across \in Int /\ w * across <= width /\ width < w * across + w
      /\ down \in Int /\ h * down <= height /\ height < h * down + h
  BY <1>1, DivBounds
<1>3. across > 0 /\ down > 0
  <2>1. w * 0 < w * across /\ h * 0 < h * down
    BY <1>1, <1>2
  <2>2. QED
    BY <2>1, <1>1, <1>2, TimesOrder
<1> HIDE DEF across, down
<1>4. /\ factor \in Nat \ {0} /\ factor <= across /\ factor <= down
      /\ factor = across \/ factor = down
  BY <1>2, <1>3 DEF AtMost
<1> HIDE DEF factor
<1>5. /\ Sub * (factor * BaseWidth) <= width /\ Sub * (factor * BaseHeight) <= height
      /\ factor * BaseWidth \in Nat \ {0} /\ factor * BaseHeight \in Nat \ {0}
      /\ left \in Nat
  <2>1. w * factor <= w * across /\ h * factor <= h * down
    BY <1>1, <1>2, <1>4, TimesMonotonic
  <2>2. /\ w * factor = Sub * (factor * BaseWidth)
        /\ h * factor = Sub * (factor * BaseHeight)
        /\ factor * BaseWidth \in Nat \ {0} /\ factor * BaseHeight \in Nat \ {0}
        /\ Sub * (factor * BaseWidth) \in Nat
    BY <1>4 DEF w, h
  <2>3. QED
    BY <2>1, <2>2, <1>1, <1>2
<1> DEFINE cw == width \div Sub
           ch == height \div Sub
           c == factor * BaseWidth
           x == left \div (2 * Sub)
<1>6. /\ cw \in Nat /\ Sub * cw <= width /\ width < Sub * cw + Sub
      /\ ch \in Nat /\ Sub * ch <= height /\ height < Sub * ch + Sub
      /\ x \in Nat /\ (2 * Sub) * x <= left /\ left < (2 * Sub) * x + 2 * Sub
  <2> HIDE DEF left
  <2>1. 2 * Sub \in Nat \ {0}
    OBVIOUS
  <2>2. cw \in Nat /\ Sub * cw <= width /\ width < Sub * cw + Sub
    BY <1>1, DivBounds, DivNat
  <2>3. ch \in Nat /\ Sub * ch <= height /\ height < Sub * ch + Sub
    BY <1>1, DivBounds, DivNat
  <2>4. \A b \in Nat \ {0} : /\ left \div b \in Nat
                             /\ b * (left \div b) <= left
                             /\ left < b * (left \div b) + b
    BY <1>5, DivBounds, DivNat
  <2>5. QED
    BY <2>1, <2>2, <2>3, <2>4
<1> HIDE DEF cw, ch, x
<1>7. factor * BaseHeight <= ch
  <2>1. Sub * (factor * BaseHeight) < Sub * (ch + 1)
    BY <1>5, <1>6, <1>1
  <2>2. factor * BaseHeight < ch + 1
    BY <2>1, <1>5, <1>6, TimesOrder
  <2>3. QED
    BY <2>2, <1>5, <1>6
<1>8. cw - c - x - x \in {0, 1}
  <2>1. Sub * (2 * x) < Sub * (cw - c + 1)
    BY <1>5, <1>6, <1>1
  <2>2. Sub * (cw - c) < Sub * (2 * x + 2)
    BY <1>5, <1>6, <1>1
  <2>3. /\ 2 * x < cw - c + 1 /\ cw - c < 2 * x + 2
    BY <2>1, <2>2, <1>5, <1>6, TimesOrder
  <2>4. QED
    BY <2>3, <1>5, <1>6
<1>9. \/ cw < (factor + 1) * BaseWidth
      \/ ch < (factor + 1) * BaseHeight
  <2>1. CASE factor = across
    <3>1. w * factor + w = Sub * ((factor + 1) * BaseWidth)
      BY <1>4 DEF w
    <3>2. Sub * cw < Sub * ((factor + 1) * BaseWidth)
      BY <2>1, <3>1, <1>1, <1>2, <1>4, <1>6
    <3>3. QED
      BY <3>2, <1>4, <1>6, TimesOrder
  <2>2. CASE factor = down
    <3>1. h * factor + h = Sub * ((factor + 1) * BaseHeight)
      BY <1>4 DEF h
    <3>2. Sub * ch < Sub * ((factor + 1) * BaseHeight)
      BY <2>2, <3>1, <1>1, <1>2, <1>4, <1>6
    <3>3. QED
      BY <3>2, <1>4, <1>6, TimesOrder
  <2>3. QED
    BY <2>1, <2>2, <1>4
<1> HIDE DEF left, cw, ch, c, x
<1>10. Fit(box) \in Geometry
  BY <1>0, <1>4, <1>5, <1>6 DEF Geometry, cw, ch, x
<1>11. QED
  BY <1>0, <1>7, <1>8, <1>9, <1>10 DEF cw, ch, c, x

LEMMA FittedIsGeometry == Fitted => fit \in Geometry
BY FitIsRight DEF Fitted

LEMMA FittedIsLetterbox == Fitted => Letterbox
<1> SUFFICES ASSUME NEW box \in Boxes, fit = Fit(box)
             PROVE  Letterbox
  BY DEF Fitted
<1>1. fit \in Geometry
  BY FitIsRight
<1>2. /\ fit.ctxWidth = fit.scale * BaseWidth /\ fit.ctxHeight = fit.scale * BaseHeight
      /\ fit.canvasWidth - fit.ctxWidth - fit.xOffset - fit.xOffset \in {0, 1}
      /\ fit.ctxHeight <= fit.canvasHeight
      /\ \/ fit.canvasWidth < (fit.scale + 1) * BaseWidth
         \/ fit.canvasHeight < (fit.scale + 1) * BaseHeight
  BY FitIsRight
<1>3. fit.scale > 0 /\ fit.xOffset >= 0
  BY <1>1 DEF Geometry
<1>4. QED
  BY <1>2, <1>3 DEF Letterbox

\* The numbers the drawing is made of.
LEMMA Sizes ==
  ASSUME Fitted
  PROVE  /\ fit.canvasWidth \in Nat /\ fit.canvasHeight \in Nat
         /\ fit.ctxWidth \in Nat \ {0} /\ fit.ctxHeight \in Nat \ {0}
         /\ fit.scale \in Nat \ {0} /\ fit.xOffset \in Nat
         /\ TileSize * fit.scale \in Nat \ {0}
         /\ fit.canvasWidth - fit.ctxWidth - fit.xOffset - fit.xOffset \in {0, 1}
<1>1. fit \in Geometry
  BY FittedIsGeometry
<1>2. /\ fit.canvasWidth \in Nat /\ fit.canvasHeight \in Nat
      /\ fit.ctxWidth \in Nat \ {0} /\ fit.ctxHeight \in Nat \ {0}
      /\ fit.scale \in Nat \ {0} /\ fit.xOffset \in Nat
  BY <1>1 DEF Geometry
<1>3. fit.canvasWidth - fit.ctxWidth - fit.xOffset - fit.xOffset \in {0, 1}
  BY FittedIsLetterbox DEF Letterbox
<1>4. TileSize * fit.scale \in Nat \ {0}
  BY <1>2, SizeAssumption
<1>5. QED
  BY <1>2, <1>3, <1>4

-----------------------------------------------------------------------------
(* What a frame paints *)

\* How far a row of tiles overflows the stage on each side.
Overflow == CeilDiv(fit.canvasWidth - fit.ctxWidth, 2 * (TileSize * fit.scale)) * (TileSize * fit.scale)

\* It is enough on both sides.
LEMMA OverflowEnough ==
  ASSUME Fitted
  PROVE  /\ Overflow \in Int
         /\ fit.xOffset <= Overflow
         /\ fit.canvasWidth - fit.ctxWidth - fit.xOffset <= Overflow
<1> DEFINE tile == TileSize * fit.scale
           d == fit.canvasWidth - fit.ctxWidth
           e == d - fit.xOffset - fit.xOffset
<1>1. tile \in Nat \ {0} /\ d \in Int /\ fit.xOffset \in Nat /\ e \in {0, 1}
  BY Sizes
<1> HIDE DEF tile
<1> DEFINE b == 2 * tile
           a == d + b - 1
           q == CeilDiv(d, b)
<1>2. b \in Nat \ {0} /\ a \in Int /\ q = a \div b
  BY <1>1 DEF CeilDiv
<1>3. q \in Int /\ b * q >= d
  <2> HIDE DEF a, b, d, q
  <2>1. q \in Int /\ b * q + b > a
    BY <1>2, DivBounds
  <2>2. b * q >= d
    BY <2>1, <1>1, <1>2 DEF a
  <2>3. QED
    BY <2>1, <2>2
<1> HIDE DEF q
<1>4. q * tile \in Int /\ 2 * (q * tile) >= d
  BY <1>1, <1>3
<1>5. fit.xOffset <= q * tile /\ d - fit.xOffset <= q * tile
  BY <1>1, <1>4
<1>6. Overflow = q * tile
  BY DEF Overflow, q, tile
<1>7. QED
  BY <1>4, <1>5, <1>6

\* A row of tiles spans the canvas.
LEMMA RowSpans ==
  ASSUME Fitted, NEW name, NEW y \in Int, NEW p \in 0..(fit.canvasWidth - 1)
  PROVE  \E r \in Row(name, y) :
           /\ r.y = y /\ r.height = TileSize * fit.scale
           /\ p \in r.x..(r.x + r.width - 1)
<1> DEFINE tile == TileSize * fit.scale
           from == - Overflow
           below == fit.ctxWidth + Overflow
<1>1. /\ tile \in Nat \ {0} /\ fit.xOffset \in Nat /\ fit.ctxWidth \in Nat /\ fit.canvasWidth \in Nat
  BY Sizes
<1>2. /\ Overflow \in Int /\ fit.xOffset <= Overflow
      /\ fit.canvasWidth - fit.ctxWidth - fit.xOffset <= Overflow
  BY OverflowEnough
<1>3. /\ from \in Int /\ below \in Int /\ p - fit.xOffset \in Int
      /\ from <= p - fit.xOffset /\ p - fit.xOffset < below
  BY <1>1, <1>2
<1> HIDE DEF from, below, tile
<1>4. PICK v \in Steps(from, below, tile) :
        v \in Int /\ v <= p - fit.xOffset /\ p - fit.xOffset < v + tile
  BY <1>1, <1>3, StepsCover
<1> DEFINE r == [image |-> name, x |-> fit.xOffset + v, y |-> y, width |-> tile, height |-> tile]
<1>5. r \in Row(name, y)
  BY <1>4 DEF Row, from, below, Overflow, tile
<1>6. p \in r.x..(r.x + r.width - 1)
  BY <1>1, <1>4
<1>7. r.y = y /\ r.height = tile
  OBVIOUS
<1>8. QED
  BY <1>5, <1>6, <1>7 DEF tile

\* Copies of a layer span the canvas.
LEMMA BackDropSpans ==
  ASSUME Fitted, NEW name, NEW p \in 0..(fit.canvasWidth - 1)
  PROVE  \E r \in BackDrop(name) :
           /\ r.y = 0 /\ r.height = fit.ctxHeight
           /\ p \in r.x..(r.x + r.width - 1)
<1> DEFINE c == fit.ctxWidth
           w == fit.canvasWidth
           a == p - fit.xOffset
           overflow == w \div c
           k == a \div c
<1>1. /\ c \in Nat \ {0} /\ fit.xOffset \in Nat /\ w \in Nat
      /\ w - c - fit.xOffset - fit.xOffset \in {0, 1}
      /\ a \in Int /\ - fit.xOffset <= a /\ a < w
  BY Sizes
<1> HIDE DEF c, w, a
<1>2. overflow \in Nat /\ w < c * overflow + c
  <2>1. overflow \in Nat
    BY <1>1, DivNat
  <2>2. w < c * overflow + c
    BY <1>1, DivBounds
  <2>3. QED
    BY <2>1, <2>2
<1>3. k \in Int /\ c * k <= a /\ a < c * k + c
  BY <1>1, DivBounds
<1> HIDE DEF overflow, k
<1>4. k < overflow + 1
  <2>1. c * k < c * (overflow + 1)
    BY <1>1, <1>2, <1>3
  <2>2. QED
    BY <2>1, <1>1, <1>2, <1>3, TimesOrder
<1>5. - overflow - 1 < k
  <2>1. c * (- overflow - 1) < c * k
    BY <1>1, <1>2, <1>3
  <2>2. QED
    BY <2>1, <1>1, <1>2, <1>3, TimesOrder
<1> DEFINE r == [image |-> name, x |-> fit.xOffset + k * fit.ctxWidth, y |-> 0,
                 width |-> fit.ctxWidth, height |-> fit.ctxHeight]
<1>6. r \in BackDrop(name)
  BY <1>2, <1>3, <1>4, <1>5 DEF BackDrop, overflow, c, w
<1>7. p \in r.x..(r.x + r.width - 1)
  BY <1>1, <1>3 DEF c, a
<1>8. QED
  BY <1>6, <1>7

\* Rows under rows span what is below the stage.
LEMMA UndergroundSpans ==
  ASSUME Fitted, NEW name, NEW p \in 0..(fit.canvasWidth - 1),
         NEW q \in fit.ctxHeight..(fit.canvasHeight - 1)
  PROVE  \E r \in Underground(name) :
           p \in r.x..(r.x + r.width - 1) /\ q \in r.y..(r.y + r.height - 1)
<1> DEFINE tile == TileSize * fit.scale
           rows == Steps(fit.ctxHeight, fit.canvasHeight + 1, tile)
<1>1. tile \in Nat \ {0} /\ fit.ctxHeight \in Nat /\ fit.canvasHeight \in Nat
  BY Sizes
<1> HIDE DEF tile
<1>2. PICK y \in rows : y \in Int /\ y <= q /\ q < y + tile
  <2> DEFINE from == fit.ctxHeight
             below == fit.canvasHeight + 1
  <2>1. from \in Int /\ below \in Int /\ q \in Int /\ from <= q /\ q < below
    BY <1>1
  <2> HIDE DEF from, below
  <2>2. \E v \in Steps(from, below, tile) : v \in Int /\ v <= q /\ q < v + tile
    BY <2>1, <1>1, StepsCover
  <2>3. QED
    BY <2>2 DEF from, below
<1>3. PICK r \in Row(name, y) :
        r.y = y /\ r.height = tile /\ p \in r.x..(r.x + r.width - 1)
  BY <1>2, RowSpans DEF tile
<1>4. q \in r.y..(r.y + r.height - 1)
  BY <1>1, <1>2, <1>3
<1>5. r \in Underground(name)
  BY <1>2, <1>3 DEF Underground, tile
<1>6. QED
  BY <1>3, <1>4, <1>5

\* The part of the canvas NoGaps asks of an image.
Span(n) ==
  CASE n = "floor" -> (fit.ctxHeight - TileSize * fit.scale)..(fit.ctxHeight - 1)
    [] n = "underground" -> fit.ctxHeight..(fit.canvasHeight - 1)
    [] OTHER -> 0..(fit.ctxHeight - 1)

\* Whatever is painted of an image as a whole leaves no gap.
LEMMA PaintSpans ==
  ASSUME Fitted, NEW n, NEW rectangles, Paint(n) \subseteq rectangles
  PROVE  Covers(rectangles, 0..(fit.canvasWidth - 1), Span(n))
<1> SUFFICES ASSUME NEW p \in 0..(fit.canvasWidth - 1), NEW q \in Span(n)
             PROVE  \E r \in Paint(n) :
                      p \in r.x..(r.x + r.width - 1) /\ q \in r.y..(r.y + r.height - 1)
  BY DEF Covers
<1>1. /\ TileSize * fit.scale \in Nat \ {0} /\ fit.ctxHeight \in Nat \ {0}
      /\ fit.canvasHeight \in Nat
  BY Sizes
<1>2. CASE n = "floor"
  <2> DEFINE y == fit.ctxHeight - TileSize * fit.scale
  <2>1. y \in Int
    BY <1>1
  <2>2. PICK r \in Row(n, y) : /\ r.y = y /\ r.height = TileSize * fit.scale
                               /\ p \in r.x..(r.x + r.width - 1)
    BY <2>1, RowSpans
  <2>3. q \in r.y..(r.y + r.height - 1)
    BY <1>1, <1>2, <2>1, <2>2 DEF Span
  <2>4. QED
    BY <1>2, <2>2, <2>3 DEF Paint
<1>3. CASE n = "underground"
  <2>1. q \in fit.ctxHeight..(fit.canvasHeight - 1) /\ Paint(n) = Underground(n)
    BY <1>3 DEF Span, Paint
  <2>2. QED
    BY <2>1, UndergroundSpans
<1>4. CASE n \notin {"floor", "underground"}
  <2>1. q \in 0..(fit.ctxHeight - 1) /\ Paint(n) = BackDrop(n)
    BY <1>4 DEF Span, Paint
  <2>2. PICK r \in BackDrop(n) : /\ r.y = 0 /\ r.height = fit.ctxHeight
                                 /\ p \in r.x..(r.x + r.width - 1)
    BY BackDropSpans
  <2>3. QED
    BY <1>1, <2>1, <2>2
<1>5. QED
  BY <1>2, <1>3, <1>4

\* What is painted of an image carries its name and has a type.
LEMMA PaintType ==
  ASSUME Fitted, NEW n \in Images
  PROVE  Paint(n) \subseteq {r \in Rectangle : r.image = n}
<1> DEFINE tile == TileSize * fit.scale
<1>1. /\ tile \in Nat \ {0} /\ fit.xOffset \in Nat
      /\ fit.ctxWidth \in Nat \ {0} /\ fit.ctxHeight \in Nat \ {0}
      /\ fit.canvasHeight \in Nat /\ fit.canvasWidth \in Nat
  BY Sizes
<1>2. Overflow \in Int
  BY OverflowEnough
<1>3. \A y \in Int : Row(n, y) \subseteq {r \in Rectangle : r.image = n}
  <2> SUFFICES ASSUME NEW y \in Int, NEW r \in Row(n, y)
               PROVE  r \in Rectangle /\ r.image = n
    OBVIOUS
  <2> HIDE DEF tile
  <2>1. PICK v \in Steps(- Overflow, fit.ctxWidth + Overflow, tile) :
          r = [image |-> n, x |-> fit.xOffset + v, y |-> y, width |-> tile, height |-> tile]
    BY DEF Row, Overflow, tile
  <2>2. v \in Int
    BY <1>1, <1>2, StepsInt
  <2>3. QED
    BY <2>1, <2>2, <1>1 DEF Rectangle
<1>4. Underground(n) \subseteq {r \in Rectangle : r.image = n}
  <2> HIDE DEF tile
  <2>1. Steps(fit.ctxHeight, fit.canvasHeight + 1, tile) \subseteq Int
    BY <1>1, StepsInt
  <2>2. QED
    BY <2>1, <1>3 DEF Underground, tile
<1>5. BackDrop(n) \subseteq {r \in Rectangle : r.image = n}
  <2> SUFFICES ASSUME NEW r \in BackDrop(n)
               PROVE  r \in Rectangle /\ r.image = n
    OBVIOUS
  <2>1. fit.canvasWidth \div fit.ctxWidth \in Int
    BY <1>1, DivBounds
  <2>2. PICK k \in (- (fit.canvasWidth \div fit.ctxWidth))..(fit.canvasWidth \div fit.ctxWidth) :
          r = [image |-> n, x |-> fit.xOffset + k * fit.ctxWidth, y |-> 0,
               width |-> fit.ctxWidth, height |-> fit.ctxHeight]
    BY DEF BackDrop
  <2>3. fit.xOffset + k * fit.ctxWidth \in Int
    BY <1>1, <2>1
  <2>4. QED
    BY <2>2, <2>3, <1>1 DEF Rectangle
<1>6. fit.ctxHeight - tile \in Int
  BY <1>1
<1>7. QED
  BY <1>3, <1>4, <1>5, <1>6 DEF Paint

-----------------------------------------------------------------------------
(* The invariant and the theorems *)

LEMMA InitIInv == Init => IInv
<1> SUFFICES ASSUME Init PROVE IInv
  OBVIOUS
<1>1. Fitted /\ Whole
  BY DEF Init, Fitted, Whole
<1>2. TypeOK
  BY <1>1, FittedIsGeometry DEF Init, TypeOK
<1>3. QED
  BY <1>1, <1>2 DEF IInv

\* A resize takes the sizes of a box and leaves nothing painted.
LEMMA ResizeIInv == IInv /\ Resize => IInv'
<1> SUFFICES ASSUME IInv, Resize PROVE IInv'
  OBVIOUS
<1>1. PICK box \in Boxes : fit' = Fit(box)
  BY DEF Resize
<1>2. Fitted'
  BY <1>1 DEF Fitted, Fit
<1>3. fit' \in Geometry
  BY <1>1, FitIsRight
<1>4. Whole'
  BY DEF Resize, Whole
<1>5. TypeOK'
  BY <1>3 DEF Resize, IInv, TypeOK
<1>6. QED
  BY <1>2, <1>4, <1>5 DEF IInv

\* What an image is to cover depends on the sizes only.
LEMMA SameSizes ==
  ASSUME IInv, UNCHANGED <<fit, picture>>
  PROVE  Fitted' /\ Whole'
<1>1. fit' = fit /\ picture' = picture
  OBVIOUS
<1>2. Fitted'
  BY <1>1 DEF IInv, Fitted, Fit
<1>3. ASSUME NEW n PROVE Paint(n)' = Paint(n)
  BY <1>1 DEF Paint, Row, Underground, BackDrop
<1>4. Whole'
  BY <1>1, <1>3 DEF IInv, Whole
<1>5. QED
  BY <1>2, <1>4

\* A frame adds whole images, for the sizes there are.
LEMMA FrameIInv == IInv /\ Frame => IInv'
<1> SUFFICES ASSUME IInv, Frame PROVE IInv'
  OBVIOUS
<1> DEFINE painted == {Order[i] : i \in {j \in Reached : image[Order[j]] = "loaded"}}
<1>1. painted \subseteq Images
  BY DEF Reached, Images
<1>2. picture' = picture \cup UNION {Paint(n) : n \in painted}
  BY DEF Frame
<1>3. /\ Fitted /\ Fitted' /\ fit' = fit /\ image' = image
      /\ \A n : Paint(n)' = Paint(n)
  <2>1. fit' = fit /\ image' = image
    BY DEF Frame
  <2>2. Fitted /\ Fitted'
    BY <2>1 DEF IInv, Fitted, Fit
  <2>3. ASSUME NEW n PROVE Paint(n)' = Paint(n)
    BY <2>1 DEF Paint, Row, Underground, BackDrop
  <2>4. QED
    BY <2>1, <2>2, <2>3
<1> HIDE DEF painted
<1>4. \A n \in painted : Paint(n) \subseteq {r \in Rectangle : r.image = n}
  BY <1>1, <1>3, PaintType
<1>5. TypeOK'
  <2>1. picture' \subseteq Rectangle
    BY <1>2, <1>4 DEF IInv, TypeOK
  <2>2. scheduled' \in BOOLEAN
    BY DEF Frame
  <2>3. QED
    BY <2>1, <2>2, <1>3 DEF IInv, TypeOK
<1>6. Whole'
  <2> SUFFICES ASSUME NEW r \in picture' PROVE Paint(r.image) \subseteq picture'
    BY <1>3 DEF Whole
  <2>1. CASE r \in picture
    BY <2>1, <1>2 DEF IInv, Whole
  <2>2. CASE \E n \in painted : r \in Paint(n)
    BY <2>2, <1>2, <1>4
  <2>3. QED
    BY <2>1, <2>2, <1>2
<1>7. QED
  BY <1>3, <1>5, <1>6 DEF IInv

\* Neither sizes nor picture change with the images.
LEMMA ImageIInv == ASSUME NEW n \in Images PROVE IInv /\ ImageArrives(n) => IInv'
<1> SUFFICES ASSUME IInv, ImageArrives(n) PROVE IInv'
  OBVIOUS
<1>1. TypeOK'
  BY DEF ImageArrives, IInv, TypeOK
<1>2. Fitted' /\ Whole'
  BY SameSizes DEF ImageArrives
<1>3. QED
  BY <1>1, <1>2 DEF IInv

LEMMA StutterIInv == IInv /\ UNCHANGED vars => IInv'
<1> SUFFICES ASSUME IInv, UNCHANGED vars PROVE IInv'
  OBVIOUS
<1>1. TypeOK'
  BY DEF vars, IInv, TypeOK
<1>2. Fitted' /\ Whole'
  BY SameSizes DEF vars
<1>3. QED
  BY <1>1, <1>2 DEF IInv

LEMMA NextIInv == IInv /\ [Next]_vars => IInv'
BY ResizeIInv, FrameIInv, ImageIInv, StutterIInv DEF Next

\* An image of which a part is painted is painted as a whole, and that spans
\* the canvas.
LEMMA IInvNoGaps == IInv => NoGaps
<1> SUFFICES ASSUME IInv, NEW n \in Images, Painted(n) # {}
             PROVE  Covers(Painted(n), 0..(fit.canvasWidth - 1), Span(n))
  BY DEF NoGaps, Span
<1>1. PICK r \in picture : r.image = n
  BY DEF Painted
<1>2. Paint(n) \subseteq picture
  BY <1>1 DEF IInv, Whole
<1>3. Paint(n) \subseteq Painted(n)
  BY <1>2, PaintType DEF IInv, Painted
<1>4. QED
  BY <1>3, PaintSpans DEF IInv

LEMMA Invariance == Spec => []IInv
BY InitIInv, NextIInv, PTL DEF Spec

\* The sizes, the images and the picture keep their types, whatever the window's
\* sizes: the factor stays above zero (DisplayDriver.resize, draw).
THEOREM TypeCorrect == Spec => []TypeOK
<1>1. IInv => TypeOK
  BY DEF IInv
<1>2. QED
  BY <1>1, Invariance, PTL

\* After any sequence of resize events the stage is on the canvas, in the middle,
\* at the largest whole factor (DisplayDriver.resize).
THEOREM StaysLetterboxed == Spec => []Letterbox
<1>1. IInv => Letterbox
  BY FittedIsLetterbox DEF IInv
<1>2. QED
  BY <1>1, Invariance, PTL

\* Whatever an image has been painted on since the last resize is covered by it
\* to the edges of the canvas (drawBackDrop, drawStage, drawRow).
THEOREM LeavesNoGaps == Spec => []NoGaps
BY IInvNoGaps, Invariance, PTL
=============================================================================
