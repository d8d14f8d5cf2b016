------------------------------- MODULE Display -------------------------------
(***************************************************************************)
(* The web client as it runs (app.ts, DisplayDriver and Game): a stage of  *)
(* BaseWidth x BaseHeight, enlarged by a whole factor, in the middle of a  *)
(* canvas that takes the size of its parent element.  Frames paint it,     *)
(* resize events clear it, images arrive or fail in between.               *)
(*                                                                         *)
(* The parent's size may be fractional: it is counted in Sub-ths of a      *)
(* pixel, and canvas.width and canvas.height truncate it.  cY and rX, rY   *)
(* and yOffset are not used by any drawing.  Images are what drawImage     *)
(* asks of them: one that is still loading paints nothing, one that failed *)
(* throws.                                                                 *)
(***************************************************************************)
EXTENDS Integers, Sequences

CONSTANTS
  BaseWidth, BaseHeight,   \* BASE_WIDTH, BASE_HEIGHT
  TileSize,                \* both tiles are TileSize x TileSize
  Layers,                  \* the images of JUNGLE_BACKGROUND, in order
  Sub,                     \* sizes of the parent are multiples of 1/Sub pixel
  Boxes                    \* the sizes its window gives the parent: <<w, h>>

ASSUME SizeAssumption ==
  /\ BaseWidth \in Nat \ {0} /\ BaseHeight \in Nat \ {0}
  /\ TileSize \in Nat \ {0} /\ Sub \in Nat \ {0}
ASSUME LayersAssumption == Layers \in Seq(STRING)
ASSUME BoxAssumption == Boxes \subseteq Nat \X Nat

VARIABLES
  fit,        \* the sizes resize has set: ctx.canvas's, the stage's, its offset
  image,      \* what has become of each image
  scheduled,  \* requestAnimationFrame has a callback to call
  picture     \* what drawImage has painted since the canvas was last cleared

vars == <<fit, image, scheduled, picture>>

\* The order in which a frame draws.
Order == Layers \o <<"floor", "underground">>
Images == {Order[i] : i \in 1..Len(Order)}

Geometry == [canvasWidth : Nat, canvasHeight : Nat, ctxWidth : Nat \ {0},
             ctxHeight : Nat \ {0}, scale : Nat \ {0}, xOffset : Nat]
Rectangle == [image : Images, x : Int, y : Int, width : Nat, height : Nat]

TypeOK ==
  /\ fit \in Geometry
  /\ image \in [Images -> {"loading", "loaded", "broken"}]
  /\ scheduled \in BOOLEAN
  /\ picture \subseteq Rectangle

AtLeast(a, b) == IF a >= b THEN a ELSE b
AtMost(a, b) == IF a <= b THEN a ELSE b
CeilDiv(a, b) == (a + b - 1) \div b

-----------------------------------------------------------------------------
(* resize *)

\* (mutant) Without the minimum.
FitAnySize(box) ==
  LET factor == AtMost(box[1] \div (Sub * BaseWidth), box[2] \div (Sub * BaseHeight))
  IN  [scale |-> factor,
       ctxWidth |-> factor * BaseWidth, ctxHeight |-> factor * BaseHeight,
       canvasWidth |-> box[1] \div Sub, canvasHeight |-> box[2] \div Sub,
       xOffset |-> (box[1] - Sub * (factor * BaseWidth)) \div (2 * Sub)]

\* The sizes for a parent of box[1] x box[2]: the largest whole factor at which
\* the stage fits, and the offset that centres it.
Fit(box) ==
  LET width == AtLeast(box[1], Sub * BaseWidth)
      height == AtLeast(box[2], Sub * BaseHeight)
      factor == AtMost(width \div (Sub * BaseWidth), height \div (Sub * BaseHeight))
  IN  [scale |-> factor,
       ctxWidth |-> factor * BaseWidth, ctxHeight |-> factor * BaseHeight,
       canvasWidth |-> width \div Sub, canvasHeight |-> height \div Sub,
       xOffset |-> (width - Sub * (factor * BaseWidth)) \div (2 * Sub)]

\* (mutant) A parent that is too small leaves scale and offset as they are.
ResizeOrKeep ==
  /\ \E box \in Boxes :
       fit' = IF box[1] < Sub * BaseWidth \/ box[2] < Sub * BaseHeight
              THEN [fit EXCEPT !.canvasWidth = BaseWidth, !.canvasHeight = BaseHeight,
                               !.ctxWidth = BaseWidth, !.ctxHeight = BaseHeight]
              ELSE Fit(box)
  /\ picture' = {}
  /\ UNCHANGED <<image, scheduled>>

\* The listener of "resize".  Assigning canvas.width clears the canvas.
Resize ==
  /\ \E box \in Boxes : fit' = Fit(box)
  /\ picture' = {}
  /\ UNCHANGED <<image, scheduled>>

-----------------------------------------------------------------------------
(* draw *)

\* for (let v = from; v < below; v += by)
Steps(from, below, by) == {from + k * by : k \in 0..((below - from - 1) \div by)}

\* (mutant) The overflow is rounded down.
ShortRow(name, y) ==
  LET tile == TileSize * fit.scale
      overflowTilesWidth == ((fit.canvasWidth - fit.ctxWidth) \div (2 * tile)) * tile
  IN  {[image |-> name, x |-> fit.xOffset + x, y |-> y, width |-> tile, height |-> tile] :
         x \in Steps(- overflowTilesWidth, fit.ctxWidth + overflowTilesWidth, tile)}

\* drawRow: tiles over the width of the canvas.
Row(name, y) ==
  LET tile == TileSize * fit.scale
      overflowTilesWidth == CeilDiv(fit.canvasWidth - fit.ctxWidth, 2 * tile) * tile
  IN  {[image |-> name, x |-> fit.xOffset + x, y |-> y, width |-> tile, height |-> tile] :
         x \in Steps(- overflowTilesWidth, fit.ctxWidth + overflowTilesWidth, tile)}

\* drawBackDrop: the layer side by side, as often as the canvas is wide.
BackDrop(name) ==
  LET overflow == fit.canvasWidth \div fit.ctxWidth
  IN  {[image |-> name, x |-> fit.xOffset + k * fit.ctxWidth, y |-> 0,
        width |-> fit.ctxWidth, height |-> fit.ctxHeight] : k \in (- overflow)..overflow}

\* drawStage: the floor at the foot of the stage, underground below it.
Underground(name) ==
  UNION {Row(name, y) : y \in Steps(fit.ctxHeight, fit.canvasHeight + 1, TileSize * fit.scale)}

Paint(name) ==
  CASE name = "floor" -> Row(name, fit.ctxHeight - TileSize * fit.scale)
    [] name = "underground" -> Underground(name)
    [] OTHER -> BackDrop(name)

\* How far draw gets: up to the first broken image, whose drawImage throws.
Reached == {i \in 1..Len(Order) : \A j \in 1..i : image[Order[j]] # "broken"}

\* (mutant) Frames end once every image has arrived.
FrameUntilLoaded ==
  /\ scheduled
  /\ picture' = picture \cup UNION {Paint(Order[i]) : i \in {j \in Reached : image[Order[j]] = "loaded"}}
  /\ scheduled' = (\E n \in Images : image[n] = "loading")
  /\ UNCHANGED <<fit, image>>

\* Game.draw: draws, and asks for the next frame unless an exception leaves it.
Frame ==
  /\ scheduled
  /\ picture' = picture \cup UNION {Paint(Order[i]) : i \in {j \in Reached : image[Order[j]] = "loaded"}}
  /\ scheduled' = (Reached = 1..Len(Order))
  /\ UNCHANGED <<fit, image>>

-----------------------------------------------------------------------------
\* An image of newBackDrop or newTileSet arrives, or cannot be fetched.
ImageArrives(name) ==
  /\ image[name] = "loading"
  /\ \E outcome \in {"loaded", "broken"} : image' = [image EXCEPT ![name] = outcome]
  /\ UNCHANGED <<fit, scheduled, picture>>

\* main: the constructor of DisplayDriver fits the canvas, that of Game draws a
\* first frame, before any image has arrived.
Init ==
  /\ \E box \in Boxes : fit = Fit(box)
  /\ image = [n \in Images |-> "loading"]
  /\ scheduled = TRUE
  /\ picture = {}

Next == Resize \/ Frame \/ \E n \in Images : ImageArrives(n)

Spec == Init /\ [][Next]_vars

\* The browser calls the callbacks it was given, and a request for an image is
\* answered some time.  Nothing makes the user resize the window.
FairSpec == Spec /\ WF_vars(Frame) /\ \A n \in Images : WF_vars(ImageArrives(n))

-----------------------------------------------------------------------------
(* Properties *)

\* "this ensures it wont brick the game if the user decides to ... make their
\* screen smaller" (app.ts:1137), after any sequence of sizes: the stage is on
\* the canvas, in the middle to a pixel, its factor whole and the largest.
Letterbox ==
  LET right == fit.canvasWidth - fit.ctxWidth - fit.xOffset
  IN  /\ fit.ctxWidth = fit.scale * BaseWidth /\ fit.ctxHeight = fit.scale * BaseHeight
      /\ fit.scale > 0
      /\ fit.xOffset >= 0 /\ right - fit.xOffset \in {0, 1}
      /\ fit.ctxHeight <= fit.canvasHeight
      /\ \/ fit.canvasWidth < (fit.scale + 1) * BaseWidth
         \/ fit.canvasHeight < (fit.scale + 1) * BaseHeight

Painted(name) == {r \in picture : r.image = name}

Covers(rectangles, xs, ys) ==
  \A x \in xs, y \in ys : \E r \in rectangles :
    x \in r.x..(r.x + r.width - 1) /\ y \in r.y..(r.y + r.height - 1)

\* What is on the canvas has no gap up to the edges, whatever the remainder of
\* its width by the tiles: the backdrop and the floor span the stage's height
\* and the last tile of it, underground spans what is below.
NoGaps ==
  \A n \in {m \in Images : Painted(m) # {}} :
    Covers(Painted(n), 0..(fit.canvasWidth - 1),
           CASE n = "floor" -> (fit.ctxHeight - TileSize * fit.scale)..(fit.ctxHeight - 1)
             [] n = "underground" -> fit.ctxHeight..(fit.canvasHeight - 1)
             [] OTHER -> 0..(fit.ctxHeight - 1))

\* However late images arrive and however often the window is resized, there is
\* always a later moment at which all of the picture is there, unless one of the
\* images cannot be fetched.
FillsUp ==
  []<>(\/ \A n \in Images : Painted(n) # {}
       \/ \E n \in Images : image[n] = "broken")
=============================================================================
