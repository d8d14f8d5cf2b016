------------------------------ MODULE MCDisplay ------------------------------
(* A small stage for TLC: parents from smaller than the stage to five times  *)
(* as wide and twice as high, with every remainder, in half pixels.          *)
EXTENDS Display

SomeLayers == <<"far", "near">>
SomeBoxes == {3, 15, 16, 17, 18, 19, 25, 31, 34, 47, 79} \X {7, 10, 11, 15, 21, 24}
=============================================================================
