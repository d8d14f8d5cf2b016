\* A stage of 8 x 5 with tiles of 3, sizes in half pixels.
SPECIFICATION FairSpec
CONSTANTS
  BaseWidth = 8
  BaseHeight = 5
  TileSize = 3
  Layers <- SomeLayers
  Sub = 2
  Boxes <- SomeBoxes
INVARIANTS TypeOK Letterbox NoGaps
PROPERTY FillsUp
