\* A single player game.
SPECIFICATION FairSpec
CONSTANTS
  Units <- SomeUnits
  Moves <- TheirMoves
  Damage <- TheirDamage
  Friendly = {"Heal", "Defend"}
  MaxHealth <- TheirHealth
  Script <- TheScript
  Frames <- TheFrames
  Girth <- TheirGirth
  HalfWidth = 160
  BurstShift = 36
  None = None
INVARIANTS TypeOK OneAtATime ResultsCount Repose ScreenOnTop TurnComplete
PROPERTY TurnEnds
\* The player may stop clicking, the turn does not come back, and frames end
\* with an exception.
CHECK_DEADLOCK FALSE
