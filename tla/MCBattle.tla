------------------------------ MODULE MCBattle -------------------------------
(* Two of the three units with their moves and boxes as in app.ts, shorter    *)
(* animations, and healths at which a turn kills on both sides.               *)
EXTENDS Battle

SomeUnits == <<"BlueWitch", "Knight">>
TheirMoves == [BlueWitch |-> {"Heal", "Arcane Burst"}, Knight |-> {"Slash", "Defend"}]
TheirDamage == [m \in MoveSet |->
  CASE m = "Heal" -> -3 [] m = "Arcane Burst" -> 4 [] m = "Slash" -> 5 [] m = "Defend" -> 0]
TheirHealth == [c \in Characters |->
  CASE c = <<"enemy", "BlueWitch">> -> 1 [] c = <<"enemy", "Knight">> -> 5
    [] c = <<"own", "BlueWitch">> -> 4 [] OTHER -> 5]
TheScript == [m \in MoveSet \ {"Defend"} |->
  CASE m = "Heal" -> <<"Pose">>
    [] m = "Arcane Burst" -> <<"WitchWalkTarget", "ArcaneBurst", "WalkBack">>
    [] m = "Slash" -> <<"KnightWalkTarget", "Strike", "WalkBack">>]
TheFrames == [p \in Parts |-> IF p \in {"Strike", "ArcaneBurst", "Pose"} THEN 1 ELSE 2]
TheirGirth == [BlueWitch |-> 32, Knight |-> 27]
=============================================================================
