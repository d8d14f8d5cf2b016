------------------------------- MODULE Battle --------------------------------
(***************************************************************************)
(* The battle of the web client (app.ts 7-2092: GameState, Game.update,    *)
(* Animator, NOPCommunicationsDriver, UI), in single player mode.  The     *)
(* repository keeps this code commented out while the client is rewritten  *)
(* around it.                                                              *)
(*                                                                         *)
(* EventBus.send calls Game.update there and then, so what a click or a    *)
(* frame sets off is one step, from the listener or the callback to its    *)
(* end.  A character is its side and its unit, an attack says who hits     *)
(* whom with which move.  All characters carry TeamOne (those of the       *)
(* driver keep the constructor's default), so the animations that ask for  *)
(* the team take the branch of the player's own.  frameDelay, the frames   *)
(* of a sprite sheet and heights are left out; positions are along x.      *)
(***************************************************************************)
EXTENDS Integers, SequencesExt

CONSTANTS
  Units,       \* the units of a team, in order (constructTeam)
  Moves,       \* the moves of each unit
  Damage,      \* of each move; healing is negative
  Friendly,    \* the moves whose target is Target.OwnTeam
  MaxHealth,   \* of each character
  Script,      \* the parts of each animation the Animator has registered
  Frames,      \* how many frames each part takes
  Girth,       \* the width of the bounding box of each unit
  HalfWidth,   \* half of BASE_WIDTH
  BurstShift,  \* how far animateWitchArcaneBurst moves the witch
  None         \* null

Sides == {"own", "enemy"}
UnitSet == {Units[i] : i \in 1..Len(Units)}
Characters == Sides \X UnitSet
MoveSet == UNION {Moves[u] : u \in UnitSet}
Attack == [by : Characters, on : Characters, move : MoveSet]
Modes == {"TitleScreen", "Waiting", "InGame", "OpponentTurn", "GameWin", "GameLose"}
Walks == {"KnightWalkTarget", "WitchWalkTarget"}
Parts == Walks \cup {"Strike", "ArcaneBurst", "WalkBack", "Pose"}

ASSUME TeamAssumption ==
  /\ Units \in Seq(STRING) /\ Units # <<>>
  /\ \A i, j \in 1..Len(Units) : Units[i] = Units[j] => i = j
ASSUME MovesAssumption ==
  /\ Moves \in [UnitSet -> SUBSET STRING] /\ \A u \in UnitSet : Moves[u] # {}
  /\ Damage \in [MoveSet -> Int] /\ Friendly \subseteq MoveSet
  /\ MaxHealth \in [Characters -> Nat \ {0}]
ASSUME ScriptAssumption ==
  /\ DOMAIN Script \subseteq MoveSet
  /\ \A m \in DOMAIN Script : Script[m] \in Seq(Parts) /\ Script[m] # <<>>
  /\ Frames \in [Parts -> Nat \ {0}]
\* An animation that leads away from the place ends with the walk back, which is
\* the last part and starts from standing; "run" is no move, but the name of the
\* look that tells a walk back that is under way.
ASSUME ReturnAssumption ==
  /\ "run" \notin DOMAIN Script
  /\ \A m \in DOMAIN Script :
       LET last == Len(Script[m])
       IN  /\ \A i \in 1..last : Script[m][i] = "WalkBack" => i = last
           /\ (\E i \in 1..last : Script[m][i] \in Walks \cup {"ArcaneBurst"}) =>
                Script[m][last] = "WalkBack"
           /\ Script[m][last] = "WalkBack" /\ last > 1 => Script[m][last - 1] \notin Walks
ASSUME PlaceAssumption ==
  Girth \in [UnitSet -> Int] /\ HalfWidth \in Nat /\ BurstShift \in Int
\* What is done to the own team heals, or does nothing.
ASSUME FriendlyAssumption == \A m \in Friendly : Damage[m] <= 0
ASSUME NoneAssumption == None \notin Attack

VARIABLES
  mode,       \* ui.curMode
  screens,    \* the RenderStack of each mode
  teamId,     \* gameState.teamId
  living,     \* gameState.team and enemyTeam
  health,
  queue,      \* attackQueue; from setResults on also results, the same array
  current,    \* curResultIdx, from 1; 0 for null
  animating,
  playing,    \* Animator.characters: the attack a character is to perform
  part,       \* animationsIdx of each registered animation, from 1
  frame,      \* curFrame of that part
  sprite,
  looping     \* draw asks for another frame; an exception in it ends that

ui == <<mode, screens>>
state == <<teamId, living, health, queue, current, animating>>
animator == <<playing, part, frame, sprite>>
vars == <<ui, state, animator, looping>>

\* Where a sprite is drawn, and how.
Look == [x : Int, animation : {"idle", "run", "damage"} \cup MoveSet, mirrored : BOOLEAN]

Element == {<<"panel">>} \cup ({"menu"} \X UnitSet) \cup ({"menu"} \X UnitSet \X MoveSet)

TypeOK ==
  /\ mode \in Modes
  /\ screens \in [Modes -> Seq(Element)]
  /\ teamId \in {"null", "TeamOne", "TeamTwo"}
  /\ living \in [Sides -> Seq(UnitSet)]
  /\ health \in [Characters -> Nat] /\ \A c \in Characters : health[c] <= MaxHealth[c]
  /\ queue \in Seq(Attack)
  /\ current \in Nat
  /\ animating \in BOOLEAN
  /\ playing \in [Characters -> Attack \cup {None}]
  /\ part \in [DOMAIN Script -> Nat \ {0}]
  /\ frame \in [DOMAIN Script -> Nat]
  /\ sprite \in [Characters -> Look]
  /\ looping \in BOOLEAN

-----------------------------------------------------------------------------
(* Where everything starts *)

Spacing == HalfWidth \div (Len(Units) + 1)

Place(u) == CHOOSE i \in 1..Len(Units) : Units[i] = u

\* originalPosition: the player's team from the left, the other from the right.
Home(c) ==
  LET i == Place(c[2])
  IN  IF c[1] = "own" THEN Spacing * i ELSE Spacing * (Len(Units) + 1 - i) + HalfWidth

AtRest(c) == [x |-> Home(c), animation |-> "idle", mirrored |-> c[1] = "enemy"]

\* The constructors of Game, GameState, UI and Animator.  constructMainScreen
\* and constructWaitingScreen have run.
Init ==
  /\ mode = "TitleScreen"
  /\ screens = [m \in Modes |-> IF m \in {"TitleScreen", "Waiting"} THEN <<<<"panel">>>> ELSE <<>>]
  /\ teamId = "null"
  /\ living = [s \in Sides |-> IF s = "own" THEN Units ELSE <<>>]
  /\ health = MaxHealth
  /\ queue = <<>> /\ current = 0 /\ animating = FALSE
  /\ playing = [c \in Characters |-> None]
  /\ part = [m \in DOMAIN Script |-> 1]
  /\ frame = [m \in DOMAIN Script |-> Frames[Script[m][1]]]
  /\ sprite = [c \in Characters |-> AtRest(c)]
  /\ looping = TRUE

-----------------------------------------------------------------------------
(* The title screen *)

\* CREATE_ROOM.  WebSocketDriver does nothing, so this waits for good.
CreateRoom ==
  /\ mode = "TitleScreen"
  /\ mode' = "Waiting" /\ teamId' = "TeamOne"
  /\ UNCHANGED <<screens, living, health, queue, current, animating, animator, looping>>

\* JOIN_ROOM, which is what "Change Team" sends too.
JoinRoom ==
  /\ mode = "TitleScreen"
  /\ teamId' = "TeamTwo"
  /\ UNCHANGED <<ui, living, health, queue, current, animating, animator, looping>>

\* SINGLE_PLAYER: connect sends CONNECT, which builds the two screens of the
\* game, and START_GAME follows before any other event.
SinglePlayer ==
  /\ mode = "TitleScreen"
  /\ mode' = "InGame" /\ teamId' = "TeamOne"
  /\ screens' = [screens EXCEPT !["InGame"] = Append(@, <<"panel">>),
                                !["OpponentTurn"] = Append(@, <<"panel">>)]
  /\ living' = [living EXCEPT !["enemy"] = Units]
  /\ UNCHANGED <<health, queue, current, animating, animator, looping>>

-----------------------------------------------------------------------------
(* Choosing attacks: the menus constructGameScreen has built *)

Top == screens[mode][Len(screens[mode])]
Pushed(e) == [screens EXCEPT ![mode] = Append(@, e)]
Popped == [screens EXCEPT ![mode] = SubSeq(@, 1, Len(@) - 1)]

\* RenderStack.popBackTo: down to the element, or to nothing.
PopBackTo(s, e) ==
  LET found == {i \in 1..Len(s) : s[i] = e}
  IN  SubSeq(s, 1, CHOOSE n \in {0} \cup found : \A i \in found : i <= n)

\* The menus inside the element on top: characters, then their moves.
MenusOf(e) ==
  IF e = <<"panel">> THEN {<<"menu", u>> : u \in UnitSet}
  ELSE IF Len(e) = 2 THEN {<<"menu", e[2], m>> : m \in Moves[e[2]]}
  ELSE {}

\* UI_TOGGLE
OpenMenu ==
  /\ mode = "InGame"
  /\ \E e \in MenusOf(Top) : screens' = Pushed(e)
  /\ UNCHANGED <<mode, state, animator, looping>>

\* UI_UNTOGGLE, of the back button every menu has
Back ==
  /\ mode = "InGame" /\ Top # <<"panel">>
  /\ screens' = Popped
  /\ UNCHANGED <<mode, state, animator, looping>>

\* (mutant) The choice before stays.
QueuedAlso(a) == Append(queue, a)

\* GameState.queAttack: the last choice for a character counts.
QueuedWith(a) ==
  LET index == {i \in 1..Len(queue) : queue[i].by = a.by}
  IN  Append(IF index = {} THEN queue ELSE RemoveAt(queue, CHOOSE i \in index : TRUE), a)

\* What a character may do on its team's turn.
MovesOf(side, u, targets) ==
  {[by |-> <<side, u>>, on |-> t, move |-> m] : t \in targets, m \in Moves[u]}

LivingOn(side) == {side} \X {living[side][i] : i \in 1..Len(living[side])}

\* A choice of NOPCommunicationsDriver.sendTurn for one of its characters.
DriverChoices(u) ==
  {a \in MovesOf("enemy", u, LivingOn("enemy") \cup LivingOn("own")) :
     (a.on[1] = "enemy") = (a.move \in Friendly)}

\* sendTurn: an attack by each character of its team, in order.  (The dead have
\* left the team; health != 0 leaves none of it out.)
DriverTurns ==
  LET team == living["enemy"]
  IN  {turn \in [1..Len(team) -> UNION {DriverChoices(u) : u \in UnitSet}] :
         \A i \in 1..Len(team) : turn[i] \in DriverChoices(team[i])}

\* (mutant) animating is set when sendTurn has returned: the driver's answer
\* finds nothing under way.
OutgoingLate(attacks) ==
  /\ mode' = "OpponentTurn"
  /\ animating' = TRUE
  /\ current' = 1
  /\ \E turn \in DriverTurns :
       /\ queue' = turn
       /\ playing' = [playing EXCEPT ![attacks[1].by] = attacks[1], ![turn[1].by] = turn[1]]

\* OUTGOINGATTACK: the first result is sent to the animator, and what the driver
\* answers (INCOMINGATTACK) is queued behind the others.
Outgoing(attacks) ==
  /\ mode' = "OpponentTurn"
  /\ animating' = TRUE
  /\ current' = 1
  /\ playing' = [playing EXCEPT ![attacks[1].by] = attacks[1]]
  /\ \E turn \in DriverTurns : queue' = attacks \o turn

\* (mutant) The events of the button in the other order.
ChooseThenPop ==
  /\ mode = "InGame" /\ Len(Top) = 3
  /\ \E a \in MovesOf("own", Top[2], Characters) :
       /\ a.move = Top[3] /\ (a.on[1] = "own") = (a.move \in Friendly)
       /\ IF Len(QueuedWith(a)) = Len(living["own"])
          THEN Outgoing(QueuedWith(a))
          ELSE queue' = QueuedWith(a) /\ UNCHANGED <<mode, animating, current, playing>>
       /\ screens' = [screens EXCEPT ![mode'] =
                        IF mode' = "InGame" THEN PopBackTo(@, <<"panel">>) ELSE <<>>]
  /\ UNCHANGED <<teamId, living, health, part, frame, sprite, looping>>

\* A click on a target: UI_UNTOGGLE_ID, then QUEATTACK ("dont change the order
\* of these events").  The last character's attack sends the turn.
ChooseTarget ==
  /\ mode = "InGame" /\ Len(Top) = 3
  /\ screens' = [screens EXCEPT ![mode] = PopBackTo(@, <<"panel">>)]
  /\ \E a \in MovesOf("own", Top[2], Characters) :
       /\ a.move = Top[3] /\ (a.on[1] = "own") = (a.move \in Friendly)
       /\ IF Len(QueuedWith(a)) = Len(living["own"])
          THEN Outgoing(QueuedWith(a))
          ELSE queue' = QueuedWith(a) /\ UNCHANGED <<mode, animating, current, playing>>
  /\ UNCHANGED <<teamId, living, health, part, frame, sprite, looping>>

-----------------------------------------------------------------------------
(* Results: ANIMATION_FINISH *)

\* (mutant) Without the upper bound.
ClampBelow(x, low, high) == IF x < low THEN low ELSE x

\* clamp
Clamp(x, low, high) == IF x > high THEN high ELSE IF x < low THEN low ELSE x

\* getAttackContext finds attacker and target in their teams; it throws otherwise.
InPlay(a, teams) ==
  \A c \in {a.by, a.on} : \E i \in 1..Len(teams[c[1]]) : teams[c[1]][i] = c[2]

\* handleAttackResults
Struck(a) ==
  IF health[a.on] = 0 THEN health
  ELSE [health EXCEPT ![a.on] = Clamp(@ - Damage[a.move], 0, MaxHealth[a.on])]

\* (mutant) Whoever comes first leaves the team.
BuriedFirst(a) ==
  IF health[a.on] # 0 /\ Struck(a)[a.on] = 0
  THEN [living EXCEPT ![a.on[1]] = Tail(@)]
  ELSE living

\* handleDeathResult
Buried(a) ==
  LET team == living[a.on[1]]
      index == CHOOSE i \in 1..Len(team) : team[i] = a.on[2]
  IN  IF health[a.on] # 0 /\ Struck(a)[a.on] = 0
      THEN [living EXCEPT ![a.on[1]] = RemoveAt(@, index)]
      ELSE living

\* GAME_WIN, GAME_LOSE
Conclude(a) ==
  LET outcome == IF a.on[1] = "enemy" THEN "GameWin" ELSE "GameLose"
  IN  IF living[a.on[1]] # <<>> /\ Buried(a)[a.on[1]] = <<>>
      THEN mode' = outcome /\ screens' = [screens EXCEPT ![outcome] = Append(@, <<"panel">>)]
      ELSE UNCHANGED ui

\* ANIMATION_FINISH, from character c: the result counts, and the next one is
\* played.  If that one's attacker or target has died, the exception leaves
\* draw before it asks for a frame.
Finish(c) ==
  LET a == queue[current]
      next == queue[current + 1]
      idle == [playing EXCEPT ![c] = None]
  IN  /\ health' = Struck(a) /\ living' = Buried(a) /\ Conclude(a)
      /\ current' = current + 1
      /\ \/ /\ current = Len(queue)
            /\ animating' = FALSE /\ playing' = idle /\ UNCHANGED looping
         \/ /\ current < Len(queue) /\ InPlay(next, Buried(a))
            /\ playing' = [idle EXCEPT ![next.by] = next] /\ UNCHANGED <<animating, looping>>
         \/ /\ current < Len(queue) /\ ~InPlay(next, Buried(a))
            /\ looping' = FALSE /\ playing' = idle /\ UNCHANGED animating
      /\ UNCHANGED <<teamId, queue>>

-----------------------------------------------------------------------------
(* Animator.animateSequence for character c *)

Playing(c) == looping /\ playing[c] # None
Registered(c) == playing[c].move \in DOMAIN Script
Exhausted(c) == part[playing[c].move] > Len(Script[playing[c].move])
PartOf(c) == Script[playing[c].move][part[playing[c].move]]

\* A frame of the part the sequence of c has come to.
Acting(c, kinds) ==
  /\ Playing(c) /\ Registered(c) /\ ~Exhausted(c)
  /\ PartOf(c) \in kinds
  /\ frame[playing[c].move] > 0
  /\ frame' = [frame EXCEPT ![playing[c].move] = @ - 1]
  /\ UNCHANGED <<ui, state, playing, part, looping>>

\* position.x += Math.floor(distance / frame)
Toward(x, goal, f) == x + ((goal - x) \div f)

\* Where a walk to the target ends.
StopAt(kind, t) ==
  sprite[t].x + 8 - (IF kind = "KnightWalkTarget" THEN Girth[t[2]] ELSE 0)

\* animateKnightWalkTarget, animateWitchWalkTarget
WalkTarget(c) ==
  /\ Acting(c, {"KnightWalkTarget", "WitchWalkTarget"})
  /\ sprite' = [sprite EXCEPT
       ![c].animation = "run",
       ![c].x = Toward(@, StopAt(PartOf(c), playing[c].on), frame[playing[c].move])]

\* animateKnightSlash, animateNecromancerDarkPulse
Strike(c) ==
  LET a == playing[c]
  IN  /\ Acting(c, {"Strike"})
      /\ sprite' = IF sprite[c].animation = a.move THEN sprite
                   ELSE [sprite EXCEPT ![c].animation = a.move, ![a.on].animation = "damage"]

\* animateWitchArcaneBurst
ArcaneBurst(c) ==
  LET a == playing[c]
  IN  /\ Acting(c, {"ArcaneBurst"})
      /\ sprite' = IF sprite[c].animation = a.move THEN sprite
                   ELSE [sprite EXCEPT ![c].x = @ + BurstShift, ![c].animation = a.move,
                                       ![a.on].animation = "damage"]

\* (mutant) The distance is divided by one frame too many.
WalkBackShort(c) ==
  /\ Acting(c, {"WalkBack"})
  /\ sprite' = [sprite EXCEPT
       ![c].mirrored = IF sprite[c].animation # "run" THEN ~@ ELSE @,
       ![c].animation = "run",
       ![c].x = Toward(@, Home(c), frame[playing[c].move] + 1)]

\* animateKnightWalkBack, animateWitchWalkBack
WalkBack(c) ==
  /\ Acting(c, {"WalkBack"})
  /\ sprite' = [sprite EXCEPT
       ![c].mirrored = IF sprite[c].animation # "run" THEN ~@ ELSE @,
       ![c].animation = "run",
       ![c].x = Toward(@, Home(c), frame[playing[c].move])]

\* animateWitchHeal, animateNecromancerBoneShield
Pose(c) ==
  /\ Acting(c, {"Pose"})
  /\ sprite' = [sprite EXCEPT ![c].animation = playing[c].move]

\* What the callback of a part does at frame 0.
AfterPart(c) ==
  CASE PartOf(c) \in {"Strike", "ArcaneBurst"} -> [sprite EXCEPT ![playing[c].on].animation = "idle"]
    [] PartOf(c) = "WalkBack" -> [sprite EXCEPT ![c].mirrored = ~@]
    [] OTHER -> sprite

\* (mutant) animationsIdx is not advanced.
PartAgain(c) ==
  /\ Playing(c) /\ Registered(c) /\ ~Exhausted(c)
  /\ frame[playing[c].move] = 0
  /\ part' = part

\* The callback has returned true for a part.
PartDone(c) ==
  /\ Playing(c) /\ Registered(c) /\ ~Exhausted(c)
  /\ frame[playing[c].move] = 0
  /\ part' = [part EXCEPT ![playing[c].move] = @ + 1]

NextPart(c) ==
  /\ PartDone(c)
  /\ part[playing[c].move] < Len(Script[playing[c].move])
  /\ frame' = [frame EXCEPT ![playing[c].move] = Frames[Script[playing[c].move][part'[playing[c].move]]]]
  /\ sprite' = AfterPart(c)
  /\ UNCHANGED <<ui, state, playing, looping>>

\* The last part: back to idle, and ANIMATION_FINISH.  animationsIdx stays
\* behind the last part.
EndSequence(c) ==
  /\ PartDone(c)
  /\ part[playing[c].move] = Len(Script[playing[c].move])
  /\ frame' = [frame EXCEPT ![playing[c].move] = Frames[PartOf(c)]]
  /\ sprite' = [AfterPart(c) EXCEPT ![c].animation = "idle"]
  /\ Finish(c)

\* A move without an animation ends at once.
NoAnimation(c) ==
  /\ Playing(c) /\ ~Registered(c)
  /\ sprite' = [sprite EXCEPT ![c].animation = "idle"]
  /\ Finish(c)
  /\ UNCHANGED <<part, frame>>

\* An animation that has been played before: animations[animationsIdx] is
\* undefined, and the exception leaves draw.
PlayedBefore(c) ==
  /\ Playing(c) /\ Registered(c) /\ Exhausted(c)
  /\ looping' = FALSE
  /\ UNCHANGED <<ui, state, animator>>

-----------------------------------------------------------------------------
Animate(c) ==
  \/ WalkTarget(c) \/ Strike(c) \/ ArcaneBurst(c) \/ WalkBack(c) \/ Pose(c)
  \/ NextPart(c) \/ EndSequence(c) \/ NoAnimation(c) \/ PlayedBefore(c)

Click == CreateRoom \/ JoinRoom \/ SinglePlayer \/ OpenMenu \/ Back \/ ChooseTarget

Next == Click \/ \E c \in Characters : Animate(c)

Spec == Init /\ [][Next]_vars

\* The browser calls back for the next frame, and time passes.  Nothing makes
\* the player click.
FairSpec == Spec /\ \A c \in Characters : WF_vars(Animate(c))

-----------------------------------------------------------------------------
(* Properties *)

\* The animator and the results keep step: while a turn is played there is one
\* character that performs, and what it performs is the result that counts next.
OneAtATime ==
  /\ animating /\ looping =>
       /\ current \in 1..Len(queue)
       /\ playing[queue[current].by] = queue[current]
  /\ \A c \in Characters : playing[c] # None => animating /\ c = queue[current].by

\* Health after the first n results, had nothing gone wrong on the way.
Reckoned(n) ==
  LET after[i \in 0..n] ==
        IF i = 0 THEN MaxHealth
        ELSE LET a == queue[i]
             IN  [after[i - 1] EXCEPT ![a.on] = Clamp(@ - Damage[a.move], 0, MaxHealth[a.on])]
  IN  after[n]

\* Each result counts once, in the order of the queue, whatever deaths lie in
\* between; the teams are those who have health left, in their order; a side
\* without anybody has lost.
ResultsCount ==
  /\ health = Reckoned(IF current = 0 THEN 0 ELSE current - 1)
  /\ mode # "TitleScreen" /\ mode # "Waiting" =>
       \A s \in Sides :
         /\ {living[s][i] : i \in 1..Len(living[s])} = {u \in UnitSet : health[<<s, u>>] # 0}
         /\ \A i, j \in 1..Len(living[s]) : i < j => Place(living[s][i]) < Place(living[s][j])
  /\ (mode = "GameWin") <=> (mode \notin {"TitleScreen", "Waiting"} /\ living["enemy"] = <<>>)
  /\ (mode = "GameLose") <=> (living["own"] = <<>>)

\* Whoever neither performs nor is being hit stands in its place, faces the
\* other team and is idle: walks there and back leave nothing behind.
Repose ==
  \A c \in Characters :
    playing[c] = None /\ (\A d \in Characters : playing[d] # None => playing[d].on # c)
      => sprite[c] = AtRest(c)

\* There is a screen to draw and to click on: "curMode.peek()!" is never
\* undefined, whichever way through the menus, and when the turn goes out.
ScreenOnTop == screens[mode] # <<>>

\* A turn goes out with one attack of every character of the player, each the
\* one chosen last, and the driver's answer behind them.
TurnComplete ==
  /\ \A i, j \in 1..Len(queue) : queue[i].by[1] = "own" /\ queue[j].by = queue[i].by => i = j
  /\ current > 0 =>
       /\ Len(queue) >= Len(Units)
       /\ \A i \in 1..Len(queue) : queue[i].by[1] = "own" <=> i <= Len(Units)

\* No result names a character that is dead by then, and no two of them show one
\* animation.
Clean ==
  /\ \A n \in 1..Len(queue) : \A c \in {queue[n].by, queue[n].on} : Reckoned(n - 1)[c] > 0
  /\ \A i, j \in 1..Len(queue) :
       queue[i].move = queue[j].move /\ queue[i].move \in DOMAIN Script => i = j

\* A turn that names no dead and repeats no animation is played to its end.
TurnEnds == (animating /\ Clean) ~> ~animating
=============================================================================
