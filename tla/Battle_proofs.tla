---------------------------- MODULE Battle_proofs -----------------------------
(***************************************************************************)
(* Proofs about Battle.tla for every team, every set of moves, damages and *)
(* healths, and every script of animations.                                *)
(*                                                                         *)
(* OneAtATime and ScreenOnTop are not inductive.  That the first result    *)
(* can be played rests on the queue and the teams being as the player has  *)
(* left them (TurnOK), that a result is counted for somebody on whoever    *)
(* performs being in play (PlaysLiving), and that there is a screen after  *)
(* a choice on the stack of InGame having the game's panel at its bottom   *)
(* and on that of OpponentTurn never being popped (ScreensOK).             *)
(*                                                                         *)
(* ResultsCount rests on CountOK, which ties health to the results counted *)
(* so far and the teams to health, and on a side being hurt by the other   *)
(* only (QueueSides).  Repose rests on RestInv: whoever performs is where  *)
(* the frame of its part says, its target is in its place, and animations  *)
(* nobody plays stand at their first frame or behind their last part.      *)
(***************************************************************************)
EXTENDS Battle, SequenceTheorems, WellFoundedInduction, TLAPS

-----------------------------------------------------------------------------
(* The inductive invariant *)

\* No turn has gone out.
Choosing == mode \in {"TitleScreen", "Waiting", "InGame"}

\* The panel of the game is at the bottom of the stack, and nowhere else.
Grounded(s) ==
  /\ s # <<>> /\ s[1] = <<"panel">>
  /\ \A i \in 2..Len(s) : s[i] # <<"panel">>

ScreensOK ==
  /\ screens["TitleScreen"] # <<>> /\ screens["Waiting"] # <<>>
  /\ mode \in {"TitleScreen", "Waiting"} => screens["InGame"] = <<>>
  /\ mode \in {"InGame", "OpponentTurn"} => screens["OpponentTurn"] # <<>>
  /\ mode = "InGame" => Grounded(screens["InGame"])
  /\ mode \in {"GameWin", "GameLose"} => screens[mode] # <<>>

TurnOK ==
  /\ Choosing <=> current = 0
  /\ Choosing => /\ ~animating /\ \A c \in Characters : playing[c] = None
                 /\ \A i \in 1..Len(queue) : queue[i].by[1] = "own"
                 /\ living["own"] = Units
  /\ mode = "InGame" => living["enemy"] = Units

\* Who performs, and on whom, is in its team.
PlaysLiving == \A c \in Characters : playing[c] # None => InPlay(playing[c], living)

IInv == TypeOK /\ ScreensOK /\ TurnOK /\ OneAtATime /\ PlaysLiving /\ TurnComplete

-----------------------------------------------------------------------------
(* Lemmas about the operators *)

\* splice(i, 1)
LEMMA RemoveAtProperties ==
  ASSUME NEW S, NEW s \in Seq(S), NEW i \in 1..Len(s)
  PROVE  /\ RemoveAt(s, i) \in Seq(S)
         /\ Len(RemoveAt(s, i)) = Len(s) - 1
         /\ \A j \in 1..(Len(s) - 1) : RemoveAt(s, i)[j] = IF j < i THEN s[j] ELSE s[j + 1]
<1> DEFINE front == SubSeq(s, 1, i - 1)
           back == SubSeq(s, i + 1, Len(s))
<1>1. Len(s) \in Nat /\ \A j \in 1..Len(s) : s[j] \in S
  OBVIOUS
<1>2. /\ front \in Seq(S) /\ Len(front) = i - 1
      /\ \A j \in 1..(i - 1) : front[j] = s[j]
  BY <1>1, SubSeqProperties
<1>3. /\ back \in Seq(S) /\ Len(back) = Len(s) - i
      /\ \A j \in 1..(Len(s) - i) : back[j] = s[j + i]
  BY <1>1, SubSeqProperties
<1> HIDE DEF front, back
<1>4. /\ front \o back \in Seq(S) /\ Len(front \o back) = Len(s) - 1
      /\ \A j \in 1..(Len(s) - 1) :
           (front \o back)[j] = IF j <= Len(front) THEN front[j] ELSE back[j - Len(front)]
  <2>1. /\ front \o back \in Seq(S) /\ Len(front \o back) = Len(front) + Len(back)
        /\ \A j \in 1..(Len(front) + Len(back)) :
             (front \o back)[j] = IF j <= Len(front) THEN front[j] ELSE back[j - Len(front)]
    BY <1>2, <1>3, ConcatProperties
  <2>2. Len(front) + Len(back) = Len(s) - 1
    BY <1>1, <1>2, <1>3
  <2>3. QED
    BY <2>1, <2>2
<1>5. RemoveAt(s, i) = front \o back
  BY DEF RemoveAt, front, back
<1>6. ASSUME NEW j \in 1..(Len(s) - 1)
      PROVE  (front \o back)[j] = IF j < i THEN s[j] ELSE s[j + 1]
  <2>1. CASE j < i
    BY <2>1, <1>1, <1>2, <1>4
  <2>2. CASE ~(j < i)
    <3>1. j - (i - 1) \in 1..(Len(s) - i) /\ (j - (i - 1)) + i = j + 1
      BY <2>2, <1>1
    <3>2. QED
      BY <3>1, <2>2, <1>1, <1>2, <1>3, <1>4
  <2>3. QED
    BY <2>1, <2>2
<1>7. QED
  BY <1>4, <1>5, <1>6

\* queAttack keeps one attack for each character.
LEMMA QueuedWithProperties ==
  ASSUME queue \in Seq(Attack), NEW a \in Attack,
         \A i, j \in 1..Len(queue) : queue[j].by = queue[i].by => i = j
  PROVE  LET q == QueuedWith(a) IN
         /\ q \in Seq(Attack) /\ q # <<>>
         /\ \A i, j \in 1..Len(q) : q[j].by = q[i].by => i = j
         /\ \A i \in 1..Len(q) : q[i] = a \/ \E j \in 1..Len(queue) : q[i] = queue[j]
<1> DEFINE index == {i \in 1..Len(queue) : queue[i].by = a.by}
           k == CHOOSE i \in index : TRUE
           rest == IF index = {} THEN queue ELSE RemoveAt(queue, k)
           q == Append(rest, a)
<1>1. QueuedWith(a) = q
  BY DEF QueuedWith
<1>2. /\ rest \in Seq(Attack)
      /\ \A i \in 1..Len(rest) : rest[i].by # a.by
      /\ \A i \in 1..Len(rest) : \E j \in 1..Len(queue) : rest[i] = queue[j]
      /\ \A i, j \in 1..Len(rest) : rest[j].by = rest[i].by => i = j
  <2>1. CASE index = {}
    BY <2>1
  <2>2. CASE index # {}
    <3>1. k \in 1..Len(queue) /\ queue[k].by = a.by
      BY <2>2
    <3> HIDE DEF k
    <3>2. rest = RemoveAt(queue, k) /\ Len(queue) \in Nat
      BY <2>2
    <3> HIDE DEF rest, index
    <3>3. /\ rest \in Seq(Attack) /\ Len(rest) = Len(queue) - 1
          /\ \A j \in 1..Len(rest) : rest[j] = IF j < k THEN queue[j] ELSE queue[j + 1]
      <4> DEFINE r == RemoveAt(queue, k)
      <4>1. /\ r \in Seq(Attack) /\ Len(r) = Len(queue) - 1
            /\ \A j \in 1..(Len(queue) - 1) : r[j] = IF j < k THEN queue[j] ELSE queue[j + 1]
        BY <3>1, RemoveAtProperties
      <4> HIDE DEF r
      <4>2. rest = r
        BY <3>2 DEF r
      <4> QED
        BY <4>1, <4>2
    <3> DEFINE from(j) == IF j < k THEN j ELSE j + 1
    <3>4. \A j \in 1..Len(rest) : /\ from(j) \in 1..Len(queue) /\ from(j) # k
                                  /\ rest[j] = queue[from(j)]
      BY <3>1, <3>2, <3>3
    <3>5. \A i, j \in Nat : from(i) = from(j) => i = j
      BY <3>1
    <3> HIDE DEF from
    <3>6. \A i, j \in 1..Len(rest) : rest[j].by = rest[i].by => i = j
      BY <3>1, <3>2, <3>3, <3>4, <3>5, SMTT(30)
    <3>7. \A i \in 1..Len(rest) : rest[i].by # a.by
      BY <3>1, <3>4
    <3>8. QED
      BY <3>1, <3>3, <3>4, <3>6, <3>7
  <2>3. QED
    BY <2>1, <2>2
<1> HIDE DEF rest
<1>3. /\ q \in Seq(Attack) /\ q # <<>> /\ Len(q) = Len(rest) + 1 /\ Len(rest) \in Nat
      /\ \A i \in 1..Len(rest) : q[i] = rest[i]
      /\ q[Len(rest) + 1] = a
  BY <1>2, AppendProperties
<1> HIDE DEF q
<1>4. \A i, j \in 1..Len(q) : q[j].by = q[i].by => i = j
  <2>1. \A i \in 1..Len(q) : i \in 1..Len(rest) \/ i = Len(rest) + 1
    BY <1>3
  <2>2. \A i, j \in 1..Len(rest) : q[j].by = q[i].by => i = j
    BY <1>2, <1>3
  <2>3. \A i \in 1..Len(rest) : q[i].by # q[Len(rest) + 1].by
    BY <1>2, <1>3
  <2>4. QED
    BY <2>1, <2>2, <2>3
<1>5. \A i \in 1..Len(q) : q[i] = a \/ \E j \in 1..Len(queue) : q[i] = queue[j]
  <2>1. ASSUME NEW i \in 1..Len(q) PROVE i \in 1..Len(rest) \/ q[i] = a
    BY <1>3
  <2>2. QED
    BY <1>2, <1>3, <2>1
<1>6. QED
  BY <1>1, <1>3, <1>4, <1>5

\* Health stays between nothing and the most.
LEMMA StruckType ==
  ASSUME TypeOK, NEW a \in Attack
  PROVE  /\ Struck(a) \in [Characters -> Nat]
         /\ \A c \in Characters : Struck(a)[c] <= MaxHealth[c]
<1>1. a.on \in Characters /\ a.move \in MoveSet
  BY DEF Attack
<1>2. Damage[a.move] \in Int /\ MaxHealth[a.on] \in Nat
  BY <1>1, MovesAssumption
<1>3. health \in [Characters -> Nat] /\ \A c \in Characters : health[c] <= MaxHealth[c]
  BY DEF TypeOK
<1> DEFINE h == Clamp(health[a.on] - Damage[a.move], 0, MaxHealth[a.on])
<1>4. h \in Nat /\ h <= MaxHealth[a.on]
  BY <1>1, <1>2, <1>3 DEF Clamp
<1> HIDE DEF h
<1>5. Struck(a) = IF health[a.on] = 0 THEN health ELSE [health EXCEPT ![a.on] = h]
  BY DEF Struck, h
<1>6. QED
  BY <1>1, <1>3, <1>4, <1>5

\* A team stays a team.
LEMMA BuriedType ==
  ASSUME TypeOK, NEW a \in Attack, InPlay(a, living)
  PROVE  Buried(a) \in [Sides -> Seq(UnitSet)]
<1> DEFINE team == living[a.on[1]]
           index == CHOOSE i \in 1..Len(team) : team[i] = a.on[2]
<1>1. a.on[1] \in Sides /\ living \in [Sides -> Seq(UnitSet)]
  BY DEF Attack, Characters, TypeOK
<1>2. team \in Seq(UnitSet)
  BY <1>1
<1>3. \E i \in 1..Len(team) : team[i] = a.on[2]
  BY DEF InPlay
<1>4. index \in 1..Len(team)
  BY <1>3
<1> HIDE DEF index
<1>5. RemoveAt(living[a.on[1]], index) \in Seq(UnitSet)
  BY <1>2, <1>4, RemoveAtProperties
<1>6. Buried(a) = IF health[a.on] # 0 /\ Struck(a)[a.on] = 0
                  THEN [living EXCEPT ![a.on[1]] = RemoveAt(living[a.on[1]], index)]
                  ELSE living
  BY DEF Buried, index
<1>7. QED
  BY <1>1, <1>5, <1>6

\* Every character has its place.
LEMMA HomeInt == ASSUME NEW c \in Characters PROVE Home(c) \in Int
<1> DEFINE i == Place(c[2])
<1>1. \E j \in 1..Len(Units) : Units[j] = c[2]
  BY DEF Characters, UnitSet
<1>2. i \in 1..Len(Units) /\ Len(Units) \in Nat
  BY <1>1, TeamAssumption DEF Place
<1> HIDE DEF i
<1>3. HalfWidth \in Nat /\ Len(Units) + 1 \in Nat \ {0}
  BY <1>2, PlaceAssumption
<1>4. Spacing \in Int
  BY <1>3 DEF Spacing
<1>5. Home(c) = IF c[1] = "own" THEN Spacing * i ELSE Spacing * (Len(Units) + 1 - i) + HalfWidth
  BY DEF Home, i
<1>6. QED
  BY <1>2, <1>3, <1>4, <1>5

\* A step toward a goal is whole.
LEMMA TowardInt ==
  ASSUME NEW x \in Int, NEW goal \in Int, NEW f \in Nat \ {0}
  PROVE  Toward(x, goal, f) \in Int
BY DEF Toward

\* Parts of a look can be changed.
LEMMA LookExcept ==
  ASSUME NEW s \in [Characters -> Look], NEW c \in Characters
  PROVE  /\ \A x \in Int : [s EXCEPT ![c].x = x] \in [Characters -> Look]
         /\ \A n \in {"idle", "run", "damage"} \cup MoveSet :
              [s EXCEPT ![c].animation = n] \in [Characters -> Look]
         /\ \A m \in BOOLEAN : [s EXCEPT ![c].mirrored = m] \in [Characters -> Look]
BY DEF Look

-----------------------------------------------------------------------------
(* The animations *)

\* Where the turn stands does not depend on the sprites.
LEMMA SameTurn ==
  ASSUME IInv, UNCHANGED <<ui, state, playing>>, looping' \in {looping, FALSE}
  PROVE  ScreensOK' /\ TurnOK' /\ OneAtATime' /\ PlaysLiving' /\ TurnComplete'
<1>1. /\ mode' = mode /\ screens' = screens /\ living' = living /\ queue' = queue
      /\ current' = current /\ animating' = animating /\ playing' = playing
  BY DEF ui, state
<1>2. ScreensOK'
  BY <1>1 DEF IInv, ScreensOK
<1>3. TurnOK'
  BY <1>1 DEF IInv, TurnOK, Choosing
<1>4. OneAtATime'
  <2>1. CASE looping' = looping
    BY <2>1, <1>1 DEF IInv, OneAtATime
  <2>2. CASE looping' = FALSE
    BY <2>2, <1>1 DEF IInv, OneAtATime
  <2>3. QED
    BY <2>1, <2>2
<1>5. PlaysLiving'
  BY <1>1 DEF IInv, PlaysLiving, InPlay
<1>6. TurnComplete'
  BY <1>1 DEF IInv, TurnComplete
<1>7. QED
  BY <1>2, <1>3, <1>4, <1>5, <1>6

\* What c performs, and how far it has come.
LEMMA Performance ==
  ASSUME TypeOK, NEW c \in Characters, Playing(c)
  PROVE  LET a == playing[c] IN
         /\ a \in Attack /\ a.by \in Characters /\ a.on \in Characters /\ a.move \in MoveSet
         /\ Registered(c) => /\ a.move \in DOMAIN Script
                             /\ part[a.move] \in Nat \ {0} /\ frame[a.move] \in Nat
         /\ Registered(c) /\ ~Exhausted(c) => PartOf(c) \in Parts
<1>1. playing[c] \in Attack
  BY DEF TypeOK, Playing
<1>2. /\ playing[c].by \in Characters /\ playing[c].on \in Characters
      /\ playing[c].move \in MoveSet
  BY <1>1 DEF Attack
<1>3. ASSUME Registered(c)
      PROVE  /\ playing[c].move \in DOMAIN Script
             /\ part[playing[c].move] \in Nat \ {0} /\ frame[playing[c].move] \in Nat
  BY <1>3 DEF Registered, TypeOK
<1>4. ASSUME Registered(c), ~Exhausted(c) PROVE PartOf(c) \in Parts
  <2>1. Script[playing[c].move] \in Seq(Parts)
    BY <1>3, <1>4, ScriptAssumption
  <2>2. part[playing[c].move] \in 1..Len(Script[playing[c].move])
    BY <2>1, <1>3, <1>4 DEF Exhausted
  <2>3. QED
    BY <2>1, <2>2 DEF PartOf
<1>5. QED
  BY <1>1, <1>2, <1>3, <1>4

\* A frame of a part changes how many are left of it, and sprites.
LEMMA ActingIInv ==
  ASSUME IInv, NEW c \in Characters, NEW kinds, Acting(c, kinds),
         sprite' \in [Characters -> Look]
  PROVE  IInv'
<1> DEFINE m == playing[c].move
<1>1. m \in DOMAIN Script /\ frame[m] \in Nat /\ frame[m] > 0
  BY Performance DEF IInv, Acting
<1>2. frame' = [frame EXCEPT ![m] = frame[m] - 1]
  BY DEF Acting
<1>3. UNCHANGED <<ui, state, playing, part, looping>>
  BY DEF Acting
<1> HIDE DEF m
<1>4. frame' \in [DOMAIN Script -> Nat]
  BY <1>1, <1>2 DEF IInv, TypeOK
<1>5. TypeOK'
  BY <1>3, <1>4 DEF IInv, TypeOK, ui, state
<1>6. QED
  BY <1>3, <1>5, SameTurn DEF IInv

LEMMA WalkTargetIInv ==
  ASSUME IInv, NEW c \in Characters, WalkTarget(c)
  PROVE  IInv'
<1> DEFINE t == playing[c].on
           goal == StopAt(PartOf(c), t)
           f == frame[playing[c].move]
           x == Toward(sprite[c].x, goal, f)
<1>1. Acting(c, {"KnightWalkTarget", "WitchWalkTarget"})
  BY DEF WalkTarget
<1>2. t \in Characters /\ f \in Nat \ {0}
  BY <1>1, Performance DEF Acting, IInv
<1>3. sprite \in [Characters -> Look]
  BY DEF IInv, TypeOK
<1>4. sprite[c].x \in Int /\ sprite[t].x \in Int /\ Girth[t[2]] \in Int
  BY <1>2, <1>3, PlaceAssumption DEF Look, Characters
<1> HIDE DEF t, f
<1>5. goal \in Int
  BY <1>4 DEF StopAt
<1> HIDE DEF goal
<1>6. x \in Int
  BY <1>2, <1>4, <1>5, TowardInt
<1>7. sprite' = [[sprite EXCEPT ![c].animation = "run"] EXCEPT ![c].x = x]
  BY <1>3 DEF WalkTarget, t, goal, f, Look
<1> HIDE DEF x
<1>8. sprite' \in [Characters -> Look]
  BY <1>3, <1>6, <1>7, LookExcept
<1>9. QED
  BY <1>1, <1>8, ActingIInv

LEMMA StrikeIInv ==
  ASSUME IInv, NEW c \in Characters, Strike(c)
  PROVE  IInv'
<1> DEFINE a == playing[c]
<1>1. Acting(c, {"Strike"})
  BY DEF Strike
<1>2. a.on \in Characters /\ a.move \in MoveSet
  BY <1>1, Performance DEF Acting, IInv
<1>3. sprite \in [Characters -> Look]
  BY DEF IInv, TypeOK
<1>4. \/ sprite' = sprite
      \/ sprite' = [[sprite EXCEPT ![c].animation = a.move] EXCEPT ![a.on].animation = "damage"]
  BY DEF Strike
<1> HIDE DEF a
<1> DEFINE striking == [sprite EXCEPT ![c].animation = a.move]
<1>5. striking \in [Characters -> Look]
  BY <1>2, <1>3, LookExcept
<1>6. sprite' = sprite \/ sprite' = [striking EXCEPT ![a.on].animation = "damage"]
  BY <1>4
<1> HIDE DEF striking
<1>7. sprite' \in [Characters -> Look]
  <2>1. [striking EXCEPT ![a.on].animation = "damage"] \in [Characters -> Look]
    BY <1>2, <1>5, LookExcept
  <2>2. QED
    BY <1>3, <1>6, <2>1
<1>8. QED
  BY <1>1, <1>7, ActingIInv

LEMMA ArcaneBurstIInv ==
  ASSUME IInv, NEW c \in Characters, ArcaneBurst(c)
  PROVE  IInv'
<1> DEFINE a == playing[c]
           x == sprite[c].x + BurstShift
           moved == [sprite EXCEPT ![c].x = x]
<1>1. Acting(c, {"ArcaneBurst"})
  BY DEF ArcaneBurst
<1>2. a.on \in Characters /\ a.move \in MoveSet
  BY <1>1, Performance DEF Acting, IInv
<1>3. sprite \in [Characters -> Look]
  BY DEF IInv, TypeOK
<1>4. x \in Int
  BY <1>3, PlaceAssumption DEF Look
<1>5. \/ sprite' = sprite
      \/ sprite' = [[moved EXCEPT ![c].animation = a.move] EXCEPT ![a.on].animation = "damage"]
  BY DEF ArcaneBurst
<1> HIDE DEF a, x
<1>6. moved \in [Characters -> Look]
  BY <1>3, <1>4, LookExcept
<1> HIDE DEF moved
<1> DEFINE bursting == [moved EXCEPT ![c].animation = a.move]
<1>7. bursting \in [Characters -> Look]
  BY <1>2, <1>6, LookExcept
<1>8. sprite' = sprite \/ sprite' = [bursting EXCEPT ![a.on].animation = "damage"]
  BY <1>5
<1> HIDE DEF bursting
<1>9. sprite' \in [Characters -> Look]
  <2>1. [bursting EXCEPT ![a.on].animation = "damage"] \in [Characters -> Look]
    BY <1>2, <1>7, LookExcept
  <2>2. QED
    BY <2>1, <1>3, <1>8
<1>10. QED
  BY <1>1, <1>9, ActingIInv

LEMMA WalkBackIInv ==
  ASSUME IInv, NEW c \in Characters, WalkBack(c)
  PROVE  IInv'
<1> DEFINE f == frame[playing[c].move]
           x == Toward(sprite[c].x, Home(c), f)
           m == IF sprite[c].animation # "run" THEN ~sprite[c].mirrored ELSE sprite[c].mirrored
           turned == [sprite EXCEPT ![c].mirrored = m]
<1>1. Acting(c, {"WalkBack"})
  BY DEF WalkBack
<1>2. f \in Nat \ {0}
  BY <1>1, Performance DEF Acting, IInv
<1>3. sprite \in [Characters -> Look]
  BY DEF IInv, TypeOK
<1>4. sprite[c].x \in Int /\ m \in BOOLEAN
  BY <1>3 DEF Look
<1>5. sprite' = [[turned EXCEPT ![c].animation = "run"] EXCEPT ![c].x = x]
  BY <1>3 DEF WalkBack, Look
<1> HIDE DEF f, m
<1>6. x \in Int
  BY <1>2, <1>4, HomeInt, TowardInt
<1>7. turned \in [Characters -> Look]
  BY <1>3, <1>4, LookExcept
<1> HIDE DEF x, turned
<1>8. sprite' \in [Characters -> Look]
  BY <1>5, <1>6, <1>7, LookExcept
<1>9. QED
  BY <1>1, <1>8, ActingIInv

LEMMA PoseIInv ==
  ASSUME IInv, NEW c \in Characters, Pose(c)
  PROVE  IInv'
<1>1. Acting(c, {"Pose"})
  BY DEF Pose
<1>2. playing[c].move \in MoveSet
  BY <1>1, Performance DEF Acting, IInv
<1>3. sprite' \in [Characters -> Look]
  BY <1>2, LookExcept DEF Pose, IInv, TypeOK
<1>4. QED
  BY <1>1, <1>3, ActingIInv

\* The callback of a part leaves looks behind.
LEMMA AfterPartType ==
  ASSUME TypeOK, NEW c \in Characters, Playing(c)
  PROVE  AfterPart(c) \in [Characters -> Look]
<1>1. playing[c].on \in Characters
  BY Performance
<1>2. sprite \in [Characters -> Look]
  BY DEF TypeOK
<1>3. (~sprite[c].mirrored) \in BOOLEAN
  OBVIOUS
<1>4. [sprite EXCEPT ![playing[c].on].animation = "idle"] \in [Characters -> Look]
  BY <1>1, <1>2, LookExcept
<1>5. [sprite EXCEPT ![c].mirrored = ~@] \in [Characters -> Look]
  BY <1>2, <1>3, LookExcept
<1>6. QED
  BY <1>2, <1>4, <1>5 DEF AfterPart

\* The next part of a sequence exists, and takes its frames.
LEMMA PartDoneType ==
  ASSUME TypeOK, NEW c \in Characters, PartDone(c)
  PROVE  /\ part' \in [DOMAIN Script -> Nat \ {0}]
         /\ Frames[PartOf(c)] \in Nat
         /\ part[playing[c].move] < Len(Script[playing[c].move]) =>
              Frames[Script[playing[c].move][part'[playing[c].move]]] \in Nat
<1> DEFINE m == playing[c].move
<1>1. /\ m \in DOMAIN Script /\ part[m] \in Nat \ {0}
      /\ PartOf(c) \in Parts /\ part \in [DOMAIN Script -> Nat \ {0}]
      /\ part' = [part EXCEPT ![m] = part[m] + 1]
  BY Performance DEF PartDone, TypeOK
<1>2. Frames[PartOf(c)] \in Nat
  BY <1>1, ScriptAssumption
<1> HIDE DEF m
<1>3. part' \in [DOMAIN Script -> Nat \ {0}] /\ part'[m] = part[m] + 1
  BY <1>1
<1>4. ASSUME part[m] < Len(Script[m]) PROVE Frames[Script[m][part'[m]]] \in Nat
  <2>1. Script[m] \in Seq(Parts)
    BY <1>1, ScriptAssumption
  <2>2. part'[m] \in 1..Len(Script[m])
    BY <2>1, <1>1, <1>3, <1>4
  <2>3. Script[m][part'[m]] \in Parts
    BY <2>1, <2>2
  <2>4. QED
    BY <2>3, ScriptAssumption
<1>5. QED
  BY <1>2, <1>3, <1>4 DEF m

LEMMA NextPartIInv ==
  ASSUME IInv, NEW c \in Characters, NextPart(c)
  PROVE  IInv'
<1> DEFINE m == playing[c].move
           f == Frames[Script[m][part'[m]]]
<1>1. PartDone(c) /\ Playing(c)
  BY DEF NextPart, PartDone
<1>2. part' \in [DOMAIN Script -> Nat \ {0}] /\ f \in Nat
  BY <1>1, PartDoneType DEF NextPart, IInv
<1>3. frame \in [DOMAIN Script -> Nat] /\ frame' = [frame EXCEPT ![m] = f]
  BY DEF NextPart, IInv, TypeOK
<1>4. sprite' \in [Characters -> Look]
  BY <1>1, AfterPartType DEF NextPart, IInv
<1> HIDE DEF f, m
<1>5. frame' \in [DOMAIN Script -> Nat]
  BY <1>2, <1>3
<1>6. UNCHANGED <<ui, state, playing, looping>>
  BY DEF NextPart
<1>7. TypeOK'
  BY <1>2, <1>4, <1>5, <1>6 DEF IInv, TypeOK, ui, state
<1>8. QED
  BY <1>6, <1>7, SameTurn DEF IInv

LEMMA PlayedBeforeIInv ==
  ASSUME IInv, NEW c \in Characters, PlayedBefore(c)
  PROVE  IInv'
<1>1. UNCHANGED <<ui, state, animator>> /\ looping' = FALSE
  BY DEF PlayedBefore
<1>2. TypeOK'
  BY <1>1 DEF IInv, TypeOK, ui, state, animator
<1>3. QED
  BY <1>1, <1>2, SameTurn DEF IInv, animator

-----------------------------------------------------------------------------
(* The end of an animation *)

\* The result of whoever performs is the one that counts next.
LEMMA Performer ==
  ASSUME IInv, NEW c \in Characters, Playing(c)
  PROVE  /\ animating /\ looping /\ current \in 1..Len(queue)
         /\ queue[current] \in Attack /\ playing[c] = queue[current]
         /\ InPlay(queue[current], living)
         /\ \A d \in Characters : d # c => playing[d] = None
<1>1. looping /\ playing[c] # None
  BY DEF Playing
<1>2. animating /\ c = queue[current].by
  BY <1>1 DEF IInv, OneAtATime
<1>3. current \in 1..Len(queue) /\ playing[c] = queue[current]
  BY <1>1, <1>2 DEF IInv, OneAtATime
<1>4. queue[current] \in Attack
  BY <1>3 DEF IInv, TypeOK
<1>5. InPlay(queue[current], living)
  BY <1>1, <1>3 DEF IInv, PlaysLiving
<1>6. \A d \in Characters : d # c => playing[d] = None
  BY <1>2 DEF IInv, OneAtATime
<1>7. QED
  BY <1>1, <1>2, <1>3, <1>4, <1>5, <1>6

\* ANIMATION_FINISH keeps the types of what it changes, and the rest of the
\* invariant.
LEMMA FinishKeeps ==
  ASSUME IInv, NEW c \in Characters, Playing(c), Finish(c),
         part' \in [DOMAIN Script -> Nat \ {0}],
         frame' \in [DOMAIN Script -> Nat],
         sprite' \in [Characters -> Look]
  PROVE  IInv'
<1> DEFINE a == queue[current]
           next == queue[current + 1]
           idle == [playing EXCEPT ![c] = None]
<1>1. /\ animating /\ looping /\ current \in 1..Len(queue) /\ a \in Attack
      /\ InPlay(a, living) /\ \A d \in Characters : d # c => playing[d] = None
      /\ Len(queue) \in Nat
  BY Performer DEF IInv, TypeOK
<1>2. /\ health' = Struck(a) /\ living' = Buried(a) /\ Conclude(a)
      /\ current' = current + 1 /\ teamId' = teamId /\ queue' = queue
  BY DEF Finish
<1>3. /\ health' \in [Characters -> Nat]
      /\ \A d \in Characters : health'[d] <= MaxHealth[d]
      /\ living' \in [Sides -> Seq(UnitSet)]
  BY <1>1, <1>2, StruckType, BuriedType DEF IInv
<1>4. /\ mode' \in Modes /\ screens' \in [Modes -> Seq(Element)]
      /\ ScreensOK' /\ ~Choosing' /\ ~Choosing
  <2>1. ~Choosing /\ mode \in {"OpponentTurn", "GameWin", "GameLose"}
    BY <1>1 DEF IInv, TurnOK, TypeOK, Modes, Choosing
  <2>2. CASE UNCHANGED ui
    BY <2>1, <2>2 DEF IInv, TypeOK, ScreensOK, ui, Choosing
  <2>3. CASE \E outcome \in {"GameWin", "GameLose"} :
               /\ mode' = outcome
               /\ screens' = [screens EXCEPT ![outcome] = Append(@, <<"panel">>)]
    <3>1. PICK outcome \in {"GameWin", "GameLose"} :
            /\ mode' = outcome
            /\ screens' = [screens EXCEPT ![outcome] = Append(@, <<"panel">>)]
      BY <2>3
    <3>2. screens \in [Modes -> Seq(Element)] /\ outcome \in Modes /\ <<"panel">> \in Element
      BY DEF IInv, TypeOK, Modes, Element
    <3>3. /\ Append(screens[outcome], <<"panel">>) \in Seq(Element)
          /\ Append(screens[outcome], <<"panel">>) # <<>>
      <4>1. screens[outcome] \in Seq(Element)
        BY <3>2
      <4>2. QED
        BY <4>1, <3>2, AppendProperties, SMTT(30)
    <3>4. /\ screens' \in [Modes -> Seq(Element)] /\ screens'[outcome] # <<>>
          /\ screens'["TitleScreen"] = screens["TitleScreen"]
          /\ screens'["Waiting"] = screens["Waiting"]
      BY <3>1, <3>2, <3>3 DEF Modes
    <3>5. QED
      BY <3>1, <3>2, <3>4, <2>1 DEF ScreensOK, Choosing, IInv
  <2>4. QED
    BY <1>2, <2>2, <2>3 DEF Conclude
<1>5. TurnOK'
  BY <1>1, <1>2, <1>4 DEF TurnOK, Choosing
<1>6. TurnComplete'
  BY <1>1, <1>2 DEF IInv, TurnComplete
<1>7. /\ idle \in [Characters -> Attack \cup {None}]
      /\ \A d \in Characters : idle[d] = None
  BY <1>1 DEF IInv, TypeOK
<1> HIDE DEF idle, next
<1>8. /\ teamId' \in {"null", "TeamOne", "TeamTwo"} /\ queue' \in Seq(Attack)
       /\ current' \in Nat /\ animating \in BOOLEAN /\ looping \in BOOLEAN
  BY <1>1, <1>2 DEF IInv, TypeOK
<1>9. CASE /\ current = Len(queue)
           /\ animating' = FALSE /\ playing' = idle /\ UNCHANGED looping
  <2>1. TypeOK'
    BY <1>3, <1>4, <1>7, <1>9, <1>8 DEF TypeOK
  <2>2. OneAtATime' /\ PlaysLiving'
    BY <1>7, <1>9 DEF OneAtATime, PlaysLiving
  <2>3. QED
    BY <2>1, <2>2, <1>4, <1>5, <1>6 DEF IInv
<1>10. CASE /\ current < Len(queue) /\ ~InPlay(next, Buried(a))
           /\ looping' = FALSE /\ playing' = idle /\ UNCHANGED animating
  <2>1. TypeOK'
    BY <1>3, <1>4, <1>7, <1>10, <1>8 DEF TypeOK
  <2>2. OneAtATime' /\ PlaysLiving'
    BY <1>7, <1>10 DEF OneAtATime, PlaysLiving
  <2>3. QED
    BY <2>1, <2>2, <1>4, <1>5, <1>6 DEF IInv
<1>11. CASE /\ current < Len(queue) /\ InPlay(next, Buried(a))
            /\ playing' = [idle EXCEPT ![next.by] = next] /\ UNCHANGED <<animating, looping>>
  <2>1. next \in Attack /\ next.by \in Characters /\ current' \in 1..Len(queue')
        /\ queue'[current'] = next
    <3>1. current + 1 \in 1..Len(queue)
      BY <1>1, <1>11
    <3>2. next \in Attack
      BY <3>1 DEF next, IInv, TypeOK
    <3>3. QED
      BY <3>1, <3>2, <1>2 DEF next, Attack
  <2>2. /\ playing' \in [Characters -> Attack \cup {None}]
        /\ playing'[next.by] = next
        /\ \A d \in Characters : playing'[d] # None => d = next.by
    BY <2>1, <1>7, <1>11
  <2>3. TypeOK'
    BY <2>2, <1>3, <1>4, <1>11, <1>8 DEF TypeOK
  <2>4. OneAtATime'
    BY <2>1, <2>2, <1>1, <1>11 DEF OneAtATime
  <2>5. PlaysLiving'
    BY <2>1, <2>2, <1>2, <1>11 DEF PlaysLiving
  <2>6. QED
    BY <2>3, <2>4, <2>5, <1>4, <1>5, <1>6 DEF IInv
<1>12. QED
  BY <1>9, <1>10, <1>11 DEF Finish, idle, next

LEMMA EndSequenceIInv ==
  ASSUME IInv, NEW c \in Characters, EndSequence(c)
  PROVE  IInv'
<1> DEFINE m == playing[c].move
           f == Frames[PartOf(c)]
<1>1. PartDone(c) /\ Playing(c) /\ Finish(c)
  BY DEF EndSequence, PartDone
<1>2. part' \in [DOMAIN Script -> Nat \ {0}] /\ f \in Nat
  BY <1>1, PartDoneType DEF IInv
<1>3. frame \in [DOMAIN Script -> Nat] /\ frame' = [frame EXCEPT ![m] = f]
  BY DEF EndSequence, IInv, TypeOK
<1> HIDE DEF f, m
<1>4. frame' \in [DOMAIN Script -> Nat]
  BY <1>2, <1>3
<1>5. AfterPart(c) \in [Characters -> Look]
  BY <1>1, AfterPartType DEF IInv
<1>6. sprite' \in [Characters -> Look]
  BY <1>5, LookExcept DEF EndSequence
<1>7. QED
  BY <1>1, <1>2, <1>4, <1>6, FinishKeeps

LEMMA NoAnimationIInv ==
  ASSUME IInv, NEW c \in Characters, NoAnimation(c)
  PROVE  IInv'
<1>1. Playing(c) /\ Finish(c)
  BY DEF NoAnimation
<1>2. part' \in [DOMAIN Script -> Nat \ {0}] /\ frame' \in [DOMAIN Script -> Nat]
  BY DEF NoAnimation, IInv, TypeOK
<1>3. sprite' \in [Characters -> Look]
  BY LookExcept DEF NoAnimation, IInv, TypeOK
<1>4. QED
  BY <1>1, <1>2, <1>3, FinishKeeps

-----------------------------------------------------------------------------
(* The clicks *)

\* On the title screen nothing of the battle has begun.
LEMMA TitleIInv ==
  ASSUME IInv, CreateRoom \/ JoinRoom \/ SinglePlayer
  PROVE  IInv'
<1>1. /\ mode = "TitleScreen" /\ Choosing /\ Choosing'
      /\ mode' \in {"TitleScreen", "Waiting", "InGame"} /\ mode' \in Modes
      /\ teamId' \in {"TeamOne", "TeamTwo"}
      /\ UNCHANGED <<health, queue, current, animating, animator, looping>>
  BY DEF CreateRoom, JoinRoom, SinglePlayer, ui, Choosing, Modes
<1>2. \/ UNCHANGED <<screens, living>> /\ mode' # "InGame"
      \/ /\ screens' = [screens EXCEPT !["InGame"] = Append(@, <<"panel">>),
                                       !["OpponentTurn"] = Append(@, <<"panel">>)]
         /\ living' = [living EXCEPT !["enemy"] = Units]
         /\ mode' = "InGame"
  BY DEF CreateRoom, JoinRoom, SinglePlayer, ui
<1>3. /\ living \in [Sides -> Seq(UnitSet)] /\ Units \in Seq(UnitSet)
      /\ screens \in [Modes -> Seq(Element)] /\ <<"panel">> \in Element
      /\ {"InGame", "OpponentTurn", "TitleScreen", "Waiting"} \subseteq Modes
  <2>1. Units \in Seq(UnitSet)
    BY TeamAssumption DEF UnitSet
  <2>2. QED
    BY <2>1 DEF IInv, TypeOK, Element, Modes
<1>4. /\ living' \in [Sides -> Seq(UnitSet)] /\ living'["own"] = living["own"]
      /\ mode' = "InGame" => living'["enemy"] = Units
  BY <1>2, <1>3 DEF Sides
<1>5. screens' \in [Modes -> Seq(Element)] /\ ScreensOK'
  <2>1. CASE UNCHANGED <<screens, living>> /\ mode' # "InGame"
    BY <2>1, <1>1, <1>3 DEF IInv, ScreensOK
  <2>2. CASE /\ screens' = [screens EXCEPT !["InGame"] = Append(@, <<"panel">>),
                                           !["OpponentTurn"] = Append(@, <<"panel">>)]
             /\ mode' = "InGame"
    <3> DEFINE s1 == Append(screens["InGame"], <<"panel">>)
               s2 == Append(screens["OpponentTurn"], <<"panel">>)
    <3>1. screens["InGame"] = <<>> /\ Len(screens["InGame"]) = 0
      BY <1>1 DEF IInv, ScreensOK
    <3>2. s1 \in Seq(Element) /\ s1 # <<>> /\ s1[1] = <<"panel">> /\ Len(s1) = 1
      BY <3>1, <1>3, AppendProperties
    <3>3. s2 \in Seq(Element) /\ s2 # <<>>
      BY <1>3, AppendProperties
    <3>4. screens' = [screens EXCEPT !["InGame"] = s1, !["OpponentTurn"] = s2]
      BY <2>2
    <3> HIDE DEF s1, s2
    <3>5. /\ screens' \in [Modes -> Seq(Element)]
          /\ screens'["InGame"] = s1 /\ screens'["OpponentTurn"] = s2
          /\ screens'["TitleScreen"] = screens["TitleScreen"]
          /\ screens'["Waiting"] = screens["Waiting"]
      BY <3>2, <3>3, <3>4, <1>3
    <3>6. Grounded(s1)
      BY <3>2 DEF Grounded
    <3>7. QED
      BY <3>3, <3>5, <3>6, <2>2 DEF IInv, ScreensOK
  <2>3. QED
    BY <2>1, <2>2, <1>2
<1>6. TypeOK'
  BY <1>1, <1>4, <1>5 DEF IInv, TypeOK, animator
<1>7. TurnOK'
  BY <1>1, <1>4 DEF IInv, TurnOK, animator
<1>8. OneAtATime' /\ PlaysLiving'
  BY <1>1 DEF IInv, TurnOK, OneAtATime, PlaysLiving, animator
<1>9. TurnComplete'
  BY <1>1 DEF IInv, TurnComplete
<1>10. QED
  BY <1>5, <1>6, <1>7, <1>8, <1>9 DEF IInv

\* A change of the stack of InGame keeps the panel at its bottom.
LEMMA MenuIInv ==
  ASSUME IInv, mode = "InGame", NEW s \in Seq(Element), Grounded(s),
         screens' = [screens EXCEPT !["InGame"] = s],
         UNCHANGED <<mode, state, animator, looping>>
  PROVE  IInv'
<1>1. screens \in [Modes -> Seq(Element)] /\ "InGame" \in Modes
  BY DEF IInv, TypeOK, Modes
<1>2. /\ screens' \in [Modes -> Seq(Element)] /\ screens'["InGame"] = s
      /\ \A m \in Modes \ {"InGame"} : screens'[m] = screens[m]
  BY <1>1
<1>3. ScreensOK'
  BY <1>1, <1>2 DEF IInv, ScreensOK, Modes
<1>4. TypeOK'
  BY <1>2 DEF IInv, TypeOK, state, animator
<1>5. TurnOK'
  BY DEF IInv, TurnOK, Choosing, state, animator
<1>6. OneAtATime' /\ PlaysLiving'
  BY DEF IInv, TurnOK, Choosing, OneAtATime, PlaysLiving, state, animator
<1>7. TurnComplete'
  BY DEF IInv, TurnComplete, state
<1>8. QED
  BY <1>3, <1>4, <1>5, <1>6, <1>7 DEF IInv

\* The stack while the player chooses.
LEMMA InGameStack ==
  ASSUME IInv, mode = "InGame"
  PROVE  LET s == screens["InGame"] IN
         s \in Seq(Element) /\ Grounded(s) /\ Len(s) \in Nat \ {0} /\ Top = s[Len(s)]
<1> DEFINE s == screens["InGame"]
<1>1. s \in Seq(Element) /\ Grounded(s)
  BY DEF IInv, TypeOK, ScreensOK, Modes
<1>2. Top = s[Len(s)]
  BY DEF Top
<1> HIDE DEF s
<1>3. Len(s) \in Nat \ {0}
  BY <1>1, EmptySeq DEF Grounded
<1>4. QED
  BY <1>1, <1>2, <1>3 DEF s

\* The menus inside a screen or a menu are elements.
LEMMA MenusAreElements ==
  ASSUME NEW e \in Element
  PROVE  MenusOf(e) \subseteq Element \ {<<"panel">>}
<1>1. ASSUME NEW u \in UnitSet PROVE Moves[u] \subseteq MoveSet
  BY DEF MoveSet
<1>2. CASE e = <<"panel">>
  BY <1>2 DEF MenusOf, Element
<1>3. CASE e # <<"panel">> /\ e \in {"menu"} \X UnitSet
  <2>1. e[2] \in UnitSet
    BY <1>3
  <2>2. MenusOf(e) \subseteq {<<"menu", e[2], m>> : m \in Moves[e[2]]}
    BY <1>3 DEF MenusOf
  <2>3. QED
    BY <1>1, <2>1, <2>2 DEF Element
<1>4. CASE e \in {"menu"} \X UnitSet \X MoveSet
  <2>1. Len(e) = 3 /\ e # <<"panel">>
    BY <1>4
  <2>2. MenusOf(e) = {}
    BY <2>1 DEF MenusOf
  <2>3. QED
    BY <2>2
<1>5. QED
  BY <1>2, <1>3, <1>4 DEF Element

LEMMA OpenMenuIInv == ASSUME IInv, OpenMenu PROVE IInv'
<1> DEFINE s == screens["InGame"]
<1>1. /\ mode = "InGame" /\ s \in Seq(Element) /\ Grounded(s)
      /\ Len(s) \in Nat \ {0} /\ Top = s[Len(s)]
  BY InGameStack DEF OpenMenu
<1>2. PICK e \in MenusOf(Top) : screens' = [screens EXCEPT !["InGame"] = Append(s, e)]
  BY <1>1 DEF OpenMenu, Pushed
<1> HIDE DEF s
<1>3. Top \in Element
  BY <1>1
<1>4. e \in Element /\ e # <<"panel">>
  BY <1>3, MenusAreElements
<1> DEFINE t == Append(s, e)
<1>5. /\ t \in Seq(Element) /\ t # <<>> /\ Len(t) = Len(s) + 1
      /\ \A i \in 1..Len(s) : t[i] = s[i]
      /\ t[Len(s) + 1] = e
  BY <1>1, <1>4, AppendProperties
<1>6. screens' = [screens EXCEPT !["InGame"] = t]
  BY <1>2
<1>7. UNCHANGED <<mode, state, animator, looping>>
  BY DEF OpenMenu
<1> HIDE DEF t
<1>8. Grounded(t)
  <2>1. t[1] = <<"panel">>
    BY <1>1, <1>5 DEF Grounded
  <2>2. ASSUME NEW i \in 2..Len(t) PROVE t[i] # <<"panel">>
    <3>1. CASE i \in 2..Len(s)
      BY <3>1, <1>1, <1>5 DEF Grounded
    <3>2. CASE i = Len(s) + 1
      BY <3>2, <1>4, <1>5
    <3>3. QED
      BY <3>1, <3>2, <1>1, <1>5
  <2>3. QED
    BY <2>1, <2>2, <1>5 DEF Grounded
<1>9. QED
  BY <1>1, <1>5, <1>6, <1>7, <1>8, MenuIInv

LEMMA BackIInv == ASSUME IInv, Back PROVE IInv'
<1> DEFINE s == screens["InGame"]
           t == SubSeq(s, 1, Len(s) - 1)
<1>1. /\ mode = "InGame" /\ s \in Seq(Element) /\ Grounded(s)
      /\ Len(s) \in Nat \ {0} /\ Top = s[Len(s)] /\ Top # <<"panel">>
  BY InGameStack DEF Back
<1>2. screens' = [screens EXCEPT !["InGame"] = t] /\ UNCHANGED <<mode, state, animator, looping>>
  BY <1>1 DEF Back, Popped
<1> HIDE DEF s
<1>3. Len(s) > 1
  BY <1>1 DEF Grounded
<1>4. /\ t \in Seq(Element) /\ Len(t) = Len(s) - 1
      /\ \A i \in 1..(Len(s) - 1) : t[i] = s[i]
  BY <1>1, <1>3, SubSeqProperties
<1> HIDE DEF t
<1>5. t # <<>>
  BY <1>3, <1>4, EmptySeq
<1>6. Grounded(t)
  BY <1>1, <1>3, <1>4, <1>5 DEF Grounded
<1>7. QED
  BY <1>1, <1>2, <1>4, <1>6, MenuIInv

\* popBackTo comes down to the panel, and no further.
LEMMA PopBackToPanel ==
  ASSUME NEW s \in Seq(Element), Grounded(s)
  PROVE  LET t == PopBackTo(s, <<"panel">>) IN t \in Seq(Element) /\ Grounded(t)
<1> DEFINE found == {i \in 1..Len(s) : s[i] = <<"panel">>}
           n == CHOOSE k \in {0} \cup found : \A i \in found : i <= k
           t == SubSeq(s, 1, n)
<1>1. Len(s) \in Nat \ {0}
  BY EmptySeq DEF Grounded
<1>2. found = {1}
  BY <1>1 DEF Grounded
<1> HIDE DEF found
<1>3. n = 1
  BY <1>2
<1> HIDE DEF n
<1>4. t \in Seq(Element) /\ Len(t) = 1 /\ t[1] = s[1]
  BY <1>1, <1>3, SubSeqProperties
<1>5. PopBackTo(s, <<"panel">>) = t
  BY DEF PopBackTo, t, n, found
<1> HIDE DEF t
<1>6. t # <<>>
  BY <1>4
<1>7. QED
  BY <1>4, <1>5, <1>6 DEF Grounded

-----------------------------------------------------------------------------
(* The click that may send the turn *)

\* What the driver answers: an attack of each of its own.
LEMMA DriverTurnsType ==
  ASSUME TypeOK, NEW turn \in DriverTurns
  PROVE  turn \in Seq(Attack) /\ \A i \in 1..Len(turn) : turn[i].by[1] = "enemy"
<1> DEFINE team == living["enemy"]
<1>1. team \in Seq(UnitSet) /\ Len(team) \in Nat
  BY DEF TypeOK, Sides
<1>2. /\ DOMAIN turn = 1..Len(team)
      /\ \A i \in 1..Len(team) : turn[i] \in DriverChoices(team[i])
      /\ turn \in [1..Len(team) -> UNION {DriverChoices(u) : u \in UnitSet}]
  BY DEF DriverTurns
<1>3. LivingOn("enemy") \cup LivingOn("own") \subseteq Characters
  <2>1. living["own"] \in Seq(UnitSet)
    BY DEF TypeOK, Sides
  <2>2. QED
    BY <1>1, <2>1 DEF LivingOn, Characters, Sides
<1>4. ASSUME NEW u \in UnitSet, NEW a \in DriverChoices(u)
      PROVE  a \in Attack /\ a.by[1] = "enemy"
  <2>1. PICK t \in LivingOn("enemy") \cup LivingOn("own"), m \in Moves[u] :
          a = [by |-> <<"enemy", u>>, on |-> t, move |-> m]
    BY DEF DriverChoices, MovesOf
  <2>2. <<"enemy", u>> \in Characters /\ t \in Characters /\ m \in MoveSet
    BY <1>3 DEF Characters, Sides, MoveSet
  <2>3. QED
    BY <2>1, <2>2 DEF Attack
<1>5. turn \in [1..Len(team) -> Attack]
  BY <1>2, <1>4
<1> HIDE DEF team
<1>6. turn \in Seq(Attack) /\ Len(turn) = Len(team)
  BY <1>1, <1>5
<1>7. \A i \in 1..Len(team) : team[i] \in UnitSet
  BY <1>1
<1>8. QED
  BY <1>2, <1>4, <1>6, <1>7

\* While nobody has died every attack names characters that are there.
LEMMA AllInPlay ==
  ASSUME living["own"] = Units, living["enemy"] = Units, NEW a \in Attack
  PROVE  InPlay(a, living)
<1>1. \A c \in {a.by, a.on} : c \in Characters
  BY DEF Attack
<1>2. ASSUME NEW c \in Characters PROVE \E i \in 1..Len(living[c[1]]) : living[c[1]][i] = c[2]
  BY DEF Characters, Sides, UnitSet
<1>3. QED
  BY <1>1, <1>2 DEF InPlay

\* The choice on the menu of a move is an attack of the player's.
LEMMA ChoiceType ==
  ASSUME NEW e \in Element, Len(e) = 3, NEW a \in MovesOf("own", e[2], Characters)
  PROVE  a \in Attack /\ a.by[1] = "own"
<1>1. e \in {"menu"} \X UnitSet \X MoveSet
  BY DEF Element
<1>2. e[2] \in UnitSet
  BY <1>1
<1>3. PICK t \in Characters, m \in Moves[e[2]] :
        a = [by |-> <<"own", e[2]>>, on |-> t, move |-> m]
  BY DEF MovesOf
<1>4. <<"own", e[2]>> \in Characters /\ m \in MoveSet
  BY <1>2 DEF Characters, Sides, MoveSet
<1>5. QED
  BY <1>3, <1>4 DEF Attack

LEMMA ChooseTargetIInv == ASSUME IInv, ChooseTarget PROVE IInv'
<1> DEFINE s == screens["InGame"]
           t == PopBackTo(s, <<"panel">>)
<1>1. /\ mode = "InGame" /\ s \in Seq(Element) /\ Grounded(s)
      /\ Len(s) \in Nat \ {0} /\ Top = s[Len(s)]
      /\ Len(Top) = 3 /\ screens' = [screens EXCEPT !["InGame"] = t]
      /\ UNCHANGED <<teamId, living, health, part, frame, sprite, looping>>
  BY InGameStack DEF ChooseTarget
<1>2. PICK a \in MovesOf("own", Top[2], Characters) :
        IF Len(QueuedWith(a)) = Len(living["own"])
        THEN Outgoing(QueuedWith(a))
        ELSE queue' = QueuedWith(a) /\ UNCHANGED <<mode, animating, current, playing>>
  BY DEF ChooseTarget
<1> HIDE DEF s
<1>3. Top \in Element
  BY <1>1
<1>4. a \in Attack /\ a.by[1] = "own"
  BY <1>1, <1>2, <1>3, ChoiceType
<1>5. t \in Seq(Element) /\ Grounded(t)
  BY <1>1, PopBackToPanel
<1> HIDE DEF t
<1> DEFINE q == QueuedWith(a)
<1>6. /\ current = 0 /\ ~animating /\ \A c \in Characters : playing[c] = None
      /\ \A i \in 1..Len(queue) : queue[i].by[1] = "own"
      /\ living["own"] = Units /\ living["enemy"] = Units
  BY <1>1 DEF IInv, TurnOK, Choosing
<1>7. queue \in Seq(Attack) /\ \A i, j \in 1..Len(queue) : queue[j].by = queue[i].by => i = j
  BY <1>6 DEF IInv, TypeOK, TurnComplete
<1>8. /\ q \in Seq(Attack) /\ q # <<>> /\ Len(q) \in Nat
      /\ \A i, j \in 1..Len(q) : q[j].by = q[i].by => i = j
      /\ \A i \in 1..Len(q) : q[i].by[1] = "own"
  <2>1. /\ q \in Seq(Attack) /\ q # <<>>
        /\ \A i, j \in 1..Len(q) : q[j].by = q[i].by => i = j
        /\ \A i \in 1..Len(q) : q[i] = a \/ \E j \in 1..Len(queue) : q[i] = queue[j]
    BY <1>4, <1>7, QueuedWithProperties
  <2> HIDE DEF q
  <2>2. Len(q) \in Nat
    BY <2>1
  <2>3. ASSUME NEW i \in 1..Len(q) PROVE q[i].by[1] = "own"
    <3>1. CASE q[i] = a
      BY <3>1, <1>4
    <3>2. CASE \E j \in 1..Len(queue) : q[i] = queue[j]
      BY <3>2, <1>6
    <3>3. QED
      BY <3>1, <3>2, <2>1
  <2>4. QED
    BY <2>1, <2>2, <2>3
<1>9. screens \in [Modes -> Seq(Element)] /\ "InGame" \in Modes
  BY DEF IInv, TypeOK, Modes
<1>10. /\ screens' \in [Modes -> Seq(Element)] /\ screens'["InGame"] = t
       /\ \A m \in Modes \ {"InGame"} : screens'[m] = screens[m]
  BY <1>1, <1>5, <1>9
<1>11. mode' \in {"InGame", "OpponentTurn"} => ScreensOK'
  BY <1>1, <1>5, <1>10 DEF IInv, ScreensOK, Modes
<1>12. /\ teamId' \in {"null", "TeamOne", "TeamTwo"}
       /\ living' \in [Sides -> Seq(UnitSet)]
       /\ health' \in [Characters -> Nat] /\ \A c \in Characters : health'[c] <= MaxHealth[c]
       /\ part' \in [DOMAIN Script -> Nat \ {0}] /\ frame' \in [DOMAIN Script -> Nat]
       /\ sprite' \in [Characters -> Look] /\ looping' \in BOOLEAN
  BY <1>1 DEF IInv, TypeOK
<1> HIDE DEF q
<1>13. CASE queue' = q /\ UNCHANGED <<mode, animating, current, playing>>
  <2>1. TypeOK'
    BY <1>8, <1>10, <1>12, <1>13 DEF IInv, TypeOK
  <2>2. TurnOK'
    BY <1>1, <1>6, <1>8, <1>13 DEF TurnOK, Choosing
  <2>3. OneAtATime' /\ PlaysLiving'
    BY <1>6, <1>13 DEF OneAtATime, PlaysLiving
  <2>4. TurnComplete'
    BY <1>6, <1>8, <1>13 DEF TurnComplete
  <2>5. ScreensOK'
    BY <1>1, <1>11, <1>13
  <2>6. QED
    BY <2>1, <2>2, <2>3, <2>4, <2>5 DEF IInv
<1>14. CASE Len(q) = Len(Units) /\ Outgoing(q)
  <2>1. PICK turn \in DriverTurns : queue' = q \o turn
    BY <1>14 DEF Outgoing
  <2>2. /\ mode' = "OpponentTurn" /\ animating' = TRUE /\ current' = 1
        /\ playing' = [playing EXCEPT ![q[1].by] = q[1]]
    BY <1>14 DEF Outgoing
  <2>3. turn \in Seq(Attack) /\ \A i \in 1..Len(turn) : turn[i].by[1] = "enemy"
    BY DriverTurnsType DEF IInv
  <2>4. /\ queue' \in Seq(Attack) /\ Len(queue') = Len(q) + Len(turn)
        /\ \A i \in 1..(Len(q) + Len(turn)) :
             queue'[i] = IF i <= Len(q) THEN q[i] ELSE turn[i - Len(q)]
        /\ Len(turn) \in Nat
    BY <2>1, <2>3, <1>8, ConcatProperties
  <2>5. /\ Len(q) \in Nat \ {0} /\ q[1] \in Attack /\ q[1].by \in Characters
        /\ queue'[1] = q[1] /\ 1 \in 1..Len(queue')
    <3>1. Len(q) \in Nat \ {0}
      BY <1>8, EmptySeq
    <3>2. q[1] \in Attack
      BY <1>8, <3>1
    <3>3. QED
      BY <3>1, <3>2, <2>4 DEF Attack
  <2>6. /\ \A i \in 1..Len(q) : queue'[i] = q[i] /\ queue'[i].by[1] = "own"
        /\ \A i \in 1..Len(queue') : ~(i <= Len(q)) => queue'[i].by[1] = "enemy"
    <3>1. \A i \in 1..Len(q) : queue'[i] = q[i] /\ queue'[i].by[1] = "own"
      BY <2>4, <2>5, <1>8
    <3>2. ASSUME NEW i \in 1..Len(queue'), ~(i <= Len(q)) PROVE queue'[i].by[1] = "enemy"
      <4>1. queue'[i] = turn[i - Len(q)] /\ i - Len(q) \in 1..Len(turn)
        BY <3>2, <2>4, <2>5
      <4>2. QED
        BY <4>1, <2>3
    <3>3. QED
      BY <3>1, <3>2
  <2>7. /\ playing' \in [Characters -> Attack \cup {None}]
        /\ playing'[q[1].by] = q[1]
        /\ \A c \in Characters : playing'[c] # None => c = q[1].by
    BY <2>2, <2>5, <1>6 DEF IInv, TypeOK
  <2>8. TypeOK'
    BY <2>2, <2>4, <2>7, <1>10, <1>12 DEF TypeOK, Modes
  <2>9. TurnOK'
    BY <2>2 DEF TurnOK, Choosing
  <2>10. OneAtATime'
    BY <2>2, <2>5, <2>7 DEF OneAtATime
  <2>11. PlaysLiving'
    <3>1. InPlay(q[1], living') 
      BY <2>5, <1>1, <1>6, AllInPlay
    <3>2. QED
      BY <3>1, <2>7 DEF PlaysLiving
  <2>12. TurnComplete'
    <3>1. \A i, j \in 1..Len(queue') :
            queue'[i].by[1] = "own" /\ queue'[j].by = queue'[i].by => i = j
      <4> SUFFICES ASSUME NEW i \in 1..Len(queue'), NEW j \in 1..Len(queue'),
                          queue'[i].by[1] = "own", queue'[j].by = queue'[i].by
                   PROVE  i = j
        OBVIOUS
      <4>1. i \in 1..Len(q) /\ j \in 1..Len(q)
        BY <2>4, <2>5, <2>6
      <4>2. QED
        BY <4>1, <2>6, <1>8
    <3>2. Len(queue') >= Len(Units)
      BY <2>4, <2>5, <1>14
    <3>3. \A i \in 1..Len(queue') : queue'[i].by[1] = "own" <=> i <= Len(Units)
      BY <2>4, <2>5, <2>6, <1>14
    <3>4. QED
      BY <3>1, <3>2, <3>3 DEF TurnComplete
  <2>13. ScreensOK'
    BY <2>2, <1>11
  <2>14. QED
    BY <2>8, <2>9, <2>10, <2>11, <2>12, <2>13 DEF IInv
<1>15. QED
  BY <1>2, <1>6, <1>13, <1>14 DEF q

-----------------------------------------------------------------------------
(* The invariant and the theorems *)

LEMMA InitIInv == Init => IInv
<1> SUFFICES ASSUME Init PROVE IInv
  OBVIOUS
<1>1. <<>> \in Seq(Element) /\ <<<<"panel">>>> \in Seq(Element) /\ <<>> \in Seq(UnitSet)
      /\ <<>> \in Seq(Attack)
  BY DEF Element
<1>2. Units \in Seq(UnitSet)
  BY TeamAssumption DEF UnitSet
<1>3. /\ health \in [Characters -> Nat] /\ \A c \in Characters : health[c] <= MaxHealth[c]
  BY MovesAssumption DEF Init
<1>4. frame \in [DOMAIN Script -> Nat]
  <2> SUFFICES ASSUME NEW m \in DOMAIN Script PROVE Frames[Script[m][1]] \in Nat
    BY DEF Init
  <2>1. Script[m] \in Seq(Parts) /\ Script[m] # <<>>
    BY ScriptAssumption
  <2>2. Script[m][1] \in Parts
    BY <2>1, EmptySeq
  <2>3. QED
    BY <2>2, ScriptAssumption
<1>5. sprite \in [Characters -> Look]
  <2> SUFFICES ASSUME NEW c \in Characters PROVE AtRest(c) \in Look
    BY DEF Init
  <2>1. Home(c) \in Int /\ (c[1] = "enemy") \in BOOLEAN
    BY HomeInt
  <2>2. QED
    BY <2>1 DEF AtRest, Look
<1>6. TypeOK
  <2>1. screens \in [Modes -> Seq(Element)] /\ mode \in Modes
    BY <1>1 DEF Init, Modes
  <2>2. living \in [Sides -> Seq(UnitSet)] /\ queue \in Seq(Attack)
    BY <1>1, <1>2 DEF Init
  <2>3. part \in [DOMAIN Script -> Nat \ {0}]
    BY DEF Init
  <2>4. playing \in [Characters -> Attack \cup {None}]
    BY DEF Init
  <2>5. /\ teamId \in {"null", "TeamOne", "TeamTwo"} /\ current \in Nat
        /\ animating \in BOOLEAN /\ looping \in BOOLEAN
    BY DEF Init
  <2>6. QED
    BY <1>3, <1>4, <1>5, <2>1, <2>2, <2>3, <2>4, <2>5 DEF TypeOK
<1>7. ScreensOK
  BY DEF Init, ScreensOK, Modes
<1>8. TurnOK
  BY DEF Init, TurnOK, Choosing, Sides
<1>9. OneAtATime /\ PlaysLiving
  BY DEF Init, OneAtATime, PlaysLiving
<1>10. TurnComplete
  BY DEF Init, TurnComplete
<1>11. QED
  BY <1>6, <1>7, <1>8, <1>9, <1>10 DEF IInv

LEMMA StutterIInv == ASSUME IInv, UNCHANGED vars PROVE IInv'
<1>1. UNCHANGED <<ui, state, animator, looping>>
  BY DEF vars
<1>2. TypeOK'
  BY <1>1 DEF IInv, TypeOK, ui, state, animator
<1>3. QED
  BY <1>1, <1>2, SameTurn DEF IInv, animator

LEMMA NextIInv == IInv /\ [Next]_vars => IInv'
<1> SUFFICES ASSUME IInv, [Next]_vars PROVE IInv'
  OBVIOUS
<1>1. CASE Click
  BY <1>1, TitleIInv, OpenMenuIInv, BackIInv, ChooseTargetIInv DEF Click
<1>2. ASSUME NEW c \in Characters, Animate(c) PROVE IInv'
  BY <1>2, WalkTargetIInv, StrikeIInv, ArcaneBurstIInv, WalkBackIInv, PoseIInv,
     NextPartIInv, EndSequenceIInv, NoAnimationIInv, PlayedBeforeIInv DEF Animate
<1>3. CASE UNCHANGED vars
  BY <1>3, StutterIInv
<1>4. QED
  BY <1>1, <1>2, <1>3 DEF Next

LEMMA Invariance == Spec => []IInv
BY InitIInv, NextIInv, PTL DEF Spec

\* Healths stay between nothing and the most, teams are teams, and what is
\* performed is an attack (GameState, Animator).
THEOREM TypeCorrect == Spec => []TypeOK
<1>1. IInv => TypeOK
  BY DEF IInv
<1>2. QED
  BY <1>1, Invariance, PTL

\* Animator and results keep step, for any team, script and damage: the results
\* the driver queues while the first one is played do not start a second
\* animation (Game.update, OUTGOINGATTACK, INCOMINGATTACK, ANIMATION_FINISH).
THEOREM PlaysOneAtATime == Spec => []OneAtATime
<1>1. IInv => OneAtATime
  BY DEF IInv
<1>2. QED
  BY <1>1, Invariance, PTL

\* There is always a screen on the stack of the mode (UI, RenderStack).
THEOREM AlwaysAScreen == Spec => []ScreenOnTop
<1>1. IInv => ScreenOnTop
  BY DEF IInv, ScreensOK, ScreenOnTop, TypeOK, Modes, Grounded
<1>2. QED
  BY <1>1, Invariance, PTL

\* A turn goes out with one attack of each of the player's characters (queAttack).
THEOREM TurnsAreComplete == Spec => []TurnComplete
<1>1. IInv => TurnComplete
  BY DEF IInv
<1>2. QED
  BY <1>1, Invariance, PTL

-----------------------------------------------------------------------------
(* Results count once *)

\* Induction with a set of numbers for the statement.
LEMMA Induction ==
  ASSUME NEW S, 0 \in S, \A n \in Nat : n \in S => n + 1 \in S
  PROVE  Nat \subseteq S
<1> DEFINE T == Nat \ S
           R == {p \in Nat \X Nat : p[1] < p[2]}
<1>1. IsWellFoundedOn(R, Nat)
  BY NatLessThanWellFounded DEF OpToRel
<1> SUFFICES ASSUME T # {} PROVE FALSE
  OBVIOUS
<1> HIDE DEF R
<1>2. PICK n \in T : \A m \in T : <<m, n>> \notin R
  <2>1. T \subseteq Nat
    OBVIOUS
  <2> HIDE DEF T
  <2> QED
    BY ONLY <1>1, <2>1, T # {}, WFMin
<1>3. n # 0 /\ n - 1 \in Nat /\ n - 1 \notin T
  <2>1. n # 0 /\ n - 1 \in Nat
    OBVIOUS
  <2>2. <<n - 1, n>> \in R
    BY <2>1 DEF R
  <2> QED
    BY <1>2, <2>1, <2>2
<1>4. (n - 1) + 1 = n
  OBVIOUS
<1> QED
  BY <1>3, <1>4

\* Health h after one more result.
Counted(h, a) == [h EXCEPT ![a.on] = Clamp(h[a.on] - Damage[a.move], 0, MaxHealth[a.on])]

\* g reckons the first n results of q; ReckonedIn is Reckoned with its queue.
IsReckoning(g, q, n) ==
  g = [i \in 0..n |-> IF i = 0 THEN MaxHealth ELSE Counted(g[i - 1], q[i])]
ReckonedIn(q, n) == (CHOOSE g : IsReckoning(g, q, n))[n]

LEMMA ReckonedQueue == \A n : Reckoned(n) = ReckonedIn(queue, n)
BY DEF Reckoned, ReckonedIn, IsReckoning, Counted

LEMMA ReckoningUnique ==
  ASSUME NEW q, NEW n \in Nat, NEW m \in Nat, NEW g, NEW h,
         IsReckoning(g, q, n), IsReckoning(h, q, m)
  PROVE  \A k \in Nat : k <= n /\ k <= m => g[k] = h[k]
<1> DEFINE S == {k \in Nat : k <= n /\ k <= m => g[k] = h[k]}
<1>1. \A i \in 0..n : g[i] = IF i = 0 THEN MaxHealth ELSE Counted(g[i - 1], q[i])
  BY DEF IsReckoning
<1>2. \A i \in 0..m : h[i] = IF i = 0 THEN MaxHealth ELSE Counted(h[i - 1], q[i])
  BY DEF IsReckoning
<1>3. 0 \in S
  BY <1>1, <1>2
<1>4. ASSUME NEW k \in Nat, k \in S PROVE k + 1 \in S
  <2> SUFFICES ASSUME k + 1 <= n, k + 1 <= m PROVE g[k + 1] = h[k + 1]
    BY <1>4
  <2>1. g[k] = h[k]
    BY <1>4
  <2>2. k + 1 \in 0..n /\ k + 1 \in 0..m /\ k + 1 # 0 /\ (k + 1) - 1 = k
    BY <1>4
  <2>3. g[k + 1] = Counted(g[k], q[k + 1]) /\ h[k + 1] = Counted(h[k], q[k + 1])
    BY <1>1, <1>2, <2>2
  <2> QED
    BY <2>1, <2>3
<1>5. Nat \subseteq S
  <2> HIDE DEF S
  <2> QED
    BY <1>3, <1>4, Induction
<1> QED
  BY <1>5

LEMMA ReckoningExists ==
  ASSUME NEW q
  PROVE  \A n \in Nat : \E g : IsReckoning(g, q, n)
<1> DEFINE S == {n \in Nat : \E g : IsReckoning(g, q, n)}
<1>1. 0 \in S
  <2> DEFINE g == [i \in 0..0 |-> MaxHealth]
  <2>1. g = [i \in 0..0 |-> IF i = 0 THEN MaxHealth ELSE Counted(g[i - 1], q[i])]
    OBVIOUS
  <2>2. IsReckoning(g, q, 0)
    BY <2>1 DEF IsReckoning
  <2> QED
    BY <2>2
<1>2. ASSUME NEW n \in Nat, n \in S PROVE n + 1 \in S
  <2>1. PICK g : IsReckoning(g, q, n)
    BY <1>2
  <2> DEFINE h == [i \in 0..n + 1 |-> IF i <= n THEN g[i] ELSE Counted(g[n], q[n + 1])]
  <2>2. \A i \in 0..n : g[i] = IF i = 0 THEN MaxHealth ELSE Counted(g[i - 1], q[i])
    BY <2>1 DEF IsReckoning
  <2>3. \A i \in 0..n + 1 : h[i] = IF i = 0 THEN MaxHealth ELSE Counted(h[i - 1], q[i])
    <3> TAKE i \in 0..n + 1
    <3>1. CASE i = 0
      BY <1>2, <2>2, <3>1
    <3>2. CASE i \in 1..n
      <4>1. i - 1 \in 0..n + 1 /\ i - 1 <= n /\ i <= n /\ i \in 0..n /\ i # 0
        BY <1>2, <3>2
      <4>2. h[i - 1] = g[i - 1] /\ h[i] = g[i]
        BY <4>1
      <4> HIDE DEF h
      <4> QED
        BY <2>2, <4>1, <4>2
    <3>3. CASE i = n + 1
      <4>1. i - 1 = n /\ i # 0 /\ n \in 0..n + 1 /\ n <= n /\ ~(i <= n)
        BY <1>2, <3>3
      <4>2. h[n] = g[n] /\ h[i] = Counted(g[n], q[n + 1])
        BY <4>1
      <4> HIDE DEF h
      <4> QED
        BY <3>3, <4>1, <4>2
    <3> QED
      BY <1>2, <3>1, <3>2, <3>3
  <2>4. h = [i \in 0..n + 1 |-> h[i]]
    OBVIOUS
  <2> HIDE DEF h
  <2>5. IsReckoning(h, q, n + 1)
    BY <2>3, <2>4 DEF IsReckoning
  <2> QED
    BY <1>2, <2>5
<1>3. Nat \subseteq S
  <2> HIDE DEF S
  <2> QED
    BY <1>1, <1>2, Induction
<1> QED
  BY <1>3

\* One more result on top of those before.
LEMMA ReckonedSteps ==
  ASSUME NEW q
  PROVE  /\ ReckonedIn(q, 0) = MaxHealth
         /\ \A n \in Nat : ReckonedIn(q, n + 1) = Counted(ReckonedIn(q, n), q[n + 1])
<1> DEFINE G(n) == CHOOSE g : IsReckoning(g, q, n)
<1>1. \A n \in Nat : IsReckoning(G(n), q, n) /\ ReckonedIn(q, n) = G(n)[n]
  BY ReckoningExists DEF ReckonedIn
<1> HIDE DEF G
<1>2. \A n \in Nat : \A i \in 0..n :
        G(n)[i] = IF i = 0 THEN MaxHealth ELSE Counted(G(n)[i - 1], q[i])
  BY <1>1 DEF IsReckoning
<1>3. ReckonedIn(q, 0) = MaxHealth
  BY <1>1, <1>2
<1>4. ASSUME NEW n \in Nat PROVE ReckonedIn(q, n + 1) = Counted(ReckonedIn(q, n), q[n + 1])
  <2>1. n + 1 \in Nat /\ n + 1 \in 0..n + 1 /\ n + 1 # 0 /\ (n + 1) - 1 = n /\ n <= n /\ n <= n + 1
    OBVIOUS
  <2>2. G(n + 1)[n + 1] = Counted(G(n + 1)[n], q[n + 1])
    BY <1>2, <2>1
  <2>3. G(n + 1)[n] = G(n)[n]
    BY <1>1, <2>1, ReckoningUnique
  <2> QED
    BY <1>1, <2>1, <2>2, <2>3
<1> QED
  BY <1>3, <1>4

\* What the single player driver and the menus make of Target.OwnTeam.
QueueSides ==
  \A i \in 1..Len(queue) : (queue[i].on[1] = queue[i].by[1]) <=> (queue[i].move \in Friendly)

\* The parts of ResultsCount
Members(s) == {s[i] : i \in 1..Len(s)}
Ranked(s) == \A i, j \in 1..Len(s) : i < j => Place(s[i]) < Place(s[j])
Standing(s) == {u \in UnitSet : health[<<s, u>>] # 0}
Begun == mode # "TitleScreen" /\ mode # "Waiting"
HealthOK == health = ReckonedIn(queue, IF current = 0 THEN 0 ELSE current - 1)
TeamsOK == Begun => \A s \in Sides : Members(living[s]) = Standing(s) /\ Ranked(living[s])
EndOK ==
  /\ (mode = "GameWin") <=> (mode \notin {"TitleScreen", "Waiting"} /\ living["enemy"] = <<>>)
  /\ (mode = "GameLose") <=> (living["own"] = <<>>)

CountOK == HealthOK /\ TeamsOK /\ EndOK /\ QueueSides

LEMMA CountParts ==
  /\ ResultsCount <=> HealthOK /\ TeamsOK /\ EndOK
  /\ ResultsCount' <=> HealthOK' /\ TeamsOK' /\ EndOK'
<1>1. HealthOK <=> health = Reckoned(IF current = 0 THEN 0 ELSE current - 1)
  BY ReckonedQueue DEF HealthOK
<1>2. HealthOK' <=> health' = Reckoned(IF current = 0 THEN 0 ELSE current - 1)'
  BY DEF HealthOK, Reckoned, ReckonedIn, IsReckoning, Counted
<1>3. ResultsCount <=> HealthOK /\ TeamsOK /\ EndOK
  BY <1>1 DEF ResultsCount, TeamsOK, EndOK, Begun, Members, Ranked, Standing
<1>4. ResultsCount' <=> HealthOK' /\ TeamsOK' /\ EndOK'
  BY <1>2 DEF ResultsCount, TeamsOK, EndOK, Begun, Members, Ranked, Standing
<1> QED
  BY <1>3, <1>4

LEMMA PlaceInt == ASSUME NEW u \in UnitSet PROVE Place(u) \in Int
<1>1. \E i \in 1..Len(Units) : Units[i] = u
  BY DEF UnitSet
<1>2. Place(u) \in 1..Len(Units) /\ Len(Units) \in Nat
  BY <1>1, TeamAssumption DEF Place
<1> QED
  BY <1>2

\* The units of a team are in their order from the start.
LEMMA UnitsRanked == Ranked(Units) /\ Members(Units) = UnitSet
<1>1. \A i \in 1..Len(Units) : Place(Units[i]) = i
  BY TeamAssumption DEF Place
<1> QED
  BY <1>1 DEF Ranked, Members, UnitSet

\* splice(i, 1) takes the one unit out and leaves the others in their order.
LEMMA RemoveRanked ==
  ASSUME NEW s \in Seq(UnitSet), Ranked(s), NEW k \in 1..Len(s)
  PROVE  /\ Ranked(RemoveAt(s, k)) /\ Members(RemoveAt(s, k)) = Members(s) \ {s[k]}
<1> DEFINE r == RemoveAt(s, k)
           from(j) == IF j < k THEN j ELSE j + 1
<1>1. /\ Len(s) \in Nat /\ r \in Seq(UnitSet) /\ Len(r) = Len(s) - 1
      /\ \A j \in 1..Len(r) : r[j] = IF j < k THEN s[j] ELSE s[j + 1]
  BY RemoveAtProperties
<1> HIDE DEF r
<1>2. \A j \in 1..Len(r) : from(j) \in 1..Len(s) /\ from(j) # k /\ r[j] = s[from(j)]
  BY <1>1
<1>3. \A i, j \in 1..Len(r) : i < j => from(i) < from(j)
  BY <1>1
<1>4. \A i \in 1..Len(s) : i # k => \E j \in 1..Len(r) : i = from(j)
  <2> SUFFICES ASSUME NEW i \in 1..Len(s), i # k PROVE \E j \in 1..Len(r) : i = from(j)
    OBVIOUS
  <2>1. CASE i < k
    <3>1. i \in 1..Len(r) /\ from(i) = i
      BY <1>1, <2>1
    <3> QED
      BY <3>1
  <2>2. CASE i > k
    <3>1. i - 1 \in 1..Len(r) /\ from(i - 1) = i
      BY <1>1, <2>2
    <3> QED
      BY <3>1
  <2> QED
    BY <1>1, <2>1, <2>2
<1> HIDE DEF from
<1>5. Ranked(r)
  BY <1>2, <1>3 DEF Ranked
<1>6. \A i \in 1..Len(s) : s[i] = s[k] => i = k
  <2> SUFFICES ASSUME NEW i \in 1..Len(s), s[i] = s[k] PROVE i = k
    OBVIOUS
  <2>1. s[i] \in UnitSet /\ Place(s[i]) \in Int
    BY PlaceInt
  <2>2. ~(i < k) /\ ~(k < i)
    BY <2>1 DEF Ranked
  <2> QED
    BY <1>1, <2>2
<1>7. Members(r) \subseteq Members(s) \ {s[k]}
  BY <1>2, <1>6 DEF Members
<1>8. Members(s) \ {s[k]} \subseteq Members(r)
  BY <1>2, <1>4 DEF Members
<1> QED
  BY <1>5, <1>7, <1>8 DEF r

\* A result counts for somebody who is alive.
LEMMA Alive ==
  ASSUME TypeOK, TeamsOK, Begun, NEW a \in Attack, InPlay(a, living)
  PROVE  /\ a.on \in Characters /\ a.on = <<a.on[1], a.on[2]>>
         /\ a.on[1] \in Sides /\ a.by[1] \in Sides
         /\ a.on[2] \in Members(living[a.on[1]]) /\ a.by[2] \in Members(living[a.by[1]])
         /\ health[a.on] # 0
<1>1. /\ a.on \in Characters /\ a.on = <<a.on[1], a.on[2]>>
      /\ a.on[1] \in Sides /\ a.by[1] \in Sides
  BY DEF Attack, Characters
<1>2. a.on[2] \in Members(living[a.on[1]]) /\ a.by[2] \in Members(living[a.by[1]])
  BY DEF InPlay, Members
<1>3. a.on[2] \in Standing(a.on[1])
  BY <1>1, <1>2 DEF TeamsOK
<1> QED
  BY <1>1, <1>2, <1>3 DEF Standing

\* Whom a result kills leaves the team, and nobody else does.
LEMMA BuriedRight ==
  ASSUME TypeOK, TeamsOK, Begun, NEW a \in Attack, InPlay(a, living)
  PROVE  LET s == a.on[1] IN
         /\ Struck(a)[a.on] # 0 => Buried(a) = living
         /\ Struck(a)[a.on] = 0 =>
              /\ \A r \in Sides : r # s => Buried(a)[r] = living[r]
              /\ Ranked(Buried(a)[s]) /\ Members(Buried(a)[s]) = Members(living[s]) \ {a.on[2]}
<1> DEFINE s == a.on[1]
           team == living[s]
           index == CHOOSE i \in 1..Len(team) : team[i] = a.on[2]
<1>1. s \in Sides /\ a.on[2] \in Members(team) /\ health[a.on] # 0
  BY Alive
<1>2. living \in [Sides -> Seq(UnitSet)] /\ team \in Seq(UnitSet) /\ Ranked(team)
  BY <1>1 DEF TypeOK, TeamsOK
<1>3. index \in 1..Len(team) /\ team[index] = a.on[2]
  BY <1>1 DEF Members
<1>4. Buried(a) = IF health[a.on] # 0 /\ Struck(a)[a.on] = 0
                  THEN [living EXCEPT ![s] = RemoveAt(team, index)] ELSE living
  BY DEF Buried
<1> HIDE DEF index, team
<1>5. Ranked(RemoveAt(team, index)) /\ Members(RemoveAt(team, index)) = Members(team) \ {a.on[2]}
  BY <1>2, <1>3, RemoveRanked
<1>6. ASSUME Struck(a)[a.on] = 0
      PROVE  /\ \A r \in Sides : r # s => Buried(a)[r] = living[r]
             /\ Buried(a)[s] = RemoveAt(team, index)
  BY <1>1, <1>2, <1>4, <1>6
<1>7. Struck(a)[a.on] # 0 => Buried(a) = living
  BY <1>4
<1> QED
  BY <1>5, <1>6, <1>7 DEF team

\* Teams and healths after a result.
LEMMA TeamsAfter ==
  ASSUME TypeOK, TeamsOK, Begun, NEW a \in Attack, InPlay(a, living),
         health' = Struck(a), living' = Buried(a)
  PROVE  \A s \in Sides : Members(living'[s]) = Standing(s)' /\ Ranked(living'[s])
<1>1. /\ a.on \in Characters /\ a.on = <<a.on[1], a.on[2]>> /\ a.on[1] \in Sides
      /\ a.on[2] \in UnitSet /\ health[a.on] # 0
  BY Alive DEF Characters
<1>2. \A d \in Characters : d # a.on => health'[d] = health[d]
  BY <1>1 DEF Struck, TypeOK
<1>3. \A s \in Sides : Members(living[s]) = Standing(s) /\ Ranked(living[s])
  BY DEF TeamsOK
<1>4. CASE Struck(a)[a.on] # 0
  <2>1. \A d \in Characters : health'[d] # 0 <=> health[d] # 0
    BY <1>1, <1>2, <1>4
  <2>2. \A s \in Sides : Standing(s)' = Standing(s)
    BY <2>1 DEF Standing, Characters
  <2>3. living' = living
    BY <1>4, BuriedRight
  <2> QED
    BY <1>3, <2>2, <2>3
<1>5. CASE Struck(a)[a.on] = 0
  <2>1. ASSUME NEW s \in Sides, s # a.on[1]
        PROVE  Members(living'[s]) = Standing(s)' /\ Ranked(living'[s])
    <3>1. \A u \in UnitSet : <<s, u>> \in Characters /\ <<s, u>> # a.on
      BY <1>1, <2>1 DEF Characters
    <3>2. Standing(s)' = Standing(s)
      BY <1>2, <3>1 DEF Standing
    <3>3. living'[s] = living[s]
      BY <1>5, <2>1, BuriedRight
    <3> QED
      BY <1>3, <3>2, <3>3
  <2> DEFINE s == a.on[1]
  <2>2. Standing(s)' = Standing(s) \ {a.on[2]}
    <3>1. \A u \in UnitSet : <<s, u>> \in Characters /\ (<<s, u>> = a.on <=> u = a.on[2])
      BY <1>1 DEF Characters
    <3>2. health'[a.on] = 0
      BY <1>5
    <3>3. \A u \in UnitSet : health'[<<s, u>>] # 0 <=> health[<<s, u>>] # 0 /\ u # a.on[2]
      BY <1>2, <3>1, <3>2
    <3> QED
      BY <3>3 DEF Standing
  <2>3. Ranked(living'[s]) /\ Members(living'[s]) = Members(living[s]) \ {a.on[2]}
    BY <1>5, BuriedRight
  <2>4. Members(living'[s]) = Standing(s)' /\ Ranked(living'[s])
    BY <1>1, <1>3, <2>2, <2>3
  <2> QED
    BY <2>1, <2>4
<1> QED
  BY <1>4, <1>5

LEMMA EmptyMembers == \A s \in Seq(UnitSet) : s = <<>> <=> Members(s) = {}
<1> SUFFICES ASSUME NEW s \in Seq(UnitSet) PROVE s = <<>> <=> Members(s) = {}
  OBVIOUS
<1>1. s # <<>> => 1 \in 1..Len(s)
  BY EmptySeq
<1>2. s = <<>> => 1..Len(s) = {}
  OBVIOUS
<1> QED
  BY <1>1, <1>2 DEF Members

\* The side that is hit to its last loses, and the other has somebody left.
LEMMA EndAfter ==
  ASSUME TypeOK, TeamsOK, EndOK, Begun, NEW a \in Attack, InPlay(a, living),
         (a.on[1] = a.by[1]) <=> (a.move \in Friendly),
         mode \notin {"TitleScreen", "Waiting"},
         living' = Buried(a), Conclude(a)
  PROVE  EndOK' /\ mode' \notin {"TitleScreen", "Waiting"}
<1> DEFINE s == a.on[1]
<1>1. /\ a.on \in Characters /\ s \in Sides /\ a.by[1] \in Sides /\ health[a.on] # 0
      /\ living[s] # <<>> /\ living[a.by[1]] # <<>>
  <2>1. /\ living[s] \in Seq(UnitSet) /\ living[a.by[1]] \in Seq(UnitSet)
        /\ a.on \in Characters /\ s \in Sides /\ a.by[1] \in Sides /\ health[a.on] # 0
        /\ Members(living[s]) # {} /\ Members(living[a.by[1]]) # {}
    BY Alive DEF TypeOK
  <2> QED
    BY <2>1, EmptyMembers
<1>2. CASE Struck(a)[a.on] # 0
  <2>1. living' = living
    BY <1>2, BuriedRight
  <2>2. UNCHANGED ui
    BY <1>1, <2>1 DEF Conclude
  <2> QED
    BY <2>1, <2>2 DEF EndOK, ui
<1>3. CASE Struck(a)[a.on] = 0
  <2>1. Damage[a.move] > 0
    <3>1. a.move \in MoveSet /\ Damage[a.move] \in Int /\ MaxHealth[a.on] \in Nat \ {0}
      BY <1>1, MovesAssumption DEF Attack
    <3>2. health \in [Characters -> Nat] /\ health[a.on] \in Nat \ {0}
      BY <1>1 DEF TypeOK
    <3>3. Struck(a)[a.on] = Clamp(health[a.on] - Damage[a.move], 0, MaxHealth[a.on])
      BY <1>1, <3>2 DEF Struck
    <3> QED
      BY <1>3, <3>1, <3>2, <3>3 DEF Clamp
  <2>2. a.by[1] # s
    <3>1. a.move \notin Friendly
      BY <2>1, FriendlyAssumption, MovesAssumption
    <3> QED
      BY <3>1
  <2>3. living["own"] # <<>> /\ living["enemy"] # <<>>
    BY <1>1, <2>2 DEF Sides
  <2>4. mode # "GameWin" /\ mode # "GameLose"
    BY <2>3 DEF EndOK
  <2>5. \A r \in Sides : r # s => living'[r] # <<>>
    BY <1>3, <2>3, BuriedRight DEF Sides
  <2>6. CASE living'[s] = <<>>
    <3>1. mode' = IF s = "enemy" THEN "GameWin" ELSE "GameLose"
      BY <1>1, <2>6 DEF Conclude
    <3> QED
      BY <1>1, <2>5, <2>6, <3>1 DEF EndOK, Sides
  <2>7. CASE living'[s] # <<>>
    <3>1. UNCHANGED ui
      BY <2>7 DEF Conclude
    <3>2. mode' = mode
      BY <3>1 DEF ui
    <3> QED
      BY <1>1, <2>4, <2>5, <2>7, <3>2 DEF EndOK, Sides
  <2> QED
    BY <2>6, <2>7
<1> QED
  BY <1>2, <1>3

LEMMA FinishCounts ==
  ASSUME IInv, CountOK, NEW c \in Characters, Playing(c), Finish(c)
  PROVE  CountOK'
<1> DEFINE a == queue[current]
<1>1. /\ animating /\ current \in 1..Len(queue) /\ a \in Attack /\ InPlay(a, living)
      /\ TypeOK /\ Len(queue) \in Nat
  BY Performer DEF IInv, TypeOK
<1>2. /\ health' = Struck(a) /\ living' = Buried(a) /\ Conclude(a)
      /\ current' = current + 1 /\ queue' = queue
  BY DEF Finish
<1>3. Begun /\ mode \notin {"TitleScreen", "Waiting"}
  BY <1>1 DEF IInv, TurnOK, Choosing, Begun
<1>4. (a.on[1] = a.by[1]) <=> (a.move \in Friendly)
  BY <1>1 DEF CountOK, QueueSides
<1> HIDE DEF a
<1>5. TeamsOK /\ EndOK
  BY DEF CountOK
<1>6. EndOK' /\ mode' \notin {"TitleScreen", "Waiting"}
  BY <1>1, <1>2, <1>3, <1>4, <1>5, EndAfter
<1>7. TeamsOK'
  BY <1>1, <1>2, <1>3, <1>5, TeamsAfter DEF TeamsOK
<1>8. HealthOK'
  <2>1. current - 1 \in Nat /\ (current - 1) + 1 = current /\ current # 0
        /\ current' # 0 /\ current' - 1 = current
    BY <1>1, <1>2
  <2>2. health = ReckonedIn(queue, current - 1)
    BY <2>1 DEF CountOK, HealthOK
  <2>3. ReckonedIn(queue, current) = Counted(health, queue[current])
    BY <2>1, <2>2, ReckonedSteps
  <2>4. Struck(a) = Counted(health, a)
    BY <1>1, <1>3, <1>5, Alive DEF Struck, Counted
  <2> QED
    BY <1>2, <2>1, <2>3, <2>4 DEF HealthOK, a
<1>9. QueueSides'
  BY <1>2 DEF CountOK, QueueSides
<1> QED
  BY <1>6, <1>7, <1>8, <1>9 DEF CountOK

\* Sprites do not count.
LEMMA SameCount ==
  ASSUME CountOK, UNCHANGED <<mode, living, health, queue, current>>
  PROVE  CountOK'
<1>1. HealthOK'
  BY DEF CountOK, HealthOK
<1>2. TeamsOK'
  BY DEF CountOK, TeamsOK, Begun, Standing
<1>3. EndOK'
  BY DEF CountOK, EndOK
<1>4. QueueSides'
  BY DEF CountOK, QueueSides
<1> QED
  BY <1>1, <1>2, <1>3, <1>4 DEF CountOK

LEMMA TitleCounts ==
  ASSUME IInv, CountOK, CreateRoom \/ JoinRoom \/ SinglePlayer
  PROVE  CountOK'
<1>1. /\ mode = "TitleScreen" /\ Choosing /\ UNCHANGED <<health, queue, current>>
      /\ mode' \in {"TitleScreen", "Waiting", "InGame"}
  BY DEF CreateRoom, JoinRoom, SinglePlayer, Choosing, ui
<1>2. \/ living' = living /\ mode' # "InGame"
      \/ living' = [living EXCEPT !["enemy"] = Units] /\ mode' = "InGame"
  BY DEF CreateRoom, JoinRoom, SinglePlayer, ui
<1>3. current = 0 /\ living["own"] = Units /\ living \in [Sides -> Seq(UnitSet)]
  BY <1>1 DEF IInv, TurnOK, TypeOK
<1>4. health = MaxHealth
  BY <1>3, ReckonedSteps DEF CountOK, HealthOK
<1>5. HealthOK' /\ QueueSides'
  BY <1>1 DEF CountOK, HealthOK, QueueSides
<1>6. \A s \in Sides : Standing(s)' = UnitSet
  BY <1>1, <1>4, MovesAssumption DEF Standing, Characters
<1>7. living'["own"] = Units /\ Units # <<>> /\ (mode' = "InGame" => living'["enemy"] = Units)
  BY <1>2, <1>3, TeamAssumption DEF Sides
<1>8. TeamsOK'
  <2>1. Begun' => mode' = "InGame"
    BY <1>1 DEF Begun
  <2> QED
    BY <1>6, <1>7, <2>1, UnitsRanked DEF TeamsOK, Sides
<1>9. EndOK'
  BY <1>1, <1>7 DEF EndOK
<1> QED
  BY <1>5, <1>8, <1>9 DEF CountOK

Sided(a) == (a.on[1] = a.by[1]) <=> (a.move \in Friendly)

LEMMA DriverSides ==
  ASSUME TypeOK, NEW turn \in DriverTurns
  PROVE  \A i \in 1..Len(turn) : Sided(turn[i])
<1> DEFINE team == living["enemy"]
<1>1. turn \in Seq(Attack) /\ \A i \in 1..Len(turn) : turn[i].by[1] = "enemy"
  BY DriverTurnsType
<1>2. /\ DOMAIN turn = 1..Len(team) /\ Len(team) \in Nat
      /\ \A i \in 1..Len(team) : turn[i] \in DriverChoices(team[i])
  BY DEF DriverTurns, TypeOK, Sides
<1>3. Len(turn) = Len(team)
  BY <1>1, <1>2
<1>4. \A i \in 1..Len(turn) : (turn[i].on[1] = "enemy") = (turn[i].move \in Friendly)
  BY <1>2, <1>3 DEF DriverChoices
<1> QED
  BY <1>1, <1>4 DEF Sided

LEMMA ChooseTargetCounts ==
  ASSUME IInv, CountOK, ChooseTarget
  PROVE  CountOK'
<1>1. /\ mode = "InGame" /\ Top \in Element /\ Len(Top) = 3
      /\ UNCHANGED <<living, health>>
  <2>1. /\ mode = "InGame" /\ screens["InGame"] \in Seq(Element)
        /\ Len(screens["InGame"]) \in Nat \ {0} /\ Top = screens["InGame"][Len(screens["InGame"])]
    BY InGameStack DEF ChooseTarget
  <2> QED
    BY <2>1 DEF ChooseTarget
<1>2. PICK a \in MovesOf("own", Top[2], Characters) :
        /\ (a.on[1] = "own") = (a.move \in Friendly)
        /\ IF Len(QueuedWith(a)) = Len(living["own"])
           THEN Outgoing(QueuedWith(a))
           ELSE queue' = QueuedWith(a) /\ UNCHANGED <<mode, animating, current, playing>>
  BY DEF ChooseTarget
<1>3. a \in Attack /\ Sided(a)
  <2>1. a \in Attack /\ a.by[1] = "own"
    BY <1>1, ChoiceType
  <2> QED
    BY <1>2, <2>1 DEF Sided
<1>4. current = 0 /\ queue \in Seq(Attack)
      /\ \A i, j \in 1..Len(queue) : queue[j].by = queue[i].by => i = j
  <2>1. \A i \in 1..Len(queue) : queue[i].by[1] = "own"
    BY <1>1 DEF IInv, TurnOK, Choosing
  <2> QED
    BY <1>1, <2>1 DEF IInv, TurnOK, TypeOK, TurnComplete, Choosing
<1> DEFINE q == QueuedWith(a)
<1>5. q \in Seq(Attack) /\ \A i \in 1..Len(q) : Sided(q[i])
  <2>1. /\ q \in Seq(Attack)
        /\ \A i \in 1..Len(q) : q[i] = a \/ \E j \in 1..Len(queue) : q[i] = queue[j]
    BY <1>3, <1>4, QueuedWithProperties
  <2>2. \A j \in 1..Len(queue) : Sided(queue[j])
    BY DEF CountOK, QueueSides, Sided
  <2> HIDE DEF q
  <2>3. ASSUME NEW i \in 1..Len(q) PROVE Sided(q[i])
    <3>1. CASE q[i] = a
      BY <1>3, <3>1
    <3>2. CASE \E j \in 1..Len(queue) : q[i] = queue[j]
      BY <2>2, <3>2
    <3> QED
      BY <2>1, <3>1, <3>2
  <2> QED
    BY <2>1, <2>3
<1>6. /\ mode' \in {"InGame", "OpponentTurn"} /\ current' \in {0, 1}
      /\ queue' = q \/ \E turn \in DriverTurns : queue' = q \o turn
  BY <1>1, <1>2, <1>4 DEF Outgoing
<1> HIDE DEF q
<1>7. \A i \in 1..Len(queue') : Sided(queue'[i])
  <2>1. CASE queue' = q
    BY <1>5, <2>1
  <2>2. ASSUME NEW turn \in DriverTurns, queue' = q \o turn
        PROVE  \A i \in 1..Len(queue') : Sided(queue'[i])
    <3>1. turn \in Seq(Attack) /\ \A i \in 1..Len(turn) : Sided(turn[i])
      BY DriverTurnsType, DriverSides DEF IInv
    <3>2. /\ Len(queue') = Len(q) + Len(turn) /\ Len(q) \in Nat /\ Len(turn) \in Nat
          /\ \A i \in 1..(Len(q) + Len(turn)) :
               queue'[i] = IF i <= Len(q) THEN q[i] ELSE turn[i - Len(q)]
      BY <1>5, <2>2, <3>1, ConcatProperties
    <3> TAKE i \in 1..Len(queue')
    <3>3. CASE i <= Len(q)
      BY <1>5, <3>2, <3>3
    <3>4. CASE ~(i <= Len(q))
      <4>1. i - Len(q) \in 1..Len(turn) /\ queue'[i] = turn[i - Len(q)]
        BY <3>2, <3>4
      <4> QED
        BY <3>1, <4>1
    <3> QED
      BY <3>3, <3>4
  <2> QED
    BY <1>6, <2>1, <2>2
<1>8. QueueSides'
  BY <1>7 DEF QueueSides, Sided
<1>9. HealthOK'
  <2>1. health = MaxHealth
    BY <1>4, ReckonedSteps DEF CountOK, HealthOK
  <2>2. (IF current' = 0 THEN 0 ELSE current' - 1) = 0
    BY <1>6
  <2> QED
    BY <1>1, <2>1, <2>2, ReckonedSteps DEF HealthOK
<1>10. TeamsOK' /\ EndOK'
  <2>1. TeamsOK'
    BY <1>1 DEF CountOK, TeamsOK, Begun, Standing
  <2>2. EndOK'
    BY <1>1, <1>6 DEF CountOK, EndOK
  <2> QED
    BY <2>1, <2>2
<1> QED
  BY <1>8, <1>9, <1>10 DEF CountOK

LEMMA InitCounts == Init => CountOK
<1> SUFFICES ASSUME Init PROVE CountOK
  OBVIOUS
<1>1. HealthOK
  BY ReckonedSteps DEF Init, HealthOK
<1>2. TeamsOK
  BY DEF Init, TeamsOK, Begun
<1>3. EndOK
  BY TeamAssumption DEF Init, EndOK, Sides
<1>4. QueueSides
  BY DEF Init, QueueSides
<1> QED
  BY <1>1, <1>2, <1>3, <1>4 DEF CountOK

LEMMA NextCounts == IInv /\ CountOK /\ [Next]_vars => CountOK'
<1> SUFFICES ASSUME IInv, CountOK, [Next]_vars PROVE CountOK'
  OBVIOUS
<1>1. CASE CreateRoom \/ JoinRoom \/ SinglePlayer
  BY <1>1, TitleCounts
<1>2. CASE ChooseTarget
  BY <1>2, ChooseTargetCounts
<1>3. CASE OpenMenu \/ Back
  BY <1>3, SameCount DEF OpenMenu, Back, state
<1>4. ASSUME NEW c \in Characters, Animate(c) PROVE CountOK'
  <2>1. CASE WalkTarget(c) \/ Strike(c) \/ ArcaneBurst(c) \/ WalkBack(c) \/ Pose(c)
             \/ NextPart(c) \/ PlayedBefore(c)
    <3>1. UNCHANGED <<ui, state>>
      BY <2>1 DEF WalkTarget, Strike, ArcaneBurst, WalkBack, Pose, Acting, NextPart, PlayedBefore
    <3> QED
      BY <3>1, SameCount DEF ui, state
  <2>2. CASE EndSequence(c) \/ NoAnimation(c)
    <3>1. Playing(c) /\ Finish(c)
      BY <2>2 DEF EndSequence, NoAnimation, PartDone
    <3> QED
      BY <3>1, FinishCounts
  <2> QED
    BY <1>4, <2>1, <2>2 DEF Animate
<1>5. CASE UNCHANGED vars
  BY <1>5, SameCount DEF vars, ui, state
<1> QED
  BY <1>1, <1>2, <1>3, <1>4, <1>5 DEF Next, Click

\* Each result counts once, deaths notwithstanding; the dead and nobody else
\* leave the teams; the side that has nobody left has lost (handleAttackResults,
\* handleDeathResult, GAME_WIN, GAME_LOSE).
THEOREM CountsOnce == Spec => []ResultsCount
<1>1. Init => IInv /\ CountOK
  BY InitIInv, InitCounts
<1>2. (IInv /\ CountOK) /\ [Next]_vars => (IInv /\ CountOK)'
  BY NextIInv, NextCounts
<1>3. IInv /\ CountOK => ResultsCount
  BY CountParts DEF CountOK
<1> QED
  BY <1>1, <1>2, <1>3, PTL DEF Spec

-----------------------------------------------------------------------------
(* Nobody is left out of place *)

Faces(c) == c[1] = "enemy"
Placed(c) == sprite[c].x = Home(c) /\ (sprite[c].mirrored <=> Faces(c))

\* c shows nothing that it has begun.
Still(c) == ~Registered(c) \/ Exhausted(c)

\* The animation of m can be played, or has been.
Ready(m) ==
  \/ part[m] = Len(Script[m]) + 1
  \/ part[m] = 1 /\ frame[m] = Frames[Script[m][1]]

Fresh ==
  \A m \in DOMAIN Script :
    (\A c \in Characters : playing[c] # None => playing[c].move # m) => Ready(m)

\* Who is hit stays in its place.
TargetOK(c) ==
  LET t == playing[c].on
  IN  t # c => /\ Placed(t)
               /\ \/ sprite[t].animation = "idle"
                  \/ /\ ~Still(c) /\ PartOf(c) \in {"Strike", "ArcaneBurst"}
                     /\ sprite[t].animation = "damage"

\* Where the walk back has turned c and taken it, and that what comes before
\* does not pass for a walk back that is under way.
Underway(c) ==
  LET m == playing[c].move
      left == frame[m]
      all == Frames[PartOf(c)]
  IN  /\ left <= all
      /\ PartOf(c) = "WalkBack" /\ left = all =>
           (sprite[c].mirrored <=> Faces(c)) /\ sprite[c].animation # "run"
      /\ PartOf(c) = "WalkBack" /\ left # all =>
           /\ sprite[c].mirrored <=> ~Faces(c)
           /\ sprite[c].animation = "run" /\ (left = 0 => sprite[c].x = Home(c))
      /\ PartOf(c) # "WalkBack" => (sprite[c].mirrored <=> Faces(c))
      /\ PartOf(c) \in {"Strike", "ArcaneBurst", "Pose"} /\ left < all => sprite[c].animation # "run"
      /\ Script[m][Len(Script[m])] # "WalkBack" => sprite[c].x = Home(c)

PerformOK(c) ==
  /\ TargetOK(c)
  /\ Still(c) => sprite[c] = AtRest(c)
  /\ ~Still(c) => Underway(c)

RestInv == Repose /\ Fresh /\ \A c \in Characters : playing[c] # None => PerformOK(c)

LEMMA LookIs ==
  ASSUME NEW c \in Characters, NEW l \in Look
  PROVE  l = AtRest(c) <=>
           l.x = Home(c) /\ l.animation = "idle" /\ (l.mirrored <=> Faces(c))
<1>1. PICK x \in Int, n \in {"idle", "run", "damage"} \cup MoveSet, b \in BOOLEAN :
        l = [x |-> x, animation |-> n, mirrored |-> b]
  BY DEF Look
<1>2. l.x = x /\ l.animation = n /\ l.mirrored = b
  BY <1>1
<1>3. (l.mirrored <=> Faces(c)) <=> b = (c[1] = "enemy")
  BY <1>2 DEF Faces
<1> QED
  BY <1>1, <1>2, <1>3 DEF AtRest

\* A sprite that changes in one field.
LEMMA ShowsExcept ==
  ASSUME NEW s \in [Characters -> Look], NEW c \in Characters, NEW v,
         NEW r, r = [s EXCEPT ![c].animation = v]
  PROVE  /\ \A d \in Characters : d # c => r[d] = s[d]
         /\ r[c].animation = v /\ r[c].x = s[c].x /\ r[c].mirrored = s[c].mirrored
BY DEF Look

LEMMA TurnsExcept ==
  ASSUME NEW s \in [Characters -> Look], NEW c \in Characters, NEW v,
         NEW r, r = [s EXCEPT ![c].mirrored = v]
  PROVE  /\ \A d \in Characters : d # c => r[d] = s[d]
         /\ r[c].animation = s[c].animation /\ r[c].x = s[c].x /\ r[c].mirrored = v
BY DEF Look

LEMMA MovesExcept ==
  ASSUME NEW s \in [Characters -> Look], NEW c \in Characters, NEW v,
         NEW r, r = [s EXCEPT ![c].x = v]
  PROVE  /\ \A d \in Characters : d # c => r[d] = s[d]
         /\ r[c].animation = s[c].animation /\ r[c].x = v /\ r[c].mirrored = s[c].mirrored
BY DEF Look

\* When all are in their places whoever begins begins right.
LEMMA BeginsRight ==
  ASSUME TypeOK', \A d \in Characters : sprite'[d] = AtRest(d),
         \A m \in DOMAIN Script : Ready(m)'
  PROVE  RestInv'
<1>1. Repose' /\ Fresh'
  BY DEF Repose, Fresh
<1>2. ASSUME NEW c \in Characters, playing'[c] # None
      PROVE  PerformOK(c)'
  <2>1. playing'[c] \in Attack /\ playing'[c].on \in Characters
    BY <1>2 DEF TypeOK, Attack
  <2>2. \A d \in Characters : /\ sprite'[d].x = Home(d) /\ sprite'[d].animation = "idle"
                              /\ sprite'[d].mirrored <=> Faces(d)
    <3> TAKE d \in Characters
    <3>1. sprite'[d] \in Look
      BY DEF TypeOK
    <3> QED
      BY <3>1, LookIs
  <2>3. TargetOK(c)'
    BY <2>1, <2>2 DEF TargetOK, Placed
  <2>4. ASSUME ~Still(c)' PROVE Underway(c)'
    <3> DEFINE m == playing'[c].move
    <3>1. m \in DOMAIN Script /\ ~(part'[m] > Len(Script[m])) /\ Len(Script[m]) \in Nat
      BY <2>4, ScriptAssumption DEF Still, Registered, Exhausted
    <3>2. part'[m] = 1 /\ frame'[m] = Frames[Script[m][1]]
      BY <3>1 DEF Ready
    <3>3. PartOf(c)' = Script[m][1]
      BY <3>2 DEF PartOf
    <3>4. Script[m][1] \in Parts /\ frame'[m] \in Nat
      <4>1. Script[m] \in Seq(Parts) /\ Script[m] # <<>>
        BY <3>1, ScriptAssumption
      <4>2. Script[m][1] \in Parts
        BY <4>1, EmptySeq
      <4> QED
        BY <3>1, <3>2, <4>2, ScriptAssumption
    <3>5. frame'[m] = Frames[PartOf(c)'] /\ frame'[m] <= Frames[PartOf(c)']
      BY <3>2, <3>3, <3>4
    <3>6. /\ sprite'[c].x = Home(c) /\ sprite'[c].animation # "run"
          /\ sprite'[c].mirrored <=> Faces(c)
      BY <2>2
    <3> QED
      BY <3>5, <3>6 DEF Underway
  <2> QED
    BY <2>3, <2>4 DEF PerformOK
<1> QED
  BY <1>1, <1>2 DEF RestInv

\* What c performs, with what Script says of it.
LEMMA PlaysPart ==
  ASSUME IInv, NEW c \in Characters, Playing(c), ~Still(c)
  PROVE  LET a == playing[c]
             m == a.move
         IN  /\ a.on \in Characters /\ m \in DOMAIN Script /\ m # "run"
             /\ part[m] \in 1..Len(Script[m]) /\ Len(Script[m]) \in Nat
             /\ PartOf(c) = Script[m][part[m]] /\ PartOf(c) \in Parts
             /\ Frames[PartOf(c)] \in Nat \ {0} /\ frame[m] \in Nat
             /\ PartOf(c) = "WalkBack" => part[m] = Len(Script[m])
             /\ PartOf(c) \in Walks \cup {"ArcaneBurst"} => Script[m][Len(Script[m])] = "WalkBack"
             /\ part[m] # Len(Script[m]) /\ Script[m][part[m] + 1] = "WalkBack" =>
                  PartOf(c) \notin Walks
<1> DEFINE m == playing[c].move
<1>1. /\ TypeOK /\ Registered(c) /\ ~Exhausted(c)
  BY DEF IInv, Still
<1>2. /\ playing[c].on \in Characters /\ m \in DOMAIN Script
      /\ part[m] \in Nat \ {0} /\ frame[m] \in Nat /\ PartOf(c) \in Parts
  BY <1>1, Performance
<1>3. Script[m] \in Seq(Parts) /\ Len(Script[m]) \in Nat /\ Frames[PartOf(c)] \in Nat \ {0}
  BY <1>2, ScriptAssumption
<1>4. part[m] \in 1..Len(Script[m])
  BY <1>1, <1>2, <1>3 DEF Exhausted
<1>5. PartOf(c) = Script[m][part[m]]
  BY DEF PartOf
<1> DEFINE last == Len(Script[m])
<1>6. /\ m # "run"
      /\ \A i \in 1..last : Script[m][i] = "WalkBack" => i = last
      /\ (\E i \in 1..last : Script[m][i] \in Walks \cup {"ArcaneBurst"}) =>
           Script[m][last] = "WalkBack"
      /\ Script[m][last] = "WalkBack" /\ last > 1 => Script[m][last - 1] \notin Walks
  BY <1>2, ReturnAssumption
<1> HIDE DEF m
<1>7. part[m] # last /\ Script[m][part[m] + 1] = "WalkBack" => PartOf(c) \notin Walks
  <2> SUFFICES ASSUME part[m] # last, Script[m][part[m] + 1] = "WalkBack"
               PROVE  PartOf(c) \notin Walks
    OBVIOUS
  <2>1. part[m] + 1 \in 1..last
    BY <1>3, <1>4
  <2>2. part[m] + 1 = last
    BY <1>6, <2>1
  <2>3. last > 1 /\ last - 1 = part[m]
    BY <1>3, <1>4, <2>2
  <2> QED
    BY <1>5, <1>6, <2>2, <2>3
<1> QED
  BY <1>2, <1>3, <1>4, <1>5, <1>6, <1>7 DEF m

\* Who is neither performer nor target is at rest.
LEMMA OthersRest ==
  ASSUME IInv, RestInv, NEW c \in Characters, Playing(c)
  PROVE  /\ \A d \in Characters : playing[d] # None => d = c
         /\ \A d \in Characters : d # c /\ d # playing[c].on => sprite[d] = AtRest(d)
         /\ PerformOK(c)
<1>1. \A d \in Characters : playing[d] # None => d = c
  BY Performer
<1>2. \A d \in Characters : d # c /\ d # playing[c].on => sprite[d] = AtRest(d)
  BY <1>1 DEF RestInv, Repose
<1>3. PerformOK(c)
  BY DEF RestInv, Playing
<1> QED
  BY <1>1, <1>2, <1>3

\* A frame of a part.
LEMMA FrameRests ==
  ASSUME IInv, RestInv, NEW c \in Characters, NEW kinds, Acting(c, kinds),
         \A d \in Characters : d # c /\ d # playing[c].on => sprite'[d] = sprite[d],
         TargetOK(c)' /\ Underway(c)'
  PROVE  RestInv'
<1>1. Playing(c) /\ Registered(c) /\ ~Exhausted(c) /\ playing' = playing /\ part' = part
  BY DEF Acting
<1>2. /\ \A d \in Characters : playing[d] # None => d = c
      /\ \A d \in Characters : d # c /\ d # playing[c].on => sprite[d] = AtRest(d)
  BY <1>1, OthersRest
<1>3. Repose'
  BY <1>1, <1>2 DEF Repose, Playing
<1>4. Fresh'
  <2> SUFFICES ASSUME NEW m \in DOMAIN Script,
                      \A d \in Characters : playing[d] # None => playing[d].move # m
               PROVE  Ready(m)'
    BY <1>1 DEF Fresh
  <2>1. Ready(m)
    BY DEF RestInv, Fresh
  <2>2. m # playing[c].move
    BY <1>1 DEF Playing
  <2>3. frame'[m] = frame[m]
    BY <2>2 DEF Acting, IInv, TypeOK
  <2> QED
    BY <1>1, <2>1, <2>3 DEF Ready
<1>5. ~Still(c)'
  BY <1>1 DEF Still, Registered, Exhausted
<1>6. PerformOK(c)'
  BY <1>5 DEF PerformOK
<1> QED
  BY <1>1, <1>2, <1>3, <1>4, <1>6 DEF RestInv

\* What a frame leaves as it is, and what it counts down.
LEMMA FrameOf ==
  ASSUME IInv, RestInv, NEW c \in Characters, NEW kinds, Acting(c, kinds)
  PROVE  LET m == playing[c].move IN
         /\ Playing(c) /\ ~Still(c) /\ ~Still(c)' /\ playing' = playing
         /\ PartOf(c) \in kinds /\ PartOf(c)' = PartOf(c)
         /\ frame'[m] = frame[m] - 1 /\ frame[m] > 0
         /\ frame'[m] \in Nat /\ frame'[m] < Frames[PartOf(c)]
         /\ TargetOK(c) /\ Underway(c)
<1> DEFINE m == playing[c].move
<1>1. /\ Playing(c) /\ ~Still(c) /\ ~Still(c)' /\ playing' = playing
      /\ PartOf(c) \in kinds /\ PartOf(c)' = PartOf(c) /\ frame[m] > 0
  BY DEF Acting, Still, Registered, Exhausted, PartOf
<1>2. m \in DOMAIN Script /\ frame[m] \in Nat /\ Frames[PartOf(c)] \in Nat \ {0}
  BY <1>1, PlaysPart
<1>3. frame' = [frame EXCEPT ![m] = @ - 1] /\ frame \in [DOMAIN Script -> Nat]
  BY DEF Acting, IInv, TypeOK
<1>4. TargetOK(c) /\ Underway(c)
  BY <1>1, OthersRest DEF PerformOK
<1>5. frame[m] <= Frames[PartOf(c)]
  BY <1>4 DEF Underway
<1> HIDE DEF m
<1>6. frame'[m] = frame[m] - 1
  BY <1>2, <1>3
<1>7. frame'[m] \in Nat /\ frame'[m] < Frames[PartOf(c)]
  BY <1>1, <1>2, <1>5, <1>6
<1> QED
  BY <1>1, <1>4, <1>6, <1>7 DEF m

\* The target while c moves or poses, but does not hit.
LEMMA TargetLeft ==
  ASSUME IInv, NEW c \in Characters, TargetOK(c), Playing(c), playing' = playing,
         \A d \in Characters : d # c => sprite'[d] = sprite[d],
         PartOf(c) \notin {"Strike", "ArcaneBurst"}
  PROVE  TargetOK(c)'
<1>1. playing[c].on \in Characters
  BY Performance DEF IInv
<1> QED
  BY <1>1 DEF TargetOK, Placed

\* ... and while it does.
LEMMA TargetHit ==
  ASSUME IInv, NEW c \in Characters, TargetOK(c), Playing(c), playing' = playing, ~Still(c)',
         PartOf(c)' \in {"Strike", "ArcaneBurst"},
         LET t == playing[c].on IN
           t # c => \/ sprite'[t] = sprite[t]
                    \/ /\ sprite'[t].x = sprite[t].x /\ sprite'[t].mirrored = sprite[t].mirrored
                       /\ sprite'[t].animation = "damage",
         PartOf(c) = PartOf(c)'
  PROVE  TargetOK(c)'
BY DEF TargetOK, Placed

LEMMA WalkTargetRests ==
  ASSUME IInv, RestInv, NEW c \in Characters, WalkTarget(c)
  PROVE  RestInv'
<1> DEFINE m == playing[c].move
           x == Toward(sprite[c].x, StopAt(PartOf(c), playing[c].on), frame[m])
<1>1. Acting(c, Walks)
  BY DEF WalkTarget, Walks
<1>2. /\ Playing(c) /\ ~Still(c) /\ playing' = playing /\ PartOf(c) \in Walks
      /\ PartOf(c)' = PartOf(c) /\ frame'[m] \in Nat /\ frame'[m] < Frames[PartOf(c)]
      /\ TargetOK(c) /\ Underway(c)
  BY <1>1, FrameOf
<1>3. /\ Script[m][Len(Script[m])] = "WalkBack" /\ Frames[PartOf(c)] \in Nat
  BY <1>2, PlaysPart
<1>4. /\ \A d \in Characters : d # c => sprite'[d] = sprite[d]
      /\ sprite'[c].mirrored = sprite[c].mirrored
  <2> DEFINE r == [sprite EXCEPT ![c].animation = "run"]
  <2>1. sprite \in [Characters -> Look]
    BY DEF IInv, TypeOK
  <2>2. r \in [Characters -> Look]
    BY <2>1, LookExcept
  <2>3. sprite' = [r EXCEPT ![c].x = x]
    <3>1. sprite' = [sprite EXCEPT ![c].animation = "run", ![c].x = x]
      BY ZenonT(40) DEF WalkTarget
    <3> HIDE DEF x
    <3> QED
      BY <3>1
  <2>4. \A d \in Characters : d # c => r[d] = sprite[d]
    BY <2>1, ShowsExcept
  <2>5. r[c].mirrored = sprite[c].mirrored
    BY <2>1, ShowsExcept
  <2> HIDE DEF r, x
  <2>6. /\ \A d \in Characters : d # c => sprite'[d] = r[d]
        /\ sprite'[c].mirrored = r[c].mirrored
    BY <2>2, <2>3, MovesExcept
  <2> QED
    BY <2>4, <2>5, <2>6
<1>5. PartOf(c) \notin {"Strike", "ArcaneBurst", "Pose", "WalkBack"}
  BY <1>2 DEF Walks
<1>6. TargetOK(c)'
  BY <1>2, <1>4, <1>5, TargetLeft
<1> HIDE DEF x
<1>7. Underway(c)'
  BY <1>2, <1>3, <1>4, <1>5 DEF Underway
<1> QED
  BY <1>1, <1>4, <1>6, <1>7, FrameRests

LEMMA PoseRests ==
  ASSUME IInv, RestInv, NEW c \in Characters, Pose(c)
  PROVE  RestInv'
<1> DEFINE m == playing[c].move
<1>1. Acting(c, {"Pose"})
  BY DEF Pose
<1>2. /\ Playing(c) /\ ~Still(c) /\ playing' = playing /\ PartOf(c) = "Pose"
      /\ PartOf(c)' = PartOf(c) /\ frame'[m] \in Nat /\ frame'[m] < Frames[PartOf(c)]
      /\ TargetOK(c) /\ Underway(c)
  BY <1>1, FrameOf
<1>3. m # "run" /\ Frames[PartOf(c)] \in Nat
  BY <1>2, PlaysPart
<1>4. /\ \A d \in Characters : d # c => sprite'[d] = sprite[d]
      /\ sprite'[c].animation = m /\ sprite'[c].x = sprite[c].x
      /\ sprite'[c].mirrored = sprite[c].mirrored
  <2>1. sprite \in [Characters -> Look] /\ sprite' = [sprite EXCEPT ![c].animation = m]
    BY DEF IInv, TypeOK, Pose
  <2> HIDE DEF m
  <2> QED
    BY <2>1, ShowsExcept
<1>5. TargetOK(c)'
  BY <1>2, <1>4, TargetLeft
<1>6. Underway(c)'
  BY <1>2, <1>3, <1>4 DEF Underway
<1> QED
  BY <1>1, <1>4, <1>5, <1>6, FrameRests

LEMMA StrikeRests ==
  ASSUME IInv, RestInv, NEW c \in Characters, Strike(c)
  PROVE  RestInv'
<1> DEFINE m == playing[c].move
           t == playing[c].on
<1>1. Acting(c, {"Strike"})
  BY DEF Strike
<1>2. /\ Playing(c) /\ ~Still(c)' /\ ~Still(c) /\ playing' = playing /\ PartOf(c) = "Strike"
      /\ PartOf(c)' = PartOf(c) /\ frame'[m] \in Nat /\ frame'[m] < Frames[PartOf(c)]
      /\ TargetOK(c) /\ Underway(c)
  BY <1>1, FrameOf
<1>3. /\ m # "run" /\ Frames[PartOf(c)] \in Nat /\ t \in Characters /\ m \in MoveSet
      /\ sprite \in [Characters -> Look]
  BY <1>2, PlaysPart, ScriptAssumption DEF IInv, TypeOK
<1>4. /\ \A d \in Characters : d # c /\ d # t => sprite'[d] = sprite[d]
      /\ sprite'[c].x = sprite[c].x /\ sprite'[c].mirrored = sprite[c].mirrored
      /\ sprite'[c].animation # "run"
      /\ t # c => \/ sprite'[t] = sprite[t]
                  \/ /\ sprite'[t].x = sprite[t].x /\ sprite'[t].mirrored = sprite[t].mirrored
                     /\ sprite'[t].animation = "damage"
  <2>1. CASE sprite[c].animation = m
    <3>1. sprite' = sprite
      BY <2>1 DEF Strike
    <3> QED
      BY <1>3, <2>1, <3>1
  <2>2. CASE sprite[c].animation # m
    <3> DEFINE q == [sprite EXCEPT ![c].animation = m]
    <3>1. sprite' = [q EXCEPT ![t].animation = "damage"]
      BY <2>2, ZenonT(40) DEF Strike
    <3>2. m \in MoveSet /\ m # "run" /\ t \in Characters
      BY <1>3
    <3>3. q \in [Characters -> Look]
      BY <1>3, LookExcept
    <3>4. /\ \A d \in Characters : d # c => q[d] = sprite[d]
          /\ q[c].animation = m /\ q[c].x = sprite[c].x /\ q[c].mirrored = sprite[c].mirrored
      BY <1>3, ShowsExcept
    <3> HIDE DEF m, t, q
    <3>5. /\ \A d \in Characters : d # t => sprite'[d] = q[d]
          /\ sprite'[t].x = q[t].x /\ sprite'[t].mirrored = q[t].mirrored
          /\ sprite'[t].animation = "damage"
      BY <3>1, <3>2, <3>3, ShowsExcept
    <3> QED
      BY <3>2, <3>4, <3>5
  <2> QED
    BY <2>1, <2>2
<1>5. TargetOK(c)'
  BY <1>2, <1>4, TargetHit
<1>6. Underway(c)'
  BY <1>2, <1>3, <1>4 DEF Underway
<1> QED
  BY <1>1, <1>4, <1>5, <1>6, FrameRests

LEMMA ArcaneBurstRests ==
  ASSUME IInv, RestInv, NEW c \in Characters, ArcaneBurst(c)
  PROVE  RestInv'
<1> DEFINE m == playing[c].move
           t == playing[c].on
<1>1. Acting(c, {"ArcaneBurst"})
  BY DEF ArcaneBurst
<1>2. /\ Playing(c) /\ ~Still(c)' /\ ~Still(c) /\ playing' = playing /\ PartOf(c) = "ArcaneBurst"
      /\ PartOf(c)' = PartOf(c) /\ frame'[m] \in Nat /\ frame'[m] < Frames[PartOf(c)]
      /\ TargetOK(c) /\ Underway(c)
  BY <1>1, FrameOf
<1>3. /\ m # "run" /\ Frames[PartOf(c)] \in Nat /\ t \in Characters /\ m \in MoveSet
      /\ sprite \in [Characters -> Look] /\ Script[m][Len(Script[m])] = "WalkBack"
      /\ sprite[c].x + BurstShift \in Int
  <2>1. sprite \in [Characters -> Look]
    BY DEF IInv, TypeOK
  <2>2. sprite[c].x + BurstShift \in Int
    BY <2>1, PlaceAssumption DEF Look
  <2> QED
    BY <1>2, <2>1, <2>2, PlaysPart, ScriptAssumption
<1>4. /\ \A d \in Characters : d # c /\ d # t => sprite'[d] = sprite[d]
      /\ sprite'[c].mirrored = sprite[c].mirrored /\ sprite'[c].animation # "run"
      /\ t # c => \/ sprite'[t] = sprite[t]
                  \/ /\ sprite'[t].x = sprite[t].x /\ sprite'[t].mirrored = sprite[t].mirrored
                     /\ sprite'[t].animation = "damage"
  <2>1. CASE sprite[c].animation = m
    <3>1. sprite' = sprite
      BY <2>1 DEF ArcaneBurst
    <3> QED
      BY <1>3, <2>1, <3>1
  <2>2. CASE sprite[c].animation # m
    <3> DEFINE r == [sprite EXCEPT ![c].x = @ + BurstShift]
               q == [r EXCEPT ![c].animation = m]
    <3>1. sprite' = [q EXCEPT ![t].animation = "damage"]
      BY <2>2, ZenonT(40) DEF ArcaneBurst
    <3>2. m \in MoveSet /\ m # "run" /\ t \in Characters
      BY <1>3
    <3>3. r \in [Characters -> Look]
      BY <1>3, LookExcept
    <3>4. /\ \A d \in Characters : d # c => r[d] = sprite[d]
          /\ r[c].mirrored = sprite[c].mirrored
      BY <1>3, MovesExcept
    <3> HIDE DEF m, t, r
    <3>5. q \in [Characters -> Look]
      BY <3>2, <3>3, LookExcept
    <3>6. /\ \A d \in Characters : d # c => q[d] = r[d]
          /\ q[c].animation = m /\ q[c].mirrored = r[c].mirrored
      BY <3>3, ShowsExcept
    <3> HIDE DEF q
    <3>7. /\ \A d \in Characters : d # t => sprite'[d] = q[d]
          /\ sprite'[t].x = q[t].x /\ sprite'[t].mirrored = q[t].mirrored
          /\ sprite'[t].animation = "damage"
      BY <3>1, <3>2, <3>5, ShowsExcept
    <3> QED
      BY <3>2, <3>4, <3>6, <3>7
  <2> QED
    BY <2>1, <2>2
<1>5. TargetOK(c)'
  BY <1>2, <1>4, TargetHit
<1>6. Underway(c)'
  BY <1>2, <1>3, <1>4 DEF Underway
<1> QED
  BY <1>1, <1>4, <1>5, <1>6, FrameRests

LEMMA WalkBackRests ==
  ASSUME IInv, RestInv, NEW c \in Characters, WalkBack(c)
  PROVE  RestInv'
<1> DEFINE m == playing[c].move
           b == IF sprite[c].animation # "run" THEN ~sprite[c].mirrored ELSE sprite[c].mirrored
           x == Toward(sprite[c].x, Home(c), frame[m])
<1>1. Acting(c, {"WalkBack"})
  BY DEF WalkBack
<1>2. /\ Playing(c) /\ ~Still(c) /\ playing' = playing /\ PartOf(c) = "WalkBack"
      /\ PartOf(c)' = PartOf(c) /\ frame'[m] = frame[m] - 1 /\ frame[m] > 0
      /\ frame'[m] \in Nat /\ frame'[m] < Frames[PartOf(c)]
      /\ TargetOK(c) /\ Underway(c)
  BY <1>1, FrameOf
<1>3. /\ Script[m][Len(Script[m])] = "WalkBack" /\ frame[m] \in Nat /\ Frames[PartOf(c)] \in Nat
      /\ sprite \in [Characters -> Look] /\ sprite[c] \in Look
  <2>1. PartOf(c) = Script[m][part[m]] /\ part[m] = Len(Script[m])
    BY <1>2, PlaysPart
  <2>2. Script[m][Len(Script[m])] = "WalkBack"
    BY <1>2, <2>1
  <2> QED
    BY <1>2, <2>2, PlaysPart DEF IInv, TypeOK
<1>4. /\ \A d \in Characters : d # c => sprite'[d] = sprite[d]
      /\ sprite'[c].mirrored = b /\ sprite'[c].animation = "run" /\ sprite'[c].x = x
  <2> DEFINE p == [sprite EXCEPT ![c].mirrored = b]
             r == [p EXCEPT ![c].animation = "run"]
  <2>1. sprite' = [r EXCEPT ![c].x = x]
    <3>1. sprite' = [sprite EXCEPT ![c].mirrored = b, ![c].animation = "run", ![c].x = x]
      BY ZenonT(40) DEF WalkBack
    <3> HIDE DEF b, x
    <3> QED
      BY <3>1
  <2>2. b \in BOOLEAN
    BY <1>3 DEF Look
  <2>3. p \in [Characters -> Look]
    <3> HIDE DEF b
    <3> QED
      BY <1>3, <2>2, LookExcept
  <2> HIDE DEF b, x
  <2>4. /\ \A d \in Characters : d # c => p[d] = sprite[d]
        /\ p[c].mirrored = b
    BY <1>3, TurnsExcept
  <2> HIDE DEF p
  <2>5. r \in [Characters -> Look]
    BY <2>3, LookExcept
  <2>6. /\ \A d \in Characters : d # c => r[d] = p[d]
        /\ r[c].animation = "run" /\ r[c].mirrored = p[c].mirrored
    BY <2>3, ShowsExcept
  <2> HIDE DEF r
  <2>7. /\ \A d \in Characters : d # c => sprite'[d] = r[d]
        /\ sprite'[c].animation = r[c].animation /\ sprite'[c].mirrored = r[c].mirrored
        /\ sprite'[c].x = x
    BY <2>1, <2>5, MovesExcept
  <2> QED
    BY <2>4, <2>6, <2>7
<1>5. TargetOK(c)'
  BY <1>2, <1>4, TargetLeft
<1>6. sprite'[c].mirrored <=> ~Faces(c)
  <2>1. CASE frame[m] = Frames[PartOf(c)]
    <3>1. sprite[c].animation # "run" /\ (sprite[c].mirrored <=> Faces(c))
      BY <1>2, <2>1 DEF Underway
    <3> QED
      BY <1>4, <3>1
  <2>2. CASE frame[m] # Frames[PartOf(c)]
    <3>1. sprite[c].animation = "run" /\ (sprite[c].mirrored <=> ~Faces(c))
      BY <1>2, <2>2 DEF Underway
    <3> QED
      BY <1>4, <3>1
  <2> QED
    BY <2>1, <2>2
<1>7. frame'[m] = 0 => sprite'[c].x = Home(c)
  <2> SUFFICES ASSUME frame'[m] = 0 PROVE x = Home(c)
    BY <1>4
  <2>1. frame[m] = 1
    BY <1>2, <1>3
  <2>2. sprite[c].x \in Int /\ Home(c) \in Int
    BY <1>3, HomeInt DEF Look
  <2> QED
    BY <2>1, <2>2 DEF Toward
<1> HIDE DEF x, b
<1>8. Underway(c)'
  BY <1>2, <1>3, <1>4, <1>6, <1>7 DEF Underway
<1> QED
  BY <1>1, <1>4, <1>5, <1>8, FrameRests

\* The callback of a part that is done leaves c and its target fit for what
\* comes next.
LEMMA AfterPartLooks ==
  ASSUME IInv, RestInv, NEW c \in Characters, Playing(c), ~Still(c), frame[playing[c].move] = 0
  PROVE  LET A == AfterPart(c)
             m == playing[c].move
             t == playing[c].on
         IN  /\ A \in [Characters -> Look]
             /\ \A d \in Characters : d # c => A[d] = AtRest(d)
             /\ A[c].mirrored <=> Faces(c)
             /\ Script[m][Len(Script[m])] # "WalkBack" \/ PartOf(c) = "WalkBack" =>
                  A[c].x = Home(c)
             /\ PartOf(c) \notin Walks \cup {"WalkBack"} => A[c].animation # "run"
<1> DEFINE A == AfterPart(c)
           m == playing[c].move
           t == playing[c].on
           k == PartOf(c)
<1>1. /\ TypeOK /\ Registered(c) /\ ~Exhausted(c)
      /\ sprite \in [Characters -> Look] /\ sprite[c] \in Look
  BY DEF IInv, TypeOK, Still
<1>2. A \in [Characters -> Look]
  BY <1>1, AfterPartType
<1>3. /\ t \in Characters /\ k \in Parts /\ Frames[k] \in Nat \ {0}
  BY PlaysPart
<1>4. /\ \A d \in Characters : d # c /\ d # t => sprite[d] = AtRest(d)
      /\ TargetOK(c) /\ Underway(c)
  BY OthersRest DEF PerformOK
<1>5. frame[m] = 0 /\ frame[m] # Frames[k] /\ frame[m] < Frames[k]
  BY <1>3
<1>6. t # c => /\ Placed(t)
               /\ sprite[t].animation = "idle" \/ k \in {"Strike", "ArcaneBurst"}
  BY <1>4 DEF TargetOK
<1>7. /\ k = "WalkBack" => /\ sprite[c].mirrored <=> ~Faces(c)
                           /\ sprite[c].x = Home(c)
      /\ k # "WalkBack" => (sprite[c].mirrored <=> Faces(c))
      /\ k \in {"Strike", "ArcaneBurst", "Pose"} => sprite[c].animation # "run"
      /\ Script[m][Len(Script[m])] # "WalkBack" => sprite[c].x = Home(c)
  BY <1>4, <1>5 DEF Underway
<1>8. CASE k \in {"Strike", "ArcaneBurst"}
  <2>1. A = [sprite EXCEPT ![t].animation = "idle"]
    BY <1>8 DEF AfterPart
  <2> HIDE DEF A
  <2>2. /\ \A d \in Characters : d # t => A[d] = sprite[d]
        /\ A[t].x = sprite[t].x /\ A[t].mirrored = sprite[t].mirrored
        /\ A[t].animation = "idle"
    BY <1>1, <1>3, <2>1, ShowsExcept
  <2>3. t # c => A[t] = AtRest(t)
    BY <1>2, <1>3, <1>6, <2>2, LookIs DEF Placed
  <2>4. \A d \in Characters : d # c => A[d] = AtRest(d)
    BY <1>4, <2>2, <2>3
  <2>5. /\ A[c].mirrored = sprite[c].mirrored /\ A[c].x = sprite[c].x
        /\ A[c].animation # "run"
    BY <1>7, <1>8, <2>2
  <2> QED
    BY <1>2, <1>7, <1>8, <2>4, <2>5 DEF A
<1>9. CASE k = "WalkBack"
  <2> DEFINE b == ~sprite[c].mirrored
  <2>1. A = [sprite EXCEPT ![c].mirrored = b]
    BY <1>9 DEF AfterPart
  <2> HIDE DEF A, b
  <2>2. /\ \A d \in Characters : d # c => A[d] = sprite[d]
        /\ A[c].x = sprite[c].x /\ A[c].mirrored = b
    BY <1>1, <2>1, TurnsExcept
  <2>3. t # c => sprite[t] = AtRest(t)
    BY <1>1, <1>3, <1>6, <1>9, LookIs DEF Placed
  <2>4. \A d \in Characters : d # c => A[d] = AtRest(d)
    BY <1>4, <2>2, <2>3
  <2>5. A[c].mirrored <=> Faces(c)
    BY <1>7, <1>9, <2>2 DEF b
  <2> QED
    BY <1>2, <1>7, <1>9, <2>2, <2>4, <2>5 DEF A
<1>10. CASE k \notin {"Strike", "ArcaneBurst", "WalkBack"}
  <2>1. A = sprite
    BY <1>10 DEF AfterPart
  <2> HIDE DEF A
  <2>2. t # c => sprite[t] = AtRest(t)
    BY <1>1, <1>3, <1>6, <1>10, LookIs DEF Placed
  <2>3. \A d \in Characters : d # c => A[d] = AtRest(d)
    BY <1>4, <2>1, <2>2
  <2>4. k \notin Walks \cup {"WalkBack"} => k = "Pose"
    BY <1>3, <1>10 DEF Parts
  <2> QED
    BY <1>2, <1>7, <1>10, <2>1, <2>3, <2>4 DEF A
<1> QED
  BY <1>8, <1>9, <1>10

\* animationsIdx moves on.
LEMMA PartAdvances ==
  ASSUME IInv, NEW c \in Characters, PartDone(c)
  PROVE  LET m == playing[c].move IN
         /\ Playing(c) /\ ~Still(c) /\ frame[m] = 0 /\ part'[m] = part[m] + 1
         /\ \A n \in DOMAIN Script : n # m => part'[n] = part[n]
<1> DEFINE m == playing[c].move
<1>1. Playing(c) /\ ~Still(c) /\ frame[m] = 0
  BY DEF PartDone, Still
<1>2. m \in DOMAIN Script
  BY <1>1, PlaysPart
<1>3. part' = [part EXCEPT ![m] = part[m] + 1] /\ part \in [DOMAIN Script -> Nat \ {0}]
  BY DEF PartDone, IInv, TypeOK
<1> HIDE DEF m
<1>4. part'[m] = part[m] + 1 /\ \A n \in DOMAIN Script : n # m => part'[n] = part[n]
  BY <1>2, <1>3
<1> QED
  BY <1>1, <1>4 DEF m

LEMMA NextPartRests ==
  ASSUME IInv, RestInv, NEW c \in Characters, NextPart(c)
  PROVE  RestInv'
<1> DEFINE m == playing[c].move
           k == PartOf(c)
           next == Script[m][part[m] + 1]
<1>1. /\ Playing(c) /\ ~Still(c) /\ frame[m] = 0 /\ part'[m] = part[m] + 1
      /\ \A n \in DOMAIN Script : n # m => part'[n] = part[n]
  BY PartAdvances DEF NextPart
<1>2. /\ sprite' = AfterPart(c) /\ playing' = playing /\ part[m] < Len(Script[m])
      /\ frame' = [frame EXCEPT ![m] = Frames[next]]
  BY <1>1 DEF NextPart
<1>3. /\ m \in DOMAIN Script /\ part[m] \in 1..Len(Script[m]) /\ Len(Script[m]) \in Nat
      /\ k = "WalkBack" => part[m] = Len(Script[m])
      /\ part[m] # Len(Script[m]) /\ next = "WalkBack" => k \notin Walks
      /\ frame \in [DOMAIN Script -> Nat] /\ k \in Parts
  BY <1>1, PlaysPart DEF IInv, TypeOK
<1>4. k # "WalkBack" /\ (next = "WalkBack" => k \notin Walks \cup {"WalkBack"})
  BY <1>2, <1>3
<1>5. /\ \A d \in Characters : d # c => sprite'[d] = AtRest(d)
      /\ sprite'[c].mirrored <=> Faces(c)
      /\ Script[m][Len(Script[m])] # "WalkBack" => sprite'[c].x = Home(c)
      /\ next = "WalkBack" => sprite'[c].animation # "run"
  BY <1>1, <1>2, <1>4, AfterPartLooks
<1>6. /\ frame'[m] = Frames[next]
      /\ \A n \in DOMAIN Script : n # m => frame'[n] = frame[n]
  <2> HIDE DEF m, next
  <2> QED
    BY <1>2, <1>3
<1>7. Frames[next] \in Nat
  <2>1. part[m] + 1 \in 1..Len(Script[m]) /\ Script[m] \in Seq(Parts)
    BY <1>2, <1>3, ScriptAssumption
  <2>2. next \in Parts
    BY <2>1
  <2> QED
    BY <2>2, ScriptAssumption
<1>8. PartOf(c)' = next /\ ~Still(c)'
  <2>1. PartOf(c)' = next
    BY <1>1, <1>2 DEF PartOf
  <2>2. Registered(c)' /\ ~(Exhausted(c)')
    BY <1>1, <1>2, <1>3 DEF Registered, Exhausted
  <2> QED
    BY <2>1, <2>2 DEF Still
<1>9. TargetOK(c)'
  <2>1. playing[c].on \in Characters
    BY <1>1, PlaysPart
  <2>2. ASSUME NEW t \in Characters, t # c
        PROVE  Placed(t)' /\ sprite'[t].animation = "idle"
    <3>1. sprite'[t] = AtRest(t) /\ sprite'[t] \in Look
      BY <1>1, <1>2, <1>5, <2>2, AfterPartLooks
    <3> QED
      BY <3>1, LookIs DEF Placed
  <2> QED
    BY <1>2, <2>1, <2>2 DEF TargetOK
<1>10. Underway(c)'
  <2>1. /\ frame'[m] = Frames[PartOf(c)'] /\ frame'[m] <= Frames[PartOf(c)']
        /\ ~(frame'[m] < Frames[PartOf(c)'])
    <3> HIDE DEF m, next
    <3> QED
      BY <1>6, <1>7, <1>8
  <2>2. playing'[c].move = m
    BY <1>2
  <2>3. PartOf(c)' = "WalkBack" => sprite'[c].animation # "run"
    BY <1>5, <1>8
  <2>4. /\ sprite'[c].mirrored <=> Faces(c)
        /\ Script[m][Len(Script[m])] # "WalkBack" => sprite'[c].x = Home(c)
    BY <1>5
  <2> HIDE DEF m, k, next
  <2> QED
    BY <2>1, <2>2, <2>3, <2>4 DEF Underway
<1>11. PerformOK(c)'
  BY <1>8, <1>9, <1>10 DEF PerformOK
<1>12. \A d \in Characters : playing[d] # None => d = c
  BY <1>1, OthersRest
<1>13. Repose'
  BY <1>1, <1>2, <1>5 DEF Repose, Playing
<1>14. Fresh'
  <2> SUFFICES ASSUME NEW n \in DOMAIN Script,
                      \A d \in Characters : playing[d] # None => playing[d].move # n
               PROVE  Ready(n)'
    BY <1>2 DEF Fresh
  <2>1. n # m /\ Ready(n)
    BY <1>1 DEF RestInv, Fresh, Playing
  <2>2. frame'[n] = frame[n] /\ part'[n] = part[n]
    BY <1>1, <1>6, <2>1
  <2> QED
    BY <2>1, <2>2 DEF Ready
<1> QED
  BY <1>2, <1>11, <1>12, <1>13, <1>14 DEF RestInv

LEMMA EndSequenceRests ==
  ASSUME IInv, IInv', RestInv, NEW c \in Characters, EndSequence(c)
  PROVE  RestInv'
<1> DEFINE m == playing[c].move
           A == AfterPart(c)
<1>1. /\ Playing(c) /\ ~Still(c) /\ frame[m] = 0 /\ part'[m] = part[m] + 1
      /\ \A n \in DOMAIN Script : n # m => part'[n] = part[n]
  BY PartAdvances DEF EndSequence
<1>2. /\ sprite' = [A EXCEPT ![c].animation = "idle"] /\ part[m] = Len(Script[m])
      /\ frame' = [frame EXCEPT ![m] = Frames[PartOf(c)]]
  BY DEF EndSequence
<1>3. /\ m \in DOMAIN Script /\ PartOf(c) = Script[m][Len(Script[m])]
      /\ frame \in [DOMAIN Script -> Nat]
  BY <1>1, <1>2, PlaysPart DEF IInv, TypeOK
<1>4. /\ A \in [Characters -> Look]
      /\ \A d \in Characters : d # c => A[d] = AtRest(d)
      /\ A[c].mirrored <=> Faces(c)
      /\ A[c].x = Home(c)
  BY <1>1, <1>3, AfterPartLooks
<1> HIDE DEF A
<1>5. \A d \in Characters : sprite'[d] = AtRest(d)
  <2>1. /\ \A d \in Characters : d # c => sprite'[d] = A[d]
        /\ sprite'[c].animation = "idle" /\ sprite'[c].x = A[c].x
        /\ sprite'[c].mirrored = A[c].mirrored
    BY <1>2, <1>4, ShowsExcept
  <2>2. sprite'[c] \in Look
    BY DEF IInv, TypeOK
  <2>3. sprite'[c] = AtRest(c)
    BY <1>4, <2>1, <2>2, LookIs
  <2> QED
    BY <1>4, <2>1, <2>3
<1>6. ASSUME NEW n \in DOMAIN Script PROVE Ready(n)'
  <2>1. CASE n = m
    BY <1>1, <1>2, <2>1 DEF Ready
  <2>2. CASE n # m
    <3>1. \A d \in Characters : playing[d] # None => playing[d].move # n
      BY <1>1, <2>2, OthersRest
    <3>2. Ready(n)
      BY <3>1 DEF RestInv, Fresh
    <3>3. frame'[n] = frame[n]
      BY <1>2, <1>3, <2>2
    <3> QED
      BY <1>1, <2>2, <3>2, <3>3 DEF Ready
  <2> QED
    BY <2>1, <2>2
<1> QED
  BY <1>5, <1>6, BeginsRight DEF IInv

LEMMA NoAnimationRests ==
  ASSUME IInv, IInv', RestInv, NEW c \in Characters, NoAnimation(c)
  PROVE  RestInv'
<1>1. /\ Playing(c) /\ Still(c) /\ playing[c].move \notin DOMAIN Script
      /\ sprite' = [sprite EXCEPT ![c].animation = "idle"]
      /\ UNCHANGED <<part, frame>>
  BY DEF NoAnimation, Still, Registered
<1>2. /\ \A d \in Characters : playing[d] # None => d = c
      /\ \A d \in Characters : d # c /\ d # playing[c].on => sprite[d] = AtRest(d)
      /\ TargetOK(c) /\ sprite[c] = AtRest(c)
  BY <1>1, OthersRest DEF PerformOK
<1>3. sprite \in [Characters -> Look] /\ playing[c].on \in Characters
  BY <1>1, Performance DEF IInv, TypeOK
<1>4. \A d \in Characters : sprite[d] = AtRest(d)
  <2> DEFINE t == playing[c].on
  <2>1. t # c => sprite[t] = AtRest(t)
    BY <1>1, <1>2, <1>3, LookIs DEF TargetOK, Placed
  <2> QED
    BY <1>2, <2>1
<1>5. \A d \in Characters : sprite'[d] = AtRest(d)
  <2>1. /\ \A d \in Characters : d # c => sprite'[d] = sprite[d]
        /\ sprite'[c].animation = "idle" /\ sprite'[c].x = sprite[c].x
        /\ sprite'[c].mirrored = sprite[c].mirrored
    BY <1>1, <1>3, ShowsExcept
  <2>2. sprite'[c] \in Look /\ sprite[c] \in Look
    BY <1>3 DEF IInv, TypeOK
  <2>3. sprite'[c] = AtRest(c)
    BY <1>4, <2>1, <2>2, LookIs
  <2> QED
    BY <1>4, <2>1, <2>3
<1>6. \A n \in DOMAIN Script : Ready(n)'
  BY <1>1, <1>2 DEF RestInv, Fresh, Ready
<1> QED
  BY <1>5, <1>6, BeginsRight DEF IInv

\* What leaves the animator alone.
LEMMA SameRest ==
  ASSUME RestInv, UNCHANGED animator
  PROVE  RestInv'
<1>1. playing' = playing /\ part' = part /\ frame' = frame /\ sprite' = sprite
  BY DEF animator
<1>2. Repose'
  BY <1>1 DEF RestInv, Repose
<1>3. Fresh'
  BY <1>1 DEF RestInv, Fresh, Ready
<1>4. ASSUME NEW c \in Characters, playing'[c] # None
      PROVE  PerformOK(c)'
  <2>1. PerformOK(c)
    BY <1>1, <1>4 DEF RestInv
  <2>2. (Still(c)' <=> Still(c)) /\ PartOf(c)' = PartOf(c)
    BY <1>1 DEF Still, Registered, Exhausted, PartOf
  <2>3. TargetOK(c)' <=> TargetOK(c)
    BY <1>1, <2>2 DEF TargetOK, Placed
  <2>4. Underway(c)' <=> Underway(c)
    BY <1>1, <2>2 DEF Underway
  <2> QED
    BY <1>1, <2>1, <2>2, <2>3, <2>4 DEF PerformOK
<1> QED
  BY <1>2, <1>3, <1>4 DEF RestInv

\* The turn goes out while everybody is at rest.
LEMMA ChooseTargetRests ==
  ASSUME IInv, IInv', RestInv, ChooseTarget
  PROVE  RestInv'
<1>1. mode = "InGame" /\ part' = part /\ frame' = frame /\ sprite' = sprite
  BY DEF ChooseTarget
<1>2. \A c \in Characters : playing[c] = None
  BY <1>1 DEF IInv, TurnOK, Choosing
<1>3. \A d \in Characters : sprite'[d] = AtRest(d)
  BY <1>1, <1>2 DEF RestInv, Repose
<1>4. \A m \in DOMAIN Script : Ready(m)'
  BY <1>1, <1>2 DEF RestInv, Fresh, Ready
<1> QED
  BY <1>3, <1>4, BeginsRight DEF IInv

LEMMA InitRests == Init => RestInv
<1> SUFFICES ASSUME Init PROVE RestInv
  OBVIOUS
<1>1. \A c \in Characters : playing[c] = None /\ sprite[c] = AtRest(c)
  BY DEF Init
<1>2. \A m \in DOMAIN Script : Ready(m)
  BY DEF Init, Ready
<1> QED
  BY <1>1, <1>2 DEF RestInv, Repose, Fresh

LEMMA NextRests == IInv /\ RestInv /\ IInv' /\ [Next]_vars => RestInv'
<1> SUFFICES ASSUME IInv, RestInv, IInv', [Next]_vars PROVE RestInv'
  OBVIOUS
<1>1. CASE CreateRoom \/ JoinRoom \/ SinglePlayer \/ OpenMenu \/ Back
  <2>1. UNCHANGED animator
    BY <1>1 DEF CreateRoom, JoinRoom, SinglePlayer, OpenMenu, Back
  <2> QED
    BY <2>1, SameRest
<1>2. CASE ChooseTarget
  BY <1>2, ChooseTargetRests
<1>3. ASSUME NEW c \in Characters, Animate(c) PROVE RestInv'
  <2>1. CASE WalkTarget(c)
    BY <2>1, WalkTargetRests
  <2>2. CASE Strike(c)
    BY <2>2, StrikeRests
  <2>3. CASE ArcaneBurst(c)
    BY <2>3, ArcaneBurstRests
  <2>4. CASE WalkBack(c)
    BY <2>4, WalkBackRests
  <2>5. CASE Pose(c)
    BY <2>5, PoseRests
  <2>6. CASE NextPart(c)
    BY <2>6, NextPartRests
  <2>7. CASE EndSequence(c)
    BY <2>7, EndSequenceRests
  <2>8. CASE NoAnimation(c)
    BY <2>8, NoAnimationRests
  <2>9. CASE PlayedBefore(c)
    BY <2>9, SameRest DEF PlayedBefore
  <2> QED
    BY <1>3, <2>1, <2>2, <2>3, <2>4, <2>5, <2>6, <2>7, <2>8, <2>9 DEF Animate
<1>4. CASE UNCHANGED vars
  BY <1>4, SameRest DEF vars
<1> QED
  BY <1>1, <1>2, <1>3, <1>4 DEF Next, Click

\* Whoever neither performs nor is hit stands in its place, looks at the other
\* team and is idle: the walks there and back (animateKnightWalkTarget,
\* animateKnightWalkBack, animateWitchArcaneBurst, animateWitchWalkBack) leave
\* nothing behind, whatever their frames, distances and roundings.
THEOREM LeavesNoTrace == Spec => []Repose
<1>1. Init => IInv /\ RestInv
  BY InitIInv, InitRests
<1>2. (IInv /\ RestInv) /\ [Next]_vars => (IInv /\ RestInv)'
  BY NextIInv, NextRests
<1>3. RestInv => Repose
  BY DEF RestInv
<1> QED
  BY <1>1, <1>2, <1>3, PTL DEF Spec

=============================================================================
