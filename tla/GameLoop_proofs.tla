--------------------------- MODULE GameLoop_proofs ---------------------------
(***************************************************************************)
(* Proofs about GameLoop for every table size, flip limit, arrangement and *)
(* number of lives that BoardAssumption and LoopAssumption allow.          *)
(***************************************************************************)
EXTENDS GameInvariant, FiniteSetTheorems, TLAPS

-----------------------------------------------------------------------------
(* The positions of cardArray are finitely many: counts are naturals <= N. *)
LEMMA CardCount ==
    ASSUME NEW S \in SUBSET Cards
    PROVE  /\ IsFiniteSet(S) /\ Cardinality(S) \in Nat /\ Cardinality(S) <= N
           /\ Cardinality(Cards) = N
<1>1. IsFiniteSet(Cards) /\ Cardinality(Cards) = N
  BY FS_Interval, BoardAssumption DEF Cards
<1>2. IsFiniteSet(S) /\ Cardinality(S) <= Cardinality(Cards)
  BY <1>1, FS_Subset
<1>3. Cardinality(S) \in Nat
  BY <1>2, FS_CardinalityType
<1> QED
  BY <1>1, <1>2, <1>3

LEMMA ZeroCard == 0 \in Cards /\ N >= 2
  BY BoardAssumption DEF Cards

LEMMA NewLives == MaxLives \in 1 .. LifeModulus - 1 /\ MaxLives \in 1 .. MaxLives
  BY LoopAssumption

(* The divisor of the animation stays an integer. *)
LEMMA WidthType ==
    ASSUME isFlipping \subseteq Cards, increaseWidth \in Int, NEW turned
    PROVE  Width(turned) \in Int
<1>1. /\ isFlipping \ turned \in SUBSET Cards
      /\ isFlipping \cap turned \in SUBSET Cards
  OBVIOUS
<1>2. /\ Cardinality(isFlipping \ turned) \in Nat
      /\ Cardinality(isFlipping \cap turned) \in Nat
  BY <1>1, CardCount
<1> QED
  BY <1>2 DEF Width

(* A flip call keeps the types of the animation state. *)
LEMMA FlipType ==
    ASSUME TypeOK, DrawCard(drawPos)
    PROVE  /\ isFlipped' \subseteq Cards /\ isFlipping' \subseteq Cards
           /\ otherSide' \subseteq Cards /\ increaseWidth' \in Int
<1> USE DEF TypeOK
<1>1. CASE UNCHANGED animation
  BY <1>1 DEF animation
<1>2. ASSUME NEW turned \in SUBSET Cards, NEW end, NEW down \in SUBSET Cards,
             Flip(turned, end, down)
      PROVE  /\ isFlipped' \subseteq Cards /\ isFlipping' \subseteq Cards
             /\ otherSide' \subseteq Cards /\ increaseWidth' \in Int
  <2>1. Width(turned) \in Int
    BY WidthType
  <2>2. -Runaway \in Int
    BY BoardAssumption
  <2> QED
    BY <1>2, <2>1, <2>2 DEF Flip
<1>3. CASE flipACardUp
  <2>1. Turned(isFlipping \cap isFlipped) \in SUBSET Cards
    BY DEF Turned
  <2>2. isFlipped \ isFlipping \in SUBSET Cards
    OBVIOUS
  <2>3. Flip(Turned(isFlipping \cap isFlipped), 0, isFlipped \ isFlipping)
    BY <1>3 DEF flipACardUp
  <2> HIDE DEF TypeOK
  <2> QED
    BY <1>2, <2>1, <2>2, <2>3
<1>4. CASE flipACardDown
  <2>1. Turned(isFlipping \ isFlipped) \in SUBSET Cards
    BY DEF Turned
  <2>2. isFlipped \cup isFlipping \in SUBSET Cards
    OBVIOUS
  <2>3. Flip(Turned(isFlipping \ isFlipped), 1, isFlipped \cup isFlipping)
    BY <1>4 DEF flipACardDown
  <2> HIDE DEF TypeOK
  <2> QED
    BY <1>2, <2>1, <2>2, <2>3
<1> QED
  BY <1>1, <1>3, <1>4 DEF DrawCard

(* The judging loop speaks of positions, and counts at most N mismatches. *)
LEMMA JudgedCards ==
    /\ Open \subseteq Cards /\ Later \subseteq Open /\ First \subseteq Open
    /\ Same \subseteq Later /\ Wrong \subseteq Later
    /\ WithFirst(Same) \subseteq Open /\ WithFirst(Wrong) \subseteq Open
  BY DEF Open, Later, First, Same, Wrong, WithFirst

LEMMA LostCount ==
    ASSUME NEW flipping
    PROVE  Lost(flipping) \in Nat /\ Lost(flipping) <= N
<1>1. Wrong \ flipping \in SUBSET Cards
  BY JudgedCards
<1> QED
  BY <1>1, CardCount DEF Lost

LEMMA UnsignedType ==
    ASSUME lives \in 0 .. LifeModulus - 1, NEW n \in Nat, n <= N
    PROVE  Unsigned(lives - n) \in 0 .. LifeModulus - 1
  BY LoopAssumption, BoardAssumption DEF Unsigned

(* The cards being turned after the click are positions of the table. *)
LEMMA ClickedCards ==
    ASSUME TypeOK, NEW posInArray
    PROVE  Clicked(posInArray) \subseteq Cards
<1>1. {spot.card} \ {NoCard} \subseteq Cards
  BY DEF TypeOK, AllSpots
<1> QED
  BY <1>1 DEF TypeOK, Clicked, flipCardOnClick

(* What the handlers that only change screens leave alone. *)
ScreenStep ==
    \/ KeyInterrupt \/ MouseInterrupt
    \/ MenuPlay \/ MenuInstructions \/ MenuExit \/ MenuIdle
    \/ PauseResume \/ PauseInstructions \/ PauseExit \/ PauseIdle
    \/ InstructionsOfGame \/ InstructionsOfMenu \/ ExitQuit

LEMMA ScreenStepFrame ==
    ASSUME ScreenStep
    PROVE  UNCHANGED <<board, initGame, verdict, player, control>>
  BY DEF ScreenStep, KeyInterrupt, MouseInterrupt, MenuPlay, MenuInstructions, MenuExit,
     MenuIdle, MenuRest, PauseResume, PauseInstructions, PauseExit, PauseIdle, PauseRest,
     InstructionsOfGame, InstructionsOfMenu, InstructionsRest, ExitQuit

LEMMA ScreenStepType ==
    ASSUME TypeOK, ScreenStep
    PROVE  TypeOK'
<1> USE DEF ScreenStep, KeyInterrupt, MouseInterrupt, MenuPlay, MenuInstructions, MenuExit,
       MenuIdle, MenuRest, PauseResume, PauseInstructions, PauseExit, PauseIdle, PauseRest,
       InstructionsOfGame, InstructionsOfMenu, InstructionsRest, ExitQuit
<1>1. UNCHANGED <<board, initGame, verdict, player, control>>
  BY ScreenStepFrame
<1>2. tmr_tck_counter' \in {tmr_tck_counter, Ticks, 0}
  BY DEF timer_int_handler
<1>3. gs' \in {gs, "Game", "Instructions", "Exit", "Menu"}
  OBVIOUS
<1>4. prevState' \in {prevState, "Game", "Instructions"}
  OBVIOUS
<1>5. condition' \in {condition, FALSE}
  OBVIOUS
<1>6. scancode' \in Keys \cup {scancode, NoKey}
  BY DEF input
<1>7. lb' \in BOOLEAN
  BY DEF TypeOK, input
<1>8. spot' \in Spots \cup {spot}
  BY DEF input
<1> USE DEF TypeOK
<1>9. tmr_tck_counter' \in 0 .. PreviewTicks - 1
  BY <1>2, LoopAssumption DEF Ticks
<1>10. /\ gs' \in Screens /\ prevState' \in {"Exit", "Game", "Instructions"}
       /\ condition' \in BOOLEAN
  BY <1>3, <1>4, <1>5 DEF Screens
<1>11. scancode' \in Keys \cup {NoKey} /\ spot' \in AllSpots
  BY <1>6, <1>8, LoopAssumption
<1> HIDE DEF ScreenStep
<1> QED
  BY <1>1, <1>7, <1>9, <1>10, <1>11 DEF board, animation, verdict, player, control

LEMMA TypeStep == TypeOK /\ [Next]_vars => TypeOK'
<1> SUFFICES ASSUME TypeOK, [Next]_vars PROVE TypeOK'
  OBVIOUS
<1> USE DEF TypeOK
<1>0. Ticks \in 0 .. PreviewTicks - 1 /\ 0 \in 0 .. PreviewTicks - 1
  BY LoopAssumption DEF Ticks
<1>1. CASE ScreenStep
  BY <1>1, ScreenStepType
<1>2. CASE ExitVerdict
  <2>1. /\ face' \in [Cards -> Faces]
        /\ isFlipped' \subseteq Cards /\ isFlipping' \subseteq Cards
        /\ flipSuccess' \subseteq Cards
    BY <1>2, BoardAssumption DEF ExitVerdict, NewGame, initializePlayer, DealCards, board, animation
  <2>2. /\ otherSide' \subseteq Cards /\ increaseWidth' \in Int
    BY <1>2 DEF ExitVerdict, NewGame, initializePlayer, DealCards, board, animation
  <2>3. lives' \in 0 .. LifeModulus - 1 /\ isAlive' \in BOOLEAN
    <3>1. \/ lives' = MaxLives /\ isAlive' = TRUE
          \/ lives' = lives /\ isAlive' = isAlive
      BY <1>2 DEF ExitVerdict, NewGame, initializePlayer, player
    <3>2. MaxLives \in 0 .. LifeModulus - 1
      BY NewLives, LoopAssumption
    <3> QED
      BY <3>1, <3>2
  <2>4. /\ gs' \in Screens /\ initGame' \in BOOLEAN
        /\ game_over' \in BOOLEAN /\ victory' \in BOOLEAN
    BY <1>2 DEF ExitVerdict, NewGame, Screens, verdict
  <2> QED
    BY <1>2, <1>0, <2>1, <2>2, <2>3, <2>4 DEF ExitVerdict, timer_int_handler, input, control
<1>3. CASE GamePreview
  <2>1. /\ isFlipping' \subseteq Cards /\ initGame' \in BOOLEAN
        /\ pc' \in {"receive", "draw", "preview", "play", "killed"} /\ drawPos' \in Cards
    BY <1>3, ZeroCard DEF GamePreview
  <2>2. tmr_tck_counter' \in 0 .. PreviewTicks - 1
    BY <1>3, <1>0 DEF GamePreview, timer_int_handler
  <2>3. UNCHANGED <<face, isFlipped, flipSuccess, otherSide, increaseWidth, gs,
                    prevState, verdict, condition, input, player, mixed>>
    BY <1>3 DEF GamePreview
  <2> QED
    BY <2>1, <2>2, <2>3 DEF verdict, player, input
<1>4. CASE GameTick
  BY <1>4, <1>0, ZeroCard DEF GameTick, timer_int_handler, board, animation, verdict,
     player, input
<1>5. CASE DrawGameCards
  <2>1. drawPos' \in Cards /\ pc' \in {"receive", "draw", "preview", "play", "killed"}
    BY <1>5, BoardAssumption DEF DrawGameCards, LastCard, Cards
  <2>2. /\ isFlipped' \subseteq Cards /\ isFlipping' \subseteq Cards
        /\ otherSide' \subseteq Cards /\ increaseWidth' \in Int
    BY <1>5, FlipType DEF DrawGameCards
  <2> QED
    BY <1>5, <2>1, <2>2 DEF DrawGameCards, verdict, player, input
<1>6. CASE GamePlay
  <2>1. PICK p : JudgeTable(Clicked(p), IF Judging THEN Lost(Clicked(p)) ELSE 0)
    BY <1>6 DEF GamePlay
  <2>2. isFlipping' \subseteq Cards /\ flipSuccess' \subseteq Cards
    BY <2>1, ClickedCards, JudgedCards DEF JudgeTable, Judge
  <2>3. lives' \in 0 .. LifeModulus - 1
    BY <2>1, LostCount, UnsignedType, BoardAssumption DEF JudgeTable
  <2>4. gs' \in Screens /\ isAlive' \in BOOLEAN /\ game_over' \in BOOLEAN /\ victory' \in BOOLEAN
    BY <2>1 DEF JudgeTable, Screens
  <2>5. mixed' \in BOOLEAN
    BY <1>6 DEF GamePlay
  <2> QED
    BY <1>6, <2>2, <2>3, <2>4, <2>5 DEF GamePlay, input
<1>7. CASE DivisionFault
  BY <1>7 DEF DivisionFault, board, animation, verdict, player, input
<1>8. CASE UNCHANGED vars
  BY <1>8 DEF vars, board, animation, verdict, player, control, input
<1> QED
  BY <1>1, <1>2, <1>3, <1>4, <1>5, <1>6, <1>7, <1>8 DEF Next, TimerStep, ScreenStep

-----------------------------------------------------------------------------
(* The judging loop takes one card as the first and pairs it with its like. *)
LEMMA FirstIsUnique == \A c, d \in First : c = d
<1> SUFFICES ASSUME NEW c \in First, NEW d \in First PROVE c = d
  OBVIOUS
<1>1. c \in Int /\ d \in Int
  BY BoardAssumption DEF First, Open, Cards
<1>2. ~(c < d) /\ ~(d < c)
  BY DEF First, Later
<1> QED
  BY <1>1, <1>2

LEMMA NewMatchesArePairs ==
    \A c \in WithFirst(Same) : \E d \in WithFirst(Same) : c # d /\ face[c] = face[d]
<1> SUFFICES ASSUME NEW c \in WithFirst(Same)
             PROVE  \E d \in WithFirst(Same) : c # d /\ face[c] = face[d]
  OBVIOUS
<1>1. CASE c \in Same
  <2>1. PICK d \in First : face[c] = face[d]
    BY <1>1 DEF Same
  <2>2. c # d
    BY <1>1, <2>1 DEF Same, First
  <2> QED
    BY <1>1, <2>1, <2>2 DEF WithFirst
<1>2. CASE c \in First
  <2>1. PICK s \in Same : TRUE
    BY DEF WithFirst
  <2>2. PICK d \in First : face[s] = face[d]
    BY <2>1 DEF Same
  <2>3. d = c
    BY <1>2, <2>2, FirstIsUnique
  <2>4. s # c
    BY <1>2, <2>1 DEF Same, First
  <2> QED
    BY <2>1, <2>2, <2>3, <2>4 DEF WithFirst
<1> QED
  BY <1>1, <1>2 DEF WithFirst

(* A life is lost only when some later card is unlike the first. *)
LEMMA LostNeedsWrong ==
    ASSUME NEW flipping, Lost(flipping) # 0
    PROVE  \E c \in Wrong : c \notin flipping
  BY FS_EmptySet DEF Lost

(* With 1 .. MaxLives lives the unsigned counter behaves like a natural.   *)
LEMMA LifeCount ==
    ASSUME lives \in 1 .. MaxLives, NEW lost \in Nat, lost <= N
    PROVE  /\ LastLifeLost(lost) <=> lives <= lost
           /\ ~LastLifeLost(lost) =>
                 Unsigned(lives - lost) = lives - lost /\ lives - lost \in 1 .. MaxLives
<1>1. MaxLives \in Nat /\ LifeModulus \in Nat /\ N \in Nat /\ N < LifeModulus
  BY LoopAssumption, BoardAssumption
<1>2. ASSUME NEW k \in 1 .. lost, Unsigned(lives - k) = 0 PROVE lives <= lost
  BY <1>1, <1>2 DEF Unsigned
<1>3. ASSUME lives <= lost PROVE LastLifeLost(lost)
  <2>1. lives \in 1 .. lost /\ Unsigned(lives - lives) = 0
    BY <1>1, <1>3 DEF Unsigned
  <2> QED
    BY <2>1 DEF LastLifeLost
<1>4. LastLifeLost(lost) <=> lives <= lost
  BY <1>2, <1>3 DEF LastLifeLost
<1> QED
  BY <1>1, <1>4 DEF Unsigned

-----------------------------------------------------------------------------
LEMMA TableKept ==
    ASSUME TableInv, UNCHANGED <<board, initGame, verdict, control>>
    PROVE  TableInv'
<1>1. /\ UNCHANGED <<face, flipSuccess, isFlipped, isFlipping, otherSide, increaseWidth>>
      /\ UNCHANGED <<initGame, game_over, pc, drawPos, mixed>>
  BY DEF board, animation, verdict, control
<1>2. Open' = Open
  BY <1>1 DEF Open
<1> QED
  BY <1>1, <1>2 DEF TableInv, Still, TurningUp, TurningBack, TurningAll, Alone

LEMMA ScreenStepInv ==
    ASSUME IInv, ScreenStep
    PROVE  ScreenInv' /\ LivesInPlay' /\ VerdictIsTrue' /\ NewGameIsFresh'
<1>1. /\ UNCHANGED <<face, flipSuccess, isFlipped, isFlipping, otherSide, increaseWidth>>
      /\ UNCHANGED <<initGame, game_over, victory, lives, isAlive, pc, drawPos, mixed>>
  BY ScreenStepFrame DEF board, animation, verdict, player, control
<1>2. pc = "receive"
  BY DEF ScreenStep, KeyInterrupt, MouseInterrupt, MenuPlay, MenuInstructions, MenuExit,
     MenuIdle, PauseResume, PauseInstructions, PauseExit, PauseIdle, InstructionsOfGame,
     InstructionsOfMenu, ExitQuit, TimerInterrupt, Receiving
<1>3. MatchedInPairs'
  BY <1>1 DEF IInv, ScreenInv, MatchedInPairs
<1> HIDE DEF MatchedInPairs
<1> USE DEF IInv, TypeOK, ScreenInv, LivesInPlay, VerdictIsTrue, NewGameIsFresh
<1>4. CASE KeyInterrupt
  BY <1>1, <1>2, <1>3, <1>4 DEF KeyInterrupt
<1>5. CASE MouseInterrupt
  BY <1>1, <1>2, <1>3, <1>5 DEF MouseInterrupt
<1>6. CASE MenuPlay
  BY <1>1, <1>2, <1>3, <1>6, NewLives DEF MenuPlay, MenuRest, TimerInterrupt
<1>7. CASE MenuInstructions
  BY <1>1, <1>2, <1>3, <1>7 DEF MenuInstructions, MenuRest, TimerInterrupt
<1>8. CASE MenuExit
  BY <1>1, <1>2, <1>3, <1>8 DEF MenuExit, MenuRest, TimerInterrupt
<1>9. CASE MenuIdle
  BY <1>1, <1>2, <1>3, <1>9 DEF MenuIdle, MenuRest, TimerInterrupt
<1>10. CASE PauseResume
  BY <1>1, <1>2, <1>3, <1>10 DEF PauseResume, PauseRest, TimerInterrupt
<1>11. CASE PauseInstructions
  BY <1>1, <1>2, <1>3, <1>11 DEF PauseInstructions, PauseRest, TimerInterrupt
<1>12. CASE PauseExit
  BY <1>1, <1>2, <1>3, <1>12 DEF PauseExit, PauseRest, TimerInterrupt
<1>13. CASE PauseIdle
  BY <1>1, <1>2, <1>3, <1>13 DEF PauseIdle, PauseRest, TimerInterrupt
<1>14. CASE InstructionsOfGame
  BY <1>1, <1>2, <1>3, <1>14 DEF InstructionsOfGame, InstructionsRest, TimerInterrupt
<1>15. CASE InstructionsOfMenu
  BY <1>1, <1>2, <1>3, <1>15 DEF InstructionsOfMenu, InstructionsRest, TimerInterrupt
<1>16. CASE ExitQuit
  BY <1>1, <1>2, <1>3, <1>16 DEF ExitQuit, input, TimerInterrupt
<1> QED
  BY <1>4, <1>5, <1>6, <1>7, <1>8, <1>9, <1>10, <1>11, <1>12, <1>13, <1>14, <1>15, <1>16 DEF ScreenStep

-----------------------------------------------------------------------------
(* A verdict finds the animation at its start values. *)
LEMMA VerdictAtRest ==
    ASSUME IInv, game_over \/ victory, ~mixed
    PROVE  otherSide = {} /\ increaseWidth = 1
<1>1. CASE game_over
  BY <1>1 DEF IInv, TableInv
<1>2. CASE victory
  <2>1. flipSuccess = Cards /\ Open = {} /\ flipSuccess # {}
    BY <1>2, ZeroCard DEF IInv, VerdictIsTrue, Open
  <2>2. isFlipped = {}
    BY <2>1 DEF IInv, TypeOK, TableInv
  <2> QED
    BY <2>1, <2>2 DEF IInv, TableInv, Still, TurningUp, TurningBack, TurningAll
<1> QED
  BY <1>1, <1>2

LEMMA ExitVerdictInv ==
    ASSUME IInv, ExitVerdict
    PROVE  ScreenInv' /\ LivesInPlay' /\ VerdictIsTrue' /\ NewGameIsFresh' /\ TableInv'
<1> USE DEF ExitVerdict, NewGame, initializePlayer, TimerInterrupt, Receiving
<1>1. CASE Ticks = 0
  <2>1. /\ gs' = "Menu" /\ initGame' = TRUE /\ game_over' = FALSE /\ victory' = FALSE
        /\ lives' = MaxLives /\ isAlive' = TRUE
        /\ isFlipped' = {} /\ isFlipping' = {} /\ flipSuccess' = {}
        /\ otherSide' = otherSide /\ increaseWidth' = increaseWidth
        /\ prevState' = prevState /\ pc' = pc /\ mixed' = mixed /\ condition' = condition
        /\ pc = "receive" /\ gs = "Exit"
    BY <1>1 DEF DealCards, control
  <2>2. mixed \/ (otherSide = {} /\ increaseWidth = 1)
    BY VerdictAtRest
  <2>3. MatchedInPairs'
    BY <2>1 DEF MatchedInPairs
  <2>4. TableInv'
    BY <2>1, <2>2 DEF TableInv, Still
  <2> QED
    BY <2>1, <2>2, <2>3, <2>4, NewLives
    DEF IInv, ScreenInv, LivesInPlay, VerdictIsTrue, NewGameIsFresh
<1>2. CASE Ticks # 0
  <2>1. UNCHANGED <<board, initGame, verdict, control, gs, prevState, player, condition>>
    BY <1>2
  <2>2. TableInv'
    BY <2>1, TableKept DEF IInv
  <2>3. MatchedInPairs'
    BY <2>1 DEF IInv, ScreenInv, MatchedInPairs, board
  <2> QED
    BY <2>1, <2>2, <2>3 DEF IInv, ScreenInv, LivesInPlay, VerdictIsTrue, NewGameIsFresh,
       board, animation, verdict, control, player
<1> QED
  BY <1>1, <1>2

LEMMA GamePreviewInv ==
    ASSUME IInv, GamePreview
    PROVE  ScreenInv' /\ LivesInPlay' /\ VerdictIsTrue' /\ NewGameIsFresh' /\ TableInv'
<1>1. /\ gs = "Game" /\ pc = "receive" /\ condition /\ initGame
      /\ UNCHANGED <<face, isFlipped, flipSuccess, otherSide, increaseWidth, gs,
                     prevState, game_over, victory, condition, lives, isAlive, mixed>>
  BY DEF GamePreview, TimerInterrupt, Receiving, verdict, player
<1>2. /\ isFlipped = {} /\ isFlipping = {} /\ flipSuccess = {}
      /\ mixed \/ (otherSide = {} /\ increaseWidth = 1)
  BY <1>1 DEF IInv, NewGameIsFresh
<1>3. MatchedInPairs'
  BY <1>1 DEF IInv, ScreenInv, MatchedInPairs
<1>4. CASE Ticks = 0
  <2>1. isFlipping' = Cards /\ initGame' = FALSE /\ pc' = "preview" /\ drawPos' = 0
    BY <1>4 DEF GamePreview
  <2>2. TableInv'
    BY <1>1, <1>2, <2>1 DEF TableInv, TurningAll, IInv, VerdictIsTrue
  <2> QED
    BY <1>1, <1>3, <2>1, <2>2
    DEF IInv, ScreenInv, LivesInPlay, VerdictIsTrue, NewGameIsFresh
<1>5. CASE Ticks # 0
  <2>1. UNCHANGED <<isFlipping, initGame, pc, drawPos>>
    BY <1>5 DEF GamePreview
  <2>2. TableInv'
    BY <1>1, <2>1, TableKept DEF IInv, board, animation, verdict, control
  <2> QED
    BY <1>1, <1>3, <2>1, <2>2
    DEF IInv, ScreenInv, LivesInPlay, VerdictIsTrue, NewGameIsFresh
<1> QED
  BY <1>4, <1>5

LEMMA GameTickInv ==
    ASSUME IInv, GameTick
    PROVE  ScreenInv' /\ LivesInPlay' /\ VerdictIsTrue' /\ NewGameIsFresh' /\ TableInv'
<1>1. /\ gs = "Game" /\ pc = "receive" /\ condition /\ ~initGame
      /\ UNCHANGED <<face, isFlipped, isFlipping, flipSuccess, otherSide, increaseWidth,
                     gs, prevState, initGame, game_over, victory, condition, lives,
                     isAlive, mixed>>
      /\ pc' \in {"draw", "play"}
  BY DEF GameTick, TimerInterrupt, Receiving, verdict, player, board, animation
<1>2. MatchedInPairs'
  BY <1>1 DEF IInv, ScreenInv, MatchedInPairs
<1>3. TableInv'
  <2>1. Open' = Open
    BY <1>1 DEF Open
  <2> QED
    BY <1>1, <2>1
    DEF IInv, TableInv, Still, TurningUp, TurningBack, TurningAll, Alone
<1> QED
  BY <1>1, <1>2, <1>3 DEF IInv, ScreenInv, LivesInPlay, VerdictIsTrue, NewGameIsFresh

-----------------------------------------------------------------------------
(* A call in which all or none of the animated cards show their other side *)
(* moves the divisor by their number.                                      *)
LEMMA UniformWidth ==
    ASSUME isFlipping \subseteq Cards, increaseWidth \in Int
    PROVE  /\ Width({}) = increaseWidth + Cardinality(isFlipping)
           /\ Width(isFlipping) = increaseWidth - Cardinality(isFlipping)
<1>1. /\ isFlipping \ {} = isFlipping /\ isFlipping \cap {} = {}
      /\ isFlipping \ isFlipping = {} /\ isFlipping \cap isFlipping = isFlipping
  OBVIOUS
<1>2. Cardinality({}) = 0 /\ Cardinality(isFlipping) \in Nat
  BY FS_EmptySet, CardCount
<1>3. /\ Width({}) = increaseWidth + Cardinality(isFlipping) - Cardinality({})
      /\ Width(isFlipping) = increaseWidth + Cardinality({}) - Cardinality(isFlipping)
  BY <1>1, Zenon DEF Width
<1> QED
  BY <1>2, <1>3

LEMMA PairCount ==
    ASSUME NEW a, NEW b, a # b
    PROVE  Cardinality({a}) = 1 /\ Cardinality({a, b}) = 2
<1>1. IsFiniteSet({a}) /\ Cardinality({a}) = 1
  BY FS_Singleton
<1>2. {a, b} = {a} \cup {b} /\ b \notin {a}
  OBVIOUS
<1>3. Cardinality({a} \cup {b}) = Cardinality({a}) + 1
  BY <1>1, <1>2, FS_AddElement
<1> QED
  BY <1>1, <1>2, <1>3

(* The divisor rises until the cards show their other side, and falls      *)
(* after it; it rises from FlipLimit at most and falls to 1 at least.      *)
Advances ==
    /\ isFlipping' = isFlipping
    /\ \/ /\ otherSide = {} /\ otherSide' = {}
          /\ increaseWidth <= FlipLimit /\ increaseWidth' > increaseWidth
       \/ /\ otherSide' = isFlipping
          /\ increaseWidth' < increaseWidth /\ increaseWidth' >= 1

(* One card turning up: the divisor rises, then falls to 0 and the card is up. *)
LEMMA UpStep ==
    ASSUME TypeOK, TurningUp, pc = "draw", flipSuccess \cap isFlipped = {},
           ~mixed, mixed' = mixed, initGame' = initGame,
           UNCHANGED <<face, flipSuccess>>, pc' \in {"draw", "play"},
           drawPos \in isFlipping, DrawCard(drawPos)
    PROVE  /\ Still' \/ TurningUp'
           /\ flipSuccess' \cap (isFlipped' \cup isFlipping') = {}
           /\ isFlipping' = {} \/ Advances
<1>1. PICK c \in isFlipped : isFlipping = {c} /\ otherSide \in {{}, {c}}
  BY DEF TurningUp
<1> DEFINE turned == Turned(isFlipping \cap isFlipped)
<1>2. Flip(turned, 0, isFlipped \ isFlipping)
  BY <1>1 DEF DrawCard, flipACardUp
<1>3. turned \in {{}, isFlipping}
  BY <1>1 DEF Turned
<1>4. Cardinality(isFlipping) = 1
  BY <1>1, FS_Singleton
<1>5. /\ turned = {} => Width(turned) = increaseWidth + 1
      /\ turned = isFlipping => Width(turned) = increaseWidth - 1
  <2>1. Width({}) = increaseWidth + 1 /\ Width(isFlipping) = increaseWidth - 1
    BY <1>4, UniformWidth DEF TypeOK
  <2> HIDE DEF turned
  <2> QED
    BY <2>1
<1> HIDE DEF turned
<1>6. increaseWidth \in Int /\ increaseWidth >= 1 /\ ~initGame /\ Alone
  BY DEF TypeOK, TurningUp
<1>7. CASE Width(turned) = 0
  <2>1. /\ isFlipping' = {} /\ increaseWidth' = 1 /\ otherSide' = {}
        /\ isFlipped' = isFlipped \ {c}
    BY <1>1, <1>2, <1>3, <1>7 DEF Flip
  <2>2. Open' = Open \cup {c}
    BY <1>1, <2>1 DEF Open, TypeOK
  <2>3. c \notin Open /\ c \in Int
    BY <1>1, BoardAssumption DEF Open, TypeOK, Cards
  <2>4. Still'
    <3>1. CASE Open = {}
      BY <2>1, <2>2, <3>1 DEF Still, Alone
    <3>2. CASE Open # {}
      <4>1. PICK o \in Open : Open = {o}
        BY <1>6, <3>2 DEF Alone
      <4>2. o \in Int /\ o # c
        BY <2>3, <4>1, BoardAssumption DEF Open, Cards
      <4>3. Open' = {o, c} /\ (o < c \/ c < o)
        BY <2>2, <2>3, <4>1, <4>2
      <4> QED
        BY <2>1, <4>3 DEF Still
    <3> QED
      BY <3>1, <3>2
  <2> QED
    BY <2>1, <2>4
<1>8. CASE Width(turned) # 0
  <2>1. /\ isFlipping' = isFlipping /\ isFlipped' = isFlipped /\ otherSide' = turned
        /\ increaseWidth' = IF Width(turned) < -Runaway THEN -Runaway ELSE Width(turned)
    BY <1>2, <1>8 DEF Flip
  <2>2. increaseWidth' >= 1
    BY <1>3, <1>5, <1>6, <1>8, <2>1, BoardAssumption
  <2>3. Open' = Open
    BY <2>1 DEF Open
  <2>4. TurningUp'
    BY <1>1, <1>3, <1>6, <2>1, <2>2, <2>3 DEF TurningUp, Alone
  <2>5. turned = {} => otherSide = {} /\ increaseWidth <= FlipLimit
    BY <1>1, <1>6, BoardAssumption DEF Turned, turned
  <2>6. Advances
    BY <1>3, <1>5, <1>6, <2>1, <2>2, <2>5, BoardAssumption DEF Advances
  <2> QED
    BY <1>1, <2>1, <2>4, <2>6
<1> QED
  BY <1>7, <1>8

(* A wrong pair turning back: two cards move the divisor by two, so it     *)
(* stays odd and comes back to exactly 1.                                  *)
LEMMA BackStep ==
    ASSUME TypeOK, TurningBack, pc = "draw", flipSuccess \cap isFlipped = {},
           ~mixed, mixed' = mixed, initGame' = initGame,
           UNCHANGED <<face, flipSuccess>>, pc' \in {"draw", "play"},
           drawPos \in isFlipping, DrawCard(drawPos)
    PROVE  /\ Still' \/ TurningBack'
           /\ flipSuccess' \cap (isFlipped' \cup isFlipping') = {}
           /\ isFlipping' = {} \/ Advances
<1>1. PICK a \in Open, b \in Open :
         a < b /\ face[a] # face[b] /\ Open = {a, b} /\ isFlipping = {a, b}
  BY DEF TurningBack
<1>2. /\ increaseWidth \in Int /\ increaseWidth >= 1 /\ increaseWidth % 2 = 1
      /\ ~initGame /\ isFlipping = Open
      /\ otherSide = {} \/ (otherSide = isFlipping /\ increaseWidth >= 3)
  BY DEF TypeOK, TurningBack
<1>3. Open \cap isFlipped = {} /\ Open \cap flipSuccess = {} /\ Open \subseteq Cards
  BY DEF Open
<1> DEFINE turned == Turned(isFlipping \ isFlipped)
<1>4. Flip(turned, 1, isFlipped \cup isFlipping)
  BY <1>2, <1>3 DEF DrawCard, flipACardDown
<1>5. /\ turned \in {{}, isFlipping}
      /\ turned = isFlipping => increaseWidth >= 3
  <2>1. CASE increaseWidth > FlipLimit
    <3>1. turned = isFlipping
      BY <1>2, <1>3, <2>1 DEF Turned
    <3>2. increaseWidth # 1 /\ increaseWidth # 2
      BY <1>2, <2>1, BoardAssumption
    <3> QED
      BY <1>2, <3>1, <3>2
  <2>2. CASE ~(increaseWidth > FlipLimit)
    <3>1. turned = otherSide
      BY <2>2 DEF Turned
    <3>2. isFlipping # {}
      BY <1>1
    <3> QED
      BY <1>2, <3>1, <3>2
  <2> QED
    BY <2>1, <2>2
<1> HIDE DEF turned
<1>6. Cardinality(isFlipping) = 2
  <2>1. a # b
    BY <1>1, <1>3, BoardAssumption DEF Cards
  <2> QED
    BY <1>1, <2>1, PairCount
<1>7. /\ turned = {} => Width(turned) = increaseWidth + 2
      /\ turned = isFlipping => Width(turned) = increaseWidth - 2
  <2>1. Width({}) = increaseWidth + 2 /\ Width(isFlipping) = increaseWidth - 2
    BY <1>6, UniformWidth DEF TypeOK
  <2> QED
    BY <2>1
<1>8. CASE Width(turned) = 1
  <2>1. /\ isFlipping' = {} /\ increaseWidth' = 1 /\ otherSide' = {}
        /\ isFlipped' = isFlipped \cup Open
    BY <1>2, <1>4, <1>5, <1>8 DEF Flip
  <2>2. Open' = {}
    BY <2>1 DEF Open
  <2>3. Still'
    BY <2>1, <2>2 DEF Still, Alone
  <2> QED
    BY <1>3, <2>1, <2>3
<1>9. CASE Width(turned) # 1
  <2>1. /\ isFlipping' = isFlipping /\ isFlipped' = isFlipped /\ otherSide' = turned
        /\ increaseWidth' = IF Width(turned) < -Runaway THEN -Runaway ELSE Width(turned)
    BY <1>4, <1>9 DEF Flip
  <2>2. Width(turned) \in Int /\ Width(turned) >= 1 /\ Width(turned) % 2 = 1
    BY <1>2, <1>5, <1>7
  <2>3. increaseWidth' = Width(turned) /\ increaseWidth' >= 3
    BY <1>9, <2>1, <2>2, BoardAssumption
  <2>4. Open' = Open
    BY <2>1 DEF Open
  <2>5. TurningBack'
    BY <1>1, <1>2, <1>5, <2>1, <2>2, <2>3, <2>4 DEF TurningBack
  <2>6. turned = {} => otherSide = {} /\ increaseWidth <= FlipLimit
    BY <1>1, <1>2, <1>3, BoardAssumption DEF Turned, turned
  <2>7. Advances
    BY <1>2, <1>5, <1>7, <2>1, <2>3, <2>6 DEF Advances
  <2> QED
    BY <1>2, <1>3, <2>1, <2>5, <2>7
<1> QED
  BY <1>8, <1>9

(* The whole table turning down after the preview: more cards than         *)
(* FlipLimit take two calls, up to N + 1 and back.                         *)
LEMMA AllStep ==
    ASSUME TypeOK, TurningAll, ~mixed, mixed' = mixed, initGame' = initGame,
           UNCHANGED <<face, flipSuccess>>, DrawCard(drawPos),
           drawPos' = (IF LastCard THEN 0 ELSE drawPos + 1),
           pc' = (IF ~LastCard THEN pc ELSE IF pc = "draw" THEN "play" ELSE "receive")
    PROVE  /\ Still' \/ TurningAll'
           /\ flipSuccess' \cap (isFlipped' \cup isFlipping') = {}
           /\ isFlipping' = {} \/ Advances
<1>1. /\ ~initGame /\ pc = "preview"
      /\ isFlipping = Cards /\ isFlipped = {} /\ flipSuccess = {} /\ otherSide = {}
      /\ \/ drawPos = 0 /\ increaseWidth = 1
         \/ drawPos = 1 /\ increaseWidth = N + 1
      /\ drawPos \in Cards /\ N \in Nat /\ N >= 2 /\ FlipLimit \in Nat \ {0} /\ FlipLimit < N
  BY ZeroCard, BoardAssumption DEF TurningAll, TypeOK
<1> DEFINE turned == Turned(isFlipping \ isFlipped)
<1>2. Flip(turned, 1, isFlipped \cup isFlipping)
  BY <1>1 DEF DrawCard, flipACardDown
<1>3. Width({}) = increaseWidth + N /\ Width(Cards) = increaseWidth - N
  <2>1. Cardinality(isFlipping) = N
    BY <1>1, CardCount
  <2> QED
    BY <1>1, <2>1, UniformWidth DEF TypeOK
<1>4. CASE drawPos = 0
  <2>1. turned = {}
    BY <1>1, <1>4 DEF Turned
  <2> HIDE DEF turned
  <2>2. Width(turned) = N + 1
    BY <1>1, <1>3, <1>4, <2>1
  <2>3. /\ isFlipping' = isFlipping /\ isFlipped' = isFlipped /\ otherSide' = turned
        /\ increaseWidth' = N + 1
    BY <1>1, <1>2, <2>2, BoardAssumption DEF Flip
  <2>4. drawPos' = 1 /\ pc' = "preview"
    BY <1>1, <1>4 DEF LastCard
  <2>5. Advances
    BY <1>1, <1>4, <2>1, <2>3 DEF Advances
  <2> QED
    BY <1>1, <2>1, <2>3, <2>4, <2>5 DEF TurningAll
<1>5. CASE drawPos = 1
  <2>1. turned = Cards
    BY <1>1, <1>5 DEF Turned
  <2> HIDE DEF turned
  <2>2. Width(turned) = 1
    BY <1>1, <1>3, <1>5, <2>1
  <2>3. /\ isFlipping' = {} /\ isFlipped' = Cards /\ otherSide' = {}
        /\ increaseWidth' = 1
    BY <1>1, <1>2, <2>1, <2>2 DEF Flip
  <2>4. Open' = {}
    BY <2>3 DEF Open
  <2> QED
    BY <1>1, <2>3, <2>4 DEF Still, Alone
<1> QED
  BY <1>1, <1>4, <1>5

(* A divisor of zero needs mixed animations. *)
LEMMA DivisionFaultInv ==
    ASSUME IInv, DivisionFault
    PROVE  ScreenInv' /\ LivesInPlay' /\ VerdictIsTrue' /\ NewGameIsFresh' /\ TableInv'
<1>1. /\ pc \in {"draw", "preview"} /\ isFlipping # {} /\ increaseWidth = 0
      /\ UNCHANGED <<face, flipSuccess, isFlipped, isFlipping, otherSide, increaseWidth>>
      /\ UNCHANGED <<gs, prevState, initGame, game_over, victory, condition>>
      /\ UNCHANGED <<lives, isAlive, drawPos, mixed>>
  BY DEF DivisionFault, DividesByZero, board, animation, verdict, player
<1>2. mixed
  <2>1. N + 1 # 0
    BY BoardAssumption
  <2> QED
    BY <1>1, <2>1 DEF IInv, TableInv, Still, TurningUp, TurningBack, TurningAll
<1> QED
  BY <1>1, <1>2 DEF IInv, ScreenInv, MatchedInPairs, LivesInPlay, VerdictIsTrue,
     NewGameIsFresh, TableInv

LEMMA DrawGameCardsInv ==
    ASSUME IInv, DrawGameCards
    PROVE  ScreenInv' /\ LivesInPlay' /\ VerdictIsTrue' /\ NewGameIsFresh' /\ TableInv'
<1>1. /\ pc \in {"draw", "preview"} /\ gs = "Game" /\ ~initGame /\ condition
      /\ DrawCard(drawPos)
      /\ drawPos' = (IF LastCard THEN 0 ELSE drawPos + 1)
      /\ pc' = (IF ~LastCard THEN pc ELSE IF pc = "draw" THEN "play" ELSE "receive")
      /\ UNCHANGED <<face, flipSuccess, gs, prevState, initGame, game_over, victory,
                     condition, lives, isAlive, mixed>>
  BY DEF IInv, ScreenInv, DrawGameCards, verdict, player
<1>2. ~game_over /\ ~victory
  BY <1>1 DEF IInv, VerdictIsTrue
<1>3. MatchedInPairs'
  BY <1>1 DEF IInv, ScreenInv, MatchedInPairs
<1>4. TableInv'
  <2> SUFFICES ASSUME ~mixed PROVE TableInv'
    BY <1>1 DEF TableInv
  <2>1. /\ Still \/ TurningUp \/ TurningBack \/ TurningAll
        /\ flipSuccess \cap (isFlipped \cup isFlipping) = {}
        /\ flipSuccess \cap isFlipped = {} /\ TypeOK
    BY DEF IInv, TableInv
  <2>2. pc = "draw" => pc' \in {"draw", "play"}
    BY <1>1
  <2>3. CASE drawPos \notin isFlipping
    <3>1. UNCHANGED <<isFlipped, isFlipping, otherSide, increaseWidth>>
      BY <1>1, <2>3 DEF DrawCard, animation
    <3>2. Open' = Open
      BY <1>1, <3>1 DEF Open
    <3>3. ~TurningAll
      BY <2>1, <2>3 DEF TurningAll, TypeOK
    <3> QED
      BY <1>1, <1>2, <2>1, <2>2, <3>1, <3>2, <3>3
      DEF TableInv, Still, TurningUp, TurningBack, Alone
  <2>4. CASE drawPos \in isFlipping /\ TurningUp
    BY <1>1, <1>2, <2>1, <2>2, <2>4, UpStep DEF TableInv, TurningUp
  <2>5. CASE drawPos \in isFlipping /\ TurningBack
    BY <1>1, <1>2, <2>1, <2>2, <2>5, BackStep DEF TableInv, TurningBack
  <2>6. CASE TurningAll
    BY <1>1, <1>2, <2>1, <2>6, AllStep DEF TableInv
  <2> QED
    BY <2>1, <2>3, <2>4, <2>5, <2>6 DEF Still
<1> QED
  BY <1>1, <1>2, <1>3, <1>4
  DEF IInv, ScreenInv, LivesInPlay, VerdictIsTrue, NewGameIsFresh

-----------------------------------------------------------------------------
(* What the click adds: nothing, or one face-down card of a still table. *)
LEMMA ClickedCard ==
    ASSUME TypeOK, NEW p, spot.card # NoCard => p = spot.card
    PROVE  \/ Clicked(p) = isFlipping
           \/ /\ isFlipping = {} /\ lb
              /\ \E c \in isFlipped : Clicked(p) = {c}
<1>1. CASE ~(lb /\ isFlipping = {})
  BY <1>1 DEF Clicked
<1>2. CASE lb /\ isFlipping = {} /\ spot.card = NoCard
  BY <1>2 DEF Clicked, flipCardOnClick
<1>3. CASE lb /\ isFlipping = {} /\ spot.card # NoCard
  <2>1. Clicked(p) = {p} \ ({p} \ isFlipped)
    BY <1>3 DEF Clicked, flipCardOnClick
  <2>2. CASE p \in isFlipped
    BY <1>3, <2>1, <2>2
  <2>3. CASE p \notin isFlipped
    BY <1>3, <2>1, <2>3
  <2> QED
    BY <2>2, <2>3
<1> QED
  BY <1>1, <1>2, <1>3

(* Judging a table with at most one open card changes nothing. *)
LEMMA NothingToJudge ==
    ASSUME Alone
    PROVE  /\ Same = {} /\ Wrong = {} /\ WithFirst(Same) = {} /\ WithFirst(Wrong) = {}
           /\ \A flipping : Lost(flipping) = 0
<1>1. Later = {}
  <2>1. \A c \in Open : ~(c < c)
    BY BoardAssumption DEF Open, Cards
  <2> QED
    BY <2>1 DEF Later, Alone
<1>2. Same = {} /\ Wrong = {}
  BY <1>1 DEF Same, Wrong
<1>3. \A flipping : Wrong \ flipping = {}
  BY <1>2
<1> QED
  BY <1>2, <1>3, FS_EmptySet DEF WithFirst, Lost

(* Judging two open cards compares them. *)
LEMMA PairJudged ==
    ASSUME NEW a \in Open, NEW b \in Open, a < b, Open = {a, b}
    PROVE  /\ face[a] = face[b] => Wrong = {} /\ WithFirst(Same) = Open
           /\ face[a] # face[b] => Same = {} /\ Wrong = {b} /\ WithFirst(Wrong) = Open
<1>1. a \in Int /\ b \in Int
  BY BoardAssumption DEF Open, Cards
<1>2. Later = {b} /\ First = {a}
  BY <1>1 DEF Later, First
<1>3. CASE face[a] = face[b]
  <2>1. Same = {b} /\ Wrong = {}
    BY <1>2, <1>3 DEF Same, Wrong
  <2> QED
    BY <1>2, <1>3, <2>1 DEF WithFirst
<1>4. CASE face[a] # face[b]
  <2>1. Same = {} /\ Wrong = {b}
    BY <1>2, <1>4 DEF Same, Wrong
  <2> QED
    BY <1>2, <1>4, <2>1 DEF WithFirst
<1> QED
  BY <1>3, <1>4

(* The judging of a settled table, case by case.                           *)
LEMMA TurningIsNotJudged ==
    ASSUME TurningUp \/ TurningBack, NEW p
    PROVE  /\ Clicked(p) = isFlipping /\ Lost(isFlipping) = 0
           /\ WithFirst(Same) = {} /\ WithFirst(Wrong) \subseteq isFlipping
<1>1. isFlipping # {}
  BY DEF TurningUp, TurningBack
<1>2. Clicked(p) = isFlipping
  BY <1>1 DEF Clicked
<1>3. CASE TurningUp
  BY <1>2, <1>3, NothingToJudge DEF TurningUp
<1>4. CASE TurningBack
  <2>1. Same = {} /\ WithFirst(Wrong) = isFlipping /\ isFlipping = Open
    BY <1>4, PairJudged DEF TurningBack
  <2>2. Wrong \ isFlipping = {}
    BY <2>1, JudgedCards
  <2> QED
    BY <1>2, <2>1, <2>2, FS_EmptySet DEF WithFirst, Lost
<1> QED
  BY <1>3, <1>4

(* A loss on a table that never mixed its animations is one life for two   *)
(* unlike cards that lie still; they are the only cards that turn.         *)
LEMMA LossIsWrongPair ==
    ASSUME IInv, pc = "play", ~mixed, NEW p, spot.card # NoCard => p = spot.card,
           Judging, Lost(Clicked(p)) # 0, ~BothWays(Clicked(p) \cup WithFirst(Wrong))
    PROVE  /\ Still /\ Lost(Clicked(p)) = 1 /\ Clicked(p) \cup WithFirst(Wrong) = Open
           /\ Same = {}
           /\ \E a, b \in Open : a < b /\ face[a] # face[b] /\ Open = {a, b}
<1>1. ~initGame /\ TypeOK
  BY DEF IInv, ScreenInv
<1>2. Still
  BY TurningIsNotJudged DEF IInv, TableInv, TurningAll
<1>3. ~Alone
  BY NothingToJudge
<1>4. PICK a \in Open, b \in Open : a < b /\ Open = {a, b}
  BY <1>1, <1>2, <1>3 DEF Still
<1>5. face[a] # face[b]
  <2>1. Wrong # {}
    BY LostNeedsWrong
  <2> QED
    BY <1>4, <2>1, PairJudged
<1>6. Same = {} /\ Wrong = {b} /\ WithFirst(Wrong) = Open
  BY <1>4, <1>5, PairJudged
<1>7. Clicked(p) = {}
  <2>1. Open \cap isFlipped = {} /\ isFlipping = {}
    BY <1>2 DEF Open, Still
  <2> QED
    BY <1>1, <1>4, <1>6, <2>1, ClickedCard DEF BothWays
<1>8. Wrong \ Clicked(p) = {b}
  BY <1>6, <1>7
<1>9. Cardinality({b}) = 1
  BY FS_Singleton
<1> QED
  BY <1>2, <1>4, <1>5, <1>6, <1>7, <1>8, <1>9 DEF Lost

(* A still table stays still, gets one card turning up, or a wrong pair    *)
(* turning back.                                                           *)
LEMMA StillPlay ==
    ASSUME IInv, pc = "play", ~mixed, Still, NEW p, spot.card # NoCard => p = spot.card,
           UNCHANGED <<face, isFlipped, otherSide, increaseWidth, initGame>>,
           Judge(Clicked(p)), ~BothWays(isFlipping'), pc' = "receive"
    PROVE  /\ Still' \/ TurningUp' \/ TurningBack'
           /\ flipSuccess' \cap (isFlipped' \cup isFlipping') = {}
<1>1. /\ ~initGame /\ TypeOK
      /\ flipSuccess \cap isFlipped = {} /\ isFlipping = {}
      /\ otherSide = {} /\ increaseWidth = 1
  BY DEF IInv, ScreenInv, TableInv, Still
<1>2. \/ Clicked(p) = {}
      \/ \E c \in isFlipped : Clicked(p) = {c}
  BY <1>1, ClickedCard
<1>3. Open \cap isFlipped = {} /\ Open \cap flipSuccess = {}
  BY DEF Open
<1>4. ASSUME WithFirst(Wrong) = {}, Alone'
      PROVE  (Still' \/ TurningUp') /\ flipSuccess' \cap (isFlipped' \cup isFlipping') = {}
  <2>1. isFlipping' = Clicked(p) /\ flipSuccess' = flipSuccess \cup WithFirst(Same)
    BY <1>4 DEF Judge
  <2>2. flipSuccess' \cap isFlipped = {}
    BY <1>1, <1>3, <2>1, JudgedCards
  <2>3. CASE Clicked(p) = {}
    BY <1>1, <1>4, <2>1, <2>2, <2>3 DEF Still
  <2>4. CASE \E c \in isFlipped : Clicked(p) = {c}
    BY <1>1, <1>4, <2>1, <2>2, <2>4 DEF TurningUp
  <2> QED
    BY <1>2, <2>3, <2>4
<1>5. CASE Alone
  <2>1. WithFirst(Same) = {} /\ WithFirst(Wrong) = {}
    BY <1>5, NothingToJudge
  <2>2. Open' = Open
    BY <2>1 DEF Open, Judge
  <2> QED
    BY <1>4, <1>5, <2>1, <2>2 DEF Alone
<1>6. ASSUME NEW a \in Open, NEW b \in Open, a < b, Open = {a, b}
      PROVE  /\ Still' \/ TurningUp' \/ TurningBack'
             /\ flipSuccess' \cap (isFlipped' \cup isFlipping') = {}
  <2>1. CASE face[a] = face[b]
    <3>1. Wrong = {} /\ WithFirst(Same) = Open
      BY <1>6, <2>1, PairJudged
    <3>2. Open' = {} /\ WithFirst(Wrong) = {}
      BY <3>1 DEF Open, Judge, WithFirst
    <3> QED
      BY <1>4, <3>2 DEF Alone
  <2>2. CASE face[a] # face[b]
    <3>1. Same = {} /\ WithFirst(Wrong) = Open /\ WithFirst(Same) = {}
      BY <1>6, <2>2, PairJudged DEF WithFirst
    <3>2. isFlipping' = Clicked(p) \cup Open /\ flipSuccess' = flipSuccess
      BY <3>1 DEF Judge
    <3>3. Clicked(p) = {}
      BY <1>2, <1>3, <1>6, <3>2 DEF BothWays
    <3>4. Open' = Open /\ isFlipping' = Open'
      BY <3>2, <3>3 DEF Open
    <3>5. increaseWidth' >= 1 /\ increaseWidth' % 2 = 1
      BY <1>1
    <3>6. TurningBack'
      BY <1>1, <1>6, <2>2, <3>4, <3>5 DEF TurningBack
    <3> QED
      BY <1>1, <1>3, <3>2, <3>4, <3>6
  <2> QED
    BY <2>1, <2>2
<1> QED
  BY <1>1, <1>5, <1>6 DEF Still

LEMMA GamePlayInv ==
    ASSUME IInv, GamePlay
    PROVE  ScreenInv' /\ LivesInPlay' /\ VerdictIsTrue' /\ NewGameIsFresh' /\ TableInv'
<1>1. /\ pc = "play" /\ pc' = "receive" /\ mixed' = (mixed \/ BothWays(isFlipping'))
      /\ UNCHANGED <<face, isFlipped, otherSide, increaseWidth, prevState, initGame,
                     condition, tmr_tck_counter, drawPos>>
  BY DEF GamePlay
<1>2. PICK p : /\ spot.card # NoCard => p = spot.card
               /\ JudgeTable(Clicked(p), IF Judging THEN Lost(Clicked(p)) ELSE 0)
  BY DEF GamePlay
<1> DEFINE lost == IF Judging THEN Lost(Clicked(p)) ELSE 0
<1>3. /\ TypeOK /\ gs = "Game" /\ ~initGame /\ prevState # "Game"
      /\ lives \in 1 .. MaxLives /\ isAlive = TRUE /\ game_over = FALSE /\ victory = FALSE
      /\ MatchedInPairs
  BY <1>1 DEF IInv, ScreenInv, LivesInPlay, VerdictIsTrue, TypeOK
<1>4. lost \in Nat /\ lost <= N
  BY LostCount, BoardAssumption
<1>5. /\ lives' = Unsigned(lives - lost)
      /\ isAlive' <=> ~LastLifeLost(lost)
      /\ game_over' <=> LastLifeLost(lost)
      /\ victory' <=> EndGame
      /\ gs' = IF EndGame \/ LastLifeLost(lost) THEN "Exit"
               ELSE IF scancode = "ESC" THEN "Pause" ELSE gs
  <2> HIDE DEF lost
  <2>1. JudgeTable(Clicked(p), lost)
    BY <1>2 DEF lost
  <2> QED
    BY <1>3, <2>1 DEF JudgeTable
<1>6. /\ LastLifeLost(lost) => lost # 0
      /\ ~LastLifeLost(lost) => lives' \in 1 .. MaxLives
  <2>1. LastLifeLost(lost) => lives <= lost
    BY <1>3, <1>4, LifeCount
  <2>2. ~LastLifeLost(lost) => Unsigned(lives - lost) \in 1 .. MaxLives
    BY <1>3, <1>4, LifeCount
  <2> QED
    BY <1>3, <1>4, <1>5, <2>1, <2>2
<1>7. /\ Judging => Judge(Clicked(p))
      /\ ~Judging => UNCHANGED <<isFlipping, flipSuccess>>
  BY <1>2 DEF JudgeTable
<1>8. ~(LastLifeLost(lost) /\ EndGame)
  <2> SUFFICES ASSUME LastLifeLost(lost), EndGame PROVE FALSE
    OBVIOUS
  <2>1. Judging /\ Lost(Clicked(p)) # 0
    BY <1>6
  <2>2. PICK c \in Wrong : TRUE
    BY <2>1, LostNeedsWrong
  <2>3. c \in Open /\ c \notin Same /\ c \notin First
    BY <2>2 DEF Wrong, Later, First
  <2>4. c \notin flipSuccess' /\ c \in Cards
    BY <1>7, <2>1, <2>3 DEF Judge, WithFirst, Open
  <2> QED
    BY <2>4 DEF EndGame
<1>9. MatchedInPairs'
  <2>1. CASE ~Judging
    BY <1>1, <1>3, <1>7, <2>1 DEF MatchedInPairs
  <2>2. CASE Judging
    <3>1. flipSuccess' = flipSuccess \cup WithFirst(Same)
      BY <1>7, <2>2 DEF Judge
    <3> QED
      BY <1>1, <1>3, <3>1, NewMatchesArePairs DEF MatchedInPairs
  <2> QED
    BY <2>1, <2>2
<1>10. TableInv'
  <2> SUFFICES ASSUME ~mixed, ~BothWays(isFlipping') PROVE TableInv'
    BY <1>1 DEF TableInv
  <2>1. /\ Still \/ TurningUp \/ TurningBack
        /\ flipSuccess \cap (isFlipped \cup isFlipping) = {}
    BY <1>1 DEF IInv, TableInv, TurningAll
  <2>2. game_over' => otherSide' = {} /\ increaseWidth' = 1
    <3> SUFFICES ASSUME LastLifeLost(lost) PROVE otherSide = {} /\ increaseWidth = 1
      BY <1>1, <1>5
    <3>1. Judging /\ Lost(Clicked(p)) # 0
      BY <1>6
    <3> QED
      BY <2>1, <3>1, TurningIsNotJudged DEF Still
  <2>3. CASE Still
    <3>1. Judging
      BY <2>3 DEF Judging, Still
    <3> QED
      BY <1>1, <1>2, <1>7, <2>2, <2>3, <3>1, StillPlay DEF TableInv
  <2>4. CASE TurningUp \/ TurningBack
    <3>1. UNCHANGED <<isFlipping, flipSuccess>>
      <4>1. /\ Clicked(p) = isFlipping /\ WithFirst(Same) = {}
            /\ WithFirst(Wrong) \subseteq isFlipping
        BY <2>4, TurningIsNotJudged
      <4> QED
        BY <1>7, <4>1 DEF Judge
    <3>2. Open' = Open
      BY <1>1, <3>1 DEF Open
    <3>3. TurningUp' \/ TurningBack'
      BY <1>1, <2>4, <3>1, <3>2 DEF TurningUp, TurningBack, Alone
    <3> QED
      BY <1>1, <2>1, <2>2, <3>1, <3>3 DEF TableInv
  <2> QED
    BY <2>1, <2>3, <2>4
<1>11. LivesInPlay' /\ NewGameIsFresh'
  BY <1>1, <1>3, <1>5, <1>6 DEF LivesInPlay, NewGameIsFresh
<1>12. VerdictIsTrue'
  BY <1>5, <1>8 DEF VerdictIsTrue, EndGame
<1> QED
  BY <1>1, <1>3, <1>9, <1>10, <1>11, <1>12 DEF ScreenInv

-----------------------------------------------------------------------------
LEMMA InitIInv == Init => IInv
<1> SUFFICES ASSUME Init PROVE IInv
  OBVIOUS
<1>1. TypeOK
  <2>1. face \in [Cards -> Faces]
    BY BoardAssumption DEF Init
  <2>2. 0 \in 0 .. PreviewTicks - 1 /\ NoCard \in Cards \cup {NoCard}
    BY LoopAssumption
  <2>3. spot \in AllSpots
    BY DEF Init, Nowhere, AllSpots, Buttons
  <2>4. lives \in 0 .. LifeModulus - 1
    BY NewLives, LoopAssumption DEF Init
  <2>5. drawPos \in Cards /\ tmr_tck_counter \in 0 .. PreviewTicks - 1
    BY <2>2, ZeroCard DEF Init
  <2>6. increaseWidth \in Int
    BY DEF Init
  <2>7. /\ isFlipped = {} /\ isFlipping = {} /\ flipSuccess = {} /\ otherSide = {}
        /\ initGame \in BOOLEAN /\ condition \in BOOLEAN /\ game_over \in BOOLEAN
        /\ victory \in BOOLEAN /\ lb \in BOOLEAN /\ isAlive \in BOOLEAN /\ mixed \in BOOLEAN
    BY Zenon DEF Init
  <2>8. gs \in Screens /\ prevState = "Exit" /\ scancode = NoKey /\ pc = "receive"
    BY Zenon DEF Init, Screens
  <2> QED
    BY <2>1, <2>3, <2>4, <2>5, <2>6, <2>7, <2>8, Zenon DEF TypeOK
<1>2. ScreenInv /\ LivesInPlay /\ VerdictIsTrue /\ NewGameIsFresh
  BY NewLives DEF Init, ScreenInv, MatchedInPairs, LivesInPlay, VerdictIsTrue, NewGameIsFresh
<1>3. TableInv
  BY DEF Init, TableInv, Still
<1> QED
  BY <1>1, <1>2, <1>3 DEF IInv

LEMMA StepIInv == IInv /\ [Next]_vars => IInv'
<1> SUFFICES ASSUME IInv, [Next]_vars PROVE IInv'
  OBVIOUS
<1>1. TypeOK'
  BY TypeStep DEF IInv
<1>2. CASE ScreenStep
  <2>1. TableInv'
    BY <1>2, ScreenStepFrame, TableKept DEF IInv
  <2> QED
    BY <1>1, <1>2, <2>1, ScreenStepInv DEF IInv
<1>3. CASE ExitVerdict
  BY <1>1, <1>3, ExitVerdictInv DEF IInv
<1>4. CASE GamePreview
  BY <1>1, <1>4, GamePreviewInv DEF IInv
<1>5. CASE GameTick
  BY <1>1, <1>5, GameTickInv DEF IInv
<1>6. CASE DrawGameCards
  BY <1>1, <1>6, DrawGameCardsInv DEF IInv
<1>7. CASE GamePlay
  BY <1>1, <1>7, GamePlayInv DEF IInv
<1>8. CASE DivisionFault
  BY <1>1, <1>8, DivisionFaultInv DEF IInv
<1>9. CASE UNCHANGED vars
  <2>1. /\ UNCHANGED <<face, flipSuccess, isFlipped, isFlipping, otherSide, increaseWidth>>
        /\ UNCHANGED <<gs, prevState, initGame, game_over, victory, condition>>
        /\ UNCHANGED <<lives, isAlive, pc, drawPos, mixed>>
    BY <1>9 DEF vars, board, animation, verdict, player, control
  <2>2. UNCHANGED <<board, initGame, verdict, control>>
    BY <1>9 DEF vars
  <2>3. TableInv'
    BY <2>2, TableKept DEF IInv
  <2> QED
    BY <1>1, <2>1, <2>3
    DEF IInv, ScreenInv, MatchedInPairs, LivesInPlay, VerdictIsTrue, NewGameIsFresh
<1> QED
  BY <1>2, <1>3, <1>4, <1>5, <1>6, <1>7, <1>8, <1>9 DEF Next, TimerStep, ScreenStep

(***************************************************************************)
(* Every state of the loop of proj_main_loop, on any table and with any    *)
(* player, satisfies the inductive invariant.                              *)
(***************************************************************************)
THEOREM Invariance == Spec => []IInv
  BY InitIInv, StepIInv, PTL DEF Spec

(* Every field of the game state keeps its type: positions are positions   *)
(* of cardArray, the loop index is one, the counters stay in their range.  *)
THEOREM TypeCorrect == Spec => []TypeOK
<1>1. IInv => TypeOK
  BY DEF IInv
<1> QED
  BY <1>1, Invariance, PTL

(* The unsigned lives counter of proj.c:281 never passes zero in a game    *)
(* that can go on, although one judging pass may take several lives.       *)
THEOREM LivesAreSound == Spec => []LivesInPlay
<1>1. IInv => LivesInPlay
  BY DEF IInv
<1> QED
  BY <1>1, Invariance, PTL

(* The verdict of proj.c:282-307 is never ambiguous and never wrong.       *)
THEOREM VerdictIsSound == Spec => []VerdictIsTrue
<1>1. IInv => VerdictIsTrue
  BY DEF IInv
<1> QED
  BY <1>1, Invariance, PTL

(* Every game starts from a fresh table, although initialize_game_cards    *)
(* leaves otherSide and increaseWidth as the last game left them.          *)
THEOREM FreshStart == Spec => []NewGameIsFresh
<1>1. IInv => NewGameIsFresh
  BY DEF IInv
<1> QED
  BY <1>1, Invariance, PTL

(* Matched cards are pairs and stay face up as long as the animations are  *)
(* never mixed.                                                            *)
THEOREM MatchedSafe == Spec => []MatchedStayUp
<1>1. IInv => MatchedStayUp
  BY DEF IInv, ScreenInv, TableInv, MatchedStayUp
<1> QED
  BY <1>1, Invariance, PTL

(* The divisor of game.c:329-448 never reaches zero and is 1 at rest, as   *)
(* long as the animations are never mixed.                                 *)
THEOREM WidthSafe == Spec => []WidthIsSound
<1>1. IInv => WidthIsSound
  <2>1. N + 1 >= 1 /\ Cards # {}
    BY ZeroCard, BoardAssumption
  <2> QED
    BY <2>1 DEF IInv, TableInv, Still, TurningUp, TurningBack, TurningAll, WidthIsSound
<1> QED
  BY <1>1, Invariance, PTL

(* Between interrupts at most two unmatched cards are face up, and two are *)
(* a wrong pair on its way down.                                           *)
THEOREM TwoOpen == Spec => []AtMostTwoOpen
<1>1. IInv => AtMostTwoOpen
  <2> SUFFICES ASSUME IInv, pc = "receive", ~initGame, ~mixed,
                      NEW a \in Open, NEW b \in Open, a # b
               PROVE  Open = {a, b} /\ face[a] # face[b] /\ Open = isFlipping
    BY DEF AtMostTwoOpen
  <2>1. TurningBack
    BY DEF IInv, TableInv, Still, TurningUp, TurningAll, Alone
  <2> QED
    BY <2>1 DEF TurningBack
<1> QED
  BY <1>1, Invariance, PTL

-----------------------------------------------------------------------------
(* Only judging the table and leaving the Exit screen touch the game.      *)
LEMMA RulesFrame ==
    ASSUME [Next]_vars, ~ExitVerdict, ~GamePlay
    PROVE  UNCHANGED <<face, flipSuccess, lives, game_over, victory>>
<1>1. CASE ScreenStep
  BY <1>1, ScreenStepFrame DEF board, verdict, player
<1>2. CASE GamePreview
  BY <1>2 DEF GamePreview, verdict, player
<1>3. CASE GameTick
  BY <1>3 DEF GameTick, board, verdict, player
<1>4. CASE DrawGameCards
  BY <1>4 DEF DrawGameCards, verdict, player
<1>5. CASE DivisionFault
  BY <1>5 DEF DivisionFault, board, verdict, player
<1>6. CASE UNCHANGED vars
  BY <1>6 DEF vars, board, verdict, player
<1> QED
  BY <1>1, <1>2, <1>3, <1>4, <1>5, <1>6 DEF Next, TimerStep, ScreenStep

(* What judging does to matched cards and lives. *)
LEMMA GamePlayRules ==
    ASSUME IInv, GamePlay
    PROVE  /\ gs = "Game" /\ game_over = FALSE /\ victory = FALSE
           /\ face' = face /\ victory' \in BOOLEAN /\ game_over' \in BOOLEAN
           /\ flipSuccess' = flipSuccess \/ flipSuccess' = flipSuccess \cup WithFirst(Same)
           /\ victory' => flipSuccess' = Cards
           /\ \E p : /\ spot.card # NoCard => p = spot.card
                     /\ lives' = lives \/ (Judging /\ Lost(Clicked(p)) # 0)
                     /\ ~game_over' => lives' \in 1 .. lives
                     /\ Judging => lives' = Unsigned(lives - Lost(Clicked(p)))
                     /\ Judging => isFlipping' = Clicked(p) \cup WithFirst(Wrong)
<1>1. /\ pc = "play" /\ face' = face
      /\ TypeOK /\ gs = "Game" /\ lives \in 1 .. MaxLives /\ isAlive
      /\ game_over = FALSE /\ victory = FALSE
  BY DEF GamePlay, IInv, ScreenInv, LivesInPlay, VerdictIsTrue, TypeOK
<1>2. PICK p : /\ spot.card # NoCard => p = spot.card
               /\ JudgeTable(Clicked(p), IF Judging THEN Lost(Clicked(p)) ELSE 0)
  BY DEF GamePlay
<1> DEFINE lost == IF Judging THEN Lost(Clicked(p)) ELSE 0
<1>3. lost \in Nat /\ lost <= N
  BY LostCount, BoardAssumption
<1>4. lost = IF Judging THEN Lost(Clicked(p)) ELSE 0
  OBVIOUS
<1> HIDE DEF lost
<1>5. JudgeTable(Clicked(p), lost)
  BY <1>2, <1>4
<1>6. /\ lives' = Unsigned(lives - lost)
      /\ game_over' <=> LastLifeLost(lost)
      /\ victory' <=> EndGame
      /\ IF Judging THEN Judge(Clicked(p)) ELSE UNCHANGED <<isFlipping, flipSuccess>>
  BY <1>1, <1>5 DEF JudgeTable
<1>7. MaxLives \in Nat
  BY LoopAssumption
<1>8. ~game_over' => lives' = lives - lost /\ lives - lost \in 1 .. MaxLives
  BY <1>1, <1>3, <1>6, LifeCount
<1>9. ~game_over' => lives' \in 1 .. lives
  BY <1>1, <1>3, <1>7, <1>8
<1>10. lost = 0 => lives' = lives
  BY <1>1, <1>6, <1>7 DEF Unsigned
<1>11. victory' \in BOOLEAN /\ game_over' \in BOOLEAN
  BY TypeStep DEF IInv, Next, TimerStep, TypeOK
<1> QED
  BY <1>1, <1>2, <1>4, <1>6, <1>8, <1>9, <1>10, <1>11 DEF Judge, EndGame

(***************************************************************************)
(* Outside mixed animations, proj.c:275-290 takes exactly one life, and    *)
(* only for two unlike cards that lay still and now turn back.             *)
(***************************************************************************)
THEOREM OneLifePerWrongPair == Spec => LifeForWrongPair
<1>1. IInv /\ IInv' /\ [Next]_vars => [LifeLostFairly]_vars
  <2> SUFFICES ASSUME IInv, IInv', [Next]_vars, lives' # lives, gs' # "Menu", ~mixed'
               PROVE  /\ lives' = lives - 1
                      /\ \E a, b \in Cards \ (isFlipped \cup flipSuccess) :
                            face[a] # face[b] /\ isFlipping = {} /\ isFlipping' = {a, b}
    BY DEF LifeLostFairly
  <2>1. ~ExitVerdict
    BY DEF ExitVerdict, NewGame, player
  <2>2. GamePlay
    BY <2>1, RulesFrame
  <2>3. PICK p : /\ spot.card # NoCard => p = spot.card
                 /\ Judging /\ Lost(Clicked(p)) # 0
                 /\ lives' = Unsigned(lives - Lost(Clicked(p)))
                 /\ isFlipping' = Clicked(p) \cup WithFirst(Wrong)
    BY <2>2, GamePlayRules
  <2>4. pc = "play" /\ ~mixed /\ ~BothWays(isFlipping')
    BY <2>2 DEF GamePlay
  <2>5. /\ Still /\ Lost(Clicked(p)) = 1 /\ isFlipping' = Open
        /\ \E a, b \in Open : a < b /\ face[a] # face[b] /\ Open = {a, b}
    BY <2>3, <2>4, LossIsWrongPair
  <2>6. lives \in 1 .. MaxLives /\ lives' = Unsigned(lives - 1)
    BY <2>2, <2>3, <2>5, GamePlayRules DEF IInv, LivesInPlay
  <2>7. lives' = lives - 1
    BY <2>6, NewLives DEF Unsigned
  <2> QED
    BY <2>5, <2>7 DEF Still, Open
<1> QED
  BY <1>1, Invariance, PTL DEF Spec, LifeForWrongPair

-----------------------------------------------------------------------------
(***************************************************************************)
(* Nothing but the drawing of an animated card moves an animation, and     *)
(* that always brings it nearer to its end.                                *)
(***************************************************************************)
AnimationAdvances ==
    ~mixed' /\ isFlipping # {} =>
        \/ isFlipping' = {}
        \/ Advances
        \/ /\ UNCHANGED animation
           /\ ~(pc \in {"draw", "preview"} /\ drawPos \in isFlipping)

LEMMA DrawingAdvances ==
    ASSUME IInv, DrawGameCards, ~mixed, drawPos \in isFlipping
    PROVE  isFlipping' = {} \/ Advances
<1>1. /\ pc \in {"draw", "preview"}
      /\ DrawCard(drawPos)
      /\ drawPos' = (IF LastCard THEN 0 ELSE drawPos + 1)
      /\ pc' = (IF ~LastCard THEN pc ELSE IF pc = "draw" THEN "play" ELSE "receive")
      /\ UNCHANGED <<face, flipSuccess, initGame, mixed>>
  BY DEF DrawGameCards
<1>2. /\ TypeOK /\ flipSuccess \cap isFlipped = {}
      /\ TurningUp \/ TurningBack \/ TurningAll
  BY DEF IInv, TableInv, Still
<1>3. CASE TurningUp
  BY <1>1, <1>2, <1>3, UpStep DEF TurningUp
<1>4. CASE TurningBack
  BY <1>1, <1>2, <1>4, BackStep DEF TurningBack
<1>5. CASE TurningAll
  BY <1>1, <1>2, <1>5, AllStep
<1> QED
  BY <1>2, <1>3, <1>4, <1>5

(***************************************************************************)
(* The animation of game.c:359-463 cannot be stuck or set back: without    *)
(* mixed animations every call of flipACardUp or flipACardDown ends it or  *)
(* moves the shared divisor in the direction in which it has to go, and no *)
(* other step of the loop, a click, a key or a change of screen, touches   *)
(* it.  This is the argument for the model-checked FlipEnds, for every     *)
(* table and every FlipLimit.                                              *)
(***************************************************************************)
THEOREM FlipsAdvance == Spec => [][AnimationAdvances]_vars
<1>1. IInv /\ [Next]_vars => [AnimationAdvances]_vars
  <2> SUFFICES ASSUME IInv, Next, ~mixed', isFlipping # {}, isFlipping' # {}
               PROVE  \/ Advances
                      \/ /\ UNCHANGED animation
                         /\ ~(pc \in {"draw", "preview"} /\ drawPos \in isFlipping)
    BY DEF AnimationAdvances
  <2>1. CASE ScreenStep
    <3>1. pc = "receive"
      BY <2>1 DEF ScreenStep, KeyInterrupt, MouseInterrupt, MenuPlay, MenuInstructions, MenuExit,
         MenuIdle, PauseResume, PauseInstructions, PauseExit, PauseIdle, InstructionsOfGame,
         InstructionsOfMenu, ExitQuit, TimerInterrupt, Receiving
    <3> QED
      BY <2>1, <3>1, ScreenStepFrame DEF board
  <2>2. CASE ExitVerdict
    BY <2>2 DEF ExitVerdict, NewGame, DealCards, TimerInterrupt, Receiving, board
  <2>3. CASE GamePreview
    BY <2>3 DEF GamePreview, IInv, TableInv, Still, TurningUp, TurningBack, TurningAll
  <2>4. CASE GameTick
    BY <2>4 DEF GameTick, TimerInterrupt, Receiving, board
  <2>5. CASE DrawGameCards
    <3>1. ~mixed
      BY <2>5 DEF DrawGameCards
    <3>2. drawPos \notin isFlipping => UNCHANGED animation
      BY <2>5 DEF DrawGameCards, DrawCard
    <3> QED
      BY <2>5, <3>1, <3>2, DrawingAdvances
  <2>6. CASE DivisionFault
    <3>1. N + 1 # 0 /\ isFlipping # {} /\ increaseWidth = 0 /\ ~mixed
      BY <2>6, BoardAssumption DEF DivisionFault, DividesByZero
    <3> QED
      BY <3>1 DEF IInv, TableInv, Still, TurningUp, TurningBack, TurningAll
  <2>7. CASE GamePlay
    <3>1. /\ pc = "play" /\ ~mixed
          /\ UNCHANGED <<isFlipped, otherSide, increaseWidth>>
      BY <2>7 DEF GamePlay
    <3>2. TurningUp \/ TurningBack
      BY <3>1 DEF IInv, TableInv, Still, TurningAll
    <3>3. PICK p : JudgeTable(Clicked(p), IF Judging THEN Lost(Clicked(p)) ELSE 0)
      BY <2>7 DEF GamePlay
    <3>4. isFlipping' = isFlipping
      <4>1. Clicked(p) = isFlipping /\ WithFirst(Wrong) \subseteq isFlipping
        BY <3>2, TurningIsNotJudged
      <4>2. isFlipping' = isFlipping \/ isFlipping' = Clicked(p) \cup WithFirst(Wrong)
        BY <3>3 DEF JudgeTable, Judge
      <4> QED
        BY <4>1, <4>2
    <3> QED
      BY <3>1, <3>4 DEF animation
  <2> QED
    BY <2>1, <2>2, <2>3, <2>4, <2>5, <2>6, <2>7 DEF Next, TimerStep, ScreenStep
<1> QED
  BY <1>1, Invariance, PTL DEF Spec

(***************************************************************************)
(* The loop refines the rules of memory for every player: judging is a     *)
(* Choice, the end of the Exit screen is Again, all other steps stutter.   *)
(***************************************************************************)
THEOREM Refinement == Spec => PlaysMemory
<1> DEFINE left == IF game_over THEN 0 ELSE lives
           result == IF game_over THEN "lost" ELSE IF victory THEN "won" ELSE "playing"
<1>1. Init => Memory!Start
  BY DEF Init, Memory!Start
<1>2. ASSUME IInv, IInv', [Next]_vars
      PROVE  [Memory!Choice \/ Memory!Again]_(Memory!rules)
  <2>1. CASE ~ExitVerdict /\ ~GamePlay
    <3>1. UNCHANGED <<face, flipSuccess, lives, game_over, victory>>
      BY <1>2, <2>1, RulesFrame
    <3> QED
      BY <3>1 DEF Memory!rules
  <2>2. CASE ExitVerdict /\ Ticks # 0
    <3>1. UNCHANGED <<face, flipSuccess, lives, game_over, victory>>
      BY <2>2 DEF ExitVerdict, board, verdict, player
    <3> QED
      BY <3>1 DEF Memory!rules
  <2>3. CASE ExitVerdict /\ Ticks = 0
    <3>1. /\ game_over \/ victory
          /\ game_over' = FALSE /\ victory' = FALSE /\ lives' = MaxLives
          /\ face' \in Deals /\ flipSuccess' = {}
      BY <2>3 DEF ExitVerdict, NewGame, initializePlayer, DealCards
    <3>2. Memory!Again
      BY <3>1 DEF Memory!Again, Memory!NewTable
    <3> QED
      BY <3>2
  <2>4. CASE GamePlay
    <3>1. /\ gs = "Game" /\ game_over = FALSE /\ victory = FALSE /\ face' = face
          /\ victory' \in BOOLEAN /\ game_over' \in BOOLEAN
          /\ flipSuccess' = flipSuccess \/ flipSuccess' = flipSuccess \cup WithFirst(Same)
          /\ victory' => flipSuccess' = Cards
          /\ ~game_over' => lives' \in 1 .. lives
      BY <1>2, <2>4, GamePlayRules
    <3>2. lives \in 0 .. LifeModulus - 1 /\ LifeModulus \in Nat /\ flipSuccess' \subseteq Cards
      BY <1>2, LoopAssumption DEF IInv, TypeOK
    <3>3. \A c \in flipSuccess' \ flipSuccess :
             \E d \in flipSuccess' \ flipSuccess : c # d /\ face[c] = face[d]
      <4>1. WithFirst(Same) \cap flipSuccess = {}
        BY JudgedCards DEF Open
      <4> QED
        BY <3>1, <4>1, NewMatchesArePairs
    <3>4. left' \in 0 .. left /\ left = lives /\ result = "playing"
      BY <3>1, <3>2
    <3>5. \/ result' = "playing" /\ left' > 0
          \/ result' = "lost" /\ left' = 0
          \/ result' = "won" /\ left' > 0 /\ flipSuccess' = Cards
      BY <3>1, <3>2
    <3>6. flipSuccess \subseteq flipSuccess'
      BY <3>1
    <3>7. Memory!Choice
      BY <3>1, <3>2, <3>3, <3>4, <3>5, <3>6 DEF Memory!Choice
    <3> QED
      BY <3>7
  <2> QED
    BY <2>1, <2>2, <2>3, <2>4
<1> QED
  BY <1>1, <1>2, Invariance, PTL DEF Spec, PlaysMemory, Memory!Rules
=============================================================================
